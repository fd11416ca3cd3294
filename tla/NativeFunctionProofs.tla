------------------------ MODULE NativeFunctionProofs ------------------------
(***************************************************************************)
(* Proofs about NativeFunction, for every value of its constants: types,   *)
(* one awaited execution per source, receipts that stand and are what the  *)
(* workflows were told, and the refinement of FunctionDelivery.            *)
(***************************************************************************)
EXTENDS NativeFunction, NaturalsLemmas

(* A workflow that calls has an outcome to post, and only then.             *)
CallsHaveOutcome ==
    \A e \in Executions :
        /\ workflows[e].calling => workflows[e].at = "finalizing"
        /\ workflows[e].at = "finalizing" => workflows[e].outcome \in Outcomes

(* Whatever is started, or was posted by an abandoned call, has its birth in *)
(* the log.                                                                 *)
Born(e) == e \in Persisted /\ spawns[e].prepared

OnlyBornStart ==
    /\ dispatching # 0 => Born(dispatching)
    /\ \A e \in sweep : Born(e)
    /\ \A c \in orphans : Born(c.execution)

(* A receipt is of an execution that was requested.                         *)
ReceiptsOfRequests == \A e \in Executions : receipts[e] # "none" => e \in Persisted

(* A callback waits for confirmation only where the source does; and no      *)
(* execution of a source that cannot leave is open beside it.               *)
CallbacksAwaited ==
    \A p \in pending : p.action # "request" =>
        /\ p.action = "succeeded" /\ p.src \in Gated
        /\ p.src \notin Withdrawable =>
             node[p.src] \in {"enriching", "enriched"} /\ Unfinished(p.src) = {}

IInv ==
    /\ TypeOK
    /\ CallsHaveOutcome
    /\ OnlyBornStart
    /\ ReceiptsOfRequests
    /\ CallbacksAwaited
    /\ AwaitedExecution

-----------------------------------------------------------------------------
(* The least of a set of naturals is one of them: the sweep asks for a row  *)
(* that is there.                                                           *)
LEMMA MinOfNaturals ==
    ASSUME NEW S \in SUBSET Nat, S # {}
    PROVE  Min(S) \in S
<1>1. PICK m \in S : \A s \in S : m <= s
  BY LeastNatural
<1> QED
  BY <1>1, Zenon DEF Min

LEMMA InitIInv == Init => IInv
<1> SUFFICES ASSUME Init PROVE IInv
  OBVIOUS
<1> USE NativeFunctionAssumption DEF Init
<1>1. TypeOK
  BY DEF TypeOK, Executions, Persisted, Outcomes, Nodes, NoWorkflow
<1>2. CallsHaveOutcome /\ OnlyBornStart /\ ReceiptsOfRequests /\ CallbacksAwaited
  BY DEF CallsHaveOutcome, OnlyBornStart, ReceiptsOfRequests, CallbacksAwaited, NoWorkflow
<1>3. AwaitedExecution
  BY DEF AwaitedExecution, Unfinished, Persisted
<1> QED
  BY <1>1, <1>2, <1>3 DEF IInv

-----------------------------------------------------------------------------
(* What a start, a refusal and the close of a workflow leave well typed.    *)
Workflow == [at : {"none", "executing", "finalizing", "closed", "failed"},
             outcome : Outcomes \union {"none"},
             tries : 0..(MaxTries - 1), calling : BOOLEAN]

Consistent(w) ==
    /\ w.calling => w.at = "finalizing"
    /\ w.at = "finalizing" => w.outcome \in Outcomes

(* Every value a workflow is given is a workflow whose fields agree.        *)
LEMMA WorkflowValues ==
    ASSUME IInv
    PROVE  /\ NoWorkflow \in Workflow /\ Consistent(NoWorkflow)
           /\ Executing \in Workflow /\ Consistent(Executing)
           /\ Failed \in Workflow /\ Consistent(Failed)
           /\ \A o \in Outcomes : Finalizing(o) \in Workflow /\ Consistent(Finalizing(o))
           /\ \A o \in Outcomes \union {"none"} : Closed(o) \in Workflow /\ Consistent(Closed(o))
           /\ \A e \in Executions : /\ workflows[e] \in Workflow /\ Consistent(workflows[e])
                                    /\ Refused(e) \in Workflow /\ Consistent(Refused(e))
<1> USE NativeFunctionAssumption DEF Workflow, Consistent
<1>1. /\ NoWorkflow \in Workflow
      /\ NoWorkflow.at = "none" /\ ~NoWorkflow.calling
  BY DEF Outcomes, NoWorkflow
<1>2. Executing \in Workflow /\ Consistent(Executing)
  BY <1>1 DEF Outcomes, Executing
<1>3. Failed \in Workflow /\ Consistent(Failed)
  BY <1>1 DEF Outcomes, Failed
<1>6. ASSUME NEW o \in Outcomes \union {"none"} PROVE Closed(o) \in Workflow /\ Consistent(Closed(o))
  BY <1>1 DEF Outcomes, Closed
<1>4. ASSUME NEW o \in Outcomes PROVE Finalizing(o) \in Workflow /\ Consistent(Finalizing(o))
  BY <1>1 DEF Outcomes, Finalizing
<1>5. ASSUME NEW e \in Executions
      PROVE  /\ workflows[e] \in Workflow /\ Consistent(workflows[e])
             /\ Refused(e) \in Workflow /\ Consistent(Refused(e))
  <2>1. workflows[e] \in Workflow /\ Consistent(workflows[e])
    BY DEF IInv, TypeOK, CallsHaveOutcome
  <2>2. Refused(e) \in Workflow /\ Consistent(Refused(e))
    <3>1. CASE workflows[e].tries + 1 = MaxTries
      BY <3>1, <1>3 DEF Refused
    <3>2. CASE workflows[e].tries + 1 # MaxTries
      <4>1. Refused(e) = [workflows[e] EXCEPT !.calling = FALSE, !.tries = @ + 1]
        BY <3>2 DEF Refused
      <4>2. workflows[e].tries + 1 \in 0..(MaxTries - 1)
        BY <3>2, <2>1
      <4>3. /\ Refused(e) \in Workflow
            /\ Refused(e).at = workflows[e].at /\ Refused(e).outcome = workflows[e].outcome
            /\ ~Refused(e).calling
        BY <4>1, <4>2, <2>1
      <4> QED BY <4>3, <2>1
    <3> QED BY <3>1, <3>2
  <2> QED BY <2>1, <2>2
<1> QED
  BY <1>1, <1>2, <1>3, <1>4, <1>5, <1>6

(* The part of the invariant that speaks of workflows.                      *)
WorkflowsOK ==
    /\ workflows \in [Executions -> Workflow]
    /\ CallsHaveOutcome
    /\ \A e \in Executions : workflows[e].at # "none" => Born(e)

LEMMA WorkflowsFromIInv == IInv => WorkflowsOK
BY DEF IInv, TypeOK, WorkflowsOK, Workflow, Born

(* Giving one started workflow a consistent value keeps the others as they  *)
(* were.                                                                    *)
LEMMA OneWorkflowChanges ==
    ASSUME WorkflowsOK, spawns' = spawns,
           NEW e \in Executions, Born(e),
           NEW w \in Workflow, Consistent(w),
           workflows' = [workflows EXCEPT ![e] = w]
    PROVE  WorkflowsOK'
<1>1. \A d \in Executions : workflows'[d] = IF d = e THEN w ELSE workflows[d]
  BY DEF WorkflowsOK
<1>2. workflows' \in [Executions -> Workflow]
  BY DEF WorkflowsOK
<1>3. CallsHaveOutcome'
  BY <1>1 DEF WorkflowsOK, CallsHaveOutcome, Consistent
<1>4. \A d \in Executions : Born(d)' <=> Born(d)
  BY DEF Born, Persisted
<1>5. \A d \in Executions : workflows'[d].at # "none" => Born(d)'
  BY <1>1, <1>4 DEF WorkflowsOK
<1> QED
  BY <1>2, <1>3, <1>5 DEF WorkflowsOK

(* Only an execution that is one of the model's can have started.           *)
LEMMA BornExecution == ASSUME IInv, NEW e, Born(e) PROVE e \in Executions
BY NativeFunctionAssumption DEF IInv, TypeOK, Born, Persisted, Executions

(* Starting a workflow, also one that exists already, leaves every workflow *)
(* consistent.                                                              *)
LEMMA StartedWorkflow ==
    ASSUME IInv, NEW e, Born(e), StartWorkflow(e), spawns' = spawns
    PROVE  WorkflowsOK'
<1>1. e \in Executions /\ WorkflowsOK
  BY BornExecution, WorkflowsFromIInv
<1>2. CASE Running(e)
  BY <1>1, <1>2 DEF StartWorkflow, WorkflowsOK, CallsHaveOutcome, Born, Persisted
<1>3. CASE ~Running(e)
  BY <1>1, <1>3, OneWorkflowChanges, WorkflowValues DEF StartWorkflow
<1> QED
  BY <1>2, <1>3

-----------------------------------------------------------------------------
(* What requests, receipts, nodes and confirmations say of each other.      *)
LogOK == ReceiptsOfRequests /\ CallbacksAwaited /\ AwaitedExecution

LogTypeOK ==
    /\ spawns \in Seq([src : Sources, prepared : BOOLEAN]) /\ Len(spawns) <= MaxSpawns
    /\ receipts \in [Executions -> Outcomes \union {"none"}]
    /\ node \in [Sources -> Nodes] /\ snapshot \in [Sources -> Nodes]
    /\ pending \subseteq [src : Sources, action : Outcomes \union {"request"},
                          execution : Executions \union {0}]

(* A spawn appends one row, for its source, and moves that source to        *)
(* enriching.                                                               *)
LEMMA SpawnAppends ==
    ASSUME LogTypeOK, NEW s \in Sources, NEW b \in BOOLEAN, Spawn(s, b)
    PROVE  /\ spawns' \in Seq([src : Sources, prepared : BOOLEAN])
           /\ Len(spawns') = Len(spawns) + 1 /\ Len(spawns') <= MaxSpawns
           /\ Len(spawns') \in Executions /\ Len(spawns') \notin Persisted
           /\ Persisted' = Persisted \union {Len(spawns')}
           /\ \A i \in Persisted : spawns'[i] = spawns[i]
           /\ spawns'[Len(spawns')].src = s /\ spawns'[Len(spawns')].prepared = b
           /\ node' = [node EXCEPT ![s] = "enriching"] /\ snapshot' = node'
<1> USE NativeFunctionAssumption DEF LogTypeOK, Spawn, Persisted, Executions
<1>1. [src |-> s, prepared |-> b] \in [src : Sources, prepared : BOOLEAN]
  OBVIOUS
<1> DEFINE row == [src |-> s, prepared |-> b]
           R == [src : Sources, prepared : BOOLEAN]
<1>2. row \in R /\ spawns \in Seq(R) /\ spawns' = Append(spawns, row) /\ Len(spawns) < MaxSpawns
  BY <1>1
<1> HIDE DEF row, R
<1>3. /\ spawns' \in Seq(R) /\ Len(spawns') = Len(spawns) + 1 /\ Len(spawns) \in Nat
      /\ \A i \in 1..Len(spawns) : spawns'[i] = spawns[i]
      /\ spawns'[Len(spawns) + 1] = row
  BY <1>2
<1>4. row.src = s /\ row.prepared = b
  BY DEF row
<1>5. spawns' \in Seq([src : Sources, prepared : BOOLEAN])
  BY <1>3 DEF R
<1> QED
  BY <1>2, <1>3, <1>4, <1>5

(* A persisted row names the source that asked for it.                      *)
LEMMA RowsHaveSources == ASSUME LogTypeOK, NEW e \in Persisted PROVE spawns[e].src \in Sources
<1> DEFINE R == [src : Sources, prepared : BOOLEAN]
<1>1. \A r \in R : r.src \in Sources
  OBVIOUS
<1>2. spawns \in Seq(R)
  BY DEF LogTypeOK
<1> HIDE DEF R
<1> QED
  BY <1>1, <1>2 DEF Persisted

(* A spawn of a source that is ready keeps log, nodes and receipts in       *)
(* agreement.                                                               *)
LEMMA SpawnKeepsLog ==
    ASSUME LogTypeOK, LogOK, NEW s \in Sources, NEW b \in BOOLEAN, Spawn(s, b),
           node[s] \in Ready, receipts' = receipts, pending' \subseteq pending \union {Proposal(s)}
    PROVE  LogOK'
<1> DEFINE new == Len(spawns')
<1>1. /\ new \in Executions /\ new \notin Persisted /\ Persisted' = Persisted \union {new}
      /\ \A i \in Persisted : spawns'[i] = spawns[i]
      /\ spawns'[new].src = s
      /\ node' = [node EXCEPT ![s] = "enriching"]
  BY SpawnAppends, Zenon
<1> HIDE DEF new
<1>2. receipts'[new] = "none"
  BY <1>1 DEF LogTypeOK, LogOK, ReceiptsOfRequests
<1>3. \A t \in Sources : Unfinished(t)' = Unfinished(t) \union (IF t = s THEN {new} ELSE {})
  BY <1>1, <1>2 DEF Unfinished
<1>4. node'[s] = "enriching" /\ \A t \in Sources \ {s} : node'[t] = node[t]
  BY <1>1 DEF LogTypeOK
<1>5. ReceiptsOfRequests'
  BY <1>1 DEF LogOK, ReceiptsOfRequests
<1>6. CallbacksAwaited'
  <2> SUFFICES ASSUME NEW p \in pending', p.action # "request"
               PROVE  /\ p.action = "succeeded" /\ p.src \in Gated
                      /\ p.src \notin Withdrawable =>
                           node'[p.src] \in {"enriching", "enriched"} /\ Unfinished(p.src)' = {}
    BY Zenon DEF CallbacksAwaited
  <2>1. Proposal(s).action = "request"
    BY DEF Proposal
  <2>2. p \in pending /\ p.src \in Sources
    BY <2>1 DEF LogTypeOK
  <2>3. /\ p.action = "succeeded" /\ p.src \in Gated
        /\ p.src \notin Withdrawable =>
             node[p.src] \in {"enriching", "enriched"} /\ Unfinished(p.src) = {}
    BY <2>2, Zenon DEF LogOK, CallbacksAwaited
  <2>4. p.src \notin Withdrawable => p.src # s
    BY <2>3 DEF Ready
  <2> QED BY <1>3, <1>4, <2>2, <2>3, <2>4
<1>7. AwaitedExecution'
  <2>1. node[s] # "enriching"
    BY DEF Ready
  <2> QED BY <1>3, <1>4, <2>1 DEF LogOK, AwaitedExecution
<1> QED
  BY <1>5, <1>6, <1>7 DEF LogOK

(* A source that moves without a receipt: a human answers or withdraws.      *)
LEMMA MoveKeepsLog ==
    ASSUME LogTypeOK, LogOK, NEW s \in Sources,
           \/ s \in Withdrawable /\ node' = [node EXCEPT ![s] = "failed"]
           \/ Unfinished(s) = {} /\ node' = [node EXCEPT ![s] = "enriched"]
           \/ s \in Withdrawable /\ node' = [node EXCEPT ![s] = "enriched"],
           pending' \subseteq pending,
           spawns' = spawns, receipts' = receipts
    PROVE  LogOK'
<1>1. \A t \in Sources : Unfinished(t)' = Unfinished(t)
  BY DEF Unfinished, Persisted
<1>2. /\ \A t \in Sources \ {s} : node'[t] = node[t]
      /\ node'[s] # "enriching"
      /\ s \notin Withdrawable => node'[s] = "enriched" /\ Unfinished(s) = {}
  BY DEF LogTypeOK
<1>3. ReceiptsOfRequests'
  BY DEF LogOK, ReceiptsOfRequests, Persisted
<1>4. CallbacksAwaited'
  <2> SUFFICES ASSUME NEW p \in pending', p.action # "request"
               PROVE  /\ p.action = "succeeded" /\ p.src \in Gated
                      /\ p.src \notin Withdrawable =>
                           node'[p.src] \in {"enriching", "enriched"} /\ Unfinished(p.src)' = {}
    BY Zenon DEF CallbacksAwaited
  <2>1. p \in pending /\ p.src \in Sources
    BY DEF LogTypeOK
  <2>2. /\ p.action = "succeeded" /\ p.src \in Gated
        /\ p.src \notin Withdrawable =>
             node[p.src] \in {"enriching", "enriched"} /\ Unfinished(p.src) = {}
    BY <2>1, Zenon DEF LogOK, CallbacksAwaited
  <2> QED BY <1>1, <1>2, <2>1, <2>2
<1>5. AwaitedExecution'
  BY <1>1, <1>2 DEF LogOK, AwaitedExecution
<1> QED
  BY <1>3, <1>4, <1>5 DEF LogOK

(* The receipt of an execution, and its callback with it.                    *)
LEMMA FinalizeKeepsLog ==
    ASSUME LogTypeOK, LogOK, NEW e \in Executions, NEW o \in Outcomes, e \in Persisted,
           Finalize(e, o)
    PROVE  LogOK'
<1> DEFINE s == spawns[e].src
<1>0. s \in Sources /\ spawns' = spawns
  BY RowsHaveSources DEF Finalize
<1> HIDE DEF s
<1>1. CASE Claimed(e)
  BY <1>0, <1>1 DEF Finalize, LogOK, ReceiptsOfRequests, CallbacksAwaited, AwaitedExecution,
                   Unfinished, Persisted
<1>2. CASE ~Claimed(e)
  <2>1. receipts[e] = "none" /\ receipts' = [receipts EXCEPT ![e] = o] /\ Callback(e, o)
    BY <1>2 DEF Finalize, Claimed
  <2>2. \A t \in Sources : Unfinished(t)' = Unfinished(t) \ {e}
    BY <1>0, <2>1 DEF LogTypeOK, Unfinished, Persisted, Outcomes
  <2>3. e \in Unfinished(s)
    BY <2>1 DEF s, Unfinished
  <2>4. ReceiptsOfRequests'
    BY <1>0, <2>1 DEF LogTypeOK, LogOK, ReceiptsOfRequests, Persisted
  <2>5. \A t \in Sources \ {s} : e \notin Unfinished(t)
    BY DEF s, Unfinished
  <2>6. s \notin Withdrawable => node[s] = "enriching" /\ Unfinished(s) = {e}
    BY <1>0, <2>3 DEF LogOK, AwaitedExecution
  <2>7. /\ \A t \in Sources \ {s} : node'[t] = node[t]
        /\ s \notin Withdrawable => \/ node'[s] = Landing(o) /\ pending' = pending
                                    \/ node'[s] = node[s] /\ s \in Gated
    BY <1>0, <2>1, <2>6 DEF Callback, Accepted, Waiting, Confirmed, Judged, LogTypeOK, s
  <2>8. CallbacksAwaited'
    <3> SUFFICES ASSUME NEW p \in pending', p.action # "request"
                 PROVE  /\ p.action = "succeeded" /\ p.src \in Gated
                        /\ p.src \notin Withdrawable =>
                             node'[p.src] \in {"enriching", "enriched"} /\ Unfinished(p.src)' = {}
      BY Zenon DEF CallbacksAwaited
    <3>1. CASE p \in pending
      BY <3>1, <2>2, <2>3, <2>7 DEF LogTypeOK, LogOK, CallbacksAwaited
    <3>2. CASE p \notin pending
      <4>1. /\ Waiting(e) /\ Confirmed(e, o) /\ node' = node
            /\ p = [src |-> s, action |-> o, execution |-> e]
        BY <2>1, <3>2 DEF Callback, s
      <4>2. p.src = s /\ p.action = o
        BY <4>1
      <4> QED BY <4>1, <4>2, <1>0, <2>2, <2>6 DEF Confirmed, s
    <3> QED BY <3>1, <3>2
  <2>9. AwaitedExecution'
    BY <2>2, <2>5, <2>6, <2>7 DEF LogOK, AwaitedExecution, Landing
  <2> QED
    BY <2>4, <2>8, <2>9 DEF LogOK
<1> QED
  BY <1>1, <1>2

-----------------------------------------------------------------------------
(* The invariant in parts: an action disturbs one or two of them.           *)
ControlOK ==
    /\ up \in BOOLEAN /\ dispatching \in Persisted \union {0}
    /\ sweep \subseteq Executions
    /\ orphans \subseteq [execution : Executions, outcome : Outcomes]
    /\ faults \in 0..MaxFaults
    /\ OnlyBornStart

(* The inductive invariant is the conjunction of its four parts.            *)
LEMMA Parts == IInv <=> LogTypeOK /\ LogOK /\ WorkflowsOK /\ ControlOK
<1>1. IInv => LogTypeOK /\ LogOK /\ WorkflowsOK /\ ControlOK
  BY WorkflowsFromIInv DEF IInv, TypeOK, LogTypeOK, LogOK, ControlOK
<1>2. LogTypeOK /\ LogOK /\ WorkflowsOK /\ ControlOK => IInv
  BY DEF IInv, TypeOK, LogTypeOK, LogOK, ControlOK, WorkflowsOK, Workflow, Born
<1> QED
  BY <1>1, <1>2

(* The four parts after a step give the invariant after it.                 *)
LEMMA PartsNext == LogTypeOK' /\ LogOK' /\ WorkflowsOK' /\ ControlOK' => IInv'
BY Parts, PTL

(* A step that writes no row may refresh the snapshot and keeps the log's   *)
(* parts.                                                                   *)
LEMMA SameLog ==
    ASSUME LogTypeOK, LogOK, UNCHANGED <<spawns, receipts, node, pending>>,
           snapshot' \in {snapshot, node}
    PROVE  LogTypeOK' /\ LogOK'
<1>1. LogTypeOK'
  BY DEF LogTypeOK
<1>2. LogOK'
  BY DEF LogOK, ReceiptsOfRequests, CallbacksAwaited, AwaitedExecution, Unfinished, Persisted
<1> QED
  BY <1>1, <1>2

(* Rows are only appended.                                                  *)
RowsKept == \A i \in Persisted : i \in Persisted' /\ spawns'[i] = spawns[i]

(* Workflows that do not change stay consistent while no row disappears.    *)
LEMMA SameWorkflows ==
    ASSUME WorkflowsOK, RowsKept, workflows' = workflows
    PROVE  WorkflowsOK'
BY DEF WorkflowsOK, RowsKept, CallsHaveOutcome, Born

(* Forgetting control state, as a stop or a crash does, keeps what is left  *)
(* true.                                                                    *)
LEMMA LessControl ==
    ASSUME ControlOK, RowsKept, up' \in BOOLEAN, dispatching' \in {dispatching, 0},
           sweep' \subseteq sweep, orphans' \subseteq orphans, faults' \in 0..MaxFaults
    PROVE  ControlOK'
BY DEF ControlOK, RowsKept, OnlyBornStart, Born

(* An unchanged log keeps its rows.                                         *)
LEMMA SameRows == ASSUME spawns' = spawns PROVE RowsKept
BY DEF RowsKept, Persisted

(* A fault stays within the bound on faults.                                *)
LEMMA FaultCounted == ASSUME ControlOK, Fault PROVE faults' \in 0..MaxFaults
BY NativeFunctionAssumption DEF ControlOK, Fault

-----------------------------------------------------------------------------
(* Each action keeps the invariant.                                         *)
LEMMA SweepTickStep == IInv /\ SweepTick => IInv'
<1> SUFFICES ASSUME IInv, SweepTick PROVE IInv'
  OBVIOUS
<1>1. LogTypeOK /\ LogOK /\ WorkflowsOK /\ ControlOK /\ RowsKept
  BY Parts, SameRows DEF SweepTick
<1>2. \A e \in sweep' : Born(e)' /\ e \in Executions
  BY <1>1, BornExecution DEF SweepTick, Recoverable, Finalized, Born, Persisted
<1>3. ControlOK'
  BY <1>1, <1>2 DEF SweepTick, ControlOK, OnlyBornStart, Born, Persisted
<1> QED
  BY <1>1, <1>3, SameLog, SameWorkflows, PartsNext DEF SweepTick

LEMMA SweepStartsStep == IInv /\ SweepStarts => IInv'
<1> SUFFICES ASSUME IInv, SweepStarts PROVE IInv'
  OBVIOUS
<1>1. LogTypeOK /\ LogOK /\ WorkflowsOK /\ ControlOK /\ RowsKept
  BY Parts, SameRows DEF SweepStarts
<1>2. Min(sweep) \in sweep
  BY <1>1, MinOfNaturals, NativeFunctionAssumption DEF SweepStarts, ControlOK, Executions
<1>3. Born(Min(sweep))
  BY <1>1, <1>2 DEF ControlOK, OnlyBornStart
<1>4. WorkflowsOK'
  BY <1>3, StartedWorkflow DEF SweepStarts
<1>5. ControlOK'
  BY <1>1, LessControl DEF SweepStarts, ControlOK
<1> QED
  BY <1>1, <1>4, <1>5, SameLog, PartsNext DEF SweepStarts

LEMMA StopStep == IInv /\ (SweepFails \/ DispatchFails \/ Boot) => IInv'
<1> SUFFICES ASSUME IInv, SweepFails \/ DispatchFails \/ Boot PROVE IInv'
  OBVIOUS
<1>1. LogTypeOK /\ LogOK /\ WorkflowsOK /\ ControlOK /\ RowsKept
  BY Parts, SameRows DEF SweepFails, DispatchFails, Boot
<1>2. faults' \in 0..MaxFaults
  BY <1>1, FaultCounted DEF SweepFails, DispatchFails, Boot, ControlOK
<1>3. ControlOK'
  BY <1>1, <1>2, LessControl DEF SweepFails, DispatchFails, Boot, ControlOK
<1> QED
  BY <1>1, <1>3, SameLog, SameWorkflows, PartsNext DEF SweepFails, DispatchFails, Boot

LEMMA DispatchStartsStep == IInv /\ DispatchStarts => IInv'
<1> SUFFICES ASSUME IInv, DispatchStarts PROVE IInv'
  OBVIOUS
<1>1. LogTypeOK /\ LogOK /\ WorkflowsOK /\ ControlOK /\ RowsKept
  BY Parts, SameRows DEF DispatchStarts
<1>2. WorkflowsOK'
  BY <1>1, StartedWorkflow DEF DispatchStarts, ControlOK, OnlyBornStart
<1>3. ControlOK'
  BY <1>1, LessControl DEF DispatchStarts, ControlOK
<1> QED
  BY <1>1, <1>2, <1>3, SameLog, PartsNext DEF DispatchStarts

(* What a spawn leaves of the other parts.                                  *)
LEMMA SpawnTyped ==
    ASSUME LogTypeOK, NEW s \in Sources, NEW b \in BOOLEAN, Spawn(s, b),
           receipts' = receipts, pending' \subseteq pending
    PROVE  LogTypeOK' /\ RowsKept
<1>1. /\ spawns' \in Seq([src : Sources, prepared : BOOLEAN])
      /\ Len(spawns') <= MaxSpawns
      /\ Persisted' = Persisted \union {Len(spawns')}
      /\ \A i \in Persisted : spawns'[i] = spawns[i]
      /\ node' = [node EXCEPT ![s] = "enriching"] /\ snapshot' = node'
  BY SpawnAppends, Zenon
<1>2. node' \in [Sources -> Nodes]
  BY <1>1 DEF LogTypeOK, Nodes
<1>3. pending' \subseteq [src : Sources, action : Outcomes \union {"request"},
                          execution : Executions \union {0}]
  BY DEF LogTypeOK
<1>4. LogTypeOK'
  BY <1>1, <1>2, <1>3, Zenon DEF LogTypeOK, Executions
<1> QED
  BY <1>1, <1>4 DEF RowsKept

LEMMA ExecStep == ASSUME IInv, NEW s \in Sources, Exec(s) PROVE IInv'
<1>1. LogTypeOK /\ LogOK /\ WorkflowsOK /\ ControlOK
  BY Parts
<1>2. Spawn(s, TRUE) /\ node[s] \in Ready /\ receipts' = receipts /\ pending' = pending
  BY DEF Exec
<1>3. LogTypeOK' /\ RowsKept
  BY <1>1, <1>2, SpawnTyped, Zenon
<1>4. LogOK'
  BY <1>1, <1>2, SpawnKeepsLog, Zenon
<1>5. WorkflowsOK'
  BY <1>1, <1>3, SameWorkflows DEF Exec
<1>6. /\ Len(spawns') \in Persisted' /\ spawns'[Len(spawns')].prepared
  <2>1. Persisted' = Persisted \union {Len(spawns')} /\ spawns'[Len(spawns')].prepared = TRUE
    BY <1>1, <1>2, SpawnAppends, Zenon
  <2> QED BY <2>1
<1>7. ControlOK'
  BY <1>1, <1>3, <1>6 DEF Exec, ControlOK, OnlyBornStart, Born, RowsKept
<1> QED
  BY <1>3, <1>4, <1>5, <1>7, PartsNext

LEMMA SuspendStep == ASSUME IInv, NEW s \in Sources, Suspend(s) PROVE IInv'
<1>1. LogTypeOK /\ LogOK /\ WorkflowsOK /\ ControlOK /\ RowsKept
  BY Parts, SameRows DEF Suspend
<1>2. /\ Proposal(s) \in [src : Sources, action : Outcomes \union {"request"},
                          execution : Executions \union {0}]
      /\ Proposal(s).action = "request"
  BY DEF Proposal
<1>3. LogTypeOK'
  BY <1>1, <1>2 DEF Suspend, LogTypeOK
<1>4. CallbacksAwaited'
  <2> SUFFICES ASSUME NEW p \in pending', p.action # "request"
               PROVE  /\ p.action = "succeeded" /\ p.src \in Gated
                      /\ p.src \notin Withdrawable =>
                           node'[p.src] \in {"enriching", "enriched"} /\ Unfinished(p.src)' = {}
    BY Zenon DEF CallbacksAwaited
  <2>1. p \in pending
    BY <1>2 DEF Suspend
  <2> QED BY <1>1, <2>1 DEF Suspend, LogOK, CallbacksAwaited, Unfinished, Persisted
<1>5. LogOK'
  BY <1>1, <1>4 DEF Suspend, LogOK, ReceiptsOfRequests, AwaitedExecution, Unfinished, Persisted
<1>6. ControlOK'
  BY <1>1, LessControl DEF Suspend, ControlOK
<1> QED
  BY <1>1, <1>3, <1>5, <1>6, SameWorkflows, PartsNext DEF Suspend

LEMMA ApproveStep == ASSUME IInv, NEW p \in pending, Approve(p) PROVE IInv'
<1>1. LogTypeOK /\ LogOK /\ WorkflowsOK /\ ControlOK
  BY Parts
<1>2. p.src \in Sources /\ pending' \subseteq pending /\ receipts' = receipts
  BY <1>1 DEF Approve, LogTypeOK
<1>3. LogTypeOK' /\ LogOK' /\ RowsKept
  <2>1. CASE p.action = "request" /\ node[p.src] \in Ready /\ Spawn(p.src, FALSE)
    <3>1. pending' \subseteq pending \union {Proposal(p.src)}
      BY <1>2
    <3>2. LogOK'
      BY <1>1, <1>2, <2>1, <3>1, SpawnKeepsLog, Zenon
    <3>3. LogTypeOK' /\ RowsKept
      BY <1>1, <1>2, <2>1, SpawnTyped, Zenon
    <3> QED BY <3>2, <3>3
  <2>2. CASE /\ p.action \in Outcomes /\ node[p.src] = "enriching"
             /\ node' = [node EXCEPT ![p.src] = Landing(p.action)]
             /\ snapshot' = node' /\ UNCHANGED spawns
    <3>1. /\ p.action = "succeeded"
          /\ p.src \notin Withdrawable => Unfinished(p.src) = {}
      BY <1>1, <2>2 DEF LogOK, CallbacksAwaited, Outcomes
    <3>2. node' = [node EXCEPT ![p.src] = "enriched"]
      BY <2>2, <3>1 DEF Landing
    <3>3. LogOK'
      <4>1. /\ p.src \in Withdrawable \/ Unfinished(p.src) = {}
            /\ spawns' = spawns
        BY <2>2, <3>1
      <4> QED BY <1>1, <1>2, <3>2, <4>1, MoveKeepsLog, Zenon
    <3>4. LogTypeOK'
      BY <1>1, <1>2, <2>2, <3>2 DEF LogTypeOK, Nodes
    <3> QED BY <2>2, <3>3, <3>4, SameRows
  <2> QED BY <2>1, <2>2 DEF Approve
<1>4. WorkflowsOK' /\ ControlOK'
  BY <1>1, <1>3, SameWorkflows, LessControl DEF Approve, ControlOK
<1> QED
  BY <1>3, <1>4, PartsNext

LEMMA DeclineStep == ASSUME IInv, NEW p \in pending, Decline(p) PROVE IInv'
<1>1. LogTypeOK /\ LogOK /\ WorkflowsOK /\ ControlOK /\ RowsKept
  BY Parts, SameRows DEF Decline
<1>2. pending' \subseteq pending
  BY DEF Decline
<1>3. LogTypeOK'
  BY <1>1, <1>2 DEF Decline, LogTypeOK
<1>4. LogOK'
  BY <1>1, <1>2 DEF Decline, LogOK, CallbacksAwaited, ReceiptsOfRequests, AwaitedExecution,
                    Unfinished, Persisted
<1>5. WorkflowsOK' /\ ControlOK'
  BY <1>1, SameWorkflows, LessControl DEF Decline, ControlOK
<1> QED
  BY <1>1, <1>3, <1>4, <1>5, PartsNext

LEMMA WithdrawStep == ASSUME IInv, NEW s \in Sources, Withdraw(s) PROVE IInv'
<1>1. LogTypeOK /\ LogOK /\ WorkflowsOK /\ ControlOK /\ RowsKept
  BY Parts, SameRows DEF Withdraw
<1>2. LogTypeOK'
  BY <1>1 DEF Withdraw, LogTypeOK, Nodes
<1>3. /\ s \in Withdrawable /\ node' = [node EXCEPT ![s] = "failed"]
      /\ pending' \subseteq pending /\ spawns' = spawns /\ receipts' = receipts
  BY DEF Withdraw
<1>4. LogOK'
  BY <1>1, <1>3, MoveKeepsLog, Zenon
<1>5. WorkflowsOK' /\ ControlOK'
  BY <1>1, SameWorkflows, LessControl DEF Withdraw, ControlOK
<1> QED
  BY <1>2, <1>4, <1>5, PartsNext

(* A workflow that is under way has its birth in the log.                   *)
LEMMA RunningIsBorn ==
    ASSUME IInv, NEW e \in Executions, workflows[e].at # "none"
    PROVE  Born(e)
BY WorkflowsFromIInv DEF WorkflowsOK

LEMMA ExecuteStep == ASSUME IInv, NEW e \in Executions, Execute(e) PROVE IInv'
<1>1. LogTypeOK /\ LogOK /\ WorkflowsOK /\ ControlOK /\ RowsKept
  BY Parts, SameRows DEF Execute
<1>2. Born(e)
  BY RunningIsBorn DEF Execute
<1>3. PICK o \in Outcomes : workflows' = [workflows EXCEPT ![e] = Finalizing(o)]
  BY DEF Execute, Outcomes
<1>4. WorkflowsOK'
  BY <1>1, <1>2, <1>3, WorkflowValues, OneWorkflowChanges, Zenon DEF Execute
<1>5. ControlOK'
  BY <1>1, LessControl DEF Execute, ControlOK
<1> QED
  BY <1>1, <1>4, <1>5, SameLog, PartsNext DEF Execute

(* What an abandoned call leaves to the web.                                *)
LEMMA AbandonedControl ==
    ASSUME IInv, RowsKept, NEW e \in Executions, Born(e),
           orphans' = orphans \union Abandoned(e), faults' \in 0..MaxFaults,
           UNCHANGED <<up, dispatching, sweep>>
    PROVE  ControlOK'
<1>1. ControlOK /\ WorkflowsOK
  BY Parts
<1>2. workflows[e].calling => workflows[e].outcome \in Outcomes
  BY <1>1 DEF WorkflowsOK, CallsHaveOutcome
<1>3. /\ Claim(e).execution = e
      /\ workflows[e].calling => Claim(e) \in [execution : Executions, outcome : Outcomes]
  BY <1>2 DEF Claim
<1>4. \A c \in orphans' : /\ c \in [execution : Executions, outcome : Outcomes]
                          /\ Born(c.execution)
  BY <1>1, <1>3 DEF Abandoned, ControlOK, OnlyBornStart
<1> QED
  BY <1>1, <1>4 DEF ControlOK, OnlyBornStart, Born, RowsKept

LEMMA CancelStep == ASSUME IInv, NEW e \in Executions, Cancel(e) PROVE IInv'
<1>1. LogTypeOK /\ LogOK /\ WorkflowsOK /\ ControlOK /\ RowsKept
  BY Parts, SameRows DEF Cancel
<1>2. Born(e)
  BY RunningIsBorn DEF Cancel, Running
<1>3. "cancelled" \in Outcomes /\ workflows' = [workflows EXCEPT ![e] = Finalizing("cancelled")]
  BY DEF Cancel, Outcomes
<1>4. WorkflowsOK'
  <2> DEFINE w == Finalizing("cancelled")
  <2>1. w \in Workflow /\ Consistent(w)
    BY <1>3, WorkflowValues
  <2>2. workflows' = [workflows EXCEPT ![e] = w]
    BY <1>3
  <2> HIDE DEF w
  <2> QED BY <1>1, <1>2, <2>1, <2>2, OneWorkflowChanges, Zenon DEF Cancel
<1>5. ControlOK'
  BY <1>1, <1>2, FaultCounted, AbandonedControl DEF Cancel, Running, WorkflowsOK, CallsHaveOutcome
<1> QED
  BY <1>1, <1>4, <1>5, SameLog, PartsNext DEF Cancel

(* An answer, of either outcome, leaves its workflow consistent.            *)
LEMMA Answered ==
    ASSUME IInv, spawns' = spawns, NEW e \in Executions, Born(e), NEW ok \in BOOLEAN, Answer(e, ok)
    PROVE  WorkflowsOK'
<1>1. WorkflowsOK
  BY Parts
<1>2. PICK w \in Workflow : Consistent(w) /\ workflows' = [workflows EXCEPT ![e] = w]
  <2>1. workflows[e].outcome \in Outcomes \union {"none"}
    BY <1>1 DEF WorkflowsOK, Workflow
  <2> QED BY <2>1, WorkflowValues DEF Answer
<1> QED
  BY <1>1, <1>2, OneWorkflowChanges

LEMMA CallStep == ASSUME IInv, NEW e \in Executions, Call(e) PROVE IInv'
<1>1. LogTypeOK /\ LogOK /\ WorkflowsOK /\ ControlOK /\ RowsKept
  BY Parts, SameRows DEF Call
<1>2. Born(e)
  BY RunningIsBorn DEF Call, Posting
<1>3. WorkflowsOK'
  <2>1. CASE workflows' = [workflows EXCEPT ![e].calling = TRUE]
    <3> DEFINE w == [workflows[e] EXCEPT !.calling = TRUE]
    <3>1. workflows[e] \in Workflow /\ workflows[e].at = "finalizing" /\ Consistent(workflows[e])
      BY WorkflowValues DEF Call, Posting
    <3>2. w \in Workflow /\ w.at = workflows[e].at /\ w.outcome = workflows[e].outcome
      BY <3>1 DEF Workflow
    <3>3. Consistent(w)
      BY <3>1, <3>2 DEF Consistent
    <3>4. workflows' = [workflows EXCEPT ![e] = w]
      BY <2>1
    <3> HIDE DEF w
    <3> QED BY <1>1, <1>2, <3>2, <3>3, <3>4, OneWorkflowChanges DEF Call
  <2>2. CASE Answer(e, up /\ Holds(e))
    BY <1>2, <2>2, Answered DEF Call
  <2> QED BY <2>1, <2>2 DEF Call
<1>4. ControlOK'
  BY <1>1, LessControl DEF Call, ControlOK
<1> QED
  BY <1>1, <1>3, <1>4, SameLog, PartsNext DEF Call

LEMMA TimeoutStep == ASSUME IInv, NEW e \in Executions, Timeout(e) PROVE IInv'
<1>1. LogTypeOK /\ LogOK /\ WorkflowsOK /\ ControlOK /\ RowsKept
  BY Parts, SameRows DEF Timeout
<1>2. workflows[e].at = "finalizing" /\ Born(e)
  BY <1>1, RunningIsBorn DEF Timeout, WorkflowsOK, CallsHaveOutcome
<1>3. WorkflowsOK'
  BY <1>2, Answered DEF Timeout
<1>4. ControlOK'
  BY <1>1, <1>2, FaultCounted, AbandonedControl DEF Timeout
<1> QED
  BY <1>1, <1>3, <1>4, SameLog, PartsNext DEF Timeout

(* Recording an outcome writes a receipt and moves a node, both of their    *)
(* types.                                                                   *)
LEMMA FinalizeTyped ==
    ASSUME LogTypeOK, NEW e \in Executions, NEW o \in Outcomes, e \in Persisted, Finalize(e, o)
    PROVE  LogTypeOK'
<1>1. spawns[e].src \in Sources
  BY RowsHaveSources
<1> DEFINE s == spawns[e].src
           P == [src : Sources, action : Outcomes \union {"request"},
                 execution : Executions \union {0}]
<1>2. receipts' \in [Executions -> Outcomes \union {"none"}]
  BY DEF LogTypeOK, Finalize
<1>3. node' \in [Sources -> Nodes]
  BY <1>1 DEF LogTypeOK, Finalize, Callback, Landing, Nodes
<1>4. [src |-> s, action |-> o, execution |-> e] \in P
  BY <1>1
<1>5. pending' \subseteq P
  <2>1. pending' \subseteq pending \union {[src |-> s, action |-> o, execution |-> e]}
    BY DEF Finalize, Callback
  <2>2. pending \subseteq P
    BY DEF LogTypeOK
  <2> HIDE DEF s, P
  <2> QED BY <2>1, <2>2, <1>4
<1> QED
  BY <1>2, <1>3, <1>5 DEF LogTypeOK, Finalize

LEMMA FinalizeCallStep == ASSUME IInv, NEW e \in Executions, FinalizeCall(e) PROVE IInv'
<1>1. LogTypeOK /\ LogOK /\ WorkflowsOK /\ ControlOK /\ RowsKept
  BY Parts, SameRows DEF FinalizeCall, Finalize
<1>2. workflows[e].outcome \in Outcomes /\ Born(e)
  BY <1>1, RunningIsBorn DEF FinalizeCall, WorkflowsOK, CallsHaveOutcome
<1>3. LogOK' /\ LogTypeOK'
  BY <1>1, <1>2, FinalizeKeepsLog, FinalizeTyped, Zenon DEF FinalizeCall, Born
<1>4. WorkflowsOK'
  <2> DEFINE ok == IF Claimed(e) THEN Holds(e) ELSE Accepted(e, workflows[e].outcome)
  <2>1. ok \in BOOLEAN /\ Answer(e, ok) /\ spawns' = spawns
    BY DEF FinalizeCall, Finalize, Accepted, Holds
  <2> HIDE DEF ok
  <2> QED BY <1>2, <2>1, Answered
<1>5. ControlOK'
  BY <1>1, LessControl DEF FinalizeCall, Finalize, ControlOK
<1> QED
  BY <1>3, <1>4, <1>5, PartsNext

LEMMA FinalizeOrphanStep == ASSUME IInv, NEW c \in orphans, FinalizeOrphan(c) PROVE IInv'
<1>1. LogTypeOK /\ LogOK /\ WorkflowsOK /\ ControlOK /\ RowsKept
  BY Parts, SameRows DEF FinalizeOrphan, Finalize
<1>2. c.execution \in Executions /\ c.outcome \in Outcomes /\ c.execution \in Persisted
  BY <1>1 DEF ControlOK, OnlyBornStart, Born
<1>3. LogOK' /\ LogTypeOK'
  BY <1>1, <1>2, FinalizeKeepsLog, FinalizeTyped, Zenon DEF FinalizeOrphan
<1>4. WorkflowsOK'
  BY <1>1, SameWorkflows DEF FinalizeOrphan
<1>5. ControlOK'
  BY <1>1, LessControl DEF FinalizeOrphan, Finalize, ControlOK
<1> QED
  BY <1>3, <1>4, <1>5, PartsNext

LEMMA CrashStep == IInv /\ Crash => IInv'
<1> SUFFICES ASSUME IInv, Crash PROVE IInv'
  OBVIOUS
<1>1. LogTypeOK /\ LogOK /\ WorkflowsOK /\ ControlOK /\ RowsKept
  BY Parts, SameRows DEF Crash
<1>2. \A e \in Executions :
        /\ workflows'[e] \in Workflow /\ Consistent(workflows'[e])
        /\ workflows'[e].at # "none" => Born(e)'
  <2> SUFFICES ASSUME NEW e \in Executions
               PROVE  /\ workflows'[e] \in Workflow /\ Consistent(workflows'[e])
                      /\ workflows'[e].at # "none" => Born(e)'
    OBVIOUS
  <2>1. workflows'[e] = IF workflows[e].calling THEN Refused(e) ELSE workflows[e]
    BY DEF Crash
  <2>2. workflows'[e] \in Workflow /\ Consistent(workflows'[e])
    BY <2>1, WorkflowValues
  <2>3. workflows'[e].at # "none" => workflows[e].at # "none"
    BY <1>1, <2>1 DEF WorkflowsOK, CallsHaveOutcome
  <2> QED BY <1>1, <2>2, <2>3, RunningIsBorn DEF Born, RowsKept
<1>3. workflows' \in [Executions -> Workflow]
  BY <1>2 DEF Crash
<1>4. WorkflowsOK'
  BY <1>2, <1>3 DEF WorkflowsOK, CallsHaveOutcome, Consistent
<1>5. ControlOK'
  BY <1>1, FaultCounted, LessControl DEF Crash, ControlOK
<1> QED
  BY <1>1, <1>4, <1>5, SameLog, PartsNext DEF Crash

LEMMA StepIInv == IInv /\ [Next]_vars => IInv'
<1> SUFFICES ASSUME IInv, [Next]_vars PROVE IInv'
  OBVIOUS
<1>1. CASE Humans
  BY <1>1, ExecStep, SuspendStep, WithdrawStep, ApproveStep, DeclineStep DEF Humans
<1>2. CASE Web
  BY <1>2, DispatchStartsStep, StopStep, CrashStep, SweepTickStep, SweepStartsStep,
     FinalizeOrphanStep DEF Web
<1>3. CASE Worker
  BY <1>3, ExecuteStep, CancelStep, CallStep, TimeoutStep, FinalizeCallStep DEF Worker
<1>4. CASE UNCHANGED vars
  <2>1. LogTypeOK /\ LogOK /\ WorkflowsOK /\ ControlOK /\ RowsKept
    BY <1>4, Parts, SameRows DEF vars
  <2> QED BY <1>4, <2>1, SameLog, SameWorkflows, LessControl, PartsNext DEF vars, ControlOK
<1> QED
  BY <1>1, <1>2, <1>3, <1>4 DEF Next

-----------------------------------------------------------------------------
(* The inductive invariant holds in every reachable state.                  *)
THEOREM Invariance == Spec => []IInv
BY InitIInv, StepIInv, PTL DEF Spec

(* Rows, receipts, nodes, confirmations, workflows and what the web still   *)
(* works on keep their types, and a workflow runs only for a persisted      *)
(* spawn that carries its birth.                                            *)
THEOREM TypeCorrect == Spec => []TypeOK
<1>1. IInv => TypeOK
  BY DEF IInv
<1> QED
  BY <1>1, Invariance, PTL

(* A source no one can withdraw waits for the one execution that has no     *)
(* receipt, and has none when it does not wait, whatever the sweeps, the    *)
(* retries and the crashes start or finish twice.                           *)
THEOREM OneAwaited == Spec => []AwaitedExecution
<1>1. IInv => AwaitedExecution
  BY DEF IInv
<1> QED
  BY <1>1, Invariance, PTL

-----------------------------------------------------------------------------
(* How a step writes the log: it leaves it alone, a request or a decision   *)
(* moves a source, or an execution is finished.                             *)
Requests(s) ==
    /\ node[s] \in Ready
    /\ \E b \in BOOLEAN : Spawn(s, b)
    /\ UNCHANGED receipts

Decides(s) ==
    /\ node[s] = "enriching"
    /\ \E o \in Outcomes : node' = [node EXCEPT ![s] = Landing(o)]
    /\ UNCHANGED <<spawns, receipts>>

Finishes(e, o) ==
    /\ receipts[e] = "none" /\ receipts' = [receipts EXCEPT ![e] = o]
    /\ \/ node[spawns[e].src] = "enriching" /\ node' = [node EXCEPT ![spawns[e].src] = Landing(o)]
       \/ UNCHANGED node
    /\ UNCHANGED spawns

LogStep ==
    \/ UNCHANGED <<spawns, receipts, node>>
    \/ \E s \in Sources : Requests(s) \/ Decides(s)
    \/ \E e \in Persisted, o \in Outcomes : e \in Executions /\ Finishes(e, o)

(* Recording an outcome is a finish of the log, or finds one and changes    *)
(* nothing.                                                                 *)
LEMMA FinalizeLogStep ==
    ASSUME IInv, NEW e \in Executions, NEW o \in Outcomes, Born(e), Finalize(e, o)
    PROVE  LogStep
<1>1. CASE Claimed(e)
  BY <1>1 DEF Finalize, LogStep
<1>2. CASE ~Claimed(e)
  <2>1. Finishes(e, o)
    BY <1>2 DEF Finalize, Claimed, Callback, Accepted, Waiting, Judged, Finishes
  <2> QED BY <2>1 DEF LogStep, Born
<1> QED
  BY <1>1, <1>2

(* Every step is, for the log, a request, a decision, a finish or nothing:  *)
(* what both the receipts and the refinement are proved from.               *)
LEMMA StepIsLogStep == IInv /\ [Next]_vars => LogStep
<1> SUFFICES ASSUME IInv, [Next]_vars PROVE LogStep
  OBVIOUS
<1>0. LogTypeOK /\ WorkflowsOK /\ ControlOK
  BY Parts
<1>1. ASSUME NEW s \in Sources, Exec(s) PROVE LogStep
  BY <1>1 DEF Exec, LogStep, Requests
<1>2. ASSUME NEW s \in Sources, Withdraw(s) PROVE LogStep
  <2>1. node' = [node EXCEPT ![s] = Landing("failed")] /\ "failed" \in Outcomes
    BY <1>2 DEF Withdraw, Landing, Outcomes
  <2> QED BY <1>2, <2>1 DEF Withdraw, LogStep, Decides
<1>3. ASSUME NEW p \in pending, Approve(p) PROVE LogStep
  <2>1. p.src \in Sources
    BY <1>0 DEF LogTypeOK
  <2>2. Requests(p.src) \/ Decides(p.src)
    BY <1>3 DEF Approve, Requests, Decides
  <2> QED BY <2>1, <2>2 DEF LogStep
<1>4. ASSUME NEW e \in Executions, FinalizeCall(e) PROVE LogStep
  <2>1. workflows[e].outcome \in Outcomes /\ Born(e)
    BY <1>0, <1>4, RunningIsBorn DEF FinalizeCall, WorkflowsOK, CallsHaveOutcome
  <2> QED BY <1>4, <2>1, FinalizeLogStep DEF FinalizeCall
<1>5. ASSUME NEW c \in orphans, FinalizeOrphan(c) PROVE LogStep
  <2>1. c.execution \in Executions /\ c.outcome \in Outcomes /\ Born(c.execution)
    BY <1>0 DEF ControlOK, OnlyBornStart
  <2> QED BY <1>5, <2>1, FinalizeLogStep DEF FinalizeOrphan
<1>6. ASSUME \/ \E s \in Sources : Suspend(s)
             \/ \E p \in pending : Decline(p)
             \/ DispatchStarts \/ DispatchFails \/ Crash \/ Boot
             \/ SweepTick \/ SweepStarts \/ SweepFails
             \/ \E e \in Executions : Execute(e) \/ Cancel(e) \/ Call(e) \/ Timeout(e)
             \/ UNCHANGED vars
      PROVE  LogStep
  BY <1>6 DEF LogStep, Suspend, Decline, DispatchStarts, DispatchFails, Crash, Boot, SweepTick,
              SweepStarts, SweepFails, Execute, Cancel, Call, Timeout, vars
<1> QED
  BY <1>1, <1>2, <1>3, <1>4, <1>5, <1>6 DEF Next, Humans, Web, Worker

(* A receipt stands: whatever reports again, after a timeout, a restart of  *)
(* the workflow or a crash of the web, finds the first outcome.             *)
ReceiptsStand ==
    [][\A e \in Executions : receipts[e] # "none" => receipts'[e] = receipts[e]]_vars

(* No step of the log, a finish included, changes a receipt it finds.       *)
THEOREM FirstReceiptStands == Spec => ReceiptsStand
<1> DEFINE Stands == \A e \in Executions : receipts[e] # "none" => receipts'[e] = receipts[e]
<1>1. IInv /\ [Next]_vars => [Stands]_vars
  BY StepIsLogStep, Parts DEF LogStep, Requests, Decides, Finishes, LogTypeOK
<1>2. Spec => [][Stands]_vars
  BY <1>1, Invariance, PTL DEF Spec
<1> QED
  BY <1>2 DEF ReceiptsStand

-----------------------------------------------------------------------------
(* An answer that says ok closes the workflow with what it posted; any other *)
(* leaves it open or failed.                                                *)
LEMMA AnswerCloses ==
    ASSUME WorkflowsOK, NEW e \in Executions, NEW ok \in BOOLEAN, Answer(e, ok),
           workflows[e].at = "finalizing"
    PROVE  /\ \A d \in Executions \ {e} : workflows'[d] = workflows[d]
           /\ workflows'[e].at = "closed" => ok /\ workflows'[e].outcome = workflows[e].outcome
<1>1. \A d \in Executions : workflows'[d] = IF d # e THEN workflows[d]
                             ELSE IF ok THEN Closed(workflows[e].outcome) ELSE Refused(e)
  BY DEF Answer, WorkflowsOK
<1>2. Closed(workflows[e].outcome).outcome = workflows[e].outcome
  BY DEF Closed, NoWorkflow
<1>3. Failed.at = "failed"
  BY DEF Failed, NoWorkflow
<1>4. Refused(e).at \in {"failed", "finalizing"}
  <2>1. workflows[e] \in Workflow
    BY DEF WorkflowsOK
  <2>2. [workflows[e] EXCEPT !.calling = FALSE, !.tries = @ + 1].at = "finalizing"
    BY <2>1 DEF Workflow
  <2> QED BY <1>3, <2>2 DEF Refused
<1> QED
  BY <1>1, <1>2, <1>4

(* Every other step closes no workflow.                                     *)
ClosesNone ==
    \A e \in Executions : workflows'[e].at = "closed" => workflows'[e] = workflows[e]

LEMMA StartClosesNone ==
    ASSUME WorkflowsOK, NEW e, StartWorkflow(e)
    PROVE  ClosesNone
<1>1. Executing.at = "executing"
  BY DEF Executing, NoWorkflow
<1> QED
  BY <1>1 DEF StartWorkflow, ClosesNone, WorkflowsOK

LEMMA FinalizingClosesNone ==
    ASSUME WorkflowsOK, NEW e, NEW o, workflows' = [workflows EXCEPT ![e] = Finalizing(o)]
    PROVE  ClosesNone
<1>1. Finalizing(o).at = "finalizing"
  BY DEF Finalizing, NoWorkflow
<1> QED
  BY <1>1 DEF ClosesNone, WorkflowsOK

(* A workflow that a step closes is told of the receipt the step leaves.    *)
LEMMA ClosingStep ==
    ASSUME IInv, [Next]_vars, NEW e \in Executions,
           workflows'[e].at = "closed", workflows'[e] # workflows[e]
    PROVE  receipts'[e] # "none" /\ receipts'[e] = workflows'[e].outcome
<1> USE DEF ClosesNone
<1>1. LogTypeOK /\ WorkflowsOK /\ ControlOK
  BY Parts
<1>2. ASSUME NEW d \in Executions, Call(d)
      PROVE  receipts'[e] # "none" /\ receipts'[e] = workflows'[e].outcome
  <2>1. CASE workflows' = [workflows EXCEPT ![d].calling = TRUE]
    <3>1. workflows[d] \in Workflow /\ workflows[d].at = "finalizing"
      BY <1>1, <1>2 DEF WorkflowsOK, Call, Posting
    <3>2. [workflows[d] EXCEPT !.calling = TRUE].at = "finalizing"
      BY <3>1 DEF Workflow
    <3>3. workflows'[e] = IF e = d THEN [workflows[d] EXCEPT !.calling = TRUE] ELSE workflows[e]
      BY <1>1, <2>1 DEF WorkflowsOK
    <3> QED BY <3>2, <3>3
  <2>2. CASE Answer(d, up /\ Holds(d))
    <3>1. /\ workflows[d].at = "finalizing" /\ workflows[d].outcome \in Outcomes
          /\ (up /\ Holds(d)) \in BOOLEAN /\ receipts' = receipts
      BY <1>1, <1>2 DEF Call, Posting, WorkflowsOK, CallsHaveOutcome, Holds, ControlOK
    <3>2. e = d /\ Holds(d) /\ workflows'[e].outcome = workflows[d].outcome
      BY <1>1, <2>2, <3>1, AnswerCloses
    <3> QED BY <3>1, <3>2 DEF Holds, Outcomes
  <2> QED BY <1>2, <2>1, <2>2 DEF Call
<1>3. ASSUME NEW d \in Executions, Timeout(d)
      PROVE  receipts'[e] # "none" /\ receipts'[e] = workflows'[e].outcome
  <2>1. workflows[d].at = "finalizing"
    BY <1>1, <1>3 DEF Timeout, WorkflowsOK, CallsHaveOutcome
  <2> QED BY <1>1, <1>3, <2>1, AnswerCloses DEF Timeout
<1>4. ASSUME NEW d \in Executions, FinalizeCall(d)
      PROVE  receipts'[e] # "none" /\ receipts'[e] = workflows'[e].outcome
  <2> DEFINE ok == IF Claimed(d) THEN Holds(d) ELSE Accepted(d, workflows[d].outcome)
  <2>1. /\ workflows[d].at = "finalizing" /\ workflows[d].outcome \in Outcomes
        /\ ok \in BOOLEAN /\ Answer(d, ok)
    BY <1>1, <1>4 DEF FinalizeCall, WorkflowsOK, CallsHaveOutcome, Holds, Accepted
  <2>2. receipts'[d] = IF Claimed(d) THEN receipts[d] ELSE workflows[d].outcome
    BY <1>1, <1>4 DEF FinalizeCall, Finalize, LogTypeOK
  <2>3. ok => receipts'[d] = workflows[d].outcome
    BY <2>2 DEF Holds
  <2> HIDE DEF ok
  <2>4. e = d /\ ok /\ workflows'[e].outcome = workflows[d].outcome
    BY <1>1, <2>1, AnswerCloses
  <2> QED BY <2>1, <2>3, <2>4 DEF Outcomes
<1>5. ASSUME Crash PROVE FALSE
  <2>1. workflows'[e] = Refused(e) /\ workflows[e].calling
    BY <1>5 DEF Crash
  <2>2. workflows[e].at = "finalizing" /\ workflows[e] \in Workflow
    BY <1>1, <2>1 DEF WorkflowsOK, CallsHaveOutcome
  <2>3. [workflows[e] EXCEPT !.calling = FALSE, !.tries = @ + 1].at = "finalizing"
    BY <2>2 DEF Workflow
  <2>4. Failed.at = "failed"
    BY DEF Failed, NoWorkflow
  <2> QED BY <2>1, <2>3, <2>4 DEF Refused
<1>6. ASSUME DispatchStarts \/ SweepStarts PROVE FALSE
  BY <1>1, <1>6, StartClosesNone DEF DispatchStarts, SweepStarts
<1>7. ASSUME NEW d \in Executions, Execute(d) \/ Cancel(d) PROVE FALSE
  BY <1>1, <1>7, FinalizingClosesNone DEF Execute, Cancel
<1>8. ASSUME \/ \E s \in Sources : Exec(s) \/ Suspend(s) \/ Withdraw(s)
             \/ \E p \in pending : Approve(p) \/ Decline(p)
             \/ DispatchFails \/ Boot \/ SweepTick \/ SweepFails
             \/ \E c \in orphans : FinalizeOrphan(c)
             \/ UNCHANGED vars
      PROVE  FALSE
  BY <1>8 DEF Exec, Suspend, Withdraw, Approve, Decline, DispatchFails, Boot, SweepTick,
              SweepFails, FinalizeOrphan, vars
<1> QED
  BY <1>2, <1>3, <1>4, <1>5, <1>6, <1>7, <1>8 DEF Next, Humans, Web, Worker

(* A workflow that was told its outcome holds ends with the outcome the log *)
(* has, for good: the answer is given on the receipt, and receipts stand.   *)
THEOREM ClosedRecorded == Spec => []ClosedAsRecorded
<1>1. Init => ClosedAsRecorded
  BY DEF Init, ClosedAsRecorded, NoWorkflow
<1>2. IInv /\ ClosedAsRecorded /\ [Next]_vars => ClosedAsRecorded'
  <2> SUFFICES ASSUME IInv, ClosedAsRecorded, [Next]_vars,
                      NEW e \in Executions, workflows'[e].at = "closed"
               PROVE  receipts'[e] # "none" /\ receipts'[e] = workflows'[e].outcome
    BY DEF ClosedAsRecorded
  <2>1. CASE workflows'[e] # workflows[e]
    BY <2>1, ClosingStep
  <2>2. CASE workflows'[e] = workflows[e]
    <3>1. receipts[e] # "none" /\ receipts[e] = workflows[e].outcome
      BY <2>2 DEF ClosedAsRecorded
    <3>2. receipts'[e] = receipts[e]
      BY <3>1, StepIsLogStep, Parts DEF LogStep, Requests, Decides, Finishes, LogTypeOK
    <3> QED BY <2>2, <3>1, <3>2
  <2> QED BY <2>1, <2>2
<1> QED
  BY <1>1, <1>2, Invariance, PTL DEF Spec

-----------------------------------------------------------------------------
(* The refinement mapping keeps the log's length.                           *)
LEMMA MappedRequests ==
    ASSUME LogTypeOK
    PROVE  Len([i \in Persisted |-> spawns[i].src]) = Len(spawns)
BY DEF LogTypeOK, Persisted

(* NativeFunction implements FunctionDelivery: a request is a request, a    *)
(* receipt a finish, a human's move a decision, the rest a stutter.         *)
THEOREM Refinement == Spec => ImplementsDelivery
<1> DEFINE req == [i \in Persisted |-> spawns[i].src]
<1>1. Init => Delivery!Init
  <2> SUFFICES ASSUME Init PROVE Delivery!Init
    OBVIOUS
  <2>1. req = <<>>
    BY DEF Init, Persisted
  <2> QED BY <2>1 DEF Init, Delivery!Init, Executions, Delivery!Executions
<1>2. IInv /\ [Next]_vars => [Delivery!Next]_<<req, receipts, node>>
  <2> SUFFICES ASSUME IInv, LogStep PROVE [Delivery!Next]_<<req, receipts, node>>
    BY StepIsLogStep
  <2>0. LogTypeOK /\ Len(req) = Len(spawns)
    BY Parts, MappedRequests
  <2>1. ASSUME NEW s \in Sources, Requests(s) PROVE Delivery!Request(s)
    <3>1. PICK b \in BOOLEAN : Spawn(s, b)
      BY <2>1 DEF Requests
    <3>2. /\ Len(spawns') = Len(spawns) + 1
          /\ Persisted' = Persisted \union {Len(spawns')}
          /\ \A i \in Persisted : spawns'[i] = spawns[i]
          /\ spawns'[Len(spawns')].src = s
          /\ node' = [node EXCEPT ![s] = "enriching"]
      BY <2>0, <3>1, SpawnAppends, Zenon
    <3>3. req' = Append(req, s)
      <4>1. req \in Seq(Sources)
        BY <2>0, RowsHaveSources DEF Persisted, LogTypeOK
      <4>2. Append(req, s) = [i \in 1..(Len(req) + 1) |-> IF i = Len(req) + 1 THEN s ELSE req[i]]
        BY <4>1
      <4> QED BY <2>0, <3>2, <4>2 DEF Persisted
    <3> QED BY <2>0, <2>1, <3>1, <3>2, <3>3 DEF Requests, Ready, Spawn, Delivery!Request
  <2>2. ASSUME NEW s \in Sources, Decides(s) PROVE Delivery!Decide(s)
    BY <2>2 DEF Decides, Delivery!Decide, Delivery!Land, Landing, Delivery!Landing, Persisted,
                Outcomes, Delivery!Outcomes
  <2>3. ASSUME NEW e \in Persisted, NEW o \in Outcomes, Finishes(e, o) PROVE Delivery!Finish(e, o)
    BY <2>3 DEF Finishes, Delivery!Finish, Delivery!Land, Landing, Delivery!Landing, Persisted
  <2>4. Persisted = Delivery!Requested
    BY <2>0 DEF Delivery!Requested, Persisted
  <2>5. UNCHANGED spawns => UNCHANGED req
    BY DEF Persisted
  <2> QED
    BY <2>1, <2>2, <2>3, <2>4, <2>5 DEF LogStep, Delivery!Next, Outcomes, Delivery!Outcomes
<1> QED
  BY <1>1, <1>2, Invariance, PTL DEF Spec, ImplementsDelivery, Delivery!Spec
=============================================================================
