--------------------------- MODULE NativeFunction ---------------------------
(***************************************************************************)
(* Native functions: an action of a source entity persists a spawn with    *)
(* everything its execution needs, the web starts a workflow for it, the   *)
(* workflow executes the function and posts its outcome, and the web       *)
(* commits a receipt together with the events of the callback action.      *)
(*                                                                         *)
(* A process that dies between the append and the start leaves a spawn     *)
(* without a workflow; a sweep at boot and every thirty seconds starts     *)
(* what has no receipt.  The sweep and the request path do not exclude     *)
(* each other, a workflow that has closed may be started again, and what   *)
(* timed out for the worker may still be running in the web.               *)
(***************************************************************************)
EXTENDS Integers, Sequences, FiniteSets, FiniteSetsExt

CONSTANTS
    Sources,       \* entities whose flow requests an execution
    Gated,         \* sources whose request and on-done actions an agent may only propose
    Withdrawable,  \* sources whose flow lets a human leave the waiting node
    MaxSpawns,     \* bound: executions requested
    MaxTries,      \* retry.maximumAttempts of the finalize activity
    MaxFaults      \* bound: crashes, lost answers, failed starts, cancellations

ASSUME NativeFunctionAssumption ==
    /\ Gated \subseteq Sources /\ Withdrawable \subseteq Sources
    /\ MaxSpawns \in Nat /\ MaxTries \in Nat \ {0} /\ MaxFaults \in Nat

VARIABLES
    spawns,       \* the spawn-requested rows: source, and whether the birth is in the row
    receipts,     \* execution -> the outcome of its function-execution-finalized row, or "none"
    node,         \* source -> its node, by the fold of the committed log
    snapshot,     \* the same, by the last fold of the web process
    pending,      \* confirmations: the actions that wait for a human
    up,           \* the web process runs
    dispatching,  \* the execution the operation at the head of the queue starts, or 0
    sweep,        \* what the reconciliation in progress has still to start
    workflows,    \* execution -> the latest workflow under its id
    orphans,      \* claims the web still works on, whose caller no longer waits
    faults

vars == <<spawns, receipts, node, snapshot, pending, up, dispatching, sweep, workflows,
          orphans, faults>>

Executions == 1..MaxSpawns
Persisted == 1..Len(spawns)
Outcomes == {"succeeded", "failed", "cancelled"}
Nodes == {"identified", "enriching", "enriched", "failed"}
Ready == {"identified", "failed"}

Fault == faults < MaxFaults /\ faults' = faults + 1

-----------------------------------------------------------------------------
(* Workflows.  An id with a running workflow is not started twice; one whose *)
(* workflow has ended is: the client leaves the id-reuse policy at its       *)
(* default.  A workflow whose post was acknowledged is "closed", with the    *)
(* outcome it posted; one whose attempts are used up has "failed".           *)
NoWorkflow == [at |-> "none", outcome |-> "none", tries |-> 0, calling |-> FALSE]
Executing == [NoWorkflow EXCEPT !.at = "executing"]
Finalizing(o) == [NoWorkflow EXCEPT !.at = "finalizing", !.outcome = o]
Closed(o) == [NoWorkflow EXCEPT !.at = "closed", !.outcome = o]
Failed == [NoWorkflow EXCEPT !.at = "failed"]

Running(e) == workflows[e].at \in {"executing", "finalizing"}

StartWorkflow(e) ==
    workflows' = IF Running(e) THEN workflows ELSE [workflows EXCEPT ![e] = Executing]

-----------------------------------------------------------------------------
(* The sweep: every spawn without a receipt is started, one after the other. *)
(* Its two queries run in parallel; a spawn or a receipt that falls between  *)
(* them is a case of one that falls between the queries and the start.       *)

(* Mutation: what was started needs no recovery.                             *)
RecoverableUnstarted == {e \in Persisted : spawns[e].prepared /\ workflows[e].at = "none"}

(* Mutation: every spawn of the log is taken for one with a birth.           *)
RecoverableAny == Persisted

Recoverable == {e \in Persisted : spawns[e].prepared}
Finalized == {e \in Executions : receipts[e] # "none"}

SweepTick ==
    /\ up /\ sweep = {}
    /\ sweep' = Recoverable \ Finalized
    /\ UNCHANGED <<spawns, receipts, node, snapshot, pending, up, dispatching, workflows,
                   orphans, faults>>

SweepStarts ==
    /\ sweep # {}
    /\ StartWorkflow(Min(sweep))
    /\ sweep' = sweep \ {Min(sweep)}
    /\ UNCHANGED <<spawns, receipts, node, snapshot, pending, up, dispatching, orphans, faults>>

(* A start that fails throws out of the loop; the rest waits for the next.   *)
SweepFails ==
    /\ sweep # {} /\ Fault
    /\ sweep' = {}
    /\ UNCHANGED <<spawns, receipts, node, snapshot, pending, up, dispatching, workflows,
                   orphans>>

-----------------------------------------------------------------------------
(* The queue of the web process: every operation first refreshes the         *)
(* snapshot; the start of a workflow is awaited inside it.                   *)
Idle == up /\ dispatching = 0

Spawn(s, prepared) ==
    /\ Len(spawns) < MaxSpawns
    /\ spawns' = Append(spawns, [src |-> s, prepared |-> prepared])
    /\ node' = [node EXCEPT ![s] = "enriching"]
    /\ snapshot' = node'

Init ==
    /\ spawns = <<>>
    /\ receipts = [e \in Executions |-> "none"]
    /\ node = [s \in Sources |-> "identified"]
    /\ snapshot = node
    /\ pending = {}
    /\ up = TRUE
    /\ dispatching = 0
    /\ sweep = {}
    /\ workflows = [e \in Executions |-> NoWorkflow]
    /\ orphans = {}
    /\ faults = 0

(* A caller who need not ask: the spawn is prepared, appended, dispatched.   *)
Exec(s) ==
    /\ Idle /\ node[s] \in Ready
    /\ Spawn(s, TRUE)
    /\ dispatching' = Len(spawns')
    /\ UNCHANGED <<receipts, pending, up, sweep, workflows, orphans, faults>>

DispatchStarts ==
    /\ up /\ dispatching # 0
    /\ StartWorkflow(dispatching)
    /\ dispatching' = 0
    /\ UNCHANGED <<spawns, receipts, node, snapshot, pending, up, sweep, orphans, faults>>

DispatchFails ==
    /\ up /\ dispatching # 0 /\ Fault
    /\ dispatching' = 0
    /\ UNCHANGED <<spawns, receipts, node, snapshot, pending, up, sweep, workflows, orphans>>

(* An agent that must ask; one open proposal per source bounds the model.    *)
Proposal(s) == [src |-> s, action |-> "request", execution |-> 0]

Suspend(s) ==
    /\ Idle /\ s \in Gated /\ node[s] \in Ready
    /\ Proposal(s) \notin pending
    /\ pending' = pending \union {Proposal(s)}
    /\ snapshot' = node
    /\ UNCHANGED <<spawns, receipts, node, up, dispatching, sweep, workflows, orphans, faults>>

Landing(o) == IF o = "succeeded" THEN "enriched" ELSE "failed"

(* What a human approves happens where the source now is; the spawn among    *)
(* its events is appended as it is, without a birth and without a dispatch.  *)
Approve(p) ==
    /\ Idle /\ p \in pending
    /\ \/ /\ p.action = "request" /\ node[p.src] \in Ready
          /\ Spawn(p.src, FALSE)
       \/ /\ p.action \in Outcomes /\ node[p.src] = "enriching"
          /\ node' = [node EXCEPT ![p.src] = Landing(p.action)]
          /\ snapshot' = node'
          /\ UNCHANGED spawns
    /\ pending' = pending \ {p}
    /\ UNCHANGED <<receipts, up, dispatching, sweep, workflows, orphans, faults>>

Decline(p) ==
    /\ Idle /\ p \in pending
    /\ pending' = pending \ {p}
    /\ snapshot' = node
    /\ UNCHANGED <<spawns, receipts, node, up, dispatching, sweep, workflows, orphans, faults>>

Withdraw(s) ==
    /\ Idle /\ s \in Withdrawable /\ node[s] = "enriching"
    /\ node' = [node EXCEPT ![s] = "failed"]
    /\ snapshot' = node'
    /\ UNCHANGED <<spawns, receipts, pending, up, dispatching, sweep, workflows, orphans, faults>>

-----------------------------------------------------------------------------
(* The workflow: it executes the function, then posts the outcome until the  *)
(* web answers that it holds, or the attempts are used up.                   *)
Execute(e) ==
    /\ workflows[e].at = "executing"
    /\ \E o \in {"succeeded", "failed"} : workflows' = [workflows EXCEPT ![e] = Finalizing(o)]
    /\ UNCHANGED <<spawns, receipts, node, snapshot, pending, up, dispatching, sweep, orphans,
                   faults>>

Claim(e) == [execution |-> e, outcome |-> workflows[e].outcome]
Abandoned(e) == IF workflows[e].calling THEN {Claim(e)} ELSE {}

(* A cancelled workflow posts that outcome instead, whatever it posted before. *)
Cancel(e) ==
    /\ Running(e) /\ workflows[e].outcome # "cancelled" /\ Fault
    /\ workflows' = [workflows EXCEPT ![e] = Finalizing("cancelled")]
    /\ orphans' = orphans \union Abandoned(e)
    /\ UNCHANGED <<spawns, receipts, node, snapshot, pending, up, dispatching, sweep>>

Refused(e) ==
    IF workflows[e].tries + 1 = MaxTries THEN Failed
    ELSE [workflows[e] EXCEPT !.calling = FALSE, !.tries = @ + 1]

Answer(e, ok) ==
    workflows' = [workflows EXCEPT ![e] = IF ok THEN Closed(@.outcome) ELSE Refused(e)]

Posting(e) == workflows[e].at = "finalizing" /\ ~workflows[e].calling

(* Mutation: the callback takes effect without a look at the receipts.       *)
ClaimedNever(e) == FALSE

Claimed(e) == receipts[e] # "none"

(* Mutation: whatever has a receipt is acknowledged as a repetition.         *)
HoldsAny(e) == Claimed(e)

(* A post is a repetition of the receipt if their outcomes are the same.     *)
Holds(e) == receipts[e] = workflows[e].outcome

(* The receipt is looked up before the request enters the queue.             *)
Call(e) ==
    /\ Posting(e)
    /\ IF up /\ ~Claimed(e)
       THEN workflows' = [workflows EXCEPT ![e].calling = TRUE]
       ELSE Answer(e, up /\ Holds(e))
    /\ UNCHANGED <<spawns, receipts, node, snapshot, pending, up, dispatching, sweep, orphans,
                   faults>>

Timeout(e) ==
    /\ workflows[e].calling /\ Fault
    /\ orphans' = orphans \union Abandoned(e)
    /\ Answer(e, FALSE)
    /\ UNCHANGED <<spawns, receipts, node, snapshot, pending, up, dispatching, sweep>>

-----------------------------------------------------------------------------
(* The web finishes an execution.  The callback is judged at the node of the *)
(* source; only what the judge says decides, not which execution it is.      *)

(* Mutation: the judge gets the snapshot as the last operation left it.      *)
JudgedUnrefreshed == snapshot

Judged == node

Confirmed(e, o) == spawns[e].src \in Gated /\ o = "succeeded"
Waiting(e) == Judged[spawns[e].src] = "enriching"
Accepted(e, o) == Waiting(e) /\ ~Confirmed(e, o)

Callback(e, o) ==
    LET s == spawns[e].src
    IN  \/ /\ Accepted(e, o)
           /\ node' = [node EXCEPT ![s] = Landing(o)]
           /\ UNCHANGED pending
        \/ /\ Waiting(e) /\ Confirmed(e, o)
           /\ pending' = pending \union {[src |-> s, action |-> o, execution |-> e]}
           /\ UNCHANGED node
        \/ /\ ~Waiting(e)
           /\ UNCHANGED <<node, pending>>

(* Receipt and callback events commit in one transaction.                    *)
Finalize(e, o) ==
    /\ Idle
    /\ snapshot' = node
    /\ IF Claimed(e)
       THEN UNCHANGED <<receipts, node, pending>>
       ELSE receipts' = [receipts EXCEPT ![e] = o] /\ Callback(e, o)
    /\ UNCHANGED <<spawns, up, dispatching, sweep, faults>>

FinalizeCall(e) ==
    /\ workflows[e].calling
    /\ Finalize(e, workflows[e].outcome)
    /\ Answer(e, IF Claimed(e) THEN Holds(e) ELSE Accepted(e, workflows[e].outcome))
    /\ UNCHANGED orphans

FinalizeOrphan(c) ==
    /\ c \in orphans
    /\ Finalize(c.execution, c.outcome)
    /\ orphans' = orphans \ {c}
    /\ UNCHANGED workflows

-----------------------------------------------------------------------------
(* The web process dies: the calls it held fail, what it had not committed   *)
(* is gone.  It boots from the log.                                          *)
Crash ==
    /\ up /\ Fault
    /\ up' = FALSE
    /\ dispatching' = 0
    /\ sweep' = {}
    /\ orphans' = {}
    /\ workflows' = [e \in Executions |-> IF workflows[e].calling THEN Refused(e)
                                          ELSE workflows[e]]
    /\ UNCHANGED <<spawns, receipts, node, snapshot, pending>>

Boot ==
    /\ ~up
    /\ up' = TRUE
    /\ snapshot' = node
    /\ UNCHANGED <<spawns, receipts, node, pending, dispatching, sweep, workflows, orphans,
                   faults>>

Humans ==
    \/ \E s \in Sources : Exec(s) \/ Suspend(s) \/ Withdraw(s)
    \/ \E p \in pending : Approve(p) \/ Decline(p)

Web ==
    \/ DispatchStarts \/ DispatchFails \/ Crash \/ Boot
    \/ SweepTick \/ SweepStarts \/ SweepFails
    \/ \E c \in orphans : FinalizeOrphan(c)

Worker == \E e \in Executions : Execute(e) \/ Cancel(e) \/ Call(e) \/ Timeout(e) \/ FinalizeCall(e)

Next == Humans \/ Web \/ Worker

(* The process supervisor restarts the web, its timer fires, queries and the *)
(* queue advance, and the workflow engine goes on with what it has accepted. *)
Fairness ==
    /\ WF_vars(Boot) /\ WF_vars(DispatchStarts)
    /\ WF_vars(SweepTick) /\ WF_vars(SweepStarts)
    /\ \A e \in Executions : WF_vars(Execute(e)) /\ WF_vars(Call(e)) /\ WF_vars(FinalizeCall(e))
    /\ WF_vars(\E c \in orphans : FinalizeOrphan(c))

Spec == Init /\ [][Next]_vars /\ Fairness

-----------------------------------------------------------------------------
(* Types; a workflow runs only for a persisted spawn that carries its birth. *)
TypeOK ==
    /\ spawns \in Seq([src : Sources, prepared : BOOLEAN]) /\ Len(spawns) <= MaxSpawns
    /\ receipts \in [Executions -> Outcomes \union {"none"}]
    /\ node \in [Sources -> Nodes] /\ snapshot \in [Sources -> Nodes]
    /\ pending \subseteq [src : Sources, action : Outcomes \union {"request"},
                          execution : Executions \union {0}]
    /\ up \in BOOLEAN /\ dispatching \in Persisted \union {0}
    /\ workflows \in [Executions -> [at : {"none", "executing", "finalizing", "closed",
                                           "failed"},
                                     outcome : Outcomes \union {"none"},
                                     tries : 0..(MaxTries - 1), calling : BOOLEAN]]
    /\ sweep \subseteq Executions
    /\ orphans \subseteq [execution : Executions, outcome : Outcomes]
    /\ faults \in 0..MaxFaults
    /\ \A e \in Executions : workflows[e].at # "none" => e \in Persisted /\ spawns[e].prepared

(* A source no one can withdraw has an execution without a receipt only while *)
(* it waits, and then only one; and unless its callback has to be confirmed  *)
(* it waits only for such an execution: no callback is lost, none moves its  *)
(* source early, none moves it on behalf of another execution.               *)
Unfinished(s) == {e \in Persisted : spawns[e].src = s /\ receipts[e] = "none"}

AwaitedExecution ==
    \A s \in Sources \ Withdrawable :
        /\ \A d, e \in Unfinished(s) : d = e
        /\ Unfinished(s) # {} => node[s] = "enriching"
        /\ s \notin Gated /\ node[s] = "enriching" => Unfinished(s) # {}

(* What a workflow was told holds is what the log holds, and goes on to: an  *)
(* execution that ran twice with two results, a cancel that replaces what    *)
(* was posted, an abandoned call that commits first, none of them ends a     *)
(* workflow in the belief that its outcome is recorded when another one is.  *)
ClosedAsRecorded ==
    \A e \in Executions :
        workflows[e].at = "closed" => /\ receipts[e] # "none"
                                      /\ receipts[e] = workflows[e].outcome

(* Every execution whose birth is in the log is finished in the end, however *)
(* the web crashes, starts fail, and answers get lost, as long as they       *)
(* do so finitely often.                                                     *)
Delivered ==
    \A e \in Executions : (e \in Persisted /\ spawns[e].prepared) ~> receipts[e] # "none"

(* The same of every persisted spawn (reconciliation.ts:112).                *)
AllDelivered == \A e \in Executions : e \in Persisted ~> receipts[e] # "none"

(* The outbox implements the delivery of functions: one finish for each      *)
(* request, and one callback with it.                                        *)
Delivery == INSTANCE FunctionDelivery WITH
    requested <- [i \in Persisted |-> spawns[i].src], outcome <- receipts

ImplementsDelivery == Delivery!Spec
=============================================================================
