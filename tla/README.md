# Formal models of UI4A v2

UI4A serves "the interface as a contract": every fact of the system is an event of an
append-only PostgreSQL log, the web process folds that log into a snapshot, judges each
requested action on the snapshot and appends what it decided. The models in this directory
follow the code under `src/`; `PROJECT.json` maps each definition to the lines it stands for.

    tlc -workers 2 -config CoreEventLog_pass.cfg CoreEventLog.tla     # a run
    tlapm CoreEventLogProofs.tla                                      # the proofs of a component

## 1. Inventory

| part | state | operations | hard behaviour |
|---|---|---|---|
| core event log (`packages/db/src/events.ts`, `apps/web/src/engine/service-event-log.ts`) | rows; `snapshot`, `lastSeq`, `committedCoreCount`, `foreignGaps` | append a batch, refresh, collect and fold gaps | numbers are allocated at INSERT and visible at COMMIT; other writers commit between any two awaits |
| engine service (`service.ts`, `exec/`, `service-confirmation.ts`) | a promise queue | exec, decisions, thread commands, reads, runs of the draft code, boot | state computed before an await overwrites state after it; failures after the commit |
| judge and confirmation gate (`packages/engine/src/execution`) | none (pure) | execute, suspend, approve, reject | double decisions, drift between suspension and approval |
| fold (`packages/engine/src/projection/fold`) | none (pure) | one case per event kind, several of which throw | a row that does not fold stops boot, refresh and every read |
| notification delivery (`apps/worker/src/activities/notify.ts`) | rows | deliver once, at least | two attempts, lost dispatch, row order |
| delegation (`apps/worker/src/{workflows,delegation}.ts`) | workflow state, rows | start, step, finish | retries, timeouts, an attempt that outlives its timeout |
| plans (`packages/engine/src/execution/plan.ts`) | none (pure) | a batch of actions judged one after the other | each step is judged where the earlier ones led; a plan stops half-way |
| native functions (`capability/`, `function-receipts.ts`, `exec/service-spawn.ts`, `nativeFunctionWorkflow`) | spawn rows, receipts | prepare, start, finalise, call back, reconcile | crash between append and start, duplicate or late results, head-of-line failure |
| agent runs (`db/src/agent-runs.ts`, `engine/agent/`, the adapters of the worker) | run rows | create, command, cancel, call back | racing commands, overlapping attempts, a start that failed only for its caller |
| definitions and meta plane (`engine/src/definition`) | definitions, versions, lifecycle nodes | edit, submit, approve, reject, revise, deprecate; retire an application | cascade, burned names, two ways to a new version |
| governed drafts (`db/src/drafts`, `engine/drafts`, `engine/src/submission`) | draft rows | create, revise, validate, submit, abandon, accept, reject | a request acts on what it read; one transaction over two domains |
| presentation sidecars (`presentation/`, `db/src/presentation.ts`, `engine/src/presentation`) | events `user-sidecar-*`, a projection row, claims and receipts in memory | present, reuse, mark stale, plan, pin, revert, patch | commands built from a version read before the lock; requests repeated after a restart |
| presence, chat, auth, contract projection, agent library, renderer, CLI, hosts, recovery tools | see `PROJECT.json` | | not state the core depends on, or I/O |

How they meet. The web process and the Temporal worker share nothing but the database: the
worker inserts delegation and notification rows directly, and calls the web's HTTP contract to
act. The web's operations run one after another on the queue of `service.ts`, but each of their
statements is an await during which the other writers go on. Temporal retries what did not
answer. There is one web replica (`docs/runtime-operations.md`).

What makes each correct:
- **log and snapshot**: each row is accounted for once, no early return misses a row, foreign
  rows fold in order, the snapshot a client sees is the replay of the log (I5), every committed
  row reaches it;
- **judge and gate**: a gated action of an agent takes effect with one human approval, and only
  where it is still declared;
- **delegation**: a step is written once unless attempts overlap, what is counted happened, and the final counters agree
  with the folded ones;
- **native functions**: what was requested is started in the end, finished once, and calls its
  source back once, with the outcome of its receipt; no poster of another outcome is acknowledged;
- **agent runs**: the log of a run folds whoever writes it, and the source learns what the run
  became;
- **presentation**: the row that is served is the replay of the events, a pin stays, no command
  overwrites or marks what landed after its request read the row, each request is answered with a
  version that fits it;
- **definitions and drafts**: what an approval read is what becomes live, an accept commits in
  both domains or in neither and folds, no edit is discarded, a retired application stays retired.

## 2. Modules

    CoreEventLog ---- CoreEventLogProofs
         |
    CoreReplay ------ MCCoreReplay            Delegation
      |      \
    EngineFold - GovernedStore                NativeFunction ---- FunctionDelivery

    Governance ------ MCGovernance            AgentRun            Presentation

Next to the modules of the diagram stand those that prove about them: `DelegationProofs`,
`NativeFunctionProofs`, `GovernanceProofs`, `AgentRunProofs`, `PresentationProofs` and
`CoreReplayProofs` each extend the component they are named after, the last one
`CoreEventLogProofs` too; `NaturalsLemmas` has the least counterexample that their inductions
use. Section 4 says what they prove.

**CoreEventLog** is the log and the process's bookkeeping. An event is its sequence number.
`open` holds the numbers of transactions in flight, `committed` the visible rows; `folded`,
`gaps`, `count` and `lastSeq` are the four fields of `CoreEventLogState`. `pc` is the await at
which the operation at the head of the queue stands: `counted` after the first statement of a
refresh, `rebuild` before the full read, `judge`, `appending` inside the transaction,
`appended` after the commit and before the gap read, `collected`, `applied`. `queried` is the
first statement's result, `base` the snapshot the verdict was computed from, `own` the batch.
`mine` is a history variable. Faults: a statement of the refresh fails, a COMMIT is not
acknowledged, the process crashes; under constants of their own, the read of the gap fails
(`GapReadMayFail`) and a fold throws (`FoldMayThrow`).

**EngineFold** is the pure engine: the fold of three families of events, each with the
conditions under which it throws, the verdicts of the gate, and plans: `ExecutePlan` judges every
action on the snapshot the earlier ones left and stops at the first that is rejected or
suspended. **CoreReplay** puts contents
into the log: every action conjoins one of `CoreEventLog` with what happens to `content`,
`snapshot` and `verdict`, and the worker inserts delegation rows in its order and notification
rows once or twice. **GovernedStore** is the abstract specification: one record changed by
atomic governed steps: an action where it is declared, a suspension of a gated one, one decision of
each, a plan of any length as one step (as far as its actions are declared, each where the one
before led), a delivery, the next event of a delegation. `CoreReplay` implements it under the mapping
`store <- Replay(committed)`: no reordering of commits, failure or crash makes the log, read in
sequence order, show a step the store does not allow.

**Delegation** is one task. `attempts` are the activity attempts that exist, each at one of its
statements with the arguments it was scheduled with; `current` is the one Temporal waits for.
An attempt that Temporal gave up on may be dead or still running: its report is refused, its
inserts are not. `log` holds the task's rows, `state` the workflow's loop state, `effects` the
actions the web executed. `Replayed` is the web's fold.

**NativeFunction** is the outbox. `spawns` holds the spawn-requested rows with the one thing the
sweep asks of them, whether they carry a birth record; `receipts` the terminal rows of the
capability domain; `node` what the core log says of each source and `snapshot` what the web
holds; `pending` the open confirmations. `dispatching` is the spawn whose start the queue awaits,
`sweep` what the running sweep has left, `workflows` what Temporal holds of each execution with
the call it has open, `orphans` the calls whose caller gave up and whose handler goes on. Of the
three sources of the run one asks for confirmation when its function succeeds, one can be
withdrawn by a human while it waits. A post that meets a receipt is acknowledged if the receipt has
the outcome it posts (`Holds`, for `sameClaim`), and refused, hence retried until the workflow
fails, if not. **FunctionDelivery** is its abstract specification: a
request enters, is finished once, and its source moves once.

**AgentRun** is the run log with the web, the worker and a human as its writers. `log` holds the
events of each run and `Fold` their fold, with the conditions under which it throws; a command
carries the revision and the name it was decided with, and is applied under two locks. `op` is
what the queue of the web does next for a spawn, `handlers` the callbacks it has accepted,
`attempts` the activity attempts of the worker, those included that Temporal no longer waits for,
`cancelling` the cancels decided and not yet appended. The shape of the activities is that of the
authoring adapter, the flow `agent-definition-authoring` of the walkthrough bundle.

**Governance** puts the lifecycle of one flow definition, the retirement of its application and
the draft plane together. `flow` is the entry with its working copy, its versions and the node of
its lifecycle instance; `pending` the activations that await a decision; `live` and `burned` the
application names; `drafts` the draft rows; `request` what each request in flight has read and
is about to write. A lifecycle action is one turn of the queue. A request of the draft plane
reads, judges, and commits in steps of its own. A revision names the version of the draft it
replaces, which is compared under the lock, and may name the version of the flow it is written
against (`targetBaseVersion`), any one, which nothing compares (`BeginRevise`): a draft may be
based on a version the flow has yet to reach. A stale mark keeps in `why` the two versions it
compared. An approval carries the identity of the draft and a command id, no version and no text;
`BeginApprove` is the server's read when it arrives, and what a page displayed is not in the model
because nothing in the code knows it. The accept turn has two steps. `Plan` reads draft and core log
under the lock of the draft log and tries the fold; `Land` appends the core rows and the end of
the draft. In between the queue is held (`QueueFree`), which keeps lifecycle steps out, and so is
the lock (`LockFree`), which keeps commands of drafts out; the lifecycle takes no lock at all, so it
is the queue alone that keeps what was planned applicable. `wedged` is set when what lands does not
fold. `MCGovernance` only adds symmetry.

**Presentation** is one user sidecar: `events` its part of the log, `sidecar` the projection row
with its versions, the active one and the stale mark. `stage` is where each request stands in
`runPresentationBroker`: claimed, authorizing, resolving, about to mark, planning, between the
read and the locked append of `persistSurface` (`writing`), between its transaction and the receipt
of `commitTerminal` (`written`, or `repeated` when the command had been processed before), answered.
`situation` is what its authorization read of the contracts and grants. `order` is what each person
does: look at a window, which shows the version then active and may grow old, then send one command
from it. `base` is the version a request found when it last read the row or, for a person, the one
the POST handler read when the command arrived (`Open`): the body has no version, so what the window
shows (`shown`) plays no part in what the code decides, and is kept for the property that speaks of
it. A written request keeps in `base` the version it will name. `Takes` and `Fold` are `foldOne`;
`Appended`, `Deduplicated`, `Refused` and `Fails` are the four ends of `appendSidecarCommand`.
Requests and people meet only there. Claims and receipts are in the memory of the broker: a restart
forgets them all, and any request, answered or not, may be presented again with other reads.

A definition under a comment `Mutation:` or `MUTANT` is not part of the model. It is a plausible mistake in
the definition below it, and `PROJECT.json` says which property it breaks when it takes that
definition's place: each property of the passing runs is shown to be able to fail.

## 3. Runs

| run | what it shows | bounds |
|---|---|---|
| `CoreEventLog_pass` | accounting and convergence under crashes, lost answers and failing refreshes | 4 numbers, batches of 2, 2 faults, none of them late |
| `CoreReplay_pass` | I5, order and monotonicity of the snapshot though folds throw, current verdicts, the refinement of `GovernedStore`, with plans | 4 rows, batches of 3, plans of 2 actions, 2 confirmations, one delegation of one step, 2 deliveries, 1 fault |
| `CoreReplay_gapfault` | a failing gap read (`GapFaultSpec`) leads to a doubled action | the same |
| `Delegation_pass` | the task under retries, kills and overlap | 2 steps, 2 attempts, 2 running at once, plans of 2 actions |
| `Delegation_planlength` | a plan of two actions makes the final row unfoldable | as `Delegation_pass` |
| `NativeFunction_pass` | each prepared execution is finished once, moves its source once, is finished in the end, and a workflow that ends well ends on its own outcome | 3 sources, 2 spawns, 2 attempts of finalize, 1 fault |
| `NativeFunction_lostspawn` | a spawn that came from an approval is never started | the same |
| `AgentRun_pass` | the run log folds, the source agrees with the run and is answered | 2 runs, 2 attempts of execute, 5 of finalize, 1 fault |
| `Governance_pass` | what becomes live is what an approval read; stale marks, edits, applicability of the log | 2 drafts, 2 requests, 3 texts (one broken), 2 versions, 2 revisions, target versions 1 and 2 |
| `Governance_revival` | a flow of a retired application leaves the deprecated status | the same |
| `Presentation_pass` | replay of the sidecar events, marks, pins and patches against versions read earlier, answers that fit, each request answered or forgotten | 2 requests, 2 people, 2 paths, 2 situations, 4 participants of which a restart or a failed transaction replaces two |
| `Presentation_silentoverwrite` | an old window overwrites an edit it never showed, without a conflict | 1 request, 2 people, 1 path, 1 situation |

Why the bounds are enough. Every anomaly of the log needs a late row below the watermark, a
gap and a newer row, and an own batch: four numbers hold one of each, two faults allow a failure
during the recovery from another. Two confirmations allow a decision and a second suspension
while the first is open. A task of two steps has a first, a middle and a last activity, and two
attempts of each give one retry; two running at once is the least overlap. `MaxSeq` is also
where the model stops: no run checks the deadlock of a log that is full (every module allows the
process to go on reading, so the check stays on).

An overtaking of native functions needs an execution that waits and a second one of the same or
another source: two spawns over three sources of different kinds. A run that is retried by its
source needs a second run. Two drafts meet over one flow, two requests over one draft; target
versions 1 and 2 let a draft be behind the flow, level with it and ahead of it, and the lifecycle
catch up with one that was marked. The
faults of `NativeFunction` (crash, failed start, timeout, cancellation) and of `AgentRun` (crash,
failed start, timeout) are single: with two, five attempts of finalize can be used up by revision
conflicts alone and `AnsweredUnlessDown` speaks of a system that gave up as it was told to.
Two people may have their patches based on the same version, and two requests plan from it; a
version in between is what each of the conflicts of `Takes` needs, and the other actors provide it.
`MaxActivity` bounds who takes part: requests claimed since the last restart, people with a
window, and each restart or failed transaction for two. So two requests and two people meet without
a failure; a restart, or a transaction that fails with its rows or without, meets two requests, or
a request and a person, in all their stages, and two requests are presented after it. A restart
in any stage presents a request again, also one whose event landed before its receipt and one that
was answered.
The runs of `Presentation` do not check deadlock: they stop when everybody has been answered.
`Governance_pass` does not check deadlock either: when both drafts have ended and the flow is rejected
or at its last version there is nothing left to do.

Fairness (`FairSpec`, `Convergence`). The queue executes what it holds (`service.ts` chains
each operation on the previous one whether it failed or not), so each stage of the running
operation is weakly fair; clients and the render loop keep reading, so `StartRead` is; a
process that died is restarted by its supervisor, so `Boot` is. Foreign writers and faults have
no fairness: `Convergence` speaks of rows already committed, and the faults are bounded.
In `NativeFunction` (`Delivered`) and `AgentRun` (`AnsweredUnlessDown`) the same supervisor and
queue are fair, the sweep is started by its timer of 30 s and goes on, and Temporal drives what
it has accepted: activities are attempted until they are used up. Humans owe nothing: a
confirmation may stay open for ever, and what waits for it is excluded from neither property,
because the receipt, not the move of the source, ends an execution. `AnsweredUnlessDown` has the
premise that the web stays up, since a callback is lost when it is down longer than the retries
of finalize last, and speaks of started runs, since a crash between the append of the spawn and
the start of its run (`service-spawn.ts:137`) leaves nothing that remembers it.

In `Presentation` (`AnsweredOrForgotten`) the continuations of a claimed request are weakly fair:
the event loop of a living process runs them, and each of its awaits answers or throws. Who asks
again after a restart is not fair: a client may have gone.

`SnapshotIsReplay` speaks of the rows that are folded, not of all rows: what is committed and
not yet folded is bounded by `Convergence`. `VerdictsAreCurrent` compares node and confirmation
statuses, which only the web writes; delegation rows may lag behind and do. `CoreReplay` takes
foreign rows one per transaction, as the worker's inserts are; `CoreEventLog` lets several
commit together.

What fails once rows are counted (`LateFault`: the gap read, a fold that throws) is left out of
`CoreEventLog_pass` (`Steady`), since the count is not exact after it; section 5 shows what follows. A throwing fold
is in `CoreReplay`, which knows when a fold throws, so `ForeignInOrder` and `SnapshotGrows` are
checked there; that they survive a failing gap read as well is proved (section 4).

## 4. Proofs

`CoreEventLogProofs` proves for every `MaxSeq`, `MaxBatch` and `MaxFaults`:

- `TypeCorrect`: the type invariant, whatever fails;
- `CountIsExact`, `EarlyReturnMissesNothing`, `OwnEventsNeverRefolded`: the safety invariants;
- `ForeignFoldedInOrder`, `SnapshotNeverShrinks`: the action properties.

The first and the last two hold whatever fails. The others assume `NothingFailsAfterCommit`,
that is `~GapReadMayFail /\ ~FoldMayThrow`, and are false without it: section 5 shows a failing
gap read, and a fold that throws drops the gap it was given. A COMMIT that was not
acknowledged, failing refreshes, rollbacks and crashes are covered. The assumptions on the
constants are those of `CoreEventLog`.

There are two inductive invariants. `OrderInv` says how numbers lie: everything known lies at or
below `lastSeq` (`KnownBelowWatermark`), a number taken from the sequence lies above every row
(`NumbersTaken`), an own batch lies above the watermark it will set and the snapshot it was
judged on is still the current one (`AppendFresh`), and the gap buffer lies above each foreign
event folded (`GapsAfterForeign`, which the order of the two folds in a refresh keeps). It is
preserved by every step (`OrderInvStep`, one case per action) and gives the two action
properties. `CountInv` adds `CountExact`, that own events stay below the watermark
(`OwnBelowWatermark`), and that a refresh's query contains all that is known
(`QueryCoversKnown`, which turns equal counts into equal sets). `CountExact` alone is not
inductive: that a fresh row or a gap row is not counted yet follows from `OrderInv`.
The lemmas on `Max` and `Cardinality` come first, from well-foundedness and the library's
theorems on finite sets.

The other proof modules are built alike: one inductive invariant `IInv`, whose parts say what
each piece of state knows of the others; `InitIInv`; one lemma per action, that it preserves
`IInv`; `Invariance`; and then the properties of the runs, each from `IInv` in a step or two.
Every `IInv` was first checked by TLC on the instance of its run. Where an action disturbs one
part of the state, a lemma says once that all the rest is kept, for any change that only lets logs
and sets grow.

| module | inductive invariant, beyond the properties it proves | assumptions |
|---|---|---|
| `NativeFunctionProofs` | a workflow that calls has an outcome to post, only executions with a birth record are started or posted, a receipt is of a requested execution, a callback that has to be confirmed leaves its source waiting and nothing else open | `NativeFunctionAssumption` |
| `GovernanceProofs` | the text of an active flow is that of its last version, what a request in flight has read is what the draft says as long as its version has not moved, a mark under way or in force speaks of the base of its draft (`MarksJudged`), what an acceptance planned is acceptable until it lands, and it is alone (`PlanHolds`) | those of `Governance` |
| `PresentationProofs` | the versions of the row are typed, each edit in force comes from a version before it that contains it (`Provenance`), each request and each order holds a version that existed when it was read, a request that distrusts a version has a reason that does not go away, and one that wrote a version holds one of its situation | those of `Presentation` |
| `DelegationProofs` | what the log, the workflow and each attempt know of one another: always, that applied results are rows and that successes were executed; as long as no attempt outlives its timeout and each step is one action, exactly which rows each phase has written (`InPhase`) | those of `Delegation` |
| `CoreReplayProofs` | `OrderInv` of the log; what the snapshot has folded is what its rows say, in any order (`SnapshotInv`); the process has folded each row of its own, or is about to (`WebInv`); the rows of the worker follow the commit of the ones before (`ContentInv`); the events of the verdict under way fold on the snapshot to what it installs (`VerdictInv`); each committed row folds after the rows below it (`AllFit`) | those of `CoreEventLog`, `EngineFold` and `CoreReplay` |
| `AgentRunProofs` | each log folds and is empty until its run is created, each command under way is one of a created run, ends of the source are ends of its run | those of `AgentRun` |

What they prove, for all values of the constants: the type invariant of each module, and
- `CoreReplay`: `LogAlwaysReplays` and `SnapshotAlwaysReplay` (the two halves of I5),
  `VerdictsAlwaysCurrent`, and `StoreImplemented`: every step of web process, log and worker is a
  step of `GovernedStore` or a stutter; that is every property of `CoreReplay_pass`. A failing read
  of the gap is excluded by the specification (`GapFaultSpec` has it, and is refuted);
- `NativeFunction`: `OneAwaited`, `FirstReceiptStands`, `ClosedRecorded`, which needs it (what a
  workflow was told holds is what the log holds, for good), and `Refinement`: each
  step of the dispatcher, the worker and the finalizer is one of `FunctionDelivery` or a stutter;
- `Governance`: `PendingMatches`, `StaleMarksJudge`, `AcceptedFolds`, `AcceptedInHistory`,
  `NoEditLost`, `AcceptedAsRead`, that is every safety property of `Governance_pass`;
- `Presentation`: `RowReplays`, `PinsStay`, `MarksJudge`, `NoBlindOverwrite`, `AnswersFit`, that is
  every safety property of its passing runs;
- `Delegation`: `ResultsAreRecorded`, `SuccessesHappened`, `RowsFold`, `ViewFollows`, that is every
  property of `Delegation_pass`; the last two under the condition the properties name;
- `AgentRun`: `LogsFold`, `SourceTold` and `EndsAreFinal`, that no command appended later changes
  what a run became.

Four of them fold a log. Each fold is a recursive function of the log (`Prefixes`, `View`,
`Folding`; so is `Planning`, the fold of a plan), and two lemmas carry every proof about it: that
the function exists and satisfies its equations for a log of any length, and that the fold of
`Append(log, e)` is one application on the fold of `log`. Both are inductions over the length,
done as a least counterexample with `LeastNatural` of `NaturalsLemmas`, since the induction
theorems of the library take an operator as a parameter.

The argument about `CoreReplay`. The process folds rows in another order than a replay does: its own
batch by installing the verdict, the gap rows below it afterwards, and a rebuild everything in
ascending order. What makes this right is that a snapshot can be told from the set of its rows:
`Represents` says which trace each event leaves, and `SameRowsSameSnapshot` that a set of rows has
one snapshot. Events of different families, confirmations and delegations leave traces of
their own; only actions overwrite each other, and one process writes them in order. `Fits` says on
which rows an event folds, and `RowFolds` that a fold throws exactly where the row does not fit. So
the log replays when each row fits after those below it (`AllFit`), which a commit must keep for
rows that arrive above it: for a batch, because the process has folded every row of its own family
before it judges (`WebFolded`), for the worker, because each of its events follows the commit of
the one before. A verdict is given on a snapshot that may lack rows of the worker; it agrees with the
log on nodes and confirmations (`DecidedByWeb`), so its events fold on the replay of the log as
they did on the snapshot (`BatchChain`), and what a verdict can say (`VerdictsSay`) is one step of the
store (`ChainSteps`). TLC checked `IInv` on the 437 021 states of the run.

Two attempts failed for a good reason. The property about overwritten edits did not hold as it first
stood (section 5). And some folds were written with arms of a CASE that overlap, of which TLA+ does not say
which one counts: TLC takes the first, as the code does, a proof may not. `Takes` and `Fold`
(`Presentation`), `ApplyRow` (`Delegation`) and `Apply` (`EngineFold`) now test in the order of the code.

Only model-checked: `Convergence`, `Delivered`, `AnsweredUnlessDown` and `AnsweredOrForgotten`
(liveness, which no installed prover does under fairness).
The runs that expect a violation are about properties that are false.

## 5. Where code and text disagree

1. `service-event-log.ts:45` counts the batch before the gap is read. If that read fails the
   process believes it is up to date while its snapshot lacks its own batch; the action is
   judged and appended again and the log no longer replays (`CoreReplay_gapfault`).
2. `workflows.ts:474`: a plan counts one success per action in the workflow and one per step in
   the fold; the final row does not fold (`Delegation_planlength`).
3. `service-confirmation.ts:140`: the events of an approved action are appended as they are. A
   spawn among them has no birth record and is not dispatched, and the sweep passes over it
   (`NativeFunction_lostspawn`). A plan appends its spawns the same way (`service-exec.ts:189`).
4. `meta.ts:302`: a retired application leaves the lifecycle node of its flow at `active`; a
   revise takes the entry out of `deprecated` and the flow back into the registry
   (`Governance_revival`). In credential mode the audience check refuses such a request, but on
   the snapshot before the request is queued.
5. `route.ts:242`: the base of a patch is the version the POST handler reads when the patch arrives,
   since the body names none. A window that still shows version 1 patches a path that another window
   has patched in version 2: the base is 2, nothing lies between it and the active version, and the
   edit is overwritten without a conflict (`Presentation_silentoverwrite`). The stories of t16 say
   "baseVersion optimistic concurrency prevents silent overwrite"
   (`technical-stories.md:185`), its plan speaks of one across windows (`plan.md:71`). What the
   check of `foldOne` does cover, from that read to the append, is `OverwrittenAsRead`.

More observations the models led to and no run repeats. The plan of t16
(`conductor/tracks/archive/t16-semantic-a2ui-sidecars_20260823/plan.md:71`) ticks off "非冲突 patch
合并/冲突拒绝", that patches which do not conflict are merged. `foldOne` accepts such a patch, but
the patch carries the whole surface its author read (`route.ts:272`): a patch of another path,
accepted in between, is no longer in the new version. A surface that was planned from an earlier
version overwrites patches in the same way, since its `changedPaths` are empty
(`runtime.ts:202`); with two people and two paths TLC finds the former. The proof of
`NoBlindOverwrite` found how far this goes: with a third person, an edit can be overwritten
from a base that is not its author's version, only one that had taken the edit over. What holds
for any number of people, and what `OverwrittenAsRead` states, is that the version the route read,
or one before it, contains the edit. And the comment
of `runtime.ts:232` calls the store of the broker durable, while `memoryStore` of `broker.ts:93`
is in memory: a request runs again after a restart, and when its command is already in the log it is
answered with the version that is active, whether or not that fits what it read this time. This is
the exception of `AnswerFits`, together with a request that lost the race to the first version.
A flow draft written for a version ahead of its flow is marked stale when it is validated, and
stays stale when the lifecycle has reached that version, until it is validated again: the second
half of `StaleAsJudged` says so. And an approval that arrives after a revision and a new submission
accepts a text its author never saw; `ApprovedAsRead` speaks of what the server read for it.
Further, the two statements of a refresh may
cancel a late row against a newer one, so that the judge works once on less than the query had
counted (`VerdictsAreCurrent` shows that its own family is complete all the same); a gap may
start behind a row of the same writer that commits later, and folding it throws after the
operation is durable; two overlapping attempts of a delegation step may both write it
(`FoldsUnlessOverlapped` excludes the case).

## 6. Abstractions

Events of other domains share the sequence and are holes. What the first boot seeds into an empty
log is the initial state of the flow. Core rows that the draft code appends in transactions of
its own (`runExclusive`) reach the snapshot as foreign rows do, and are modelled as such. Guards and JSON schemas are part of
"declared": both end in the same rejection. One flow instance with two nodes stands for all
instances, since the families only meet in the confirmation table. The agent's driver is a
choice among the outcomes of a step. The presented entity, identities, reasons and audit details
are left out. The definition-candidate callback of a refresh does not touch this state.

Native functions: inputs, schemas, hashes and profiles are left out; the two queries of a sweep
are one step, since what falls between them is a case of what falls between them and the start. A
source moves only by its own actions, so a callback is judged by the node it finds. Two outcomes
are the same claim when their statuses are equal; the code compares the hashes of their contents.

Agent runs: an adapter reads the run once to decide and once more for the revision; the model
reads once, since what changes in between makes the append fail either way. A run that is
cancelled is not told to Temporal (`cancelAgentRun` has no caller), so the workflow goes on and
its last activity reports the cancellation. Collecting and verifying are one choice. A source may
be called back twice, since the look and the act are two turns of the queue.

Presentation: the fingerprints of all dependencies are one value, the situation; it may differ
from request to request, with the contracts and with the grants of the caller. A surface is the
last author of each of its paths and the situation it was planned for. That a surface no longer
covers a responsibility of the situation, or that a recipe fits, is a choice. The lock of a
sidecar is per sidecar and commands replay the whole log under it; a command decides on the row,
which `RowIsReplay` shows to be that replay. The replay reads all sidecars, so one event that does
not fold would stop the commands of every user. A patch of several operations touches one path.

Governance: a text is `b0`, `b1` or one that does not validate. The creation of a draft is one
step, since nobody addresses it before. After an accept the snapshot is current at once: every
later turn refreshes first. Whether live instances block a deprecation is a choice. A draft that
ended without acceptance keeps only its status. That the policy scope of a draft has moved is part
of its scope being live. Bounds of a revision of a draft: its text passes, and the
draft version it names is below `MaxRevisions`. Its target version is any of `Bases`, ahead of the
flow or behind it; the base of a bundle, which nothing reads, is left out.

## 7. Not modelled

- *Suspensions of agent runs* (questions, resource grants): no adapter of the repository returns
  `needs-input` or `waiting-approval`, so no execution reaches the code.
- *Workflow cancellation and mark-stale of agent runs, expiry of drafts*: the commands exist and
  nothing sends them.
- *Agent-definition and capability drafts*: their activation is the accept transaction of
  `Governance` with a conflict check on another table; command ids (a retry of a draft command
  finds its event) and budgets are per-request checks under the same lock.
- *Drafts made from results of runs, raw receipts and payloads*: written before the callback and
  addressed by hash.
- *Born versions*: an instance is judged by the version it was born with; the models have one
  flow instance or none.
- *Content of surfaces*: what the planner, a recipe or a patch operation builds, the promotion of
  recipes, sidecars of selections, the audit rows of the broker and the rebuild tool; eviction has
  a case in the fold and no caller.
- *Starting the notification workflow* may fail and is swallowed: best effort by its own comment
  (`apps/web/src/temporal/notify.ts:5`). The models let a notification never arrive.
- *Presence, chat*: planes of their own; no core state depends on them.
- *Contract projection, agent library, renderer, interface, CLI, hosts, migrations, recovery,
  deployment*: pure derivations, I/O, or single-operator procedures.
- *Authentication*: the models start from a caller whose actor is established. The audience check
  before the queue is discussed in section 5.

## 8. Plan

1. Models: born versions, agent-definition activation, promotion of recipes.
2. Proofs: action properties about single rows of the log (an event is never reordered against
   its own family), and abstract specifications for `Presentation` and `AgentRun` to refine.
