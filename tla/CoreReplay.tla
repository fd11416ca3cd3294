----------------------------- MODULE CoreReplay -----------------------------
(***************************************************************************)
(* CoreEventLog with contents: what the rows say, what the snapshot is     *)
(* worth, and who writes what.  The web process judges requests on its     *)
(* snapshot and appends the verdict's events; the worker appends the       *)
(* events of a delegation, one after the other, and the deliveries of      *)
(* notifications.  Each action conjoins one of CoreEventLog.               *)
(***************************************************************************)
EXTENDS CoreEventLog, EngineFold

CONSTANTS
    DelegationSteps,  \* steps a delegation takes before it completes
    Plans,            \* plans a client may send: sequences of actions
    MaxDeliveries     \* bound: insertions of one notification (retries)

ASSUME ReplayAssumption ==
    DelegationSteps \in Nat /\ Plans \subseteq Seq(Actions) /\ MaxDeliveries \in Nat

VARIABLES
    content,    \* sequence number -> event, for the numbers taken
    snapshot,   \* CoreEventLogState.snapshot itself
    verdict,    \* outcome of the judge: events to append, snapshot to install
    notifying,  \* confirmations whose notify workflow was dispatched
    deliveries, \* confirmation -> deliveries inserted so far
    progress    \* delegation -> events inserted so far

contents == <<content, snapshot, verdict, notifying, deliveries, progress>>
replayVars == <<vars, contents>>

(* fold(events, deps, initial): the rows S in ascending order.              *)
Folding(S, s) ==
    LET upTo[k \in 0..(nextSeq - 1)] ==
            IF k = 0 THEN s
            ELSE IF k \in S THEN Apply(upTo[k - 1], content[k]) ELSE upTo[k - 1]
    IN upTo

FoldRows(S, s) == Folding(S, s)[nextSeq - 1]

(* Replay of the log from nothing: what boot and a rebuild compute.         *)
Replay(S) == FoldRows(S, EmptySnapshot)

ReplayTypeOK ==
    /\ TypeOK
    /\ DOMAIN content = 1..(nextSeq - 1)
    /\ snapshot.ok
    /\ notifying \subseteq ConfirmationIds
    /\ deliveries \in [ConfirmationIds -> 0..MaxDeliveries]
    /\ progress \in [Delegations -> 0..(DelegationSteps + 2)]

NoVerdict == Rejection(EmptySnapshot)

ReplayInit ==
    /\ Init
    /\ content = <<>>
    /\ snapshot = EmptySnapshot
    /\ verdict = NoVerdict
    /\ notifying = {}
    /\ deliveries = [i \in ConfirmationIds |-> 0]
    /\ progress = [d \in Delegations |-> 0]

-----------------------------------------------------------------------------
(* The worker. *)

DelegationEvent(d, k) ==
    IF k = 1 THEN Started(d)
    ELSE IF k <= DelegationSteps + 1 THEN Step(d, k - 1)
    ELSE Finished(d, DelegationSteps)

InFlight(d) == \E s \in open : "delegation" \in DOMAIN content[s] /\ content[s].delegation = d

(* The workflow awaits each activity: the next event follows the commit of  *)
(* the one before.                                                          *)
InsertDelegationEvent(d) ==
    /\ progress[d] < DelegationSteps + 2
    /\ ~InFlight(d)
    /\ ForeignAllocate
    /\ content' = Append(content, DelegationEvent(d, progress[d] + 1))
    /\ progress' = [progress EXCEPT ![d] = @ + 1]
    /\ UNCHANGED <<snapshot, verdict, notifying, deliveries>>

(* deliverNotification looks for an earlier delivery before it inserts, but *)
(* two attempts may both look first.                                        *)
InsertDelivery(i) ==
    /\ i \in notifying
    /\ deliveries[i] < MaxDeliveries
    /\ ForeignAllocate
    /\ content' = Append(content, Delivered(i))
    /\ deliveries' = [deliveries EXCEPT ![i] = @ + 1]
    /\ UNCHANGED <<snapshot, verdict, notifying, progress>>

CommitForeign ==
    /\ ForeignCommit
    /\ Cardinality(committed' \ committed) = 1
    /\ UNCHANGED contents

-----------------------------------------------------------------------------
(* The web process. *)

(* The operation ends, and its verdict with it.                             *)
EndRequest == verdict' = NoVerdict /\ UNCHANGED <<content, notifying, deliveries, progress>>

StartRequest == StartExec /\ UNCHANGED contents

(* A refresh folds the leftover gap and then the fresh rows, or everything. *)
WithGaps == FoldRows(gaps, snapshot)
WithFresh == FoldRows(Fresh, WithGaps)

FoldOnRefresh ==
    /\ \/ RefreshUnchanged /\ snapshot' = WithGaps
       \/ RefreshFresh /\ snapshot' = WithFresh
       \/ RefreshRebuild /\ snapshot' = Replay(committed)
    /\ snapshot'.ok
    /\ UNCHANGED <<content, verdict, notifying, deliveries, progress>>

RefreshSnapshot ==
    \/ FoldOnRefresh
    \/ RefreshMismatch /\ UNCHANGED contents

(* The folds that throw; the last one is boot's, and the process stays down.*)
ThrowOnFold ==
    /\ \/ GapFoldThrows /\ ~WithGaps.ok /\ UNCHANGED snapshot
       \/ FreshFoldThrows /\ WithGaps.ok /\ ~WithFresh.ok /\ snapshot' = WithGaps
       \/ RebuildThrows /\ ~Replay(committed).ok /\ UNCHANGED snapshot
    /\ EndRequest

(* The verdicts a request can get on the snapshot the judge sees.           *)
Verdicts ==
    {ExecuteWithGates(snapshot, a, "human") : a \in Actions}
    \cup {ExecuteWithGates(snapshot, a, "agent") :
             a \in IF FreeIds(snapshot) = {} THEN {} ELSE Actions}
    \cup {ExecutePlan(snapshot, plan, actor) :
             plan \in Plans,
             actor \in IF FreeIds(snapshot) = {} THEN {"human"} ELSE {"human", "agent"}}
    \cup {ApproveConfirmation(snapshot, i, actor) :
             i \in ConfirmationIds, actor \in {"human", "agent"}}
    \cup {RejectConfirmation(snapshot, i, "human") : i \in ConfirmationIds}

JudgeRequest ==
    /\ verdict' \in Verdicts
    /\ IF verdict'.events = <<Noted>> THEN Reject ELSE Accept
    /\ UNCHANGED <<content, snapshot, notifying, deliveries, progress>>

(* A read, or a run of the queue that appends nothing.                      *)
JudgeNothing == AcceptNothing /\ UNCHANGED contents

InsertOwn ==
    /\ OwnInsert
    /\ Cardinality(own) < Len(verdict.events)
    /\ content' = Append(content, verdict.events[Cardinality(own) + 1])
    /\ UNCHANGED <<snapshot, verdict, notifying, deliveries, progress>>

WholeBatch == Cardinality(own) = Len(verdict.events)

CommitOwn == WholeBatch /\ OwnCommit /\ UNCHANGED contents
CommitUnacknowledged ==
    WholeBatch /\ OwnCommitUnacknowledged /\ EndRequest /\ UNCHANGED snapshot

AbortOwn == OwnRollback /\ EndRequest /\ UNCHANGED snapshot

CollectGapRows == CollectGap /\ UNCHANGED contents
FailGapRead == GapReadFails /\ EndRequest /\ UNCHANGED snapshot
FinishRejected == FinishRejection /\ EndRequest /\ UNCHANGED snapshot

(* Mutation: the snapshot of the verdict is not installed. *)
InstallNothing == OverwriteSnapshot /\ UNCHANGED contents

InstallVerdict ==
    /\ OverwriteSnapshot
    /\ snapshot' = verdict.next
    /\ UNCHANGED <<content, verdict, notifying, deliveries, progress>>

(* Mutation: the outcome of a fold that threw is kept. *)
FinishWithBrokenFold ==
    /\ FinishFoldingGaps
    /\ snapshot' = WithGaps
    /\ notifying' = notifying \cup verdict.notify
    /\ verdict' = NoVerdict
    /\ UNCHANGED <<content, deliveries, progress>>

(* After the gap is folded, a suspension dispatches its notification.  Only *)
(* execCore has steps before the fold that may throw: artifact, dispatch.   *)
FinishAccepted ==
    /\ \/ FinishFoldingGaps /\ WithGaps.ok /\ snapshot' = WithGaps
       \/ /\ Len(verdict.events) = 1
          /\ verdict.events[1].kind = "action-executed"
          /\ FinishLeavingGaps
          /\ UNCHANGED snapshot
    /\ notifying' = notifying \cup verdict.notify
    /\ verdict' = NoVerdict
    /\ UNCHANGED <<content, deliveries, progress>>

CrashProcess == Crash /\ EndRequest /\ snapshot' = EmptySnapshot

BootProcess ==
    /\ Boot
    /\ snapshot' = Replay(committed)
    /\ snapshot'.ok
    /\ UNCHANGED <<content, verdict, notifying, deliveries, progress>>

ReplayNext ==
    \/ \E d \in Delegations : InsertDelegationEvent(d)
    \/ \E i \in ConfirmationIds : InsertDelivery(i)
    \/ CommitForeign
    \/ StartRequest \/ RefreshSnapshot \/ ThrowOnFold \/ JudgeRequest \/ JudgeNothing
    \/ InsertOwn \/ CommitOwn \/ CommitUnacknowledged \/ AbortOwn \/ CollectGapRows
    \/ FinishRejected \/ InstallVerdict \/ FinishAccepted
    \/ CrashProcess \/ BootProcess

ReplaySpec == ReplayInit /\ [][ReplayNext]_replayVars

(* The same where the read of the gap may fail after the commit.            *)
GapFaultSpec == ReplayInit /\ [][ReplayNext \/ FailGapRead]_replayVars

-----------------------------------------------------------------------------
(***************************************************************************)
(* Invariant I5 (GOAL.md:167): the log replays from nothing, whatever rows *)
(* are visible; a process can always boot and a rebuild never throws.      *)
(***************************************************************************)
LogReplays == Replay(committed).ok

(***************************************************************************)
(* The other half of I5: between operations the snapshot the process       *)
(* serves is the replay of the rows it accounts for as folded, although it *)
(* folded the gaps after its own later events (service.ts:227-232).        *)
(***************************************************************************)
SnapshotIsReplay ==
    (pc \in {"idle", "counted", "judge"}) => snapshot = Replay(folded)

(***************************************************************************)
(* The judge's stale view is harmless for its own family: node and         *)
(* confirmation statuses it decides on are those of the whole log.         *)
(***************************************************************************)
Decided(s) == <<s.node, [i \in ConfirmationIds |-> s.confirmations[i].status]>>

VerdictsAreCurrent ==
    pc = "appending" => Decided(snapshot) = Decided(Replay(committed))

(***************************************************************************)
(* Web process, log and worker implement the atomic store: the log, read   *)
(* in sequence order, goes through atomic governed steps only.             *)
(***************************************************************************)
Store == INSTANCE GovernedStore WITH store <- Replay(committed)

ImplementsStore == Store!StoreSpec
=============================================================================
