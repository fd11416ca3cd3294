---------------------------- MODULE CoreEventLog ----------------------------
(***************************************************************************)
(* The append-only core event log of UI4A and the web process that keeps   *)
(* an incrementally folded snapshot of it.                                 *)
(*                                                                         *)
(* PostgreSQL hands out sequence numbers (BIGSERIAL) when a row is         *)
(* INSERTed; a row becomes visible only when its transaction commits, so   *)
(* a lower number may appear after a higher one.  The web process is one   *)
(* of several writers.  Its operations run one at a time on a promise      *)
(* queue (service.ts enqueue), but every await of an operation lets the    *)
(* other writers commit.  The watermark `lastSeq', the counter `count' and *)
(* the buffer `gaps' decide which rows the next operation has seen.        *)
(*                                                                         *)
(* An event is its sequence number: what matters here is which events the  *)
(* snapshot holds and when they got there.  CoreReplay adds contents.      *)
(* Every fold applies an ascending list, so a fold is a set union.         *)
(***************************************************************************)
EXTENDS Integers, FiniteSets, FiniteSetsExt

CONSTANTS
    MaxSeq,         \* bound: sequence numbers that may be handed out
    MaxBatch,       \* bound: events in one appendBatchWithSeq call
    MaxFaults,      \* bound: failing statements and process crashes
    GapReadMayFail, \* whether the read after a committed append may fail
    FoldMayThrow    \* whether a fold may meet a row it cannot apply

ASSUME BoundsAssumption == MaxSeq \in Nat /\ MaxBatch \in Nat \ {0} /\ MaxFaults \in Nat
ASSUME FaultAssumption == GapReadMayFail \in BOOLEAN /\ FoldMayThrow \in BOOLEAN

VARIABLES
    nextSeq,    \* BIGSERIAL: the next number to hand out
    committed,  \* visible core rows
    open,       \* numbers taken by foreign transactions still in flight
    pc,         \* where the operation at the head of the queue stands
    op,         \* that operation: "read", "exec", or its verdict
    queried,    \* rows counted by the last `SELECT max(seq), count(*)'
    folded,     \* CoreEventLogState.snapshot: the events it contains
    gaps,       \* CoreEventLogState.foreignGaps
    count,      \* CoreEventLogState.committedCoreCount
    lastSeq,    \* CoreEventLogState.lastSeq
    own,        \* numbers of the batch being appended
    base,       \* events in the snapshot the verdict was computed from
    mine,       \* history: events this program's own appends returned
    faults      \* failures so far

database == <<nextSeq, committed, open>>
logState == <<folded, gaps, count, lastSeq>>
request  == <<op, queried, own, base>>
vars == <<database, logState, request, pc, mine, faults>>

Seqs == 1..MaxSeq
Known == folded \cup gaps
Largest(S) == IF S = {} THEN 0 ELSE Max(S)

(* readLog(db, after): the visible core rows above a watermark. *)
ReadLog(after) == {s \in committed : s > after}

TypeOK ==
    /\ nextSeq \in 1..(MaxSeq + 1)
    /\ committed \subseteq Seqs /\ open \subseteq Seqs /\ own \subseteq Seqs
    /\ queried \subseteq Seqs /\ folded \subseteq Seqs /\ gaps \subseteq Seqs
    /\ base \subseteq Seqs /\ mine \subseteq Seqs
    /\ count \in Nat
    /\ lastSeq \in 0..MaxSeq
    /\ pc \in {"down", "idle", "counted", "rebuild", "judge", "appending",
               "appended", "collected", "applied"}
    /\ op \in {"read", "exec", "rejected", "accepted"}
    /\ faults \in 0..MaxFaults

Init ==
    /\ nextSeq = 1 /\ committed = {} /\ open = {}
    /\ pc = "down" /\ op = "read" /\ queried = {}
    /\ folded = {} /\ gaps = {} /\ count = 0 /\ lastSeq = 0
    /\ own = {} /\ base = {} /\ mine = {} /\ faults = 0

-----------------------------------------------------------------------------
(* The other writers: worker activities, the chat routes, the transactions  *)
(* of packages/db.  A transaction of several rows commits them together.    *)

ForeignAllocate ==
    /\ nextSeq <= MaxSeq
    /\ open' = open \cup {nextSeq}
    /\ nextSeq' = nextSeq + 1
    /\ UNCHANGED <<committed, logState, request, pc, mine, faults>>

ForeignCommit ==
    \E rows \in SUBSET open :
        /\ rows # {}
        /\ open' = open \ rows
        /\ committed' = committed \cup rows
        /\ UNCHANGED <<nextSeq, logState, request, pc, mine, faults>>

(* A rolled-back row, or a row of another domain, leaves a hole.            *)
ForeignAbort ==
    \E rows \in SUBSET open :
        /\ rows # {}
        /\ open' = open \ rows
        /\ UNCHANGED <<nextSeq, committed, logState, request, pc, mine, faults>>

-----------------------------------------------------------------------------
(* refreshFromLog: two statements, the count and then the rows.             *)

StartOperation(kind) ==
    /\ pc = "idle"
    /\ pc' = "counted"
    /\ op' = kind
    /\ queried' = committed
    /\ UNCHANGED <<database, logState, own, base, mine, faults>>

StartRead == StartOperation("read")
StartExec == StartOperation("exec")

(* The operation ends; what it kept in local variables is gone.             *)
Return == pc' = "idle" /\ op' = "read" /\ queried' = {} /\ own' = {} /\ base' = {}

RefreshReturns == IF op = "read" THEN Return ELSE pc' = "judge" /\ UNCHANGED request

(* Mutation: the early return forgets a leftover gap. *)
RefreshUnchangedKeepingGaps ==
    /\ pc = "counted"
    /\ Cardinality(queried) = count
    /\ RefreshReturns
    /\ UNCHANGED <<database, logState, mine, faults>>

RefreshUnchanged ==
    /\ pc = "counted"
    /\ Cardinality(queried) = count
    /\ folded' = folded \cup gaps
    /\ gaps' = {}
    /\ RefreshReturns
    /\ UNCHANGED <<database, count, lastSeq, mine, faults>>

(* Mutation: whatever is missing is fresh, late rows below the watermark too. *)
FreshByDifference == committed \ Known

Fresh == IF Largest(queried) > lastSeq THEN ReadLog(lastSeq) ELSE {}

FreshAccountsForAll ==
    /\ Cardinality(queried) > count
    /\ Cardinality(Fresh) = Cardinality(queried) - count

RefreshFresh ==
    /\ pc = "counted"
    /\ FreshAccountsForAll
    /\ folded' = (folded \cup gaps) \cup Fresh
    /\ gaps' = {}
    /\ count' = count + Cardinality(Fresh)
    /\ lastSeq' = IF Largest(Fresh) > lastSeq THEN Largest(Fresh) ELSE lastSeq
    /\ RefreshReturns
    /\ UNCHANGED <<database, mine, faults>>

RefreshMismatch ==
    /\ pc = "counted"
    /\ Cardinality(queried) # count
    /\ Cardinality(Fresh) # Cardinality(queried) - count
    /\ pc' = "rebuild"
    /\ UNCHANGED <<database, logState, request, mine, faults>>

(* Mutation: the counter holds the last index instead of the length. *)
FoldWholeLogToLastIndex ==
    /\ folded' = committed
    /\ gaps' = {}
    /\ count' = Cardinality(committed) - 1
    /\ lastSeq' = Largest(committed)

FoldWholeLog ==
    /\ folded' = committed
    /\ gaps' = {}
    /\ count' = Cardinality(committed)
    /\ lastSeq' = Largest(committed)

RefreshRebuild ==
    /\ pc = "rebuild"
    /\ FoldWholeLog
    /\ RefreshReturns
    /\ UNCHANGED <<database, mine, faults>>

(* A statement of the refresh fails: the operation rejects, state as it was. *)
RefreshFails ==
    /\ pc \in {"counted", "rebuild"}
    /\ faults < MaxFaults
    /\ faults' = faults + 1
    /\ Return
    /\ UNCHANGED <<database, logState, mine>>

-----------------------------------------------------------------------------
(* Judging, and appending the verdict's events in one transaction.          *)

Judge(verdict) ==
    /\ pc = "judge"
    /\ op' = verdict
    /\ own' = {}
    /\ base' = folded
    /\ pc' = "appending"
    /\ queried' = {}
    /\ UNCHANGED <<database, logState, mine, faults>>

Reject == Judge("rejected")
Accept == Judge("accepted")

(* A verdict without events: a repeated thread command, an empty batch.     *)
AcceptNothing ==
    /\ pc = "judge"
    /\ Return
    /\ UNCHANGED <<database, logState, mine, faults>>

BatchLimit == IF op = "rejected" THEN 1 ELSE MaxBatch

OwnInsert ==
    /\ pc = "appending"
    /\ nextSeq <= MaxSeq
    /\ Cardinality(own) < BatchLimit
    /\ own' = own \cup {nextSeq}
    /\ nextSeq' = nextSeq + 1
    /\ UNCHANGED <<committed, open, logState, op, queried, base, pc, mine, faults>>

OwnCommit ==
    /\ pc = "appending"
    /\ own # {}
    /\ committed' = committed \cup own
    /\ count' = count + Cardinality(own)
    /\ mine' = mine \cup own
    /\ pc' = "appended"
    /\ UNCHANGED <<nextSeq, open, folded, gaps, lastSeq, request, faults>>

(* The transaction fails and is rolled back; its numbers are used up.       *)
OwnRollback ==
    /\ pc = "appending"
    /\ Return
    /\ UNCHANGED <<database, logState, mine, faults>>

(* Mutation: the batch is counted before its COMMIT is known to have succeeded. *)
OwnCommitCountedEarly ==
    /\ pc = "appending"
    /\ own # {}
    /\ faults < MaxFaults
    /\ faults' = faults + 1
    /\ committed' = committed \cup own
    /\ count' = count + Cardinality(own)
    /\ Return
    /\ UNCHANGED <<nextSeq, open, folded, gaps, lastSeq, mine>>

(* COMMIT took effect but its answer was lost: the caller sees an error.    *)
OwnCommitUnacknowledged ==
    /\ pc = "appending"
    /\ own # {}
    /\ faults < MaxFaults
    /\ faults' = faults + 1
    /\ committed' = committed \cup own
    /\ Return
    /\ UNCHANGED <<nextSeq, open, logState, mine>>

(* Mutation: own rows of the batch are not told from foreign ones. *)
GapWithOwn(highest) == {s \in ReadLog(lastSeq) : s < highest}

GapBelow(highest) == {s \in ReadLog(lastSeq) : s < highest /\ s \notin own}

(* Mutation: a new gap replaces the one still in the buffer. *)
CollectGapReplacing ==
    /\ pc = "appended"
    /\ IF Largest(own) > lastSeq
       THEN /\ gaps' = GapBelow(Largest(own))
            /\ count' = count + Cardinality(GapBelow(Largest(own)))
            /\ lastSeq' = Largest(own)
       ELSE UNCHANGED <<gaps, count, lastSeq>>
    /\ pc' = "collected"
    /\ UNCHANGED <<database, folded, request, mine, faults>>

(* Mutation: the gap is folded at once, and the overwrite washes it away. *)
CollectGapAtOnce ==
    /\ pc = "appended"
    /\ IF Largest(own) > lastSeq
       THEN /\ folded' = folded \cup GapBelow(Largest(own))
            /\ count' = count + Cardinality(GapBelow(Largest(own)))
            /\ lastSeq' = Largest(own)
       ELSE UNCHANGED <<folded, count, lastSeq>>
    /\ pc' = "collected"
    /\ UNCHANGED <<database, gaps, request, mine, faults>>

CollectGap ==
    /\ pc = "appended"
    /\ IF Largest(own) > lastSeq
       THEN /\ gaps' = gaps \cup GapBelow(Largest(own))
            /\ count' = count + Cardinality(GapBelow(Largest(own)))
            /\ lastSeq' = Largest(own)
       ELSE UNCHANGED <<gaps, count, lastSeq>>
    /\ pc' = "collected"
    /\ UNCHANGED <<database, folded, request, mine, faults>>

(* The read that collects the gap fails after the batch was committed and   *)
(* counted: the exception leaves the operation before its events apply.     *)
GapReadFails ==
    /\ GapReadMayFail
    /\ pc = "appended"
    /\ faults < MaxFaults
    /\ faults' = faults + 1
    /\ Return
    /\ UNCHANGED <<database, logState, mine>>

(* persistRejection: the event changes no state and the gap stays.          *)
FinishRejection ==
    /\ pc = "collected"
    /\ op = "rejected"
    /\ folded' = folded \cup own
    /\ Return
    /\ UNCHANGED <<database, gaps, count, lastSeq, mine, faults>>

(* snapshot = outcome.snapshot: computed from `base', gap events unseen.    *)
OverwriteSnapshot ==
    /\ pc = "collected"
    /\ op = "accepted"
    /\ folded' = base \cup own
    /\ pc' = "applied"
    /\ UNCHANGED <<database, gaps, count, lastSeq, request, mine, faults>>

(* A further batch of the same operation: an artifact, a failure callback.  *)
AppendMore ==
    /\ pc = "applied"
    /\ own' = {}
    /\ base' = folded
    /\ pc' = "appending"
    /\ UNCHANGED <<database, logState, op, queried, mine, faults>>

FinishFoldingGaps ==
    /\ pc = "applied"
    /\ folded' = folded \cup gaps
    /\ gaps' = {}
    /\ Return
    /\ UNCHANGED <<database, count, lastSeq, mine, faults>>

(* A dispatch that fails throws before the gap is folded.                   *)
FinishLeavingGaps ==
    /\ pc = "applied"
    /\ Return
    /\ UNCHANGED <<database, logState, mine, faults>>

-----------------------------------------------------------------------------
(* A fold meets a row it cannot apply and throws (CoreReplay says when): a  *)
(* refresh or an operation rejects.  applyForeignGaps has emptied the       *)
(* buffer before it folds, so the rows stay counted and reach no snapshot.  *)

GapFoldThrows ==
    /\ FoldMayThrow
    /\ gaps # {}
    /\ \/ pc = "counted" /\ (Cardinality(queried) = count \/ FreshAccountsForAll)
       \/ pc = "applied"
    /\ gaps' = {}
    /\ Return
    /\ UNCHANGED <<database, folded, count, lastSeq, mine, faults>>

FreshFoldThrows ==
    /\ FoldMayThrow
    /\ pc = "counted"
    /\ FreshAccountsForAll
    /\ folded' = folded \cup gaps
    /\ gaps' = {}
    /\ Return
    /\ UNCHANGED <<database, count, lastSeq, mine, faults>>

RebuildThrows ==
    /\ FoldMayThrow
    /\ pc = "rebuild"
    /\ Return
    /\ UNCHANGED <<database, logState, mine, faults>>

-----------------------------------------------------------------------------
(* The process: its state is memory only, boot folds the log from nothing.  *)

Crash ==
    /\ pc # "down"
    /\ faults < MaxFaults
    /\ faults' = faults + 1
    /\ pc' = "down"
    /\ op' = "read" /\ queried' = {} /\ own' = {} /\ base' = {}
    /\ folded' = {} /\ gaps' = {} /\ count' = 0 /\ lastSeq' = 0
    /\ UNCHANGED <<database, mine>>

Boot ==
    /\ pc = "down"
    /\ FoldWholeLog
    /\ pc' = "idle"
    /\ UNCHANGED <<database, request, mine, faults>>

-----------------------------------------------------------------------------
Foreign == ForeignAllocate \/ ForeignCommit \/ ForeignAbort

Refresh == RefreshUnchanged \/ RefreshFresh \/ RefreshMismatch \/ RefreshRebuild

Decide == Reject \/ Accept \/ AcceptNothing

AppendBatch == OwnInsert \/ OwnCommit \/ OwnRollback \/ CollectGap

Settle ==
    \/ FinishRejection \/ OverwriteSnapshot \/ AppendMore
    \/ FinishFoldingGaps \/ FinishLeavingGaps

Fault == RefreshFails \/ OwnCommitUnacknowledged \/ Crash

(* What fails once rows are counted: the counter disagrees until a rebuild. *)
LateFault == GapReadFails \/ GapFoldThrows \/ FreshFoldThrows \/ RebuildThrows

Web == Boot \/ StartRead \/ StartExec \/ Refresh \/ Decide \/ AppendBatch \/ Settle

Steady == Foreign \/ Web \/ Fault

Next == Steady \/ LateFault

Spec == Init /\ [][Next]_vars

(* Nothing fails once rows are counted.  The queue keeps running what it    *)
(* holds, and clients keep reading.                                         *)
FairSpec ==
    /\ Init /\ [][Steady]_vars
    /\ WF_vars(Boot) /\ WF_vars(StartRead) /\ WF_vars(Refresh) /\ WF_vars(Decide)
    /\ WF_vars(AppendBatch) /\ WF_vars(Settle)

-----------------------------------------------------------------------------
(* Events committed and counted by the running operation but not applied.   *)
Pending == IF pc \in {"appended", "collected"} THEN own ELSE {}

(***************************************************************************)
(* The counter is exact: count is the number of distinct events that the   *)
(* snapshot, the gap buffer and the running append account for, all of     *)
(* them rows of the log (service-event-log.ts:45,51,126,141).  An event    *)
(* counted twice, or dropped by an overwrite, breaks it.                   *)
(***************************************************************************)
CountExact ==
    pc # "down" =>
        /\ Known \cup Pending \subseteq committed
        /\ folded \cap gaps = {}
        /\ count = Cardinality(Known \cup Pending)

(***************************************************************************)
(* When a refresh returns early because the counts agree, the snapshot and *)
(* the gap buffer are exactly the log as the query saw it (lines 113-116). *)
(***************************************************************************)
EarlyReturnIsCurrent ==
    (pc = "counted" /\ Cardinality(queried) = count) => Known = queried

(***************************************************************************)
(* An event this process appended is never collected as a foreign one and  *)
(* folded on top of the snapshot that already contains its effect (the     *)
(* comment of service.ts:217: own events stay out of the incremental fold  *)
(* so that nothing is counted twice).                                      *)
(***************************************************************************)
OwnNeverRefolded == gaps \cap mine = {}

(***************************************************************************)
(* Events of other writers enter the snapshot in log order, except through *)
(* a rebuild: no incremental fold puts one behind a later one (the comment *)
(* of lines 120-122, and M-1 at 133-135).                                  *)
(***************************************************************************)
ForeignInOrder ==
    [][pc \notin {"rebuild", "down"} =>
         \A s \in (folded' \ folded) \ mine, t \in folded \ mine : t < s]_vars

(* A running process never loses an event from its snapshot.                *)
SnapshotGrows ==
    [][pc' # "down" => folded \subseteq folded']_vars

(***************************************************************************)
(* Every committed event reaches the snapshot, whatever order the writers  *)
(* commit in and wherever the bounded faults strike.                       *)
(***************************************************************************)
Convergence ==
    \A s \in Seqs : s \in committed ~> s \in folded
=============================================================================
