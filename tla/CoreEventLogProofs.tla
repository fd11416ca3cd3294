------------------------- MODULE CoreEventLogProofs -------------------------
(***************************************************************************)
(* Proofs about CoreEventLog, for every value of its constants.            *)
(***************************************************************************)
EXTENDS CoreEventLog, FiniteSetTheorems, WellFoundedInduction, TLAPS

-----------------------------------------------------------------------------
(* A non-empty set of natural numbers with an upper bound has a maximum.    *)
LEMMA BoundedSetHasMaximum ==
    ASSUME NEW n \in Nat, NEW S \in SUBSET (1..n), S # {}
    PROVE  Max(S) \in S /\ \A s \in S : s <= Max(S)
<1> DEFINE Upper == {u \in Nat : \A s \in S : s <= u}
           Less == OpToRel(<, Nat)
<1>1. n \in Upper
  OBVIOUS
<1>2. Upper \subseteq Nat
  OBVIOUS
<1>a. \A x, y \in Nat : x < y => <<x, y>> \in Less
  BY Zenon DEF OpToRel
<1>3. PICK m \in Upper : \A u \in Upper : ~(<<u, m>> \in Less)
  <2> HIDE DEF Upper, Less
  <2>1. IsWellFoundedOn(Less, Nat)
    BY NatLessThanWellFounded, Zenon DEF Less
  <2> QED
    BY <1>1, <1>2, <2>1, WFMin
<1>4. \A u \in Upper : ~(u < m)
  <2> HIDE DEF Less
  <2> QED BY <1>3, <1>2, <1>a
<1> HIDE DEF Less
<1>5. m \in S
  <2>1. SUFFICES ASSUME m \notin S PROVE FALSE
    OBVIOUS
  <2>2. m \in Nat /\ m - 1 \in Int
    BY <1>2
  <2>3. \A s \in S : s \in Nat /\ s >= 1 /\ s <= m - 1
    BY <2>1, <2>2
  <2>4. m - 1 \in Nat
    <3>1. PICK s \in S : TRUE
      OBVIOUS
    <3> QED BY <3>1, <2>2, <2>3
  <2>5. m - 1 \in Upper
    BY <2>3, <2>4
  <2> QED
    BY <2>5, <1>4, <2>2
<1>6. m \in S /\ \A y \in S : m >= y
  BY <1>5
<1> QED
  <2>1. PICK x \in S : \A y \in S : x >= y
    BY <1>6
  <2>2. Max(S) \in S /\ \A y \in S : Max(S) >= y
    BY <2>1, Zenon DEF Max
  <2> QED
    BY <2>2

(* The largest of a set of sequence numbers is one of them, and 0 when there*)
(* is none.                                                                 *)
LEMMA LargestProperties ==
    ASSUME NEW S \in SUBSET Seqs
    PROVE  /\ Largest(S) \in 0..MaxSeq
           /\ \A s \in S : s <= Largest(S)
           /\ S # {} => Largest(S) \in S
           /\ S = {} => Largest(S) = 0
<1>1. CASE S = {}
  BY <1>1, BoundsAssumption DEF Largest
<1>2. CASE S # {}
  <2>1. Max(S) \in S /\ \A s \in S : s <= Max(S)
    BY <1>2, BoundedSetHasMaximum, BoundsAssumption DEF Seqs
  <2>2. Largest(S) = Max(S)
    BY <1>2 DEF Largest
  <2>3. Max(S) \in 0..MaxSeq
    <3>1. \A s \in Seqs : s \in 0..MaxSeq
      BY BoundsAssumption DEF Seqs
    <3> QED BY <2>1, <3>1
  <2> QED
    BY <1>2, <2>1, <2>2, <2>3, Zenon
<1> QED
  BY <1>1, <1>2

(* A set of sequence numbers is finite, so it can be counted.               *)
LEMMA CountingEvents ==
    ASSUME NEW S \in SUBSET Seqs
    PROVE  IsFiniteSet(S) /\ Cardinality(S) \in Nat
<1>1. IsFiniteSet(Seqs)
  BY FS_Interval, BoundsAssumption DEF Seqs
<1> QED
  BY <1>1, FS_Subset, FS_CardinalityType

(* Events appended together are counted apart from those already there.     *)
LEMMA CountingDisjointEvents ==
    ASSUME NEW S \in SUBSET Seqs, NEW T \in SUBSET Seqs, S \cap T = {}
    PROVE  Cardinality(S \cup T) = Cardinality(S) + Cardinality(T)
<1>1. Cardinality(S \cup T) = Cardinality(S) + Cardinality(T) - Cardinality(S \cap T)
  BY CountingEvents, FS_Union
<1>2. Cardinality(S \cap T) = 0
  BY FS_EmptySet
<1> QED
  BY <1>1, <1>2, CountingEvents

-----------------------------------------------------------------------------
LEMMA TypeInit == Init => TypeOK
BY BoundsAssumption DEF Init, TypeOK, Seqs

LEMMA TypeStep == TypeOK /\ [Next]_vars => TypeOK'
<1> SUFFICES ASSUME TypeOK, [Next]_vars PROVE TypeOK'
  OBVIOUS
<1> USE BoundsAssumption DEF TypeOK, database, logState, request, Return
<1>1. CASE Foreign
  <2>1. CASE ForeignAllocate
    BY <2>1 DEF ForeignAllocate, Seqs
  <2>2. CASE ForeignCommit
    BY <2>2 DEF ForeignCommit
  <2>3. CASE ForeignAbort
    BY <2>3 DEF ForeignAbort
  <2> QED BY <1>1, <2>1, <2>2, <2>3 DEF Foreign
<1>2. CASE StartRead \/ StartExec
  BY <1>2 DEF StartRead, StartExec, StartOperation
<1>3. CASE RefreshUnchanged
  BY <1>3 DEF RefreshUnchanged, RefreshReturns
<1>4. CASE RefreshFresh
  <2>1. Fresh \in SUBSET Seqs
    BY DEF Fresh, ReadLog
  <2>2. Cardinality(Fresh) \in Nat /\ Largest(Fresh) \in 0..MaxSeq
    BY <2>1, CountingEvents, LargestProperties
  <2> QED BY <1>4, <2>1, <2>2 DEF RefreshFresh, FreshAccountsForAll, RefreshReturns
<1>5. CASE RefreshMismatch
  BY <1>5 DEF RefreshMismatch
<1>6. CASE RefreshRebuild
  <2>1. Cardinality(committed) \in Nat /\ Largest(committed) \in 0..MaxSeq
    BY CountingEvents, LargestProperties
  <2> QED BY <1>6, <2>1 DEF RefreshRebuild, FoldWholeLog, RefreshReturns
<1>7. CASE Boot
  <2>1. Cardinality(committed) \in Nat /\ Largest(committed) \in 0..MaxSeq
    BY CountingEvents, LargestProperties
  <2> QED BY <1>7, <2>1 DEF Boot, FoldWholeLog
<1>8. CASE Decide
  BY <1>8 DEF Decide, Reject, Accept, Judge, AcceptNothing
<1>9. CASE OwnInsert
  BY <1>9 DEF OwnInsert, Seqs
<1>10. CASE OwnCommit
  <2>1. Cardinality(own) \in Nat
    BY CountingEvents
  <2> QED BY <1>10, <2>1 DEF OwnCommit
<1>11. CASE OwnRollback
  BY <1>11 DEF OwnRollback
<1>12. CASE CollectGap
  <2> DEFINE high == Largest(own)
             gap == GapBelow(high)
  <2>1. gap \in SUBSET Seqs
    BY DEF GapBelow, ReadLog
  <2>2. Cardinality(gap) \in Nat /\ high \in 0..MaxSeq
    BY <2>1, CountingEvents, LargestProperties
  <2>3. /\ \/ gaps' = gaps \cup gap /\ count' = count + Cardinality(gap) /\ lastSeq' = high
           \/ UNCHANGED <<gaps, count, lastSeq>>
        /\ pc' = "collected"
        /\ UNCHANGED <<database, folded, request, mine, faults>>
    BY <1>12, Zenon DEF CollectGap
  <2> HIDE DEF gap, high
  <2>4. gaps' \subseteq Seqs /\ count' \in Nat /\ lastSeq' \in 0..MaxSeq
    BY <2>1, <2>2, <2>3
  <2> QED BY <2>3, <2>4
<1>13. CASE Settle
  BY <1>13 DEF Settle, FinishRejection, OverwriteSnapshot, AppendMore,
               FinishFoldingGaps, FinishLeavingGaps
<1>14. CASE Fault \/ LateFault
  <2>1. faults' \in 0..MaxFaults
    BY <1>14 DEF Fault, LateFault, RefreshFails, OwnCommitUnacknowledged, GapReadFails, Crash,
                 GapFoldThrows, FreshFoldThrows, RebuildThrows
  <2> QED
    BY <1>14, <2>1 DEF Fault, LateFault, RefreshFails, OwnCommitUnacknowledged, GapReadFails, Crash,
                       GapFoldThrows, FreshFoldThrows, RebuildThrows
<1>15. CASE UNCHANGED vars
  BY <1>15 DEF vars
<1> QED
  BY <1>1, <1>2, <1>3, <1>4, <1>5, <1>6, <1>7, <1>8, <1>9, <1>10, <1>11, <1>12,
     <1>13, <1>14, <1>15 DEF Next, Steady, LateFault, Web, Refresh, AppendBatch

(* Every variable keeps its type: the counter stays a natural number, the   *)
(* watermark a handed-out sequence number (CoreEventLogState, lines 18-23). *)
THEOREM TypeCorrect == Spec => []TypeOK
BY TypeInit, TypeStep, PTL DEF Spec


-----------------------------------------------------------------------------
(* The inductive invariant about order, whatever fails.  A number taken    *)
(* from the sequence is above everything known, the watermark separates    *)
(* what is known from what a later read may return, and the gap buffer     *)
(* lies above every foreign event folded.                                  *)

KnownVisible ==
    /\ Known \subseteq committed
    /\ mine \subseteq committed

KnownBelowWatermark ==
    pc # "down" => (\A s \in Known : s <= lastSeq) /\ lastSeq < nextSeq

NumbersTaken ==
    \A s \in committed \cup open : s < nextSeq

AppendFresh ==
    /\ pc \in {"appending", "appended"} => \A s \in own : lastSeq < s /\ s < nextSeq
    /\ pc \in {"appended", "collected"} => own # {} /\ own \subseteq mine /\ own \cap Known = {}
    /\ pc = "collected" => \A s \in own : s <= lastSeq
    /\ pc \in {"appending", "appended", "collected"} => base = folded

GapsAfterForeign ==
    \A g \in gaps, t \in folded \ mine : t < g

DownIsEmpty == pc = "down" => Known = {}

OrderInv ==
    /\ TypeOK
    /\ KnownVisible
    /\ KnownBelowWatermark
    /\ NumbersTaken
    /\ AppendFresh
    /\ GapsAfterForeign
    /\ DownIsEmpty

LEMMA OrderInvInit == Init => OrderInv
BY TypeInit, BoundsAssumption
DEF Init, OrderInv, KnownVisible, KnownBelowWatermark, NumbersTaken,
    AppendFresh, GapsAfterForeign, DownIsEmpty, Known

LEMMA OrderInvStep ==
    ASSUME OrderInv, [Next]_vars
    PROVE  OrderInv'
<1>t. TypeOK'
  BY TypeStep DEF OrderInv
<1>i. \A s \in Seqs : s \in Int
  BY DEF Seqs
<1>n. nextSeq \in Int /\ lastSeq \in Int
  BY BoundsAssumption DEF OrderInv, TypeOK
<1> USE DEF OrderInv, database, logState, request, Return, KnownVisible, Known
<1>1. CASE Foreign
  <2>1. /\ UNCHANGED <<logState, request, pc, mine, faults>>
        /\ committed \subseteq committed'
        /\ nextSeq' \in Int /\ nextSeq <= nextSeq'
        /\ \A s \in committed' \cup open' : s \in committed \cup open \/ (s = nextSeq /\ nextSeq < nextSeq')
    <3>1. CASE ForeignAllocate
      BY <3>1, <1>n DEF ForeignAllocate
    <3>2. CASE ForeignCommit
      BY <3>2, <1>n DEF ForeignCommit
    <3>3. CASE ForeignAbort
      BY <3>3, <1>n DEF ForeignAbort
    <3> QED BY <1>1, <3>1, <3>2, <3>3 DEF Foreign
  <2>2. KnownVisible' /\ GapsAfterForeign' /\ DownIsEmpty'
    BY <2>1 DEF GapsAfterForeign, DownIsEmpty
  <2>3. KnownBelowWatermark'
    BY <2>1, <1>n DEF KnownBelowWatermark
  <2>4. NumbersTaken'
    BY <2>1, <1>i, <1>n DEF NumbersTaken, TypeOK
  <2>5. AppendFresh'
    BY <2>1, <1>i, <1>n DEF AppendFresh, TypeOK
  <2> QED BY <1>t, <2>2, <2>3, <2>4, <2>5
<1> USE DEF KnownBelowWatermark, NumbersTaken, AppendFresh, GapsAfterForeign, DownIsEmpty
<1>2. CASE StartRead \/ StartExec
  BY <1>2, <1>t DEF StartRead, StartExec, StartOperation
<1>3. CASE RefreshUnchanged
  BY <1>3, <1>t DEF RefreshUnchanged, RefreshReturns
<1>4. CASE RefreshFresh
  <2> DEFINE high == Largest(Fresh)
  <2>1. Fresh \in SUBSET Seqs /\ Fresh \subseteq committed /\ \A s \in Fresh : lastSeq < s
    BY DEF Fresh, ReadLog, TypeOK
  <2>2. high \in 0..MaxSeq /\ (\A s \in Fresh : s <= high) /\ (Fresh # {} => high \in Fresh)
        /\ (Fresh = {} => high = 0)
    BY <2>1, LargestProperties
  <2>3. pc' \in {"idle", "judge"}
    BY <1>4 DEF RefreshFresh, RefreshReturns
  <2>4. /\ folded' = Known \cup Fresh /\ gaps' = {}
        /\ lastSeq' = IF high > lastSeq THEN high ELSE lastSeq
        /\ UNCHANGED <<database, mine, faults>>
    BY <1>4, Zenon DEF RefreshFresh
  <2>5. pc = "counted"
    BY <1>4 DEF RefreshFresh
  <2> HIDE DEF high
  <2>6. lastSeq <= lastSeq' /\ lastSeq' \in Int /\ \A s \in Fresh : s <= lastSeq'
    BY <2>1, <2>2, <2>4, <1>i, <1>n
  <2>7. \A s \in Known : s \in Int /\ s <= lastSeq
    BY <2>5, <1>i DEF TypeOK
  <2>8. lastSeq' < nextSeq'
    <3>1. CASE high > lastSeq
      <4>1. Fresh # {}
        BY <3>1, <2>2, <1>n DEF TypeOK
      <4> QED BY <3>1, <4>1, <2>1, <2>2, <2>4
    <3>2. CASE ~(high > lastSeq)
      BY <3>2, <2>4, <2>5
    <3> QED BY <3>1, <3>2
  <2>9. KnownBelowWatermark'
    <3>1. \A s \in Known' : s <= lastSeq'
      BY <2>4, <2>6, <2>7, <1>n
    <3> QED BY <2>8, <3>1
  <2> QED
    BY <1>t, <2>1, <2>3, <2>4, <2>9
<1>5. CASE RefreshMismatch
  BY <1>5, <1>t DEF RefreshMismatch
<1>6. CASE RefreshRebuild \/ Boot
  <2> DEFINE high == Largest(committed)
  <2>1. /\ high \in 0..MaxSeq /\ \A s \in committed : s <= high
        /\ committed # {} => high \in committed
        /\ committed = {} => high = 0
    BY LargestProperties DEF TypeOK
  <2>2. pc' \in {"idle", "judge"}
    BY <1>6 DEF RefreshRebuild, Boot, RefreshReturns
  <2>3. /\ folded' = committed /\ gaps' = {} /\ lastSeq' = high
        /\ UNCHANGED <<database, mine, faults>>
    BY <1>6, Zenon DEF RefreshRebuild, Boot, FoldWholeLog
  <2> HIDE DEF high
  <2>4. high < nextSeq
    <3>1. 0 < nextSeq
      BY BoundsAssumption DEF TypeOK
    <3>2. \A s \in committed : s < nextSeq
      OBVIOUS
    <3> QED BY <2>1, <3>1, <3>2
  <2> QED
    BY <1>t, <2>1, <2>2, <2>3, <2>4
<1>8. CASE Decide
  BY <1>8, <1>t DEF Decide, Reject, Accept, Judge, AcceptNothing
<1>9. CASE OwnInsert
  <2>1. /\ nextSeq' = nextSeq + 1 /\ pc = "appending" /\ own' = own \cup {nextSeq}
        /\ UNCHANGED <<committed, open, logState, op, queried, base, pc, mine, faults>>
    BY <1>9 DEF OwnInsert
  <2>2. NumbersTaken'
    BY <2>1, <1>i, <1>n DEF TypeOK
  <2>3. KnownBelowWatermark'
    BY <2>1, <1>n
  <2>4. AppendFresh'
    BY <2>1, <1>i, <1>n DEF TypeOK
  <2> QED
    BY <1>t, <2>1, <2>2, <2>3, <2>4
<1>10. CASE OwnCommit
  <2>1. Known \cap own = {} /\ Known \in SUBSET Seqs
    BY <1>10, <1>i, <1>n DEF OwnCommit, TypeOK
  <2>2. NumbersTaken'
    BY <1>10 DEF OwnCommit
  <2> QED
    BY <1>10, <1>t, <2>1, <2>2 DEF OwnCommit
<1>11. CASE OwnRollback
  BY <1>11, <1>t DEF OwnRollback
<1>12. CASE CollectGap
  <2> DEFINE high == Largest(own)
             gap == GapBelow(high)
  <2>1. /\ own \in SUBSET Seqs /\ own # {} /\ own \subseteq committed
        /\ Known \in SUBSET Seqs /\ Known \cap own = {}
    BY <1>12 DEF CollectGap, TypeOK
  <2>2. high \in own /\ \A s \in own : s <= high
    BY <2>1, LargestProperties
  <2>3. /\ gap \in SUBSET Seqs /\ gap \subseteq committed /\ gap \cap own = {}
        /\ \A s \in gap : lastSeq < s /\ s < high
    BY DEF GapBelow, ReadLog, TypeOK
  <2>4. lastSeq < high /\ high < nextSeq /\ high \in Int
    BY <1>12, <2>1, <2>2, <1>i DEF CollectGap
  <2>5. /\ gaps' = gaps \cup gap /\ lastSeq' = high
        /\ pc = "appended" /\ pc' = "collected"
        /\ UNCHANGED <<database, folded, request, mine, faults>>
    BY <1>12, <2>4 DEF CollectGap
  <2> HIDE DEF high, gap
  <2>6. \A s \in Known : s \in Int /\ s <= lastSeq
    BY <2>1, <2>5, <1>i
  <2>7. KnownBelowWatermark'
    <3>1. \A s \in Known' : s <= lastSeq'
      BY <2>3, <2>4, <2>5, <2>6, <1>i, <1>n
    <3> QED BY <2>4, <2>5, <3>1
  <2>8. GapsAfterForeign'
    <3>1. \A g \in gap, t \in folded : t < g
      BY <2>3, <2>6, <1>i, <1>n
    <3> QED BY <2>5, <3>1
  <2>9. AppendFresh'
    BY <2>1, <2>2, <2>3, <2>5
  <2> QED
    BY <1>t, <2>1, <2>3, <2>5, <2>7, <2>8, <2>9
<1>13. CASE Settle
  <2>1. CASE FinishRejection
    <3>1. pc = "collected" /\ folded' = folded \cup own /\ pc' = "idle" /\ UNCHANGED <<gaps, lastSeq, database, mine>>
      BY <2>1 DEF FinishRejection
    <3> QED BY <2>1, <3>1, <1>t DEF FinishRejection
  <2>2. CASE OverwriteSnapshot
    <3>1. pc = "collected" /\ folded' = folded \cup own /\ pc' = "applied" /\ UNCHANGED <<gaps, lastSeq, database, mine>>
      BY <2>2 DEF OverwriteSnapshot
    <3> QED BY <3>1, <1>t
  <2>3. CASE AppendMore
    BY <2>3, <1>t DEF AppendMore
  <2>4. CASE FinishFoldingGaps
    BY <2>4, <1>t DEF FinishFoldingGaps
  <2>5. CASE FinishLeavingGaps
    BY <2>5, <1>t DEF FinishLeavingGaps
  <2> QED
    BY <1>13, <2>1, <2>2, <2>3, <2>4, <2>5 DEF Settle
<1>14. CASE Fault \/ LateFault
  <2>1. CASE Crash \/ RefreshFails
    BY <2>1, <1>t DEF Crash, RefreshFails
  <2>2. CASE OwnCommitUnacknowledged
    BY <2>2, <1>t DEF OwnCommitUnacknowledged
  <2>3. CASE GapReadFails \/ RebuildThrows
    BY <2>3, <1>t DEF GapReadFails, RebuildThrows
  <2>4. CASE GapFoldThrows
    BY <2>4, <1>t DEF GapFoldThrows
  <2>5. CASE FreshFoldThrows
    BY <2>5, <1>t DEF FreshFoldThrows
  <2> QED
    BY <1>14, <2>1, <2>2, <2>3, <2>4, <2>5 DEF Fault, LateFault
<1>15. CASE UNCHANGED vars
  BY <1>15, <1>t DEF vars
<1> QED
  BY <1>1, <1>2, <1>3, <1>4, <1>5, <1>6, <1>8, <1>9, <1>10, <1>11, <1>12, <1>13, <1>14, <1>15
  DEF Next, Steady, LateFault, Web, Refresh, AppendBatch

(* Numbers, watermark and gap buffer stay in order, whatever fails.         *)
THEOREM OrderInvariant == Spec => []OrderInv
<1>1. OrderInv /\ [Next]_vars => OrderInv'
  BY OrderInvStep
<1> QED
  BY <1>1, OrderInvInit, PTL DEF Spec

-----------------------------------------------------------------------------
(* The inductive invariant about counting, as long as the gap read does    *)
(* not fail and no fold throws: it adds that the events of this process    *)
(* stay below the watermark and that a query has seen all that is known.   *)

NothingFailsAfterCommit == ~GapReadMayFail /\ ~FoldMayThrow

OwnBelowWatermark ==
    pc # "down" => \A s \in mine : s <= lastSeq \/ (pc = "appended" /\ s \in own)

QueryCoversKnown ==
    /\ queried \subseteq committed
    /\ pc = "counted" => Known \subseteq queried

CountInv ==
    /\ CountExact
    /\ OwnNeverRefolded
    /\ OwnBelowWatermark
    /\ QueryCoversKnown

LEMMA CountInvInit == Init => CountInv
BY FS_EmptySet, BoundsAssumption
DEF Init, CountInv, CountExact, OwnNeverRefolded, OwnBelowWatermark, QueryCoversKnown, Known, Pending

LEMMA CountInvStep ==
    ASSUME NothingFailsAfterCommit, OrderInv, CountInv, [Next]_vars
    PROVE  CountInv'
<1>i. \A s \in Seqs : s \in Int
  BY DEF Seqs
<1>t. TypeOK /\ Known \in SUBSET Seqs /\ own \in SUBSET Seqs /\ mine \in SUBSET Seqs /\ lastSeq \in Int
  BY DEF OrderInv, TypeOK, Known
<1> USE DEF CountInv, database, logState, request, Return,
            CountExact, OwnNeverRefolded, Known, Pending, OwnBelowWatermark, QueryCoversKnown
<1>1. CASE Foreign
  <2>1. UNCHANGED <<logState, request, pc, mine, faults>> /\ committed \subseteq committed'
    BY <1>1 DEF Foreign, ForeignAllocate, ForeignCommit, ForeignAbort
  <2> QED BY <2>1
<1>2. CASE StartRead \/ StartExec
  BY <1>2 DEF StartRead, StartExec, StartOperation
<1>3. CASE RefreshUnchanged
  BY <1>3 DEF RefreshUnchanged, RefreshReturns
<1>4. CASE RefreshFresh
  <2> DEFINE high == Largest(Fresh)
  <2>1. Fresh \in SUBSET Seqs /\ Fresh \subseteq committed /\ \A s \in Fresh : lastSeq < s
    BY <1>t DEF Fresh, ReadLog, TypeOK
  <2>2. pc = "counted" /\ (\A s \in Known : s <= lastSeq)
    BY <1>4 DEF RefreshFresh, OrderInv, KnownBelowWatermark
  <2>3. Known \cap Fresh = {}
    BY <2>1, <2>2, <1>t, <1>i
  <2>4. Cardinality(Known \cup Fresh) = count + Cardinality(Fresh)
    BY <2>1, <2>2, <2>3, <1>t, CountingDisjointEvents
  <2>5. pc' \in {"idle", "judge"} /\ queried' \in {queried, {}}
    BY <1>4 DEF RefreshFresh, RefreshReturns
  <2>6. /\ folded' = Known \cup Fresh /\ gaps' = {}
        /\ count' = count + Cardinality(Fresh)
        /\ lastSeq' = IF high > lastSeq THEN high ELSE lastSeq
        /\ UNCHANGED <<database, mine, faults>>
    BY <1>4, Zenon DEF RefreshFresh
  <2>7. high \in Int
    BY <2>1, LargestProperties, BoundsAssumption
  <2> HIDE DEF high
  <2>8. CountExact'
    BY <2>1, <2>2, <2>4, <2>5, <2>6
  <2>9. OwnBelowWatermark'
    BY <2>2, <2>6, <2>7, <1>t, <1>i
  <2> QED
    BY <2>5, <2>6, <2>8, <2>9
<1>5. CASE RefreshMismatch
  BY <1>5 DEF RefreshMismatch
<1>6. CASE RefreshRebuild \/ Boot
  <2>1. pc' \in {"idle", "judge"} /\ queried' \in {queried, {}}
    BY <1>6 DEF RefreshRebuild, Boot, RefreshReturns
  <2>2. /\ folded' = committed /\ gaps' = {} /\ count' = Cardinality(committed)
        /\ lastSeq' = Largest(committed)
        /\ UNCHANGED <<database, mine, faults>>
    BY <1>6, Zenon DEF RefreshRebuild, Boot, FoldWholeLog
  <2>3. \A s \in mine : s <= Largest(committed)
    BY LargestProperties, <1>t DEF OrderInv, KnownVisible, TypeOK
  <2> QED
    BY <2>1, <2>2, <2>3
<1>8. CASE Decide
  BY <1>8 DEF Decide, Reject, Accept, Judge, AcceptNothing
<1>9. CASE OwnInsert
  BY <1>9 DEF OwnInsert
<1>10. CASE OwnCommit
  <2>1. pc = "appending" /\ Known \cap own = {}
    BY <1>10, <1>t, <1>i DEF OwnCommit, OrderInv, AppendFresh, KnownBelowWatermark
  <2>2. Cardinality(Known \cup own) = count + Cardinality(own)
    BY <2>1, <1>t, CountingDisjointEvents
  <2>3. CountExact'
    BY <1>10, <2>1, <2>2 DEF OwnCommit
  <2>4. OwnBelowWatermark' /\ OwnNeverRefolded'
    BY <1>10, <2>1 DEF OwnCommit
  <2> QED
    BY <1>10, <2>3, <2>4 DEF OwnCommit
<1>11. CASE OwnRollback
  BY <1>11 DEF OwnRollback
<1>12. CASE CollectGap
  <2> DEFINE high == Largest(own)
             gap == GapBelow(high)
  <2>1. pc = "appended" /\ own # {} /\ own \subseteq committed /\ Known \cap own = {}
    BY <1>12 DEF CollectGap, OrderInv, AppendFresh, KnownVisible
  <2>2. high \in own /\ \A s \in own : s <= high
    BY <2>1, <1>t, LargestProperties
  <2>3. /\ gap \in SUBSET Seqs /\ gap \subseteq committed /\ gap \cap own = {}
        /\ \A s \in gap : lastSeq < s /\ s < high
    BY <1>t DEF GapBelow, ReadLog, TypeOK
  <2>4. lastSeq < high /\ high \in Int
    BY <2>1, <2>2, <1>t, <1>i DEF OrderInv, AppendFresh
  <2>5. /\ gaps' = gaps \cup gap /\ count' = count + Cardinality(gap) /\ lastSeq' = high
        /\ pc' = "collected"
        /\ UNCHANGED <<database, folded, request, mine, faults>>
    BY <1>12, <2>4 DEF CollectGap
  <2> HIDE DEF high, gap
  <2>6. \A s \in Known : s \in Int /\ s <= lastSeq
    BY <2>1, <1>t, <1>i DEF OrderInv, KnownBelowWatermark
  <2>7. Known \cap gap = {}
    BY <2>3, <2>6, <1>t
  <2>8. CountExact'
    <3>1. (Known \cup own) \cap gap = {} /\ (Known \cup own) \in SUBSET Seqs
      BY <2>3, <2>7, <1>t
    <3>2. Cardinality((Known \cup own) \cup gap) = count + Cardinality(gap)
      BY <2>1, <2>3, <3>1, CountingDisjointEvents
    <3>3. Known' \cup Pending' = (Known \cup own) \cup gap
      BY <2>5
    <3> QED BY <2>1, <2>3, <2>5, <2>7, <3>2, <3>3
  <2>9. OwnNeverRefolded'
    BY <2>1, <2>3, <2>5, <1>t, <1>i
  <2>10. OwnBelowWatermark'
    BY <2>1, <2>2, <2>4, <2>5, <1>t, <1>i
  <2> QED
    BY <2>5, <2>8, <2>9, <2>10
<1>13. CASE Settle
  <2>1. CASE FinishRejection
    BY <2>1 DEF FinishRejection, OrderInv, AppendFresh
  <2>2. CASE OverwriteSnapshot
    BY <2>2 DEF OverwriteSnapshot, OrderInv, AppendFresh
  <2>3. CASE AppendMore
    BY <2>3 DEF AppendMore
  <2>4. CASE FinishFoldingGaps
    BY <2>4 DEF FinishFoldingGaps
  <2>5. CASE FinishLeavingGaps
    BY <2>5 DEF FinishLeavingGaps
  <2> QED
    BY <1>13, <2>1, <2>2, <2>3, <2>4, <2>5 DEF Settle
<1>14. CASE Fault \/ LateFault
  <2>1. CASE Crash \/ RefreshFails
    BY <2>1 DEF Crash, RefreshFails
  <2>2. CASE OwnCommitUnacknowledged
    BY <2>2 DEF OwnCommitUnacknowledged
  <2> QED
    BY <1>14, <2>1, <2>2 DEF Fault, LateFault, GapReadFails, GapFoldThrows, FreshFoldThrows, RebuildThrows,
                             NothingFailsAfterCommit
<1>15. CASE UNCHANGED vars
  BY <1>15 DEF vars
<1> QED
  BY <1>1, <1>2, <1>3, <1>4, <1>5, <1>6, <1>8, <1>9, <1>10, <1>11, <1>12, <1>13, <1>14, <1>15
  DEF Next, Steady, LateFault, Web, Refresh, AppendBatch

(* Order and count together.                                                *)
LogInv == OrderInv /\ CountInv

(* Both invariants together hold in every reachable state, provided no step *)
(* fails after its commit.                                                  *)
THEOREM LogInvariant == NothingFailsAfterCommit /\ Spec => []LogInv
<1> SUFFICES ASSUME NothingFailsAfterCommit PROVE Spec => []LogInv
  OBVIOUS
<1>1. Init => LogInv
  BY OrderInvInit, CountInvInit DEF LogInv
<1>2. LogInv /\ [Next]_vars => LogInv'
  BY OrderInvStep, CountInvStep DEF LogInv
<1> QED
  BY <1>1, <1>2, PTL DEF Spec

(* The counter is exact in every reachable state: what is counted is what   *)
(* the snapshot, the gap buffer and the running append hold.                *)
THEOREM CountIsExact == NothingFailsAfterCommit /\ Spec => []CountExact
<1>1. LogInv => CountExact
  BY DEF LogInv, CountInv
<1> QED
  BY <1>1, LogInvariant, PTL

(* Equal counts mean equal sets: the early return of refreshFromLog misses  *)
(* nothing the query saw, whatever order the transactions committed in.     *)
THEOREM EarlyReturnMissesNothing == NothingFailsAfterCommit /\ Spec => []EarlyReturnIsCurrent
<1>1. LogInv => EarlyReturnIsCurrent
  <2> SUFFICES ASSUME LogInv, pc = "counted", Cardinality(queried) = count
               PROVE  Known = queried
    BY DEF EarlyReturnIsCurrent
  <2>1. Known \in SUBSET queried /\ Cardinality(Known) = Cardinality(queried)
    BY DEF LogInv, CountInv, QueryCoversKnown, CountExact, Pending
  <2>2. IsFiniteSet(queried)
    BY CountingEvents DEF LogInv, OrderInv, TypeOK
  <2> QED
    BY <2>1, <2>2, FS_Subset
<1> QED
  BY <1>1, LogInvariant, PTL

(* An event of the process itself never lands in the gap buffer.            *)
THEOREM OwnEventsNeverRefolded == NothingFailsAfterCommit /\ Spec => []OwnNeverRefolded
<1>1. LogInv => OwnNeverRefolded
  BY DEF LogInv, CountInv
<1> QED
  BY <1>1, LogInvariant, PTL

-----------------------------------------------------------------------------
(* Foreign events enter the snapshot in log order: what an incremental fold *)
(* adds lies above every foreign event already there, whatever fails.       *)
THEOREM ForeignFoldedInOrder == Spec => ForeignInOrder
<1> DEFINE InOrder == pc \notin {"rebuild", "down"} =>
                        \A s \in (folded' \ folded) \ mine, t \in folded \ mine : t < s
<1>1. ASSUME OrderInv, [Next]_vars PROVE InOrder
  <2> USE DEF OrderInv, logState
  <2>1. CASE RefreshUnchanged \/ FinishFoldingGaps \/ FreshFoldThrows
    BY <1>1, <2>1 DEF RefreshUnchanged, FinishFoldingGaps, FreshFoldThrows, GapsAfterForeign
  <2>2. CASE RefreshFresh
    <3>1. \A s \in Fresh : lastSeq < s /\ s \in Int
      BY <1>1 DEF Fresh, ReadLog, TypeOK, Seqs
    <3>2. lastSeq \in Int /\ \A t \in folded : t \in Int /\ t <= lastSeq
      BY <1>1, <2>2 DEF RefreshFresh, FreshAccountsForAll, KnownBelowWatermark, Known, TypeOK, Seqs
    <3>3. \A s \in Fresh, t \in folded : t < s
      BY <3>1, <3>2
    <3>4. folded' \subseteq folded \cup gaps \cup Fresh
      BY <2>2 DEF RefreshFresh, FreshAccountsForAll
    <3> QED BY <1>1, <3>3, <3>4 DEF GapsAfterForeign
  <2>3. CASE FinishRejection \/ OverwriteSnapshot
    BY <1>1, <2>3 DEF FinishRejection, OverwriteSnapshot, AppendFresh
  <2>4. CASE pc \in {"rebuild", "down"}
    BY <2>4
  <2>5. CASE folded' \subseteq folded
    BY <2>5
  <2>6. \/ RefreshUnchanged \/ FinishFoldingGaps \/ FreshFoldThrows \/ RefreshFresh
        \/ FinishRejection \/ OverwriteSnapshot
        \/ pc \in {"rebuild", "down"} \/ folded' \subseteq folded
    BY <1>1 DEF Next, Steady, LateFault, Foreign, ForeignAllocate, ForeignCommit, ForeignAbort, Web, Boot,
       StartRead, StartExec, StartOperation, Refresh, RefreshMismatch, RefreshRebuild,
       Decide, Reject, Accept, Judge, AcceptNothing, AppendBatch, OwnInsert, OwnCommit,
       OwnRollback, CollectGap, Settle, AppendMore, FinishLeavingGaps, Fault, RefreshFails,
       OwnCommitUnacknowledged, GapReadFails, Crash, GapFoldThrows, RebuildThrows, vars
  <2> QED
    BY <2>1, <2>2, <2>3, <2>4, <2>5, <2>6
<1>2. Spec => [][InOrder]_vars
  <2>1. OrderInv /\ [Next]_vars => [InOrder]_vars
    BY <1>1
  <2> QED
    BY <2>1, OrderInvariant, PTL DEF Spec
<1> QED
  BY <1>2 DEF ForeignInOrder

(* A running process never loses an event from its snapshot: neither the    *)
(* overwrite with the verdict's result nor the rebuild drops one.           *)
THEOREM SnapshotNeverShrinks == Spec => SnapshotGrows
<1> DEFINE Grows == pc' # "down" => folded \subseteq folded'
<1>1. ASSUME OrderInv, [Next]_vars PROVE Grows
  <2> USE DEF OrderInv, logState
  <2>1. CASE OverwriteSnapshot
    BY <1>1, <2>1 DEF OverwriteSnapshot, AppendFresh
  <2>2. CASE RefreshRebuild \/ Boot
    BY <1>1, <2>2 DEF RefreshRebuild, Boot, FoldWholeLog, KnownVisible, Known
  <2>3. CASE pc' = "down" \/ folded \subseteq folded'
    BY <2>3
  <2>4. OverwriteSnapshot \/ RefreshRebuild \/ Boot \/ pc' = "down" \/ folded \subseteq folded'
    BY <1>1 DEF Next, Steady, LateFault, Foreign, ForeignAllocate, ForeignCommit, ForeignAbort, Web,
       StartRead, StartExec, StartOperation, Refresh, RefreshUnchanged, RefreshFresh,
       RefreshMismatch, Decide, Reject, Accept, Judge, AcceptNothing, AppendBatch, OwnInsert,
       OwnCommit, OwnRollback, CollectGap, Settle, FinishRejection, AppendMore,
       FinishFoldingGaps, FinishLeavingGaps, Fault, RefreshFails, OwnCommitUnacknowledged,
       GapReadFails, Crash, GapFoldThrows, FreshFoldThrows, RebuildThrows, vars
  <2> QED
    BY <2>1, <2>2, <2>3, <2>4
<1>2. Spec => [][Grows]_vars
  <2>1. OrderInv /\ [Next]_vars => [Grows]_vars
    BY <1>1
  <2> QED
    BY <2>1, OrderInvariant, PTL DEF Spec
<1> QED
  BY <1>2 DEF SnapshotGrows
=============================================================================
