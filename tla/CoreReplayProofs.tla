-------------------------- MODULE CoreReplayProofs --------------------------
(***************************************************************************)
(* Proofs about CoreReplay: whatever order the writers commit in, and      *)
(* whatever the process does in between, the log replays, the snapshot is  *)
(* the replay of what it has folded, and verdicts are given on the current *)
(* state of the family they change; the log as a whole goes through the    *)
(* steps of GovernedStore.                                                 *)
(*                                                                         *)
(* The key is that a snapshot can be told from a set of rows without their *)
(* order: each event leaves a trace of its own (Represents).  Only actions *)
(* overwrite each other, and they are written in order by one process.  A  *)
(* row folds exactly where its fellows are (Fits), so that a log replays   *)
(* when each row fits after the rows below it (AllFit).                    *)
(***************************************************************************)
EXTENDS CoreReplay, CoreEventLogProofs, NaturalsLemmas, SequenceTheorems

-----------------------------------------------------------------------------
(* Events, snapshots, and what the fold of one event does.                   *)

Nodes == DOMAIN Declared
Statuses == {"none", "pending", "approved", "rejected"}
Confirmation == [status : Statuses, action : Actions \cup {"none"}, notified : BOOLEAN]
Delegation == [status : {"none", "running", "completed"}, steps : Nat]
Snapshot == [ok : BOOLEAN, node : Nodes,
             confirmations : [ConfirmationIds -> Confirmation],
             delegations : [Delegations -> Delegation]]

Decisions == {"confirmation-approved", "confirmation-rejected"}
WebKinds == {"noted", "action-executed", "confirmation-requested"} \cup Decisions
WorkerKinds ==
    {"notification-delivered", "delegation-started", "delegation-step", "delegation-completed"}

Events ==
    [kind : {"noted"}]
    \cup [kind : {"action-executed"}, action : Actions]
    \cup [kind : {"confirmation-requested"}, id : ConfirmationIds, action : Actions]
    \cup [kind : Decisions \cup {"notification-delivered"}, id : ConfirmationIds]
    \cup [kind : {"delegation-started"}, delegation : Delegations]
    \cup [kind : {"delegation-step"}, delegation : Delegations, step : Nat]
    \cup [kind : {"delegation-completed"}, delegation : Delegations, steps : Nat]

(* The fields an event has, by its kind.                                     *)
LEMMA EventFields ==
    ASSUME NEW e \in Events
    PROVE  /\ e.kind \in WebKinds \cup WorkerKinds
           /\ e.kind \in {"action-executed", "confirmation-requested"} => e.action \in Actions
           /\ e.kind \in Decisions \cup {"confirmation-requested", "notification-delivered"} =>
                e.id \in ConfirmationIds
           /\ e.kind \in {"delegation-started", "delegation-step", "delegation-completed"} =>
                e.delegation \in Delegations /\ "delegation" \in DOMAIN e
           /\ "delegation" \in DOMAIN e =>
                e.kind \in {"delegation-started", "delegation-step", "delegation-completed"}
           /\ e.kind = "delegation-step" => e.step \in Nat
           /\ e.kind = "delegation-completed" => e.steps \in Nat
BY DEF Events, WebKinds, WorkerKinds, Decisions

(* The events the process writes, field by field.                            *)
LEMMA WebEvents ==
    /\ Noted \in Events /\ Noted.kind = "noted"
    /\ \A a \in Actions :
         /\ Executed(a) \in Events /\ Executed(a).kind = "action-executed" /\ Executed(a).action = a
    /\ \A i \in ConfirmationIds :
         /\ Approved(i) \in Events /\ Approved(i).kind = "confirmation-approved" /\ Approved(i).id = i
         /\ Refused(i) \in Events /\ Refused(i).kind = "confirmation-rejected" /\ Refused(i).id = i
         /\ \A a \in Actions :
              /\ Requested(i, a) \in Events /\ Requested(i, a).kind = "confirmation-requested"
              /\ Requested(i, a).id = i /\ Requested(i, a).action = a
BY DEF Events, Decisions, Noted, Executed, Approved, Refused, Requested

(* The events the worker writes, field by field.                             *)
LEMMA WorkerEvents ==
    /\ \A i \in ConfirmationIds :
         /\ Delivered(i) \in Events /\ Delivered(i).kind = "notification-delivered"
         /\ Delivered(i).id = i
    /\ \A d \in Delegations :
         /\ Started(d) \in Events /\ Started(d).kind = "delegation-started"
         /\ Started(d).delegation = d
         /\ \A n \in Nat :
              /\ Step(d, n) \in Events /\ Step(d, n).kind = "delegation-step"
              /\ Step(d, n).delegation = d /\ Step(d, n).step = n
              /\ Finished(d, n) \in Events /\ Finished(d, n).kind = "delegation-completed"
              /\ Finished(d, n).delegation = d /\ Finished(d, n).steps = n
BY DEF Events, Decisions, Delivered, Started, Step, Finished
-----------------------------------------------------------------------------
(* A fold that has thrown stays as it is.                                    *)
LEMMA ApplyThrown ==
    ASSUME NEW s \in Snapshot, NEW e, s.ok # TRUE
    PROVE  Apply(s, e) = s
<1>1. s.ok = FALSE
  BY DEF Snapshot
<1> QED
  BY <1>1 DEF Apply

(* Throwing marks the snapshot.                                              *)
LEMMA ThrowIs ==
    ASSUME NEW s \in Snapshot
    PROVE  Throw(s) \in Snapshot /\ Throw(s).ok # TRUE
BY DEF Snapshot, Throw

(* What one event does to a snapshot that has not thrown, and when it        *)
(* throws, by kind: a note does nothing.                                     *)
LEMMA ApplyNotedIs ==
    ASSUME NEW s \in Snapshot, NEW e, e.kind = "noted"
    PROVE  Apply(s, e) = s
BY DEF Apply

(* An action throws where it is not declared, and otherwise moves the        *)
(* node.                                                                     *)
LEMMA ApplyExecutedIs ==
    ASSUME NEW s \in Snapshot, s.ok = TRUE, NEW e \in Events, e.kind = "action-executed",
           NEW t, t = Apply(s, e)
    PROVE  /\ t \in Snapshot
           /\ (t.ok = TRUE) <=> e.action \in Declared[s.node]
           /\ t.ok = TRUE => /\ t.node = Target[e.action]
                             /\ t.confirmations = s.confirmations
                             /\ t.delegations = s.delegations
<1>1. t = ApplyExecuted(s, e.action)
  BY DEF Apply
<1>2. e.action \in Actions
  BY EventFields
<1>3. CASE e.action \in Declared[s.node]
  BY <1>1, <1>2, <1>3, FlowAssumption DEF ApplyExecuted, Snapshot, Nodes
<1>4. CASE e.action \notin Declared[s.node]
  BY <1>1, <1>4, ThrowIs DEF ApplyExecuted
<1> QED
  BY <1>3, <1>4

(* What an event that is not about actions or delegations does.              *)
Changed(s, i, x, t) ==
    /\ t \in Snapshot /\ t.ok = TRUE
    /\ t.node = s.node /\ t.delegations = s.delegations
    /\ t.confirmations = [s.confirmations EXCEPT ![i] = x]

(* EXCEPT on one confirmation changes that one.                              *)
LEMMA ChangedIs ==
    ASSUME NEW s \in Snapshot, s.ok = TRUE, NEW i \in ConfirmationIds, NEW x \in Confirmation
    PROVE  Changed(s, i, x, [s EXCEPT !.confirmations[i] = x])
BY DEF Changed, Snapshot

(* A request throws on a number that is taken, and otherwise opens it.       *)
LEMMA ApplyRequestedIs ==
    ASSUME NEW s \in Snapshot, s.ok = TRUE, NEW e \in Events, e.kind = "confirmation-requested",
           NEW t, t = Apply(s, e)
    PROVE  LET x == s.confirmations[e.id] IN
           /\ t \in Snapshot
           /\ (t.ok = TRUE) <=> x.status = "none"
           /\ t.ok = TRUE => \E y \in Confirmation :
                /\ Changed(s, e.id, y, t)
                /\ y.status = "pending" /\ y.action = e.action /\ y.notified = FALSE
<1> DEFINE x == s.confirmations[e.id]
           y == [status |-> "pending", action |-> e.action, notified |-> FALSE]
<1>1. t = ApplyRequested(s, e.id, e.action)
  BY DEF Apply
<1>2. e.action \in Actions /\ e.id \in ConfirmationIds
  BY EventFields
<1>3. CASE x.status = "none"
  <2>1. y \in Confirmation
    BY <1>2 DEF Confirmation, Statuses
  <2>2. y.status = "pending" /\ y.action = e.action /\ y.notified = FALSE
    OBVIOUS
  <2>3. t = [s EXCEPT !.confirmations[e.id] = y]
    BY <1>1, <1>3 DEF ApplyRequested
  <2> HIDE DEF y
  <2>4. Changed(s, e.id, y, t)
    BY <1>2, <2>1, <2>3, ChangedIs
  <2> QED
    BY <1>3, <2>1, <2>2, <2>4 DEF Changed
<1>4. CASE x.status # "none"
  BY <1>1, <1>4, ThrowIs DEF ApplyRequested
<1> QED
  BY <1>3, <1>4

DecisionOf(e) == IF e.kind = "confirmation-approved" THEN "approved" ELSE "rejected"

(* A decision throws on what is not pending, and otherwise settles it.       *)
LEMMA ApplyDecisionIs ==
    ASSUME NEW s \in Snapshot, s.ok = TRUE, NEW e \in Events, e.kind \in Decisions,
           NEW t, t = Apply(s, e)
    PROVE  LET x == s.confirmations[e.id] IN
           /\ t \in Snapshot
           /\ (t.ok = TRUE) <=> x.status = "pending"
           /\ t.ok = TRUE => Changed(s, e.id, [x EXCEPT !.status = DecisionOf(e)], t)
<1> DEFINE x == s.confirmations[e.id]
           y == [x EXCEPT !.status = DecisionOf(e)]
<1>1. t = ApplyDecision(s, e.id, DecisionOf(e))
  BY DEF Apply, Decisions, DecisionOf
<1>2. e.id \in ConfirmationIds /\ x \in Confirmation
  BY EventFields DEF Snapshot
<1>3. CASE x.status = "pending"
  <2>1. y \in Confirmation
    BY <1>2 DEF Confirmation, Statuses, DecisionOf
  <2>2. t = [s EXCEPT !.confirmations[e.id].status = DecisionOf(e)]
    BY <1>1, <1>3 DEF ApplyDecision
  <2>3. t = [s EXCEPT !.confirmations[e.id] = y]
    BY <1>2, <2>2 DEF Snapshot, Confirmation
  <2> HIDE DEF y
  <2>4. Changed(s, e.id, y, t)
    BY <1>2, <2>1, <2>3, ChangedIs
  <2> QED
    BY <1>3, <2>1, <2>4 DEF Changed, y
<1>4. CASE x.status # "pending"
  BY <1>1, <1>4, ThrowIs DEF ApplyDecision
<1> QED
  BY <1>3, <1>4

(* A delivery throws on what was never requested, and otherwise notes it.    *)
LEMMA ApplyDeliveredIs ==
    ASSUME NEW s \in Snapshot, s.ok = TRUE, NEW e \in Events, e.kind = "notification-delivered",
           NEW t, t = Apply(s, e)
    PROVE  LET x == s.confirmations[e.id] IN
           /\ t \in Snapshot
           /\ (t.ok = TRUE) <=> x.status # "none"
           /\ t.ok = TRUE => Changed(s, e.id, [x EXCEPT !.notified = TRUE], t)
<1> DEFINE x == s.confirmations[e.id]
           y == [x EXCEPT !.notified = TRUE]
<1>1. t = ApplyDelivered(s, e.id)
  BY DEF Apply
<1>2. e.id \in ConfirmationIds /\ x \in Confirmation
  BY EventFields DEF Snapshot
<1>3. CASE x.status # "none"
  <2>1. y \in Confirmation
    BY <1>2 DEF Confirmation
  <2>2. t = [s EXCEPT !.confirmations[e.id].notified = TRUE]
    BY <1>1, <1>3 DEF ApplyDelivered
  <2>3. t = [s EXCEPT !.confirmations[e.id] = y]
    BY <1>2, <2>2 DEF Snapshot, Confirmation
  <2> HIDE DEF y
  <2>4. Changed(s, e.id, y, t)
    BY <1>2, <2>1, <2>3, ChangedIs
  <2> QED
    BY <1>3, <2>1, <2>4 DEF Changed, y
<1>4. CASE x.status = "none"
  BY <1>1, <1>4, ThrowIs DEF ApplyDelivered
<1> QED
  BY <1>3, <1>4

(* And what one of a delegation does.                                        *)
Advanced(s, d, x, t) ==
    /\ t \in Snapshot /\ t.ok = TRUE
    /\ t.node = s.node /\ t.confirmations = s.confirmations
    /\ t.delegations = [s.delegations EXCEPT ![d] = x]

(* EXCEPT on one delegation changes that one.                                *)
LEMMA AdvancedIs ==
    ASSUME NEW s \in Snapshot, s.ok = TRUE, NEW d \in Delegations, NEW x \in Delegation
    PROVE  Advanced(s, d, x, [s EXCEPT !.delegations[d] = x])
BY DEF Advanced, Snapshot

(* A start throws where the delegation has started.                          *)
LEMMA ApplyStartedIs ==
    ASSUME NEW s \in Snapshot, s.ok = TRUE, NEW e \in Events, e.kind = "delegation-started",
           NEW t, t = Apply(s, e)
    PROVE  LET x == s.delegations[e.delegation] IN
           /\ t \in Snapshot
           /\ (t.ok = TRUE) <=> x.status = "none"
           /\ t.ok = TRUE => \E y \in Delegation :
                /\ Advanced(s, e.delegation, y, t)
                /\ y.status = "running" /\ y.steps = 0
<1> DEFINE x == s.delegations[e.delegation]
           y == [status |-> "running", steps |-> 0]
<1>1. t = ApplyStarted(s, e.delegation)
  BY DEF Apply
<1>2. e.delegation \in Delegations
  BY EventFields
<1>3. CASE x.status = "none"
  <2>1. y \in Delegation
    BY DEF Delegation
  <2>2. y.status = "running" /\ y.steps = 0
    OBVIOUS
  <2>3. t = [s EXCEPT !.delegations[e.delegation] = y]
    BY <1>1, <1>3 DEF ApplyStarted
  <2> HIDE DEF y
  <2>4. Advanced(s, e.delegation, y, t)
    BY <1>2, <2>1, <2>3, AdvancedIs
  <2> QED
    BY <1>3, <2>1, <2>2, <2>4 DEF Advanced
<1>4. CASE x.status # "none"
  BY <1>1, <1>4, ThrowIs DEF ApplyStarted
<1> QED
  BY <1>3, <1>4

(* A step throws out of turn, and otherwise counts.                          *)
LEMMA ApplyStepIs ==
    ASSUME NEW s \in Snapshot, s.ok = TRUE, NEW e \in Events, e.kind = "delegation-step",
           NEW t, t = Apply(s, e)
    PROVE  LET x == s.delegations[e.delegation] IN
           /\ t \in Snapshot
           /\ (t.ok = TRUE) <=> x.status # "none" /\ e.step = x.steps + 1
           /\ t.ok = TRUE => Advanced(s, e.delegation, [x EXCEPT !.steps = e.step], t)
<1> DEFINE x == s.delegations[e.delegation]
           y == [x EXCEPT !.steps = e.step]
<1>1. t = ApplyStep(s, e.delegation, e.step)
  BY DEF Apply
<1>2. e.delegation \in Delegations /\ x \in Delegation /\ e.step \in Nat
  BY EventFields DEF Snapshot
<1>3. CASE x.status # "none" /\ e.step = x.steps + 1
  <2>1. y \in Delegation
    BY <1>2 DEF Delegation
  <2>2. t = [s EXCEPT !.delegations[e.delegation].steps = e.step]
    BY <1>1, <1>3 DEF ApplyStep
  <2>3. t = [s EXCEPT !.delegations[e.delegation] = y]
    BY <1>2, <2>2 DEF Snapshot, Delegation
  <2> HIDE DEF y
  <2>4. Advanced(s, e.delegation, y, t)
    BY <1>2, <2>1, <2>3, AdvancedIs
  <2> QED
    BY <1>3, <2>1, <2>4 DEF Advanced, y
<1>4. CASE ~(x.status # "none" /\ e.step = x.steps + 1)
  BY <1>1, <1>4, ThrowIs DEF ApplyStep
<1> QED
  BY <1>3, <1>4

(* A completion throws where the delegation does not run, or counts          *)
(* otherwise.                                                                *)
LEMMA ApplyFinishedIs ==
    ASSUME NEW s \in Snapshot, s.ok = TRUE, NEW e \in Events, e.kind = "delegation-completed",
           NEW t, t = Apply(s, e)
    PROVE  LET x == s.delegations[e.delegation] IN
           /\ t \in Snapshot
           /\ (t.ok = TRUE) <=> x.status = "running" /\ e.steps = x.steps
           /\ t.ok = TRUE => Advanced(s, e.delegation, [x EXCEPT !.status = "completed"], t)
<1> DEFINE x == s.delegations[e.delegation]
           y == [x EXCEPT !.status = "completed"]
<1>1. t = ApplyFinished(s, e.delegation, e.steps)
  BY DEF Apply
<1>2. e.delegation \in Delegations /\ x \in Delegation
  BY EventFields DEF Snapshot
<1>3. CASE x.status = "running" /\ e.steps = x.steps
  <2>1. y \in Delegation
    BY <1>2 DEF Delegation
  <2>2. t = [s EXCEPT !.delegations[e.delegation].status = "completed"]
    BY <1>1, <1>3 DEF ApplyFinished
  <2>3. t = [s EXCEPT !.delegations[e.delegation] = y]
    BY <1>2, <2>2 DEF Snapshot, Delegation
  <2> HIDE DEF y
  <2>4. Advanced(s, e.delegation, y, t)
    BY <1>2, <2>1, <2>3, AdvancedIs
  <2> QED
    BY <1>3, <2>1, <2>4 DEF Advanced, y
<1>4. CASE ~(x.status = "running" /\ e.steps = x.steps)
  BY <1>1, <1>4, ThrowIs DEF ApplyFinished
<1> QED
  BY <1>3, <1>4

(* A fold of an event is a snapshot again.                                   *)
LEMMA ApplyTyped ==
    ASSUME NEW s \in Snapshot, NEW e \in Events
    PROVE  Apply(s, e) \in Snapshot
<1>1. CASE s.ok # TRUE
  BY <1>1, ApplyThrown
<1>2. CASE s.ok = TRUE
  <2> DEFINE t == Apply(s, e)
  <2> HIDE DEF t
  <2>1. t = Apply(s, e)
    BY DEF t
  <2>2. e.kind = "noted" => t \in Snapshot
    BY <2>1, ApplyNotedIs
  <2>3. e.kind = "action-executed" => t \in Snapshot
    BY <1>2, <2>1, ApplyExecutedIs
  <2>4. e.kind = "confirmation-requested" => t \in Snapshot
    BY <1>2, <2>1, ApplyRequestedIs
  <2>5. e.kind \in Decisions => t \in Snapshot
    BY <1>2, <2>1, ApplyDecisionIs
  <2>6. e.kind = "notification-delivered" => t \in Snapshot
    BY <1>2, <2>1, ApplyDeliveredIs
  <2>7. e.kind = "delegation-started" => t \in Snapshot
    BY <1>2, <2>1, ApplyStartedIs
  <2>8. e.kind = "delegation-step" => t \in Snapshot
    BY <1>2, <2>1, ApplyStepIs
  <2>9. e.kind = "delegation-completed" => t \in Snapshot
    BY <1>2, <2>1, ApplyFinishedIs
  <2> QED
    BY <2>1, <2>2, <2>3, <2>4, <2>5, <2>6, <2>7, <2>8, <2>9, EventFields DEF WebKinds, WorkerKinds
<1> QED
  BY <1>1, <1>2

-----------------------------------------------------------------------------
(* What row r of the log c says.                                             *)
IsWeb(c, r) == c[r].kind \in WebKinds
Executes(c, r) == c[r].kind = "action-executed"
Requests(c, r, i) == c[r].kind = "confirmation-requested" /\ c[r].id = i
Approves(c, r, i) == c[r].kind = "confirmation-approved" /\ c[r].id = i
Refuses(c, r, i) == c[r].kind = "confirmation-rejected" /\ c[r].id = i
Delivers(c, r, i) == c[r].kind = "notification-delivered" /\ c[r].id = i
Starts(c, r, d) == c[r].kind = "delegation-started" /\ c[r].delegation = d
StepsTo(c, r, d, n) == c[r].kind = "delegation-step" /\ c[r].delegation = d /\ c[r].step = n
Finishes(c, r, d) == c[r].kind = "delegation-completed" /\ c[r].delegation = d

(* The trace of the rows S in a snapshot.                                    *)
NodeOf(c, n, S) ==
    \/ n = InitialNode /\ \A r \in S : ~Executes(c, r)
    \/ \E r \in S : /\ Executes(c, r) /\ n = Target[c[r].action]
                    /\ \A q \in S : Executes(c, q) => q <= r

ConfirmationOf(c, x, i, S) ==
    /\ x.status = "none" => x.action = "none" /\ x.notified = FALSE
    /\ x.status # "none" <=> \E r \in S : Requests(c, r, i)
    /\ \A r \in S : Requests(c, r, i) => x.action = c[r].action
    /\ x.status = "approved" <=> \E r \in S : Approves(c, r, i)
    /\ x.status = "rejected" <=> \E r \in S : Refuses(c, r, i)
    /\ x.notified = TRUE <=> \E r \in S : Delivers(c, r, i)

DelegationOf(c, x, d, S) ==
    /\ x.status = "none" => x.steps = 0
    /\ x.status # "none" <=> \E r \in S : Starts(c, r, d)
    /\ x.status = "completed" <=> \E r \in S : Finishes(c, r, d)
    /\ \A n \in Nat : n \in 1..x.steps <=> \E r \in S : StepsTo(c, r, d, n)

Represents(c, s, S) ==
    /\ s \in Snapshot /\ s.ok = TRUE
    /\ NodeOf(c, s.node, S)
    /\ \A i \in ConfirmationIds : ConfirmationOf(c, s.confirmations[i], i, S)
    /\ \A d \in Delegations : DelegationOf(c, s.delegations[d], d, S)

(* Row r folds where exactly the rows S were folded.                         *)
ActionFits(c, S, r) ==
    Executes(c, r) => \A n \in Nodes : NodeOf(c, n, S) => c[r].action \in Declared[n]

DecisionFits(c, S, r, i) ==
    /\ Requests(c, r, i) => ~\E q \in S : Requests(c, q, i)
    /\ Approves(c, r, i) \/ Refuses(c, r, i) =>
         /\ \E q \in S : Requests(c, q, i)
         /\ ~\E q \in S : Approves(c, q, i) \/ Refuses(c, q, i)

WebFits(c, S, r) == ActionFits(c, S, r) /\ \A i \in ConfirmationIds : DecisionFits(c, S, r, i)

DeliveryFits(c, S, r) ==
    \A i \in ConfirmationIds : Delivers(c, r, i) => \E q \in S : Requests(c, q, i)

StepsAre(c, S, d, n) == \A m \in Nat : m \in 1..n <=> \E q \in S : StepsTo(c, q, d, m)

DelegationFits(c, S, r, d) ==
    /\ Starts(c, r, d) => ~\E q \in S : Starts(c, q, d)
    /\ \A n \in Nat : StepsTo(c, r, d, n) =>
         /\ \E q \in S : Starts(c, q, d)
         /\ StepsAre(c, S, d, n - 1) /\ n # 0
    /\ Finishes(c, r, d) =>
         /\ \E q \in S : Starts(c, q, d)
         /\ ~\E q \in S : Finishes(c, q, d)
         /\ StepsAre(c, S, d, c[r].steps)

WorkerFits(c, S, r) ==
    DeliveryFits(c, S, r) /\ \A d \in Delegations : DelegationFits(c, S, r, d)

Fits(c, S, r) == WebFits(c, S, r) /\ WorkerFits(c, S, r)

-----------------------------------------------------------------------------
(* Rows say at most one node, the target of the last action executed.        *)
LEMMA NodeUnique ==
    ASSUME NEW c, NEW S \in SUBSET Nat, NEW n, NEW m, NodeOf(c, n, S), NodeOf(c, m, S)
    PROVE  n = m
BY DEF NodeOf

(* A row that executes nothing leaves the node.                              *)
LEMMA NodeKept ==
    ASSUME NEW c, NEW S, NEW r, NEW n, NodeOf(c, n, S), ~Executes(c, r)
    PROVE  NodeOf(c, n, S \cup {r})
BY DEF NodeOf

(* The last action moves the node.                                           *)
LEMMA NodeMoved ==
    ASSUME NEW c, NEW S \in SUBSET Nat, NEW r \in Nat, Executes(c, r),
           \A q \in S : Executes(c, q) => q <= r
    PROVE  NodeOf(c, Target[c[r].action], S \cup {r})
BY DEF NodeOf

Decides(c, r, i) ==
    Requests(c, r, i) \/ Approves(c, r, i) \/ Refuses(c, r, i) \/ Delivers(c, r, i)

(* A row about something else leaves a confirmation as it was.               *)
LEMMA ConfirmationKept ==
    ASSUME NEW c, NEW S, NEW r, NEW x, NEW i, ConfirmationOf(c, x, i, S), ~Decides(c, r, i)
    PROVE  ConfirmationOf(c, x, i, S \cup {r})
BY DEF ConfirmationOf, Decides

Carries(c, r, d) == Starts(c, r, d) \/ Finishes(c, r, d) \/ \E n \in Nat : StepsTo(c, r, d, n)

(* A row about something else leaves a delegation as it was.                 *)
LEMMA DelegationKept ==
    ASSUME NEW c, NEW S, NEW r, NEW x, NEW d, DelegationOf(c, x, d, S), ~Carries(c, r, d)
    PROVE  DelegationOf(c, x, d, S \cup {r})
BY DEF DelegationOf, Carries

(* A row about a confirmation, on a snapshot that represents S.              *)
LEMMA ConfirmationGrows ==
    ASSUME NEW c, NEW S, NEW s, Represents(c, s, S), NEW r, NEW i \in ConfirmationIds, NEW x,
           \A j \in ConfirmationIds : j # i => ~Decides(c, r, j),
           \A d \in Delegations : ~Carries(c, r, d), ~Executes(c, r),
           NEW t, Changed(s, i, x, t), ConfirmationOf(c, x, i, S \cup {r})
    PROVE  Represents(c, t, S \cup {r})
<1>1. \A j \in ConfirmationIds : t.confirmations[j] = IF j = i THEN x ELSE s.confirmations[j]
  BY DEF Changed, Represents, Snapshot
<1>2. \A j \in ConfirmationIds : ConfirmationOf(c, t.confirmations[j], j, S \cup {r})
  BY <1>1, ConfirmationKept DEF Represents
<1>3. \A d \in Delegations : DelegationOf(c, t.delegations[d], d, S \cup {r})
  BY DelegationKept DEF Represents, Changed
<1>4. NodeOf(c, t.node, S \cup {r})
  BY NodeKept DEF Represents, Changed
<1> QED
  BY <1>2, <1>3, <1>4 DEF Represents, Changed

(* A row about a delegation, on a snapshot that represents S.                *)
LEMMA DelegationGrows ==
    ASSUME NEW c, NEW S, NEW s, Represents(c, s, S), NEW r, NEW d \in Delegations, NEW x,
           \A e \in Delegations : e # d => ~Carries(c, r, e),
           \A i \in ConfirmationIds : ~Decides(c, r, i), ~Executes(c, r),
           NEW t, Advanced(s, d, x, t), DelegationOf(c, x, d, S \cup {r})
    PROVE  Represents(c, t, S \cup {r})
<1>1. \A e \in Delegations : t.delegations[e] = IF e = d THEN x ELSE s.delegations[e]
  BY DEF Advanced, Represents, Snapshot
<1>2. \A e \in Delegations : DelegationOf(c, t.delegations[e], e, S \cup {r})
  BY <1>1, DelegationKept DEF Represents
<1>3. \A i \in ConfirmationIds : ConfirmationOf(c, t.confirmations[i], i, S \cup {r})
  BY ConfirmationKept DEF Represents, Advanced
<1>4. NodeOf(c, t.node, S \cup {r})
  BY NodeKept DEF Represents, Advanced
<1> QED
  BY <1>2, <1>3, <1>4 DEF Represents, Advanced

-----------------------------------------------------------------------------
(* One more row: it folds just where it fits, and leaves its trace.          *)
LEMMA NotedFolds ==
    ASSUME NEW c, NEW S, NEW s, Represents(c, s, S), NEW r, c[r].kind = "noted"
    PROVE  Apply(s, c[r]) = s /\ Represents(c, s, S \cup {r}) /\ Fits(c, S, r)
<1>1. Apply(s, c[r]) = s
  BY ApplyNotedIs DEF Represents
<1>2. ~Executes(c, r) /\ \A i \in ConfirmationIds : ~Decides(c, r, i)
  BY DEF Executes, Decides, Requests, Approves, Refuses, Delivers
<1>3. \A d \in Delegations : ~Carries(c, r, d)
  BY DEF Carries, Starts, StepsTo, Finishes
<1>4. Represents(c, s, S \cup {r})
  BY <1>2, <1>3, NodeKept, ConfirmationKept, DelegationKept DEF Represents
<1>5. Fits(c, S, r)
  BY <1>2, <1>3 DEF Fits, WebFits, ActionFits, DecisionFits, WorkerFits, DeliveryFits,
                    DelegationFits, Decides, Carries
<1> QED
  BY <1>1, <1>4, <1>5

(* Each kind of row: its fold throws exactly where it does not fit, and      *)
(* otherwise represents one row more.  First an action.                      *)
LEMMA ExecutedFolds ==
    ASSUME NEW c, NEW S \in SUBSET Nat, NEW s, Represents(c, s, S), NEW r \in Nat, c[r] \in Events,
           Executes(c, r), NEW t, t = Apply(s, c[r])
    PROVE  /\ t.ok = TRUE <=> Fits(c, S, r)
           /\ t.ok = TRUE /\ (\A q \in S : Executes(c, q) => q <= r) =>
                Represents(c, t, S \cup {r})
<1>1. /\ t \in Snapshot
      /\ t.ok = TRUE <=> c[r].action \in Declared[s.node]
      /\ t.ok = TRUE => /\ t.node = Target[c[r].action]
                        /\ t.confirmations = s.confirmations
                        /\ t.delegations = s.delegations
  BY ApplyExecutedIs DEF Represents, Executes
<1>2. \A i \in ConfirmationIds : ~Decides(c, r, i)
  BY DEF Executes, Decides, Requests, Approves, Refuses, Delivers
<1>3. \A d \in Delegations : ~Carries(c, r, d)
  BY DEF Executes, Carries, Starts, StepsTo, Finishes
<1>4. Fits(c, S, r) <=> ActionFits(c, S, r)
  BY <1>2, <1>3 DEF Fits, WebFits, DecisionFits, WorkerFits, DeliveryFits,
                    DelegationFits, Decides, Carries
<1>5. ActionFits(c, S, r) <=> c[r].action \in Declared[s.node]
  <2>1. s.node \in Nodes /\ NodeOf(c, s.node, S)
    BY DEF Represents, Snapshot
  <2>2. \A n \in Nodes : NodeOf(c, n, S) => n = s.node
    BY <2>1, NodeUnique
  <2> QED
    BY <2>1, <2>2 DEF ActionFits
<1>6. ASSUME t.ok = TRUE, \A q \in S : Executes(c, q) => q <= r
      PROVE  Represents(c, t, S \cup {r})
  <2>1. NodeOf(c, t.node, S \cup {r})
    BY <1>1, <1>6, NodeMoved
  <2>2. \A i \in ConfirmationIds : ConfirmationOf(c, t.confirmations[i], i, S \cup {r})
    BY <1>1, <1>2, <1>6, ConfirmationKept DEF Represents
  <2>3. \A d \in Delegations : DelegationOf(c, t.delegations[d], d, S \cup {r})
    BY <1>1, <1>3, <1>6, DelegationKept DEF Represents
  <2> QED
    BY <1>1, <1>6, <2>1, <2>2, <2>3 DEF Represents
<1> QED
  BY <1>1, <1>4, <1>5, <1>6

(* A row about a confirmation or a delegation concerns no other.             *)
LEMMA AboutOne ==
    ASSUME NEW c, NEW r, c[r] \in Events
    PROVE  /\ \A i \in ConfirmationIds : Decides(c, r, i) =>
                /\ c[r].id = i /\ ~Executes(c, r) /\ c[r].kind # "noted"
                /\ \A d \in Delegations : ~Carries(c, r, d)
           /\ \A d \in Delegations : Carries(c, r, d) =>
                /\ c[r].delegation = d /\ ~Executes(c, r) /\ c[r].kind # "noted"
                /\ \A i \in ConfirmationIds : ~Decides(c, r, i)
BY DEF Executes, Decides, Requests, Approves, Refuses, Delivers, Carries, Starts, StepsTo, Finishes

(* A request.                                                                *)
LEMMA RequestedFolds ==
    ASSUME NEW c, NEW S, NEW s, Represents(c, s, S), NEW r, c[r] \in Events,
           NEW i \in ConfirmationIds, Requests(c, r, i), NEW t, t = Apply(s, c[r])
    PROVE  /\ t.ok = TRUE <=> Fits(c, S, r)
           /\ t.ok = TRUE => Represents(c, t, S \cup {r})
<1> DEFINE x == s.confirmations[i]
<1>1. /\ (t.ok = TRUE) <=> x.status = "none"
      /\ t.ok = TRUE => \E y \in Confirmation :
           /\ Changed(s, i, y, t)
           /\ y.status = "pending" /\ y.action = c[r].action /\ y.notified = FALSE
  BY ApplyRequestedIs DEF Represents, Requests
<1>2. /\ Decides(c, r, i) /\ ~Approves(c, r, i) /\ ~Refuses(c, r, i) /\ ~Delivers(c, r, i)
      /\ \A j \in ConfirmationIds : j # i => ~Decides(c, r, j)
  BY AboutOne DEF Decides, Requests, Approves, Refuses, Delivers
<1>3. ~Executes(c, r) /\ \A d \in Delegations : ~Carries(c, r, d)
  BY <1>2, AboutOne
<1>4. ConfirmationOf(c, x, i, S)
  BY DEF Represents
<1>5. Fits(c, S, r) <=> x.status = "none"
  <2>1. Fits(c, S, r) <=> DecisionFits(c, S, r, i)
    BY <1>2, <1>3 DEF Fits, WebFits, ActionFits, DecisionFits, WorkerFits, DeliveryFits,
                      DelegationFits, Decides, Carries
  <2>2. DecisionFits(c, S, r, i) <=> ~\E q \in S : Requests(c, q, i)
    BY <1>2 DEF DecisionFits
  <2> QED
    BY <1>4, <2>1, <2>2 DEF ConfirmationOf
<1>6. ASSUME t.ok = TRUE PROVE Represents(c, t, S \cup {r})
  <2>1. PICK y \in Confirmation :
           /\ Changed(s, i, y, t)
           /\ y.status = "pending" /\ y.action = c[r].action /\ y.notified = FALSE
    BY <1>1, <1>6
  <2>2. x.status = "none"
    BY <1>1, <1>6
  <2>3. ConfirmationOf(c, y, i, S \cup {r})
    <3>1. /\ ~\E q \in S : Requests(c, q, i)
          /\ ~\E q \in S : Approves(c, q, i)
          /\ ~\E q \in S : Refuses(c, q, i)
          /\ ~\E q \in S : Delivers(c, q, i)
      BY <1>4, <2>2 DEF ConfirmationOf
    <3> QED
      BY <1>2, <2>1, <3>1 DEF ConfirmationOf
  <2> QED
    BY <1>2, <1>3, <2>1, <2>3, ConfirmationGrows
<1> QED
  BY <1>1, <1>5, <1>6

(* A decision.                                                               *)
LEMMA DecisionFolds ==
    ASSUME NEW c, NEW S, NEW s, Represents(c, s, S), NEW r, c[r] \in Events,
           NEW i \in ConfirmationIds, Approves(c, r, i) \/ Refuses(c, r, i),
           NEW t, t = Apply(s, c[r])
    PROVE  /\ t.ok = TRUE <=> Fits(c, S, r)
           /\ t.ok = TRUE => Represents(c, t, S \cup {r})
<1> DEFINE x == s.confirmations[i]
           v == DecisionOf(c[r])
           y == [x EXCEPT !.status = v]
<1>1. /\ (t.ok = TRUE) <=> x.status = "pending"
      /\ t.ok = TRUE => Changed(s, i, y, t)
  <2>1. c[r].kind \in Decisions /\ c[r].id = i
    BY DEF Approves, Refuses, Decisions
  <2> QED
    BY <2>1, ApplyDecisionIs DEF Represents
<1>2. /\ Decides(c, r, i) /\ ~Requests(c, r, i) /\ ~Delivers(c, r, i)
      /\ \A j \in ConfirmationIds : j # i => ~Decides(c, r, j)
  BY AboutOne DEF Decides, Requests, Approves, Refuses, Delivers
<1>3. ~Executes(c, r) /\ \A d \in Delegations : ~Carries(c, r, d)
  BY <1>2, AboutOne
<1>4. ConfirmationOf(c, x, i, S) /\ x \in Confirmation
  BY DEF Represents, Snapshot
<1>5. Fits(c, S, r) <=> x.status = "pending"
  <2>1. Fits(c, S, r) <=> DecisionFits(c, S, r, i)
    BY <1>2, <1>3 DEF Fits, WebFits, ActionFits, DecisionFits, WorkerFits, DeliveryFits,
                      DelegationFits, Decides, Carries
  <2>2. DecisionFits(c, S, r, i) <=>
          /\ \E q \in S : Requests(c, q, i)
          /\ ~\E q \in S : Approves(c, q, i) \/ Refuses(c, q, i)
    BY <1>2 DEF DecisionFits
  <2> QED
    BY <1>4, <2>1, <2>2 DEF ConfirmationOf, Confirmation, Statuses
<1>6. ASSUME t.ok = TRUE PROVE Represents(c, t, S \cup {r})
  <2>1. x.status = "pending" /\ Changed(s, i, y, t)
    BY <1>1, <1>6
  <2>2. /\ y.status = v /\ y.action = x.action /\ y.notified = x.notified
        /\ v = "approved" <=> Approves(c, r, i)
        /\ v = "rejected" <=> Refuses(c, r, i)
        /\ v \in {"approved", "rejected"}
    BY <1>4 DEF Confirmation, DecisionOf, Approves, Refuses
  <2> HIDE DEF y, v
  <2>3. ConfirmationOf(c, y, i, S \cup {r})
    <3>1. /\ \E q \in S : Requests(c, q, i)
          /\ ~\E q \in S : Approves(c, q, i)
          /\ ~\E q \in S : Refuses(c, q, i)
      BY <1>4, <2>1 DEF ConfirmationOf
    <3>2. \A q \in S : Requests(c, q, i) => y.action = c[q].action
      BY <1>4, <2>2 DEF ConfirmationOf
    <3>3. y.notified = TRUE <=> \E q \in S : Delivers(c, q, i)
      BY <1>4, <2>2, Zenon DEF ConfirmationOf
    <3> QED
      BY <1>2, <2>2, <3>1, <3>2, <3>3 DEF ConfirmationOf
  <2> QED
    BY <1>2, <1>3, <2>1, <2>3, ConfirmationGrows
<1> QED
  BY <1>1, <1>5, <1>6

(* A delivery.                                                               *)
LEMMA DeliveredFolds ==
    ASSUME NEW c, NEW S, NEW s, Represents(c, s, S), NEW r, c[r] \in Events,
           NEW i \in ConfirmationIds, Delivers(c, r, i), NEW t, t = Apply(s, c[r])
    PROVE  /\ t.ok = TRUE <=> Fits(c, S, r)
           /\ t.ok = TRUE => Represents(c, t, S \cup {r})
<1> DEFINE x == s.confirmations[i]
           y == [x EXCEPT !.notified = TRUE]
<1>1. /\ (t.ok = TRUE) <=> x.status # "none"
      /\ t.ok = TRUE => Changed(s, i, y, t)
  BY ApplyDeliveredIs DEF Represents, Delivers
<1>2. /\ Decides(c, r, i) /\ ~Requests(c, r, i) /\ ~Approves(c, r, i) /\ ~Refuses(c, r, i)
      /\ \A j \in ConfirmationIds : j # i => ~Decides(c, r, j)
  BY AboutOne DEF Decides, Requests, Approves, Refuses, Delivers
<1>3. ~Executes(c, r) /\ \A d \in Delegations : ~Carries(c, r, d)
  BY <1>2, AboutOne
<1>4. ConfirmationOf(c, x, i, S) /\ x \in Confirmation
  BY DEF Represents, Snapshot
<1>5. Fits(c, S, r) <=> x.status # "none"
  <2>1. Fits(c, S, r) <=> \E q \in S : Requests(c, q, i)
    <3>1. \A j \in ConfirmationIds : Delivers(c, r, j) => j = i
      BY <1>2 DEF Decides
    <3> QED
      BY <1>2, <1>3, <3>1 DEF Fits, WebFits, ActionFits, DecisionFits, WorkerFits, DeliveryFits,
                      DelegationFits, Decides, Carries
  <2> QED
    BY <1>4, <2>1 DEF ConfirmationOf
<1>6. ASSUME t.ok = TRUE PROVE Represents(c, t, S \cup {r})
  <2>1. x.status # "none" /\ Changed(s, i, y, t)
    BY <1>1, <1>6
  <2>2. y.status = x.status /\ y.action = x.action /\ y.notified = TRUE
    BY <1>4 DEF Confirmation
  <2> HIDE DEF y
  <2>3. ConfirmationOf(c, y, i, S \cup {r})
    BY <1>2, <1>4, <2>1, <2>2 DEF ConfirmationOf
  <2> QED
    BY <1>2, <1>3, <2>1, <2>3, ConfirmationGrows
<1> QED
  BY <1>1, <1>5, <1>6

(* The start of a delegation.                                                *)
LEMMA StartedFolds ==
    ASSUME NEW c, NEW S, NEW s, Represents(c, s, S), NEW r, c[r] \in Events,
           NEW d \in Delegations, Starts(c, r, d), NEW t, t = Apply(s, c[r])
    PROVE  /\ t.ok = TRUE <=> Fits(c, S, r)
           /\ t.ok = TRUE => Represents(c, t, S \cup {r})
<1> DEFINE x == s.delegations[d]
<1>1. /\ (t.ok = TRUE) <=> x.status = "none"
      /\ t.ok = TRUE => \E y \in Delegation :
           Advanced(s, d, y, t) /\ y.status = "running" /\ y.steps = 0
  BY ApplyStartedIs DEF Represents, Starts
<1>2. /\ Carries(c, r, d) /\ ~Finishes(c, r, d) /\ \A n \in Nat : ~StepsTo(c, r, d, n)
      /\ \A e \in Delegations : e # d => ~Carries(c, r, e)
  BY AboutOne DEF Carries, Starts, StepsTo, Finishes
<1>3. ~Executes(c, r) /\ \A i \in ConfirmationIds : ~Decides(c, r, i)
  BY <1>2, AboutOne
<1>4. DelegationOf(c, x, d, S)
  BY DEF Represents
<1>5. Fits(c, S, r) <=> x.status = "none"
  <2>1. Fits(c, S, r) <=> DelegationFits(c, S, r, d)
    BY <1>2, <1>3 DEF Fits, WebFits, ActionFits, DecisionFits, WorkerFits, DeliveryFits,
                      DelegationFits, Decides, Carries
  <2>2. DelegationFits(c, S, r, d) <=> ~\E q \in S : Starts(c, q, d)
    BY <1>2 DEF DelegationFits
  <2> QED
    BY <1>4, <2>1, <2>2 DEF DelegationOf
<1>6. ASSUME t.ok = TRUE PROVE Represents(c, t, S \cup {r})
  <2>1. PICK y \in Delegation : Advanced(s, d, y, t) /\ y.status = "running" /\ y.steps = 0
    BY <1>1, <1>6
  <2>2. x.status = "none"
    BY <1>1, <1>6
  <2>3. DelegationOf(c, y, d, S \cup {r})
    BY <1>2, <1>4, <2>1, <2>2 DEF DelegationOf
  <2> QED
    BY <1>2, <1>3, <2>1, <2>3, DelegationGrows
<1> QED
  BY <1>1, <1>5, <1>6

(* A step of a delegation.                                                   *)
LEMMA StepFolds ==
    ASSUME NEW c, NEW S, NEW s, Represents(c, s, S), NEW r, c[r] \in Events,
           NEW d \in Delegations, NEW n \in Nat, StepsTo(c, r, d, n), NEW t, t = Apply(s, c[r])
    PROVE  /\ t.ok = TRUE <=> Fits(c, S, r)
           /\ t.ok = TRUE => Represents(c, t, S \cup {r})
<1> DEFINE x == s.delegations[d]
           y == [x EXCEPT !.steps = n]
<1>1. /\ (t.ok = TRUE) <=> x.status # "none" /\ n = x.steps + 1
      /\ t.ok = TRUE => Advanced(s, d, y, t)
  BY ApplyStepIs DEF Represents, StepsTo
<1>2. /\ Carries(c, r, d) /\ ~Finishes(c, r, d) /\ ~Starts(c, r, d)
      /\ \A m \in Nat : StepsTo(c, r, d, m) <=> m = n
      /\ \A e \in Delegations : e # d => ~Carries(c, r, e)
  BY AboutOne DEF Carries, Starts, StepsTo, Finishes
<1>3. ~Executes(c, r) /\ \A i \in ConfirmationIds : ~Decides(c, r, i)
  BY <1>2, AboutOne
<1>4. DelegationOf(c, x, d, S) /\ x \in Delegation
  BY DEF Represents, Snapshot
<1>5. Fits(c, S, r) <=> x.status # "none" /\ n = x.steps + 1
  <2>1. Fits(c, S, r) <=> DelegationFits(c, S, r, d)
    BY <1>2, <1>3 DEF Fits, WebFits, ActionFits, DecisionFits, WorkerFits, DeliveryFits,
                      DelegationFits, Decides, Carries
  <2>2. DelegationFits(c, S, r, d) <=>
          (\E q \in S : Starts(c, q, d)) /\ StepsAre(c, S, d, n - 1) /\ n # 0
    BY <1>2 DEF DelegationFits
  <2>3. x.steps \in Nat
    BY <1>4 DEF Delegation
  <2>4. n # 0 /\ StepsAre(c, S, d, n - 1) <=> n = x.steps + 1
    <3>1. StepsAre(c, S, d, x.steps)
      BY <1>4 DEF DelegationOf, StepsAre
    <3>2. ASSUME n # 0, StepsAre(c, S, d, n - 1) PROVE n = x.steps + 1
      <4>1. n - 1 \in Nat /\ \A m \in Nat : m \in 1..(n - 1) <=> m \in 1..x.steps
        BY <3>1, <3>2 DEF StepsAre
      <4>2. CASE n - 1 < x.steps
        BY <2>3, <4>1, <4>2
      <4>3. CASE n - 1 > x.steps
        BY <2>3, <4>1, <4>3
      <4> QED
        BY <2>3, <4>1, <4>2, <4>3
    <3>3. ASSUME n = x.steps + 1 PROVE n # 0 /\ StepsAre(c, S, d, n - 1)
      BY <2>3, <3>1, <3>3
    <3> QED
      BY <3>2, <3>3
  <2> QED
    BY <1>4, <2>1, <2>2, <2>4 DEF DelegationOf
<1>6. ASSUME t.ok = TRUE PROVE Represents(c, t, S \cup {r})
  <2>1. x.status # "none" /\ n = x.steps + 1 /\ Advanced(s, d, y, t)
    BY <1>1, <1>6
  <2>2. y.status = x.status /\ y.steps = n /\ x.steps \in Nat
    BY <1>4 DEF Delegation
  <2> HIDE DEF y
  <2>3. DelegationOf(c, y, d, S \cup {r})
    <3>1. \A m \in Nat : m \in 1..n <=> m \in 1..x.steps \/ m = n
      BY <2>1, <2>2
    <3> QED
      BY <1>2, <1>4, <2>1, <2>2, <3>1 DEF DelegationOf
  <2> QED
    BY <1>2, <1>3, <2>1, <2>3, DelegationGrows
<1> QED
  BY <1>1, <1>5, <1>6

(* Its completion.                                                           *)
LEMMA FinishedFolds ==
    ASSUME NEW c, NEW S, NEW s, Represents(c, s, S), NEW r, c[r] \in Events,
           NEW d \in Delegations, Finishes(c, r, d), NEW t, t = Apply(s, c[r])
    PROVE  /\ t.ok = TRUE <=> Fits(c, S, r)
           /\ t.ok = TRUE => Represents(c, t, S \cup {r})
<1> DEFINE x == s.delegations[d]
           n == c[r].steps
           y == [x EXCEPT !.status = "completed"]
<1>1. /\ (t.ok = TRUE) <=> x.status = "running" /\ n = x.steps
      /\ t.ok = TRUE => Advanced(s, d, y, t)
  BY ApplyFinishedIs DEF Represents, Finishes
<1>2. /\ Carries(c, r, d) /\ ~Starts(c, r, d) /\ \A m \in Nat : ~StepsTo(c, r, d, m)
      /\ \A e \in Delegations : e # d => ~Carries(c, r, e)
  BY AboutOne DEF Carries, Starts, StepsTo, Finishes
<1>3. ~Executes(c, r) /\ \A i \in ConfirmationIds : ~Decides(c, r, i)
  BY <1>2, AboutOne
<1>4. DelegationOf(c, x, d, S) /\ x \in Delegation
  BY DEF Represents, Snapshot
<1>5. Fits(c, S, r) <=> x.status = "running" /\ n = x.steps
  <2>1. Fits(c, S, r) <=> DelegationFits(c, S, r, d)
    BY <1>2, <1>3 DEF Fits, WebFits, ActionFits, DecisionFits, WorkerFits, DeliveryFits,
                      DelegationFits, Decides, Carries
  <2>2. DelegationFits(c, S, r, d) <=>
          /\ \E q \in S : Starts(c, q, d)
          /\ ~\E q \in S : Finishes(c, q, d)
          /\ StepsAre(c, S, d, n)
    BY <1>2 DEF DelegationFits
  <2>3. x.steps \in Nat /\ n \in Nat
    BY <1>4, EventFields DEF Delegation, Finishes
  <2>4. StepsAre(c, S, d, n) <=> n = x.steps
    <3>1. StepsAre(c, S, d, x.steps)
      BY <1>4 DEF DelegationOf, StepsAre
    <3>2. ASSUME StepsAre(c, S, d, n) PROVE n = x.steps
      <4>1. \A m \in Nat : m \in 1..n <=> m \in 1..x.steps
        BY <3>1, <3>2 DEF StepsAre
      <4> HIDE DEF n, x
      <4>2. CASE n < x.steps
        BY <2>3, <4>1, <4>2
      <4>3. CASE n > x.steps
        BY <2>3, <4>1, <4>3
      <4> QED
        BY <2>3, <4>1, <4>2, <4>3
    <3> QED
      BY <3>1, <3>2
  <2> QED
    BY <1>4, <2>1, <2>2, <2>4 DEF DelegationOf, Delegation
<1>6. ASSUME t.ok = TRUE PROVE Represents(c, t, S \cup {r})
  <2>1. x.status = "running" /\ Advanced(s, d, y, t)
    BY <1>1, <1>6
  <2>2. y.status = "completed" /\ y.steps = x.steps
    BY <1>4 DEF Delegation
  <2> HIDE DEF y
  <2>3. DelegationOf(c, y, d, S \cup {r})
    BY <1>2, <1>4, <2>1, <2>2 DEF DelegationOf
  <2> QED
    BY <1>2, <1>3, <2>1, <2>3, DelegationGrows
<1> QED
  BY <1>1, <1>5, <1>6

(* Whatever the row says.                                                    *)
LEMMA RowFolds ==
    ASSUME NEW c, NEW S \in SUBSET Nat, NEW s, Represents(c, s, S), NEW r \in Nat, c[r] \in Events,
           Executes(c, r) => \A q \in S : Executes(c, q) => q <= r,
           NEW t, t = Apply(s, c[r])
    PROVE  /\ t.ok = TRUE <=> Fits(c, S, r)
           /\ t.ok = TRUE => Represents(c, t, S \cup {r})
<1> DEFINE Goal == /\ t.ok = TRUE <=> Fits(c, S, r)
                   /\ t.ok = TRUE => Represents(c, t, S \cup {r})
<1>1. CASE c[r].kind = "noted"
  BY <1>1, NotedFolds DEF Represents
<1>2. CASE Executes(c, r)
  BY <1>2, ExecutedFolds
<1>3. CASE c[r].kind = "confirmation-requested"
  BY <1>3, EventFields, RequestedFolds DEF Requests
<1>4. CASE c[r].kind \in Decisions
  <2>1. c[r].id \in ConfirmationIds
    BY <1>4, EventFields
  <2>2. Approves(c, r, c[r].id) \/ Refuses(c, r, c[r].id)
    BY <1>4 DEF Approves, Refuses, Decisions
  <2> QED
    BY <2>1, <2>2, DecisionFolds
<1>5. CASE c[r].kind = "notification-delivered"
  BY <1>5, EventFields, DeliveredFolds DEF Delivers
<1>6. CASE c[r].kind = "delegation-started"
  BY <1>6, EventFields, StartedFolds DEF Starts
<1>7. CASE c[r].kind = "delegation-step"
  BY <1>7, EventFields, StepFolds DEF StepsTo
<1>8. CASE c[r].kind = "delegation-completed"
  BY <1>8, EventFields, FinishedFolds DEF Finishes
<1> QED
  BY <1>1, <1>2, <1>3, <1>4, <1>5, <1>6, <1>7, <1>8, EventFields DEF WebKinds, WorkerKinds, Executes

-----------------------------------------------------------------------------
(* What rows say and in what order they are folded.                          *)

(* Snapshots that represent the same rows are the same, and those that       *)
(* represent the same rows of the web agree on what the web writes.          *)
WebRows(c, S) == {r \in S : IsWeb(c, r)}

(* Actions, requests and decisions are rows of the process.                  *)
LEMMA WebRowsSay ==
    ASSUME NEW c, NEW S, NEW r \in S
    PROVE  /\ Executes(c, r) => r \in WebRows(c, S)
           /\ \A i : Requests(c, r, i) \/ Approves(c, r, i) \/ Refuses(c, r, i) => r \in WebRows(c, S)
BY DEF WebRows, IsWeb, WebKinds, Decisions, Executes, Requests, Approves, Refuses

(* The node is a matter of the process's rows.                               *)
LEMMA NodeOfWeb ==
    ASSUME NEW c, NEW S, NEW T, WebRows(c, S) = WebRows(c, T), NEW n, NodeOf(c, n, S)
    PROVE  NodeOf(c, n, T)
<1>1. \A r : r \in S /\ Executes(c, r) <=> r \in T /\ Executes(c, r)
  BY WebRowsSay DEF WebRows
<1> QED
  BY <1>1 DEF NodeOf

(* What the judge decides on, nodes and statuses, is told by the rows of     *)
(* the process: snapshots that agree on those agree on it.                   *)
LEMMA DecidedByWeb ==
    ASSUME NEW c, NEW S \in SUBSET Nat, NEW T \in SUBSET Nat, WebRows(c, S) = WebRows(c, T),
           NEW s, NEW t, Represents(c, s, S), Represents(c, t, T)
    PROVE  /\ s.node = t.node
           /\ \A i \in ConfirmationIds :
                /\ s.confirmations[i].status = t.confirmations[i].status
                /\ s.confirmations[i].action = t.confirmations[i].action
<1>1. NodeOf(c, s.node, T) /\ NodeOf(c, t.node, T)
  BY NodeOfWeb DEF Represents
<1>2. s.node = t.node
  BY <1>1, NodeUnique
<1>3. ASSUME NEW i \in ConfirmationIds
      PROVE  /\ s.confirmations[i].status = t.confirmations[i].status
             /\ s.confirmations[i].action = t.confirmations[i].action
  <2> DEFINE x == s.confirmations[i]
             y == t.confirmations[i]
  <2>1. /\ ConfirmationOf(c, x, i, S) /\ ConfirmationOf(c, y, i, T)
        /\ x \in Confirmation /\ y \in Confirmation
    BY DEF Represents, Snapshot
  <2>2. \A r : /\ r \in S /\ Requests(c, r, i) <=> r \in T /\ Requests(c, r, i)
               /\ r \in S /\ Approves(c, r, i) <=> r \in T /\ Approves(c, r, i)
               /\ r \in S /\ Refuses(c, r, i) <=> r \in T /\ Refuses(c, r, i)
    BY WebRowsSay DEF WebRows
  <2> HIDE DEF x, y
  <2>3. /\ (\E r \in S : Requests(c, r, i)) <=> \E r \in T : Requests(c, r, i)
        /\ (\E r \in S : Approves(c, r, i)) <=> \E r \in T : Approves(c, r, i)
        /\ (\E r \in S : Refuses(c, r, i)) <=> \E r \in T : Refuses(c, r, i)
    BY <2>2
  <2>4. /\ x.status = "none" <=> y.status = "none"
        /\ x.status = "approved" <=> y.status = "approved"
        /\ x.status = "rejected" <=> y.status = "rejected"
    BY <2>1, <2>3 DEF ConfirmationOf
  <2>5. x.status = y.status
    BY <2>1, <2>4 DEF Confirmation, Statuses
  <2>6. x.action = y.action
    <3>1. CASE x.status = "none"
      BY <2>1, <2>4, <3>1 DEF ConfirmationOf
    <3>2. CASE x.status # "none"
      BY <2>1, <2>2, <3>2 DEF ConfirmationOf
    <3> QED BY <3>1, <3>2
  <2> QED
    BY <2>5, <2>6 DEF x, y
<1> QED
  BY <1>2, <1>3

(* A set of rows has one snapshot: the order in which they were folded       *)
(* does not matter.                                                          *)
LEMMA SameRowsSameSnapshot ==
    ASSUME NEW c, NEW S \in SUBSET Nat, NEW s, NEW t, Represents(c, s, S), Represents(c, t, S)
    PROVE  s = t
<1>0. s \in Snapshot /\ t \in Snapshot /\ s.ok = t.ok
  BY Zenon DEF Represents
<1>1. /\ s.node = t.node
      /\ \A i \in ConfirmationIds : /\ s.confirmations[i].status = t.confirmations[i].status
                                    /\ s.confirmations[i].action = t.confirmations[i].action
  <2>1. PICK T \in SUBSET Nat : T = S
    OBVIOUS
  <2>2. Represents(c, t, T) /\ WebRows(c, S) = WebRows(c, T)
    BY <2>1
  <2> QED
    BY <2>2, DecidedByWeb
<1>2. ASSUME NEW i \in ConfirmationIds PROVE s.confirmations[i] = t.confirmations[i]
  <2>1. /\ s.confirmations[i] \in Confirmation /\ t.confirmations[i] \in Confirmation
        /\ ConfirmationOf(c, s.confirmations[i], i, S) /\ ConfirmationOf(c, t.confirmations[i], i, S)
    BY DEF Represents, Snapshot
  <2>2. s.confirmations[i].notified = TRUE <=> t.confirmations[i].notified = TRUE
    BY <2>1, Zenon DEF ConfirmationOf
  <2>3. s.confirmations[i].notified = t.confirmations[i].notified
    BY <2>1, <2>2 DEF Confirmation
  <2> QED
    BY <1>0, <1>1, <2>1, <2>3 DEF Confirmation
<1>3. ASSUME NEW d \in Delegations PROVE s.delegations[d] = t.delegations[d]
  <2> DEFINE x == s.delegations[d]
             y == t.delegations[d]
  <2>1. /\ x \in Delegation /\ y \in Delegation
        /\ DelegationOf(c, x, d, S) /\ DelegationOf(c, y, d, S)
    BY DEF Represents, Snapshot
  <2> HIDE DEF x, y
  <2>2. x.status = y.status
    BY <2>1 DEF DelegationOf, Delegation
  <2>3. x.steps \in Nat /\ y.steps \in Nat /\ \A n \in Nat : n \in 1..x.steps <=> n \in 1..y.steps
    BY <2>1 DEF DelegationOf, Delegation
  <2>4. x.steps = y.steps
    <3>1. CASE x.steps < y.steps
      BY <2>3, <3>1
    <3>2. CASE x.steps > y.steps
      BY <2>3, <3>2
    <3> QED BY <2>3, <3>1, <3>2
  <2>5. x = y
    BY <2>1, <2>2, <2>4 DEF Delegation
  <2> QED BY <2>5 DEF x, y
<1>4. s.confirmations = t.confirmations
  BY <1>0, <1>2 DEF Snapshot
<1>5. s.delegations = t.delegations
  BY <1>0, <1>3 DEF Snapshot
<1> QED
  BY <1>0, <1>1, <1>4, <1>5 DEF Snapshot

(* A longer log says the same of the rows it had.                            *)
LEMMA RowsSayTheSame ==
    ASSUME NEW c, NEW k, NEW S, \A r \in S : k[r] = c[r], NEW s
    PROVE  Represents(c, s, S) <=> Represents(k, s, S)
<1>1. \A n : NodeOf(c, n, S) <=> NodeOf(k, n, S)
  BY DEF NodeOf, Executes
<1>2. \A i, x : ConfirmationOf(c, x, i, S) <=> ConfirmationOf(k, x, i, S)
  BY DEF ConfirmationOf, Requests, Approves, Refuses, Delivers
<1>3. \A d, x : DelegationOf(c, x, d, S) <=> DelegationOf(k, x, d, S)
  BY DEF DelegationOf, Starts, StepsTo, Finishes
<1> QED
  BY <1>1, <1>2, <1>3 DEF Represents

(* Fitting is a matter of what the rows say.                                 *)
LEMMA FitsTheSame ==
    ASSUME NEW c, NEW k, NEW S, NEW r, k[r] = c[r], \A q \in S : k[q] = c[q]
    PROVE  Fits(c, S, r) <=> Fits(k, S, r)
<1>1. \A n : NodeOf(c, n, S) <=> NodeOf(k, n, S)
  BY DEF NodeOf, Executes
<1>2. ActionFits(c, S, r) <=> ActionFits(k, S, r)
  BY <1>1 DEF ActionFits, Executes
<1>3. \A i : DecisionFits(c, S, r, i) <=> DecisionFits(k, S, r, i)
  BY DEF DecisionFits, Requests, Approves, Refuses
<1>4. DeliveryFits(c, S, r) <=> DeliveryFits(k, S, r)
  BY DEF DeliveryFits, Delivers, Requests
<1>5. \A d : DelegationFits(c, S, r, d) <=> DelegationFits(k, S, r, d)
  <2>1. \A d, n : StepsAre(c, S, d, n) <=> StepsAre(k, S, d, n)
    BY DEF StepsAre, StepsTo
  <2> QED
    BY <2>1 DEF DelegationFits, Starts, StepsTo, Finishes
<1> QED
  BY <1>2, <1>3, <1>4, <1>5 DEF Fits, WebFits, WorkerFits

(* Whether a row of the web fits depends on the rows of the web.             *)
LEMMA WebFitsByWeb ==
    ASSUME NEW c, NEW S, NEW T, WebRows(c, S) = WebRows(c, T), NEW r, WebFits(c, S, r)
    PROVE  WebFits(c, T, r)
<1>1. \A n : NodeOf(c, n, T) => NodeOf(c, n, S)
  BY NodeOfWeb
<1>2. ActionFits(c, T, r)
  BY <1>1 DEF WebFits, ActionFits
<1>3. \A i, q : /\ q \in S /\ Requests(c, q, i) <=> q \in T /\ Requests(c, q, i)
                /\ q \in S /\ Approves(c, q, i) <=> q \in T /\ Approves(c, q, i)
                /\ q \in S /\ Refuses(c, q, i) <=> q \in T /\ Refuses(c, q, i)
  BY WebRowsSay DEF WebRows
<1>4. \A i \in ConfirmationIds : DecisionFits(c, T, r, i)
  BY <1>3 DEF WebFits, DecisionFits
<1> QED
  BY <1>2, <1>4 DEF WebFits

(* A row of one family fits what the other writes.                           *)
LEMMA OtherFamilyFits ==
    ASSUME NEW c, NEW S, NEW r
    PROVE  /\ IsWeb(c, r) => WorkerFits(c, S, r)
           /\ ~IsWeb(c, r) => WebFits(c, S, r)
BY DEF IsWeb, WebKinds, Decisions, WorkerFits, DeliveryFits, DelegationFits, WebFits, ActionFits,
       DecisionFits, Executes, Requests, Approves, Refuses, Delivers, Starts, StepsTo, Finishes

-----------------------------------------------------------------------------
(* Folding the rows of a log.                                                *)

(* The fold: Folding is the function its recursion describes.                *)
IsFolding(f, S, s, n) ==
    /\ f = [k \in 0..n |-> f[k]]
    /\ f[0] = s
    /\ \A k \in 1..n : f[k] = IF k \in S THEN Apply(f[k - 1], content[k]) ELSE f[k - 1]

(* A function that folds row after row exists, whatever the rows.            *)
LEMMA FoldingExists ==
    ASSUME NEW S, NEW s, NEW n \in Nat
    PROVE  \E f : IsFolding(f, S, s, n)
<1> DEFINE Missing == {m \in Nat : ~\E f : IsFolding(f, S, s, m)}
<1>1. SUFFICES ASSUME Missing # {} PROVE FALSE
  OBVIOUS
<1>2. PICK m \in Missing : \A k \in Missing : m <= k
  BY <1>1, LeastNatural
<1>3. CASE m = 0
  <2>1. IsFolding([i \in 0..0 |-> s], S, s, 0)
    BY DEF IsFolding
  <2> QED BY <1>2, <1>3, <2>1
<1>4. CASE m # 0
  <2>1. m - 1 \in Nat /\ m \in Nat /\ m - 1 \notin Missing
    BY <1>2, <1>4
  <2>2. PICK f : IsFolding(f, S, s, m - 1)
    BY <2>1
  <2> DEFINE last == IF m \in S THEN Apply(f[m - 1], content[m]) ELSE f[m - 1]
             g == [i \in 0..m |-> IF i = m THEN last ELSE f[i]]
  <2> HIDE DEF last
  <2>3. DOMAIN g = 0..m /\ g[0] = s /\ g[m] = last
    BY <1>4, <2>1, <2>2 DEF IsFolding
  <2>4. \A i \in 0..(m - 1) : g[i] = f[i]
    BY <2>1
  <2>5. ASSUME NEW i \in 1..m
        PROVE g[i] = IF i \in S THEN Apply(g[i - 1], content[i]) ELSE g[i - 1]
    <3>1. CASE i = m
      <4>1. g[i - 1] = f[m - 1]
        BY <2>1, <2>4, <3>1
      <4> QED BY <2>3, <3>1, <4>1 DEF last
    <3>2. CASE i # m
      <4>1. i \in 1..(m - 1) /\ i \in 0..(m - 1) /\ i - 1 \in 0..(m - 1)
        BY <2>1, <3>2
      <4> QED BY <2>2, <2>4, <4>1 DEF IsFolding
    <3> QED BY <3>1, <3>2
  <2>0. g = [i \in 0..m |-> g[i]]
    OBVIOUS
  <2> HIDE DEF g
  <2>6. IsFolding(g, S, s, m)
    BY <2>0, <2>3, <2>5 DEF IsFolding
  <2> QED BY <1>2, <2>6
<1> QED
  BY <1>3, <1>4

(* Folding is that function.                                                 *)
LEMMA FoldingIsFold ==
    ASSUME NEW S, NEW s, nextSeq \in Nat \ {0}
    PROVE  IsFolding(Folding(S, s), S, s, nextSeq - 1)
<1>0. PICK n \in Nat : n = nextSeq - 1
  OBVIOUS
<1> DEFINE Body(f) == [k \in 0..n |->
                         IF k = 0 THEN s
                         ELSE IF k \in S THEN Apply(f[k - 1], content[k]) ELSE f[k - 1]]
<1>1. PICK f : IsFolding(f, S, s, n)
  BY FoldingExists
<1>2. f = Body(f)
  <2>1. f = [k \in 0..n |-> f[k]]
    BY <1>1, Zenon DEF IsFolding
  <2>2. \A k \in 0..n : k = 0 \/ k \in 1..n
    OBVIOUS
  <2>3. \A k \in 0..n : f[k] = Body(f)[k]
    BY <1>1, <2>2 DEF IsFolding
  <2>4. Body(f) = [k \in 0..n |-> Body(f)[k]]
    OBVIOUS
  <2> HIDE DEF Body
  <2> QED BY <2>1, <2>3, <2>4
<1>3. Folding(S, s) = CHOOSE g : g = Body(g)
  BY <1>0 DEF Folding
<1>4. Folding(S, s) = Body(Folding(S, s))
  BY <1>2, <1>3, Zenon
<1> HIDE DEF Body
<1>5. DOMAIN Body(Folding(S, s)) = 0..n
  BY DEF Body
<1>6. \A k \in 0..n :
        Body(Folding(S, s))[k] = IF k = 0 THEN s
                                 ELSE IF k \in S THEN Apply(Folding(S, s)[k - 1], content[k])
                                 ELSE Folding(S, s)[k - 1]
  BY DEF Body
<1>7. IsFolding(Folding(S, s), S, s, n)
  <2>1. Folding(S, s) = [k \in 0..n |-> Folding(S, s)[k]]
    BY <1>4 DEF Body
  <2> QED
    BY <1>4, <1>6, <2>1 DEF IsFolding
<1> QED
  BY <1>0, <1>7

-----------------------------------------------------------------------------
(* What a fold makes of a snapshot: if it does not throw, the result         *)
(* represents the rows of both.                                              *)
Rows == 1..(nextSeq - 1)
LogTyped == nextSeq \in Nat \ {0} /\ content \in Seq(Events) /\ Len(content) = nextSeq - 1

Upto(S, n) == {r \in S : r <= n}
Below(S, r) == {q \in S : q < r}
AllFit(c, S) == \A r \in S : Fits(c, Below(S, r), r)

(* Each row is an event.                                                     *)
LEMMA RowsTyped ==
    ASSUME LogTyped, NEW r \in Rows
    PROVE  r \in Nat /\ content[r] \in Events
BY DEF LogTyped, Rows

(* One row further.                                                          *)
LEMMA UptoNext ==
    ASSUME NEW T \in SUBSET Nat, NEW k \in Nat, k # 0
    PROVE  /\ k \in T => Upto(T, k) = Upto(T, k - 1) \cup {k}
           /\ k \notin T => Upto(T, k) = Upto(T, k - 1)
           /\ Below(T, k) = Upto(T, k - 1)
<1>1. \A r \in T : r \in Nat /\ (r <= k <=> r <= k - 1 \/ r = k) /\ (r < k <=> r <= k - 1)
  OBVIOUS
<1>2. Upto(T, k) = {r \in T : r <= k - 1 \/ r = k}
  BY <1>1 DEF Upto
<1>3. Below(T, k) = {r \in T : r <= k - 1}
  BY <1>1 DEF Below
<1> QED
  BY <1>2, <1>3 DEF Upto

(* No row, and all rows.                                                     *)
LEMMA UptoEnds ==
    ASSUME LogTyped, NEW T \in SUBSET Rows
    PROVE  Upto(T, 0) = {} /\ Upto(T, nextSeq - 1) = T
<1>1. \A r \in T : r \in Nat /\ ~(r <= 0) /\ r <= nextSeq - 1
  BY DEF LogTyped, Rows
<1> QED
  BY <1>1 DEF Upto

(* A fold that did not throw represents what it began with and what it       *)
(* folded.                                                                   *)
LEMMA FoldRepresents ==
    ASSUME LogTyped, NEW S \in SUBSET Rows, NEW T \in SUBSET Rows,
           NEW s, Represents(content, s, S),
           \A r \in T, q \in S : Executes(content, r) /\ Executes(content, q) => q <= r
    PROVE  /\ FoldRows(T, s) \in Snapshot
           /\ FoldRows(T, s).ok = TRUE => Represents(content, FoldRows(T, s), S \cup T)
<1> DEFINE n == nextSeq - 1
           f == Folding(T, s)
           Good(k) == /\ f[k] \in Snapshot
                      /\ f[k].ok = TRUE => Represents(content, f[k], S \cup Upto(T, k))
           Bad == {k \in 0..n : ~Good(k)}
<1>1. n \in Nat /\ IsFolding(f, T, s, n) /\ T \in SUBSET Nat /\ S \in SUBSET Nat
  BY FoldingIsFold DEF LogTyped, Rows
<1>2. \A k \in 0..n : Good(k)
  <2>1. SUFFICES ASSUME Bad # {} PROVE FALSE
    OBVIOUS
  <2>2. PICK k \in Bad : \A j \in Bad : k <= j
    <3>1. Bad \in SUBSET Nat
      BY <1>1
    <3> HIDE DEF Bad
    <3> QED BY <2>1, <3>1, LeastNatural
  <2>3. CASE k = 0
    <3>1. f[0] = s
      BY <1>1 DEF IsFolding
    <3>2. S \cup Upto(T, 0) = S
      BY UptoEnds
    <3>3. Good(0)
      BY <3>1, <3>2 DEF Represents
    <3> QED BY <2>2, <2>3, <3>3
  <2>4. CASE k # 0
    <3>1. k \in 1..n /\ k \in Nat /\ k - 1 \in 0..n /\ k - 1 \notin Bad
      BY <1>1, <2>2, <2>4
    <3>2. Good(k - 1)
      BY <3>1
    <3>3. f[k] = IF k \in T THEN Apply(f[k - 1], content[k]) ELSE f[k - 1]
      BY <1>1, <3>1 DEF IsFolding
    <3> DEFINE t == f[k - 1]
               R == S \cup Upto(T, k - 1)
    <3>4. t \in Snapshot /\ (t.ok = TRUE => Represents(content, t, R))
      BY <3>2
    <3>5. R \in SUBSET Nat
      BY <1>1 DEF Upto
    <3> HIDE DEF f, t, R
    <3>6. CASE k \notin T
      <4>1. f[k] = t /\ S \cup Upto(T, k) = R
        BY <1>1, <2>4, <3>1, <3>3, <3>6, UptoNext DEF t, R
      <4>2. Good(k)
        BY <3>4, <4>1
      <4> QED BY <2>2, <4>2
    <3>7. CASE k \in T
      <4>1. f[k] = Apply(t, content[k]) /\ S \cup Upto(T, k) = R \cup {k}
        BY <1>1, <2>4, <3>1, <3>3, <3>7, UptoNext DEF t, R
      <4>2. content[k] \in Events
        BY <3>7, RowsTyped
      <4>3. f[k] \in Snapshot
        BY <3>4, <4>1, <4>2, ApplyTyped
      <4>4. CASE t.ok # TRUE
        BY <2>2, <3>4, <4>1, <4>3, <4>4, ApplyThrown
      <4>5. CASE t.ok = TRUE
        <5>1. Executes(content, k) => \A q \in R : Executes(content, q) => q <= k
          BY <1>1, <3>1, <3>7 DEF R, Upto
        <5>2. f[k].ok = TRUE => Represents(content, f[k], R \cup {k})
          BY <3>1, <3>4, <3>5, <4>1, <4>2, <4>5, <5>1, RowFolds
        <5>3. Good(k)
          BY <4>1, <4>3, <5>2
        <5> QED BY <2>2, <5>3
      <4> QED BY <4>4, <4>5
    <3> QED BY <3>6, <3>7
  <2> QED BY <2>3, <2>4
<1>3. Good(n)
  BY <1>1, <1>2
<1>4. Upto(T, n) = T
  BY UptoEnds
<1>5. FoldRows(T, s) = f[n]
  BY DEF FoldRows
<1> HIDE DEF f, n
<1> QED
  BY <1>3, <1>4, <1>5

(* The empty snapshot represents no row.                                     *)
LEMMA NothingRepresented ==
    ASSUME NEW c
    PROVE  EmptySnapshot \in Snapshot /\ EmptySnapshot.ok = TRUE /\ Represents(c, EmptySnapshot, {})
<1>1. NoConfirmation \in Confirmation /\ NoDelegation \in Delegation
  BY DEF NoConfirmation, NoDelegation, Confirmation, Statuses, Delegation
<1>2. /\ EmptySnapshot \in Snapshot /\ EmptySnapshot.ok = TRUE
      /\ EmptySnapshot.node = InitialNode
      /\ \A i \in ConfirmationIds : EmptySnapshot.confirmations[i] = NoConfirmation
      /\ \A d \in Delegations : EmptySnapshot.delegations[d] = NoDelegation
  BY <1>1, FlowAssumption DEF EmptySnapshot, Snapshot, Nodes
<1>3. NodeOf(c, InitialNode, {})
  BY DEF NodeOf
<1>4. \A i : ConfirmationOf(c, NoConfirmation, i, {})
  BY DEF ConfirmationOf, NoConfirmation
<1>5. \A d : DelegationOf(c, NoDelegation, d, {})
  BY DEF DelegationOf, NoDelegation
<1> QED
  BY <1>2, <1>3, <1>4, <1>5 DEF Represents

(* A log whose rows fit one after the other replays.                         *)
LEMMA FittingLogReplays ==
    ASSUME LogTyped, NEW T \in SUBSET Rows, AllFit(content, T)
    PROVE  Represents(content, Replay(T), T)
<1> DEFINE n == nextSeq - 1
           f == Folding(T, EmptySnapshot)
           Good(k) == Represents(content, f[k], Upto(T, k))
           Bad == {k \in 0..n : ~Good(k)}
<1>1. n \in Nat /\ IsFolding(f, T, EmptySnapshot, n) /\ T \in SUBSET Nat
  BY FoldingIsFold DEF LogTyped, Rows
<1>2. \A k \in 0..n : Good(k)
  <2>1. SUFFICES ASSUME Bad # {} PROVE FALSE
    OBVIOUS
  <2>2. PICK k \in Bad : \A j \in Bad : k <= j
    <3>1. Bad \in SUBSET Nat
      BY <1>1
    <3> HIDE DEF Bad
    <3> QED BY <2>1, <3>1, LeastNatural
  <2>3. CASE k = 0
    <3>1. f[0] = EmptySnapshot
      BY <1>1 DEF IsFolding
    <3>2. Upto(T, 0) = {}
      BY UptoEnds
    <3>3. Good(0)
      BY <3>1, <3>2, NothingRepresented
    <3> QED BY <2>2, <2>3, <3>3
  <2>4. CASE k # 0
    <3>1. k \in 1..n /\ k \in Nat /\ k - 1 \in 0..n /\ k - 1 \notin Bad
      BY <1>1, <2>2, <2>4
    <3>2. Good(k - 1)
      BY <3>1
    <3>3. f[k] = IF k \in T THEN Apply(f[k - 1], content[k]) ELSE f[k - 1]
      BY <1>1, <3>1 DEF IsFolding
    <3> DEFINE t == f[k - 1]
               R == Upto(T, k - 1)
    <3>4. Represents(content, t, R)
      BY <3>2
    <3>5. R \in SUBSET Nat
      BY <1>1 DEF Upto
    <3> HIDE DEF f, t, R
    <3>6. CASE k \notin T
      <4>1. f[k] = t /\ Upto(T, k) = R
        BY <1>1, <2>4, <3>1, <3>3, <3>6, UptoNext DEF t, R
      <4> QED BY <2>2, <3>4, <4>1
    <3>7. CASE k \in T
      <4>1. f[k] = Apply(t, content[k]) /\ Upto(T, k) = R \cup {k} /\ Below(T, k) = R
        BY <1>1, <2>4, <3>1, <3>3, <3>7, UptoNext DEF t, R
      <4>2. content[k] \in Events /\ Fits(content, R, k)
        BY <3>7, <4>1, RowsTyped DEF AllFit
      <4>3. \A q \in R : q <= k
        BY <1>1, <3>1 DEF R, Upto
      <4>4. Represents(content, f[k], R \cup {k})
        BY <3>1, <3>4, <3>5, <4>1, <4>2, <4>3, RowFolds
      <4> QED BY <2>2, <4>1, <4>4
    <3> QED BY <3>6, <3>7
  <2> QED BY <2>3, <2>4
<1>3. Good(n)
  BY <1>1, <1>2
<1>4. Upto(T, n) = T
  BY UptoEnds
<1>5. Replay(T) = f[n]
  BY DEF Replay, FoldRows
<1> HIDE DEF f, n
<1> QED
  BY <1>3, <1>4, <1>5

-----------------------------------------------------------------------------
(* Verdicts: what is appended folds to what is installed.                    *)

(* Verdicts: their events fold on the snapshot judged, and give the snapshot *)
(* they install.                                                             *)
WebEvent == {e \in Events : e.kind \in WebKinds}
Fold1(s, e, t) == t = Apply(s, e) /\ t.ok = TRUE

IsChain(f, s, log) ==
    f[0] = s /\ \A k \in 1..Len(log) : Fold1(f[k - 1], log[k], f[k])

VerdictOn(s, v) ==
    /\ v.events \in Seq(WebEvent)
    /\ \E f : IsChain(f, s, v.events) /\ f[Len(v.events)] = v.next
    /\ v.notify \subseteq ConfirmationIds
    /\ \A i \in v.notify : \E k \in DOMAIN v.events : Requests(v.events, k, i)

(* The empty verdict.                                                        *)
LEMMA EmptyVerdict ==
    ASSUME NEW s, NEW v, v = Verdict(<<>>, s, {})
    PROVE  VerdictOn(s, v) /\ v.next = s
<1>1. v.events = <<>> /\ v.next = s /\ v.notify = {}
  BY DEF Verdict
<1> DEFINE f == [k \in {0} |-> s]
<1>0. f[0] = s /\ Len(<<>>) = 0 /\ 1..0 = {} /\ <<>> \in Seq(WebEvent)
  OBVIOUS
<1> HIDE DEF f
<1>2. IsChain(f, s, <<>>) /\ f[Len(<<>>)] = s
  BY <1>0 DEF IsChain
<1> QED
  BY <1>0, <1>1, <1>2 DEF VerdictOn

(* A verdict with one event more, that folds on what it has installed.       *)
LEMMA VerdictExtended ==
    ASSUME NEW s, NEW v, VerdictOn(s, v), NEW e \in WebEvent, NEW t, Fold1(v.next, e, t),
           NEW u, u.events = Append(v.events, e), u.next = t,
           u.notify \subseteq ConfirmationIds,
           \A i \in u.notify : i \in v.notify \/ (e.kind = "confirmation-requested" /\ e.id = i)
    PROVE  VerdictOn(s, u)
<1> DEFINE log == v.events
           n == Len(log)
           longer == Append(log, e)
<1>1. /\ log \in Seq(WebEvent) /\ n \in Nat /\ longer \in Seq(WebEvent) /\ Len(longer) = n + 1
      /\ longer[n + 1] = e /\ \A k \in 1..n : longer[k] = log[k]
  BY DEF VerdictOn
<1>2. PICK f : IsChain(f, s, log) /\ f[n] = v.next
  BY DEF VerdictOn
<1>d. DOMAIN longer = 1..(n + 1) /\ DOMAIN log = 1..n
  BY <1>1
<1> HIDE DEF log, n, longer
<1> DEFINE g == [k \in 0..(n + 1) |-> IF k = n + 1 THEN t ELSE f[k]]
<1>3. g[n + 1] = t /\ \A k \in 0..n : g[k] = f[k]
  BY <1>1
<1> HIDE DEF g
<1>4. g[0] = s
  BY <1>1, <1>2, <1>3 DEF IsChain
<1>5. ASSUME NEW k \in 1..Len(longer) PROVE Fold1(g[k - 1], longer[k], g[k])
  <2>1. CASE k = n + 1
    <3>1. g[k - 1] = v.next /\ longer[k] = e /\ g[k] = t
      BY <1>1, <1>2, <1>3, <2>1
    <3> QED BY <3>1
  <2>2. CASE k # n + 1
    <3>1. k \in 1..n /\ k \in 0..n /\ k - 1 \in 0..n
      BY <1>1, <2>2
    <3> QED BY <1>1, <1>2, <1>3, <3>1 DEF IsChain, n
  <2> QED BY <2>1, <2>2
<1>6. IsChain(g, s, longer) /\ g[Len(longer)] = t
  BY <1>1, <1>3, <1>4, <1>5 DEF IsChain
<1>7. \A i \in u.notify : \E k \in DOMAIN longer : Requests(longer, k, i)
  <2> SUFFICES ASSUME NEW i \in u.notify PROVE \E k \in DOMAIN longer : Requests(longer, k, i)
    OBVIOUS
  <2>1. CASE i \in v.notify
    <3>1. PICK k \in DOMAIN log : Requests(log, k, i)
      BY <2>1 DEF VerdictOn, log
    <3>2. k \in DOMAIN longer /\ longer[k] = log[k]
      BY <1>1, <1>d
    <3> QED BY <3>1, <3>2 DEF Requests
  <2>2. CASE e.kind = "confirmation-requested" /\ e.id = i
    <3>1. n + 1 \in DOMAIN longer
      BY <1>1, <1>d
    <3> QED BY <1>1, <2>2, <3>1 DEF Requests
  <2> QED BY <2>1, <2>2
<1>8. u.events = longer
  BY DEF longer, log
<1> QED
  BY <1>1, <1>6, <1>7, <1>8, Zenon DEF VerdictOn

(* A verdict of one event.                                                   *)
OneStep(s, v, e) ==
    /\ e \in WebEvent
    /\ v = Verdict(<<e>>, v.next, v.notify)
    /\ Fold1(s, e, v.next)
    /\ v.notify \subseteq ConfirmationIds
    /\ \A i \in v.notify : e.kind = "confirmation-requested" /\ e.id = i

(* A verdict of one event.                                                   *)
LEMMA OneStepIsVerdict ==
    ASSUME NEW s, NEW v, NEW e, OneStep(s, v, e)
    PROVE  VerdictOn(s, v)
<1>1. PICK w : w = Verdict(<<>>, s, {})
  OBVIOUS
<1>2. VerdictOn(s, w) /\ w.next = s /\ w.events = <<>>
  BY <1>1, EmptyVerdict DEF Verdict
<1>3. v.events = Append(<<>>, e)
  BY DEF OneStep, Verdict
<1> QED
  BY <1>2, <1>3, VerdictExtended DEF OneStep

(* The events verdicts are made of.                                          *)
LEMMA WebEventsAre ==
    /\ Noted \in WebEvent
    /\ \A a \in Actions : Executed(a) \in WebEvent
    /\ \A i \in ConfirmationIds :
         /\ Approved(i) \in WebEvent /\ Refused(i) \in WebEvent
         /\ \A a \in Actions : Requested(i, a) \in WebEvent
BY WebEvents DEF WebEvent, WebKinds, Decisions

(* What each judgement appends folds on the snapshot it was given on, to     *)
(* the snapshot it installs.  First a rejection.                             *)
LEMMA RejectionStep ==
    ASSUME NEW s \in Snapshot, s.ok = TRUE
    PROVE  OneStep(s, Rejection(s), Noted)
<1>1. Apply(s, Noted) = s
  BY ApplyNotedIs, WebEvents
<1>2. Rejection(s).next = s /\ Rejection(s).notify = {} /\ Rejection(s) = Verdict(<<Noted>>, s, {})
  BY DEF Rejection, Verdict
<1> QED
  BY <1>1, <1>2, WebEventsAre DEF OneStep, Fold1

(* An action.                                                                *)
LEMMA ExecutedStep ==
    ASSUME NEW s \in Snapshot, s.ok = TRUE, NEW a \in Actions, a \in Declared[s.node],
           NEW v, v = Verdict(<<Executed(a)>>, [s EXCEPT !.node = Target[a]], {})
    PROVE  OneStep(s, v, Executed(a)) /\ v.next.confirmations = s.confirmations
<1>1. Apply(s, Executed(a)) = [s EXCEPT !.node = Target[a]]
  BY DEF Apply, Executed, ApplyExecuted
<1>2. [s EXCEPT !.node = Target[a]].ok = TRUE
  BY DEF Snapshot
<1>3. v.next = [s EXCEPT !.node = Target[a]] /\ v.notify = {}
  BY DEF Verdict
<1>4. v.next.confirmations = s.confirmations
  BY <1>3 DEF Snapshot
<1> QED
  BY <1>1, <1>2, <1>3, <1>4, WebEventsAre DEF OneStep, Fold1

(* A suspension, on a number that is free.                                   *)
LEMMA SuspensionStep ==
    ASSUME NEW s \in Snapshot, s.ok = TRUE, NEW a \in Actions, FreeIds(s) # {}
    PROVE  OneStep(s, Suspension(s, a), Requested(NextId(s), a))
<1>1. NextId(s) \in FreeIds(s)
  <2>1. FreeIds(s) \in SUBSET Nat
    BY FlowAssumption DEF FreeIds, ConfirmationIds
  <2>2. \E i \in FreeIds(s) : \A j \in FreeIds(s) : i <= j
    BY <2>1, LeastNatural
  <2> QED
    BY <2>2, Zenon DEF NextId
<1>2. PICK i \in ConfirmationIds : i = NextId(s) /\ s.confirmations[i].status = "none"
  BY <1>1 DEF FreeIds
<1> DEFINE x == [status |-> "pending", action |-> a, notified |-> FALSE]
           t == [s EXCEPT !.confirmations[i] = x]
<1>3. Apply(s, Requested(i, a)) = t
  BY <1>2 DEF Apply, Requested, ApplyRequested
<1>4. t.ok = TRUE
  BY DEF Snapshot
<1>5. PICK v : v = Suspension(s, a)
  OBVIOUS
<1>6. v = Verdict(<<Requested(i, a)>>, t, {i})
  BY <1>2, <1>5 DEF Suspension
<1> HIDE DEF t
<1>7. v.next = t /\ v.notify = {i}
  BY <1>6 DEF Verdict
<1>8. /\ Requested(i, a) \in WebEvent /\ Requested(i, a).kind = "confirmation-requested"
      /\ Requested(i, a).id = i
  BY WebEventsAre, WebEvents
<1> QED
  BY <1>2, <1>3, <1>4, <1>5, <1>6, <1>7, <1>8 DEF OneStep, Fold1

MayAsk(s, actor) == actor = "agent" => FreeIds(s) # {}

(* An execution under the confirmation gate is one of the three.             *)
LEMMA ExecuteStep ==
    ASSUME NEW s \in Snapshot, s.ok = TRUE, NEW a \in Actions, NEW actor, MayAsk(s, actor)
    PROVE  \E e \in WebEvent :
             /\ OneStep(s, ExecuteWithGates(s, a, actor), e)
             /\ e.kind = "action-executed" =>
                  ExecuteWithGates(s, a, actor).next.confirmations = s.confirmations
<1>1. CASE a \notin Declared[s.node]
  BY <1>1, RejectionStep, WebEvents, WebEventsAre DEF ExecuteWithGates
<1>2. CASE a \in Declared[s.node] /\ actor = "agent" /\ a \in Gated
  <2>1. OneStep(s, Suspension(s, a), Requested(NextId(s), a))
    BY <1>2, SuspensionStep DEF MayAsk
  <2>2. ExecuteWithGates(s, a, actor) = Suspension(s, a)
    BY <1>2 DEF ExecuteWithGates
  <2>3. Requested(NextId(s), a).kind # "action-executed"
    BY DEF Requested
  <2> QED
    BY <2>1, <2>2, <2>3 DEF OneStep
<1>3. CASE a \in Declared[s.node] /\ ~(actor = "agent" /\ a \in Gated)
  <2>1. PICK v : v = ExecuteWithGates(s, a, actor)
    OBVIOUS
  <2>2. v = Verdict(<<Executed(a)>>, [s EXCEPT !.node = Target[a]], {})
    BY <1>3, <2>1 DEF ExecuteWithGates
  <2>3. OneStep(s, v, Executed(a)) /\ v.next.confirmations = s.confirmations
    BY <1>3, <2>2, ExecutedStep
  <2> QED
    BY <2>1, <2>3, WebEventsAre
<1> QED
  BY <1>1, <1>2, <1>3

(* The rejection of a confirmation.                                          *)
LEMMA RefusedStep ==
    ASSUME NEW s \in Snapshot, s.ok = TRUE, NEW i \in ConfirmationIds, NEW actor
    PROVE  \E e \in WebEvent : OneStep(s, RejectConfirmation(s, i, actor), e)
<1> DEFINE t == [s EXCEPT !.confirmations[i].status = "rejected"]
<1>1. CASE s.confirmations[i].status # "pending" \/ actor # "human"
  BY <1>1, RejectionStep, WebEventsAre DEF RejectConfirmation
<1>2. CASE s.confirmations[i].status = "pending" /\ actor = "human"
  <2>1. PICK v : v = RejectConfirmation(s, i, actor)
    OBVIOUS
  <2>2. v = Verdict(<<Refused(i)>>, t, {})
    BY <1>2, <2>1 DEF RejectConfirmation
  <2>3. Apply(s, Refused(i)) = t
    BY <1>2 DEF Apply, Refused, ApplyDecision
  <2>4. t.ok = TRUE
    BY DEF Snapshot
  <2> HIDE DEF t
  <2>5. v.next = t /\ v.notify = {}
    BY <2>2 DEF Verdict
  <2>6. OneStep(s, v, Refused(i))
    BY <2>2, <2>3, <2>4, <2>5, WebEventsAre DEF OneStep, Fold1
  <2> QED
    BY <2>1, <2>6, WebEventsAre
<1> QED
  BY <1>1, <1>2

(* An approval: two events, the second folded on what the first left.        *)
LEMMA ApprovedSteps ==
    ASSUME NEW s \in Snapshot, s.ok = TRUE, NEW i \in ConfirmationIds, NEW actor
    PROVE  VerdictOn(s, ApproveConfirmation(s, i, actor))
<1> DEFINE a == s.confirmations[i].action
           t == [s EXCEPT !.confirmations[i].status = "approved"]
           u == [s EXCEPT !.confirmations[i].status = "approved", !.node = Target[a]]
<1>0. PICK v : v = ApproveConfirmation(s, i, actor)
  OBVIOUS
<1>1. CASE s.confirmations[i].status # "pending" \/ actor # "human" \/ a \notin Declared[s.node]
  <2>1. v = Rejection(s)
    BY <1>0, <1>1 DEF ApproveConfirmation
  <2> QED
    BY <1>0, <2>1, RejectionStep, OneStepIsVerdict
<1>2. CASE s.confirmations[i].status = "pending" /\ actor = "human" /\ a \in Declared[s.node]
  <2>1. v = Verdict(<<Approved(i), Executed(a)>>, u, {})
    BY <1>0, <1>2 DEF ApproveConfirmation
  <2>2. v.events = <<Approved(i), Executed(a)>> /\ v.next = u /\ v.notify = {}
    BY <2>1 DEF Verdict
  <2>3. Apply(s, Approved(i)) = t
    BY <1>2 DEF Apply, Approved, ApplyDecision
  <2>4. t \in Snapshot /\ t.ok = TRUE /\ t.node = s.node /\ a \in Actions
    <3>1. s.node \in Nodes /\ t.node = s.node /\ t.ok = TRUE
      BY DEF Snapshot
    <3>2. t \in Snapshot
      BY <2>3, ApplyTyped, WebEventsAre DEF WebEvent
    <3> QED
      BY <1>2, <3>1, <3>2, FlowAssumption DEF Nodes
  <2>5. u = [t EXCEPT !.node = Target[a]] /\ u.ok = TRUE
    BY DEF Snapshot
  <2> HIDE DEF t, a
  <2>6. Apply(t, Executed(a)) = u
    BY <1>2, <2>4, <2>5 DEF Apply, Executed, ApplyExecuted
  <2> HIDE DEF u
  <2>7. PICK w : w = Verdict(<<Approved(i)>>, t, {})
    OBVIOUS
  <2>8. w.events = <<Approved(i)>> /\ w.next = t /\ w.notify = {}
    BY <2>7 DEF Verdict
  <2>9. VerdictOn(s, w)
    <3>1. OneStep(s, w, Approved(i))
      BY <2>3, <2>4, <2>7, <2>8, WebEventsAre DEF OneStep, Fold1
    <3> QED BY <3>1, OneStepIsVerdict
  <2>10. v.events = Append(w.events, Executed(a))
    BY <2>2, <2>8
  <2>11. Executed(a) \in WebEvent /\ Fold1(w.next, Executed(a), u)
    BY <2>4, <2>5, <2>6, <2>8, WebEventsAre DEF Fold1
  <2>12. VerdictOn(s, v)
    BY <2>2, <2>9, <2>10, <2>11, VerdictExtended
  <2> QED
    BY <1>0, <2>12
<1> QED
  BY <1>1, <1>2

-----------------------------------------------------------------------------
(* Plans: Planning is the function its recursion describes.                  *)
PlanStep(before, a, actor) ==
    LET step == ExecuteWithGates(before.verdict.next, a, actor)
    IN  IF before.stopped THEN before
        ELSE [stopped |-> step.events[1].kind # "action-executed",
              verdict |-> [step EXCEPT !.events = before.verdict.events \o @]]

Unplanned(s) == [stopped |-> FALSE, verdict |-> Verdict(<<>>, s, {})]

IsPlanning(f, s, steps, actor, n) ==
    /\ f = [k \in 0..n |-> f[k]]
    /\ f[0] = Unplanned(s)
    /\ \A k \in 1..n : f[k] = PlanStep(f[k - 1], steps[k], actor)

(* A plan executed step after step exists as a function.                     *)
LEMMA PlanningExists ==
    ASSUME NEW s, NEW steps, NEW actor, NEW n \in Nat
    PROVE  \E f : IsPlanning(f, s, steps, actor, n)
<1> DEFINE Missing == {m \in Nat : ~\E f : IsPlanning(f, s, steps, actor, m)}
<1>1. SUFFICES ASSUME Missing # {} PROVE FALSE
  OBVIOUS
<1>2. PICK m \in Missing : \A k \in Missing : m <= k
  BY <1>1, LeastNatural
<1>3. CASE m = 0
  <2> DEFINE f == [i \in 0..0 |-> Unplanned(s)]
  <2>1. f = [k \in 0..0 |-> f[k]] /\ f[0] = Unplanned(s)
    OBVIOUS
  <2> HIDE DEF f
  <2>2. IsPlanning(f, s, steps, actor, 0)
    BY <2>1 DEF IsPlanning
  <2> QED BY <1>2, <1>3, <2>2
<1>4. CASE m # 0
  <2>1. m - 1 \in Nat /\ m \in Nat /\ m - 1 \notin Missing
    BY <1>2, <1>4
  <2>2. PICK f : IsPlanning(f, s, steps, actor, m - 1)
    BY <2>1
  <2> DEFINE last == PlanStep(f[m - 1], steps[m], actor)
             g == [i \in 0..m |-> IF i = m THEN last ELSE f[i]]
  <2> HIDE DEF last
  <2>3. g[0] = Unplanned(s) /\ g[m] = last
    BY <1>4, <2>1, <2>2 DEF IsPlanning
  <2>4. \A i \in 0..(m - 1) : g[i] = f[i]
    BY <2>1
  <2>5. ASSUME NEW i \in 1..m PROVE g[i] = PlanStep(g[i - 1], steps[i], actor)
    <3>1. CASE i = m
      <4>1. g[i - 1] = f[m - 1]
        BY <2>1, <2>4, <3>1
      <4> QED BY <2>3, <3>1, <4>1 DEF last
    <3>2. CASE i # m
      <4>1. i \in 1..(m - 1) /\ i \in 0..(m - 1) /\ i - 1 \in 0..(m - 1)
        BY <2>1, <3>2
      <4> QED BY <2>2, <2>4, <4>1 DEF IsPlanning
    <3> QED BY <3>1, <3>2
  <2>6. g = [i \in 0..m |-> g[i]]
    OBVIOUS
  <2> HIDE DEF g
  <2>7. IsPlanning(g, s, steps, actor, m)
    BY <2>3, <2>5, <2>6 DEF IsPlanning
  <2> QED BY <1>2, <2>7
<1> QED
  BY <1>3, <1>4

(* Planning is that function.                                                *)
LEMMA PlanningIsPlanning ==
    ASSUME NEW s, NEW steps, NEW actor, NEW n \in Nat, n = Len(steps)
    PROVE  IsPlanning(Planning(s, steps, actor), s, steps, actor, n)
<1> DEFINE Body(f) == [k \in 0..n |->
                         IF k = 0 THEN Unplanned(s) ELSE PlanStep(f[k - 1], steps[k], actor)]
           P == Planning(s, steps, actor)
<1>1. PICK f : IsPlanning(f, s, steps, actor, n)
  BY PlanningExists
<1>2. f = Body(f)
  <2>1. f = [k \in 0..n |-> f[k]]
    BY <1>1, Zenon DEF IsPlanning
  <2>2. \A k \in 0..n : k = 0 \/ k \in 1..n
    OBVIOUS
  <2>3. \A k \in 0..n : f[k] = Body(f)[k]
    BY <1>1, <2>2 DEF IsPlanning
  <2>4. Body(f) = [k \in 0..n |-> Body(f)[k]]
    OBVIOUS
  <2> HIDE DEF Body
  <2> QED BY <2>1, <2>3, <2>4
<1>3. P = CHOOSE g : g = Body(g)
  BY DEF Planning, PlanStep, Unplanned
<1>4. P = Body(P)
  BY <1>2, <1>3, Zenon
<1> HIDE DEF P
<1>5. \A k \in 0..n :
        Body(P)[k] = IF k = 0 THEN Unplanned(s) ELSE PlanStep(P[k - 1], steps[k], actor)
  OBVIOUS
<1>6. Body(P) = [k \in 0..n |-> Body(P)[k]]
  OBVIOUS
<1> HIDE DEF Body
<1>7. IsPlanning(P, s, steps, actor, n)
  <2>1. P = [k \in 0..n |-> P[k]]
    BY <1>4, <1>6
  <2>2. \A k \in 0..n : P[k] = IF k = 0 THEN Unplanned(s) ELSE PlanStep(P[k - 1], steps[k], actor)
    BY <1>4, <1>5
  <2>3. P[0] = Unplanned(s)
    BY <2>2
  <2>4. \A k \in 1..n : P[k] = PlanStep(P[k - 1], steps[k], actor)
    BY <2>2
  <2> QED
    BY <2>1, <2>3, <2>4, Zenon DEF IsPlanning
<1> QED
  BY <1>7 DEF P

(* A verdict by its fields.                                                  *)
LEMMA VerdictFields ==
    ASSUME NEW log, NEW t, NEW ids, NEW v, v = Verdict(log, t, ids)
    PROVE  v.events = log /\ v.next = t /\ v.notify = ids
BY DEF Verdict

(* The plan so far: a verdict on the snapshot it began with.                 *)
Planned(s, p) ==
    /\ p.verdict = Verdict(p.verdict.events, p.verdict.next, p.verdict.notify)
    /\ VerdictOn(s, p.verdict)
    /\ p.verdict.next \in Snapshot /\ p.verdict.next.ok = TRUE
    /\ ~p.stopped => p.verdict.next.confirmations = s.confirmations

(* A step of a plan extends the verdict by its own event.                    *)
LEMMA PlanStepPlanned ==
    ASSUME NEW s \in Snapshot, NEW actor, MayAsk(s, actor), NEW p, Planned(s, p),
           NEW a \in Actions
    PROVE  Planned(s, PlanStep(p, a, actor))
<1> DEFINE v == p.verdict
           t == v.next
           step == ExecuteWithGates(t, a, actor)
           q == PlanStep(p, a, actor)
           u == [step EXCEPT !.events = v.events \o @]
<1>1. CASE p.stopped
  <2>1. q = p
    BY <1>1 DEF PlanStep
  <2> QED
    BY <2>1
<1>2. CASE ~p.stopped
  <2>1. t \in Snapshot /\ t.ok = TRUE /\ t.confirmations = s.confirmations
    BY <1>2 DEF Planned
  <2>2. MayAsk(t, actor)
    BY <2>1 DEF MayAsk, FreeIds
  <2>3. PICK e \in WebEvent :
          /\ OneStep(t, step, e)
          /\ e.kind = "action-executed" => step.next.confirmations = t.confirmations
    BY <2>1, <2>2, ExecuteStep
  <2>4. q = [stopped |-> step.events[1].kind # "action-executed", verdict |-> u]
    BY <1>2 DEF PlanStep
  <2> HIDE DEF step
  <2>5. PICK r, ids : r = step.next /\ ids = step.notify
    OBVIOUS
  <2>6. PICK one : one = <<e>>
    OBVIOUS
  <2>7. step = Verdict(one, r, ids) /\ Fold1(t, e, r)
    BY <2>3, <2>5, <2>6 DEF OneStep
  <2>8. step.events = one /\ one[1] = e
    BY <2>6, <2>7, VerdictFields
  <2>9. PICK more : more = v.events \o one
    OBVIOUS
  <2>a. u = [step EXCEPT !.events = more]
    BY <2>8, <2>9
  <2> HIDE DEF u
  <2>b. more = Append(v.events, e)
    BY <2>6, <2>9 DEF Planned, VerdictOn
  <2>c. u = Verdict(more, r, ids) /\ u.events = more /\ u.next = r /\ u.notify = ids
    <3>1. PICK x, y : x = step /\ y = u
      OBVIOUS
    <3>2. x = Verdict(one, r, ids) /\ y = [x EXCEPT !.events = more]
      BY <2>7, <2>a, <3>1
    <3>3. y = Verdict(more, r, ids) /\ y.events = more /\ y.next = r /\ y.notify = ids
      BY <3>2 DEF Verdict
    <3> QED
      BY <3>1, <3>3
  <2>10. VerdictOn(s, v)
    BY DEF Planned
  <2> HIDE DEF v, t
  <2>11. VerdictOn(s, u)
    <3>1. Fold1(v.next, e, r)
      BY <2>7 DEF t
    <3>2. u.notify \subseteq ConfirmationIds /\
          \A i \in u.notify : e.kind = "confirmation-requested" /\ e.id = i
      BY <2>3, <2>5, <2>c DEF OneStep
    <3> QED
      BY <2>b, <2>c, <2>10, <3>1, <3>2, VerdictExtended
  <2>12. u.next \in Snapshot /\ u.next.ok = TRUE
    BY <2>1, <2>7, <2>c, ApplyTyped DEF Fold1, WebEvent
  <2>13. q.verdict = u /\ (~q.stopped => e.kind = "action-executed")
    <3>1. PICK b : b = (step.events[1].kind # "action-executed")
      OBVIOUS
    <3>2. q = [stopped |-> b, verdict |-> u]
      BY <2>4, <3>1
    <3>3. q.verdict = u /\ q.stopped = b
      BY <3>2
    <3> QED
      BY <2>8, <3>1, <3>3
  <2>14. e.kind = "action-executed" => u.next.confirmations = s.confirmations
    BY <2>1, <2>3, <2>5, <2>c
  <2> HIDE DEF q
  <2> QED
    BY <2>c, <2>11, <2>12, <2>13, <2>14 DEF Planned, q
<1> QED
  BY <1>1, <1>2

(* A whole plan: its events fold, one after the other, to what it            *)
(* installs.                                                                 *)
LEMMA PlanVerdict ==
    ASSUME NEW s \in Snapshot, s.ok = TRUE, NEW actor, MayAsk(s, actor), NEW steps \in Seq(Actions)
    PROVE  VerdictOn(s, ExecutePlan(s, steps, actor))
<1>0. PICK n \in Nat : n = Len(steps)
  OBVIOUS
<1> DEFINE P == Planning(s, steps, actor)
           Bad == {k \in 0..n : ~Planned(s, P[k])}
<1>1. IsPlanning(P, s, steps, actor, n)
  BY <1>0, PlanningIsPlanning
<1> HIDE DEF P
<1>2. \A k \in 0..n : Planned(s, P[k])
  <2>1. SUFFICES ASSUME Bad # {} PROVE FALSE
    OBVIOUS
  <2>2. PICK k \in Bad : \A j \in Bad : k <= j
    <3>1. Bad \in SUBSET Nat
      OBVIOUS
    <3> HIDE DEF Bad
    <3> QED BY <2>1, <3>1, LeastNatural
  <2>3. CASE k = 0
    <3>1. PICK v : v = Verdict(<<>>, s, {})
      OBVIOUS
    <3>2. P[0].verdict = v /\ P[0].stopped = FALSE
      BY <1>1, <3>1 DEF IsPlanning, Unplanned
    <3>3. v.events = <<>> /\ v.next = s /\ v.notify = {} /\ VerdictOn(s, v)
      BY <3>1, VerdictFields, EmptyVerdict
    <3>4. Planned(s, P[0])
      BY <3>1, <3>2, <3>3 DEF Planned
    <3> QED BY <2>2, <2>3, <3>4
  <2>4. CASE k # 0
    <3>1. k \in 1..n /\ k - 1 \in 0..n /\ k - 1 \notin Bad
      BY <2>2, <2>4
    <3>2. P[k] = PlanStep(P[k - 1], steps[k], actor) /\ Planned(s, P[k - 1])
      BY <1>1, <3>1 DEF IsPlanning
    <3>3. steps[k] \in Actions
      BY <1>0, <3>1
    <3>4. Planned(s, P[k])
      BY <3>2, <3>3, PlanStepPlanned
    <3> QED BY <2>2, <3>4
  <2> QED BY <2>3, <2>4
<1>3. Planned(s, P[n])
  BY <1>2
<1> DEFINE v == P[n].verdict
<1>4. PICK more : more = Append(v.events, Noted)
  OBVIOUS
<1>5. PICK w : w = [v EXCEPT !.events = more]
  OBVIOUS
<1>6. ExecutePlan(s, steps, actor) = w
  BY <1>0, <1>4, <1>5 DEF ExecutePlan, P
<1>a. PICK log, r, ids : log = v.events /\ r = v.next /\ ids = v.notify
  OBVIOUS
<1>b. v = Verdict(log, r, ids)
  BY <1>3, <1>a DEF Planned
<1>c. w.events = more /\ w.next = r /\ w.notify = ids
  <2>1. PICK x : x = v
    OBVIOUS
  <2>2. x = Verdict(log, r, ids) /\ w = [x EXCEPT !.events = more]
    BY <1>5, <1>b, <2>1
  <2> QED
    BY <2>2 DEF Verdict
<1> HIDE DEF v
<1>7. VerdictOn(s, v) /\ v.next \in Snapshot /\ v.next.ok = TRUE
  BY <1>3 DEF Planned, v
<1>8. Fold1(v.next, Noted, r)
  BY <1>7, <1>a, ApplyNotedIs, WebEvents DEF Fold1
<1>9. w.notify \subseteq ConfirmationIds
  BY <1>7, <1>a, <1>c DEF VerdictOn
<1>10. VerdictOn(s, w)
  BY <1>4, <1>7, <1>8, <1>9, <1>a, <1>c, WebEventsAre, VerdictExtended
<1> QED
  BY <1>6, <1>10

(* Every verdict the judge can give.                                         *)
LEMMA VerdictsFold ==
    ASSUME snapshot \in Snapshot, snapshot.ok = TRUE, NEW v \in Verdicts
    PROVE  VerdictOn(snapshot, v)
<1> DEFINE s == snapshot
<1>1. CASE \E a \in Actions, actor \in {"human", "agent"} :
             v = ExecuteWithGates(s, a, actor) /\ MayAsk(s, actor)
  BY <1>1, ExecuteStep, OneStepIsVerdict
<1>2. CASE \E plan \in Plans, actor \in {"human", "agent"} :
             v = ExecutePlan(s, plan, actor) /\ MayAsk(s, actor)
  BY <1>2, PlanVerdict, ReplayAssumption
<1>3. CASE \E i \in ConfirmationIds, actor \in {"human", "agent"} :
             v = ApproveConfirmation(s, i, actor)
  BY <1>3, ApprovedSteps
<1>4. CASE \E i \in ConfirmationIds : v = RejectConfirmation(s, i, "human")
  BY <1>4, RefusedStep, OneStepIsVerdict
<1>5. \/ \E a \in Actions : v = ExecuteWithGates(s, a, "human")
      \/ FreeIds(s) # {} /\ \E a \in Actions : v = ExecuteWithGates(s, a, "agent")
      \/ \E plan \in Plans : v = ExecutePlan(s, plan, "human")
      \/ FreeIds(s) # {} /\ \E plan \in Plans : v = ExecutePlan(s, plan, "agent")
      \/ \E i \in ConfirmationIds, actor \in {"human", "agent"} : v = ApproveConfirmation(s, i, actor)
      \/ \E i \in ConfirmationIds : v = RejectConfirmation(s, i, "human")
  BY DEF Verdicts
<1>6. MayAsk(s, "human") /\ (FreeIds(s) # {} => MayAsk(s, "agent"))
  BY DEF MayAsk
<1> QED
  BY <1>1, <1>2, <1>3, <1>4, <1>5, <1>6

-----------------------------------------------------------------------------
(* The rows of the worker: the events of a delegation follow one another,    *)
(* each after the commit of the one before; a delivery follows its request.  *)
EventIs(r, d, k) == content[r] = DelegationEvent(d, k)

DelegationRows(d) ==
    /\ \A r \in Rows : "delegation" \in DOMAIN content[r] /\ content[r].delegation = d =>
          \E k \in 1..progress[d] : EventIs(r, d, k)
    /\ \A k \in 1..progress[d] : \E r \in Rows : EventIs(r, d, k)
    /\ \A q, r \in Rows : \A j, k \in 1..progress[d] :
          EventIs(q, d, j) /\ EventIs(r, d, k) =>
            /\ j <= k => q <= r
            /\ j < k => q < r /\ q \in committed

Notified(i, n) == \E q \in committed : q < n /\ Requests(content, q, i)

ContentInv ==
    /\ LogTyped
    /\ notifying \subseteq ConfirmationIds
    /\ deliveries \in [ConfirmationIds -> 0..MaxDeliveries]
    /\ progress \in [Delegations -> 0..(DelegationSteps + 2)]
    /\ \A r \in Rows : ~IsWeb(content, r) => r \in committed \cup open
    /\ \A r \in open : ~IsWeb(content, r)
    /\ \A d \in Delegations : DelegationRows(d)
    /\ \A i \in notifying : Notified(i, nextSeq)
    /\ \A r \in Rows, i \in ConfirmationIds : Delivers(content, r, i) => Notified(i, r)

(* The rows of the web: the process has folded each it has committed, or is  *)
(* about to read it; what it counted without folding is of other writers.    *)
WebFolded ==
    \A r \in WebRows(content, committed) :
        pc # "down" => \/ r \in folded \cup Pending
                       \/ pc \in {"idle", "counted", "rebuild"} /\ lastSeq < r

Counts(C) ==
    /\ C \subseteq committed /\ count = Cardinality(C)
    /\ Known \cup Pending \subseteq C
    /\ pc = "counted" => C \subseteq queried
    /\ \A r \in C : /\ r \in folded \cup Pending \/ ~IsWeb(content, r)
                    /\ r <= lastSeq \/ r \in Pending

WebInv ==
    /\ own \subseteq Rows /\ \A r \in own : IsWeb(content, r)
    /\ \A r \in gaps : ~IsWeb(content, r)
    /\ WebFolded
    /\ pc = "counted" => queried \subseteq committed /\ WebRows(content, committed) \subseteq queried
    /\ pc # "down" => \E C \in SUBSET Seqs : Counts(C)

(* The k-th row of the batch says what the k-th event of the verdict does.   *)
IsBatch(rows) ==
    /\ \A j, k \in 1..Cardinality(own) : j < k => rows[j] < rows[k]
    /\ \A r \in own : \E k \in 1..Cardinality(own) : rows[k] = r
    /\ Cardinality(own) <= Len(verdict.events)
    /\ \A k \in 1..Cardinality(own) : content[rows[k]] = verdict.events[k]

VerdictInv ==
    /\ pc \in {"appending", "appended", "collected"} =>
         /\ VerdictOn(snapshot, verdict)
         /\ \E rows \in [1..Cardinality(own) -> own] : IsBatch(rows)
         /\ op = "rejected" => verdict.events = <<Noted>>
         /\ \A r \in own, q \in folded : q < r
    /\ pc \in {"appended", "collected"} => Cardinality(own) = Len(verdict.events)
    /\ pc = "applied" => \A i \in verdict.notify : i \in ConfirmationIds /\ Notified(i, nextSeq)

(* A delegation the snapshot has completed has all of its steps in it.       *)
Complete(S) ==
    \A d \in Delegations : \A r \in S :
        Finishes(content, r, d) =>
          \A m \in 1..DelegationSteps : \E q \in S : StepsTo(content, q, d, m)

SnapshotInv == Represents(content, snapshot, folded) /\ Complete(folded)

IInv ==
    /\ OrderInv
    /\ ContentInv
    /\ WebInv
    /\ VerdictInv
    /\ SnapshotInv
    /\ AllFit(content, committed)

-----------------------------------------------------------------------------
(* A delegation's rows by their numbers.                                     *)
LEMMA DelegationEventIs ==
    ASSUME NEW d \in Delegations, NEW k \in 1..(DelegationSteps + 2),
           NEW e, e = DelegationEvent(d, k)
    PROVE  /\ e \in Events /\ e.delegation = d /\ "delegation" \in DOMAIN e
           /\ e.kind \in {"delegation-started", "delegation-step", "delegation-completed"}
           /\ e.kind = "delegation-started" <=> k = 1
           /\ e.kind = "delegation-step" <=> k # 1 /\ k <= DelegationSteps + 1
           /\ e.kind = "delegation-step" => e.step = k - 1
           /\ e.kind = "delegation-completed" <=> k = DelegationSteps + 2
           /\ e.kind = "delegation-completed" => e.steps = DelegationSteps
<1>1. CASE k = 1
  BY <1>1, WorkerEvents, EventFields, ReplayAssumption DEF DelegationEvent
<1>2. CASE k # 1 /\ k <= DelegationSteps + 1
  <2>1. PICK n \in Nat : n = k - 1
    BY <1>2, ReplayAssumption
  <2>2. e = Step(d, n)
    BY <1>2, <2>1 DEF DelegationEvent
  <2> QED
    BY <1>2, <2>1, <2>2, WorkerEvents, EventFields, ReplayAssumption
<1>3. CASE k = DelegationSteps + 2
  <2>1. e = Finished(d, DelegationSteps)
    BY <1>3, ReplayAssumption DEF DelegationEvent
  <2> QED
    BY <1>3, <2>1, WorkerEvents, EventFields, ReplayAssumption
<1> QED
  BY <1>1, <1>2, <1>3, ReplayAssumption

(* The worker inserts no more events than a delegation has.                  *)
LEMMA ProgressBound ==
    ASSUME ContentInv, NEW d \in Delegations
    PROVE  progress[d] \in 0..(DelegationSteps + 2)
BY DEF ContentInv

(* What a row says of a delegation, by its number.                           *)
LEMMA RowSays ==
    ASSUME ContentInv, NEW d \in Delegations, NEW r \in Rows
    PROVE  /\ Starts(content, r, d) <=> progress[d] >= 1 /\ EventIs(r, d, 1)
           /\ \A n : StepsTo(content, r, d, n) <=>
                n \in 1..DelegationSteps /\ n + 1 <= progress[d] /\ EventIs(r, d, n + 1)
           /\ Finishes(content, r, d) <=>
                progress[d] = DelegationSteps + 2 /\ EventIs(r, d, progress[d])
           /\ Finishes(content, r, d) => content[r].steps = DelegationSteps
<1>1. progress[d] \in 0..(DelegationSteps + 2) /\ DelegationSteps \in Nat
  BY ProgressBound, ReplayAssumption
<1>2. content[r] \in Events
  BY RowsTyped DEF ContentInv
<1> DEFINE about == Starts(content, r, d) \/ Finishes(content, r, d) \/ \E n : StepsTo(content, r, d, n)
<1>3. about => \E k \in 1..progress[d] : EventIs(r, d, k)
  <2>1. DelegationRows(d)
    BY DEF ContentInv
  <2> QED
    BY <1>2, <2>1, EventFields DEF DelegationRows, Starts, StepsTo, Finishes
<1>4. \A k \in 1..(DelegationSteps + 2) : EventIs(r, d, k) =>
        /\ Starts(content, r, d) <=> k = 1
        /\ \A n : StepsTo(content, r, d, n) <=> k # 1 /\ k <= DelegationSteps + 1 /\ n = k - 1
        /\ Finishes(content, r, d) <=> k = DelegationSteps + 2
        /\ Finishes(content, r, d) => content[r].steps = DelegationSteps
  <2> SUFFICES ASSUME NEW k \in 1..(DelegationSteps + 2), EventIs(r, d, k)
               PROVE  /\ Starts(content, r, d) <=> k = 1
                      /\ \A n : StepsTo(content, r, d, n) <=> k # 1 /\ k <= DelegationSteps + 1 /\ n = k - 1
                      /\ Finishes(content, r, d) <=> k = DelegationSteps + 2
                      /\ Finishes(content, r, d) => content[r].steps = DelegationSteps
    OBVIOUS
  <2>1. PICK e : e = content[r] /\ e = DelegationEvent(d, k)
    BY DEF EventIs
  <2> QED
    BY <2>1, DelegationEventIs DEF Starts, StepsTo, Finishes
<1>5. \A k \in 1..progress[d] : k \in 1..(DelegationSteps + 2)
  BY <1>1
<1>6. ASSUME progress[d] >= 1, EventIs(r, d, 1) PROVE Starts(content, r, d)
  BY <1>1, <1>4, <1>6
<1>7. ASSUME NEW n, n \in 1..DelegationSteps, n + 1 <= progress[d], EventIs(r, d, n + 1)
      PROVE  StepsTo(content, r, d, n)
  <2>1. PICK k \in 1..(DelegationSteps + 2) : k = n + 1
    BY <1>1, <1>7
  <2> QED
    BY <1>1, <1>4, <1>7, <2>1
<1>8. ASSUME progress[d] = DelegationSteps + 2, EventIs(r, d, progress[d])
      PROVE  Finishes(content, r, d)
  BY <1>1, <1>4, <1>8
<1>9. ASSUME about
      PROVE  /\ Starts(content, r, d) => progress[d] >= 1 /\ EventIs(r, d, 1)
             /\ \A n : StepsTo(content, r, d, n) =>
                  n \in 1..DelegationSteps /\ n + 1 <= progress[d] /\ EventIs(r, d, n + 1)
             /\ Finishes(content, r, d) =>
                  /\ progress[d] = DelegationSteps + 2 /\ EventIs(r, d, progress[d])
                  /\ content[r].steps = DelegationSteps
  <2>1. PICK k \in 1..progress[d] : EventIs(r, d, k)
    BY <1>3, <1>9
  <2>2. k \in 1..(DelegationSteps + 2)
    BY <1>5
  <2>3. /\ Starts(content, r, d) <=> k = 1
        /\ \A n : StepsTo(content, r, d, n) <=> k # 1 /\ k <= DelegationSteps + 1 /\ n = k - 1
        /\ Finishes(content, r, d) <=> k = DelegationSteps + 2
        /\ Finishes(content, r, d) => content[r].steps = DelegationSteps
    BY <1>4, <2>1, <2>2
  <2>4. \A n : n = k - 1 => n + 1 = k
    OBVIOUS
  <2> QED
    BY <1>1, <2>1, <2>2, <2>3, <2>4
<1> QED
  BY <1>6, <1>7, <1>8, <1>9

-----------------------------------------------------------------------------
(* The rows of the worker fit where they are in the log.                     *)

(* Rows that hold each event of a delegation together with those before it,  *)
(* and each delivery with the request: the worker's rows fold on them.       *)
Closed(T) ==
    /\ \A d \in Delegations : \A q, r \in Rows : \A j, k \in 1..progress[d] :
          EventIs(q, d, j) /\ EventIs(r, d, k) /\ j < k /\ r \in T => q \in T
    /\ \A r \in T, i \in ConfirmationIds :
          Delivers(content, r, i) => \E q \in T : q < r /\ Requests(content, q, i)

(* In a set of rows closed under what came first, the rows before the k-th   *)
(* of a delegation are those with smaller numbers.                           *)
LEMMA RowsBefore ==
    ASSUME ContentInv, NEW T \in SUBSET Rows, Closed(T), NEW r \in T, NEW d \in Delegations,
           NEW k \in 1..progress[d], EventIs(r, d, k), NEW j \in 1..progress[d]
    PROVE  (\E q \in Below(T, r) : EventIs(q, d, j)) <=> j < k
<1>0. DelegationRows(d) /\ r \in Rows /\ j \in Int /\ k \in Int
  BY DEF ContentInv
<1>1. ASSUME j < k PROVE \E q \in Below(T, r) : EventIs(q, d, j)
  <2>1. PICK q \in Rows : EventIs(q, d, j)
    BY <1>0 DEF DelegationRows
  <2>2. q < r /\ q \in T
    BY <1>0, <1>1, <2>1 DEF DelegationRows, Closed
  <2> QED
    BY <2>1, <2>2 DEF Below
<1>2. ASSUME NEW q \in Below(T, r), EventIs(q, d, j), ~(j < k) PROVE FALSE
  <2>1. q \in Rows /\ q < r /\ k <= j
    BY <1>0, <1>2 DEF Below
  <2>2. r <= q
    BY <1>0, <1>2, <2>1 DEF DelegationRows
  <2> QED
    BY <1>0, <2>1, <2>2 DEF Rows
<1> QED
  BY <1>1, <1>2

(* A row of a delegation fits after the ones numbered before it.             *)
LEMMA AfterFormerFits ==
    ASSUME ContentInv, NEW S \in SUBSET Rows, NEW r \in Rows, NEW d \in Delegations,
           \A k, j \in 1..progress[d] : EventIs(r, d, k) =>
             ((\E q \in S : EventIs(q, d, j)) <=> j < k)
    PROVE  DelegationFits(content, S, r, d)
<1>0. progress[d] \in 0..(DelegationSteps + 2) /\ DelegationSteps \in Nat
  BY ProgressBound, ReplayAssumption
<1>1. \A k, j \in 1..progress[d] : EventIs(r, d, k) =>
        ((\E q \in S : EventIs(q, d, j)) <=> j < k)
  OBVIOUS
<1>2. ASSUME Starts(content, r, d), NEW q \in S, Starts(content, q, d) PROVE FALSE
  <2>1. EventIs(r, d, 1) /\ EventIs(q, d, 1) /\ progress[d] >= 1
    BY <1>0, <1>2, RowSays
  <2>2. 1 \in 1..progress[d]
    BY <1>0, <2>1
  <2> QED
    BY <1>1, <2>1, <2>2
<1>3. ASSUME NEW n \in Nat, n <= DelegationSteps, NEW k \in 1..progress[d], EventIs(r, d, k),
             n + 1 < k, k <= n + 2
      PROVE  (\E q \in S : Starts(content, q, d)) /\ StepsAre(content, S, d, n)
  <2>1. 1 \in 1..progress[d] /\ 1 < k
    BY <1>0, <1>3
  <2>2. \E q \in S : Starts(content, q, d)
    <3>1. PICK q \in S : EventIs(q, d, 1)
      BY <1>1, <1>3, <2>1
    <3> QED
      BY <1>0, <2>1, <3>1, RowSays
  <2>3. ASSUME NEW m \in Nat, m \in 1..n PROVE \E q \in S : StepsTo(content, q, d, m)
    <3>1. PICK j \in 1..progress[d] : j = m + 1
      BY <1>0, <1>3, <2>3
    <3>2. PICK q \in S : EventIs(q, d, j)
      BY <1>1, <1>3, <2>3, <3>1
    <3>3. m \in 1..DelegationSteps /\ m + 1 <= progress[d] /\ EventIs(q, d, m + 1)
      BY <1>0, <1>3, <2>3, <3>1, <3>2
    <3> QED
      BY <1>0, <3>3, <3>2, RowSays
  <2>4. ASSUME NEW m \in Nat, NEW q \in S, StepsTo(content, q, d, m) PROVE m \in 1..n
    <3>1. m \in 1..DelegationSteps /\ m + 1 <= progress[d] /\ EventIs(q, d, m + 1)
      BY <1>0, <2>4, RowSays
    <3>2. PICK j \in 1..progress[d] : j = m + 1
      BY <1>0, <3>1
    <3>3. j < k
      BY <1>1, <1>3, <3>1, <3>2
    <3> QED
      BY <1>3, <3>1, <3>2, <3>3
  <2> QED
    BY <2>2, <2>3, <2>4 DEF StepsAre
<1>4. ASSUME NEW m \in Nat, StepsTo(content, r, d, m)
      PROVE  /\ \E q \in S : Starts(content, q, d)
             /\ StepsAre(content, S, d, m - 1) /\ m # 0
  <2>1. m \in 1..DelegationSteps /\ m + 1 <= progress[d] /\ EventIs(r, d, m + 1)
    BY <1>0, <1>4, RowSays
  <2>2. PICK n \in Nat : n = m - 1
    BY <2>1
  <2>3. PICK k \in 1..progress[d] : k = m + 1
    BY <1>0, <2>1
  <2>4. n <= DelegationSteps /\ n + 1 < k /\ k <= n + 2 /\ EventIs(r, d, k) /\ m # 0
    BY <2>1, <2>2, <2>3, <1>0
  <2> QED
    BY <1>3, <2>2, <2>4
<1>5. ASSUME Finishes(content, r, d)
      PROVE  /\ \E q \in S : Starts(content, q, d)
             /\ ~\E q \in S : Finishes(content, q, d)
             /\ StepsAre(content, S, d, content[r].steps)
  <2>1. /\ progress[d] = DelegationSteps + 2 /\ EventIs(r, d, progress[d])
        /\ content[r].steps = DelegationSteps
    BY <1>0, <1>5, RowSays
  <2>2. PICK k \in 1..progress[d] : k = progress[d]
    BY <1>0, <2>1
  <2>3. (\E q \in S : Starts(content, q, d)) /\ StepsAre(content, S, d, DelegationSteps)
    <3>1. DelegationSteps + 1 < k /\ k <= DelegationSteps + 2 /\ EventIs(r, d, k)
      BY <1>0, <2>1, <2>2
    <3> QED
      BY <1>0, <1>3, <3>1
  <2>4. ASSUME NEW q \in S, Finishes(content, q, d) PROVE FALSE
    <3>1. EventIs(q, d, k)
      BY <1>0, <2>2, <2>4, RowSays
    <3> QED
      BY <1>1, <2>1, <2>2, <3>1
  <2> QED
    BY <2>1, <2>3, <2>4
<1> QED
  BY <1>2, <1>4, <1>5 DEF DelegationFits

(* So each row of the worker fits there.                                     *)
LEMMA DelegationsFit ==
    ASSUME ContentInv, NEW T \in SUBSET Rows, Closed(T), NEW r \in T, NEW d \in Delegations
    PROVE  DelegationFits(content, Below(T, r), r, d)
<1>1. PICK S \in SUBSET Rows : S = Below(T, r)
  BY DEF Below
<1>2. \A k, j \in 1..progress[d] : EventIs(r, d, k) =>
        ((\E q \in S : EventIs(q, d, j)) <=> j < k)
  BY <1>1, RowsBefore
<1> QED
  BY <1>1, <1>2, AfterFormerFits

(* So does each row of the worker, deliveries too.                           *)
LEMMA WorkersFit ==
    ASSUME ContentInv, NEW T \in SUBSET Rows, Closed(T), NEW r \in T
    PROVE  WorkerFits(content, Below(T, r), r)
<1>1. DeliveryFits(content, Below(T, r), r)
  BY DEF DeliveryFits, Below, Closed
<1> QED
  BY <1>1, DelegationsFit DEF WorkerFits

(* The committed rows are such a set: the next event follows the commit of   *)
(* the one before, a delivery the commit of its request.                     *)
LEMMA CommittedClosed ==
    ASSUME ContentInv, committed \subseteq Rows
    PROVE  Closed(committed) /\ Complete(committed)
<1>1. \A d \in Delegations : DelegationRows(d)
  BY DEF ContentInv
<1>2. Closed(committed)
  <2>1. \A r \in committed, i \in ConfirmationIds :
          Delivers(content, r, i) => \E q \in committed : q < r /\ Requests(content, q, i)
    BY DEF ContentInv, Notified
  <2>2. \A d \in Delegations : \A q, r \in Rows : \A j, k \in 1..progress[d] :
          EventIs(q, d, j) /\ EventIs(r, d, k) /\ j < k => q \in committed
    BY <1>1 DEF DelegationRows
  <2> QED
    BY <2>1, <2>2 DEF Closed
<1>3. ASSUME NEW d \in Delegations, NEW r \in committed, Finishes(content, r, d),
             NEW m \in 1..DelegationSteps
      PROVE  \E q \in committed : StepsTo(content, q, d, m)
  <2>1. progress[d] = DelegationSteps + 2 /\ EventIs(r, d, progress[d]) /\ r \in Rows
    BY <1>3, RowSays
  <2>2. PICK j, k \in 1..progress[d] : j = m + 1 /\ k = progress[d]
    BY <2>1, ReplayAssumption
  <2>3. PICK q \in Rows : EventIs(q, d, j)
    BY <1>1 DEF DelegationRows
  <2>4. j < k /\ EventIs(r, d, k)
    BY <2>1, <2>2, ReplayAssumption
  <2>5. q \in committed
    BY <1>1, <2>1, <2>3, <2>4 DEF DelegationRows
  <2>6. m + 1 <= progress[d] /\ EventIs(q, d, m + 1)
    BY <2>1, <2>2, <2>3, ReplayAssumption
  <2> QED
    BY <2>5, <2>6, RowSays
<1> QED
  BY <1>2, <1>3 DEF Complete

-----------------------------------------------------------------------------
(* What a running process has folded.                                        *)

(* A fold that does not throw has met each row where it fits.                *)
LEMMA FoldFits ==
    ASSUME LogTyped, NEW S \in SUBSET Rows, NEW T \in SUBSET Rows,
           NEW s, Represents(content, s, S),
           \A r \in T, q \in S : Executes(content, r) /\ Executes(content, q) => q <= r,
           FoldRows(T, s).ok = TRUE
    PROVE  \A r \in T : \E R \in SUBSET (S \cup T) : Fits(content, R, r)
<1> DEFINE n == nextSeq - 1
           f == Folding(T, s)
           Good(k) == /\ f[k] \in Snapshot
                      /\ f[k].ok = TRUE =>
                           /\ Represents(content, f[k], S \cup Upto(T, k))
                           /\ \A r \in Upto(T, k) : \E R \in SUBSET (S \cup T) : Fits(content, R, r)
           Bad == {k \in 0..n : ~Good(k)}
<1>1. n \in Nat /\ IsFolding(f, T, s, n) /\ T \in SUBSET Nat /\ S \in SUBSET Nat
  BY FoldingIsFold DEF LogTyped, Rows
<1>2. \A k \in 0..n : Good(k)
  <2>1. SUFFICES ASSUME Bad # {} PROVE FALSE
    OBVIOUS
  <2>2. PICK k \in Bad : \A j \in Bad : k <= j
    <3>1. Bad \in SUBSET Nat
      BY <1>1
    <3> HIDE DEF Bad
    <3> QED BY <2>1, <3>1, LeastNatural
  <2>3. CASE k = 0
    <3>1. f[0] = s
      BY <1>1 DEF IsFolding
    <3>2. S \cup Upto(T, 0) = S /\ Upto(T, 0) = {}
      BY UptoEnds
    <3>3. Good(0)
      BY <3>1, <3>2 DEF Represents
    <3> QED BY <2>2, <2>3, <3>3
  <2>4. CASE k # 0
    <3>1. k \in 1..n /\ k \in Nat /\ k - 1 \in 0..n /\ Good(k - 1)
      <4> HIDE DEF Good
      <4> QED BY <1>1, <2>2, <2>4
    <3>2. Good(k - 1)
      BY <3>1
    <3>3. f[k] = IF k \in T THEN Apply(f[k - 1], content[k]) ELSE f[k - 1]
      BY <1>1, <3>1 DEF IsFolding
    <3> DEFINE t == f[k - 1]
               U == Upto(T, k - 1)
               R == S \cup U
    <3>4. /\ t \in Snapshot
          /\ t.ok = TRUE => /\ Represents(content, t, R)
                            /\ \A r \in U : \E Q \in SUBSET (S \cup T) : Fits(content, Q, r)
      BY <3>2
    <3>5. R \in SUBSET Nat /\ R \in SUBSET (S \cup T)
      BY <1>1 DEF Upto
    <3> HIDE DEF f, t
    <3>6. CASE k \notin T
      <4>1. f[k] = t /\ Upto(T, k) = U
        BY <1>1, <2>4, <3>1, <3>3, <3>6, UptoNext DEF t
      <4>2. Good(k)
        BY <3>4, <4>1
      <4> QED BY <2>2, <4>2
    <3>7. CASE k \in T
      <4>1. f[k] = Apply(t, content[k]) /\ Upto(T, k) = U \cup {k}
        BY <1>1, <2>4, <3>1, <3>3, <3>7, UptoNext DEF t
      <4>2. content[k] \in Events
        BY <3>7, RowsTyped
      <4>3. f[k] \in Snapshot
        BY <3>4, <4>1, <4>2, ApplyTyped
      <4>4. CASE t.ok # TRUE
        BY <2>2, <3>4, <4>1, <4>3, <4>4, ApplyThrown
      <4>5. CASE t.ok = TRUE
        <5>1. Executes(content, k) => \A q \in R : Executes(content, q) => q <= k
          <6>1. \A q \in S : Executes(content, k) /\ Executes(content, q) => q <= k
            BY <3>7
          <6>2. \A q \in U : q <= k
            BY <1>1, <3>1 DEF Upto
          <6> QED
            BY <6>1, <6>2
        <5> HIDE DEF R
        <5>2. f[k].ok = TRUE => Represents(content, f[k], R \cup {k}) /\ Fits(content, R, k)
          BY <3>1, <3>4, <3>5, <4>1, <4>2, <4>5, <5>1, RowFolds
        <5>3. R \cup {k} = S \cup (U \cup {k})
          BY DEF R
        <5> HIDE DEF U
        <5>4. Good(k)
          BY <3>4, <3>5, <4>1, <4>3, <4>5, <5>2, <5>3
        <5> QED BY <2>2, <5>4
      <4> QED BY <4>4, <4>5
    <3> QED BY <3>6, <3>7
  <2> QED BY <2>3, <2>4
<1>3. Good(n)
  <2> HIDE DEF Good
  <2> QED BY <1>1, <1>2
<1>4. Upto(T, n) = T
  BY UptoEnds
<1>5. FoldRows(T, s) = f[n]
  BY DEF FoldRows
<1> HIDE DEF f, n
<1> QED
  BY <1>3, <1>4, <1>5

(* A fold that does not throw folds no completion before its steps.          *)
LEMMA FoldComplete ==
    ASSUME ContentInv, NEW S \in SUBSET Rows, NEW T \in SUBSET Rows,
           NEW s, Represents(content, s, S), Complete(S),
           \A r \in T, q \in S : Executes(content, r) /\ Executes(content, q) => q <= r,
           FoldRows(T, s).ok = TRUE
    PROVE  /\ Represents(content, FoldRows(T, s), S \cup T)
           /\ Complete(S \cup T)
<1>1. LogTyped
  BY DEF ContentInv
<1>2. Represents(content, FoldRows(T, s), S \cup T)
  BY <1>1, FoldRepresents
<1>3. \A r \in T : \E R \in SUBSET (S \cup T) : Fits(content, R, r)
  BY <1>1, FoldFits
<1>4. ASSUME NEW d \in Delegations, NEW r \in S \cup T, Finishes(content, r, d),
             NEW m \in 1..DelegationSteps
      PROVE  \E q \in S \cup T : StepsTo(content, q, d, m)
  <2>1. CASE r \in S
    BY <1>4, <2>1 DEF Complete
  <2>2. CASE r \in T
    <3>1. PICK R \in SUBSET (S \cup T) : Fits(content, R, r)
      BY <1>3, <2>2
    <3>2. StepsAre(content, R, d, DelegationSteps)
      <4>1. content[r].steps = DelegationSteps
        BY <1>4, <2>2, RowSays
      <4> QED
        BY <1>4, <3>1, <4>1 DEF Fits, WorkerFits, DelegationFits
    <3> QED
      BY <3>2 DEF StepsAre
  <2> QED
    BY <2>1, <2>2
<1> QED
  BY <1>2, <1>4 DEF Complete

(* What a running process has folded fits row by row, as what is committed.  *)
LEMMA FoldedFits ==
    ASSUME ContentInv, NEW S \in SUBSET committed, committed \in SUBSET Rows,
           NEW n \in Nat, \A r \in S : r <= n, WebRows(content, {r \in committed : r <= n}) \subseteq S,
           AllFit(content, committed), Complete(S), NEW s, Represents(content, s, S)
    PROVE  AllFit(content, S)
<1>0. \A d \in Delegations : DelegationRows(d) /\ progress[d] \in 0..(DelegationSteps + 2)
  BY ProgressBound DEF ContentInv
<1>1. ASSUME NEW d \in Delegations, NEW q \in Rows, NEW r \in S,
             NEW j \in 1..progress[d], NEW k \in 1..progress[d],
             EventIs(q, d, j), EventIs(r, d, k), j < k
      PROVE  q \in S
  <2>0. r \in Rows /\ DelegationSteps \in Nat /\ progress[d] \in 0..(DelegationSteps + 2)
    BY <1>0, ReplayAssumption
  <2>1. DelegationOf(content, s.delegations[d], d, S)
    BY DEF Represents
  <2>2. s.delegations[d].status # "none" /\ s.delegations[d].steps \in Nat
        /\ (j # 1 => \E p \in S : StepsTo(content, p, d, j - 1))
    <3>a. s.delegations[d].steps \in Nat
      BY DEF Represents, Snapshot, Delegation
    <3>1. CASE k = DelegationSteps + 2
      <4>1. Finishes(content, r, d)
        BY <1>1, <2>0, <3>1, RowSays
      <4>2. j # 1 => j - 1 \in 1..DelegationSteps
        BY <1>1, <2>0, <3>1
      <4> QED
        BY <2>1, <3>a, <4>1, <4>2 DEF DelegationOf, Complete
    <3>2. CASE k # DelegationSteps + 2
      <4>1. PICK m \in Nat : m = k - 1 /\ m \in 1..DelegationSteps
        BY <1>1, <2>0, <3>2
      <4>2. m + 1 <= progress[d] /\ EventIs(r, d, m + 1)
        BY <1>1, <2>0, <4>1
      <4>3. StepsTo(content, r, d, m)
        BY <2>0, <4>1, <4>2, RowSays
      <4>4. m \in 1..s.delegations[d].steps
        BY <2>1, <4>3 DEF DelegationOf
      <4>5. s.delegations[d].status # "none"
        BY <2>1, <3>a, <4>1, <4>4 DEF DelegationOf
      <4>6. j # 1 => j - 1 \in Nat /\ j - 1 \in 1..s.delegations[d].steps
        BY <1>1, <3>a, <4>1, <4>4
      <4> QED
        BY <2>1, <3>a, <4>5, <4>6 DEF DelegationOf
    <3> QED
      BY <3>1, <3>2
  <2>3. PICK p \in S : EventIs(p, d, j)
    <3>1. CASE j = 1
      <4>1. PICK p \in S : Starts(content, p, d)
        BY <2>1, <2>2 DEF DelegationOf
      <4> QED
        BY <3>1, <4>1, RowSays
    <3>2. CASE j # 1
      <4>1. PICK p \in S : StepsTo(content, p, d, j - 1)
        BY <2>2, <3>2
      <4>2. EventIs(p, d, (j - 1) + 1) /\ (j - 1) + 1 = j
        BY <4>1, RowSays
      <4> QED
        BY <4>2
    <3> QED
      BY <3>1, <3>2
  <2>4. q <= p /\ p <= q /\ p \in Rows
    BY <1>0, <1>1, <2>3 DEF DelegationRows
  <2> QED
    BY <2>4 DEF Rows
<1>2. ASSUME NEW r \in S, NEW i \in ConfirmationIds, Delivers(content, r, i)
      PROVE  \E q \in S : q < r /\ Requests(content, q, i)
  <2>1. PICK q \in committed : q < r /\ Requests(content, q, i)
    BY <1>2 DEF ContentInv, Notified
  <2>2. q <= n /\ q \in {p \in committed : p <= n}
    BY <2>1 DEF Rows
  <2> QED
    BY <2>1, <2>2, WebRowsSay
<1>3. Closed(S)
  BY <1>1, <1>2 DEF Closed
<1>4. ASSUME NEW r \in S PROVE Fits(content, Below(S, r), r)
  <2>1. WorkerFits(content, Below(S, r), r)
    BY <1>3, WorkersFit
  <2>2. WebFits(content, Below(committed, r), r)
    BY DEF AllFit, Fits
  <2>3. WebRows(content, Below(committed, r)) = WebRows(content, Below(S, r))
    <3>1. \A q \in committed : q < r => q <= n
      BY DEF Rows
    <3>2. \A q : q \in committed /\ q < r /\ IsWeb(content, q) <=> q \in S /\ q < r /\ IsWeb(content, q)
      BY <3>1 DEF WebRows
    <3> QED
      BY <3>2 DEF WebRows, Below
  <2> QED
    BY <2>1, <2>2, <2>3, WebFitsByWeb DEF Fits
<1> QED
  BY <1>4 DEF AllFit

-----------------------------------------------------------------------------
(* Batches of the process, and commits.                                      *)

Firsts(rows, k) == {rows[j] : j \in 1..k}

(* The first rows of a batch.                                                *)
LEMMA FirstsGrow ==
    ASSUME NEW rows, NEW k \in Nat, k # 0
    PROVE  Firsts(rows, 0) = {} /\ Firsts(rows, k) = Firsts(rows, k - 1) \cup {rows[k]}
<1>1. 1..0 = {} /\ 1..k = (1..(k - 1)) \cup {k}
  OBVIOUS
<1> QED
  BY <1>1 DEF Firsts

(* The rows of a batch fold, one after the other, on what was folded before. *)
LEMMA BatchFolds ==
    ASSUME LogTyped, own \in SUBSET Rows, folded \in SUBSET Rows,
           \A r \in own, q \in folded : q < r,
           Represents(content, snapshot, folded), VerdictOn(snapshot, verdict),
           Cardinality(own) \in Nat,
           NEW rows \in [1..Cardinality(own) -> own], IsBatch(rows)
    PROVE  /\ \A r \in own : Fits(content, folded \cup Below(own, r), r)
           /\ Cardinality(own) = Len(verdict.events) =>
                Represents(content, verdict.next, folded \cup own)
<1>0. PICK n \in Nat : n = Cardinality(own)
  OBVIOUS
<1>1. PICK f : IsChain(f, snapshot, verdict.events) /\ f[Len(verdict.events)] = verdict.next
  BY DEF VerdictOn
<1>2. /\ \A j, k \in 1..n : j < k => rows[j] < rows[k]
      /\ \A r \in own : \E k \in 1..n : rows[k] = r
      /\ n <= Len(verdict.events) /\ Len(verdict.events) \in Nat
      /\ \A k \in 1..n : rows[k] \in own /\ content[rows[k]] = verdict.events[k]
  BY <1>0 DEF IsBatch, VerdictOn
<1> DEFINE Good(k) == Represents(content, f[k], folded \cup Firsts(rows, k))
           Fit(k) == Fits(content, folded \cup Firsts(rows, k - 1), rows[k])
           Bad == {k \in 0..n : ~Good(k)}
<1>3. Good(0)
  <2>1. folded \cup Firsts(rows, 0) = folded
    BY DEF Firsts
  <2> QED
    BY <1>1, <2>1 DEF IsChain
<1>4. ASSUME NEW k \in 1..n, Good(k - 1) PROVE Good(k) /\ Fit(k)
  <2>1. PICK s, t, r, R : s = f[k - 1] /\ t = f[k] /\ r = rows[k] /\ R = folded \cup Firsts(rows, k - 1)
    OBVIOUS
  <2>2. r \in own /\ r \in Nat /\ content[r] = verdict.events[k] /\ content[r] \in Events
    BY <1>2, <2>1, RowsTyped
  <2>3. t = Apply(s, content[r]) /\ t.ok = TRUE
    BY <1>1, <1>2, <2>1, <2>2 DEF IsChain, Fold1
  <2>4. R \in SUBSET Nat /\ \A q \in R : q <= r
    <3>1. \A q \in folded : q \in Nat /\ q <= r
      BY <2>2 DEF Rows
    <3>2. \A j \in 1..(k - 1) : rows[j] \in Nat /\ rows[j] <= r
      <4> SUFFICES ASSUME NEW j \in 1..(k - 1) PROVE rows[j] \in Nat /\ rows[j] <= r
        OBVIOUS
      <4>1. j \in 1..n /\ j < k
        OBVIOUS
      <4>2. rows[j] \in Rows /\ rows[j] < r
        BY <1>2, <2>1, <4>1
      <4> QED
        BY <2>2, <4>2 DEF Rows
    <3> QED
      BY <2>1, <3>1, <3>2 DEF Firsts
  <2>5. Represents(content, s, R)
    BY <1>4, <2>1
  <2>6. Fits(content, R, r) /\ Represents(content, t, R \cup {r})
    BY <2>2, <2>3, <2>4, <2>5, RowFolds
  <2>7. folded \cup Firsts(rows, k) = R \cup {r}
    BY <2>1, FirstsGrow
  <2> QED
    BY <2>1, <2>6, <2>7
<1>5. \A k \in 0..n : Good(k)
  <2>1. SUFFICES ASSUME Bad # {} PROVE FALSE
    OBVIOUS
  <2>2. PICK k \in Bad : \A j \in Bad : k <= j
    <3>1. Bad \in SUBSET Nat
      OBVIOUS
    <3> HIDE DEF Bad
    <3> QED BY <2>1, <3>1, LeastNatural
  <2>3. k \in 0..n /\ ~Good(k)
    OBVIOUS
  <2>4. k # 0
    BY <1>3, <2>3
  <2>5. k \in 1..n /\ k - 1 \in 0..n /\ Good(k - 1)
    <3> HIDE DEF Good
    <3> QED BY <2>2, <2>3, <2>4
  <2> QED
    BY <1>4, <2>3, <2>5
<1>6. \A k \in 1..n : k - 1 \in 0..n
  OBVIOUS
<1>7. \A k \in 1..n : Fit(k)
  <2> HIDE DEF Good, Fit
  <2> QED BY <1>4, <1>5, <1>6
<1>8. ASSUME NEW r \in own PROVE Fits(content, folded \cup Below(own, r), r)
  <2>1. PICK k \in 1..n : rows[k] = r
    BY <1>2
  <2>2. Below(own, r) = Firsts(rows, k - 1)
    <3>1. ASSUME NEW q \in own, q < r PROVE \E j \in 1..(k - 1) : rows[j] = q
      <4>1. PICK j \in 1..n : rows[j] = q
        BY <1>2
      <4>2. q \in Nat /\ r \in Nat
        BY DEF Rows
      <4>3. j < k
        BY <1>2, <2>1, <3>1, <4>1, <4>2
      <4> QED
        BY <4>1, <4>3
    <3>2. ASSUME NEW j \in 1..(k - 1) PROVE rows[j] \in own /\ rows[j] < r
      BY <1>2, <2>1
    <3> QED
      BY <3>1, <3>2 DEF Below, Firsts
  <2> QED
    BY <1>7, <2>1, <2>2
<1>9. ASSUME n = Len(verdict.events) PROVE Represents(content, verdict.next, folded \cup own)
  <2>1. Firsts(rows, n) = own
    BY <1>2 DEF Firsts
  <2>2. n \in 0..n
    OBVIOUS
  <2> QED
    BY <1>1, <1>5, <1>9, <2>1, <2>2
<1> QED
  BY <1>0, <1>8, <1>9

(* Committing the batch, whatever is visible by then.                        *)
LEMMA BatchFits ==
    ASSUME LogTyped, own \in SUBSET Rows, folded \in SUBSET committed, committed \in SUBSET Rows,
           \A r \in own, q \in folded : q < r,
           WebRows(content, committed) \subseteq folded,
           \A r \in own : IsWeb(content, r) /\ Fits(content, folded \cup Below(own, r), r),
           AllFit(content, committed),
           \A r \in committed : ~IsWeb(content, r) =>
              WorkerFits(content, Below(committed \cup own, r), r)
    PROVE  AllFit(content, committed \cup own)
<1>1. ASSUME NEW r \in committed \cup own, IsWeb(content, r)
      PROVE  Fits(content, Below(committed \cup own, r), r)
  <2>1. WorkerFits(content, Below(committed \cup own, r), r)
    BY <1>1, OtherFamilyFits
  <2>2. CASE r \in own
    <3>1. WebFits(content, folded \cup Below(own, r), r)
      BY <2>2 DEF Fits
    <3>2. WebRows(content, folded \cup Below(own, r)) = WebRows(content, Below(committed \cup own, r))
      BY <2>2 DEF WebRows, Below
    <3> QED
      BY <2>1, <3>1, <3>2, WebFitsByWeb DEF Fits
  <2>3. CASE r \in committed
    <3>1. WebFits(content, Below(committed, r), r)
      BY <2>3 DEF AllFit, Fits
    <3>2. r \in folded
      BY <1>1, <2>3 DEF WebRows
    <3>3. Below(committed \cup own, r) = Below(committed, r)
      <4>1. \A q \in own : ~(q < r)
        BY <3>2 DEF Rows
      <4> QED
        BY <4>1 DEF Below
    <3> QED
      BY <2>1, <3>1, <3>3 DEF Fits
  <2> QED
    BY <2>2, <2>3
<1>2. ASSUME NEW r \in committed \cup own, ~IsWeb(content, r)
      PROVE  Fits(content, Below(committed \cup own, r), r)
  BY <1>2, OtherFamilyFits DEF Fits
<1> QED
  BY <1>1, <1>2 DEF AllFit

(* Committing a row of the worker.                                           *)
LEMMA ForeignFits ==
    ASSUME NEW r \in Rows, ~IsWeb(content, r), AllFit(content, committed),
           \A q \in committed \cup {r} : ~IsWeb(content, q) =>
              WorkerFits(content, Below(committed \cup {r}, q), q)
    PROVE  AllFit(content, committed \cup {r})
<1>1. ASSUME NEW q \in committed \cup {r}, IsWeb(content, q)
      PROVE  Fits(content, Below(committed \cup {r}, q), q)
  <2>1. q \in committed /\ WorkerFits(content, Below(committed \cup {r}, q), q)
    BY <1>1, OtherFamilyFits
  <2>2. WebFits(content, Below(committed, q), q)
    BY <2>1 DEF AllFit, Fits
  <2>3. WebRows(content, Below(committed, q)) = WebRows(content, Below(committed \cup {r}, q))
    BY DEF WebRows, Below
  <2> QED
    BY <2>1, <2>2, <2>3, WebFitsByWeb DEF Fits
<1>2. ASSUME NEW q \in committed \cup {r}, ~IsWeb(content, q)
      PROVE  Fits(content, Below(committed \cup {r}, q), q)
  BY <1>2, OtherFamilyFits DEF Fits
<1> QED
  BY <1>1, <1>2 DEF AllFit

-----------------------------------------------------------------------------
(* The steps of the process, one lemma each; first what they share.          *)

(* A step of the replay is a step of the log.                                *)
LEMMA StepOfLog ==
    ASSUME ReplayNext
    PROVE  Next
<1> USE DEF Next, Steady, Foreign, Web, Fault, LateFault, Refresh, Decide, AppendBatch, Settle
<1>1. CASE \/ \E d \in Delegations : InsertDelegationEvent(d)
           \/ \E i \in ConfirmationIds : InsertDelivery(i)
           \/ CommitForeign
  BY <1>1 DEF InsertDelegationEvent, InsertDelivery, CommitForeign
<1>2. CASE StartRequest \/ RefreshSnapshot \/ ThrowOnFold
  BY <1>2 DEF StartRequest, RefreshSnapshot, FoldOnRefresh, ThrowOnFold
<1>3. CASE JudgeRequest \/ JudgeNothing
  BY <1>3 DEF JudgeRequest, JudgeNothing
<1>4. CASE InsertOwn \/ CommitOwn \/ CommitUnacknowledged \/ AbortOwn \/ CollectGapRows
  BY <1>4 DEF InsertOwn, CommitOwn, CommitUnacknowledged, AbortOwn, CollectGapRows
<1>5. CASE FinishRejected \/ InstallVerdict \/ FinishAccepted \/ CrashProcess \/ BootProcess
  BY <1>5 DEF FinishRejected, InstallVerdict, FinishAccepted, CrashProcess, BootProcess
<1> QED
  BY <1>1, <1>2, <1>3, <1>4, <1>5 DEF ReplayNext

(* What the invariant says of the sets of rows.                              *)
LEMMA InvFacts ==
    ASSUME IInv
    PROVE  /\ TypeOK /\ LogTyped /\ nextSeq \in Nat \ {0} /\ lastSeq \in Nat /\ count \in Nat
           /\ Rows \in SUBSET Seqs /\ Rows \in SUBSET Nat
           /\ committed \in SUBSET Rows /\ open \in SUBSET Rows /\ own \in SUBSET Rows
           /\ folded \in SUBSET committed /\ gaps \in SUBSET committed
           /\ pc # "down" => (\A r \in Known : r <= lastSeq) /\ lastSeq < nextSeq
           /\ snapshot \in Snapshot /\ snapshot.ok = TRUE
<1>1. TypeOK /\ LogTyped /\ OrderInv /\ nextSeq \in 1..(MaxSeq + 1)
  BY DEF IInv, OrderInv, ContentInv, TypeOK
<1>2. Rows \in SUBSET Seqs /\ Rows \in SUBSET Nat /\ nextSeq \in Nat \ {0}
  BY <1>1, BoundsAssumption DEF Rows, Seqs
<1>3. \A r \in Seqs : r < nextSeq => r \in Rows
  BY <1>1, BoundsAssumption DEF Rows, Seqs
<1>4. committed \in SUBSET Rows /\ open \in SUBSET Rows
  BY <1>1, <1>3 DEF OrderInv, NumbersTaken, TypeOK
<1>5. folded \in SUBSET committed /\ gaps \in SUBSET committed
  BY <1>1 DEF OrderInv, KnownVisible, Known
<1>6. own \in SUBSET Rows
  BY DEF IInv, WebInv
<1>7. pc # "down" => (\A r \in Known : r <= lastSeq) /\ lastSeq < nextSeq
  BY <1>1 DEF OrderInv, KnownBelowWatermark
<1>8. lastSeq \in Nat /\ count \in Nat
  BY <1>1, BoundsAssumption DEF TypeOK
<1>9. snapshot \in Snapshot /\ snapshot.ok = TRUE
  BY DEF IInv, SnapshotInv, Represents
<1> QED
  BY <1>1, <1>2, <1>4, <1>5, <1>6, <1>7, <1>8, <1>9

(* A step that leaves the log alone keeps what the invariant says of it.     *)
LEMMA LogKept ==
    ASSUME IInv, UNCHANGED <<nextSeq, committed, open, content, deliveries, progress>>,
           \A i \in notifying' : i \in ConfirmationIds /\ Notified(i, nextSeq)
    PROVE  ContentInv' /\ AllFit(content, committed)'
<1>1. AllFit(content, committed)'
  BY DEF IInv
<1>2. LogTyped' /\ Rows' = Rows
  BY DEF IInv, ContentInv, LogTyped, Rows
<1>3. \A d \in Delegations : DelegationRows(d)'
  BY <1>2 DEF IInv, ContentInv, DelegationRows, EventIs
<1>4. \A r \in Rows' : ~IsWeb(content, r)' => r \in (committed \cup open)'
  BY <1>2 DEF IInv, ContentInv, IsWeb
<1>5. \A i \in notifying' : Notified(i, nextSeq)'
  BY DEF Notified
<1>6. \A r \in Rows', i \in ConfirmationIds : Delivers(content, r, i)' => Notified(i, r)'
  BY <1>2 DEF IInv, ContentInv, Delivers, Notified
<1>7. \A r \in open' : ~IsWeb(content, r)'
  BY DEF IInv, ContentInv
<1>8. deliveries' \in [ConfirmationIds -> 0..MaxDeliveries]
      /\ progress' \in [Delegations -> 0..(DelegationSteps + 2)]
      /\ notifying' \subseteq ConfirmationIds
  BY DEF IInv, ContentInv
<1> QED
  BY <1>1, <1>2, <1>3, <1>4, <1>5, <1>6, <1>7, <1>8 DEF ContentInv

(* The worker's rows fit where they are in the log.                          *)
LEMMA CommittedFit ==
    ContentInv /\ committed \subseteq Rows =>
      \A r \in committed : WorkerFits(content, Below(committed, r), r)
BY CommittedClosed, WorkersFit

(* The same after a step.                                                    *)
LEMMA CommittedFitNext ==
    ASSUME ContentInv', committed' \subseteq Rows'
    PROVE  \A r \in committed' : WorkerFits(content', Below(committed', r), r)
<1>1. (ContentInv /\ committed \subseteq Rows)' =>
        (\A r \in committed : WorkerFits(content, Below(committed, r), r))'
  BY CommittedFit, PTL
<1> QED
  BY <1>1

(* What a step of the process must keep, the log as it is.                   *)
ProcessInv == WebInv /\ VerdictInv /\ SnapshotInv

(* What a step leaves alone.                                                 *)
LEMMA SnapshotKept ==
    ASSUME IInv, UNCHANGED <<content, snapshot, folded>>
    PROVE  SnapshotInv'
BY DEF IInv, SnapshotInv, Complete, Finishes, StepsTo

(* Nothing is asked of a verdict when nothing is being appended.             *)
LEMMA Quiet ==
    ASSUME pc' \notin {"appending", "appended", "collected", "applied"}
    PROVE  VerdictInv'
BY DEF VerdictInv

(* An operation that ends without having committed anything.                 *)
LEMMA Returned ==
    ASSUME IInv, pc \notin {"down", "appended", "collected"}, pc' = "idle", own' = {},
           gaps' \subseteq gaps, UNCHANGED <<content, snapshot, folded, committed, count, lastSeq>>
    PROVE  ProcessInv'
<1>1. PICK C \in SUBSET Seqs : Counts(C)
  BY DEF IInv, WebInv
<1>2. Counts(C)'
  BY <1>1 DEF Counts, Known, Pending, IsWeb
<1>3. WebFolded'
  BY DEF IInv, WebInv, WebFolded, Pending, WebRows, IsWeb
<1>4. WebInv'
  BY <1>2, <1>3 DEF IInv, WebInv, IsWeb
<1> QED
  BY <1>4, SnapshotKept, Quiet DEF ProcessInv

(* An operation starts.                                                      *)
LEMMA StartKeeps ==
    ASSUME IInv, StartRequest
    PROVE  ProcessInv'
<1>0. /\ pc = "idle" /\ pc' = "counted" /\ queried' = committed
      /\ UNCHANGED <<nextSeq, committed, open, folded, gaps, count, lastSeq, own, content, snapshot>>
  BY DEF StartRequest, StartExec, StartOperation, database, logState, contents
<1>1. PICK C \in SUBSET Seqs : Counts(C)
  BY <1>0 DEF IInv, WebInv
<1>2. Counts(C)'
  BY <1>0, <1>1 DEF Counts, Known, Pending, IsWeb
<1>3. WebFolded'
  BY <1>0 DEF IInv, WebInv, WebFolded, Pending, WebRows, IsWeb
<1>4. WebInv'
  BY <1>0, <1>2, <1>3 DEF IInv, WebInv, IsWeb, WebRows, Rows
<1> QED
  BY <1>0, <1>4, SnapshotKept, Quiet DEF ProcessInv

(* The counts of the refresh disagree.                                       *)
LEMMA MismatchKeeps ==
    ASSUME IInv, RefreshMismatch, UNCHANGED contents
    PROVE  ProcessInv'
<1>0. /\ pc = "counted" /\ pc' = "rebuild"
      /\ UNCHANGED <<nextSeq, committed, open, folded, gaps, count, lastSeq, own, content, snapshot>>
  BY DEF RefreshMismatch, database, logState, request, contents
<1>1. PICK C \in SUBSET Seqs : Counts(C)
  BY <1>0 DEF IInv, WebInv
<1>2. Counts(C)'
  BY <1>0, <1>1 DEF Counts, Known, Pending, IsWeb
<1>3. WebFolded'
  BY <1>0 DEF IInv, WebInv, WebFolded, Pending, WebRows, IsWeb
<1>4. WebInv'
  BY <1>0, <1>2, <1>3 DEF IInv, WebInv, IsWeb, WebRows, Rows
<1> QED
  BY <1>0, <1>4, SnapshotKept, Quiet DEF ProcessInv

-----------------------------------------------------------------------------
(* Folding what is left in the gap buffer.                                   *)
LEMMA FoldThrown ==
    ASSUME LogTyped, NEW T, NEW s \in Snapshot, s.ok # TRUE
    PROVE  FoldRows(T, s) = s
<1> DEFINE n == nextSeq - 1
           f == Folding(T, s)
           Bad == {k \in 0..n : f[k] # s}
<1>1. n \in Nat /\ IsFolding(f, T, s, n)
  BY FoldingIsFold DEF LogTyped
<1>2. \A k \in 0..n : f[k] = s
  <2>1. SUFFICES ASSUME Bad # {} PROVE FALSE
    OBVIOUS
  <2>2. PICK k \in Bad : \A j \in Bad : k <= j
    <3>1. Bad \in SUBSET Nat
      BY <1>1
    <3> HIDE DEF Bad
    <3> QED BY <2>1, <3>1, LeastNatural
  <2>3. k # 0
    BY <1>1 DEF IsFolding
  <2>4. k \in 1..n /\ k - 1 \in 0..n /\ f[k - 1] = s
    BY <1>1, <2>2, <2>3
  <2>5. f[k] = s
    BY <1>1, <2>4, ApplyThrown DEF IsFolding
  <2> QED
    BY <2>5
<1> QED
  BY <1>1, <1>2 DEF FoldRows

(* What folding the gap buffer makes of the snapshot.                        *)
LEMMA GapsFold ==
    ASSUME IInv
    PROVE  /\ WithGaps \in Snapshot
           /\ WithGaps.ok = TRUE =>
                Represents(content, WithGaps, folded \cup gaps) /\ Complete(folded \cup gaps)
<1>0. folded \in SUBSET Rows /\ gaps \in SUBSET Rows /\ ContentInv /\ LogTyped
  BY InvFacts DEF IInv
<1>1. \A r \in gaps, q \in folded : Executes(content, r) /\ Executes(content, q) => q <= r
  BY DEF IInv, WebInv, IsWeb, WebKinds, Executes
<1>2. Represents(content, snapshot, folded) /\ Complete(folded)
  BY DEF IInv, SnapshotInv
<1> QED
  BY <1>0, <1>1, <1>2, FoldRepresents, FoldComplete DEF WithGaps

(* What folding the fresh rows after the gap makes of it.                    *)
LEMMA FreshFolds ==
    ASSUME IInv, pc = "counted", WithFresh.ok = TRUE
    PROVE  /\ Represents(content, WithFresh, (folded \cup gaps) \cup Fresh)
           /\ Complete((folded \cup gaps) \cup Fresh)
<1>0. /\ folded \in SUBSET Rows /\ gaps \in SUBSET Rows /\ Fresh \in SUBSET Rows
      /\ ContentInv /\ LogTyped
  BY InvFacts DEF IInv, Fresh, ReadLog
<1>1. WithGaps.ok = TRUE
  BY <1>0, GapsFold, FoldThrown DEF WithFresh
<1>2. \A r \in Fresh, q \in folded \cup gaps : q <= r
  <2>1. \A r \in Fresh : lastSeq < r
    BY DEF Fresh, ReadLog
  <2>2. \A q \in folded \cup gaps : q <= lastSeq
    BY InvFacts DEF Known
  <2> QED
    BY <1>0, <2>1, <2>2, InvFacts
<1>3. PICK S \in SUBSET Rows : S = folded \cup gaps
  BY <1>0
<1>4. Represents(content, WithGaps, S) /\ Complete(S)
  BY <1>1, <1>3, GapsFold
<1>5. \A r \in Fresh, q \in S : Executes(content, r) /\ Executes(content, q) => q <= r
  BY <1>2, <1>3
<1>6. Represents(content, WithFresh, S \cup Fresh) /\ Complete(S \cup Fresh)
  BY <1>0, <1>4, <1>5, FoldComplete DEF WithFresh
<1> QED
  BY <1>3, <1>6

(* The snapshot of a fold is installed.                                      *)
LEMMA SnapshotFolded ==
    ASSUME NEW S, NEW s, Represents(content, s, S), Complete(S),
           folded' = S, snapshot' = s, content' = content
    PROVE  SnapshotInv'
BY DEF SnapshotInv, Complete, Finishes, StepsTo

Refreshed == pc' \in {"idle", "judge"} /\ own' \subseteq own

(* What is left of a refresh when it has folded.                             *)
LEMMA RefreshEnds ==
    ASSUME RefreshReturns
    PROVE  Refreshed
BY DEF RefreshReturns, Return, request, Refreshed

(* The counts agree: what was counted is what was queried.                   *)
LEMMA UnchangedKeeps ==
    ASSUME IInv, RefreshUnchanged, snapshot' = WithGaps, snapshot'.ok, UNCHANGED content
    PROVE  ProcessInv'
<1>0. /\ pc = "counted" /\ Cardinality(queried) = count
      /\ folded' = folded \cup gaps /\ gaps' = {} /\ Refreshed
      /\ UNCHANGED <<nextSeq, committed, count, lastSeq>>
  BY RefreshEnds DEF RefreshUnchanged, database
<1>1. PICK C \in SUBSET Seqs : Counts(C)
  BY <1>0 DEF IInv, WebInv
<1>2. queried \in SUBSET Seqs /\ C \in SUBSET queried
  BY <1>0, <1>1, InvFacts DEF Counts, TypeOK
<1>3. C = queried
  <2>1. IsFiniteSet(queried) /\ Cardinality(C) = Cardinality(queried)
    BY <1>0, <1>1, <1>2, CountingEvents DEF Counts
  <2> QED
    BY <1>2, <2>1, FS_Subset
<1>4. WebRows(content, committed) \subseteq folded
  BY <1>0, <1>1, <1>3 DEF IInv, WebInv, Counts, Pending, WebRows
<1>5. WebFolded'
  BY <1>0, <1>4 DEF WebFolded, WebRows, IsWeb
<1>6. Counts(C)'
  BY <1>0, <1>1 DEF Counts, Refreshed, Known, Pending, IsWeb
<1>7. WebInv'
  BY <1>0, <1>5, <1>6 DEF IInv, WebInv, IsWeb, Refreshed, Rows
<1>8. WithGaps.ok = TRUE
  BY GapsFold DEF Snapshot
<1>9. SnapshotInv'
  BY <1>0, <1>8, GapsFold, SnapshotFolded
<1> QED
  BY <1>0, <1>7, <1>9, Quiet DEF ProcessInv, Refreshed

(* The fresh rows account for what is new: web rows are old and folded, or   *)
(* fresh.                                                                    *)
LEMMA FreshKeeps ==
    ASSUME IInv, RefreshFresh, snapshot' = WithFresh, snapshot'.ok = TRUE, UNCHANGED content
    PROVE  ProcessInv'
<1>0. /\ pc = "counted" /\ FreshAccountsForAll
      /\ folded' = (folded \cup gaps) \cup Fresh /\ gaps' = {} /\ Refreshed
      /\ count' = count + Cardinality(Fresh)
      /\ lastSeq' = IF Largest(Fresh) > lastSeq THEN Largest(Fresh) ELSE lastSeq
      /\ UNCHANGED <<nextSeq, committed>>
  BY RefreshEnds, Zenon DEF RefreshFresh, database
<1>1. PICK C \in SUBSET Seqs : Counts(C)
  BY <1>0 DEF IInv, WebInv
<1>2. /\ Fresh \in SUBSET Seqs /\ Fresh \subseteq committed /\ \A r \in Fresh : lastSeq < r
      /\ lastSeq \in Nat /\ count \in Nat
  BY InvFacts DEF Fresh, ReadLog
<1>3. Fresh = ReadLog(lastSeq)
  <2>1. Fresh # {}
    <3>1. Cardinality({}) = 0
      BY FS_EmptySet
    <3>2. Cardinality(queried) \in Nat
      BY InvFacts, CountingEvents DEF TypeOK
    <3> QED
      BY <1>0, <1>2, <3>1, <3>2 DEF FreshAccountsForAll
  <2> QED
    BY <2>1 DEF Fresh
<1>4. \A r \in WebRows(content, committed) : r \in folded \/ r \in Fresh
  BY <1>0, <1>3 DEF IInv, WebInv, WebFolded, Pending, ReadLog, WebRows
<1>5. WebFolded'
  BY <1>0, <1>4 DEF WebFolded, WebRows, IsWeb
<1>6. PICK D \in SUBSET Seqs : D = C \cup Fresh
  BY <1>2
<1>7. Cardinality(D) = count + Cardinality(Fresh)
  <2>1. C \cap Fresh = {}
    <3>1. \A r \in C : r <= lastSeq /\ r \in Seqs
      BY <1>0, <1>1 DEF Counts, Pending
    <3> QED
      BY <1>2, <3>1 DEF Seqs
  <2> QED
    BY <1>1, <1>2, <1>6, <2>1, CountingDisjointEvents DEF Counts
<1>8. /\ \A r \in Fresh : r <= lastSeq'
      /\ lastSeq <= lastSeq' /\ lastSeq' \in Nat
  <2>1. Largest(Fresh) \in 0..MaxSeq /\ \A r \in Fresh : r <= Largest(Fresh)
    BY <1>2, LargestProperties
  <2>2. PICK m \in Nat : m = Largest(Fresh)
    BY <2>1, BoundsAssumption
  <2> QED
    BY <1>0, <1>2, <2>1, <2>2 DEF Seqs
<1>9. Counts(D)'
  <2>1. /\ D \subseteq committed' /\ count' = Cardinality(D)
        /\ (Known \cup Pending)' \subseteq D /\ pc' # "counted"
    BY <1>0, <1>1, <1>2, <1>6, <1>7 DEF Counts, Known, Pending, Refreshed
  <2>2. ASSUME NEW r \in D PROVE (r \in folded' \/ ~IsWeb(content', r)) /\ r <= lastSeq'
    <3>1. CASE r \in Fresh
      BY <1>0, <1>8, <3>1
    <3>2. CASE r \in C
      <4>1. (r \in folded \/ ~IsWeb(content, r)) /\ r <= lastSeq /\ r \in Nat
        BY <1>0, <1>1, <3>2 DEF Counts, Pending, Seqs
      <4> QED
        BY <1>0, <1>2, <1>8, <4>1
    <3> QED
      BY <1>6, <3>1, <3>2
  <2> QED
    BY <2>1, <2>2 DEF Counts
<1>10. WebInv'
  <2>1. own' \subseteq Rows' /\ (\A r \in own' : IsWeb(content, r)') /\ gaps' = {}
    BY <1>0 DEF IInv, WebInv, Refreshed, Rows
  <2>2. pc' # "counted"
    BY <1>0 DEF Refreshed
  <2> QED
    BY <1>5, <1>9, <2>1, <2>2 DEF WebInv
<1>11. WithFresh.ok = TRUE
  OBVIOUS
<1>12. SnapshotInv'
  BY <1>0, <1>11, FreshFolds, SnapshotFolded
<1> QED
  BY <1>0, <1>10, <1>12, Quiet DEF ProcessInv, Refreshed

(* The whole log is folded: by boot, or by a rebuild.                        *)
LEMMA WholeLogKeeps ==
    ASSUME IInv, FoldWholeLog, Refreshed, snapshot' = Replay(committed),
           UNCHANGED <<nextSeq, committed, content>>
    PROVE  ProcessInv'
<1>0. committed \in SUBSET Rows /\ committed \in SUBSET Seqs /\ ContentInv /\ LogTyped
  BY InvFacts DEF IInv
<1>1. folded' = committed /\ gaps' = {} /\ count' = Cardinality(committed) /\ lastSeq' = Largest(committed)
  BY DEF FoldWholeLog
<1>2. WebFolded'
  BY <1>1 DEF WebFolded, WebRows
<1>3. PICK C \in SUBSET Seqs : C = committed
  BY <1>0
<1>4. \A r \in committed : r <= lastSeq'
  BY <1>0, <1>1, LargestProperties
<1>5. Counts(C)'
  BY <1>1, <1>3, <1>4 DEF Counts, Known, Pending, Refreshed
<1>6. WebInv'
  BY <1>1, <1>2, <1>5 DEF IInv, WebInv, IsWeb, Refreshed, Rows
<1>7. Represents(content, Replay(committed), committed)
  BY <1>0, FittingLogReplays DEF IInv
<1>8. Complete(committed)
  BY <1>0, CommittedClosed
<1>9. SnapshotInv'
  BY <1>1, <1>7, <1>8, SnapshotFolded
<1> QED
  BY <1>6, <1>9, Quiet DEF ProcessInv, Refreshed

(* The steps of a refresh, one after the other.                              *)
LEMMA RefreshKeeps ==
    ASSUME IInv, RefreshSnapshot
    PROVE  ProcessInv'
<1>1. CASE RefreshMismatch /\ UNCHANGED contents
  BY <1>1, MismatchKeeps
<1>2. CASE FoldOnRefresh
  <2>0. UNCHANGED content /\ snapshot'.ok
    BY <1>2 DEF FoldOnRefresh
  <2>1. CASE RefreshUnchanged /\ snapshot' = WithGaps
    BY <2>0, <2>1, UnchangedKeeps
  <2>2. CASE RefreshFresh /\ snapshot' = WithFresh
    <3>1. snapshot'.ok = TRUE
      <4>1. pc = "counted"
        BY <2>2 DEF RefreshFresh
      <4>2. WithFresh \in Snapshot
        <5>0. /\ folded \in SUBSET Rows /\ gaps \in SUBSET Rows /\ Fresh \in SUBSET Rows
              /\ ContentInv /\ LogTyped
          BY InvFacts DEF IInv, Fresh, ReadLog
        <5>1. CASE WithGaps.ok # TRUE
          BY <5>0, <5>1, GapsFold, FoldThrown DEF WithFresh
        <5>2. CASE WithGaps.ok = TRUE
          <6>1. PICK S \in SUBSET Rows : S = folded \cup gaps
            BY <5>0
          <6>2. Represents(content, WithGaps, S)
            BY <5>2, <6>1, GapsFold
          <6>3. \A r \in Fresh, q \in S : q <= r
            <7>1. \A r \in Fresh : lastSeq < r
              BY DEF Fresh, ReadLog
            <7>2. \A q \in folded \cup gaps : q <= lastSeq
              BY <4>1, InvFacts DEF Known
            <7> QED
              BY <5>0, <6>1, <7>1, <7>2, InvFacts
          <6> QED
            BY <5>0, <6>2, <6>3, FoldRepresents DEF WithFresh
        <5> QED
          BY <5>1, <5>2
      <4> QED
        BY <2>0, <2>2, <4>2 DEF Snapshot
    <3> QED
      BY <2>0, <2>2, <3>1, FreshKeeps
  <2>3. CASE RefreshRebuild /\ snapshot' = Replay(committed)
    <3>1. FoldWholeLog /\ Refreshed /\ UNCHANGED <<nextSeq, committed>>
      BY <2>3, RefreshEnds DEF RefreshRebuild, database
    <3> QED
      BY <2>0, <2>3, <3>1, WholeLogKeeps
  <2> QED
    BY <1>2, <2>1, <2>2, <2>3 DEF FoldOnRefresh
<1> QED
  BY <1>1, <1>2 DEF RefreshSnapshot

(* A fold throws.                                                            *)
LEMMA ThrowKeeps ==
    ASSUME IInv, ThrowOnFold
    PROVE  ProcessInv'
<1>0. UNCHANGED content
  BY DEF ThrowOnFold, EndRequest
<1>1. CASE GapFoldThrows /\ UNCHANGED snapshot
  <2>1. /\ pc \in {"counted", "applied"} /\ pc' = "idle" /\ own' = {} /\ gaps' = {}
        /\ UNCHANGED <<folded, committed, count, lastSeq>>
    BY <1>1 DEF GapFoldThrows, Return, database
  <2> QED
    BY <1>0, <1>1, <2>1, Returned
<1>2. CASE FreshFoldThrows /\ WithGaps.ok /\ snapshot' = WithGaps
  <2>1. /\ pc = "counted" /\ pc' = "idle" /\ own' = {} /\ gaps' = {}
        /\ folded' = folded \cup gaps
        /\ UNCHANGED <<nextSeq, committed, count, lastSeq>>
    BY <1>2 DEF FreshFoldThrows, Return, database
  <2>2. PICK C \in SUBSET Seqs : Counts(C)
    BY <2>1 DEF IInv, WebInv
  <2>3. Counts(C)'
    BY <1>0, <2>1, <2>2 DEF Counts, Known, Pending, IsWeb
  <2>4. WebFolded'
    BY <1>0, <2>1 DEF IInv, WebInv, WebFolded, Pending, WebRows, IsWeb
  <2>5. WebInv'
    BY <2>1, <2>3, <2>4 DEF WebInv
  <2>6. WithGaps.ok = TRUE
    BY <1>2, GapsFold DEF Snapshot
  <2>7. SnapshotInv'
    BY <1>0, <1>2, <2>1, <2>6, GapsFold, SnapshotFolded
  <2> QED
    BY <2>1, <2>5, <2>7, Quiet DEF ProcessInv
<1>3. CASE RebuildThrows /\ UNCHANGED snapshot
  <2>1. /\ pc = "rebuild" /\ pc' = "idle" /\ own' = {}
        /\ UNCHANGED <<folded, gaps, committed, count, lastSeq>>
    BY <1>3 DEF RebuildThrows, Return, database, logState
  <2> QED
    BY <1>0, <1>3, <2>1, Returned
<1> QED
  BY <1>1, <1>2, <1>3 DEF ThrowOnFold

(* Nothing is appended.                                                      *)
LEMMA NothingKeeps ==
    ASSUME IInv, JudgeNothing \/ AbortOwn
    PROVE  ProcessInv'
<1>1. /\ pc \in {"judge", "appending"} /\ pc' = "idle" /\ own' = {}
      /\ UNCHANGED <<folded, gaps, committed, count, lastSeq, content, snapshot>>
  BY DEF JudgeNothing, AbortOwn, AcceptNothing, OwnRollback, EndRequest, Return, database, logState,
         contents
<1> QED
  BY <1>1, Returned

(* A verdict is given.                                                       *)
LEMMA JudgeKeeps ==
    ASSUME IInv, JudgeRequest
    PROVE  ProcessInv'
<1>0. /\ pc = "judge" /\ pc' = "appending" /\ own' = {}
      /\ UNCHANGED <<nextSeq, committed, open, folded, gaps, count, lastSeq, content, snapshot>>
      /\ verdict' \in Verdicts
      /\ op' = "rejected" => verdict'.events = <<Noted>>
  BY DEF JudgeRequest, Reject, Accept, Judge, database, logState
<1>1. PICK C \in SUBSET Seqs : Counts(C)
  BY <1>0 DEF IInv, WebInv
<1>2. Counts(C)'
  BY <1>0, <1>1 DEF Counts, Known, Pending, IsWeb
<1>3. WebFolded'
  BY <1>0 DEF IInv, WebInv, WebFolded, Pending, WebRows, IsWeb
<1>4. WebInv'
  BY <1>0, <1>2, <1>3 DEF IInv, WebInv, IsWeb
<1>5. PICK v : v = verdict' /\ v \in Verdicts
  BY <1>0
<1>6. VerdictOn(snapshot, v)
  BY <1>5, InvFacts, VerdictsFold
<1>7. VerdictOn(snapshot, verdict)'
  BY <1>0, <1>5, <1>6
<1>8. Cardinality(own') = 0
  BY <1>0, FS_EmptySet
<1>9. PICK rows : rows = [k \in {} |-> 0]
  OBVIOUS
<1>10. rows \in [1..Cardinality(own) -> own]' /\ IsBatch(rows)'
  <2>1. 1..0 = {}
    OBVIOUS
  <2>2. Len(verdict'.events) \in Nat
    BY <1>7 DEF VerdictOn
  <2>3. rows \in [1..Cardinality(own) -> own]'
    BY <1>0, <1>8, <1>9, <2>1
  <2> QED
    BY <1>0, <1>8, <2>1, <2>2, <2>3 DEF IsBatch
<1>11. VerdictInv'
  BY <1>0, <1>7, <1>10 DEF VerdictInv
<1> QED
  BY <1>0, <1>4, <1>11, SnapshotKept DEF ProcessInv

(* A crash loses what the process has.                                       *)
LEMMA CrashKeeps ==
    ASSUME IInv, CrashProcess
    PROVE  ProcessInv'
<1>0. /\ pc' = "down" /\ own' = {} /\ folded' = {} /\ gaps' = {} /\ snapshot' = EmptySnapshot
      /\ UNCHANGED content
  BY DEF CrashProcess, Crash, EndRequest
<1>1. WebInv'
  BY <1>0 DEF WebInv, WebFolded
<1>2. Represents(content, EmptySnapshot, {})
  BY NothingRepresented
<1>3. Complete({})
  BY DEF Complete
<1>4. SnapshotInv'
  BY <1>0, <1>2, <1>3, SnapshotFolded
<1> QED
  BY <1>0, <1>1, <1>4, Quiet DEF ProcessInv

(* A boot folds the whole log.                                               *)
LEMMA BootKeeps ==
    ASSUME IInv, BootProcess
    PROVE  ProcessInv'
<1>1. /\ FoldWholeLog /\ pc' = "idle" /\ own' = own /\ snapshot' = Replay(committed)
      /\ UNCHANGED <<nextSeq, committed, content>>
  BY DEF BootProcess, Boot, database, request
<1> QED
  BY <1>1, WholeLogKeeps DEF Refreshed

(* The rows other writers committed below the batch go to the gap buffer:    *)
(* none of them is the process's.                                            *)
LEMMA CollectKeeps ==
    ASSUME IInv, CollectGapRows
    PROVE  ProcessInv'
<1>0. /\ pc = "appended" /\ pc' = "collected"
      /\ UNCHANGED <<nextSeq, committed, open, folded, op, own, content, snapshot, verdict>>
  BY DEF CollectGapRows, CollectGap, database, request, contents
<1>1. PICK C \in SUBSET Seqs : Counts(C)
  BY <1>0 DEF IInv, WebInv
<1>2. WebRows(content, committed) \subseteq folded \cup own
  BY <1>0 DEF IInv, WebInv, WebFolded, Pending, WebRows
<1>3. WebFolded'
  BY <1>0, <1>2 DEF WebFolded, Pending, WebRows, IsWeb
<1>4. VerdictInv'
  <2>1. VerdictOn(snapshot, verdict)'
    BY <1>0 DEF IInv, VerdictInv
  <2>2. PICK rows \in [1..Cardinality(own) -> own] : IsBatch(rows)
    BY <1>0 DEF IInv, VerdictInv
  <2>3. IsBatch(rows)' /\ rows \in [1..Cardinality(own) -> own]'
    BY <1>0, <2>2 DEF IsBatch
  <2>4. /\ (op = "rejected" => verdict.events = <<Noted>>)'
        /\ (\A r \in own, q \in folded : q < r)'
        /\ (Cardinality(own) = Len(verdict.events))'
    BY <1>0 DEF IInv, VerdictInv
  <2> QED
    BY <1>0, <2>1, <2>3, <2>4 DEF VerdictInv
<1>5. CASE Largest(own) > lastSeq
  <2> DEFINE G == GapBelow(Largest(own))
  <2>1. /\ gaps' = gaps \cup G /\ count' = count + Cardinality(G) /\ lastSeq' = Largest(own)
    BY <1>5 DEF CollectGapRows, CollectGap
  <2>2. /\ G \in SUBSET committed /\ G \in SUBSET Seqs
        /\ \A r \in G : lastSeq < r /\ r < Largest(own) /\ r \notin own
    BY InvFacts DEF GapBelow, ReadLog
  <2>3. lastSeq \in Nat /\ Largest(own) \in Nat /\ own \in SUBSET Seqs /\ C \in SUBSET Seqs
        /\ \A r \in own : r <= Largest(own)
    BY InvFacts, LargestProperties, BoundsAssumption
  <2> HIDE DEF G
  <2>4. \A r \in C : r \in own \/ r <= lastSeq
    BY <1>0, <1>1 DEF Counts, Pending
  <2>5. \A r \in G : ~IsWeb(content, r) /\ r \notin C
    <3> SUFFICES ASSUME NEW r \in G PROVE ~IsWeb(content, r) /\ r \notin C
      OBVIOUS
    <3>1. lastSeq < r /\ r \notin own /\ r \in committed /\ r \in Nat
      BY <2>2 DEF Seqs
    <3>2. r \notin folded
      BY <1>0, <2>3, <3>1, InvFacts DEF Known
    <3> QED
      BY <1>2, <2>3, <2>4, <3>1, <3>2 DEF WebRows
  <2>6. PICK D \in SUBSET Seqs : D = C \cup G
    BY <2>2, <2>3
  <2>7. Cardinality(D) = count'
    <3>1. C \cap G = {}
      BY <2>5
    <3> QED
      BY <1>1, <2>1, <2>2, <2>3, <2>6, <3>1, CountingDisjointEvents DEF Counts
  <2>8. Counts(D)'
    <3>1. D \subseteq committed' /\ (Known \cup Pending)' \subseteq D
      BY <1>0, <1>1, <2>1, <2>2, <2>6 DEF Counts, Known, Pending
    <3>2. ASSUME NEW r \in D
          PROVE  /\ r \in folded' \cup own' \/ ~IsWeb(content', r)
                 /\ r <= lastSeq' \/ r \in own'
      <4>1. CASE r \in G
        BY <1>0, <2>1, <2>2, <2>3, <2>5, <4>1 DEF Seqs
      <4>2. CASE r \in C
        <5>1. (r \in folded \cup own \/ ~IsWeb(content, r)) /\ r \in Nat
          BY <1>0, <1>1, <2>3, <4>2 DEF Counts, Pending, Seqs
        <5>2. r <= Largest(own) \/ r \in own
          BY <1>5, <2>3, <2>4, <4>2, <5>1
        <5> QED
          BY <1>0, <2>1, <5>1, <5>2
      <4> QED
        BY <2>6, <4>1, <4>2
    <3>3. Pending' = own'
      BY <1>0 DEF Pending
    <3> QED
      BY <1>0, <2>7, <3>1, <3>2, <3>3 DEF Counts
  <2>9. WebInv'
    BY <1>0, <1>3, <2>1, <2>5, <2>8 DEF IInv, WebInv, IsWeb, Rows
  <2> QED
    BY <1>0, <1>4, <2>9, SnapshotKept DEF ProcessInv
<1>6. CASE ~(Largest(own) > lastSeq)
  <2>1. UNCHANGED <<gaps, count, lastSeq>>
    BY <1>6 DEF CollectGapRows, CollectGap
  <2>2. Counts(C)'
    BY <1>0, <1>1, <2>1 DEF Counts, Known, Pending, IsWeb
  <2>3. WebInv'
    BY <1>0, <1>3, <2>1, <2>2 DEF IInv, WebInv, IsWeb, Rows
  <2> QED
    BY <1>0, <1>4, <2>3, SnapshotKept DEF ProcessInv
<1> QED
  BY <1>5, <1>6

(* The batch is in the log and counted: folding it is installing the verdict.*)
LEMMA BatchRepresented ==
    ASSUME IInv, pc = "collected"
    PROVE  /\ Represents(content, verdict.next, folded \cup own)
           /\ Complete(folded \cup own)
           /\ \A i \in verdict.notify : i \in ConfirmationIds /\ Notified(i, nextSeq)
<1>0. /\ LogTyped /\ own \in SUBSET Rows /\ folded \in SUBSET Rows /\ own \subseteq committed
      /\ Cardinality(own) \in Nat
  BY InvFacts, CountingEvents DEF IInv, OrderInv, AppendFresh, KnownVisible
<1>1. PICK rows \in [1..Cardinality(own) -> own] : IsBatch(rows)
  BY DEF IInv, VerdictInv
<1>2. /\ VerdictOn(snapshot, verdict) /\ Cardinality(own) = Len(verdict.events)
      /\ Represents(content, snapshot, folded) /\ Complete(folded)
      /\ \A r \in own, q \in folded : q < r
  BY DEF IInv, VerdictInv, SnapshotInv
<1>3. Represents(content, verdict.next, folded \cup own)
  BY <1>0, <1>1, <1>2, BatchFolds
<1>4. \A r \in own, d \in Delegations : ~Finishes(content, r, d)
  BY DEF IInv, WebInv, IsWeb, WebKinds, Decisions, Finishes
<1>5. Complete(folded \cup own)
  BY <1>2, <1>4 DEF Complete
<1>6. ASSUME NEW i \in verdict.notify PROVE i \in ConfirmationIds /\ Notified(i, nextSeq)
  <2>1. PICK k \in DOMAIN verdict.events : Requests(verdict.events, k, i)
    BY <1>2 DEF VerdictOn
  <2>2. k \in 1..Cardinality(own)
    <3>1. PICK log \in Seq(WebEvent) : log = verdict.events
      BY <1>2 DEF VerdictOn
    <3>2. k \in 1..Len(log)
      BY <2>1, <3>1
    <3> QED
      BY <1>2, <3>1, <3>2
  <2>3. rows[k] \in own /\ content[rows[k]] = verdict.events[k]
    BY <1>1, <2>2 DEF IsBatch
  <2>4. rows[k] \in committed /\ rows[k] < nextSeq
    <3>1. rows[k] \in committed /\ rows[k] \in Rows
      BY <1>0, <2>3
    <3>2. \A r \in Rows : r < nextSeq
      BY InvFacts DEF Rows
    <3> QED
      BY <3>1, <3>2
  <2> QED
    BY <1>2, <2>1, <2>3, <2>4 DEF VerdictOn, Notified, Requests
<1> QED
  BY <1>3, <1>5, <1>6

(* A rejection changes no state.                                             *)
LEMMA RejectedKeeps ==
    ASSUME IInv, FinishRejected
    PROVE  ProcessInv'
<1>0. /\ pc = "collected" /\ op = "rejected" /\ pc' = "idle" /\ own' = {} /\ folded' = folded \cup own
      /\ UNCHANGED <<nextSeq, committed, gaps, count, lastSeq, content, snapshot>>
  BY DEF FinishRejected, FinishRejection, Return, EndRequest, database
<1>1. PICK C \in SUBSET Seqs : Counts(C)
  BY <1>0 DEF IInv, WebInv
<1>2. \A r \in own : r <= lastSeq
  BY <1>0 DEF IInv, OrderInv, AppendFresh
<1>3. Counts(C)'
  BY <1>0, <1>1, <1>2 DEF Counts, Known, Pending, IsWeb
<1>4. WebFolded'
  BY <1>0 DEF IInv, WebInv, WebFolded, Pending, WebRows, IsWeb
<1>5. WebInv'
  BY <1>0, <1>3, <1>4 DEF IInv, WebInv, IsWeb
<1>6. verdict.next = snapshot
  <2>1. verdict.events = <<Noted>> /\ VerdictOn(snapshot, verdict)
    BY <1>0 DEF IInv, VerdictInv
  <2>2. PICK f : IsChain(f, snapshot, verdict.events) /\ f[Len(verdict.events)] = verdict.next
    BY <2>1 DEF VerdictOn
  <2>3. Len(verdict.events) = 1 /\ verdict.events[1] = Noted
    BY <2>1
  <2>4. f[0] = snapshot /\ f[1] = Apply(f[0], Noted)
    BY <2>2, <2>3 DEF IsChain, Fold1
  <2> QED
    BY <2>2, <2>3, <2>4, InvFacts, ApplyNotedIs, WebEvents
<1>7. SnapshotInv'
  BY <1>0, <1>6, BatchRepresented, SnapshotFolded
<1> QED
  BY <1>0, <1>5, <1>7, Quiet DEF ProcessInv

(* An accepted verdict is installed.                                         *)
LEMMA InstallKeeps ==
    ASSUME IInv, InstallVerdict
    PROVE  ProcessInv'
<1>0. /\ pc = "collected" /\ pc' = "applied" /\ folded' = folded \cup own /\ snapshot' = verdict.next
      /\ UNCHANGED <<nextSeq, committed, own, gaps, count, lastSeq, content, verdict>>
  BY DEF InstallVerdict, OverwriteSnapshot, database, request, IInv, OrderInv, AppendFresh
<1>1. PICK C \in SUBSET Seqs : Counts(C)
  BY <1>0 DEF IInv, WebInv
<1>2. \A r \in own : r <= lastSeq
  BY <1>0 DEF IInv, OrderInv, AppendFresh
<1>3. Counts(C)'
  BY <1>0, <1>1, <1>2 DEF Counts, Known, Pending, IsWeb
<1>4. WebFolded'
  BY <1>0 DEF IInv, WebInv, WebFolded, Pending, WebRows, IsWeb
<1>5. WebInv'
  BY <1>0, <1>3, <1>4 DEF IInv, WebInv, IsWeb, Rows
<1>6. SnapshotInv'
  BY <1>0, BatchRepresented, SnapshotFolded
<1>7. VerdictInv'
  BY <1>0, BatchRepresented DEF VerdictInv, Notified
<1> QED
  BY <1>5, <1>6, <1>7 DEF ProcessInv

(* The operation ends, with the gap folded or left.                          *)
LEMMA AcceptedKeeps ==
    ASSUME IInv, FinishAccepted
    PROVE  ProcessInv'
<1>0. UNCHANGED content
  BY DEF FinishAccepted
<1>1. CASE FinishFoldingGaps /\ WithGaps.ok /\ snapshot' = WithGaps
  <2>1. /\ pc = "applied" /\ pc' = "idle" /\ own' = {} /\ gaps' = {} /\ folded' = folded \cup gaps
        /\ UNCHANGED <<nextSeq, committed, count, lastSeq>>
    BY <1>1 DEF FinishFoldingGaps, Return, database
  <2>2. PICK C \in SUBSET Seqs : Counts(C)
    BY <2>1 DEF IInv, WebInv
  <2>3. Counts(C)'
    BY <1>0, <2>1, <2>2 DEF Counts, Known, Pending, IsWeb
  <2>4. WebFolded'
    BY <1>0, <2>1 DEF IInv, WebInv, WebFolded, Pending, WebRows, IsWeb
  <2>5. WebInv'
    BY <2>1, <2>3, <2>4 DEF WebInv
  <2>6. WithGaps.ok = TRUE
    BY <1>1, GapsFold DEF Snapshot
  <2>7. SnapshotInv'
    BY <1>0, <1>1, <2>1, <2>6, GapsFold, SnapshotFolded
  <2> QED
    BY <2>1, <2>5, <2>7, Quiet DEF ProcessInv
<1>2. CASE FinishLeavingGaps /\ UNCHANGED snapshot
  <2>1. /\ pc = "applied" /\ pc' = "idle" /\ own' = {}
        /\ UNCHANGED <<folded, gaps, committed, count, lastSeq>>
    BY <1>2 DEF FinishLeavingGaps, Return, database, logState
  <2> QED
    BY <1>0, <1>2, <2>1, Returned
<1> QED
  BY <1>1, <1>2 DEF FinishAccepted

-----------------------------------------------------------------------------
(* One row more in the log, not committed yet.                               *)
Appended(e) ==
    /\ e \in Events /\ content' = Append(content, e) /\ nextSeq' = nextSeq + 1
    /\ UNCHANGED committed

(* The log with one row more.                                                *)
LEMMA RowAppended ==
    ASSUME IInv, NEW e, Appended(e)
    PROVE  /\ LogTyped' /\ Rows' = Rows \cup {nextSeq} /\ nextSeq \notin Rows
           /\ content'[nextSeq] = e /\ \A r \in Rows : content'[r] = content[r]
<1>1. LogTyped /\ nextSeq \in Nat \ {0}
  BY InvFacts
<1>2. PICK n \in Nat : n = nextSeq - 1
  BY <1>1
<1>3. PICK c \in Seq(Events) : c = content /\ Len(c) = n
  BY <1>1, <1>2 DEF LogTyped
<1>4. PICK k : k = Append(c, e)
  OBVIOUS
<1>5. /\ k \in Seq(Events) /\ Len(k) = n + 1 /\ k[n + 1] = e
      /\ \A r \in 1..n : k[r] = c[r]
  BY <1>3, <1>4 DEF Appended
<1>6. content' = k /\ nextSeq' = n + 2 /\ nextSeq = n + 1
  BY <1>1, <1>2, <1>3, <1>4 DEF Appended
<1>7. LogTyped'
  BY <1>5, <1>6 DEF LogTyped
<1>8. Rows' = Rows \cup {nextSeq} /\ nextSeq \notin Rows
  BY <1>6 DEF Rows
<1>9. content'[nextSeq] = e /\ \A r \in Rows : content'[r] = content[r]
  BY <1>2, <1>3, <1>5, <1>6 DEF Rows
<1> QED
  BY <1>7, <1>8, <1>9

(* It leaves what was said of the rows there are.                            *)
LEMMA AppendedKeepsMeaning ==
    ASSUME IInv, NEW e, Appended(e)
    PROVE  /\ AllFit(content, committed)'
           /\ UNCHANGED <<folded, snapshot>> => SnapshotInv'
           /\ \A r \in Rows : IsWeb(content', r) <=> IsWeb(content, r)
           /\ \A i, n : Notified(i, n) => Notified(i, n)'
           /\ \A i \in ConfirmationIds : Notified(i, nextSeq) => Notified(i, nextSeq)'
<1>1. \A r \in Rows : content'[r] = content[r]
  BY RowAppended
<1>0. folded \in SUBSET Rows /\ committed \in SUBSET Rows /\ committed' = committed /\ nextSeq \in Nat
  BY InvFacts DEF Appended
<1>2. ASSUME NEW r \in committed PROVE Fits(content', Below(committed, r), r)
  <2>1. Fits(content, Below(committed, r), r)
    BY DEF IInv, AllFit
  <2>2. content'[r] = content[r] /\ \A q \in Below(committed, r) : content'[q] = content[q]
    BY <1>0, <1>1 DEF Below
  <2> QED
    BY <2>1, <2>2, FitsTheSame
<1>3. AllFit(content, committed)'
  BY <1>0, <1>2 DEF AllFit
<1>4. ASSUME UNCHANGED <<folded, snapshot>> PROVE SnapshotInv'
  <2>1. Represents(content, snapshot, folded) /\ Complete(folded)
    BY DEF IInv, SnapshotInv
  <2>2. \A r \in folded : content'[r] = content[r]
    BY <1>0, <1>1
  <2>3. Represents(content', snapshot, folded)
    BY <2>1, <2>2, RowsSayTheSame
  <2> QED
    BY <1>4, <2>1, <2>2, <2>3 DEF SnapshotInv, Complete, Finishes, StepsTo
<1>5. \A r \in Rows : IsWeb(content', r) <=> IsWeb(content, r)
  BY <1>1 DEF IsWeb
<1>6. \A i, n : Notified(i, n) => Notified(i, n)'
  BY <1>0, <1>1 DEF Notified, Requests
<1>7. ASSUME NEW i \in ConfirmationIds, Notified(i, nextSeq) PROVE Notified(i, nextSeq)'
  <2>1. PICK q \in committed : q < nextSeq /\ Requests(content, q, i)
    BY <1>7 DEF Notified
  <2>2. q \in Rows /\ q \in Nat /\ q \in committed' /\ nextSeq' = nextSeq + 1
    BY <1>0, <2>1, InvFacts DEF Appended
  <2>3. q < nextSeq'
    BY <1>0, <2>1, <2>2
  <2>4. Requests(content', q, i)
    BY <1>1, <2>1, <2>2 DEF Requests
  <2> QED
    BY <2>2, <2>3, <2>4 DEF Notified
<1> QED
  BY <1>3, <1>4, <1>5, <1>6, <1>7

(* The events of a delegation are all different.                             *)
LEMMA SameNumber ==
    ASSUME NEW d \in Delegations, NEW j \in 1..(DelegationSteps + 2), NEW k \in 1..(DelegationSteps + 2),
           DelegationEvent(d, j) = DelegationEvent(d, k)
    PROVE  j = k
<1>1. PICK x : x = DelegationEvent(d, j) /\ x = DelegationEvent(d, k)
  OBVIOUS
<1>2. /\ (x.kind = "delegation-started" <=> k = 1)
      /\ (x.kind = "delegation-step" <=> k # 1 /\ k <= DelegationSteps + 1)
      /\ x.kind = "delegation-step" => x.step = k - 1
      /\ (x.kind = "delegation-completed" <=> k = DelegationSteps + 2)
      /\ x.kind \in {"delegation-started", "delegation-step", "delegation-completed"}
  BY <1>1, DelegationEventIs
<1>3. /\ (x.kind = "delegation-started" <=> j = 1)
      /\ (x.kind = "delegation-step" <=> j # 1 /\ j <= DelegationSteps + 1)
      /\ x.kind = "delegation-step" => x.step = j - 1
      /\ (x.kind = "delegation-completed" <=> j = DelegationSteps + 2)
  BY <1>1, DelegationEventIs
<1> QED
  BY <1>2, <1>3, ReplayAssumption

(* A row that is none of the delegation's.                                   *)
LEMMA OtherRow ==
    ASSUME IInv, NEW e, Appended(e), NEW d \in Delegations, progress'[d] = progress[d],
           ~("delegation" \in DOMAIN e /\ e.delegation = d)
    PROVE  DelegationRows(d)'
<1>0. PICK new : new = nextSeq
  OBVIOUS
<1>1. /\ Rows' = Rows \cup {new} /\ content'[new] = e
      /\ \A r \in Rows : content'[r] = content[r]
      /\ committed' = committed
  BY <1>0, RowAppended DEF Appended
<1>2. DelegationRows(d) /\ progress[d] \in 0..(DelegationSteps + 2)
  BY ProgressBound DEF IInv, ContentInv
<1>3. \A k \in 1..progress[d] : ~EventIs(new, d, k)'
  <2> SUFFICES ASSUME NEW k \in 1..progress[d], e = DelegationEvent(d, k) PROVE FALSE
    BY <1>1 DEF EventIs
  <2>1. k \in 1..(DelegationSteps + 2)
    BY <1>2, ReplayAssumption
  <2> QED
    BY <2>1, DelegationEventIs
<1>4. \A r \in Rows : \A k : EventIs(r, d, k)' <=> EventIs(r, d, k)
  BY <1>1 DEF EventIs
<1>5. \A r \in Rows' : "delegation" \in DOMAIN content'[r] /\ content'[r].delegation = d =>
          \E k \in 1..progress'[d] : EventIs(r, d, k)'
  <2> SUFFICES ASSUME NEW r \in Rows', "delegation" \in DOMAIN content'[r], content'[r].delegation = d
               PROVE  \E k \in 1..progress'[d] : EventIs(r, d, k)'
    OBVIOUS
  <2>1. r \in Rows /\ content'[r] = content[r]
    BY <1>1
  <2>2. PICK k \in 1..progress[d] : EventIs(r, d, k)
    BY <1>2, <2>1 DEF DelegationRows
  <2> QED
    BY <1>4, <2>1, <2>2
<1>6. \A k \in 1..progress'[d] : \E r \in Rows' : EventIs(r, d, k)'
  BY <1>1, <1>2, <1>4 DEF DelegationRows
<1>7. ASSUME NEW q \in Rows', NEW r \in Rows', NEW j \in 1..progress[d], NEW k \in 1..progress[d],
             EventIs(q, d, j)', EventIs(r, d, k)'
      PROVE  /\ j <= k => q <= r
             /\ j < k => q < r /\ q \in committed'
  <2>1. q \in Rows /\ r \in Rows /\ EventIs(q, d, j) /\ EventIs(r, d, k)
    BY <1>1, <1>3, <1>4, <1>7
  <2> QED
    BY <1>1, <1>2, <2>1 DEF DelegationRows
<1> QED
  BY <1>5, <1>6, <1>7 DEF DelegationRows

(* The next row of the delegation, the ones before it all committed.         *)
LEMMA NextRow ==
    ASSUME IInv, NEW e, Appended(e), NEW d \in Delegations, ~InFlight(d),
           progress[d] < DelegationSteps + 2, progress'[d] = progress[d] + 1,
           e = DelegationEvent(d, progress[d] + 1)
    PROVE  DelegationRows(d)'
<1>0. PICK new \in Nat : new = nextSeq
  BY InvFacts
<1>1. /\ Rows' = Rows \cup {new} /\ content'[new] = e
      /\ \A r \in Rows : content'[r] = content[r]
      /\ committed' = committed
      /\ \A r \in Rows : r \in Nat /\ r < new
  <2>1. /\ Rows' = Rows \cup {new} /\ content'[new] = e
        /\ \A r \in Rows : content'[r] = content[r]
        /\ committed' = committed
    BY <1>0, RowAppended DEF Appended
  <2>2. \A r \in Rows : r \in Nat /\ r < new
    BY <1>0 DEF Rows
  <2> QED
    BY <2>1, <2>2
<1>2. PICK n \in Nat : n = progress[d] /\ n + 1 \in 1..(DelegationSteps + 2) /\ progress'[d] = n + 1
  BY ProgressBound, ReplayAssumption DEF IInv
<1>3. DelegationRows(d)
  BY DEF IInv, ContentInv
<1>4. \A r \in Rows : \A k : EventIs(r, d, k)' <=> EventIs(r, d, k)
  BY <1>1 DEF EventIs
<1>5. \A k \in 1..(n + 1) : k \in 1..(DelegationSteps + 2) /\ (k \in 1..n \/ k = n + 1)
  BY <1>2, ReplayAssumption
<1>6. EventIs(new, d, n + 1)'
  BY <1>1, <1>2 DEF EventIs
<1>7. \A k \in 1..(DelegationSteps + 2) : e = DelegationEvent(d, k) => k = n + 1
  <2> SUFFICES ASSUME NEW k \in 1..(DelegationSteps + 2), e = DelegationEvent(d, k) PROVE k = n + 1
    OBVIOUS
  <2>1. PICK m \in 1..(DelegationSteps + 2) : m = n + 1
    BY <1>2
  <2>2. e = DelegationEvent(d, m)
    BY <1>2, <2>1
  <2> QED
    BY <2>1, <2>2, SameNumber
<1>8. ASSUME NEW r \in Rows, NEW k \in 1..(n + 1), EventIs(r, d, k)
      PROVE  k \in 1..n /\ r \in committed
  <2>1. PICK x : x = content[r] /\ x = DelegationEvent(d, k)
    BY <1>8 DEF EventIs
  <2>2. x \in Events /\ x.delegation = d /\ "delegation" \in DOMAIN x
        /\ x.kind \in {"delegation-started", "delegation-step", "delegation-completed"}
    BY <1>5, <2>1, DelegationEventIs
  <2>3. ~IsWeb(content, r)
    BY <2>1, <2>2 DEF IsWeb, WebKinds, Decisions
  <2>4. r \notin open
    BY <2>1, <2>2 DEF InFlight
  <2>5. r \in committed
    BY <2>3, <2>4 DEF IInv, ContentInv
  <2>6. PICK j \in 1..n : EventIs(r, d, j)
    BY <1>2, <1>3, <2>1, <2>2 DEF DelegationRows
  <2>7. k = j
    <3>1. DelegationEvent(d, j) = DelegationEvent(d, k)
      BY <2>1, <2>6 DEF EventIs
    <3>2. j \in 1..(DelegationSteps + 2) /\ k \in 1..(DelegationSteps + 2)
      BY <1>5
    <3> QED
      BY <3>1, <3>2, SameNumber
  <2> QED
    BY <2>5, <2>7
<1>9. \A k \in 1..(n + 1) : EventIs(new, d, k)' => k = n + 1
  BY <1>1, <1>5, <1>7 DEF EventIs
<1>10. \A r \in Rows' : "delegation" \in DOMAIN content'[r] /\ content'[r].delegation = d =>
          \E k \in 1..(n + 1) : EventIs(r, d, k)'
  <2> SUFFICES ASSUME NEW r \in Rows', "delegation" \in DOMAIN content'[r], content'[r].delegation = d
               PROVE  \E k \in 1..(n + 1) : EventIs(r, d, k)'
    OBVIOUS
  <2>1. CASE r = new
    BY <1>2, <1>6, <2>1
  <2>2. CASE r \in Rows
    <3>1. PICK k \in 1..n : EventIs(r, d, k)
      BY <1>1, <1>2, <1>3, <2>2 DEF DelegationRows
    <3> QED
      BY <1>4, <2>2, <3>1
  <2> QED
    BY <1>1, <2>1, <2>2
<1>11. \A k \in 1..(n + 1) : \E r \in Rows' : EventIs(r, d, k)'
  <2> SUFFICES ASSUME NEW k \in 1..(n + 1) PROVE \E r \in Rows' : EventIs(r, d, k)'
    OBVIOUS
  <2>1. CASE k = n + 1
    BY <1>1, <1>6, <2>1
  <2>2. CASE k # n + 1
    <3>1. PICK r \in Rows : EventIs(r, d, k)
      BY <1>2, <1>3, <1>5, <2>2 DEF DelegationRows
    <3> QED
      BY <1>1, <1>4, <3>1
  <2> QED
    BY <2>1, <2>2
<1>12. ASSUME NEW q \in Rows', NEW r \in Rows', NEW j \in 1..(n + 1), NEW k \in 1..(n + 1),
              EventIs(q, d, j)', EventIs(r, d, k)'
       PROVE  /\ j <= k => q <= r
              /\ j < k => q < r /\ q \in committed'
  <2>1. CASE q \in Rows /\ r \in Rows
    <3>1. EventIs(q, d, j) /\ EventIs(r, d, k)
      BY <1>4, <1>12, <2>1
    <3>2. j \in 1..n /\ k \in 1..n
      BY <1>8, <2>1, <3>1
    <3> QED
      BY <1>1, <1>2, <1>3, <2>1, <3>1, <3>2 DEF DelegationRows
  <2>2. CASE q \in Rows /\ r = new
    <3>1. EventIs(q, d, j)
      BY <1>4, <1>12, <2>2
    <3> QED
      BY <1>1, <1>8, <2>2, <3>1
  <2>3. CASE q = new /\ r \in Rows
    <3>1. EventIs(r, d, k) /\ j = n + 1
      BY <1>4, <1>9, <1>12, <2>3
    <3>2. k \in 1..n
      BY <1>8, <2>3, <3>1
    <3> QED
      BY <3>1, <3>2
  <2>4. CASE q = new /\ r = new
    <3>1. j = n + 1 /\ k = n + 1
      BY <1>9, <1>12, <2>4
    <3> QED
      BY <1>1, <2>4, <3>1
  <2> QED
    BY <1>1, <2>1, <2>2, <2>3, <2>4
<1> QED
  BY <1>2, <1>10, <1>11, <1>12 DEF DelegationRows

(* A row of the worker leaves the process where it was.                      *)
LEMMA ForeignRowKeeps ==
    ASSUME IInv, NEW e, Appended(e), e.kind \in WorkerKinds,
           UNCHANGED <<pc, op, own, folded, gaps, count, lastSeq, queried, snapshot, verdict>>
    PROVE  ProcessInv'
<1>0. /\ committed \in SUBSET Rows /\ own \in SUBSET Rows /\ gaps \in SUBSET Rows
      /\ committed' = committed
      /\ Rows \subseteq Rows' /\ \A r \in Rows : content'[r] = content[r]
      /\ \A r \in Rows : IsWeb(content', r) <=> IsWeb(content, r)
  BY InvFacts, RowAppended, AppendedKeepsMeaning DEF Appended
<1>1. WebRows(content', committed) = WebRows(content, committed)
  BY <1>0 DEF WebRows
<1>2. WebFolded'
  BY <1>0, <1>1 DEF IInv, WebInv, WebFolded, Pending
<1>3. ASSUME NEW C \in SUBSET Seqs, Counts(C) PROVE Counts(C)'
  BY <1>0, <1>3 DEF Counts, Known, Pending
<1>4. WebInv'
  BY <1>0, <1>1, <1>2, <1>3 DEF IInv, WebInv
<1>5. ASSUME NEW rows \in [1..Cardinality(own) -> own], IsBatch(rows) PROVE IsBatch(rows)'
  BY <1>0, <1>5 DEF IsBatch
<1>6. ASSUME pc \in {"appending", "appended", "collected"}
      PROVE  /\ VerdictOn(snapshot, verdict)'
             /\ (\E rows \in [1..Cardinality(own) -> own] : IsBatch(rows))'
             /\ (op = "rejected" => verdict.events = <<Noted>>)'
             /\ (\A r \in own, q \in folded : q < r)'
  <2>1. PICK rows \in [1..Cardinality(own) -> own] : IsBatch(rows)
    BY <1>6 DEF IInv, VerdictInv
  <2>2. rows \in [1..Cardinality(own) -> own]' /\ IsBatch(rows)'
    BY <1>5, <2>1
  <2> QED
    BY <1>6, <2>2 DEF IInv, VerdictInv
<1>7. ASSUME pc = "applied" PROVE \A i \in verdict'.notify : i \in ConfirmationIds /\ Notified(i, nextSeq)'
  BY <1>7, AppendedKeepsMeaning DEF IInv, VerdictInv
<1>8. VerdictInv'
  BY <1>6, <1>7 DEF IInv, VerdictInv
<1>9. SnapshotInv'
  BY AppendedKeepsMeaning
<1> QED
  BY <1>4, <1>8, <1>9 DEF ProcessInv

(* What the invariant says of the log, of a log with one row more.           *)
LEMMA RowLogged ==
    ASSUME IInv, NEW e, Appended(e),
           open' = open \/ open' = open \cup {nextSeq},
           e.kind \in WorkerKinds => nextSeq \in open',
           e.kind \in WebKinds => open' = open,
           UNCHANGED notifying,
           deliveries' \in [ConfirmationIds -> 0..MaxDeliveries],
           progress' \in [Delegations -> 0..(DelegationSteps + 2)],
           \A i \in ConfirmationIds : e.kind = "notification-delivered" /\ e.id = i => i \in notifying,
           \A d \in Delegations : DelegationRows(d)'
    PROVE  ContentInv' /\ AllFit(content, committed)'
<1>0. PICK new : new = nextSeq
  OBVIOUS
<1>1. /\ LogTyped' /\ Rows' = Rows \cup {new} /\ new \notin Rows /\ content'[new] = e
      /\ \A r \in Rows : content'[r] = content[r]
      /\ \A r \in Rows : IsWeb(content', r) <=> IsWeb(content, r)
      /\ committed' = committed /\ open \in SUBSET Rows
      /\ e.kind \in WebKinds \cup WorkerKinds
  BY <1>0, InvFacts, RowAppended, AppendedKeepsMeaning, EventFields DEF Appended
<1>2. /\ open' = open \/ open' = open \cup {new}
      /\ e.kind \in WorkerKinds => new \in open'
      /\ e.kind \in WebKinds => open' = open
  BY <1>0
<1>3. IsWeb(content', new) <=> e.kind \in WebKinds
  BY <1>1 DEF IsWeb
<1>4. \A r \in Rows' : ~IsWeb(content', r) => r \in committed' \cup open'
  BY <1>1, <1>2, <1>3 DEF IInv, ContentInv
<1>5. \A r \in open' : ~IsWeb(content', r)
  <2>1. e.kind \in WorkerKinds => e.kind \notin WebKinds
    BY DEF WebKinds, WorkerKinds, Decisions
  <2>2. \A r \in open : ~IsWeb(content', r)
    BY <1>1 DEF IInv, ContentInv
  <2> QED
    BY <1>1, <1>2, <1>3, <2>1, <2>2
<1>6. \A i \in notifying' : Notified(i, nextSeq)'
  BY AppendedKeepsMeaning DEF IInv, ContentInv
<1>7. ASSUME NEW r \in Rows', NEW i \in ConfirmationIds, Delivers(content', r, i)
      PROVE  Notified(i, r)'
  <2>1. Notified(i, r)
    <3>1. CASE r = new
      BY <1>0, <1>1, <1>7, <3>1 DEF IInv, ContentInv, Delivers
    <3>2. CASE r \in Rows
      BY <1>1, <1>7, <3>2 DEF IInv, ContentInv, Delivers
    <3> QED
      BY <1>1, <3>1, <3>2
  <2> QED
    BY <2>1, AppendedKeepsMeaning
<1>8. notifying' \subseteq ConfirmationIds
  BY DEF IInv, ContentInv
<1> QED
  BY <1>1, <1>4, <1>5, <1>6, <1>7, <1>8, AppendedKeepsMeaning DEF ContentInv

Logged == ContentInv' /\ AllFit(content, committed)' /\ ProcessInv'

(* The worker inserts the next event of a delegation.                        *)
LEMMA DelegationEventLogged ==
    ASSUME IInv, NEW d \in Delegations, InsertDelegationEvent(d)
    PROVE  Logged
<1>0. /\ progress[d] < DelegationSteps + 2 /\ ~InFlight(d)
      /\ open' = open \cup {nextSeq} /\ nextSeq' = nextSeq + 1
      /\ content' = Append(content, DelegationEvent(d, progress[d] + 1))
      /\ progress' = [progress EXCEPT ![d] = @ + 1]
      /\ UNCHANGED <<committed, notifying, deliveries>>
      /\ UNCHANGED <<pc, op, own, folded, gaps, count, lastSeq, queried, snapshot, verdict>>
  BY DEF InsertDelegationEvent, ForeignAllocate, logState, request
<1>1. /\ progress \in [Delegations -> 0..(DelegationSteps + 2)]
      /\ deliveries \in [ConfirmationIds -> 0..MaxDeliveries]
  BY DEF IInv, ContentInv
<1>2. PICK k \in 1..(DelegationSteps + 2) : k = progress[d] + 1
  BY <1>0, <1>1, ReplayAssumption
<1>3. PICK e : e = DelegationEvent(d, k)
  OBVIOUS
<1>4. /\ e \in Events /\ e.delegation = d
      /\ e.kind \in {"delegation-started", "delegation-step", "delegation-completed"}
  BY <1>3, DelegationEventIs
<1>5. Appended(e)
  BY <1>0, <1>2, <1>3, <1>4 DEF Appended
<1>6. /\ progress'[d] = progress[d] + 1 /\ progress' \in [Delegations -> 0..(DelegationSteps + 2)]
      /\ \A x \in Delegations : x # d => progress'[x] = progress[x]
  BY <1>0, <1>1, <1>2
<1>7. ASSUME NEW x \in Delegations PROVE DelegationRows(x)'
  <2>1. CASE x = d
    <3>1. e = DelegationEvent(d, progress[d] + 1)
      BY <1>2, <1>3
    <3>2. DelegationRows(d)'
      BY <1>0, <1>5, <1>6, <3>1, NextRow
    <3> QED
      BY <2>1, <3>2
  <2>2. CASE x # d
    BY <1>4, <1>5, <1>6, <2>2, OtherRow
  <2> QED
    BY <2>1, <2>2
<1>8. e.kind \in WorkerKinds /\ e.kind \notin WebKinds /\ e.kind # "notification-delivered"
  BY <1>4 DEF WorkerKinds, WebKinds, Decisions
<1>9. ProcessInv'
  BY <1>0, <1>5, <1>8, ForeignRowKeeps
<1>10. ContentInv' /\ AllFit(content, committed)'
  <2>1. nextSeq \in open'
    BY <1>0
  <2> QED
    BY <1>0, <1>1, <1>5, <1>6, <1>7, <1>8, <2>1, RowLogged
<1> QED
  BY <1>9, <1>10 DEF Logged

(* The worker inserts a delivery.                                            *)
LEMMA DeliveryLogged ==
    ASSUME IInv, NEW i \in ConfirmationIds, InsertDelivery(i)
    PROVE  Logged
<1>0. /\ i \in notifying /\ deliveries[i] < MaxDeliveries
      /\ open' = open \cup {nextSeq} /\ nextSeq' = nextSeq + 1
      /\ content' = Append(content, Delivered(i))
      /\ deliveries' = [deliveries EXCEPT ![i] = @ + 1]
      /\ UNCHANGED <<committed, notifying, progress>>
      /\ UNCHANGED <<pc, op, own, folded, gaps, count, lastSeq, queried, snapshot, verdict>>
  BY DEF InsertDelivery, ForeignAllocate, logState, request
<1>1. /\ progress \in [Delegations -> 0..(DelegationSteps + 2)]
      /\ deliveries \in [ConfirmationIds -> 0..MaxDeliveries]
  BY DEF IInv, ContentInv
<1>2. PICK e : e = Delivered(i)
  OBVIOUS
<1>3. e \in Events /\ e.kind = "notification-delivered" /\ e.id = i
  BY <1>2, WorkerEvents
<1>4. Appended(e)
  BY <1>0, <1>2, <1>3 DEF Appended
<1>5. deliveries' \in [ConfirmationIds -> 0..MaxDeliveries]
  BY <1>0, <1>1, ReplayAssumption
<1>6. ASSUME NEW x \in Delegations PROVE DelegationRows(x)'
  <2>1. "delegation" \notin DOMAIN e
    BY <1>3, EventFields
  <2> QED
    BY <1>0, <1>4, <2>1, OtherRow
<1>7. e.kind \in WorkerKinds /\ e.kind \notin WebKinds
  BY <1>3 DEF WorkerKinds, WebKinds, Decisions
<1>8. ProcessInv'
  BY <1>0, <1>4, <1>7, ForeignRowKeeps
<1>9. ContentInv' /\ AllFit(content, committed)'
  <2>1. nextSeq \in open'
    BY <1>0
  <2> QED
    BY <1>0, <1>1, <1>3, <1>4, <1>5, <1>6, <1>7, <2>1, RowLogged
<1> QED
  BY <1>8, <1>9 DEF Logged

(* Rows become visible.                                                      *)
LEMMA CommitKeepsContent ==
    ASSUME IInv, committed \subseteq committed', committed' \subseteq Rows,
           open' \subseteq open, open \subseteq open' \cup committed',
           UNCHANGED <<nextSeq, content, notifying, deliveries, progress>>
    PROVE  /\ ContentInv'
           /\ \A i, n : Notified(i, n) => Notified(i, n)'
           /\ \A r \in committed' : WorkerFits(content, Below(committed', r), r)
<1>1. LogTyped' /\ Rows' = Rows
  BY DEF IInv, ContentInv, LogTyped, Rows
<1>2. \A i, n : Notified(i, n) => Notified(i, n)'
  BY DEF Notified
<1>3. \A d \in Delegations : DelegationRows(d)'
  <2> SUFFICES ASSUME NEW d \in Delegations PROVE DelegationRows(d)'
    OBVIOUS
  <2>1. DelegationRows(d)
    BY DEF IInv, ContentInv
  <2>2. \A r, k : EventIs(r, d, k)' <=> EventIs(r, d, k)
    BY DEF EventIs
  <2> QED
    BY <1>1, <2>1, <2>2 DEF DelegationRows
<1>4. \A r \in Rows' : ~IsWeb(content', r) => r \in committed' \cup open'
  BY <1>1 DEF IInv, ContentInv
<1>5. \A r \in open' : ~IsWeb(content', r)
  BY DEF IInv, ContentInv
<1>6. \A i \in notifying' : Notified(i, nextSeq)'
  <2>1. PICK n : n = nextSeq /\ n = nextSeq'
    OBVIOUS
  <2>2. \A i \in notifying : Notified(i, n)
    BY <2>1 DEF IInv, ContentInv
  <2>3. \A i \in notifying : Notified(i, n)'
    BY <1>2, <2>2
  <2> QED
    BY <2>1, <2>3 DEF Notified
<1>7. \A r \in Rows', i \in ConfirmationIds : Delivers(content', r, i) => Notified(i, r)'
  BY <1>1, <1>2 DEF IInv, ContentInv
<1>8. ContentInv'
  <2>1. /\ notifying' \subseteq ConfirmationIds
        /\ deliveries' \in [ConfirmationIds -> 0..MaxDeliveries]
        /\ progress' \in [Delegations -> 0..(DelegationSteps + 2)]
    BY DEF IInv, ContentInv
  <2> QED
    BY <1>1, <1>3, <1>4, <1>5, <1>6, <1>7, <2>1 DEF ContentInv
<1>9. \A r \in committed' : WorkerFits(content, Below(committed', r), r)
  BY <1>1, <1>8, CommittedFitNext
<1> QED
  BY <1>2, <1>8, <1>9

(* A row of the worker becomes visible.                                      *)
LEMMA ForeignCommitLogged ==
    ASSUME IInv, CommitForeign
    PROVE  Logged
<1>0. PICK rows \in SUBSET open :
         /\ open' = open \ rows /\ committed' = committed \cup rows
         /\ Cardinality(committed' \ committed) = 1
         /\ UNCHANGED <<nextSeq, content, notifying, deliveries, progress>>
         /\ UNCHANGED <<pc, op, own, folded, gaps, count, lastSeq, queried, snapshot, verdict>>
  BY DEF CommitForeign, ForeignCommit, logState, request, contents
<1>1. /\ committed \in SUBSET Rows /\ open \in SUBSET Rows /\ Rows \in SUBSET Seqs
      /\ committed' \subseteq Rows
  BY <1>0, InvFacts
<1>2. PICK r : committed' \ committed = {r}
  <2>1. IsFiniteSet(committed' \ committed)
    BY <1>1, CountingEvents
  <2> QED
    BY <1>0, <2>1, FS_Singleton
<1>3. r \in open /\ r \in Rows /\ committed' = committed \cup {r} /\ ~IsWeb(content, r)
  BY <1>0, <1>1, <1>2 DEF IInv, ContentInv
<1>4. ContentInv' /\ \A q \in committed' : WorkerFits(content, Below(committed', q), q)
  BY <1>0, <1>1, CommitKeepsContent
<1>5. AllFit(content, committed)'
  <2>1. AllFit(content, committed \cup {r})
    BY <1>3, <1>4, ForeignFits DEF IInv
  <2> QED
    BY <1>0, <1>3, <2>1
<1>6. WebRows(content, committed') = WebRows(content, committed)
  BY <1>3 DEF WebRows
<1>7. WebFolded'
  BY <1>0, <1>6 DEF IInv, WebInv, WebFolded, Pending
<1>8. ASSUME NEW C \in SUBSET Seqs, Counts(C) PROVE Counts(C)'
  BY <1>0, <1>8 DEF Counts, Known, Pending
<1>9. WebInv'
  <2>1. own' \subseteq Rows' /\ (\A q \in own' : IsWeb(content', q)) /\ (\A q \in gaps' : ~IsWeb(content', q))
    BY <1>0 DEF IInv, WebInv, Rows
  <2>2. pc' = "counted" => queried' \subseteq committed' /\ WebRows(content', committed') \subseteq queried'
    BY <1>0, <1>6 DEF IInv, WebInv
  <2>3. pc' # "down" => \E C \in SUBSET Seqs : Counts(C)'
    BY <1>0, <1>8 DEF IInv, WebInv
  <2> QED
    BY <1>7, <2>1, <2>2, <2>3 DEF WebInv
<1>10. VerdictInv'
  <2>1. ASSUME pc \in {"appending", "appended", "collected"}
        PROVE  /\ VerdictOn(snapshot, verdict)'
               /\ (\E batch \in [1..Cardinality(own) -> own] : IsBatch(batch))'
               /\ (op = "rejected" => verdict.events = <<Noted>>)'
               /\ (\A q \in own, p \in folded : p < q)'
    <3>1. PICK batch \in [1..Cardinality(own) -> own] : IsBatch(batch)
      BY <2>1 DEF IInv, VerdictInv
    <3>2. batch \in [1..Cardinality(own) -> own]' /\ IsBatch(batch)'
      BY <1>0, <3>1 DEF IsBatch
    <3> QED
      BY <1>0, <2>1, <3>2 DEF IInv, VerdictInv
  <2>2. ASSUME pc = "applied" PROVE \A i \in verdict'.notify : i \in ConfirmationIds /\ Notified(i, nextSeq)'
    <3>1. \A i \in verdict.notify : i \in ConfirmationIds /\ Notified(i, nextSeq)
      BY <2>2 DEF IInv, VerdictInv
    <3> QED
      BY <1>0, <3>1 DEF Notified
  <2>3. pc \in {"appended", "collected"} => (Cardinality(own) = Len(verdict.events))'
    BY <1>0 DEF IInv, VerdictInv
  <2> QED
    BY <1>0, <2>1, <2>2, <2>3 DEF VerdictInv
<1>11. SnapshotInv'
  BY <1>0, SnapshotKept
<1> QED
  BY <1>4, <1>5, <1>9, <1>10, <1>11 DEF Logged, ProcessInv

(* The next event of the verdict is inserted.                                *)
LEMMA OwnRowLogged ==
    ASSUME IInv, InsertOwn
    PROVE  Logged
<1>0. /\ pc = "appending" /\ pc' = "appending" /\ Cardinality(own) < Len(verdict.events)
      /\ own' = own \cup {nextSeq} /\ nextSeq' = nextSeq + 1 /\ nextSeq <= MaxSeq
      /\ content' = Append(content, verdict.events[Cardinality(own) + 1])
      /\ UNCHANGED <<committed, open, notifying, deliveries, progress>>
      /\ UNCHANGED <<op, folded, gaps, count, lastSeq, queried, snapshot, verdict>>
  BY DEF InsertOwn, OwnInsert, logState
<1>1. VerdictOn(snapshot, verdict) /\ verdict.events \in Seq(WebEvent)
  BY <1>0 DEF IInv, VerdictInv, VerdictOn
<1>2. /\ own \in SUBSET Rows /\ own \in SUBSET Seqs /\ committed \in SUBSET Rows /\ gaps \in SUBSET Rows
      /\ folded \in SUBSET Rows /\ IsFiniteSet(own) /\ nextSeq \in Nat
  BY InvFacts, CountingEvents
<1>3. PICK n \in Nat : n = Cardinality(own)
  BY <1>2, CountingEvents
<1>4. PICK e : e = verdict.events[n + 1]
  OBVIOUS
<1>5. e \in WebEvent /\ e \in Events /\ e.kind \in WebKinds
  <2>1. PICK log \in Seq(WebEvent) : log = verdict.events
    BY <1>1
  <2>2. n + 1 \in 1..Len(log)
    BY <1>0, <1>3, <2>1
  <2> QED
    BY <1>4, <2>1, <2>2 DEF WebEvent
<1>6. Appended(e)
  BY <1>0, <1>3, <1>4, <1>5 DEF Appended
<1>7. PICK new : new = nextSeq
  OBVIOUS
<1>8. /\ Rows' = Rows \cup {new} /\ new \notin Rows /\ content'[new] = e /\ new \in Nat
      /\ \A r \in Rows : content'[r] = content[r] /\ (IsWeb(content', r) <=> IsWeb(content, r))
      /\ \A r \in Rows : r < new
  <2>1. \A r \in Rows : r < nextSeq
    BY <1>2 DEF Rows
  <2> QED
    BY <1>2, <1>6, <1>7, <2>1, RowAppended, AppendedKeepsMeaning
<1>9. own' = own \cup {new} /\ Cardinality(own') = n + 1
  <2>1. new \notin own
    BY <1>2, <1>8
  <2> QED
    BY <1>0, <1>2, <1>3, <1>7, <2>1, FS_AddElement
<1>10. ContentInv' /\ AllFit(content, committed)'
  <2>1. \A d \in Delegations : DelegationRows(d)'
    <3>1. "delegation" \notin DOMAIN e
      BY <1>5, EventFields DEF WebKinds, Decisions
    <3> QED
      BY <1>0, <1>6, <3>1, OtherRow
  <2>2. e.kind \notin WorkerKinds /\ e.kind # "notification-delivered"
    BY <1>5 DEF WebKinds, WorkerKinds, Decisions
  <2>3. /\ progress' \in [Delegations -> 0..(DelegationSteps + 2)]
        /\ deliveries' \in [ConfirmationIds -> 0..MaxDeliveries]
    BY <1>0 DEF IInv, ContentInv
  <2> QED
    BY <1>0, <1>5, <1>6, <2>1, <2>2, <2>3, RowLogged
<1>11. WebRows(content', committed) = WebRows(content, committed)
  BY <1>2, <1>8 DEF WebRows
<1>12. WebFolded'
  BY <1>0, <1>11 DEF IInv, WebInv, WebFolded, Pending
<1>13. PICK C \in SUBSET Seqs : Counts(C)
  BY <1>0 DEF IInv, WebInv
<1>14. Counts(C)'
  <2>1. C \subseteq Rows /\ Pending = {} /\ Pending' = {}
    BY <1>0, <1>2, <1>13 DEF Counts, Pending
  <2>2. \A r \in C : (r \in folded \/ ~IsWeb(content, r)) /\ r <= lastSeq
    BY <1>13, <2>1 DEF Counts
  <2>3. \A r \in C : (r \in folded' \/ ~IsWeb(content', r)) /\ r <= lastSeq'
    BY <1>0, <1>8, <2>1, <2>2
  <2>4. C \subseteq committed' /\ count' = Cardinality(C) /\ Known' \subseteq C
    BY <1>0, <1>13 DEF Counts, Known
  <2> QED
    BY <1>0, <2>1, <2>3, <2>4 DEF Counts
<1>15. WebInv'
  <2>1. own' \subseteq Rows' /\ (\A r \in own' : IsWeb(content', r)) /\ (\A r \in gaps' : ~IsWeb(content', r))
    <3>1. IsWeb(content', new)
      BY <1>5, <1>8 DEF IsWeb
    <3>2. \A r \in own : IsWeb(content, r)
      BY DEF IInv, WebInv
    <3>3. \A r \in gaps : ~IsWeb(content, r)
      BY DEF IInv, WebInv
    <3> QED
      BY <1>0, <1>2, <1>8, <1>9, <3>1, <3>2, <3>3
  <2> QED
    BY <1>0, <1>12, <1>14, <2>1 DEF WebInv
<1>16. SnapshotInv'
  BY <1>0, <1>6, AppendedKeepsMeaning
<1>17. VerdictInv'
  <2>1. PICK rows \in [1..n -> own] : IsBatch(rows)
    BY <1>0, <1>3 DEF IInv, VerdictInv
  <2>2. /\ \A j, k \in 1..n : j < k => rows[j] < rows[k]
        /\ \A r \in own : \E k \in 1..n : rows[k] = r
        /\ \A k \in 1..n : rows[k] \in own /\ content[rows[k]] = verdict.events[k]
    BY <1>3, <2>1 DEF IsBatch
  <2>3. PICK longer \in [1..(n + 1) -> own \cup {new}] :
           longer[n + 1] = new /\ \A k \in 1..n : longer[k] = rows[k]
    <3> DEFINE l == [k \in 1..(n + 1) |-> IF k = n + 1 THEN new ELSE rows[k]]
    <3>1. l \in [1..(n + 1) -> own \cup {new}] /\ l[n + 1] = new /\ \A k \in 1..n : l[k] = rows[k]
      BY <2>2
    <3> QED
      BY <3>1
  <2>4. \A k \in 1..(n + 1) : k \in 1..n \/ k = n + 1
    OBVIOUS
  <2>5. \A j, k \in 1..(n + 1) : j < k => longer[j] < longer[k]
    <3> SUFFICES ASSUME NEW j \in 1..(n + 1), NEW k \in 1..(n + 1), j < k PROVE longer[j] < longer[k]
      OBVIOUS
    <3>1. j \in 1..n
      OBVIOUS
    <3>2. rows[j] \in Rows /\ rows[j] < new
      BY <1>2, <1>8, <2>2, <3>1
    <3> QED
      BY <2>2, <2>3, <2>4, <3>1, <3>2
  <2>6. \A r \in own' : \E k \in 1..(n + 1) : longer[k] = r
    <3>1. n + 1 \in 1..(n + 1) /\ \A k \in 1..n : k \in 1..(n + 1)
      OBVIOUS
    <3> QED
      BY <1>9, <2>2, <2>3, <3>1
  <2>7. \A k \in 1..(n + 1) : content'[longer[k]] = verdict.events[k]
    BY <1>2, <1>4, <1>8, <2>2, <2>3, <2>4
  <2>8. n + 1 <= Len(verdict.events)
    BY <1>0, <1>1, <1>3
  <2>9. IsBatch(longer)' /\ longer \in [1..Cardinality(own) -> own]'
    BY <1>0, <1>9, <2>3, <2>5, <2>6, <2>7, <2>8 DEF IsBatch
  <2>10. VerdictOn(snapshot, verdict)' /\ (op = "rejected" => verdict.events = <<Noted>>)'
    BY <1>0, <1>1 DEF IInv, VerdictInv
  <2>11. \A r \in own', q \in folded' : q < r
    BY <1>0, <1>2, <1>8, <1>9 DEF IInv, VerdictInv
  <2> QED
    BY <1>0, <2>9, <2>10, <2>11 DEF VerdictInv
<1> QED
  BY <1>10, <1>15, <1>16, <1>17 DEF Logged, ProcessInv

(* The batch becomes visible: each of its rows fits where it is in the log.  *)
LEMMA BatchCommitted ==
    ASSUME IInv, pc = "appending", committed' = committed \cup own,
           UNCHANGED <<nextSeq, open, content, notifying, deliveries, progress>>
    PROVE  /\ ContentInv' /\ AllFit(content, committed)'
           /\ WebRows(content, committed) \subseteq folded
           /\ \A r \in own, q \in folded : q < r
<1>0. /\ LogTyped /\ own \in SUBSET Rows /\ own \in SUBSET Seqs
      /\ committed \in SUBSET Rows /\ folded \in SUBSET committed
      /\ folded \in SUBSET Rows
  BY InvFacts
<1>1. PICK rows \in [1..Cardinality(own) -> own] : IsBatch(rows)
  BY DEF IInv, VerdictInv
<1>2. /\ VerdictOn(snapshot, verdict) /\ Represents(content, snapshot, folded)
      /\ \A r \in own, q \in folded : q < r
  BY DEF IInv, VerdictInv, SnapshotInv
<1>3. Cardinality(own) \in Nat
  BY <1>0, CountingEvents
<1>4. \A r \in own : IsWeb(content, r) /\ Fits(content, folded \cup Below(own, r), r)
  BY <1>0, <1>1, <1>2, <1>3, BatchFolds DEF IInv, WebInv
<1>5. WebRows(content, committed) \subseteq folded
  BY DEF IInv, WebInv, WebFolded, Pending, WebRows
<1>6. PICK all : all = committed \cup own /\ all = committed'
  OBVIOUS
<1>7. ContentInv' /\ \A r \in all : WorkerFits(content, Below(all, r), r)
  BY <1>0, <1>6, CommitKeepsContent
<1>8. AllFit(content, all)
  <2>1. \A r \in committed : ~IsWeb(content, r) => WorkerFits(content, Below(committed \cup own, r), r)
    BY <1>6, <1>7
  <2>2. AllFit(content, committed)
    BY DEF IInv
  <2> QED
    BY <1>0, <1>2, <1>4, <1>5, <1>6, <2>1, <2>2, BatchFits
<1> QED
  BY <1>2, <1>5, <1>6, <1>7, <1>8

(* The batch is committed and counted.                                       *)
LEMMA CommitLogged ==
    ASSUME IInv, CommitOwn
    PROVE  Logged
<1>0. /\ pc = "appending" /\ pc' = "appended" /\ Cardinality(own) = Len(verdict.events)
      /\ committed' = committed \cup own /\ count' = count + Cardinality(own)
      /\ UNCHANGED <<nextSeq, open, folded, gaps, lastSeq, op, queried, own>>
      /\ UNCHANGED <<content, snapshot, verdict, notifying, deliveries, progress>>
  BY DEF CommitOwn, WholeBatch, OwnCommit, request, contents
<1>1. ContentInv' /\ AllFit(content, committed)' /\ WebRows(content, committed) \subseteq folded
  BY <1>0, BatchCommitted
<1>2. PICK C \in SUBSET Seqs : Counts(C)
  BY <1>0 DEF IInv, WebInv
<1>3. /\ own \in SUBSET Seqs /\ (\A r \in own : lastSeq < r) /\ lastSeq \in Nat
      /\ \A r \in C : r <= lastSeq /\ r \in Nat
  <2>1. own \in SUBSET Seqs /\ lastSeq \in Nat /\ \A r \in own : lastSeq < r
    BY <1>0, InvFacts DEF IInv, OrderInv, AppendFresh
  <2>2. \A r \in C : r <= lastSeq /\ r \in Nat
    BY <1>0, <1>2 DEF Counts, Pending, Seqs
  <2> QED
    BY <2>1, <2>2
<1>4. PICK D \in SUBSET Seqs : D = C \cup own
  BY <1>3
<1>5. Counts(D)'
  <2>1. C \cap own = {}
    <3> SUFFICES ASSUME NEW r \in C, r \in own PROVE FALSE
      OBVIOUS
    <3> QED
      BY <1>3
  <2>2. Cardinality(D) = count'
    BY <1>0, <1>2, <1>3, <1>4, <2>1, CountingDisjointEvents DEF Counts
  <2>3. Pending' = own
    BY <1>0 DEF Pending
  <2>4. D \subseteq committed' /\ Known' \cup own \subseteq D
    BY <1>0, <1>2, <1>4 DEF Counts, Known
  <2>5. ASSUME NEW r \in D
        PROVE  (r \in folded' \cup own \/ ~IsWeb(content', r)) /\ (r <= lastSeq' \/ r \in own)
    BY <1>0, <1>2, <1>4 DEF Counts, Pending, IsWeb
  <2> QED
    BY <1>0, <2>2, <2>3, <2>4, <2>5 DEF Counts
<1>6. WebFolded'
  <2>1. WebRows(content', committed') \subseteq folded' \cup own'
    BY <1>0, <1>1 DEF WebRows, IsWeb
  <2> QED
    BY <1>0, <2>1 DEF WebFolded, Pending
<1>7. WebInv'
  BY <1>0, <1>5, <1>6 DEF IInv, WebInv, IsWeb, Rows
<1>8. VerdictInv'
  <2>1. PICK rows \in [1..Cardinality(own) -> own] : IsBatch(rows)
    BY <1>0 DEF IInv, VerdictInv
  <2>2. IsBatch(rows)' /\ rows \in [1..Cardinality(own) -> own]'
    BY <1>0, <2>1 DEF IsBatch
  <2>3. /\ VerdictOn(snapshot, verdict)' /\ (op = "rejected" => verdict.events = <<Noted>>)'
        /\ (\A r \in own, q \in folded : q < r)' /\ (Cardinality(own) = Len(verdict.events))'
    BY <1>0 DEF IInv, VerdictInv
  <2> QED
    BY <1>0, <2>2, <2>3 DEF VerdictInv
<1>9. SnapshotInv'
  BY <1>0, SnapshotKept
<1> QED
  BY <1>1, <1>7, <1>8, <1>9 DEF Logged, ProcessInv

(* The answer is lost: the process will read the rows it has just written.   *)
LEMMA UnacknowledgedLogged ==
    ASSUME IInv, CommitUnacknowledged
    PROVE  Logged
<1>0. /\ pc = "appending" /\ pc' = "idle" /\ own' = {}
      /\ committed' = committed \cup own
      /\ UNCHANGED <<nextSeq, open, folded, gaps, count, lastSeq>>
      /\ UNCHANGED <<content, snapshot, notifying, deliveries, progress>>
  BY DEF CommitUnacknowledged, OwnCommitUnacknowledged, Return, EndRequest, logState
<1>1. ContentInv' /\ AllFit(content, committed)' /\ WebRows(content, committed) \subseteq folded
  BY <1>0, BatchCommitted
<1>2. PICK C \in SUBSET Seqs : Counts(C)
  BY <1>0 DEF IInv, WebInv
<1>3. \A r \in own : lastSeq < r
  BY <1>0 DEF IInv, OrderInv, AppendFresh
<1>4. Counts(C)'
  BY <1>0, <1>2 DEF Counts, Known, Pending, IsWeb
<1>5. WebFolded'
  <2>1. \A r \in WebRows(content', committed') : r \in folded' \/ lastSeq' < r
    BY <1>0, <1>1, <1>3 DEF WebRows, IsWeb
  <2> QED
    BY <1>0, <2>1 DEF WebFolded, Pending
<1>6. WebInv'
  BY <1>0, <1>4, <1>5 DEF IInv, WebInv, IsWeb
<1> QED
  BY <1>0, <1>1, <1>6, SnapshotKept, Quiet DEF Logged, ProcessInv

-----------------------------------------------------------------------------
(* Every step, and the theorems.                                             *)

(* A step that leaves the log alone.                                         *)
LEMMA QuietStep ==
    ASSUME IInv, UNCHANGED <<nextSeq, committed, open, content, notifying, deliveries, progress>>
    PROVE  ContentInv' /\ AllFit(content, committed)'
<1>1. \A i \in notifying' : i \in ConfirmationIds /\ Notified(i, nextSeq)
  BY DEF IInv, ContentInv
<1> QED
  BY <1>1, LogKept

(* Every step keeps the invariant.                                           *)
LEMMA ReplayStepLogged ==
    ASSUME IInv, ReplayNext
    PROVE  Logged
<1> USE DEF Logged
<1>1. ASSUME NEW d \in Delegations, InsertDelegationEvent(d) PROVE Logged
  BY <1>1, DelegationEventLogged
<1>2. ASSUME NEW i \in ConfirmationIds, InsertDelivery(i) PROVE Logged
  BY <1>2, DeliveryLogged
<1>3. CASE CommitForeign
  BY <1>3, ForeignCommitLogged
<1>4. CASE InsertOwn
  BY <1>4, OwnRowLogged
<1>5. CASE CommitOwn
  BY <1>5, CommitLogged
<1>6. CASE CommitUnacknowledged
  BY <1>6, UnacknowledgedLogged
<1>7. CASE StartRequest
  BY <1>7, StartKeeps, QuietStep DEF StartRequest, StartExec, StartOperation, database, contents
<1>8. CASE RefreshSnapshot
  BY <1>8, RefreshKeeps, QuietStep
  DEF RefreshSnapshot, FoldOnRefresh, RefreshUnchanged, RefreshFresh, RefreshRebuild,
      RefreshMismatch, database, contents
<1>9. CASE ThrowOnFold
  BY <1>9, ThrowKeeps, QuietStep
  DEF ThrowOnFold, GapFoldThrows, FreshFoldThrows, RebuildThrows, EndRequest, database
<1>10. CASE JudgeRequest
  <2>1. UNCHANGED <<nextSeq, committed, open, content, notifying, deliveries, progress>>
    BY <1>10 DEF JudgeRequest, Reject, Accept, Judge, database
  <2> QED
    BY <1>10, <2>1, JudgeKeeps, QuietStep
<1>11. CASE JudgeNothing \/ AbortOwn
  BY <1>11, NothingKeeps, QuietStep
  DEF JudgeNothing, AcceptNothing, AbortOwn, OwnRollback, EndRequest, database, contents
<1>12. CASE CollectGapRows
  BY <1>12, CollectKeeps, QuietStep DEF CollectGapRows, CollectGap, database, contents
<1>13. CASE FinishRejected
  BY <1>13, RejectedKeeps, QuietStep DEF FinishRejected, FinishRejection, EndRequest, database
<1>14. CASE InstallVerdict
  BY <1>14, InstallKeeps, QuietStep DEF InstallVerdict, OverwriteSnapshot, database
<1>15. CASE FinishAccepted
  <2>1. /\ pc = "applied" /\ notifying' = notifying \cup verdict.notify
        /\ UNCHANGED <<nextSeq, committed, open, content, deliveries, progress>>
    BY <1>15 DEF FinishAccepted, FinishFoldingGaps, FinishLeavingGaps, database
  <2>2. \A i \in notifying' : i \in ConfirmationIds /\ Notified(i, nextSeq)
    BY <2>1 DEF IInv, ContentInv, VerdictInv
  <2> QED
    BY <1>15, <2>1, <2>2, AcceptedKeeps, LogKept
<1>16. CASE CrashProcess
  BY <1>16, CrashKeeps, QuietStep DEF CrashProcess, Crash, EndRequest, database
<1>17. CASE BootProcess
  BY <1>17, BootKeeps, QuietStep DEF BootProcess, Boot, database
<1> QED
  BY <1>1, <1>2, <1>3, <1>4, <1>5, <1>6, <1>7, <1>8, <1>9, <1>10, <1>11, <1>12, <1>13, <1>14,
     <1>15, <1>16, <1>17 DEF ReplayNext

(* Nothing happens.                                                          *)
LEMMA StutterLogged ==
    ASSUME IInv, UNCHANGED replayVars
    PROVE  Logged
<1>0. /\ UNCHANGED <<nextSeq, committed, open, content, notifying, deliveries, progress>>
      /\ UNCHANGED <<pc, op, queried, folded, gaps, count, lastSeq, own, base, snapshot, verdict>>
  BY DEF replayVars, vars, contents, database, logState, request
<1>1. ASSUME NEW C \in SUBSET Seqs, Counts(C) PROVE Counts(C)'
  BY <1>0, <1>1 DEF Counts, Known, Pending, IsWeb
<1>2. WebInv'
  BY <1>0, <1>1 DEF IInv, WebInv, WebFolded, Pending, WebRows, IsWeb, Rows
<1>3. VerdictInv'
  BY <1>0 DEF IInv, VerdictInv, IsBatch, VerdictOn, Notified, Requests
<1> QED
  BY <1>0, <1>2, <1>3, QuietStep, SnapshotKept DEF Logged, ProcessInv

(* So every step keeps the invariant.                                        *)
LEMMA IInvStep ==
    ASSUME IInv, [ReplayNext]_replayVars
    PROVE  IInv'
<1>1. [Next]_vars
  BY StepOfLog DEF replayVars
<1>2. OrderInv'
  BY <1>1, OrderInvStep DEF IInv
<1>3. Logged
  BY ReplayStepLogged, StutterLogged
<1> QED
  BY <1>2, <1>3 DEF IInv, Logged, ProcessInv

(* It holds of the empty log.                                                *)
LEMMA IInvInit == ReplayInit => IInv
<1> SUFFICES ASSUME ReplayInit PROVE IInv
  OBVIOUS
<1>0. /\ nextSeq = 1 /\ committed = {} /\ open = {} /\ pc = "down" /\ own = {} /\ folded = {}
      /\ gaps = {} /\ content = <<>> /\ snapshot = EmptySnapshot /\ notifying = {}
      /\ deliveries = [i \in ConfirmationIds |-> 0] /\ progress = [d \in Delegations |-> 0]
  BY DEF ReplayInit, Init
<1>1. OrderInv
  BY OrderInvInit DEF ReplayInit
<1>2. Rows = {}
  BY <1>0 DEF Rows
<1>3. ContentInv
  <2>1. LogTyped
    BY <1>0 DEF LogTyped
  <2>2. \A d \in Delegations : DelegationRows(d)
    BY <1>0, <1>2 DEF DelegationRows
  <2>3. /\ deliveries \in [ConfirmationIds -> 0..MaxDeliveries]
        /\ progress \in [Delegations -> 0..(DelegationSteps + 2)]
    BY <1>0, ReplayAssumption
  <2> QED
    BY <1>0, <1>2, <2>1, <2>2, <2>3 DEF ContentInv
<1>4. WebInv
  BY <1>0 DEF WebInv, WebFolded
<1>5. VerdictInv
  BY <1>0 DEF VerdictInv
<1>6. SnapshotInv
  BY <1>0, NothingRepresented DEF SnapshotInv, Complete
<1>7. AllFit(content, committed)
  BY <1>0 DEF AllFit
<1> QED
  BY <1>1, <1>3, <1>4, <1>5, <1>6, <1>7 DEF IInv

(* The invariant holds whatever order rows are committed in, wherever the    *)
(* process crashes, and whatever the verdicts.                               *)
THEOREM ReplayInvariant == ReplaySpec => []IInv
<1>1. IInv /\ [ReplayNext]_replayVars => IInv'
  BY IInvStep
<1> QED
  BY <1>1, IInvInit, PTL DEF ReplaySpec

(* Every variable keeps its type: the snapshot the process serves is never   *)
(* one a fold has thrown on.                                                 *)
THEOREM ReplayTypeCorrect == ReplaySpec => []ReplayTypeOK
<1>1. ASSUME IInv PROVE ReplayTypeOK
  <2>1. TypeOK /\ snapshot.ok /\ DOMAIN content = 1..(nextSeq - 1)
    <3>1. PICK log \in Seq(Events) : log = content /\ Len(log) = nextSeq - 1
      BY <1>1, InvFacts DEF LogTyped
    <3>2. DOMAIN log = 1..Len(log)
      BY <3>1
    <3> QED
      BY <1>1, <3>1, <3>2, InvFacts
  <2>2. /\ notifying \subseteq ConfirmationIds
        /\ deliveries \in [ConfirmationIds -> 0..MaxDeliveries]
        /\ progress \in [Delegations -> 0..(DelegationSteps + 2)]
    BY <1>1 DEF IInv, ContentInv
  <2> QED
    BY <2>1, <2>2 DEF ReplayTypeOK
<1> QED
  BY <1>1, ReplayInvariant, PTL

(* The replay of the log represents its rows.                                *)
LEMMA CommittedReplays ==
    ASSUME IInv
    PROVE  Represents(content, Replay(committed), committed)
BY InvFacts, FittingLogReplays DEF IInv

(* The log replays from nothing, whatever rows are visible (GOAL.md:167):    *)
(* boot and rebuild never throw.                                             *)
THEOREM LogAlwaysReplays == ReplaySpec => []LogReplays
<1>1. IInv => LogReplays
  BY CommittedReplays DEF LogReplays, Represents
<1> QED
  BY <1>1, ReplayInvariant, PTL

(* Between operations the snapshot is the replay, in ascending order, of     *)
(* the rows the process accounts for as folded, although it installed its    *)
(* verdicts before the gap rows below them (service.ts:227-232).             *)
THEOREM SnapshotAlwaysReplay == ReplaySpec => []SnapshotIsReplay
<1>1. ASSUME IInv, pc \in {"idle", "counted", "judge"} PROVE snapshot = Replay(folded)
  <2>0. /\ ContentInv /\ LogTyped /\ committed \in SUBSET Rows /\ folded \in SUBSET Rows
        /\ folded \in SUBSET committed /\ folded \in SUBSET Nat /\ lastSeq \in Nat
        /\ AllFit(content, committed)
    BY InvFacts, <1>1 DEF IInv
  <2>1. Represents(content, snapshot, folded) /\ Complete(folded)
    BY <1>1 DEF IInv, SnapshotInv
  <2>2. WebRows(content, {r \in committed : r <= lastSeq}) \subseteq folded
    <3> SUFFICES ASSUME NEW r \in committed, r <= lastSeq, IsWeb(content, r) PROVE r \in folded
      BY DEF WebRows
    <3>1. r \in folded \cup Pending \/ lastSeq < r
      BY <1>1 DEF IInv, WebInv, WebFolded, WebRows
    <3>2. Pending = {} /\ r \in Nat
      BY <1>1, <2>0, InvFacts DEF Pending
    <3> QED
      BY <2>0, <3>1, <3>2
  <2>3. \A r \in folded : r <= lastSeq
    BY <1>1, InvFacts DEF Known
  <2>4. AllFit(content, folded)
    BY <2>0, <2>1, <2>2, <2>3, FoldedFits
  <2>5. Represents(content, Replay(folded), folded)
    BY <2>0, <2>4, FittingLogReplays
  <2> QED
    BY <2>0, <2>1, <2>5, SameRowsSameSnapshot
<1> QED
  BY <1>1, ReplayInvariant, PTL DEF SnapshotIsReplay

(* A verdict is given on the node and the statuses the whole log has when    *)
(* its events are appended, stale as the snapshot may be in the rows of      *)
(* the worker.                                                               *)
THEOREM VerdictsAlwaysCurrent == ReplaySpec => []VerdictsAreCurrent
<1>1. ASSUME IInv, pc = "appending" PROVE Decided(snapshot) = Decided(Replay(committed))
  <2>1. WebRows(content, folded) = WebRows(content, committed)
    <3>1. WebRows(content, committed) \subseteq folded
      BY <1>1 DEF IInv, WebInv, WebFolded, Pending, WebRows
    <3>2. folded \subseteq committed
      BY <1>1, InvFacts
    <3> QED
      BY <3>1, <3>2 DEF WebRows
  <2>2. PICK s : s = Replay(committed)
    OBVIOUS
  <2>3. /\ Represents(content, snapshot, folded) /\ Represents(content, s, committed)
        /\ folded \in SUBSET Nat /\ committed \in SUBSET Nat
    BY <1>1, <2>2, CommittedReplays, InvFacts DEF IInv, SnapshotInv
  <2>4. /\ snapshot.node = s.node
        /\ \A i \in ConfirmationIds : snapshot.confirmations[i].status = s.confirmations[i].status
    BY <2>1, <2>3, DecidedByWeb
  <2> QED
    BY <2>2, <2>4 DEF Decided
<1> QED
  BY <1>1, ReplayInvariant, PTL DEF VerdictsAreCurrent

-----------------------------------------------------------------------------
(* What the log goes through: the replay, step by step, is the atomic        *)
(* store.                                                                    *)

(* A step that commits nothing leaves the replay as it was, rows appended or not. *)
LEMMA ReplayKept ==
    ASSUME IInv, IInv', committed' = committed, \A r \in committed : content'[r] = content[r]
    PROVE  Replay(committed)' = Replay(committed)
<1>1. PICK s, t : s = Replay(committed) /\ t = Replay(committed)'
  OBVIOUS
<1>2. Represents(content, s, committed)
  BY <1>1, CommittedReplays
<1>3. (Represents(content, Replay(committed), committed))'
  BY CommittedReplays, PTL
<1>4. Represents(content', t, committed)
  BY <1>1, <1>3
<1>5. Represents(content', s, committed)
  BY <1>2, RowsSayTheSame
<1>6. committed \in SUBSET Nat
  BY InvFacts
<1>7. s = t
  BY <1>4, <1>5, <1>6, SameRowsSameSnapshot
<1> QED
  BY <1>1, <1>7

(* The snapshot that represents what is committed after a step is the replay. *)
LEMMA ReplayIs ==
    ASSUME IInv', content' = content, committed' \in SUBSET Nat,
           NEW t, Represents(content, t, committed')
    PROVE  Replay(committed)' = t
<1>1. PICK u : u = Replay(committed)'
  OBVIOUS
<1>2. (Represents(content, Replay(committed), committed))'
  BY CommittedReplays, PTL
<1>3. Represents(content, u, committed')
  BY <1>1, <1>2
<1> QED
  BY <1>1, <1>3, SameRowsSameSnapshot

(* A row of a delegation is written when those before it are committed, and *)
(* none after it is there.                                                   *)
LEMMA FormerCommitted ==
    ASSUME IInv, NEW r \in open, r \notin committed, NEW d \in Delegations,
           NEW k \in 1..progress[d], EventIs(r, d, k), NEW j \in 1..progress[d]
    PROVE  (\E q \in committed : EventIs(q, d, j)) <=> j < k
<1>0. /\ DelegationRows(d) /\ r \in Rows /\ committed \in SUBSET Rows /\ Rows \in SUBSET Nat
      /\ j \in Int /\ k \in Int
  <2>1. ContentInv /\ committed \in SUBSET Rows /\ open \in SUBSET Rows /\ Rows \in SUBSET Nat
    BY InvFacts DEF IInv
  <2>2. DelegationRows(d)
    BY <2>1 DEF ContentInv
  <2> QED
    BY <2>1, <2>2
<1>1. ASSUME j < k PROVE \E q \in committed : EventIs(q, d, j)
  BY <1>0, <1>1 DEF DelegationRows
<1>2. ASSUME NEW q \in committed, EventIs(q, d, j), ~(j < k) PROVE FALSE
  <2>1. k <= j /\ q \in Rows
    BY <1>0, <1>2
  <2>2. CASE k < j
    <3>1. r \in committed
      BY <1>0, <1>2, <2>1, <2>2 DEF DelegationRows
    <3> QED
      BY <3>1
  <2>3. CASE k = j
    <3>1. q <= r /\ r <= q
      BY <1>0, <1>2, <2>1, <2>3 DEF DelegationRows
    <3>2. q = r
      BY <1>0, <2>1, <3>1
    <3> QED
      BY <1>2, <3>2
  <2> QED
    BY <1>0, <2>1, <2>2, <2>3
<1> QED
  BY <1>1, <1>2

(* So a row of the worker fits on everything that is committed before it.   *)
LEMMA WorkerRowFits ==
    ASSUME IInv, NEW r \in open, r \notin committed
    PROVE  /\ Fits(content, committed, r)
           /\ \A d \in Delegations : (\E n : StepsTo(content, r, d, n)) =>
                ~\E q \in committed : Finishes(content, q, d)
<1>0. /\ ContentInv /\ r \in Rows /\ committed \in SUBSET Rows /\ ~IsWeb(content, r)
      /\ DelegationSteps \in Nat
  BY InvFacts, ReplayAssumption DEF IInv, ContentInv
<1>1. ASSUME NEW d \in Delegations PROVE DelegationFits(content, committed, r, d)
  <2>1. \A k, j \in 1..progress[d] : EventIs(r, d, k) =>
          ((\E q \in committed : EventIs(q, d, j)) <=> j < k)
    BY FormerCommitted
  <2> QED
    BY <1>0, <2>1, AfterFormerFits
<1>2. DeliveryFits(content, committed, r)
  BY <1>0 DEF ContentInv, Notified, DeliveryFits
<1>3. WebFits(content, committed, r)
  BY <1>0, OtherFamilyFits
<1>4. ASSUME NEW d \in Delegations, NEW n, StepsTo(content, r, d, n),
             NEW q \in committed, Finishes(content, q, d)
      PROVE  FALSE
  <2>1. n \in 1..DelegationSteps /\ n + 1 <= progress[d] /\ EventIs(r, d, n + 1)
    BY <1>0, <1>4, RowSays
  <2>2. progress[d] = DelegationSteps + 2 /\ EventIs(q, d, progress[d])
    BY <1>0, <1>4, RowSays
  <2>3. PICK k, j \in 1..progress[d] : k = n + 1 /\ j = progress[d]
    BY <1>0, <2>1, <2>2
  <2>4. j < k
    BY <1>4, <2>1, <2>2, <2>3, FormerCommitted
  <2> QED
    BY <1>0, <2>1, <2>2, <2>3, <2>4
<1> QED
  BY <1>1, <1>2, <1>3, <1>4 DEF Fits, WorkerFits

(* The kinds of steps of the abstract store are steps of it.                 *)
LEMMA StoreSteps ==
    ASSUME NEW s, NEW t
    PROVE  /\ \A a \in Actions : t \in Store!Executing(s, a) \/ t \in Store!Suspending(s, a) =>
                t \in Store!Steps(s)
           /\ \A plan \in Plans : t \in Store!ExecutingPlan(s, plan) => t \in Store!Steps(s)
           /\ \A i \in ConfirmationIds : t \in Store!Deciding(s, i) \/ t \in Store!Delivering(s, i) =>
                t \in Store!Steps(s)
           /\ \A d \in Delegations : t \in Store!Delegating(s, d) => t \in Store!Steps(s)
BY DEF Store!Steps, ConfirmationIds, Store!ConfirmationIds

(* An event of the worker is a step of the store where it folds.             *)
LEMMA WorkerEventSteps ==
    ASSUME NEW s \in Snapshot, s.ok = TRUE, NEW e \in Events, e.kind \in WorkerKinds,
           NEW t, t = Apply(s, e), t.ok = TRUE,
           e.kind = "delegation-step" => s.delegations[e.delegation].status # "completed"
    PROVE  t \in Store!Steps(s)
<1>1. CASE e.kind = "notification-delivered"
  <2>1. PICK i \in ConfirmationIds : i = e.id
    BY <1>1, EventFields
  <2>2. s.confirmations[i].status # "none"
    BY <1>1, <2>1, ApplyDeliveredIs
  <2>3. t = [s EXCEPT !.confirmations[i].notified = TRUE]
    BY <1>1, <2>1, <2>2 DEF Apply, ApplyDelivered
  <2>4. t \in Store!Delivering(s, i)
    BY <2>2, <2>3 DEF Store!Delivering
  <2> QED
    BY <2>4, StoreSteps
<1>2. CASE e.kind \in {"delegation-started", "delegation-step", "delegation-completed"}
  <2>1. PICK d \in Delegations : d = e.delegation
    BY <1>2, EventFields
  <2>2. s.delegations[d].status \in {"none", "running", "completed"}
    BY DEF Snapshot, Delegation
  <2>3. CASE e.kind = "delegation-started"
    <3>1. s.delegations[d].status = "none"
      BY <2>1, <2>3, ApplyStartedIs
    <3>2. t = [s EXCEPT !.delegations[d] = [status |-> "running", steps |-> 0]]
      BY <2>1, <2>3, <3>1 DEF Apply, ApplyStarted
    <3> QED
      BY <3>1, <3>2, StoreSteps DEF Store!Delegating
  <2>4. CASE e.kind = "delegation-step"
    <3>1. s.delegations[d].status # "none" /\ e.step = s.delegations[d].steps + 1
      BY <2>1, <2>4, ApplyStepIs
    <3>2. s.delegations[d].status = "running"
      BY <2>1, <2>2, <2>4, <3>1
    <3>3. t = [s EXCEPT !.delegations[d].steps = @ + 1]
      BY <2>1, <2>4, <3>1 DEF Apply, ApplyStep
    <3>4. t \in Store!Delegating(s, d)
      BY <3>2, <3>3 DEF Store!Delegating
    <3> QED
      BY <3>4, StoreSteps
  <2>5. CASE e.kind = "delegation-completed"
    <3>1. s.delegations[d].status = "running" /\ e.steps = s.delegations[d].steps
      BY <2>1, <2>5, ApplyFinishedIs
    <3>2. t = [s EXCEPT !.delegations[d].status = "completed"]
      BY <2>1, <2>5, <3>1 DEF Apply, ApplyFinished
    <3>3. t \in Store!Delegating(s, d)
      BY <3>1, <3>2 DEF Store!Delegating
    <3> QED
      BY <3>3, StoreSteps
  <2> QED
    BY <1>2, <2>3, <2>4, <2>5
<1> QED
  BY <1>1, <1>2 DEF WorkerKinds

(* A row of the worker becomes visible: one step of the store.               *)
LEMMA ForeignCommitSteps ==
    ASSUME IInv, IInv', CommitForeign
    PROVE  Replay(committed)' \in Store!Steps(Replay(committed))
<1>0. PICK rows \in SUBSET open :
         /\ committed' = committed \cup rows
         /\ Cardinality(committed' \ committed) = 1
         /\ UNCHANGED content
  BY DEF CommitForeign, ForeignCommit, contents
<1>1. /\ committed \in SUBSET Rows /\ open \in SUBSET Rows /\ Rows \in SUBSET Seqs
      /\ Rows \in SUBSET Nat /\ LogTyped
  BY InvFacts
<1>2. PICK r : committed' \ committed = {r}
  <2>1. IsFiniteSet(committed' \ committed)
    BY <1>0, <1>1, CountingEvents
  <2> QED
    BY <1>0, <2>1, FS_Singleton
<1>3. /\ r \in open /\ r \in Rows /\ r \notin committed /\ committed' = committed \cup {r}
      /\ ~IsWeb(content, r)
  BY <1>0, <1>1, <1>2 DEF IInv, ContentInv
<1>4. r \in Nat /\ content[r] \in Events /\ content[r].kind \in WorkerKinds
  BY <1>1, <1>3, RowsTyped, EventFields DEF IsWeb
<1>5. PICK s, t : s = Replay(committed) /\ t = Apply(s, content[r])
  OBVIOUS
<1>6. Represents(content, s, committed)
  BY <1>5, CommittedReplays
<1>7. /\ Fits(content, committed, r)
      /\ \A d \in Delegations : (\E n : StepsTo(content, r, d, n)) =>
           ~\E q \in committed : Finishes(content, q, d)
  BY <1>3, WorkerRowFits
<1>8. t.ok = TRUE /\ Represents(content, t, committed \cup {r})
  <2>1. ~Executes(content, r)
    BY <1>3 DEF Executes, IsWeb, WebKinds
  <2>2. committed \in SUBSET Nat
    BY <1>1
  <2> QED
    BY <1>4, <1>5, <1>6, <1>7, <2>1, <2>2, RowFolds
<1>9. Replay(committed)' = t
  <2>1. committed' \in SUBSET Nat
    BY <1>1, <1>3
  <2> QED
    BY <1>0, <1>3, <1>8, <2>1, ReplayIs
<1>10. content[r].kind = "delegation-step" =>
         s.delegations[content[r].delegation].status # "completed"
  <2> SUFFICES ASSUME content[r].kind = "delegation-step"
               PROVE  s.delegations[content[r].delegation].status # "completed"
    OBVIOUS
  <2>1. PICK d \in Delegations : d = content[r].delegation
    BY <1>4, EventFields
  <2>2. StepsTo(content, r, d, content[r].step)
    BY <2>1 DEF StepsTo
  <2>3. DelegationOf(content, s.delegations[d], d, committed)
    BY <1>6 DEF Represents
  <2> QED
    BY <1>7, <2>1, <2>2, <2>3 DEF DelegationOf
<1>11. s \in Snapshot /\ s.ok = TRUE
  BY <1>6 DEF Represents
<1>12. t \in Store!Steps(s)
  BY <1>4, <1>5, <1>8, <1>10, <1>11, WorkerEventSteps
<1> QED
  BY <1>5, <1>9, <1>12

-----------------------------------------------------------------------------
(* What verdicts say, and what it does to the store.                         *)

(* What the judge says of an action at a node.                               *)
Waits(n, a, e) == \E i \in ConfirmationIds : e = Requested(i, a) /\ a \in Gated \cap Declared[n]

Says(n, a, e) ==
    \/ e = Executed(a)
    \/ e = Noted /\ a \notin Declared[n]
    \/ Waits(n, a, e)

Gives(s, a, actor, e) ==
    \E t, ids :
        /\ ExecuteWithGates(s, a, actor) = Verdict(<<e>>, t, ids)
        /\ Says(s.node, a, e)
        /\ e.kind = "action-executed" => e = Executed(a) /\ t.node = Target[a]

(* An execution under the gate, by its event.                                *)
LEMMA ExecuteSays ==
    ASSUME NEW s \in Snapshot, s.ok = TRUE, NEW a \in Actions, NEW actor, MayAsk(s, actor)
    PROVE  \E e \in WebEvent : Gives(s, a, actor, e)
<1> DEFINE v == ExecuteWithGates(s, a, actor)
<1>1. CASE a \notin Declared[s.node]
  <2>1. v = Verdict(<<Noted>>, s, {})
    BY <1>1 DEF ExecuteWithGates, Rejection
  <2>2. Noted \in WebEvent /\ Noted.kind # "action-executed" /\ Says(s.node, a, Noted)
    BY <1>1, WebEventsAre, WebEvents DEF Says
  <2> HIDE DEF v
  <2> QED
    BY <2>1, <2>2 DEF v, Gives
<1>2. CASE a \in Declared[s.node] /\ actor = "agent" /\ a \in Gated
  <2>1. v = Suspension(s, a)
    BY <1>2 DEF ExecuteWithGates
  <2>2. PICK i : i = NextId(s)
    OBVIOUS
  <2>3. OneStep(s, v, Requested(i, a))
    BY <1>2, <2>1, <2>2, SuspensionStep DEF MayAsk
  <2>4. v = Verdict(<<Requested(i, a)>>, v.next, v.notify)
    BY <2>3 DEF OneStep
  <2>5. Requested(i, a) \in WebEvent /\ Requested(i, a).kind = "confirmation-requested"
    BY <2>3 DEF OneStep, Requested
  <2>6. i \in ConfirmationIds
    BY <2>5, EventFields DEF WebEvent, Requested
  <2> QED
    BY <1>2, <2>4, <2>5, <2>6 DEF Says, Waits, Gives
<1>3. CASE a \in Declared[s.node] /\ ~(actor = "agent" /\ a \in Gated)
  <2>1. PICK t : t = [s EXCEPT !.node = Target[a]]
    OBVIOUS
  <2>2. v = Verdict(<<Executed(a)>>, t, {})
    BY <1>3, <2>1 DEF ExecuteWithGates
  <2>3. t.node = Target[a]
    BY <2>1 DEF Snapshot
  <2> QED
    BY <2>2, <2>3, WebEventsAre DEF Says, Gives
<1> QED
  BY <1>1, <1>2, <1>3

(* A step of a plan that has not stopped.                                    *)
LEMMA PlanStepSays ==
    ASSUME NEW s \in Snapshot, NEW actor, MayAsk(s, actor), NEW p, Planned(s, p), ~p.stopped,
           NEW a \in Actions, NEW q, q = PlanStep(p, a, actor)
    PROVE  \E e \in WebEvent :
             /\ q.verdict.events = Append(p.verdict.events, e)
             /\ Says(p.verdict.next.node, a, e)
             /\ q.stopped <=> e.kind # "action-executed"
             /\ e.kind = "action-executed" => e = Executed(a) /\ q.verdict.next.node = Target[a]
<1> DEFINE v == p.verdict
           step == ExecuteWithGates(v.next, a, actor)
           u == [step EXCEPT !.events = v.events \o @]
<1>1. v.next \in Snapshot /\ v.next.ok = TRUE /\ v.next.confirmations = s.confirmations
  BY DEF Planned
<1>2. MayAsk(v.next, actor)
  BY <1>1 DEF MayAsk, FreeIds
<1>3. PICK before : before = v.next
  OBVIOUS
<1>a. PICK e \in WebEvent : Gives(before, a, actor, e)
  BY <1>1, <1>2, <1>3, ExecuteSays
<1>b. PICK t, ids :
        /\ step = Verdict(<<e>>, t, ids) /\ Says(v.next.node, a, e)
        /\ e.kind = "action-executed" => e = Executed(a) /\ t.node = Target[a]
  BY <1>3, <1>a DEF Gives
<1>4. q = [stopped |-> step.events[1].kind # "action-executed", verdict |-> u]
  BY DEF PlanStep
<1>5. PICK b : b = (step.events[1].kind # "action-executed")
  OBVIOUS
<1> HIDE DEF step
<1>6. PICK one : one = <<e>>
  OBVIOUS
<1>7. step.events = one /\ one[1] = e
  BY <1>b, <1>6, VerdictFields
<1>8. PICK more : more = v.events \o one
  OBVIOUS
<1>9. more = Append(v.events, e)
  BY <1>6, <1>8 DEF Planned, VerdictOn
<1>10. u.events = more /\ u.next = t
  <2>1. PICK x, y : x = step /\ y = u
    OBVIOUS
  <2>2. x = Verdict(one, t, ids) /\ y = [x EXCEPT !.events = more]
    BY <1>b, <1>6, <1>7, <1>8, <2>1
  <2>3. y.events = more /\ y.next = t
    BY <2>2 DEF Verdict
  <2> QED
    BY <2>1, <2>3
<1> HIDE DEF u
<1>11. q.verdict = u /\ q.stopped = b
  <2>1. q = [stopped |-> b, verdict |-> u]
    BY <1>4, <1>5
  <2> QED
    BY <2>1
<1>12. b <=> e.kind # "action-executed"
  BY <1>5, <1>7
<1>13. q.verdict.events = Append(p.verdict.events, e)
  BY <1>9, <1>10, <1>11
<1>14. e.kind = "action-executed" => e = Executed(a) /\ q.verdict.next.node = Target[a]
  BY <1>b, <1>10, <1>11
<1> QED
  BY <1>b, <1>11, <1>12, <1>13, <1>14

(* A plan after j of its actions: the first k are executed, each where the   *)
(* one before led, and the next one may have stopped it.                     *)
Stopping(n, a, e) == (e = Noted /\ a \notin Declared[n]) \/ Waits(n, a, e)

PlanRun(s, plan, j, p) ==
    \E k \in 0..j :
        /\ \A i \in 1..k : p.verdict.events[i] = Executed(plan[i])
        /\ ~p.stopped => /\ k = j /\ Len(p.verdict.events) = k
                         /\ p.verdict.next.node = Store!NodeAfter(s, plan, k)
        /\ p.stopped => /\ k < j /\ Len(p.verdict.events) = k + 1
                        /\ Stopping(Store!NodeAfter(s, plan, k), plan[k + 1], p.verdict.events[k + 1])

(* One more step of the plan.                                                *)
LEMMA PlanStepRuns ==
    ASSUME NEW s \in Snapshot, NEW actor, MayAsk(s, actor), NEW plan \in Seq(Actions),
           NEW j \in 1..Len(plan), NEW p, Planned(s, p), PlanRun(s, plan, j - 1, p),
           NEW q, q = PlanStep(p, plan[j], actor)
    PROVE  PlanRun(s, plan, j, q)
<1>0. PICK k \in 0..(j - 1) :
        /\ \A i \in 1..k : p.verdict.events[i] = Executed(plan[i])
        /\ ~p.stopped => /\ k = j - 1 /\ Len(p.verdict.events) = k
                         /\ p.verdict.next.node = Store!NodeAfter(s, plan, k)
        /\ p.stopped => /\ k < j - 1 /\ Len(p.verdict.events) = k + 1
                        /\ Stopping(Store!NodeAfter(s, plan, k), plan[k + 1], p.verdict.events[k + 1])
  BY DEF PlanRun
<1>1. CASE p.stopped
  <2>1. q = p
    BY <1>1 DEF PlanStep
  <2>2. k \in 0..j /\ k < j
    BY <1>0
  <2> QED
    BY <1>0, <1>1, <2>1, <2>2 DEF PlanRun
<1>2. CASE ~p.stopped
  <2>1. plan[j] \in Actions
    OBVIOUS
  <2>2. PICK log \in Seq(WebEvent) : log = p.verdict.events
    BY DEF Planned, VerdictOn
  <2>3. PICK e \in WebEvent :
          /\ q.verdict.events = Append(log, e)
          /\ Says(p.verdict.next.node, plan[j], e)
          /\ q.stopped <=> e.kind # "action-executed"
          /\ e.kind = "action-executed" =>
               e = Executed(plan[j]) /\ q.verdict.next.node = Target[plan[j]]
    BY <1>2, <2>1, <2>2, PlanStepSays
  <2>4. k = j - 1 /\ Len(log) = k /\ p.verdict.next.node = Store!NodeAfter(s, plan, k)
    BY <1>0, <1>2, <2>2
  <2>5. PICK more : more = Append(log, e)
    OBVIOUS
  <2>6. Len(more) = k + 1 /\ more[k + 1] = e /\ \A i \in 1..k : more[i] = log[i]
    BY <2>4, <2>5
  <2>7. \A i \in 1..k : more[i] = Executed(plan[i])
    BY <1>0, <2>2, <2>6
  <2>8. CASE e.kind = "action-executed"
    <3>1. j \in 0..j /\ j = k + 1
      BY <2>4
    <3>2. \A i \in 1..j : more[i] = Executed(plan[i])
      <4>1. \A i \in 1..j : i \in 1..k \/ i = j
        BY <3>1
      <4> QED
        BY <2>3, <2>6, <2>7, <2>8, <3>1, <4>1
    <3>3. q.verdict.next.node = Store!NodeAfter(s, plan, j)
      BY <2>3, <2>8 DEF Store!NodeAfter
    <3>4. ~q.stopped /\ Len(q.verdict.events) = j /\ q.verdict.events = more
      BY <2>3, <2>5, <2>6, <2>8, <3>1
    <3> QED
      BY <3>1, <3>2, <3>3, <3>4 DEF PlanRun
  <2>9. CASE e.kind # "action-executed"
    <3>1. k \in 0..j /\ k < j /\ j = k + 1
      BY <2>4
    <3>2. e # Executed(plan[j])
      BY <2>1, <2>9, WebEvents
    <3>3. Stopping(Store!NodeAfter(s, plan, k), plan[k + 1], e)
      BY <2>3, <2>4, <3>1, <3>2 DEF Says, Stopping
    <3>4. q.stopped /\ q.verdict.events = more
      BY <2>3, <2>5, <2>9
    <3> QED
      BY <2>6, <2>7, <3>1, <3>3, <3>4 DEF PlanRun
  <2> QED
    BY <2>8, <2>9
<1> QED
  BY <1>1, <1>2

(* The events of a plan: k actions, what stopped it, if anything did, and the *)
(* record of the plan.                                                       *)
PlanEvents(s, plan, k, log) ==
    /\ \A i \in 1..k : log[i] = Executed(plan[i])
    /\ \/ k = Len(plan) /\ log[k + 1] = Noted /\ Len(log) = k + 1
       \/ /\ k < Len(plan) /\ Len(log) = k + 2
          /\ Stopping(Store!NodeAfter(s, plan, k), plan[k + 1], log[k + 1]) /\ log[k + 2] = Noted

(* A plan, by what its verdict says.                                         *)
LEMMA PlanSays ==
    ASSUME NEW s \in Snapshot, s.ok = TRUE, NEW actor, MayAsk(s, actor), NEW plan \in Seq(Actions)
    PROVE  \E k \in 0..Len(plan) : PlanEvents(s, plan, k, ExecutePlan(s, plan, actor).events)
<1>0. PICK n \in Nat : n = Len(plan)
  OBVIOUS
<1> DEFINE P == Planning(s, plan, actor)
           Good(j) == Planned(s, P[j]) /\ PlanRun(s, plan, j, P[j])
           Bad == {j \in 0..n : ~Good(j)}
<1>1. IsPlanning(P, s, plan, actor, n)
  BY <1>0, PlanningIsPlanning
<1> HIDE DEF P
<1>2. Good(0)
  <2>1. PICK v : v = Verdict(<<>>, s, {})
    OBVIOUS
  <2>2. P[0].verdict = v /\ P[0].stopped = FALSE
    BY <1>1, <2>1 DEF IsPlanning, Unplanned
  <2>3. v.events = <<>> /\ v.next = s /\ v.notify = {} /\ VerdictOn(s, v)
    BY <2>1, VerdictFields, EmptyVerdict
  <2>4. Planned(s, P[0])
    BY <2>1, <2>2, <2>3 DEF Planned
  <2>5. PlanRun(s, plan, 0, P[0])
    BY <2>2, <2>3 DEF PlanRun, Store!NodeAfter
  <2> QED
    BY <2>4, <2>5
<1>3. ASSUME NEW j \in 1..n, Good(j - 1) PROVE Good(j)
  <2>1. P[j] = PlanStep(P[j - 1], plan[j], actor) /\ plan[j] \in Actions /\ j \in 1..Len(plan)
    BY <1>0, <1>1, <1>3 DEF IsPlanning
  <2> QED
    BY <1>3, <2>1, PlanStepPlanned, PlanStepRuns
<1>4. \A j \in 0..n : Good(j)
  <2>1. SUFFICES ASSUME Bad # {} PROVE FALSE
    OBVIOUS
  <2>2. PICK k \in Bad : \A j \in Bad : k <= j
    <3>1. Bad \in SUBSET Nat
      OBVIOUS
    <3> HIDE DEF Bad
    <3> QED BY <2>1, <3>1, LeastNatural
  <2>3. k \in 0..n /\ ~Good(k)
    OBVIOUS
  <2>4. k # 0
    BY <1>2, <2>3
  <2>5. k \in 1..n /\ k - 1 \in 0..n /\ Good(k - 1)
    <3> HIDE DEF Good
    <3> QED BY <2>2, <2>3, <2>4
  <2> QED
    BY <1>3, <2>3, <2>5
<1>5. Planned(s, P[n]) /\ PlanRun(s, plan, n, P[n])
  BY <1>4
<1>6. PICK log \in Seq(WebEvent) : log = P[n].verdict.events
  BY <1>5 DEF Planned, VerdictOn
<1>7. PICK more : more = Append(log, Noted)
  OBVIOUS
<1>8. ExecutePlan(s, plan, actor).events = more
  <2>1. PICK x, y, r, ids : x = P[n].verdict /\ y = ExecutePlan(s, plan, actor)
                            /\ r = x.next /\ ids = x.notify
    OBVIOUS
  <2>2. x = Verdict(log, r, ids) /\ y = [x EXCEPT !.events = more]
    BY <1>0, <1>5, <1>6, <1>7, <2>1 DEF Planned, ExecutePlan, P
  <2> QED
    BY <2>1, <2>2 DEF Verdict
<1>9. /\ Len(more) = Len(log) + 1 /\ more[Len(log) + 1] = Noted
      /\ \A i \in 1..Len(log) : more[i] = log[i]
  BY <1>7, WebEventsAre
<1>10. PICK k \in 0..n :
        /\ \A i \in 1..k : log[i] = Executed(plan[i])
        /\ ~P[n].stopped => k = n /\ Len(log) = k
        /\ P[n].stopped => /\ k < n /\ Len(log) = k + 1
                           /\ Stopping(Store!NodeAfter(s, plan, k), plan[k + 1], log[k + 1])
  BY <1>5, <1>6 DEF PlanRun
<1>11. k <= Len(log) /\ Len(log) \in Nat
  BY <1>10
<1>12. \A i \in 1..k : more[i] = Executed(plan[i])
  BY <1>9, <1>10, <1>11
<1>13. CASE P[n].stopped
  <2>1. Len(more) = k + 2 /\ more[k + 2] = Noted /\ more[k + 1] = log[k + 1]
    BY <1>9, <1>10, <1>13
  <2> QED
    BY <1>0, <1>8, <1>10, <1>12, <1>13, <2>1 DEF PlanEvents
<1>14. CASE ~P[n].stopped
  BY <1>0, <1>8, <1>9, <1>10, <1>12, <1>14 DEF PlanEvents
<1> QED
  BY <1>13, <1>14

(* What a verdict may say, by the snapshot it is given on.                   *)
Worded(s, log) ==
    \/ log = <<Noted>>
    \/ \E a \in Actions : log = <<Executed(a)>>
    \/ \E a \in Actions : \E e \in WebEvent : Waits(s.node, a, e) /\ log = <<e>>
    \/ \E i \in ConfirmationIds : log = <<Refused(i)>>
    \/ \E i \in ConfirmationIds : log = <<Approved(i), Executed(s.confirmations[i].action)>>
    \/ \E plan \in Plans : \E k \in 0..Len(plan) : PlanEvents(s, plan, k, log)

(* An execution, and every verdict, is worded so.                            *)
LEMMA GivesWorded ==
    ASSUME NEW s, NEW a \in Actions, NEW actor, NEW e \in WebEvent, Gives(s, a, actor, e)
    PROVE  Worded(s, ExecuteWithGates(s, a, actor).events)
<1>1. PICK t, ids : /\ ExecuteWithGates(s, a, actor) = Verdict(<<e>>, t, ids)
                    /\ Says(s.node, a, e)
  BY DEF Gives
<1>2. PICK v : v = ExecuteWithGates(s, a, actor)
  OBVIOUS
<1>3. v.events = <<e>>
  BY <1>1, <1>2 DEF Verdict
<1> QED
  BY <1>1, <1>2, <1>3 DEF Says, Worded

(* Every verdict the judge can give is worded so.                            *)
LEMMA VerdictsSay ==
    ASSUME snapshot \in Snapshot, snapshot.ok = TRUE, NEW v \in Verdicts
    PROVE  Worded(snapshot, v.events)
<1>0. PICK s : s = snapshot
  OBVIOUS
<1>1. ASSUME NEW a \in Actions, NEW actor, MayAsk(s, actor), v = ExecuteWithGates(s, a, actor)
      PROVE  Worded(s, v.events)
  <2>1. PICK e \in WebEvent : Gives(s, a, actor, e)
    BY <1>0, <1>1, ExecuteSays
  <2> QED
    BY <1>1, <2>1, GivesWorded
<1>2. ASSUME NEW plan \in Plans, NEW actor, MayAsk(s, actor), v = ExecutePlan(s, plan, actor)
      PROVE  Worded(s, v.events)
  <2>1. plan \in Seq(Actions)
    BY ReplayAssumption
  <2>2. PICK k \in 0..Len(plan) : PlanEvents(s, plan, k, v.events)
    BY <1>0, <1>2, <2>1, PlanSays
  <2> QED
    BY <2>2 DEF Worded
<1>3. Worded(s, Rejection(s).events)
  BY DEF Worded, Rejection, Verdict
<1>4. ASSUME NEW i \in ConfirmationIds, NEW actor, v = ApproveConfirmation(s, i, actor)
      PROVE  Worded(s, v.events)
  <2>1. CASE v = Rejection(s)
    BY <1>3, <2>1
  <2>2. CASE v # Rejection(s)
    <3>1. PICK u, a : a = s.confirmations[i].action /\ v = Verdict(<<Approved(i), Executed(a)>>, u, {})
      BY <1>4, <2>2 DEF ApproveConfirmation
    <3>2. v.events = <<Approved(i), Executed(a)>>
      BY <3>1 DEF Verdict
    <3> QED
      BY <3>1, <3>2 DEF Worded
  <2> QED
    BY <2>1, <2>2
<1>5. ASSUME NEW i \in ConfirmationIds, v = RejectConfirmation(s, i, "human")
      PROVE  Worded(s, v.events)
  <2>1. CASE v = Rejection(s)
    BY <1>3, <2>1
  <2>2. CASE v # Rejection(s)
    <3>1. PICK u : v = Verdict(<<Refused(i)>>, u, {})
      BY <1>5, <2>2 DEF RejectConfirmation
    <3>2. v.events = <<Refused(i)>>
      BY <3>1 DEF Verdict
    <3> QED
      BY <3>2 DEF Worded
  <2> QED
    BY <2>1, <2>2
<1>6. \/ \E a \in Actions : v = ExecuteWithGates(s, a, "human")
      \/ FreeIds(s) # {} /\ \E a \in Actions : v = ExecuteWithGates(s, a, "agent")
      \/ \E plan \in Plans : v = ExecutePlan(s, plan, "human")
      \/ FreeIds(s) # {} /\ \E plan \in Plans : v = ExecutePlan(s, plan, "agent")
      \/ \E i \in ConfirmationIds, actor \in {"human", "agent"} : v = ApproveConfirmation(s, i, actor)
      \/ \E i \in ConfirmationIds : v = RejectConfirmation(s, i, "human")
  BY <1>0 DEF Verdicts
<1>7. MayAsk(s, "human") /\ (FreeIds(s) # {} => MayAsk(s, "agent"))
  BY DEF MayAsk
<1>8. Worded(s, v.events)
  BY <1>1, <1>2, <1>4, <1>5, <1>6, <1>7
<1> QED
  BY <1>0, <1>8

(* Each of these events, where it folds, is a step of the store.             *)
LEMMA ActionSteps ==
    ASSUME NEW s \in Snapshot, s.ok = TRUE, NEW e \in Events, e.kind = "action-executed",
           NEW t, t = Apply(s, e), t.ok = TRUE
    PROVE  /\ e.action \in Declared[s.node] /\ t = [s EXCEPT !.node = Target[e.action]]
           /\ t \in Snapshot /\ t.node = Target[e.action]
           /\ t.confirmations = s.confirmations /\ t.delegations = s.delegations
           /\ t \in Store!Executing(s, e.action)
<1>1. /\ e.action \in Declared[s.node] /\ t \in Snapshot /\ t.node = Target[e.action]
      /\ t.confirmations = s.confirmations /\ t.delegations = s.delegations
  BY ApplyExecutedIs
<1>2. t = [s EXCEPT !.node = Target[e.action]]
  BY <1>1 DEF Apply, ApplyExecuted
<1> QED
  BY <1>1, <1>2 DEF Store!Executing

(* A request of a gated action.                                              *)
LEMMA RequestSteps ==
    ASSUME NEW s \in Snapshot, s.ok = TRUE, NEW e \in Events, e.kind = "confirmation-requested",
           NEW a \in Actions, a = e.action, a \in Gated \cap Declared[s.node],
           NEW t, t = Apply(s, e), t.ok = TRUE
    PROVE  t \in Store!Suspending(s, a)
<1>1. PICK i \in ConfirmationIds : i = e.id
  BY EventFields
<1>2. s.confirmations[i].status = "none"
  BY <1>1, ApplyRequestedIs
<1>3. t = [s EXCEPT !.confirmations[i] = [status |-> "pending", action |-> a, notified |-> FALSE]]
  BY <1>1, <1>2 DEF Apply, ApplyRequested
<1> QED
  BY <1>2, <1>3 DEF Store!Suspending, Store!ConfirmationIds, ConfirmationIds

(* A rejection.                                                              *)
LEMMA RefusalSteps ==
    ASSUME NEW s \in Snapshot, s.ok = TRUE, NEW e \in Events, e.kind = "confirmation-rejected",
           NEW i \in ConfirmationIds, i = e.id, NEW t, t = Apply(s, e), t.ok = TRUE
    PROVE  t \in Store!Deciding(s, i)
<1>1. s.confirmations[i].status = "pending"
  BY ApplyDecisionIs DEF Decisions
<1>2. t = [s EXCEPT !.confirmations[i].status = "rejected"]
  BY <1>1 DEF Apply, ApplyDecision
<1> QED
  BY <1>1, <1>2 DEF Store!Deciding

(* An approval and the action it lets through.                               *)
LEMMA ApprovalSteps ==
    ASSUME NEW s \in Snapshot, s.ok = TRUE, NEW i \in ConfirmationIds,
           s.confirmations[i].status = "pending",
           NEW u, Changed(s, i, [s.confirmations[i] EXCEPT !.status = "approved"], u),
           NEW e \in Events, e.kind = "action-executed", e.action = s.confirmations[i].action,
           NEW t, t = Apply(u, e), t.ok = TRUE
    PROVE  t \in Store!Deciding(s, i)
<1> DEFINE a == e.action
           y == [s.confirmations[i] EXCEPT !.status = "approved"]
<1>1. a \in Actions
  BY EventFields
<1>2. /\ u \in Snapshot /\ u.ok = TRUE /\ u.node = s.node /\ u.delegations = s.delegations
      /\ u.confirmations = [s.confirmations EXCEPT ![i] = y]
  BY DEF Changed
<1>3. /\ a \in Declared[u.node] /\ t \in Snapshot /\ t.node = Target[a]
      /\ t.confirmations = u.confirmations /\ t.delegations = u.delegations
  BY <1>2, ActionSteps
<1>4. PICK done : done = [s EXCEPT !.node = Target[a]]
  OBVIOUS
<1>5. done \in Store!Executing(s, a)
  BY <1>2, <1>3, <1>4 DEF Store!Executing
<1>6. t = [done EXCEPT !.confirmations[i].status = "approved"]
  <2> DEFINE z == [done EXCEPT !.confirmations[i].status = "approved"]
  <2>1. /\ done \in Snapshot /\ done.ok = TRUE /\ done.node = Target[a]
        /\ done.confirmations = s.confirmations /\ done.delegations = s.delegations
    BY <1>1, <1>4, FlowAssumption DEF Snapshot, Nodes
  <2>2. y \in Confirmation
    BY DEF Snapshot, Confirmation, Statuses
  <2>3. z = [done EXCEPT !.confirmations[i] = y]
    BY <2>1 DEF Snapshot, Confirmation
  <2> HIDE DEF y, z
  <2>4. Changed(done, i, y, [done EXCEPT !.confirmations[i] = y])
    BY <2>1, <2>2, ChangedIs
  <2>5. Changed(done, i, y, z)
    BY <2>3, <2>4
  <2>6. z = t
    BY <1>2, <1>3, <2>1, <2>5 DEF Changed, Snapshot
  <2> QED
    BY <2>6 DEF z
<1> QED
  BY <1>5, <1>6 DEF Store!Deciding

(* So far a plan has been followed.                                          *)
HasFollowed(s, plan, k, t) ==
    /\ t = Store!Followed(s, plan, k) /\ t \in Snapshot /\ t.ok = TRUE
    /\ t.node = Store!NodeAfter(s, plan, k) /\ Store!Follows(s, plan, k)

(* The next action of the plan, as it folds.                                 *)
LEMMA FollowedOnce ==
    ASSUME NEW s \in Snapshot, s.ok = TRUE, NEW plan \in Seq(Actions), NEW j \in 1..Len(plan),
           NEW u, HasFollowed(s, plan, j - 1, u),
           NEW e \in Events, e.kind = "action-executed", e.action = plan[j],
           NEW t, t = Apply(u, e), t.ok = TRUE
    PROVE  HasFollowed(s, plan, j, t)
<1>0. u \in Snapshot /\ u.ok = TRUE
  BY DEF HasFollowed
<1>1. /\ plan[j] \in Declared[u.node] /\ t \in Snapshot /\ t.node = Target[plan[j]]
      /\ t.confirmations = u.confirmations /\ t.delegations = u.delegations
  <2>1. /\ e.action \in Declared[u.node] /\ t \in Snapshot /\ t.node = Target[e.action]
        /\ t.confirmations = u.confirmations /\ t.delegations = u.delegations
    BY <1>0, ActionSteps
  <2> QED
    BY <2>1
<1>2. t.node = Store!NodeAfter(s, plan, j)
  BY <1>1 DEF Store!NodeAfter
<1>3. PICK n, m : n = Store!NodeAfter(s, plan, j - 1) /\ m = Store!NodeAfter(s, plan, j)
  OBVIOUS
<1>4. PICK x : x = [s EXCEPT !.node = m]
  OBVIOUS
<1>5. /\ x.node = m /\ x.ok = TRUE /\ x.confirmations = s.confirmations
      /\ x.delegations = s.delegations /\ x \in Snapshot
  <2>1. m \in Nodes
    BY <1>1, <1>2, <1>3 DEF Snapshot
  <2> QED
    BY <1>4, <2>1 DEF Snapshot
<1>6. u.confirmations = s.confirmations /\ u.delegations = s.delegations
  <2>1. u = [s EXCEPT !.node = n]
    BY <1>3 DEF HasFollowed, Store!Followed
  <2> QED
    BY <2>1 DEF Snapshot
<1>7. t = x
  BY <1>1, <1>2, <1>3, <1>5, <1>6 DEF Snapshot
<1>8. t = Store!Followed(s, plan, j)
  BY <1>3, <1>4, <1>7 DEF Store!Followed
<1>9. Store!Follows(s, plan, j)
  <2>1. \A i \in 1..j : i \in 1..(j - 1) \/ i = j
    OBVIOUS
  <2>2. plan[j] \in Declared[Store!NodeAfter(s, plan, j - 1)]
    BY <1>1 DEF HasFollowed
  <2> QED
    BY <2>1, <2>2 DEF HasFollowed, Store!Follows
<1> QED
  BY <1>1, <1>2, <1>8, <1>9 DEF HasFollowed

(* The actions a plan has executed, as they fold.                            *)
LEMMA PlanFollowed ==
    ASSUME NEW s \in Snapshot, s.ok = TRUE, NEW plan \in Seq(Actions), NEW k \in 0..Len(plan),
           NEW log \in Seq(WebEvent), k <= Len(log), \A i \in 1..k : log[i] = Executed(plan[i]),
           NEW g, IsChain(g, s, log)
    PROVE  HasFollowed(s, plan, k, g[k])
<1> DEFINE Good(j) == HasFollowed(s, plan, j, g[j])
           Bad == {j \in 0..k : ~Good(j)}
<1>1. Good(0)
  <2>1. g[0] = s
    BY DEF IsChain
  <2>2. s = [s EXCEPT !.node = s.node]
    BY DEF Snapshot
  <2> QED
    BY <2>1, <2>2 DEF HasFollowed, Store!Followed, Store!NodeAfter, Store!Follows
<1>2. ASSUME NEW j \in 1..k, Good(j - 1) PROVE Good(j)
  <2>1. PICK u, t : u = g[j - 1] /\ t = g[j]
    OBVIOUS
  <2>2. PICK e \in WebEvent : e = log[j]
    OBVIOUS
  <2>3. t = Apply(u, e) /\ t.ok = TRUE
    BY <2>1, <2>2 DEF IsChain, Fold1
  <2>4. plan[j] \in Actions /\ j \in 1..Len(plan)
    OBVIOUS
  <2>5. e \in Events /\ e.kind = "action-executed" /\ e.action = plan[j]
    BY <2>2, <2>4, WebEvents
  <2>6. HasFollowed(s, plan, j - 1, u)
    BY <1>2, <2>1
  <2>7. HasFollowed(s, plan, j, t)
    BY <2>3, <2>4, <2>5, <2>6, FollowedOnce
  <2> QED
    BY <2>1, <2>7
<1>3. \A j \in 0..k : Good(j)
  <2>1. SUFFICES ASSUME Bad # {} PROVE FALSE
    OBVIOUS
  <2>2. PICK m \in Bad : \A j \in Bad : m <= j
    <3>1. Bad \in SUBSET Nat
      OBVIOUS
    <3> HIDE DEF Bad
    <3> QED BY <2>1, <3>1, LeastNatural
  <2>3. m \in 0..k /\ ~Good(m)
    OBVIOUS
  <2>4. m # 0
    BY <1>1, <2>3
  <2>5. m \in 1..k /\ m - 1 \in 0..k /\ Good(m - 1)
    <3> HIDE DEF Good
    <3> QED BY <2>2, <2>3, <2>4
  <2> QED
    BY <1>2, <2>3, <2>5
<1> QED
  BY <1>3

(* A plan and its record are one step of the store.                          *)
LEMMA PlanChainSteps ==
    ASSUME NEW s \in Snapshot, s.ok = TRUE, NEW plan \in Plans, plan \in Seq(Actions),
           NEW k \in 0..Len(plan), NEW log \in Seq(WebEvent), PlanEvents(s, plan, k, log),
           NEW g, IsChain(g, s, log), NEW t, t = g[Len(log)]
    PROVE  t \in Store!ExecutingPlan(s, plan)
<1>0. k <= Len(log)
  BY DEF PlanEvents
<1>1. PICK u : u = g[k]
  OBVIOUS
<1>2. HasFollowed(s, plan, k, u)
  BY <1>0, <1>1, PlanFollowed DEF PlanEvents
<1>3. \A j \in 1..Len(log) : Fold1(g[j - 1], log[j], g[j])
  BY DEF IsChain
<1>4. ASSUME u = t, Store!Stops(s, plan, k) PROVE t \in Store!ExecutingPlan(s, plan)
  BY <1>2, <1>4 DEF HasFollowed, Store!ExecutingPlan
<1>5. CASE k = Len(plan) /\ log[k + 1] = Noted /\ Len(log) = k + 1
  <2>1. k + 1 \in 1..Len(log) /\ (k + 1) - 1 = k
    BY <1>5
  <2>2. Fold1(u, Noted, t)
    BY <1>1, <1>3, <1>5, <2>1
  <2>3. t = u
    BY <1>2, <2>2, ApplyNotedIs, WebEvents DEF Fold1, HasFollowed
  <2> QED
    BY <1>4, <1>5, <2>3 DEF Store!Stops
<1>6. CASE /\ k < Len(plan) /\ Len(log) = k + 2
           /\ Stopping(Store!NodeAfter(s, plan, k), plan[k + 1], log[k + 1]) /\ log[k + 2] = Noted
  <2>0. PICK e \in WebEvent : e = log[k + 1]
    BY <1>6
  <2>1. PICK x : x = g[k + 1]
    OBVIOUS
  <2>2. /\ k + 1 \in 1..Len(log) /\ (k + 1) - 1 = k
        /\ k + 2 \in 1..Len(log) /\ (k + 2) - 1 = k + 1
    BY <1>6
  <2>3. Fold1(u, e, x) /\ Fold1(x, Noted, t)
    BY <1>1, <1>3, <1>6, <2>0, <2>1, <2>2
  <2>4. e \in Events
    BY DEF WebEvent
  <2>5. x = Apply(u, e) /\ x.ok = TRUE /\ x \in Snapshot
    BY <1>2, <2>3, <2>4, ApplyTyped DEF Fold1, HasFollowed
  <2>6. t = x
    BY <2>3, <2>5, ApplyNotedIs, WebEvents DEF Fold1
  <2>7. plan[k + 1] \in Actions
    BY <1>6
  <2>8. CASE e = Noted /\ plan[k + 1] \notin Declared[Store!NodeAfter(s, plan, k)]
    <3>1. x = u
      BY <1>2, <2>5, <2>8, ApplyNotedIs, WebEvents DEF HasFollowed
    <3> QED
      BY <1>4, <2>6, <2>8, <3>1 DEF Store!Stops
  <2>9. CASE Waits(Store!NodeAfter(s, plan, k), plan[k + 1], e)
    <3>1. PICK a \in Actions : a = plan[k + 1]
      BY <2>7
    <3>2. PICK i \in ConfirmationIds :
             e = Requested(i, a) /\ a \in Gated \cap Declared[Store!NodeAfter(s, plan, k)]
      BY <2>9, <3>1 DEF Waits
    <3>3. e.kind = "confirmation-requested" /\ a = e.action /\ a \in Gated \cap Declared[u.node]
      BY <1>2, <3>2, WebEvents DEF HasFollowed
    <3>4. x \in Store!Suspending(u, a)
      BY <1>2, <2>4, <2>5, <3>3, RequestSteps DEF HasFollowed
    <3>5. k \in {j \in 0..Len(plan) : Store!Follows(s, plan, j)} \ {Len(plan)}
      BY <1>2, <1>6 DEF HasFollowed
    <3>6. t \in Store!Suspending(Store!Followed(s, plan, k), plan[k + 1])
      BY <1>2, <2>6, <3>1, <3>4 DEF HasFollowed
    <3> QED
      BY <3>5, <3>6 DEF Store!ExecutingPlan
  <2> QED
    BY <1>6, <2>0, <2>8, <2>9 DEF Stopping
<1> QED
  BY <1>5, <1>6 DEF PlanEvents

(* Two snapshots that agree on what the judge looks at.                      *)
Agree(s, t) ==
    /\ s.node = t.node
    /\ \A i \in ConfirmationIds : s.confirmations[i].action = t.confirmations[i].action

(* They word the same verdicts.                                              *)
LEMMA WordedAlike ==
    ASSUME NEW s, NEW t, Agree(s, t), NEW log, Worded(s, log)
    PROVE  Worded(t, log)
<1>1. \A plan, k : PlanEvents(s, plan, k, log) => PlanEvents(t, plan, k, log)
  BY DEF Agree, PlanEvents, Store!NodeAfter
<1>2. /\ \A i \in ConfirmationIds : s.confirmations[i].action = t.confirmations[i].action
      /\ \A a, e : Waits(s.node, a, e) => Waits(t.node, a, e)
  BY DEF Agree
<1>3. CASE \E a \in Actions : \E e \in WebEvent : Waits(s.node, a, e) /\ log = <<e>>
  BY <1>2, <1>3 DEF Worded
<1>4. CASE \E i \in ConfirmationIds : log = <<Approved(i), Executed(s.confirmations[i].action)>>
  BY <1>2, <1>4 DEF Worded
<1>5. CASE \E plan \in Plans : \E k \in 0..Len(plan) : PlanEvents(s, plan, k, log)
  BY <1>1, <1>5 DEF Worded
<1> QED
  BY <1>3, <1>4, <1>5 DEF Worded

(* The events of a verdict, where they fold, are one step of the store, or none. *)
LEMMA ChainSteps ==
    ASSUME NEW s \in Snapshot, s.ok = TRUE, NEW log \in Seq(WebEvent), Worded(s, log),
           NEW g, IsChain(g, s, log), NEW t, t = g[Len(log)]
    PROVE  t = s \/ t \in Store!Steps(s)
<1>0. g[0] = s /\ \A k \in 1..Len(log) : Fold1(g[k - 1], log[k], g[k])
  BY DEF IsChain
<1>a. \A k \in 1..Len(log) : log[k] \in WebEvent
  OBVIOUS
<1>1. ASSUME NEW e, log = <<e>>
      PROVE  e \in WebEvent /\ e \in Events /\ t = Apply(s, e) /\ t.ok = TRUE
  <2>1. Len(log) = 1 /\ log[1] = e /\ 1 \in 1..Len(log) /\ 1 - 1 = 0
    BY <1>1
  <2>2. e \in WebEvent
    BY <2>1
  <2>3. Fold1(s, e, t)
    BY <1>0, <2>1
  <2> QED
    BY <2>2, <2>3 DEF WebEvent, Fold1
<1>2. CASE log = <<Noted>>
  <2>1. t = Apply(s, Noted)
    BY <1>1, <1>2
  <2> QED
    BY <2>1, ApplyNotedIs, WebEvents
<1>3. ASSUME NEW a \in Actions, log = <<Executed(a)>> PROVE t \in Store!Steps(s)
  <2>1. PICK e : e = Executed(a) /\ log = <<e>>
    BY <1>3
  <2>2. e \in Events /\ t = Apply(s, e) /\ t.ok = TRUE /\ e.kind = "action-executed" /\ e.action = a
    BY <1>1, <2>1, WebEvents
  <2>3. t \in Store!Executing(s, a)
    BY <2>2, ActionSteps
  <2> QED
    BY <2>3, StoreSteps
<1>4. ASSUME NEW a \in Actions, NEW e \in WebEvent, Waits(s.node, a, e), log = <<e>>
      PROVE  t \in Store!Steps(s)
  <2>1. e \in Events /\ t = Apply(s, e) /\ t.ok = TRUE
    BY <1>1, <1>4
  <2>2. e.kind = "confirmation-requested" /\ a = e.action /\ a \in Gated \cap Declared[s.node]
    BY <1>4, WebEvents DEF Waits
  <2>3. t \in Store!Suspending(s, a)
    BY <2>1, <2>2, RequestSteps
  <2> QED
    BY <2>3, StoreSteps
<1>5. ASSUME NEW i \in ConfirmationIds, log = <<Refused(i)>> PROVE t \in Store!Steps(s)
  <2>1. PICK e : e = Refused(i) /\ log = <<e>>
    BY <1>5
  <2>2. /\ e \in Events /\ t = Apply(s, e) /\ t.ok = TRUE
        /\ e.kind = "confirmation-rejected" /\ i = e.id
    BY <1>1, <2>1, WebEvents
  <2>3. t \in Store!Deciding(s, i)
    BY <2>2, RefusalSteps
  <2> QED
    BY <2>3, StoreSteps
<1>6. ASSUME NEW i \in ConfirmationIds,
             log = <<Approved(i), Executed(s.confirmations[i].action)>>
      PROVE  t \in Store!Steps(s)
  <2>1. PICK d, e, a : d = Approved(i) /\ e = Executed(a) /\ a = s.confirmations[i].action
                       /\ log = <<d, e>>
    BY <1>6
  <2>2. PICK u : u = g[1]
    OBVIOUS
  <2>3. /\ Len(log) = 2 /\ log[1] = d /\ log[2] = e
        /\ 1 \in 1..Len(log) /\ 2 \in 1..Len(log) /\ 1 - 1 = 0 /\ 2 - 1 = 1
    BY <2>1
  <2>4. Fold1(s, d, u) /\ Fold1(u, e, t)
    BY <1>0, <2>2, <2>3
  <2>5. d \in Events /\ e \in Events
    <3>1. log[1] \in WebEvent /\ log[2] \in WebEvent
      BY <1>a, <2>3
    <3> QED
      BY <2>3, <3>1 DEF WebEvent
  <2>6. d.kind = "confirmation-approved" /\ d.id = i
    BY <2>1, WebEvents
  <2>7. e.kind = "action-executed" /\ e.action = s.confirmations[i].action
    BY <2>1 DEF Executed
  <2>a. d.kind \in Decisions /\ DecisionOf(d) = "approved" /\ u = Apply(s, d) /\ u.ok = TRUE
    BY <2>4, <2>6 DEF Fold1, Decisions, DecisionOf
  <2>b. PICK x : x = s.confirmations[i]
    OBVIOUS
  <2>8. x.status = "pending" /\ Changed(s, i, [x EXCEPT !.status = "approved"], u)
    <3>1. /\ s.confirmations[d.id].status = "pending"
          /\ Changed(s, d.id, [s.confirmations[d.id] EXCEPT !.status = DecisionOf(d)], u)
      BY <2>5, <2>a, ApplyDecisionIs
    <3> QED
      BY <2>6, <2>a, <2>b, <3>1
  <2>9. t = Apply(u, e) /\ t.ok = TRUE
    BY <2>4 DEF Fold1
  <2>10. t \in Store!Deciding(s, i)
    BY <2>5, <2>7, <2>b, <2>8, <2>9, ApprovalSteps
  <2> QED
    BY <2>10, StoreSteps
<1>7. ASSUME NEW plan \in Plans, NEW k \in 0..Len(plan), PlanEvents(s, plan, k, log)
      PROVE  t \in Store!Steps(s)
  <2>1. plan \in Seq(Actions)
    BY ReplayAssumption
  <2>2. t \in Store!ExecutingPlan(s, plan)
    BY <1>7, <2>1, PlanChainSteps
  <2> QED
    BY <2>2, StoreSteps
<1> QED
  BY <1>2, <1>3, <1>4, <1>5, <1>6, <1>7 DEF Worded

-----------------------------------------------------------------------------
(* The batch of the process, and every other step.                           *)

(* The rows of the batch below one of them.                                  *)
LEMMA BatchBelow ==
    ASSUME own \in SUBSET Rows, Cardinality(own) \in Nat,
           NEW rows \in [1..Cardinality(own) -> own], IsBatch(rows), NEW k \in 1..Cardinality(own)
    PROVE  Firsts(rows, k - 1) = Below(own, rows[k])
<1>0. PICK n \in Nat : n = Cardinality(own)
  OBVIOUS
<1>1. /\ \A i, j \in 1..n : i < j => rows[i] < rows[j]
      /\ \A r \in own : \E j \in 1..n : rows[j] = r
      /\ \A j \in 1..n : rows[j] \in own /\ rows[j] \in Nat
  <2>1. \A r \in own : r \in Nat
    BY DEF Rows
  <2>2. \A j \in 1..n : rows[j] \in own
    BY <1>0
  <2> QED
    BY <1>0, <2>1, <2>2 DEF IsBatch
<1>2. ASSUME NEW q \in own, q < rows[k] PROVE \E j \in 1..(k - 1) : rows[j] = q
  <2>1. PICK j \in 1..n : rows[j] = q
    BY <1>1
  <2>2. ~(k < j) /\ k # j
    <3>1. rows[j] \in Nat /\ rows[k] \in Nat
      BY <1>0, <1>1
    <3> QED
      BY <1>0, <1>1, <1>2, <2>1, <3>1
  <2>3. j \in 1..(k - 1)
    BY <1>0, <2>2
  <2> QED
    BY <2>1, <2>3
<1>3. ASSUME NEW j \in 1..(k - 1) PROVE rows[j] \in own /\ rows[j] < rows[k]
  <2>1. j \in 1..n /\ j < k
    BY <1>0
  <2> QED
    BY <1>0, <1>1, <2>1
<1> QED
  BY <1>2, <1>3 DEF Below, Firsts

(* The rows of the batch fold on everything that is committed as they did on *)
(* what the process had folded, to the replay with the batch.                *)
LEMMA BatchChain ==
    ASSUME IInv, pc = "appending", Cardinality(own) = Len(verdict.events),
           NEW s, Represents(content, s, committed)
    PROVE  \E g : /\ IsChain(g, s, verdict.events)
                  /\ Represents(content, g[Len(verdict.events)], committed \cup own)
<1>0. /\ LogTyped /\ own \in SUBSET Rows /\ own \in SUBSET Seqs
      /\ committed \in SUBSET Rows /\ folded \in SUBSET committed
      /\ folded \in SUBSET Rows
  BY InvFacts
<1>1. PICK rows \in [1..Cardinality(own) -> own] : IsBatch(rows)
  BY DEF IInv, VerdictInv
<1>2. /\ VerdictOn(snapshot, verdict) /\ Represents(content, snapshot, folded)
      /\ \A r \in own, q \in folded : q < r
  BY DEF IInv, VerdictInv, SnapshotInv
<1>3. Cardinality(own) \in Nat
  BY <1>0, CountingEvents
<1>4. \A r \in own : IsWeb(content, r) /\ Fits(content, folded \cup Below(own, r), r)
  BY <1>0, <1>1, <1>2, <1>3, BatchFolds DEF IInv, WebInv
<1>5. WebRows(content, committed) \subseteq folded
  BY DEF IInv, WebInv, WebFolded, Pending, WebRows
<1>a. PICK log : log = verdict.events
  OBVIOUS
<1>6. PICK n \in Nat : n = Cardinality(own) /\ log = verdict.events /\ n = Len(log)
  BY <1>3, <1>a
<1>7. /\ rows \in [1..n -> own]
      /\ \A r \in own : \E k \in 1..n : rows[k] = r
      /\ \A k \in 1..n : rows[k] \in own /\ content[rows[k]] = log[k]
  BY <1>1, <1>6 DEF IsBatch
<1> DEFINE R(k) == committed \cup Firsts(rows, k)
           g == [k \in 0..n |-> CHOOSE t : Represents(content, t, R(k))]
           Good(k) == Represents(content, g[k], R(k))
           Bad == {k \in 0..n : ~Good(k)}
<1>8. \A k \in 0..n : R(k) \in SUBSET Nat
  <2>1. \A q \in Rows : q \in Nat
    BY DEF Rows
  <2>2. \A k \in 0..n : \A j \in 1..k : j \in 1..n
    OBVIOUS
  <2> QED
    BY <1>0, <1>7, <2>1, <2>2 DEF Firsts
<1>9. ASSUME NEW k \in 0..n, NEW t, Represents(content, t, R(k)) PROVE Good(k) /\ g[k] = t
  <2>1. Good(k)
    <3>1. Represents(content, CHOOSE x : Represents(content, x, R(k)), R(k))
      BY <1>9, Zenon
    <3>2. g[k] = CHOOSE x : Represents(content, x, R(k))
      BY <1>9
    <3> QED
      BY <3>1, <3>2
  <2>2. PICK S, u : S = R(k) /\ u = g[k] /\ S \in SUBSET Nat
    BY <1>8
  <2>3. u = t
    BY <1>9, <2>1, <2>2, SameRowsSameSnapshot
  <2> QED
    BY <2>1, <2>2, <2>3
<1> HIDE DEF g
<1>10. Good(0) /\ g[0] = s
  <2>1. R(0) = committed
    BY DEF Firsts
  <2>2. 0 \in 0..n
    OBVIOUS
  <2> HIDE DEF R, Good
  <2>3. Represents(content, s, R(0))
    BY <2>1
  <2> QED
    BY <1>9, <2>2, <2>3
<1>11. ASSUME NEW k \in 1..n, Good(k - 1) PROVE Good(k) /\ Fold1(g[k - 1], log[k], g[k])
  <2>1. PICK u, t, r, S : u = g[k - 1] /\ t = Apply(u, log[k]) /\ r = rows[k] /\ S = R(k - 1)
    OBVIOUS
  <2>2. r \in own /\ r \in Nat /\ content[r] = log[k] /\ content[r] \in Events
    BY <1>0, <1>7, <2>1, RowsTyped
  <2>3. Firsts(rows, k - 1) = Below(own, r)
    BY <1>0, <1>1, <1>3, <1>6, <2>1, BatchBelow
  <2>4. S = committed \cup Below(own, r) /\ S \in SUBSET Nat
    <3>1. k - 1 \in 0..n
      OBVIOUS
    <3> QED
      BY <1>8, <2>1, <2>3, <3>1
  <2>5. WebRows(content, folded \cup Below(own, r)) = WebRows(content, S)
    BY <1>0, <1>5, <2>4 DEF WebRows
  <2>6. Fits(content, S, r)
    BY <1>4, <2>2, <2>5, WebFitsByWeb, OtherFamilyFits DEF Fits
  <2>7. \A q \in S : Executes(content, q) => q <= r
    <3>1. \A q \in folded : q < r /\ q \in Nat
      BY <1>0, <1>2, <2>2 DEF Rows
    <3>2. \A q \in S : Executes(content, q) => q \in folded \/ q \in Below(own, r)
      BY <1>5, <2>4 DEF WebRows, Executes, IsWeb, WebKinds
    <3>3. \A q \in Below(own, r) : q < r /\ q \in Nat
      BY <1>0 DEF Below, Rows
    <3>4. \A q \in Nat : q < r => q <= r
      BY <2>2
    <3> QED
      BY <3>1, <3>2, <3>3, <3>4
  <2>8. Represents(content, u, S) /\ t = Apply(u, content[r])
    BY <1>11, <2>1, <2>2
  <2>9. t.ok = TRUE /\ Represents(content, t, S \cup {r})
    BY <2>2, <2>4, <2>6, <2>7, <2>8, RowFolds
  <2>10. R(k) = S \cup {r}
    BY <2>1, FirstsGrow
  <2>11. k \in 0..n
    OBVIOUS
  <2>12. Good(k) /\ g[k] = t
    BY <1>9, <2>9, <2>10, <2>11
  <2> QED
    BY <2>1, <2>9, <2>12 DEF Fold1
<1>12. \A k \in 0..n : Good(k)
  <2>1. SUFFICES ASSUME Bad # {} PROVE FALSE
    OBVIOUS
  <2>2. PICK k \in Bad : \A j \in Bad : k <= j
    <3>1. Bad \in SUBSET Nat
      OBVIOUS
    <3> HIDE DEF Bad
    <3> QED BY <2>1, <3>1, LeastNatural
  <2>3. k \in 0..n /\ ~Good(k)
    OBVIOUS
  <2>4. k # 0
    BY <1>10, <2>3
  <2>5. k \in 1..n /\ k - 1 \in 0..n /\ Good(k - 1)
    <3> HIDE DEF Good
    <3> QED BY <2>2, <2>3, <2>4
  <2> QED
    BY <1>11, <2>3, <2>5
<1>13. IsChain(g, s, log)
  <2>1. \A k \in 1..n : k - 1 \in 0..n
    OBVIOUS
  <2>2. \A k \in 1..n : Fold1(g[k - 1], log[k], g[k])
    <3> HIDE DEF Good
    <3> QED BY <1>11, <1>12, <2>1
  <2> QED
    BY <1>6, <1>10, <2>2 DEF IsChain
<1>14. Represents(content, g[n], committed \cup own)
  <2>1. Firsts(rows, n) = own
    BY <1>7 DEF Firsts
  <2>2. n \in 0..n
    OBVIOUS
  <2> QED
    BY <1>12, <2>1, <2>2
<1> QED
  BY <1>6, <1>13, <1>14

(* What is being appended was judged on the snapshot the process still has.  *)
Judged == pc = "appending" => verdict \in Verdicts

(* Every step keeps that.                                                    *)
LEMMA JudgedStep ==
    ASSUME Judged, [ReplayNext]_replayVars
    PROVE  Judged'
<1>1. CASE JudgeRequest
  BY <1>1 DEF JudgeRequest, Judged, Verdicts
<1>2. ASSUME UNCHANGED <<pc, snapshot, verdict>> PROVE Judged'
  BY <1>2 DEF Judged, Verdicts
<1>3. ASSUME pc' # "appending" PROVE Judged'
  BY <1>3 DEF Judged
<1>4. CASE \/ \E d \in Delegations : InsertDelegationEvent(d)
           \/ \E i \in ConfirmationIds : InsertDelivery(i)
           \/ CommitForeign \/ InsertOwn
  BY <1>2, <1>4
  DEF InsertDelegationEvent, InsertDelivery, CommitForeign, InsertOwn, ForeignAllocate,
      ForeignCommit, OwnInsert, contents
<1>5. CASE StartRequest \/ RefreshSnapshot \/ ThrowOnFold \/ JudgeNothing
  BY <1>3, <1>5
  DEF StartRequest, StartExec, StartOperation, RefreshSnapshot, FoldOnRefresh, RefreshUnchanged,
      RefreshFresh, RefreshRebuild, RefreshMismatch, RefreshReturns, Return, ThrowOnFold,
      GapFoldThrows, FreshFoldThrows, RebuildThrows, JudgeNothing, AcceptNothing
<1>6. CASE CommitOwn \/ CommitUnacknowledged \/ AbortOwn \/ CollectGapRows
  BY <1>3, <1>6
  DEF CommitOwn, OwnCommit, CommitUnacknowledged, OwnCommitUnacknowledged, AbortOwn, OwnRollback,
      CollectGapRows, CollectGap, Return
<1>7. CASE FinishRejected \/ InstallVerdict \/ FinishAccepted \/ CrashProcess \/ BootProcess
  BY <1>3, <1>7
  DEF FinishRejected, FinishRejection, InstallVerdict, OverwriteSnapshot, FinishAccepted,
      FinishFoldingGaps, FinishLeavingGaps, CrashProcess, Crash, BootProcess, Boot, Return
<1>8. CASE UNCHANGED replayVars
  BY <1>2, <1>8 DEF replayVars, vars, contents
<1> QED
  BY <1>1, <1>4, <1>5, <1>6, <1>7, <1>8 DEF ReplayNext

(* A batch becomes visible: one step of the store, or, for a rejection, none. *)
LEMMA BatchSteps ==
    ASSUME IInv, Judged, IInv', pc = "appending", WholeBatch,
           committed' = committed \cup own, UNCHANGED content
    PROVE  \/ Replay(committed)' = Replay(committed)
           \/ Replay(committed)' \in Store!Steps(Replay(committed))
<1>1. PICK s : s = Replay(committed)
  OBVIOUS
<1>2. Represents(content, s, committed)
  BY <1>1, CommittedReplays
<1>3. PICK log : log = verdict.events
  OBVIOUS
<1>4. PICK g : IsChain(g, s, log) /\ Represents(content, g[Len(log)], committed \cup own)
  BY <1>2, <1>3, BatchChain DEF WholeBatch
<1>5. PICK t : t = g[Len(log)]
  OBVIOUS
<1>6. /\ committed \in SUBSET Nat /\ folded \in SUBSET Nat /\ committed' \in SUBSET Nat
      /\ folded \subseteq committed
  <2>1. /\ committed \in SUBSET Rows /\ own \in SUBSET Rows /\ Rows \in SUBSET Nat
        /\ folded \subseteq committed
    BY InvFacts
  <2> QED
    BY <2>1
<1>7. Replay(committed)' = t
  BY <1>4, <1>5, <1>6, ReplayIs
<1>8. /\ snapshot \in Snapshot /\ snapshot.ok = TRUE /\ Represents(content, snapshot, folded)
      /\ s \in Snapshot /\ s.ok = TRUE
  BY <1>2, InvFacts DEF IInv, SnapshotInv, Represents
<1>9. WebRows(content, folded) = WebRows(content, committed)
  <2>1. WebRows(content, committed) \subseteq folded
    BY DEF IInv, WebInv, WebFolded, Pending, WebRows
  <2> QED
    BY <1>6, <2>1 DEF WebRows
<1>10. Agree(snapshot, s)
  BY <1>2, <1>6, <1>8, <1>9, DecidedByWeb DEF Agree
<1>11. Worded(snapshot, log)
  BY <1>3, <1>8, VerdictsSay DEF Judged
<1>12. Worded(s, log)
  BY <1>10, <1>11, WordedAlike
<1>13. log \in Seq(WebEvent)
  BY <1>3 DEF IInv, VerdictInv, VerdictOn
<1>14. t = s \/ t \in Store!Steps(s)
  BY <1>4, <1>5, <1>8, <1>12, <1>13, ChainSteps
<1> QED
  BY <1>1, <1>7, <1>14

(* Every other step leaves the log, or what is visible of it, as it was.     *)
LEMMA LogAppended ==
    ASSUME IInv, NEW e, content' = Append(content, e)
    PROVE  \A r \in committed : content'[r] = content[r]
<1>1. content \in Seq(Events) /\ committed \in SUBSET Rows /\ Len(content) = nextSeq - 1
  BY InvFacts DEF LogTyped
<1>2. PICK log \in Seq(Events) : log = content
  BY <1>1
<1>3. \A r \in committed : r \in 1..Len(log)
  BY <1>1, <1>2 DEF Rows
<1>4. \A r \in 1..Len(log) : Append(log, e)[r] = log[r]
  OBVIOUS
<1> QED
  BY <1>2, <1>3, <1>4

(* Every step of the replay is a step of the store, or leaves it.            *)
LEMMA StoreStep ==
    ASSUME IInv, Judged, IInv', [ReplayNext]_replayVars
    PROVE  [Store!StoreNext]_(Replay(committed))
<1> DEFINE Good == [Store!StoreNext]_(Replay(committed))
<1>1. ASSUME committed' = committed, content' = content PROVE Good
  BY <1>1, ReplayKept
<1>2. ASSUME committed' = committed, NEW e, content' = Append(content, e) PROVE Good
  BY <1>2, LogAppended, ReplayKept
<1>3. ASSUME pc = "appending", WholeBatch, committed' = committed \cup own, content' = content
      PROVE  Good
  BY <1>3, BatchSteps DEF Store!StoreNext
<1>4. ASSUME CommitForeign PROVE Good
  BY <1>4, ForeignCommitSteps DEF Store!StoreNext
<1> HIDE DEF Good
<1>5. ASSUME NEW d \in Delegations, InsertDelegationEvent(d) PROVE Good
  BY <1>2, <1>5 DEF InsertDelegationEvent, ForeignAllocate
<1>6. ASSUME NEW i \in ConfirmationIds, InsertDelivery(i) PROVE Good
  BY <1>2, <1>6 DEF InsertDelivery, ForeignAllocate
<1>7. ASSUME InsertOwn PROVE Good
  BY <1>2, <1>7 DEF InsertOwn, OwnInsert
<1>8. ASSUME CommitOwn \/ CommitUnacknowledged PROVE Good
  BY <1>3, <1>8
  DEF CommitOwn, OwnCommit, CommitUnacknowledged, OwnCommitUnacknowledged, EndRequest, contents
<1>9. ASSUME StartRequest \/ RefreshSnapshot \/ ThrowOnFold \/ JudgeRequest \/ JudgeNothing
      PROVE  Good
  BY <1>1, <1>9
  DEF StartRequest, StartExec, StartOperation, RefreshSnapshot, FoldOnRefresh, RefreshUnchanged,
      RefreshFresh, RefreshRebuild, RefreshMismatch, ThrowOnFold, GapFoldThrows, FreshFoldThrows,
      RebuildThrows, JudgeRequest, Reject, Accept, Judge, JudgeNothing, AcceptNothing, EndRequest,
      database, contents
<1>10. ASSUME AbortOwn \/ CollectGapRows \/ FinishRejected \/ InstallVerdict \/ FinishAccepted
      PROVE  Good
  BY <1>1, <1>10
  DEF AbortOwn, OwnRollback, CollectGapRows, CollectGap, FinishRejected, FinishRejection,
      InstallVerdict, OverwriteSnapshot, FinishAccepted, FinishFoldingGaps, FinishLeavingGaps,
      EndRequest, database, contents
<1>11. ASSUME CrashProcess \/ BootProcess PROVE Good
  BY <1>1, <1>11 DEF CrashProcess, Crash, BootProcess, Boot, EndRequest, database
<1>12. ASSUME UNCHANGED replayVars PROVE Good
  BY <1>1, <1>12 DEF replayVars, vars, contents, database
<1>13. Good
  BY <1>4, <1>5, <1>6, <1>7, <1>8, <1>9, <1>10, <1>11, <1>12 DEF ReplayNext
<1> QED
  BY <1>13 DEF Good

(* The empty log replays to the initial store.                               *)
LEMMA StoreStarts == ReplayInit => Store!StoreInit
<1> SUFFICES ASSUME ReplayInit PROVE Store!StoreInit
  OBVIOUS
<1>1. IInv /\ committed = {}
  BY IInvInit DEF ReplayInit, Init
<1>2. PICK s : s = Replay(committed)
  OBVIOUS
<1>3. Represents(content, s, {}) /\ Represents(content, EmptySnapshot, {})
  BY <1>1, <1>2, CommittedReplays, NothingRepresented
<1>4. s = EmptySnapshot
  BY <1>3, SameRowsSameSnapshot
<1> QED
  BY <1>2, <1>4
  DEF Store!StoreInit, Store!EmptySnapshot, EmptySnapshot, Store!NoConfirmation, NoConfirmation,
      Store!NoDelegation, NoDelegation, Store!ConfirmationIds, ConfirmationIds

(* Web process, log and worker implement the atomic store: whatever the      *)
(* process judges on a snapshot behind the log, and whatever order rows      *)
(* are committed in, the log, read in sequence order, goes through atomic    *)
(* governed steps only.                                                      *)
THEOREM StoreImplemented == ReplaySpec => ImplementsStore
<1>1. ReplayInit => Judged
  BY DEF ReplayInit, Init, Judged
<1>2. Judged /\ [ReplayNext]_replayVars => Judged'
  BY JudgedStep
<1>3. IInv /\ Judged /\ IInv' /\ [ReplayNext]_replayVars => [Store!StoreNext]_(Replay(committed))
  BY StoreStep
<1> QED
  BY <1>1, <1>2, <1>3, ReplayInvariant, StoreStarts, PTL
  DEF ReplaySpec, ImplementsStore, Store!StoreSpec
=============================================================================
