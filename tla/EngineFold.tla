----------------------------- MODULE EngineFold -----------------------------
(***************************************************************************)
(* The pure part of the engine the event log is folded with: a snapshot,   *)
(* the events of three families (actions and confirmations, written by the *)
(* web process; delegations and notifications, written by the worker) and  *)
(* what each event does to the snapshot.  One flow instance is enough: the *)
(* families meet in the confirmation table and nowhere else.               *)
(***************************************************************************)
EXTENDS Integers, Sequences

CONSTANTS
    Actions,           \* actions of the flow
    Declared,          \* node -> actions declared at it
    Target,            \* action -> node its transition leads to
    InitialNode,       \* node of the seeded instance
    Gated,             \* actions the confirmation policy suspends for an agent
    MaxConfirmations,  \* bound: confirmations ever requested
    Delegations        \* delegated tasks

ASSUME FlowAssumption ==
    /\ Gated \subseteq Actions
    /\ \A n \in DOMAIN Declared : Declared[n] \subseteq Actions
    /\ \A a \in Actions : Target[a] \in DOMAIN Declared
    /\ InitialNode \in DOMAIN Declared
    /\ MaxConfirmations \in Nat

ConfirmationIds == 1..MaxConfirmations

(* A confirmation of the table, or none; `notified' is the worker's field,  *)
(* the others are the web's.                                                *)
NoConfirmation == [status |-> "none", action |-> "none", notified |-> FALSE]
NoDelegation == [status |-> "none", steps |-> 0]

EmptySnapshot ==
    [ok |-> TRUE,
     node |-> InitialNode,
     confirmations |-> [id \in ConfirmationIds |-> NoConfirmation],
     delegations |-> [d \in Delegations |-> NoDelegation]]

-----------------------------------------------------------------------------
(* Events.  action-rejected and the audit kinds change nothing: "noted".    *)
Noted           == [kind |-> "noted"]
Executed(a)     == [kind |-> "action-executed", action |-> a]
Requested(i, a) == [kind |-> "confirmation-requested", id |-> i, action |-> a]
Approved(i)     == [kind |-> "confirmation-approved", id |-> i]
Refused(i)      == [kind |-> "confirmation-rejected", id |-> i]
Delivered(i)    == [kind |-> "notification-delivered", id |-> i]
Started(d)      == [kind |-> "delegation-started", delegation |-> d]
Step(d, n)      == [kind |-> "delegation-step", delegation |-> d, step |-> n]
Finished(d, n)  == [kind |-> "delegation-completed", delegation |-> d, steps |-> n]

-----------------------------------------------------------------------------
(* fold: one event on a snapshot.  A fold that throws is `ok = FALSE': the  *)
(* caller gets no snapshot out of it.                                       *)

Throw(s) == [s EXCEPT !.ok = FALSE]

ApplyExecuted(s, a) ==
    IF a \in Declared[s.node] THEN [s EXCEPT !.node = Target[a]] ELSE Throw(s)

ApplyRequested(s, i, a) ==
    IF s.confirmations[i].status # "none" THEN Throw(s)
    ELSE [s EXCEPT !.confirmations[i] =
                   [status |-> "pending", action |-> a, notified |-> FALSE]]

ApplyDecision(s, i, verdict) ==
    IF s.confirmations[i].status # "pending" THEN Throw(s)
    ELSE [s EXCEPT !.confirmations[i].status = verdict]

ApplyDelivered(s, i) ==
    IF s.confirmations[i].status = "none" THEN Throw(s)
    ELSE [s EXCEPT !.confirmations[i].notified = TRUE]

ApplyStarted(s, d) ==
    IF s.delegations[d].status # "none" THEN Throw(s)
    ELSE [s EXCEPT !.delegations[d] = [status |-> "running", steps |-> 0]]

ApplyStep(s, d, n) ==
    IF s.delegations[d].status = "none" \/ n # s.delegations[d].steps + 1 THEN Throw(s)
    ELSE [s EXCEPT !.delegations[d].steps = n]

ApplyFinished(s, d, n) ==
    IF s.delegations[d].status # "running" \/ n # s.delegations[d].steps THEN Throw(s)
    ELSE [s EXCEPT !.delegations[d].status = "completed"]

Apply(s, e) ==
    IF ~s.ok THEN s
    ELSE CASE e.kind = "noted"                   -> s
           [] e.kind = "action-executed"         -> ApplyExecuted(s, e.action)
           [] e.kind = "confirmation-requested"  -> ApplyRequested(s, e.id, e.action)
           [] e.kind = "confirmation-approved"   -> ApplyDecision(s, e.id, "approved")
           [] e.kind = "confirmation-rejected"   -> ApplyDecision(s, e.id, "rejected")
           [] e.kind = "notification-delivered"  -> ApplyDelivered(s, e.id)
           [] e.kind = "delegation-started"      -> ApplyStarted(s, e.delegation)
           [] e.kind = "delegation-step"         -> ApplyStep(s, e.delegation, e.step)
           [] e.kind = "delegation-completed"    -> ApplyFinished(s, e.delegation, e.steps)

-----------------------------------------------------------------------------
(* Online verdicts: what the web decides on a snapshot, as the events it    *)
(* will append and the snapshot it will install when they are durable.      *)

Verdict(events, next, notify) == [events |-> events, next |-> next, notify |-> notify]

Rejection(s) == Verdict(<<Noted>>, s, {})

(* nextConfirmationId: the first unused counter value.                      *)
FreeIds(s) == {i \in ConfirmationIds : s.confirmations[i].status = "none"}
NextId(s) == CHOOSE i \in FreeIds(s) : \A j \in FreeIds(s) : i <= j

Suspension(s, a) ==
    LET id == NextId(s) IN
    Verdict(<<Requested(id, a)>>,
            [s EXCEPT !.confirmations[id] =
                      [status |-> "pending", action |-> a, notified |-> FALSE]],
            {id})

(* executeWithGates: declared at the node, then the confirmation gate.      *)
ExecuteWithGates(s, a, actor) ==
    IF a \notin Declared[s.node] THEN Rejection(s)
    ELSE IF actor = "agent" /\ a \in Gated THEN Suspension(s, a)
    ELSE Verdict(<<Executed(a)>>, [s EXCEPT !.node = Target[a]], {})

(* Mutation: every step is judged on the snapshot the plan began with.      *)
ExecutePlanAtOnce(s, steps, actor) ==
    LET upTo[k \in 0..Len(steps)] ==
            IF k = 0 THEN [stopped |-> FALSE, verdict |-> Verdict(<<>>, s, {})]
            ELSE LET before == upTo[k - 1]
                     step   == ExecuteWithGates(s, steps[k], actor)
                 IN  IF before.stopped THEN before
                     ELSE [stopped |-> step.events[1].kind # "action-executed",
                           verdict |-> [step EXCEPT !.events = before.verdict.events \o @]]
    IN [upTo[Len(steps)].verdict EXCEPT !.events = Append(@, Noted)]

(* executePlan: the steps in turn, each judged on what the ones before left, *)
(* up to the first that is rejected or suspended; what was executed before  *)
(* that stays.  The record of the plan comes last.                          *)
Planning(s, steps, actor) ==
    LET upTo[k \in 0..Len(steps)] ==
            IF k = 0 THEN [stopped |-> FALSE, verdict |-> Verdict(<<>>, s, {})]
            ELSE LET before == upTo[k - 1]
                     step   == ExecuteWithGates(before.verdict.next, steps[k], actor)
                 IN  IF before.stopped THEN before
                     ELSE [stopped |-> step.events[1].kind # "action-executed",
                           verdict |-> [step EXCEPT !.events = before.verdict.events \o @]]
    IN upTo

ExecutePlan(s, steps, actor) ==
    [Planning(s, steps, actor)[Len(steps)].verdict EXCEPT !.events = Append(@, Noted)]

(* Mutation: the approval trusts the verdict given when the action was proposed. *)
ApproveDrifted(s, i, actor) ==
    LET a == s.confirmations[i].action IN
    IF s.confirmations[i].status # "pending" \/ actor # "human" THEN Rejection(s)
    ELSE Verdict(<<Approved(i), Executed(a)>>,
                 [s EXCEPT !.confirmations[i].status = "approved", !.node = Target[a]], {})

(* approveConfirmation: pending, a human, the action still declared; the    *)
(* proposed action takes effect together with the decision.                 *)
ApproveConfirmation(s, i, actor) ==
    LET a == s.confirmations[i].action IN
    IF \/ s.confirmations[i].status # "pending"
       \/ actor # "human"
       \/ a \notin Declared[s.node]
    THEN Rejection(s)
    ELSE Verdict(<<Approved(i), Executed(a)>>,
                 [s EXCEPT !.confirmations[i].status = "approved", !.node = Target[a]], {})

(* Mutation: a confirmation can be decided twice. *)
RejectDecided(s, i, actor) ==
    IF s.confirmations[i].status = "none" \/ actor # "human" THEN Rejection(s)
    ELSE Verdict(<<Refused(i)>>, [s EXCEPT !.confirmations[i].status = "rejected"], {})

RejectConfirmation(s, i, actor) ==
    IF s.confirmations[i].status # "pending" \/ actor # "human" THEN Rejection(s)
    ELSE Verdict(<<Refused(i)>>, [s EXCEPT !.confirmations[i].status = "rejected"], {})
=============================================================================
