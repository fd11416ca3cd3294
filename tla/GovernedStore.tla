--------------------------- MODULE GovernedStore ----------------------------
(***************************************************************************)
(* What the web process, the log and the worker promise together: one      *)
(* store, changed by atomic steps.  An action takes effect where it is     *)
(* declared; a gated action of an agent waits for one decision of a human, *)
(* takes effect with the approval and never after a rejection; the worker  *)
(* counts the steps of a delegation without gap or repetition.             *)
(***************************************************************************)
EXTENDS EngineFold

CONSTANT Plans  \* the plans that may be sent: sequences of actions

VARIABLE store

StoreInit == store = EmptySnapshot

(* Each operator is the set of stores that one kind of step may lead to.    *)
Executing(s, a) ==
    IF a \in Declared[s.node] THEN {[s EXCEPT !.node = Target[a]]} ELSE {}

Suspending(s, a) ==
    {[s EXCEPT !.confirmations[i] = [status |-> "pending", action |-> a, notified |-> FALSE]] :
        i \in {j \in ConfirmationIds : /\ a \in Gated \cap Declared[s.node]
                                       /\ s.confirmations[j].status = "none"}}

(* A plan is one step: what its first actions left is seen by nobody.  Its  *)
(* actions take effect in turn, each declared where the one before led; it  *)
(* stops at the end, at an action that is not declared, or at one that waits. *)
NodeAfter(s, plan, k) == IF k = 0 THEN s.node ELSE Target[plan[k]]

Follows(s, plan, k) == \A j \in 1..k : plan[j] \in Declared[NodeAfter(s, plan, j - 1)]

Followed(s, plan, k) == [s EXCEPT !.node = NodeAfter(s, plan, k)]

Stops(s, plan, k) == k = Len(plan) \/ plan[k + 1] \notin Declared[NodeAfter(s, plan, k)]

ExecutingPlan(s, plan) ==
    LET runs == {k \in 0..Len(plan) : Follows(s, plan, k)} IN
    {Followed(s, plan, k) : k \in {j \in runs : Stops(s, plan, j)}}
    \cup (UNION {Suspending(Followed(s, plan, k), plan[k + 1]) : k \in runs \ {Len(plan)}})

Deciding(s, i) ==
    IF s.confirmations[i].status # "pending" THEN {}
    ELSE {[s EXCEPT !.confirmations[i].status = "rejected"]}
         \cup {[done EXCEPT !.confirmations[i].status = "approved"] :
                  done \in Executing(s, s.confirmations[i].action)}

Delivering(s, i) ==
    IF s.confirmations[i].status = "none" THEN {}
    ELSE {[s EXCEPT !.confirmations[i].notified = TRUE]}

Delegating(s, d) ==
    CASE s.delegations[d].status = "none" ->
            {[s EXCEPT !.delegations[d] = [status |-> "running", steps |-> 0]]}
      [] s.delegations[d].status = "running" ->
            {[s EXCEPT !.delegations[d].steps = @ + 1],
             [s EXCEPT !.delegations[d].status = "completed"]}
      [] OTHER -> {}

Steps(s) ==
    (UNION {Executing(s, a) \cup Suspending(s, a) : a \in Actions})
    \cup (UNION {ExecutingPlan(s, plan) : plan \in Plans})
    \cup (UNION {Deciding(s, i) \cup Delivering(s, i) : i \in ConfirmationIds})
    \cup (UNION {Delegating(s, d) : d \in Delegations})

StoreNext == store' \in Steps(store)

StoreSpec == StoreInit /\ [][StoreNext]_store
=============================================================================
