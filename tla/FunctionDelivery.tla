-------------------------- MODULE FunctionDelivery --------------------------
(***************************************************************************)
(* What the outbox of native functions promises: an execution is requested *)
(* by a governed step of its source entity, finished once, and the step    *)
(* that finishes it is the one that calls its source back.                 *)
(***************************************************************************)
EXTENDS Integers, Sequences

CONSTANTS
    Sources,    \* entities whose flow requests an execution
    MaxSpawns   \* bound: executions requested

Outcomes == {"succeeded", "failed", "cancelled"}
Nodes == {"identified", "enriching", "enriched", "failed"}
Executions == 1..MaxSpawns

VARIABLES
    requested,  \* the source of each execution, in the order of the requests
    outcome,    \* execution -> its outcome, or "none"
    node        \* source -> the node of its flow

Requested == 1..Len(requested)

Init ==
    /\ requested = <<>>
    /\ outcome = [e \in Executions |-> "none"]
    /\ node = [s \in Sources |-> "identified"]

Request(s) ==
    /\ Len(requested) < MaxSpawns
    /\ node[s] \in {"identified", "failed"}
    /\ requested' = Append(requested, s)
    /\ node' = [node EXCEPT ![s] = "enriching"]
    /\ UNCHANGED outcome

(* The callback takes effect on a source that waits for one, or on none.    *)
Landing(o) == IF o = "succeeded" THEN "enriched" ELSE "failed"

Land(s, o) ==
    /\ node[s] = "enriching"
    /\ node' = [node EXCEPT ![s] = Landing(o)]

Finish(e, o) ==
    /\ outcome[e] = "none"
    /\ outcome' = [outcome EXCEPT ![e] = o]
    /\ \/ Land(requested[e], o)
       \/ UNCHANGED node
    /\ UNCHANGED requested

(* A human moves the source: a callback approved late, a withdrawal.        *)
Decide(s) ==
    /\ \E o \in Outcomes : Land(s, o)
    /\ UNCHANGED <<requested, outcome>>

Next ==
    \/ \E s \in Sources : Request(s) \/ Decide(s)
    \/ \E e \in Requested, o \in Outcomes : Finish(e, o)

Spec == Init /\ [][Next]_<<requested, outcome, node>>
=============================================================================
