----------------------------- MODULE Governance -----------------------------
(***************************************************************************)
(* The two ways by which a flow definition changes, and the retirement of  *)
(* the application that owns it.                                           *)
(*                                                                         *)
(* A flow can be edited in place through its lifecycle (revise, edit,      *)
(* submit, approve), each step a turn of the engine's queue; or a governed *)
(* draft can be written beside it and accepted as a whole.  A draft        *)
(* request reads the draft, awaits, and commits a command later, so two    *)
(* requests interleave between the read and the commit.  An acceptance     *)
(* judges the log in one step and appends to it in a later one.  An        *)
(* application can be deprecated at any time by a human.                   *)
(*                                                                         *)
(* One flow, one application beside the undeletable default one.  A turn   *)
(* of the queue refreshes the snapshot from the log before it judges, so   *)
(* the tables below are the fold of the core log.                          *)
(***************************************************************************)
EXTENDS Naturals, Sequences

CONSTANTS
    Drafts,        \* draft identities
    Requests,      \* slots for requests of the draft plane in flight
    Bodies,        \* definition texts
    Broken,        \* the text that fails validation
    Installed,     \* the text a flow is installed with
    Proposals,     \* the texts that drafts propose
    Bases,         \* target versions a client may name: those of the flow and others
    MaxVersion,    \* bound on the versions of the flow
    MaxRevisions   \* limit of the code on the versions of a draft (maxVersions)

ASSUME BodiesAssumption ==
    Broken \in Bodies /\ Installed \in Bodies \ {Broken} /\ Proposals \subseteq Bodies
ASSUME BasesAssumption == Bases \subseteq Nat \ {0}
ASSUME BoundsAssumption == MaxVersion \in Nat \ {0} /\ MaxRevisions \in Nat \ {0}

VARIABLES
    live,      \* the applications table
    burned,    \* deprecatedApplications: names that were retired
    flow,      \* the definition entry with its lifecycle node and history
    pending,   \* activations of the lifecycle that await a decision
    drafts,    \* the draft aggregates
    request,   \* what each request in flight read and is about to commit
    wedged     \* an appended candidate does not fold: nothing can be read

vars == <<live, burned, flow, pending, drafts, request, wedged>>
core == <<live, burned, flow, pending>>

Floor == "default"
App   == "application"
Apps  == {Floor, App}

NoFlow  == [node |-> "absent"]
NoDraft == [status |-> "absent"]
Idle    == [op |-> "idle"]

\* terminalReason of a stale mark: the base and the version it compared
NoReason == [base |-> 0, version |-> 0]

Nodes == {"draft", "pending-approval", "active", "rejected", "deprecated"}
Open  == {"ready", "invalid", "stale"}
Ended == {"accepted", "rejected", "abandoned"}

Exists  == flow # NoFlow
Version == IF Exists THEN Len(flow.history) ELSE 0

\* definition-seeded, the birth of a flow at boot or by a genesis draft
Seed(body, app) ==
    [node |-> "active", status |-> "active", work |-> body, bornBy |-> 0,
     history |-> <<body>>, app |-> app]

Init ==
    /\ \/ live = {Floor} /\ flow = NoFlow
       \/ live = Apps /\ flow = Seed(Installed, App)
    /\ burned = {}
    /\ pending = {}
    /\ drafts = [d \in Drafts |-> NoDraft]
    /\ request = [r \in Requests |-> Idle]
    /\ wedged = FALSE

(***************************************************************************)
(* The lifecycle, one turn of the queue each.  An acceptance keeps the     *)
(* queue and the lock of the draft log from its plan to its commit.        *)
(***************************************************************************)
Planned == {r \in Requests : request[r].op = "planned"}

\* MUTANT the acceptance is not a turn of the queue: its locks are those of
\* the draft plane, and a lifecycle step takes none of them
QueueFreeAlways == TRUE

QueueFree == Planned = {}
LockFree  == Planned = {}

\* MUTANT of a definition only its application is checked
ValidAnyText(body, app) == app \in live

Valid(body, app) == body # Broken /\ app \in live

Turn ==
    /\ ~wedged /\ QueueFree /\ Exists
    /\ UNCHANGED <<live, burned, drafts, request, wedged>>

\* add-node and add-action only add, so an edit never restores the base
Edit ==
    /\ Turn
    /\ flow.node = "draft"
    /\ \E body \in Bodies \ {flow.work, flow.history[Version]} :
         flow' = [flow EXCEPT !.work = body]
    /\ UNCHANGED pending

Revise ==
    /\ Turn
    /\ flow.node = "active"
    /\ flow' = [flow EXCEPT !.node = "draft", !.status = "draft", !.bornBy = Version]
    /\ UNCHANGED pending

Submit ==
    /\ Turn
    /\ flow.node = "draft"
    /\ Version < MaxVersion
    /\ IF Valid(flow.work, flow.app)
         THEN /\ flow' = [flow EXCEPT !.node = "pending-approval",
                                      !.status = "pending-approval"]
              /\ pending' = pending \cup {[version |-> Version + 1, body |-> flow.work]}
         ELSE /\ flow' = [flow EXCEPT !.status = "draft"]
              /\ UNCHANGED pending

Decide(activation) ==
    /\ Turn
    /\ flow.node = "pending-approval"
    /\ pending' = pending \ {activation}

Approve(activation) ==
    /\ Decide(activation)
    /\ activation.version = Version + 1
    /\ flow' = [flow EXCEPT !.node = "active", !.status = "active",
                            !.work = activation.body,
                            !.history = Append(@, activation.body)]

Reject(activation) ==
    /\ Decide(activation)
    /\ flow' = [flow EXCEPT !.node = "rejected", !.status = "rejected"]

\* whether live instances of the flow block it is left open
Deprecate ==
    /\ Turn
    /\ flow.node = "active"
    /\ flow' = [flow EXCEPT !.node = "deprecated", !.status = "deprecated"]
    /\ UNCHANGED pending

\* the entry is deprecated with the application; its node stays where it is
Cascade == IF Exists /\ flow.app = App
             THEN [flow EXCEPT !.status = "deprecated"]
             ELSE flow

DeprecateApplication ==
    /\ ~wedged /\ QueueFree
    /\ App \in live
    /\ live' = live \ {App}
    /\ burned' = burned \cup {App}
    /\ flow' = Cascade
    /\ UNCHANGED <<pending, drafts, request, wedged>>

Lifecycle ==
    \/ Edit \/ Revise \/ Submit \/ Deprecate
    \/ \E activation \in pending : Approve(activation) \/ Reject(activation)
    \/ DeprecateApplication

(***************************************************************************)
(* Commands of the draft plane.  A command carries the version of the      *)
(* draft that its request read, or, for a revision, the one its client     *)
(* named, and applies under the draft's lock only to that version.         *)
(***************************************************************************)
StatusFor(valid) == IF valid THEN "ready" ELSE "invalid"

\* MUTANT the command does not compare the version it read
AdmitsAnyVersion(draft, c) ==
    /\ draft.status \notin Ended
    /\ c.op = "revise" => draft.status # "pending-approval" /\ draft.version < MaxRevisions
    /\ c.op = "submit" => draft.status = "ready"
    /\ c.op \in {"accept", "reject"} => draft.status = "pending-approval"

\* expected-version check, and the statuses a command may find
Admits(draft, c) ==
    /\ draft.status \notin Ended
    /\ c.version = draft.version
    /\ c.op = "revise" => draft.status # "pending-approval" /\ draft.version < MaxRevisions
    /\ c.op = "submit" => draft.status = "ready"
    /\ c.op \in {"accept", "reject"} => draft.status = "pending-approval"

\* Of a draft that ended without acceptance only that is kept, and the reason
\* of a mark while it is in force.  A revision that names no target version
\* (0) leaves the base as it is.
Applied(draft, c) ==
    CASE c.op = "revise"   -> [draft EXCEPT !.version = @ + 1, !.body = c.body,
                                            !.base = IF c.base = 0 THEN @ ELSE c.base,
                                            !.status = StatusFor(c.valid), !.why = NoReason]
      [] c.op = "validate" -> [draft EXCEPT !.status = StatusFor(c.valid), !.why = NoReason]
      [] c.op = "submit"   -> [draft EXCEPT !.status = "pending-approval"]
      [] c.op = "stale"    -> [draft EXCEPT !.status = "stale", !.why = c.why]
      [] c.op = "abandon"  -> [status |-> "abandoned"]
      [] c.op = "reject"   -> [status |-> "rejected"]
      [] c.op = "planned"  -> [draft EXCEPT !.status = "accepted"]

Commit(r) ==
    LET c == request[r] IN
    /\ LockFree
    /\ c.op \in {"revise", "validate", "submit", "stale", "abandon", "reject"}
    /\ drafts' = IF Admits(drafts[c.draft], c)
                 THEN [drafts EXCEPT ![c.draft] = Applied(@, c)]
                 ELSE drafts
    /\ request' = [request EXCEPT ![r] = Idle]
    /\ UNCHANGED <<core, wedged>>

(***************************************************************************)
(* Requests of the draft plane: read the draft and judge it.               *)
(***************************************************************************)
Begin(r, c) ==
    /\ ~wedged
    /\ request[r] = Idle
    /\ request' = [request EXCEPT ![r] = c]
    /\ UNCHANGED <<core, drafts, wedged>>

\* a draft is reachable through an application that is live
Reads(d, statuses) == drafts[d].status \in statuses /\ drafts[d].scope \in live

\* names are never released: live or retired, the name is taken
Taken(app) == app \in live \cup burned

Newborn(kind, scope, base, body, valid) ==
    [kind |-> kind, scope |-> scope, base |-> base, body |-> body, version |-> 1,
     status |-> StatusFor(valid), why |-> NoReason]

\* base 0: a genesis draft, the flow it names does not exist yet
FlowDraft(scope, body) ==
    Newborn("flow", scope, Version, body, Valid(body, scope))

\* the bundle brings the application and a flow of its own
BundleDraft(body) == Newborn("bundle", Floor, 0, body, body # Broken)

\* nobody else addresses a draft before it exists, so that its creation is
\* taken at the moment its request read the snapshot
Create(d) ==
    /\ ~wedged /\ LockFree
    /\ drafts[d] = NoDraft
    /\ \E body \in Proposals :
         \/ \E scope \in live :
              /\ Exists => flow.app = scope
              /\ drafts' = [drafts EXCEPT ![d] = FlowDraft(scope, body)]
         \/ /\ ~Taken(App)
            /\ drafts' = [drafts EXCEPT ![d] = BundleDraft(body)]
    /\ UNCHANGED <<core, request, wedged>>

CandidateValid(draft, body) ==
    IF draft.kind = "flow" THEN Valid(body, draft.scope) ELSE body # Broken

\* The client names the version it revises and, if it likes, the version of
\* the flow it is written against: nothing compares that one with the flow.
\* The base of a bundle is never read, and is left out.  Bounds: the text of a
\* revision passes, and its client names no version past the limit.
BeginRevise(r, d) ==
    LET draft == drafts[d] IN
    /\ Reads(d, Open)
    /\ \E version \in 1 .. (MaxRevisions - 1), body \in Proposals \ {Broken},
          base \in {0} \cup (IF draft.kind = "flow" THEN Bases ELSE {}) :
         Begin(r, [op |-> "revise", draft |-> d, version |-> version, body |-> body,
                   base |-> base, valid |-> CandidateValid(draft, body)])

\* what validation needs of a draft
Basis(draft) == [kind |-> draft.kind, scope |-> draft.scope, base |-> draft.base,
                 body |-> draft.body]

\* validate keeps the draft it read across the await of the snapshot
BeginValidate(r, d) ==
    /\ Reads(d, Open)
    /\ Begin(r, [op |-> "validating", draft |-> d, version |-> drafts[d].version,
                 read |-> Basis(drafts[d])])

BeginSimple(r, d, op, statuses) ==
    /\ Reads(d, statuses)
    /\ Begin(r, [op |-> op, draft |-> d, version |-> drafts[d].version])

\* an approval names the draft only; the text and the base it accepts are
\* those the server reads when it arrives
BeginApprove(r, d) ==
    /\ Reads(d, {"pending-approval"})
    /\ Begin(r, [op |-> "accept", draft |-> d, version |-> drafts[d].version,
                 read |-> <<drafts[d].body, drafts[d].base>>])

\* MUTANT whether the names are taken is not asked
OutOfDateVersionOnly(draft) == draft.kind = "flow" /\ draft.base # Version

(***************************************************************************)
(* What a draft was written against is not there: the flow is at another   *)
(* version than its base (0 of both: no flow yet), or the name it was to   *)
(* create is taken.                                                        *)
(***************************************************************************)
OutOfDate(draft) ==
    IF draft.kind = "bundle" THEN Taken(App) \/ Exists ELSE draft.base # Version

\* validation lets a draft pass whose flow is not there at all, and a bundle
\* that does not parse has no inventory to conflict with
Lapsed(draft) ==
    /\ OutOfDate(draft)
    /\ IF draft.kind = "bundle" /\ draft.body = Broken THEN Taken(App)
       ELSE draft.kind = "flow" => Exists

Marks(c, draft) ==
    [op |-> "stale", draft |-> c.draft, version |-> c.version,
     why |-> [base |-> draft.base, version |-> Version]]

Assess(r) ==
    LET c == request[r] IN
    /\ request' = [request EXCEPT ![r] =
         IF Lapsed(c.read)
           THEN Marks(c, c.read)
           ELSE [op |-> "validate", draft |-> c.draft, version |-> c.version,
                 valid |-> CandidateValid(c.read, c.read.body)]]
    /\ UNCHANGED <<core, drafts, wedged>>

Revises(draft) == draft.kind = "flow" /\ draft.base # 0

(***************************************************************************)
(* Acceptance: one turn of the queue, and one transaction that plans on    *)
(* the log it reads and then appends the core event and the end of the     *)
(* draft.                                                                  *)
(***************************************************************************)

\* MUTANT a draft node is enough, whatever was edited there
HandoffEdited(draft) == flow.node = "draft" /\ flow.bornBy = draft.base /\ pending = {}

\* a revision opened but not edited hands over to the accepted draft
UneditedHandoff(draft) ==
    /\ flow.node = "draft"
    /\ flow.status = "draft"
    /\ flow.bornBy = draft.base
    /\ flow.work = flow.history[draft.base]
    /\ pending = {}

\* MUTANT the node of the lifecycle is not asked
FoldsAnyNode(draft) == draft.base = Version

Folds(draft) ==
    /\ draft.base = Version
    /\ flow.node = "active" \/ UneditedHandoff(draft)

\* definition-candidate-applied, definition-seeded, or the events of a bundle
CandidateApplied(draft) ==
    /\ flow' = [flow EXCEPT !.node = "active", !.status = "active", !.work = draft.body,
                            !.history = Append(@, draft.body), !.app = draft.scope]
    /\ UNCHANGED live

\* what was seeded before is left as it is
Seeded(body, app) == flow' = IF Exists THEN flow ELSE Seed(body, app)

CoreEvents(draft) ==
    CASE draft.kind = "bundle" ->
           /\ live' = IF Taken(App) THEN live ELSE live \cup {App}
           /\ Seeded(draft.body, App)
      [] Revises(draft) -> CandidateApplied(draft)
      [] OTHER -> UNCHANGED live /\ Seeded(draft.body, draft.scope)

\* the plan tries the fold before anything is written
Plans(draft) ==
    /\ CandidateValid(draft, draft.body)
    /\ Revises(draft) => Folds(draft)

Answered(r) == request' = [request EXCEPT ![r] = Idle]

\* not pending any more, or the plan finds the draft stale, invalid or in the way
Refuse(r) ==
    LET c     == request[r]
        draft == drafts[c.draft]
    IN /\ IF draft.status = "pending-approval" /\ OutOfDate(draft)
            THEN request' = [request EXCEPT ![r] = Marks(c, draft)]
            ELSE /\ ~(Admits(draft, c) /\ Plans(draft))
                 /\ Answered(r)
       /\ UNCHANGED <<core, drafts, wedged>>

Plan(r) ==
    LET c     == request[r]
        draft == drafts[c.draft]
    IN /\ draft.status = "pending-approval"
       /\ ~OutOfDate(draft)
       /\ Version < MaxVersion
       /\ Plans(draft)
       /\ Admits(draft, c)
       /\ request' = [request EXCEPT ![r] =
            [op |-> "planned", draft |-> c.draft, version |-> c.version, read |-> c.read]]
       /\ UNCHANGED <<core, drafts, wedged>>

Turns(r) ==
    /\ ~wedged /\ QueueFree
    /\ \/ request[r].op = "accept" /\ LockFree /\ (Refuse(r) \/ Plan(r))
       \/ request[r].op = "validating" /\ Assess(r)

\* the events are folded by whoever reads the log next: a candidate that does
\* not fold there throws, for every reader from then on
Land(r) ==
    LET c     == request[r]
        draft == drafts[c.draft]
    IN /\ c.op = "planned"
       /\ drafts' = [drafts EXCEPT ![c.draft] = Applied(@, c)]
       /\ IF Revises(draft) /\ ~Folds(draft)
            THEN wedged' = TRUE /\ UNCHANGED <<live, flow>>
            ELSE CoreEvents(draft) /\ UNCHANGED wedged
       /\ Answered(r)
       /\ UNCHANGED <<burned, pending>>

\* the process restarts: requests in flight are gone, and a transaction that
\* was not committed with them; the logs are not
Restart ==
    /\ \E r \in Requests : request[r] # Idle
    /\ request' = [r \in Requests |-> Idle]
    /\ UNCHANGED <<core, drafts, wedged>>

Draft(r) ==
    \/ \E d \in Drafts :
         \/ BeginRevise(r, d)
         \/ BeginValidate(r, d)
         \/ BeginSimple(r, d, "submit", {"ready"})
         \/ BeginSimple(r, d, "abandon", Open)
         \/ BeginSimple(r, d, "reject", {"pending-approval"})
         \/ BeginApprove(r, d)
    \/ Turns(r)
    \/ Land(r)
    \/ Commit(r)

Next ==
    \/ Lifecycle
    \/ Restart
    \/ \E d \in Drafts : Create(d)
    \/ \E r \in Requests : Draft(r)

Spec == Init /\ [][Next]_vars

-----------------------------------------------------------------------------
(***************************************************************************)
(* Properties                                                              *)
(***************************************************************************)

\* Every variable stays in its range.  An out-of-order fold would show as a
\* flow whose history is longer than its versions, or a draft in no status.
TypeOK ==
    /\ live \in SUBSET Apps /\ burned \in SUBSET {App}
    /\ Exists =>
         /\ flow.node \in Nodes /\ flow.status \in Nodes
         /\ flow.history \in Seq(Bodies) /\ Version \in 1 .. MaxVersion
         /\ flow.work \in Bodies /\ flow.bornBy \in 0 .. Version /\ flow.app \in Apps
    /\ \A activation \in pending :
         activation.version \in 2 .. MaxVersion /\ activation.body \in Bodies \ {Broken}
    /\ \A d \in Drafts : drafts[d] # NoDraft =>
         /\ drafts[d].status \in Open \cup Ended \cup {"pending-approval"}
         /\ drafts[d].status \notin {"abandoned", "rejected"} =>
              /\ drafts[d].version \in 1 .. MaxRevisions
              /\ drafts[d].base \in 0 .. MaxVersion \cup Bases
    /\ wedged \in BOOLEAN

\* The lifecycle awaits a decision exactly when its node says so, on one
\* activation, for the next version and with the working copy as submitted:
\* an accepted draft never overtakes a flow that awaits its own decision.
PendingMatchesNode ==
    pending = IF Exists /\ flow.node = "pending-approval"
                THEN {[version |-> Version + 1, body |-> flow.work]}
                ELSE {}

\* A stale mark, written after the lock was released or from a snapshot read
\* before, speaks of the base its draft has, never of one it was rebased from
\* meanwhile; and the draft is out of date still, unless it was written for a
\* version the flow had yet to reach.
StaleAsJudged ==
    \A d \in Drafts : drafts[d].status = "stale" =>
        LET draft == drafts[d] IN
        /\ draft.kind = "flow" =>
             draft.why.base = draft.base /\ draft.why.version # draft.base
        /\ OutOfDate(draft) \/ (draft.kind = "flow" /\ draft.why.version < draft.base)

\* Whatever was appended folds: between the plan that tried the fold and the
\* commit nothing gets in the way, not even a lifecycle step, which takes none
\* of the locks of the draft plane.  No acceptance leaves a log that nobody
\* can replay.
LogApplies == ~wedged

\* An accepted draft is in the history, as the version after its base, and
\* alone there; an accepted bundle brought its own flow.
AcceptedIsLive ==
    \A d \in Drafts : drafts[d].status = "accepted" =>
        /\ drafts[d].base + 1 <= Version
        /\ flow.history[drafts[d].base + 1] = drafts[d].body
        /\ \A e \in Drafts \ {d} :
             drafts[e].status = "accepted" => drafts[e].base # drafts[d].base

\* A step that adds a version discards no edit: the working copy it replaces
\* was the text of the base, or is the text approved.
EditsKept ==
    [][Exists /\ flow' # flow /\ Len(flow'.history) > Version =>
         flow.work \in {flow.history[Version], flow'.work}]_vars

\* What is accepted is the text and the base that the approval read when it
\* arrived, however long its turn took: revisions, rejections and approvals
\* that came in between make it fail.
ApprovedAsRead ==
    [][\A d \in Drafts :
         drafts'[d].status = "accepted" /\ drafts[d].status # "accepted" =>
           \E r \in Requests :
             /\ request[r].op = "planned" /\ request[r].draft = d
             /\ request[r].read = <<drafts'[d].body, drafts'[d].base>>]_vars

\* Retiring an application is final: a flow of a retired application stays
\* deprecated, out of the registry of active flows.
DeprecatedStaysDeprecated ==
    Exists /\ flow.app \in burned => flow.status = "deprecated"
=============================================================================
