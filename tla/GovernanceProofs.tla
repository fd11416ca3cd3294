-------------------------- MODULE GovernanceProofs --------------------------
(***************************************************************************)
(* Proofs about Governance, for every value of its constants: what the     *)
(* lifecycle and the draft plane keep of each other's writes.              *)
(***************************************************************************)
EXTENDS Governance, TLAPS

FlowRecord == [node : Nodes, status : Nodes, work : Bodies, bornBy : Nat,
               history : Seq(Bodies), app : Apps]

TargetBases == 0 .. MaxVersion \cup Bases

Reason == [base : Nat, version : Nat]

DraftRecord == [kind : {"flow", "bundle"}, scope : Apps, base : Nat, body : Bodies,
                version : Nat, status : Open \cup {"pending-approval", "accepted"},
                why : Reason]

(* The core tables.  A flow whose activation is decided works on the text    *)
(* of its last version.                                                     *)
CoreTyped ==
    /\ live \in SUBSET Apps /\ burned \in SUBSET {App}
    /\ flow = NoFlow \/ flow \in FlowRecord
    /\ Exists => Version \in 1 .. MaxVersion /\ flow.bornBy \in 0 .. Version
    /\ Exists /\ flow.work = Broken => flow.node # "pending-approval"
    /\ Exists /\ flow.node = "pending-approval" => Version < MaxVersion
    /\ wedged = FALSE

ActiveIsHistory == Exists /\ flow.node = "active" => flow.work = flow.history[Version]

CoreInv == CoreTyped /\ ActiveIsHistory /\ PendingMatchesNode

(* A draft keeps its text until it ends without acceptance.                 *)
Kept(d) == drafts[d].status \notin {"absent", "abandoned", "rejected"}
Alive(d) == Kept(d) /\ drafts[d].status # "accepted"

DraftTyped(d) ==
    IF Kept(d)
    THEN /\ drafts[d] \in DraftRecord
         /\ drafts[d].version \in 1 .. MaxRevisions /\ drafts[d].base \in TargetBases
         /\ drafts[d].kind = "bundle" => drafts[d].base = 0
    ELSE drafts[d] \in {NoDraft, [status |-> "abandoned"], [status |-> "rejected"]}

DraftsTyped == DOMAIN drafts = Drafts /\ \A d \in Drafts : DraftTyped(d)

(* A mark compared the base of its draft with a version that the flow had    *)
(* then; what a bundle was to create is taken for good.                     *)
Judged(draft, why) ==
    /\ why \in Reason
    /\ draft.kind = "bundle" => OutOfDate(draft)
    /\ draft.kind = "flow" =>
         why.base = draft.base /\ why.version # draft.base /\ why.version <= Version

MarksJudged == \A d \in Drafts : drafts[d].status = "stale" => Judged(drafts[d], drafts[d].why)

(* What a request read, it read of the version it names: while that is still *)
(* the version, it is what the draft says.                                  *)
Matches(c) ==
    LET draft == drafts[c.draft] IN
    /\ c.op = "validating" => c.read = Basis(draft)
    /\ c.op \in {"accept", "planned"} => c.read = <<draft.body, draft.base>>
    /\ c.op = "stale" => Judged(draft, c.why)

(* A revision names any version, and any target its client likes.           *)
RevisionTyped(c) ==
    /\ c.body \in Bodies /\ c.base \in {0} \cup Bases
    /\ Alive(c.draft) /\ drafts[c.draft].kind = "bundle" => c.base = 0

RequestOK(c) ==
    /\ c.draft \in Drafts /\ c.version \in Nat
    /\ drafts[c.draft].status # "absent"
    /\ c.op = "revise" => RevisionTyped(c)
    /\ c.op # "revise" /\ Alive(c.draft) =>
         /\ c.version <= drafts[c.draft].version
         /\ c.version = drafts[c.draft].version => Matches(c)

RequestsMatch ==
    /\ DOMAIN request = Requests
    /\ \A r \in Requests : request[r].op # "idle" => RequestOK(request[r])

(* A draft that can be accepted now.                                        *)
Acceptable(d) ==
    /\ drafts[d].status = "pending-approval"
    /\ ~OutOfDate(drafts[d])
    /\ Version < MaxVersion
    /\ Plans(drafts[d])

(* The plan of an acceptance stays good until it lands: it holds the queue  *)
(* and the lock of the draft log, alone.                                    *)
PlanHolds ==
    \A r \in Requests : request[r].op = "planned" =>
        /\ Acceptable(request[r].draft)
        /\ request[r].version = drafts[request[r].draft].version
        /\ \A q \in Requests : request[q].op = "planned" => q = r

DraftInv == DraftsTyped /\ MarksJudged /\ AcceptedIsLive /\ RequestsMatch

IInv == CoreInv /\ DraftInv /\ PlanHolds

-----------------------------------------------------------------------------
(* Records of the tables.                                                   *)
LEMMA FlowExists == ASSUME NEW f \in FlowRecord PROVE f # NoFlow
<1>1. NoFlow.node = "absent" /\ f.node \in Nodes
  BY DEF NoFlow, FlowRecord
<1>2. "absent" \notin Nodes
  BY DEF Nodes
<1> QED
  BY <1>1, <1>2

(* A seeded flow is active at its first version, which is its working body. *)
LEMMA SeedRecord ==
    ASSUME NEW body \in Bodies, NEW app \in Apps
    PROVE  /\ Seed(body, app) \in FlowRecord
           /\ Seed(body, app).node = "active" /\ Seed(body, app).work = body
           /\ Seed(body, app).bornBy = 0 /\ Seed(body, app).history = <<body>>
BY DEF Seed, FlowRecord, Nodes

LEMMA InitCore == Init => CoreInv
<1> SUFFICES ASSUME Init PROVE CoreInv
  OBVIOUS
<1>1. CASE live = {Floor} /\ flow = NoFlow
  BY <1>1 DEF Init, CoreInv, CoreTyped, ActiveIsHistory, PendingMatchesNode, Exists, Apps
<1>2. CASE live = Apps /\ flow = Seed(Installed, App)
  <2>1. Installed \in Bodies /\ App \in Apps
    BY BodiesAssumption DEF Apps
  <2>2. /\ flow \in FlowRecord /\ flow.node = "active" /\ flow.work = Installed
        /\ flow.bornBy = 0 /\ flow.history = <<Installed>>
    BY <1>2, <2>1, SeedRecord
  <2>3. Exists /\ Version = 1 /\ flow.history[1] = Installed
    BY <2>2, FlowExists DEF Version, Exists
  <2> QED
    BY <1>2, <2>2, <2>3, BoundsAssumption
    DEF Init, CoreInv, CoreTyped, ActiveIsHistory, PendingMatchesNode, Apps
<1> QED
  BY <1>1, <1>2 DEF Init

LEMMA InitDrafts == Init => DraftInv /\ PlanHolds
<1> SUFFICES ASSUME Init PROVE DraftInv /\ PlanHolds
  OBVIOUS
<1>1. NoDraft.status = "absent" /\ Idle.op = "idle"
  BY DEF NoDraft, Idle
<1>2. DOMAIN drafts = Drafts /\ DOMAIN request = Requests
      /\ (\A d \in Drafts : drafts[d] = NoDraft) /\ \A r \in Requests : request[r] = Idle
  BY DEF Init
<1> QED
  BY <1>1, <1>2 DEF DraftInv, DraftsTyped, DraftTyped, Kept, MarksJudged, AcceptedIsLive,
         RequestsMatch, PlanHolds

-----------------------------------------------------------------------------
(* What every step of the system does to the tables that drafts are judged  *)
(* by: versions are only added, names only taken.                           *)
Grows ==
    /\ Exists => Exists'
    /\ Version \in Nat /\ Version' \in Nat /\ Version <= Version'
    /\ \A i \in 1 .. Version : flow'.history[i] = flow.history[i]
    /\ Taken(App) => Taken(App)'

(* A flow in the table has a record, and as many versions as its history is *)
(* long.                                                                    *)
LEMMA TableRecord == ASSUME CoreInv, Exists PROVE flow \in FlowRecord /\ Version = Len(flow.history)
BY DEF CoreInv, CoreTyped, Exists, Version

(* The version of the flow is a natural number, 0 while there is no flow.   *)
LEMMA VersionIsNatural == ASSUME CoreInv PROVE Version \in Nat
BY DEF CoreInv, CoreTyped, Version, FlowRecord

(* A step that keeps the history keeps the version.                         *)
LEMMA SameHistoryGrows ==
    ASSUME CoreInv, Exists, flow' \in FlowRecord, flow'.history = flow.history,
           Taken(App) => Taken(App)'
    PROVE  Exists' /\ Version' = Version /\ Grows
<1>1. Exists' /\ Version' = Version
  BY FlowExists DEF Exists, Version
<1> QED
  BY <1>1, VersionIsNatural DEF Grows

LEMMA EditStep == ASSUME CoreInv, Edit PROVE CoreInv' /\ Grows
<1>1. flow \in FlowRecord /\ Exists
  BY TableRecord DEF Edit, Turn
<1>2. PICK body \in Bodies : flow' = [flow EXCEPT !.work = body]
  BY DEF Edit
<1>3. /\ flow' \in FlowRecord /\ flow'.history = flow.history
      /\ flow'.node = "draft" /\ flow'.bornBy = flow.bornBy
  BY <1>1, <1>2 DEF Edit, FlowRecord
<1>4. Exists' /\ Version' = Version /\ Grows
  BY <1>1, <1>3, SameHistoryGrows DEF Edit, Turn, Taken
<1> QED
  BY <1>1, <1>3, <1>4 DEF Edit, Turn, CoreInv, CoreTyped, ActiveIsHistory, PendingMatchesNode

LEMMA ReviseStep == ASSUME CoreInv, Revise PROVE CoreInv' /\ Grows
<1>1. flow \in FlowRecord /\ Exists /\ Version \in Nat
  BY TableRecord, VersionIsNatural DEF Revise, Turn
<1>2. /\ flow' \in FlowRecord /\ flow'.history = flow.history
      /\ flow'.node = "draft" /\ flow'.bornBy = Version
  BY <1>1 DEF Revise, FlowRecord, Nodes
<1>3. Exists' /\ Version' = Version /\ Grows
  BY <1>1, <1>2, SameHistoryGrows DEF Revise, Turn, Taken
<1> QED
  BY <1>1, <1>2, <1>3 DEF Revise, Turn, CoreInv, CoreTyped, ActiveIsHistory, PendingMatchesNode

LEMMA SubmitStep == ASSUME CoreInv, Submit PROVE CoreInv' /\ Grows
<1>1. flow \in FlowRecord /\ Exists /\ pending = {} /\ flow.node = "draft"
  BY TableRecord DEF Submit, Turn, CoreInv, PendingMatchesNode
<1>2. CASE Valid(flow.work, flow.app)
  <2>1. flow' = [flow EXCEPT !.node = "pending-approval", !.status = "pending-approval"]
    BY <1>2 DEF Submit
  <2>2. /\ flow' \in FlowRecord /\ flow'.history = flow.history /\ flow'.work = flow.work
        /\ flow'.node = "pending-approval" /\ flow'.bornBy = flow.bornBy
    BY <1>1, <2>1 DEF FlowRecord, Nodes
  <2>3. Exists' /\ Version' = Version /\ Grows
    BY <1>1, <2>2, SameHistoryGrows DEF Submit, Turn, Taken
  <2>4. pending' = {[version |-> Version' + 1, body |-> flow'.work]}
    BY <1>1, <1>2, <2>2, <2>3 DEF Submit
  <2> QED
    BY <1>1, <1>2, <2>2, <2>3, <2>4
    DEF Submit, Turn, Valid, CoreInv, CoreTyped, ActiveIsHistory, PendingMatchesNode
<1>3. CASE ~Valid(flow.work, flow.app)
  <2>1. flow' = [flow EXCEPT !.status = "draft"] /\ pending' = pending
    BY <1>3 DEF Submit
  <2>2. /\ flow' \in FlowRecord /\ flow'.history = flow.history
        /\ flow'.node = "draft" /\ flow'.bornBy = flow.bornBy
    BY <1>1, <2>1 DEF FlowRecord, Nodes
  <2>3. Exists' /\ Version' = Version /\ Grows
    BY <1>1, <2>2, SameHistoryGrows DEF Submit, Turn, Taken
  <2> QED
    BY <1>1, <2>1, <2>2, <2>3
    DEF Submit, Turn, CoreInv, CoreTyped, ActiveIsHistory, PendingMatchesNode
<1> QED
  BY <1>2, <1>3

(* A version is appended.                                                   *)
LEMMA AppendGrows ==
    ASSUME CoreInv, Exists, NEW body \in Bodies, flow' \in FlowRecord,
           flow'.history = Append(flow.history, body), Taken(App) => Taken(App)'
    PROVE  /\ Exists' /\ Version' = Version + 1 /\ flow'.history[Version'] = body
           /\ Grows
<1>1. flow.history \in Seq(Bodies) /\ Version = Len(flow.history)
  BY TableRecord DEF FlowRecord
<1>2. Exists' /\ Version' = Len(flow'.history)
  BY FlowExists DEF Exists, Version
<1>3. Version' = Version + 1 /\ flow'.history[Version'] = body /\ Version \in Nat
      /\ \A i \in 1 .. Version : flow'.history[i] = flow.history[i]
  BY <1>1, <1>2
<1>4. Version' \in Nat /\ Version <= Version'
  BY <1>3
<1> QED
  BY <1>2, <1>3, <1>4, Zenon DEF Grows

LEMMA ApproveStep == ASSUME CoreInv, NEW a \in pending, Approve(a) PROVE CoreInv' /\ Grows
<1>1. flow \in FlowRecord /\ Exists /\ flow.node = "pending-approval" /\ Version < MaxVersion
  BY TableRecord DEF Approve, Decide, Turn, CoreInv, CoreTyped
<1>2. a = [version |-> Version + 1, body |-> flow.work] /\ pending' = {}
  BY <1>1 DEF Approve, Decide, CoreInv, PendingMatchesNode
<1>3. a.body = flow.work /\ flow.work \in Bodies
  BY <1>1, <1>2 DEF FlowRecord
<1>4. /\ flow' \in FlowRecord /\ flow'.history = Append(flow.history, a.body)
      /\ flow'.node = "active" /\ flow'.bornBy = flow.bornBy /\ flow'.work = a.body
  <2> DEFINE h == Append(flow.history, a.body)
  <2>1. h \in Seq(Bodies)
    BY <1>1, <1>3 DEF FlowRecord
  <2>2. flow' = [flow EXCEPT !.node = "active", !.status = "active", !.work = a.body, !.history = h]
    BY DEF Approve
  <2> HIDE DEF h
  <2>3. /\ flow' \in FlowRecord /\ flow'.history = h
        /\ flow'.node = "active" /\ flow'.bornBy = flow.bornBy /\ flow'.work = a.body
    BY <1>1, <1>3, <2>1, <2>2 DEF FlowRecord, Nodes
  <2> QED BY <2>3 DEF h
<1>5. /\ Exists' /\ Version' = Version + 1 /\ flow'.history[Version'] = a.body
      /\ Grows
  <2>1. a.body \in Bodies /\ (Taken(App) => Taken(App)')
    BY <1>3 DEF Approve, Decide, Turn, Taken
  <2> QED BY <1>1, <1>4, <2>1, AppendGrows, Zenon
<1> QED
  <2>1. Version' \in 1 .. MaxVersion /\ flow'.bornBy \in 0 .. Version'
    BY <1>1, <1>4, <1>5, BoundsAssumption DEF CoreInv, CoreTyped
  <2>2. CoreTyped'
    BY <1>4, <1>5, <2>1 DEF Approve, Decide, Turn, CoreInv, CoreTyped
  <2> QED
    BY <1>2, <1>4, <1>5, <2>2 DEF CoreInv, ActiveIsHistory, PendingMatchesNode

LEMMA RejectStep == ASSUME CoreInv, NEW a \in pending, Reject(a) PROVE CoreInv' /\ Grows
<1>1. flow \in FlowRecord /\ Exists /\ flow.node = "pending-approval"
  BY TableRecord DEF Reject, Decide, Turn
<1>2. pending' = {}
  BY <1>1 DEF Reject, Decide, CoreInv, PendingMatchesNode
<1>3. /\ flow' \in FlowRecord /\ flow'.history = flow.history
      /\ flow'.node = "rejected" /\ flow'.bornBy = flow.bornBy
  BY <1>1 DEF Reject, FlowRecord, Nodes
<1>4. Exists' /\ Version' = Version /\ Grows
  BY <1>1, <1>3, SameHistoryGrows DEF Reject, Decide, Turn, Taken
<1> QED
  BY <1>2, <1>3, <1>4
  DEF Reject, Decide, Turn, CoreInv, CoreTyped, ActiveIsHistory, PendingMatchesNode

LEMMA DeprecateStep == ASSUME CoreInv, Deprecate PROVE CoreInv' /\ Grows
<1>1. flow \in FlowRecord /\ Exists
  BY TableRecord DEF Deprecate, Turn
<1>2. /\ flow' \in FlowRecord /\ flow'.history = flow.history
      /\ flow'.node = "deprecated" /\ flow'.bornBy = flow.bornBy
  BY <1>1 DEF Deprecate, FlowRecord, Nodes
<1>3. Exists' /\ Version' = Version /\ Grows
  BY <1>1, <1>2, SameHistoryGrows DEF Deprecate, Turn, Taken
<1> QED
  BY <1>1, <1>2, <1>3
  DEF Deprecate, Turn, CoreInv, CoreTyped, ActiveIsHistory, PendingMatchesNode

LEMMA DeprecateApplicationStep ==
    ASSUME CoreInv, DeprecateApplication PROVE CoreInv' /\ Grows
<1>1. live' \in SUBSET Apps /\ burned' \in SUBSET {App} /\ (Taken(App) => Taken(App)')
  BY DEF DeprecateApplication, Taken, CoreInv, CoreTyped
<1>2. CASE ~Exists
  BY <1>1, <1>2 DEF DeprecateApplication, Cascade, Exists, Version, Grows, CoreInv, CoreTyped,
                   ActiveIsHistory, PendingMatchesNode
<1>3. CASE Exists
  <2>1. flow \in FlowRecord
    BY <1>3, TableRecord
  <2>2. /\ flow' \in FlowRecord /\ flow'.history = flow.history /\ flow'.work = flow.work
        /\ flow'.node = flow.node /\ flow'.bornBy = flow.bornBy
    BY <2>1 DEF DeprecateApplication, Cascade, FlowRecord, Nodes
  <2>3. Exists' /\ Version' = Version /\ Grows
    BY <1>1, <1>3, <2>2, SameHistoryGrows
  <2> QED
    BY <1>1, <1>3, <2>2, <2>3
    DEF DeprecateApplication, CoreInv, CoreTyped, ActiveIsHistory, PendingMatchesNode
<1> QED
  BY <1>2, <1>3

LEMMA LifecycleStep ==
    ASSUME CoreInv, Lifecycle
    PROVE  CoreInv' /\ Grows /\ drafts' = drafts /\ request' = request /\ QueueFree
<1>1. CoreInv' /\ Grows
  BY EditStep, ReviseStep, SubmitStep, ApproveStep, RejectStep, DeprecateStep,
     DeprecateApplicationStep DEF Lifecycle
<1>2. drafts' = drafts /\ request' = request /\ QueueFree
  BY DEF Lifecycle, Edit, Revise, Submit, Approve, Reject, Decide, Deprecate,
         DeprecateApplication, Turn
<1> QED
  BY <1>1, <1>2

-----------------------------------------------------------------------------
(* What a step does to a draft: it ends it, gives it a new version, or only  *)
(* changes its status.                                                      *)
Evolves(d) ==
    drafts[d].status # "absent" =>
        /\ drafts'[d].status # "absent"
        /\ Alive(d)' =>
             /\ Alive(d) /\ drafts'[d].kind = drafts[d].kind
             /\ \/ drafts'[d].version = drafts[d].version + 1
                \/ /\ drafts'[d].version = drafts[d].version
                   /\ Basis(drafts'[d]) = Basis(drafts[d])
                   /\ drafts'[d].base = drafts[d].base
                   /\ drafts'[d].body = drafts[d].body

(* A judgement stays true of its draft: versions only rise, and a name that  *)
(* is taken stays taken.                                                    *)
LEMMA JudgedStays ==
    ASSUME Grows, NEW d, NEW why, Judged(drafts[d], why),
           drafts[d].kind \in {"flow", "bundle"},
           drafts'[d].kind = drafts[d].kind, drafts'[d].base = drafts[d].base
    PROVE  Judged(drafts[d], why)'
<1>1. why.version <= Version => why.version <= Version'
  BY DEF Grows, Judged, Reason
<1>2. drafts[d].kind = "bundle" => OutOfDate(drafts[d])'
  BY DEF Grows, Judged, OutOfDate
<1> QED
  BY <1>1, <1>2 DEF Judged

(* A draft that is kept has a record of its type.                           *)
LEMMA KeptRecord ==
    ASSUME DraftsTyped, NEW d \in Drafts, Kept(d)
    PROVE  /\ drafts[d] \in DraftRecord
           /\ drafts[d].version \in Nat /\ drafts[d].base \in Nat
           /\ drafts[d].kind \in {"flow", "bundle"} /\ drafts[d].scope \in Apps
           /\ drafts[d].body \in Bodies
BY DEF DraftsTyped, DraftTyped, DraftRecord

(* A request under way stays in agreement with its draft as drafts evolve.  *)
LEMMA RequestsEvolve ==
    ASSUME DraftsTyped, Grows, NEW c, RequestOK(c), Evolves(c.draft)
    PROVE  RequestOK(c)'
<1> DEFINE d == c.draft
<1>1. d \in Drafts /\ c.version \in Nat /\ drafts[d].status # "absent"
  BY DEF RequestOK
<1>2. drafts'[d].status # "absent"
  BY <1>1 DEF Evolves
<1>3. c.op = "revise" => RevisionTyped(c)'
  BY <1>1 DEF RequestOK, RevisionTyped, Evolves
<1>4. ASSUME c.op # "revise", Alive(d)'
      PROVE  /\ c.version <= drafts'[d].version
             /\ c.version = drafts'[d].version => Matches(c)'
  <2>1. /\ Alive(d) /\ Kept(d) /\ drafts[d].version \in Nat
        /\ drafts[d].kind \in {"flow", "bundle"} /\ drafts'[d].kind = drafts[d].kind
        /\ c.version <= drafts[d].version
        /\ c.version = drafts[d].version => Matches(c)
    BY <1>1, <1>4, KeptRecord DEF Evolves, RequestOK, Alive
  <2>2. CASE drafts'[d].version = drafts[d].version + 1
    BY <1>1, <2>1, <2>2
  <2>3. CASE /\ drafts'[d].version = drafts[d].version
             /\ Basis(drafts'[d]) = Basis(drafts[d])
             /\ drafts'[d].base = drafts[d].base
             /\ drafts'[d].body = drafts[d].body
    <3>1. Judged(drafts[d], c.why) => Judged(drafts[d], c.why)'
      BY <2>1, <2>3, JudgedStays, Zenon
    <3>2. Matches(c) => Matches(c)'
      BY <2>3, <3>1 DEF Matches, Basis
    <3> QED BY <2>1, <2>3, <3>2
  <2> QED BY <1>1, <1>4, <2>2, <2>3 DEF Evolves
<1> QED
  BY <1>1, <1>2, <1>3, <1>4 DEF RequestOK

(* A draft left alone has evolved.                                          *)
LEMMA UnchangedEvolves ==
    ASSUME NEW d, drafts'[d] = drafts[d]
    PROVE  Evolves(d)
BY DEF Evolves, Alive, Kept

(* A draft that a step leaves alone stays as well typed, and as truly marked *)
(* as it was.                                                               *)
LEMMA DraftStays ==
    ASSUME DraftsTyped, Grows, NEW d \in Drafts, drafts'[d] = drafts[d]
    PROVE  /\ DraftTyped(d)'
           /\ drafts[d].status = "stale" /\ Judged(drafts[d], drafts[d].why)
                => Judged(drafts[d], drafts[d].why)'
<1>1. DraftTyped(d)'
  BY DEF DraftsTyped, DraftTyped, Kept
<1>2. ASSUME drafts[d].status = "stale", Judged(drafts[d], drafts[d].why)
      PROVE  Judged(drafts[d], drafts[d].why)'
  <2>1. drafts[d].kind \in {"flow", "bundle"}
    BY <1>2, KeptRecord DEF Kept
  <2>2. PICK why : why = drafts[d].why
    OBVIOUS
  <2>3. Judged(drafts[d], why)'
    BY <1>2, <2>1, <2>2, JudgedStays
  <2> QED BY <2>2, <2>3
<1> QED
  BY <1>1, <1>2

(* What an accepted draft put into the history stays there.                 *)
LEMMA AcceptedStays ==
    ASSUME DraftsTyped, AcceptedIsLive, Grows,
           \A d \in Drafts : drafts'[d].status = "accepted" =>
               drafts[d].status = "accepted" /\ drafts'[d] = drafts[d]
    PROVE  AcceptedIsLive'
<1> SUFFICES ASSUME NEW d \in Drafts, drafts'[d].status = "accepted"
             PROVE  /\ drafts'[d].base + 1 <= Version'
                    /\ flow'.history[drafts'[d].base + 1] = drafts'[d].body
                    /\ \A e \in Drafts \ {d} :
                         drafts'[e].status = "accepted" => drafts'[e].base # drafts'[d].base
  BY DEF AcceptedIsLive
<1>1. drafts[d].status = "accepted" /\ drafts'[d] = drafts[d] /\ drafts[d].base \in Nat
  BY KeptRecord DEF Kept
<1>2. drafts[d].base + 1 \in 1 .. Version
  BY <1>1 DEF AcceptedIsLive, Grows
<1> QED
  BY <1>1, <1>2 DEF AcceptedIsLive, Grows

(* A step that takes the queue or the lock of the draft log finds no plan.   *)
LEMMA NoPlanHolds ==
    ASSUME Planned = {}, \A r \in Requests : request'[r] = request[r] \/ request'[r] = Idle
    PROVE  PlanHolds'
<1>1. ASSUME NEW r \in Requests PROVE request'[r].op # "planned"
  BY DEF Planned, Idle
<1> QED
  BY <1>1 DEF PlanHolds

(* A step of the core lifecycle keeps what holds of the drafts.             *)
LEMMA UntouchedDrafts ==
    ASSUME DraftInv, Grows, drafts' = drafts, request' = request
    PROVE  DraftInv'
<1>1. DraftsTyped'
  BY DraftStays DEF DraftInv, DraftsTyped
<1>2. MarksJudged'
  BY DraftStays DEF DraftInv, MarksJudged
<1>3. AcceptedIsLive'
  BY AcceptedStays DEF DraftInv
<1>4. RequestsMatch'
  BY RequestsEvolve, UnchangedEvolves DEF DraftInv, RequestsMatch
<1> QED
  BY <1>1, <1>2, <1>3, <1>4 DEF DraftInv

-----------------------------------------------------------------------------
(* Steps of the draft plane that leave the core alone.                      *)
LEMMA SameCore == ASSUME CoreInv, UNCHANGED <<core, wedged>> PROVE CoreInv' /\ Grows
<1>1. UNCHANGED <<live, burned, flow, pending, wedged>>
  BY DEF core
<1>2. Exists' = Exists /\ Version' = Version /\ Taken(App)' = Taken(App)
  BY <1>1 DEF Exists, Version, Taken
<1>3. CoreInv'
  BY <1>1, <1>2 DEF CoreInv, CoreTyped, ActiveIsHistory, PendingMatchesNode
<1>4. Grows
  BY <1>1, <1>2, VersionIsNatural DEF Grows
<1> QED
  BY <1>3, <1>4

(* A draft can be accepted as long as nothing it is judged by changes.      *)
LEMMA SameAcceptable ==
    ASSUME UNCHANGED <<core, drafts, wedged>>, NEW d
    PROVE  Acceptable(d)' = Acceptable(d)
BY DEF core, Acceptable, OutOfDate, Taken, Exists, Version, Plans, CandidateValid, Valid,
       Revises, Folds, UneditedHandoff

(* Giving one request a record that agrees with its draft keeps the         *)
(* invariant.                                                               *)
LEMMA NewRequest ==
    ASSUME IInv, UNCHANGED <<core, drafts, wedged>>, NEW r \in Requests, NEW c,
           request' = [request EXCEPT ![r] = c], c.op # "idle" => RequestOK(c),
           c.op = "planned" =>
             /\ Planned = {} /\ Acceptable(c.draft) /\ c.version = drafts[c.draft].version
    PROVE  IInv'
<1>1. CoreInv' /\ Grows /\ drafts' = drafts
  BY SameCore DEF IInv
<1>2. DraftsTyped /\ RequestsMatch /\ MarksJudged /\ AcceptedIsLive
  BY DEF IInv, DraftInv
<1>3. DraftsTyped' /\ MarksJudged'
  BY <1>1, <1>2, DraftStays DEF DraftsTyped, MarksJudged
<1>4. AcceptedIsLive'
  BY <1>1, <1>2, AcceptedStays
<1>5. \A q \in Requests : request'[q] = IF q = r THEN c ELSE request[q]
  BY <1>2 DEF RequestsMatch
<1>6. RequestsMatch'
  <2>1. \A q \in Requests : request'[q].op # "idle" => RequestOK(request'[q])
    BY <1>2, <1>5 DEF RequestsMatch
  <2>2. ASSUME NEW x, RequestOK(x) PROVE RequestOK(x)'
    BY <1>1, <1>2, <2>2, RequestsEvolve, UnchangedEvolves
  <2>3. DOMAIN request' = Requests
    BY <1>2 DEF RequestsMatch
  <2> QED BY <2>1, <2>2, <2>3 DEF RequestsMatch
<1>7. PlanHolds'
  <2>1. \A d : Acceptable(d)' = Acceptable(d)
    BY SameAcceptable
  <2>2. ASSUME NEW q \in Requests, request'[q].op = "planned"
        PROVE  /\ Acceptable(request'[q].draft)
               /\ request'[q].version = drafts[request'[q].draft].version
               /\ \A p \in Requests : request'[p].op = "planned" => p = q
    BY <1>5, <2>2 DEF IInv, PlanHolds, Planned
  <2> QED BY <1>1, <2>1, <2>2 DEF PlanHolds
<1> QED
  BY <1>1, <1>3, <1>4, <1>6, <1>7 DEF IInv, DraftInv

(* A draft in one of these states can be read, and its request says of its   *)
(* version what it read.                                                    *)
LEMMA ReadsKept ==
    ASSUME IInv, NEW d \in Drafts,
           drafts[d].status \in Open \cup {"pending-approval"}
    PROVE  /\ Alive(d) /\ drafts[d] \in DraftRecord
           /\ drafts[d].version \in 1 .. MaxRevisions /\ drafts[d].version \in Nat
           /\ drafts[d].base \in TargetBases /\ drafts[d].base \in Nat
           /\ drafts[d].kind = "bundle" => drafts[d].base = 0
<1>1. Alive(d) /\ Kept(d)
  BY DEF Open, Alive, Kept
<1> QED
  BY <1>1 DEF IInv, DraftInv, DraftsTyped, DraftTyped, DraftRecord

(* A request made now, of the version it has just read, agrees with its     *)
(* draft.                                                                   *)
LEMMA FreshRequest ==
    ASSUME IInv, NEW d \in Drafts, NEW c, c.draft = d, c.version = drafts[d].version,
           c.op # "revise", drafts[d].status \in Open \cup {"pending-approval"}, Matches(c)
    PROVE  RequestOK(c)
BY ReadsKept DEF RequestOK, Alive, Kept

LEMMA BeginReviseStep ==
    ASSUME IInv, NEW r \in Requests, NEW d \in Drafts, BeginRevise(r, d)
    PROVE  IInv'
<1>1. drafts[d].status \in Open
  BY DEF BeginRevise, Reads
<1>2. PICK version \in 1 .. (MaxRevisions - 1), body \in Proposals \ {Broken},
           base \in {0} \cup (IF drafts[d].kind = "flow" THEN Bases ELSE {}) :
         Begin(r, [op |-> "revise", draft |-> d, version |-> version, body |-> body,
                   base |-> base, valid |-> CandidateValid(drafts[d], body)])
  BY DEF BeginRevise
<1> DEFINE c == [op |-> "revise", draft |-> d, version |-> version, body |-> body,
                 base |-> base, valid |-> CandidateValid(drafts[d], body)]
<1>3. /\ c.op = "revise" /\ c.draft = d /\ c.version = version
      /\ c.body = body /\ c.base = base
  OBVIOUS
<1>4. request' = [request EXCEPT ![r] = c] /\ UNCHANGED <<core, drafts, wedged>>
  BY <1>2 DEF Begin
<1> HIDE DEF c
<1>5. base \in {0} \cup Bases /\ (drafts[d].kind = "bundle" => base = 0) /\ version \in Nat
  BY BoundsAssumption
<1>6. RevisionTyped(c)
  BY <1>3, <1>5, BodiesAssumption DEF RevisionTyped
<1>7. RequestOK(c)
  BY <1>1, <1>3, <1>5, <1>6, ReadsKept DEF RequestOK, Alive, Kept
<1> QED
  BY <1>3, <1>4, <1>7, NewRequest

LEMMA BeginValidateStep ==
    ASSUME IInv, NEW r \in Requests, NEW d \in Drafts, BeginValidate(r, d)
    PROVE  IInv'
<1> DEFINE c == [op |-> "validating", draft |-> d, version |-> drafts[d].version,
                 read |-> Basis(drafts[d])]
<1>1. /\ c.op = "validating" /\ c.draft = d /\ c.version = drafts[d].version
      /\ c.read = Basis(drafts[d])
  OBVIOUS
<1>2. /\ drafts[d].status \in Open
      /\ request' = [request EXCEPT ![r] = c] /\ UNCHANGED <<core, drafts, wedged>>
  BY DEF BeginValidate, Begin, Reads
<1> HIDE DEF c
<1>3. Matches(c)
  BY <1>1 DEF Matches
<1>4. RequestOK(c)
  BY <1>1, <1>2, <1>3, FreshRequest
<1> QED
  BY <1>1, <1>2, <1>4, NewRequest

LEMMA BeginSimpleStep ==
    ASSUME IInv, NEW r \in Requests, NEW d \in Drafts, NEW op \in {"submit", "abandon", "reject"},
           NEW statuses \in SUBSET (Open \cup {"pending-approval"}), BeginSimple(r, d, op, statuses)
    PROVE  IInv'
<1> DEFINE c == [op |-> op, draft |-> d, version |-> drafts[d].version]
<1>1. c.op = op /\ c.draft = d /\ c.version = drafts[d].version
  OBVIOUS
<1>2. /\ drafts[d].status \in Open \cup {"pending-approval"}
      /\ request' = [request EXCEPT ![r] = c] /\ UNCHANGED <<core, drafts, wedged>>
  BY DEF BeginSimple, Begin, Reads
<1> HIDE DEF c
<1>3. Matches(c)
  BY <1>1 DEF Matches
<1>4. RequestOK(c)
  BY <1>1, <1>2, <1>3, FreshRequest
<1> QED
  BY <1>1, <1>2, <1>4, NewRequest

LEMMA BeginApproveStep ==
    ASSUME IInv, NEW r \in Requests, NEW d \in Drafts, BeginApprove(r, d)
    PROVE  IInv'
<1> DEFINE c == [op |-> "accept", draft |-> d, version |-> drafts[d].version,
                 read |-> <<drafts[d].body, drafts[d].base>>]
<1>1. /\ c.op = "accept" /\ c.draft = d /\ c.version = drafts[d].version
      /\ c.read = <<drafts[d].body, drafts[d].base>>
  OBVIOUS
<1>2. /\ drafts[d].status \in Open \cup {"pending-approval"}
      /\ request' = [request EXCEPT ![r] = c] /\ UNCHANGED <<core, drafts, wedged>>
  BY DEF BeginApprove, Begin, Reads
<1> HIDE DEF c
<1>3. Matches(c)
  BY <1>1 DEF Matches
<1>4. RequestOK(c)
  BY <1>1, <1>2, <1>3, FreshRequest
<1> QED
  BY <1>1, <1>2, <1>4, NewRequest

(* What is out of date is judged so, against the version of the flow now.   *)
LEMMA OutOfDateJudged ==
    ASSUME IInv, NEW d \in Drafts, Kept(d), OutOfDate(drafts[d])
    PROVE  Judged(drafts[d], [base |-> drafts[d].base, version |-> Version])
<1>1. Version \in Nat /\ drafts[d].base \in Nat
  BY KeptRecord, VersionIsNatural DEF IInv, DraftInv
<1> QED
  BY <1>1 DEF Judged, Reason, OutOfDate

(* The judgement of a validation holds of the draft as long as its version   *)
(* is the one that was read.                                                *)
LEMMA AssessStep ==
    ASSUME IInv, NEW r \in Requests, request[r].op = "validating", Assess(r)
    PROVE  IInv'
<1> DEFINE q == request[r]
           marked == Marks(q, q.read)
           checked == [op |-> "validate", draft |-> q.draft, version |-> q.version,
                       valid |-> CandidateValid(q.read, q.read.body)]
<1>1. RequestOK(q)
  BY DEF IInv, DraftInv, RequestsMatch
<1>2. /\ UNCHANGED <<core, drafts, wedged>>
      /\ request' = [request EXCEPT ![r] = IF Lapsed(q.read) THEN marked ELSE checked]
  BY DEF Assess
<1>3. /\ marked.op = "stale" /\ marked.draft = q.draft /\ marked.version = q.version
      /\ marked.why = [base |-> q.read.base, version |-> Version]
      /\ checked.op = "validate" /\ checked.draft = q.draft /\ checked.version = q.version
  BY DEF Marks
<1> HIDE DEF marked, checked
<1>4. ASSUME Lapsed(q.read), Alive(q.draft), q.version = drafts[q.draft].version
      PROVE  Judged(drafts[q.draft], marked.why)
  <2>1. q.read = Basis(drafts[q.draft]) /\ OutOfDate(q.read)
    BY <1>1, <1>4 DEF RequestOK, Matches, Lapsed
  <2>2. OutOfDate(drafts[q.draft]) /\ q.read.base = drafts[q.draft].base
    BY <2>1 DEF OutOfDate, Basis
  <2> QED BY <1>1, <1>3, <1>4, <2>2, OutOfDateJudged DEF RequestOK, Alive
<1>5. Lapsed(q.read) => RequestOK(marked)
  BY <1>1, <1>3, <1>4 DEF RequestOK, Matches
<1>6. RequestOK(checked)
  BY <1>1, <1>3 DEF RequestOK, Matches
<1>7. CASE Lapsed(q.read)
  <2>1. request' = [request EXCEPT ![r] = marked]
    BY <1>2, <1>7
  <2> QED BY <1>2, <1>3, <1>5, <1>7, <2>1, NewRequest
<1>8. CASE ~Lapsed(q.read)
  <2>1. request' = [request EXCEPT ![r] = checked]
    BY <1>2, <1>8
  <2> QED BY <1>2, <1>3, <1>6, <2>1, NewRequest
<1> QED
  BY <1>7, <1>8

LEMMA RefuseStep ==
    ASSUME IInv, NEW r \in Requests, request[r].op = "accept", Refuse(r)
    PROVE  IInv'
<1> DEFINE q == request[r]
           marked == Marks(q, drafts[q.draft])
<1>1. RequestOK(q) /\ UNCHANGED <<core, drafts, wedged>>
  BY DEF IInv, DraftInv, RequestsMatch, Refuse
<1>2. /\ marked.op = "stale" /\ marked.draft = q.draft /\ marked.version = q.version
      /\ marked.why = [base |-> drafts[q.draft].base, version |-> Version]
      /\ Idle.op = "idle"
  BY DEF Idle, Marks
<1>3. \/ OutOfDate(drafts[q.draft]) /\ request' = [request EXCEPT ![r] = marked]
      \/ request' = [request EXCEPT ![r] = Idle]
  BY DEF Refuse, Answered
<1> HIDE DEF marked
<1>4. OutOfDate(drafts[q.draft]) /\ Alive(q.draft) => Judged(drafts[q.draft], marked.why)
  BY <1>1, <1>2, OutOfDateJudged DEF RequestOK, Alive
<1>5. OutOfDate(drafts[q.draft]) => RequestOK(marked)
  BY <1>1, <1>2, <1>4 DEF RequestOK, Matches
<1> QED
  BY <1>1, <1>2, <1>3, <1>5, NewRequest

(* The plan reads, under the queue and the lock, the draft it will end.     *)
LEMMA PlanStep ==
    ASSUME IInv, QueueFree, NEW r \in Requests, request[r].op = "accept", Plan(r)
    PROVE  IInv'
<1> DEFINE q == request[r]
           next == [op |-> "planned", draft |-> q.draft, version |-> q.version, read |-> q.read]
<1>1. RequestOK(q) /\ UNCHANGED <<core, drafts, wedged>> /\ Planned = {}
  BY DEF IInv, DraftInv, RequestsMatch, Plan, QueueFree
<1>2. request' = [request EXCEPT ![r] = next]
  BY DEF Plan
<1>3. /\ next.op = "planned" /\ next.draft = q.draft /\ next.version = q.version
      /\ next.read = q.read
  OBVIOUS
<1> HIDE DEF next
<1>4. Acceptable(q.draft) /\ q.version = drafts[q.draft].version
  BY DEF Plan, Acceptable, Admits
<1>5. RequestOK(next)
  BY <1>1, <1>3 DEF RequestOK, Matches
<1> QED
  BY <1>1, <1>2, <1>3, <1>4, <1>5, NewRequest

LEMMA RestartStep == ASSUME IInv, Restart PROVE IInv'
<1>1. CoreInv' /\ Grows /\ drafts' = drafts
  BY SameCore DEF IInv, Restart
<1>2. DraftsTyped' /\ MarksJudged' /\ AcceptedIsLive'
  BY <1>1, DraftStays, AcceptedStays DEF IInv, DraftInv, DraftsTyped, MarksJudged
<1>3. RequestsMatch' /\ PlanHolds'
  BY DEF Restart, RequestsMatch, PlanHolds, Idle
<1> QED
  BY <1>1, <1>2, <1>3 DEF IInv, DraftInv

-----------------------------------------------------------------------------
(* A draft is born with the version of the flow it was written against.     *)
LEMMA CreatedDraft ==
    ASSUME IInv, NEW d \in Drafts, Create(d)
    PROVE  \E x : /\ drafts' = [drafts EXCEPT ![d] = x]
                  /\ x \in DraftRecord /\ x.version = 1 /\ x.base \in TargetBases
                  /\ x.kind = "bundle" => x.base = 0
                  /\ x.status \in {"ready", "invalid"}
<1>0. Version \in Nat /\ Version \in TargetBases /\ NoReason \in Reason
  BY VersionIsNatural, BoundsAssumption DEF IInv, CoreInv, CoreTyped, Version, TargetBases,
     NoReason, Reason
<1>1. ASSUME NEW body \in Proposals, NEW scope \in live
      PROVE  /\ FlowDraft(scope, body) \in DraftRecord /\ FlowDraft(scope, body).version = 1
             /\ FlowDraft(scope, body).base = Version
             /\ FlowDraft(scope, body).kind = "flow"
             /\ FlowDraft(scope, body).status \in {"ready", "invalid"}
  <2>1. body \in Bodies /\ scope \in Apps
    BY BodiesAssumption DEF IInv, CoreInv, CoreTyped
  <2> QED BY <1>0, <2>1 DEF FlowDraft, Newborn, StatusFor, DraftRecord, Open
<1>2. ASSUME NEW body \in Proposals
      PROVE  /\ BundleDraft(body) \in DraftRecord /\ BundleDraft(body).version = 1
             /\ BundleDraft(body).base = 0
             /\ BundleDraft(body).status \in {"ready", "invalid"}
  <2>1. body \in Bodies /\ Floor \in Apps
    BY BodiesAssumption DEF Apps
  <2> QED BY <1>0, <2>1 DEF BundleDraft, Newborn, StatusFor, DraftRecord, Open
<1>3. PICK body \in Proposals :
        \/ \E scope \in live : drafts' = [drafts EXCEPT ![d] = FlowDraft(scope, body)]
        \/ drafts' = [drafts EXCEPT ![d] = BundleDraft(body)]
  BY DEF Create
<1>4. ASSUME NEW scope \in live, drafts' = [drafts EXCEPT ![d] = FlowDraft(scope, body)]
      PROVE  \E x : /\ drafts' = [drafts EXCEPT ![d] = x]
                    /\ x \in DraftRecord /\ x.version = 1 /\ x.base \in TargetBases
                    /\ x.kind = "bundle" => x.base = 0
                    /\ x.status \in {"ready", "invalid"}
  <2>1. Version \in TargetBases /\ "flow" # "bundle"
    BY <1>0
  <2> WITNESS FlowDraft(scope, body)
  <2> QED BY <1>1, <1>4, <2>1
<1>5. ASSUME drafts' = [drafts EXCEPT ![d] = BundleDraft(body)]
      PROVE  \E x : /\ drafts' = [drafts EXCEPT ![d] = x]
                    /\ x \in DraftRecord /\ x.version = 1 /\ x.base \in TargetBases
                    /\ x.kind = "bundle" => x.base = 0
                    /\ x.status \in {"ready", "invalid"}
  <2>1. 0 \in TargetBases
    BY BoundsAssumption DEF TargetBases
  <2> WITNESS BundleDraft(body)
  <2> QED BY <1>2, <1>5, <2>1
<1> QED BY <1>3, <1>4, <1>5

LEMMA CreateStep == ASSUME IInv, NEW d \in Drafts, Create(d) PROVE IInv'
<1>1. CoreInv' /\ Grows /\ request' = request
  BY SameCore DEF IInv, Create
<1>2. DraftsTyped /\ RequestsMatch /\ MarksJudged /\ AcceptedIsLive /\ drafts[d].status = "absent"
  BY DEF IInv, DraftInv, Create, NoDraft
<1>3. PICK x : /\ drafts' = [drafts EXCEPT ![d] = x]
               /\ x \in DraftRecord /\ x.version = 1 /\ x.base \in TargetBases
               /\ x.kind = "bundle" => x.base = 0
               /\ x.status \in {"ready", "invalid"}
  BY CreatedDraft
<1>4. /\ drafts'[d] = x /\ DOMAIN drafts' = Drafts
      /\ \A e \in Drafts \ {d} : drafts'[e] = drafts[e]
  BY <1>2, <1>3 DEF DraftsTyped
<1>5. DraftTyped(d)' /\ drafts'[d].status \notin {"stale", "accepted"}
  BY <1>3, <1>4, BoundsAssumption DEF DraftTyped, Kept
<1>6. DraftsTyped' /\ MarksJudged'
  BY <1>1, <1>2, <1>4, <1>5, DraftStays DEF DraftsTyped, MarksJudged
<1>7. AcceptedIsLive'
  BY <1>1, <1>2, <1>4, <1>5, AcceptedStays
<1>8. RequestsMatch'
  <2>1. \A e \in Drafts : Evolves(e)
    BY <1>2, <1>4, UnchangedEvolves DEF Evolves
  <2>2. ASSUME NEW c, RequestOK(c) PROVE RequestOK(c)'
    BY <1>1, <1>2, <2>1, <2>2, RequestsEvolve DEF RequestOK
  <2> QED BY <1>1, <1>2, <2>2 DEF RequestsMatch
<1>9. PlanHolds'
  BY <1>1, NoPlanHolds DEF Create, LockFree
<1> QED
  BY <1>1, <1>6, <1>7, <1>8, <1>9 DEF IInv, DraftInv

(* What an admitted command makes of the draft.                             *)
LEMMA CommandApplied ==
    ASSUME IInv, NEW c, RequestOK(c), Admits(drafts[c.draft], c),
           c.op \in {"revise", "validate", "submit", "stale", "abandon", "reject"},
           UNCHANGED <<core, wedged>>,
           drafts' = [drafts EXCEPT ![c.draft] = Applied(@, c)]
    PROVE  /\ DraftTyped(c.draft)' /\ Evolves(c.draft)
           /\ drafts'[c.draft].status # "accepted"
           /\ drafts'[c.draft].status = "stale" =>
                Judged(drafts[c.draft], drafts[c.draft].why)'
<1> DEFINE d == c.draft
           draft == drafts[d]
           new == Applied(draft, c)
<1>1. CoreInv' /\ Grows
  BY SameCore DEF IInv
<1>2. /\ d \in Drafts /\ Alive(d) /\ Kept(d) /\ draft \in DraftRecord
      /\ c.version = draft.version /\ (c.op # "revise" => Matches(c))
      /\ draft.version \in 1 .. MaxRevisions /\ draft.base \in TargetBases
      /\ draft.kind = "bundle" => draft.base = 0
  BY DEF RequestOK, Admits, Ended, Alive, Kept, IInv, DraftInv, DraftsTyped, DraftTyped
<1>3. drafts'[d] = new
  BY <1>2 DEF IInv, DraftInv, DraftsTyped
<1>4. CASE c.op = "revise"
  <2> DEFINE v == draft.version + 1
             b == IF c.base = 0 THEN draft.base ELSE c.base
             st == StatusFor(c.valid)
  <2>1. new = [draft EXCEPT !.version = v, !.body = c.body, !.base = b, !.status = st,
                            !.why = NoReason]
    BY <1>4 DEF Applied
  <2>2. /\ st \in {"ready", "invalid"} /\ v \in 1 .. MaxRevisions /\ v \in Nat
        /\ c.body \in Bodies /\ b \in TargetBases /\ b \in Nat
        /\ draft.kind = "bundle" => b = 0
        /\ NoReason \in Reason
    <3>1. RevisionTyped(c) /\ draft.version < MaxRevisions
      BY <1>4 DEF RequestOK, Admits
    <3>2. b \in TargetBases /\ (draft.kind = "bundle" => b = 0)
      BY <1>2, <3>1 DEF RevisionTyped, TargetBases
    <3>3. TargetBases \subseteq Nat
      BY BasesAssumption, BoundsAssumption DEF TargetBases
    <3>4. st \in {"ready", "invalid"} /\ NoReason \in Reason /\ c.body \in Bodies
      BY <3>1 DEF StatusFor, NoReason, Reason, RevisionTyped
    <3>5. v \in 1 .. MaxRevisions /\ v \in Nat
      BY <1>2, <3>1, BoundsAssumption
    <3> QED BY <3>2, <3>3, <3>4, <3>5
  <2>3. v = draft.version + 1
    OBVIOUS
  <2> HIDE DEF v, b, st, new
  <2>4. new \in DraftRecord /\ new.version = v /\ new.base = b
        /\ new.kind = draft.kind /\ new.status = st
    BY <1>2, <2>1, <2>2 DEF DraftRecord, Open
  <2>5. DraftTyped(d)'
    BY <1>3, <2>2, <2>4 DEF DraftTyped, Kept
  <2> QED BY <1>2, <1>3, <2>2, <2>3, <2>4, <2>5 DEF Evolves, Alive, Kept
<1>5. CASE c.op \in {"validate", "submit", "stale"}
  <2>1. PICK st \in Open \cup {"pending-approval"}, why \in Reason :
          /\ new = [draft EXCEPT !.status = st, !.why = why]
          /\ st = "stale" => c.op = "stale" /\ why = c.why
    <3>1. draft.why \in Reason /\ NoReason \in Reason /\ draft = [draft EXCEPT !.why = draft.why]
      BY <1>2 DEF DraftRecord, NoReason, Reason
    <3>2. CASE c.op = "validate"
      <4>1. new = [draft EXCEPT !.status = StatusFor(c.valid), !.why = NoReason]
        BY <3>2 DEF Applied
      <4>2. StatusFor(c.valid) \in Open /\ StatusFor(c.valid) # "stale"
        BY DEF StatusFor, Open
      <4> HIDE DEF new
      <4> QED BY <3>1, <4>1, <4>2
    <3>3. CASE c.op = "submit"
      <4>1. new = [draft EXCEPT !.status = "pending-approval"]
        BY <3>3 DEF Applied
      <4>2. new = [draft EXCEPT !.status = "pending-approval", !.why = draft.why]
        BY <1>2, <4>1 DEF DraftRecord
      <4>3. "pending-approval" \in Open \cup {"pending-approval"} /\ "pending-approval" # "stale"
        OBVIOUS
      <4> HIDE DEF new
      <4> draft.why \in Reason
        BY <3>1
      <4> WITNESS "pending-approval" \in Open \cup {"pending-approval"}, draft.why \in Reason
      <4> QED BY <4>2, <4>3
    <3>4. CASE c.op = "stale"
      <4>1. new = [draft EXCEPT !.status = "stale", !.why = c.why]
        BY <3>4 DEF Applied
      <4>2. c.why \in Reason
        BY <1>2, <3>4 DEF Matches, Judged
      <4> HIDE DEF new
      <4> QED BY <3>4, <4>1, <4>2 DEF Open
    <3> QED BY <1>5, <3>2, <3>3, <3>4
  <2>2. /\ new \in DraftRecord /\ new.status = st /\ new.version = draft.version
        /\ new.base = draft.base /\ new.body = draft.body /\ new.kind = draft.kind
        /\ new.scope = draft.scope /\ new.why = why
    BY <1>2, <2>1 DEF DraftRecord
  <2> HIDE DEF new
  <2>3. DraftTyped(d)'
    BY <1>2, <1>3, <2>1, <2>2 DEF DraftTyped, Kept, Open
  <2>4. Evolves(d)
    BY <1>2, <1>3, <2>1, <2>2 DEF Evolves, Basis, Open
  <2>5. ASSUME st = "stale" PROVE Judged(drafts[d], drafts[d].why)'
    <3>1. Judged(drafts[d], why) /\ drafts[d].kind \in {"flow", "bundle"}
      BY <1>2, <2>1, <2>5 DEF Matches, DraftRecord
    <3>2. Judged(drafts[d], why)'
      BY <1>1, <1>2, <1>3, <2>2, <3>1, JudgedStays
    <3> QED BY <1>3, <2>2, <3>2
  <2> QED BY <1>3, <2>1, <2>2, <2>3, <2>4, <2>5 DEF Open
<1>6. CASE c.op \in {"abandon", "reject"}
  <2>1. new \in {[status |-> "abandoned"], [status |-> "rejected"]}
    BY <1>6 DEF Applied
  <2>2. new.status \in {"abandoned", "rejected"}
    BY <2>1
  <2> HIDE DEF new
  <2> QED BY <1>3, <2>1, <2>2 DEF DraftTyped, Evolves, Alive, Kept
<1> QED
  BY <1>4, <1>5, <1>6

LEMMA CommitStep ==
    ASSUME IInv, NEW r \in Requests, Commit(r)
    PROVE  IInv'
<1>0. PICK c : c = request[r]
  OBVIOUS
<1>1. /\ UNCHANGED <<core, wedged>> /\ request' = [request EXCEPT ![r] = Idle]
      /\ c.op \in {"revise", "validate", "submit", "stale", "abandon", "reject"}
      /\ Planned = {}
  BY <1>0 DEF Commit, LockFree
<1>2. CoreInv' /\ Grows /\ RequestOK(c) /\ c.draft \in Drafts
  BY <1>0, <1>1, SameCore DEF IInv, DraftInv, RequestsMatch, RequestOK
<1>3. DraftsTyped /\ RequestsMatch /\ MarksJudged /\ AcceptedIsLive
  BY DEF IInv, DraftInv
<1>4. CASE ~Admits(drafts[c.draft], c)
  <2>1. drafts' = drafts
    BY <1>0, <1>4 DEF Commit
  <2> QED BY <1>1, <2>1, NewRequest DEF Idle
<1>5. CASE Admits(drafts[c.draft], c)
  <2>1. drafts' = [drafts EXCEPT ![c.draft] = Applied(@, c)]
    BY <1>0, <1>5 DEF Commit
  <2>2. /\ DraftTyped(c.draft)' /\ Evolves(c.draft)
        /\ drafts'[c.draft].status # "accepted"
        /\ drafts'[c.draft].status = "stale" =>
             Judged(drafts[c.draft], drafts[c.draft].why)'
    BY <1>1, <1>2, <1>5, <2>1, CommandApplied
  <2>3. DOMAIN drafts' = Drafts /\ \A e \in Drafts \ {c.draft} : drafts'[e] = drafts[e]
    BY <1>3, <2>1 DEF DraftsTyped
  <2>4. DraftsTyped' /\ MarksJudged'
    BY <1>2, <1>3, <2>2, <2>3, DraftStays DEF DraftsTyped, MarksJudged
  <2>5. AcceptedIsLive'
    BY <1>2, <1>3, <2>2, <2>3, AcceptedStays
  <2>6. RequestsMatch'
    <3>1. \A e \in Drafts : Evolves(e)
      BY <2>2, <2>3, UnchangedEvolves
    <3>2. ASSUME NEW x, RequestOK(x) PROVE RequestOK(x)'
      BY <1>2, <1>3, <3>1, <3>2, RequestsEvolve DEF RequestOK
    <3> QED BY <1>1, <1>3, <3>2 DEF RequestsMatch, Idle
  <2>7. PlanHolds'
    BY <1>1, <1>3, NoPlanHolds DEF RequestsMatch
  <2> QED BY <1>2, <2>4, <2>5, <2>6, <2>7 DEF IInv, DraftInv
<1> QED
  BY <1>4, <1>5

-----------------------------------------------------------------------------
(* Acceptance: what is accepted was written against the last version, which *)
(* nobody has edited since.                                                 *)
LEMMA AcceptableBase ==
    ASSUME IInv, NEW d \in Drafts, Acceptable(d)
    PROVE  /\ drafts[d] \in DraftRecord /\ drafts[d].base = Version
           /\ Revises(drafts[d]) <=> Exists
           /\ Exists => Folds(drafts[d]) /\ flow.work = flow.history[Version]
           /\ pending = {}
           /\ drafts[d].kind = "bundle" => ~Taken(App) /\ ~Exists
<1>1. /\ drafts[d] \in DraftRecord /\ drafts[d].base \in Nat
      /\ drafts[d].kind = "bundle" => drafts[d].base = 0
      /\ drafts[d].kind \in {"flow", "bundle"}
  BY ReadsKept DEF Acceptable, DraftRecord
<1>2. CoreInv /\ (Exists => Version \in 1 .. MaxVersion) /\ (~Exists => Version = 0)
  BY DEF IInv, CoreInv, CoreTyped, Version
<1>3. CASE Exists
  <2>1. drafts[d].kind = "flow" /\ drafts[d].base = Version /\ Revises(drafts[d])
    BY <1>1, <1>2, <1>3 DEF Acceptable, OutOfDate, Revises
  <2>2. Folds(drafts[d])
    BY <2>1 DEF Acceptable, Plans
  <2>3. flow.work = flow.history[Version] /\ pending = {}
    BY <1>2, <1>3, <2>1, <2>2 DEF Folds, UneditedHandoff, CoreInv, ActiveIsHistory, PendingMatchesNode
  <2> QED BY <1>1, <1>3, <2>1, <2>2, <2>3
<1>4. CASE ~Exists
  <2>1. drafts[d].base = 0 /\ Version = 0 /\ pending = {} /\ ~Revises(drafts[d])
    BY <1>1, <1>2, <1>4 DEF Acceptable, OutOfDate, Revises, CoreInv, PendingMatchesNode
  <2>2. drafts[d].kind = "bundle" => ~Taken(App)
    BY DEF Acceptable, OutOfDate
  <2> QED BY <1>1, <1>4, <2>1, <2>2
<1> QED
  BY <1>3, <1>4

(* Accepting a draft of a new flow seeds that flow with the draft's body.   *)
LEMMA SeededCore ==
    ASSUME CoreInv, ~Exists, pending = {}, NEW body \in Bodies, NEW app \in Apps,
           flow' = Seed(body, app), live' \in {live, live \cup {App}},
           UNCHANGED <<burned, pending, wedged>>
    PROVE  CoreInv' /\ Grows /\ Version' = 1 /\ flow'.history[1] = body
<1>1. /\ flow' \in FlowRecord /\ flow'.node = "active" /\ flow'.work = body
      /\ flow'.bornBy = 0 /\ flow'.history = <<body>>
  BY SeedRecord
<1>2. Exists' /\ Version' = 1 /\ flow'.history[1] = body /\ Version = 0
  BY <1>1, FlowExists DEF Exists, Version
<1>3. live' \in SUBSET Apps /\ (Taken(App) => Taken(App)')
  BY DEF CoreInv, CoreTyped, Apps, Taken
<1>4. Grows
  BY <1>2, <1>3 DEF Grows
<1> QED
  BY <1>1, <1>2, <1>3, <1>4, BoundsAssumption
  DEF CoreInv, CoreTyped, ActiveIsHistory, PendingMatchesNode

(* Accepting a draft of an existing flow appends the draft's body to its    *)
(* history.                                                                 *)
LEMMA AppliedCore ==
    ASSUME CoreInv, Exists, pending = {}, Version < MaxVersion, NEW draft \in DraftRecord,
           CandidateApplied(draft), UNCHANGED <<burned, pending, wedged>>
    PROVE  CoreInv' /\ Grows /\ Version' = Version + 1 /\ flow'.history[Version'] = draft.body
<1>1. flow \in FlowRecord /\ Version \in 1 .. MaxVersion /\ draft.body \in Bodies /\ draft.scope \in Apps
  BY TableRecord DEF DraftRecord, CoreInv, CoreTyped
<1>2. /\ flow' \in FlowRecord /\ flow'.history = Append(flow.history, draft.body)
      /\ flow'.node = "active" /\ flow'.bornBy = flow.bornBy /\ flow'.work = draft.body
  <2> DEFINE h == Append(flow.history, draft.body)
  <2>1. h \in Seq(Bodies)
    BY <1>1 DEF FlowRecord
  <2>2. flow' = [flow EXCEPT !.node = "active", !.status = "active", !.work = draft.body,
                             !.history = h, !.app = draft.scope]
    BY DEF CandidateApplied
  <2> HIDE DEF h
  <2>3. /\ flow' \in FlowRecord /\ flow'.history = h
        /\ flow'.node = "active" /\ flow'.bornBy = flow.bornBy /\ flow'.work = draft.body
    BY <1>1, <2>1, <2>2 DEF FlowRecord, Nodes
  <2> QED BY <2>3 DEF h
<1>3. live' = live /\ (Taken(App) => Taken(App)')
  BY DEF CandidateApplied, Taken
<1>4. Exists' /\ Version' = Version + 1 /\ flow'.history[Version'] = draft.body /\ Grows
  BY <1>1, <1>2, <1>3, AppendGrows, Zenon
<1>5. Version' \in 1 .. MaxVersion /\ flow'.bornBy \in 0 .. Version'
  BY <1>1, <1>2, <1>4, BoundsAssumption DEF CoreInv, CoreTyped
<1>6. CoreTyped'
  BY <1>2, <1>3, <1>4, <1>5 DEF CoreInv, CoreTyped
<1> QED
  BY <1>2, <1>4, <1>6 DEF CoreInv, ActiveIsHistory, PendingMatchesNode

(* Either way the history holds the body one version above the draft's base.*)
LEMMA AcceptCore ==
    ASSUME IInv, NEW d \in Drafts, Acceptable(d), CoreEvents(drafts[d]),
           UNCHANGED <<burned, pending, wedged>>
    PROVE  /\ CoreInv' /\ Grows
           /\ Version' = drafts[d].base + 1
           /\ flow'.history[drafts[d].base + 1] = drafts[d].body
<1>0. PICK draft : draft = drafts[d]
  OBVIOUS
<1>1. /\ draft \in DraftRecord /\ draft.base = Version /\ pending = {}
      /\ Revises(draft) <=> Exists
      /\ draft.kind = "bundle" => ~Taken(App) /\ ~Exists
      /\ CoreInv /\ Version < MaxVersion
      /\ CoreEvents(draft)
  BY <1>0, AcceptableBase DEF IInv, Acceptable
<1>2. draft.body \in Bodies /\ draft.scope \in Apps /\ App \in Apps
  BY <1>1 DEF DraftRecord, Apps
<1>3. CASE Exists
  <2>1. CandidateApplied(draft)
    BY <1>1, <1>3 DEF CoreEvents
  <2> QED BY <1>0, <1>1, <1>3, <2>1, AppliedCore
<1>4. CASE ~Exists
  <2>1. Version = 0
    BY <1>4 DEF Version
  <2>2. \E app \in Apps : flow' = Seed(draft.body, app)
    BY <1>1, <1>2, <1>4 DEF CoreEvents, Seeded
  <2>3. live' \in {live, live \cup {App}}
    BY <1>1, <1>4 DEF CoreEvents
  <2> QED BY <1>0, <1>1, <1>2, <1>4, <2>1, <2>2, <2>3, SeededCore
<1> QED
  BY <1>3, <1>4

(* What an acceptance reads and writes when it lands: the plan still holds,  *)
(* so that its candidate folds.                                             *)
LEMMA LandParts ==
    ASSUME IInv, NEW r \in Requests, Land(r)
    PROVE  /\ request[r].op = "planned" /\ RequestOK(request[r])
           /\ request[r].draft \in Drafts
           /\ Acceptable(request[r].draft)
           /\ request[r].version = drafts[request[r].draft].version
           /\ CoreEvents(drafts[request[r].draft]) /\ UNCHANGED <<burned, pending, wedged>>
           /\ drafts' = [drafts EXCEPT ![request[r].draft] = [@ EXCEPT !.status = "accepted"]]
           /\ request' = [request EXCEPT ![r] = Idle]
<1>1. /\ request[r].op = "planned"
      /\ RequestOK(request[r]) /\ request[r].draft \in Drafts
      /\ Acceptable(request[r].draft)
      /\ request[r].version = drafts[request[r].draft].version
  BY DEF Land, IInv, DraftInv, RequestsMatch, RequestOK, PlanHolds
<1>2. Revises(drafts[request[r].draft]) => Folds(drafts[request[r].draft])
  BY <1>1 DEF Acceptable, Plans
<1>3. CoreEvents(drafts[request[r].draft]) /\ UNCHANGED <<burned, pending, wedged>>
  BY <1>2 DEF Land
<1>4. request' = [request EXCEPT ![r] = Idle]
  BY DEF Land, Answered
<1>5. drafts' = [drafts EXCEPT ![request[r].draft] = [@ EXCEPT !.status = "accepted"]]
  BY <1>1 DEF Land, Applied
<1> QED
  BY <1>1, <1>3, <1>4, <1>5

LEMMA LandStep ==
    ASSUME IInv, NEW r \in Requests, Land(r)
    PROVE  IInv'
<1>1. PICK d \in Drafts : /\ d = request[r].draft /\ Acceptable(d) /\ CoreEvents(drafts[d])
                          /\ UNCHANGED <<burned, pending, wedged>>
                          /\ drafts' = [drafts EXCEPT ![d] = [@ EXCEPT !.status = "accepted"]]
                          /\ request' = [request EXCEPT ![r] = Idle]
                          /\ request[r].op = "planned"
  BY LandParts
<1>2. /\ CoreInv' /\ Grows /\ Version' = drafts[d].base + 1
      /\ flow'.history[drafts[d].base + 1] = drafts[d].body
  BY <1>1, AcceptCore
<1>3. DraftsTyped /\ RequestsMatch /\ MarksJudged /\ AcceptedIsLive
  BY DEF IInv, DraftInv
<1>4. /\ drafts[d] \in DraftRecord /\ drafts[d].base = Version /\ Version \in Nat
      /\ drafts[d].version \in 1 .. MaxRevisions /\ drafts[d].base \in TargetBases
      /\ drafts[d].kind = "bundle" => drafts[d].base = 0
  BY <1>1, AcceptableBase, ReadsKept, VersionIsNatural DEF IInv, Acceptable
<1>5. /\ DOMAIN drafts' = Drafts /\ \A e \in Drafts \ {d} : drafts'[e] = drafts[e]
      /\ drafts'[d] = [drafts[d] EXCEPT !.status = "accepted"]
  BY <1>1, <1>3 DEF DraftsTyped
<1>6. /\ drafts'[d] \in DraftRecord /\ drafts'[d].status = "accepted"
      /\ drafts'[d].base = drafts[d].base /\ drafts'[d].body = drafts[d].body
      /\ drafts'[d].kind = drafts[d].kind /\ drafts'[d].version = drafts[d].version
  BY <1>4, <1>5 DEF DraftRecord
<1>7. DraftTyped(d)'
  BY <1>4, <1>6 DEF DraftTyped, Kept
<1>8. DraftsTyped' /\ MarksJudged'
  BY <1>2, <1>3, <1>5, <1>6, <1>7, DraftStays DEF DraftsTyped, MarksJudged
<1>9. AcceptedIsLive'
  <2>1. ASSUME NEW e \in Drafts \ {d}, drafts'[e].status = "accepted"
        PROVE  /\ drafts'[e] = drafts[e] /\ drafts[e].base \in Nat
               /\ drafts[e].base + 1 <= Version
               /\ flow'.history[drafts[e].base + 1] = drafts[e].body
               /\ drafts[e].base # drafts[d].base
    <3>1. drafts[e].status = "accepted" /\ drafts'[e] = drafts[e] /\ drafts[e].base \in Nat
      BY <1>3, <1>5, <2>1, KeptRecord DEF Kept
    <3>2. drafts[e].base + 1 \in 1 .. Version /\ flow.history[drafts[e].base + 1] = drafts[e].body
      BY <1>3, <1>4, <3>1 DEF AcceptedIsLive
    <3> QED BY <1>2, <1>4, <3>1, <3>2 DEF Grows
  <2>2. ASSUME NEW a \in Drafts, drafts'[a].status = "accepted"
        PROVE  /\ drafts'[a].base + 1 <= Version'
               /\ flow'.history[drafts'[a].base + 1] = drafts'[a].body
               /\ \A e \in Drafts \ {a} :
                    drafts'[e].status = "accepted" => drafts'[e].base # drafts'[a].base
    <3>1. CASE a = d
      BY <1>2, <1>4, <1>6, <2>1, <3>1
    <3>2. CASE a # d
      <4>1. \A e \in Drafts \ {a, d} :
              drafts'[e].status = "accepted" => drafts'[e].base # drafts'[a].base
        BY <1>3, <1>5, <2>2, <3>2 DEF AcceptedIsLive
      <4> QED BY <1>2, <1>4, <1>6, <2>1, <2>2, <3>2, <4>1
    <3> QED BY <3>1, <3>2
  <2> QED BY <2>2 DEF AcceptedIsLive
<1>10. RequestsMatch'
  <2>1. Evolves(d)
    BY <1>6 DEF Evolves, Alive
  <2>2. \A e \in Drafts : Evolves(e)
    BY <1>5, <2>1, UnchangedEvolves
  <2>3. ASSUME NEW x, RequestOK(x) PROVE RequestOK(x)'
    BY <1>2, <1>3, <2>2, <2>3, RequestsEvolve DEF RequestOK
  <2> QED BY <1>1, <1>3, <2>3 DEF RequestsMatch, Idle
<1>11. PlanHolds'
  <2>1. ASSUME NEW q \in Requests PROVE request'[q].op # "planned"
    BY <1>1, <1>3, <2>1 DEF IInv, PlanHolds, RequestsMatch, Idle
  <2> QED BY <2>1 DEF PlanHolds
<1> QED
  BY <1>2, <1>8, <1>9, <1>10, <1>11 DEF IInv, DraftInv

-----------------------------------------------------------------------------
LEMMA InitIInv == Init => IInv
BY InitCore, InitDrafts DEF IInv

LEMMA StepIInv == IInv /\ [Next]_vars => IInv'
<1> SUFFICES ASSUME IInv, [Next]_vars PROVE IInv'
  OBVIOUS
<1>1. CASE Lifecycle
  <2>1. CoreInv' /\ Grows /\ drafts' = drafts /\ request' = request /\ QueueFree
    BY <1>1, LifecycleStep DEF IInv
  <2> QED BY <2>1, UntouchedDrafts, NoPlanHolds DEF IInv, QueueFree
<1>2. CASE \E d \in Drafts : Create(d)
  BY <1>2, CreateStep
<1>3. ASSUME NEW r \in Requests, Draft(r) PROVE IInv'
  <2>1. ASSUME NEW d \in Drafts, BeginSimple(r, d, "submit", {"ready"}) PROVE IInv'
    BY <2>1, BeginSimpleStep DEF Open
  <2>2. ASSUME NEW d \in Drafts, BeginSimple(r, d, "abandon", Open) PROVE IInv'
    BY <2>2, BeginSimpleStep
  <2>3. ASSUME NEW d \in Drafts, BeginSimple(r, d, "reject", {"pending-approval"}) PROVE IInv'
    BY <2>3, BeginSimpleStep
  <2>4. CASE Turns(r)
    BY <2>4, RefuseStep, PlanStep, AssessStep DEF Turns
  <2> QED
    BY <1>3, <2>1, <2>2, <2>3, <2>4, LandStep, CommitStep, BeginReviseStep, BeginValidateStep,
       BeginApproveStep DEF Draft
<1>4. CASE Restart
  BY <1>4, RestartStep
<1>5. CASE UNCHANGED vars
  <2>1. CoreInv' /\ Grows /\ drafts' = drafts /\ request' = request
    BY <1>5, SameCore DEF IInv, vars, core
  <2>2. PlanHolds'
    BY <1>5, <2>1, SameAcceptable DEF IInv, vars, core, PlanHolds
  <2> QED BY <2>1, <2>2, UntouchedDrafts DEF IInv
<1> QED
  BY <1>1, <1>2, <1>3, <1>4, <1>5 DEF Next

(* The inductive invariant holds in every reachable state.                  *)
THEOREM Invariance == Spec => []IInv
BY InitIInv, StepIInv, PTL DEF Spec

(* Every table, draft and request keeps its range: no fold is out of order. *)
THEOREM TypeCorrect == Spec => []TypeOK
<1>1. IInv => TypeOK
  <2> SUFFICES ASSUME IInv PROVE TypeOK
    OBVIOUS
  <2>1. Exists =>
         /\ flow.node \in Nodes /\ flow.status \in Nodes
         /\ flow.history \in Seq(Bodies) /\ Version \in 1 .. MaxVersion
         /\ flow.work \in Bodies /\ flow.bornBy \in 0 .. Version /\ flow.app \in Apps
    BY TableRecord DEF IInv, CoreInv, CoreTyped, FlowRecord
  <2>2. \A a \in pending : a.version \in 2 .. MaxVersion /\ a.body \in Bodies \ {Broken}
    <3> SUFFICES ASSUME NEW a \in pending
                 PROVE  a.version \in 2 .. MaxVersion /\ a.body \in Bodies \ {Broken}
      OBVIOUS
    <3>1. /\ Exists /\ flow.node = "pending-approval"
          /\ a = [version |-> Version + 1, body |-> flow.work]
      BY DEF IInv, CoreInv, PendingMatchesNode
    <3>2. a.version = Version + 1 /\ a.body = flow.work
      BY <3>1
    <3> QED BY <2>1, <3>1, <3>2, BoundsAssumption DEF IInv, CoreInv, CoreTyped
  <2>3. \A d \in Drafts : drafts[d] # NoDraft =>
         /\ drafts[d].status \in Open \cup Ended \cup {"pending-approval"}
         /\ drafts[d].status \notin {"abandoned", "rejected"} =>
              /\ drafts[d].version \in 1 .. MaxRevisions
              /\ drafts[d].base \in 0 .. MaxVersion \cup Bases
    <3> SUFFICES ASSUME NEW d \in Drafts, drafts[d] # NoDraft
                 PROVE  /\ drafts[d].status \in Open \cup Ended \cup {"pending-approval"}
                        /\ drafts[d].status \notin {"abandoned", "rejected"} =>
                             /\ drafts[d].version \in 1 .. MaxRevisions
                             /\ drafts[d].base \in 0 .. MaxVersion \cup Bases
      OBVIOUS
    <3>1. DraftTyped(d)
      BY DEF IInv, DraftInv, DraftsTyped
    <3>2. CASE Kept(d)
      BY <3>1, <3>2 DEF DraftTyped, DraftRecord, Ended, TargetBases
    <3>3. CASE ~Kept(d)
      <4>1. drafts[d].status \in {"abandoned", "rejected"}
        BY <3>1, <3>3 DEF DraftTyped
      <4> QED BY <4>1 DEF Ended
    <3> QED BY <3>2, <3>3
  <2>4. live \in SUBSET Apps /\ burned \in SUBSET {App} /\ wedged \in BOOLEAN
    BY DEF IInv, CoreInv, CoreTyped
  <2> QED BY <2>1, <2>2, <2>3, <2>4 DEF TypeOK
<1> QED
  BY <1>1, Invariance, PTL

(* The lifecycle awaits a decision exactly when its node says so, on the     *)
(* text submitted: an accepted draft never overtakes it.                    *)
THEOREM PendingMatches == Spec => []PendingMatchesNode
<1>1. IInv => PendingMatchesNode
  BY DEF IInv, CoreInv
<1> QED
  BY <1>1, Invariance, PTL

(* A stale mark speaks of the base its draft has, although it is written     *)
(* from a snapshot or under a lock that was given up before: the version it  *)
(* names tells.  And since versions only rise, the draft is out of date      *)
(* still, unless it was written for a version to come.                      *)
THEOREM StaleMarksJudge == Spec => []StaleAsJudged
<1>1. IInv => StaleAsJudged
  <2> SUFFICES ASSUME IInv, NEW d \in Drafts, drafts[d].status = "stale"
               PROVE  /\ drafts[d].kind = "flow" =>
                           /\ drafts[d].why.base = drafts[d].base
                           /\ drafts[d].why.version # drafts[d].base
                      /\ \/ OutOfDate(drafts[d])
                         \/ drafts[d].kind = "flow" /\ drafts[d].why.version < drafts[d].base
    BY DEF StaleAsJudged
  <2>1. /\ drafts[d].kind \in {"flow", "bundle"} /\ drafts[d].base \in Nat /\ Version \in Nat
        /\ Judged(drafts[d], drafts[d].why)
    BY KeptRecord, VersionIsNatural DEF IInv, DraftInv, MarksJudged, Kept
  <2> QED BY <2>1 DEF Judged, Reason, OutOfDate
<1> QED
  BY <1>1, Invariance, PTL

(* Every candidate that is appended folds: what the plan tried in its turn   *)
(* is what the log holds when the transaction commits.  The log stays        *)
(* readable.                                                                *)
THEOREM AcceptedFolds == Spec => []LogApplies
<1>1. IInv => LogApplies
  BY DEF IInv, CoreInv, CoreTyped, LogApplies
<1> QED
  BY <1>1, Invariance, PTL

(* An accepted draft is the version after its base, and alone there.        *)
THEOREM AcceptedInHistory == Spec => []AcceptedIsLive
<1>1. IInv => AcceptedIsLive
  BY DEF IInv, DraftInv
<1> QED
  BY <1>1, Invariance, PTL

-----------------------------------------------------------------------------
(* A step that adds a version discards no edit: a draft is accepted only     *)
(* over a working copy nobody edited, an activation only as it was          *)
(* submitted.                                                               *)
THEOREM NoEditLost == Spec => EditsKept
<1> DEFINE Keeps == Exists /\ flow' # flow /\ Len(flow'.history) > Version =>
                      flow.work \in {flow.history[Version], flow'.work}
<1>1. IInv /\ [Next]_vars => [Keeps]_vars
  <2> SUFFICES ASSUME IInv, Next, Exists, flow' # flow, Len(flow'.history) > Version
               PROVE  flow.work \in {flow.history[Version], flow'.work}
    OBVIOUS
  <2>0. CoreInv /\ flow \in FlowRecord /\ Version = Len(flow.history) /\ Version \in Nat
    BY TableRecord, VersionIsNatural DEF IInv
  <2>1. ASSUME NEW a \in pending, Approve(a) PROVE flow'.work = flow.work
    <3>1. a = [version |-> Version + 1, body |-> flow.work]
      BY <2>0, <2>1 DEF Approve, Decide, CoreInv, PendingMatchesNode
    <3>2. a.body = flow.work
      BY <3>1
    <3> QED BY <2>0, <2>1, <3>2 DEF Approve, FlowRecord
  <2>2. ASSUME NEW r \in Requests, Land(r) PROVE flow.work = flow.history[Version]
    BY <2>2, LandParts, AcceptableBase
  <2>3. ASSUME \/ Edit \/ Revise \/ Submit \/ Deprecate \/ DeprecateApplication
               \/ \E a \in pending : Reject(a)
        PROVE  flow'.history = flow.history
    BY <2>0, <2>3 DEF Edit, Revise, Submit, Deprecate, DeprecateApplication, Cascade, Reject, FlowRecord
  <2>4. ~(\E d \in Drafts : Create(d)) /\ ~Restart
    BY DEF Create, Restart, core
  <2>5. ASSUME NEW r \in Requests, Draft(r) PROVE Land(r)
    BY <2>5 DEF Draft, BeginRevise, BeginValidate, BeginSimple, BeginApprove, Begin, Turns,
               Refuse, Plan, Assess, Commit, core
  <2> QED BY <2>0, <2>1, <2>2, <2>3, <2>4, <2>5 DEF Next, Lifecycle
<1>2. Spec => [][Keeps]_vars
  BY <1>1, Invariance, PTL DEF Spec
<1> QED
  BY <1>2 DEF EditsKept

(* What is accepted is the text and the base that the approval read when it  *)
(* arrived, however long its turn took.                                     *)
THEOREM AcceptedAsRead == Spec => ApprovedAsRead
<1> DEFINE AsRead == \A d \in Drafts :
         drafts'[d].status = "accepted" /\ drafts[d].status # "accepted" =>
           \E r \in Requests :
             /\ request[r].op = "planned" /\ request[r].draft = d
             /\ request[r].read = <<drafts'[d].body, drafts'[d].base>>
<1>1. IInv /\ [Next]_vars => [AsRead]_vars
  <2> SUFFICES ASSUME IInv, Next, NEW d \in Drafts, drafts'[d].status = "accepted",
                      drafts[d].status # "accepted"
               PROVE  \E r \in Requests :
                        /\ request[r].op = "planned" /\ request[r].draft = d
                        /\ request[r].read = <<drafts'[d].body, drafts'[d].base>>
    OBVIOUS
  <2>1. ASSUME NEW r \in Requests, Land(r)
        PROVE  /\ request[r].op = "planned" /\ request[r].draft = d
               /\ request[r].read = <<drafts'[d].body, drafts'[d].base>>
    <3>1. PICK e \in Drafts : /\ e = request[r].draft /\ Acceptable(e) /\ RequestOK(request[r])
                              /\ request[r].version = drafts[e].version
                              /\ request[r].op = "planned"
                              /\ drafts' = [drafts EXCEPT ![e] = [@ EXCEPT !.status = "accepted"]]
      BY <2>1, LandParts
    <3>2. e = d /\ drafts'[d] = [drafts[d] EXCEPT !.status = "accepted"]
      BY <3>1 DEF IInv, DraftInv, DraftsTyped
    <3>3. drafts[d] \in DraftRecord /\ Alive(d)
      BY <3>1, <3>2, ReadsKept DEF Acceptable
    <3>4. drafts'[d].body = drafts[d].body /\ drafts'[d].base = drafts[d].base
      BY <3>2, <3>3 DEF DraftRecord
    <3>5. Matches(request[r])
      BY <3>1, <3>2, <3>3 DEF RequestOK
    <3> QED BY <3>1, <3>2, <3>4, <3>5 DEF Matches
  <2>2. \E r \in Requests : Land(r)
    <3>1. ASSUME NEW r \in Requests, Commit(r) PROVE FALSE
      <4>1. PICK c : c = request[r]
        OBVIOUS
      <4>2. /\ RequestOK(c) /\ UNCHANGED <<core, wedged>>
            /\ c.op \in {"revise", "validate", "submit", "stale", "abandon", "reject"}
        BY <3>1, <4>1 DEF Commit, IInv, DraftInv, RequestsMatch
      <4>3. /\ drafts' = [drafts EXCEPT ![c.draft] = Applied(@, c)]
            /\ Admits(drafts[c.draft], c)
        BY <3>1, <4>1 DEF Commit
      <4>4. drafts'[c.draft].status # "accepted"
        BY <4>2, <4>3, CommandApplied
      <4> QED BY <4>2, <4>3, <4>4 DEF IInv, DraftInv, DraftsTyped
    <3>2. ASSUME NEW e \in Drafts, Create(e) PROVE FALSE
      <4>1. PICK x : drafts' = [drafts EXCEPT ![e] = x] /\ x.status \in {"ready", "invalid"}
        BY <3>2, CreatedDraft
      <4> QED BY <4>1 DEF IInv, DraftInv, DraftsTyped
    <3>3. ~Lifecycle
      BY LifecycleStep DEF IInv
    <3> QED
      BY <3>1, <3>2, <3>3 DEF Next, Restart, Draft, BeginRevise, BeginValidate, BeginSimple,
         BeginApprove, Begin, Turns, Refuse, Plan, Assess
  <2> QED BY <2>1, <2>2
<1>2. Spec => [][AsRead]_vars
  BY <1>1, Invariance, PTL DEF Spec
<1> QED
  BY <1>2 DEF ApprovedAsRead

=============================================================================
