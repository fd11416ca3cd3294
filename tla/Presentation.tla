---------------------------- MODULE Presentation ----------------------------
(***************************************************************************)
(* One user sidecar: the surface remembered for one principal, subject,    *)
(* intent and device.                                                      *)
(*                                                                         *)
(* Requests to present the subject reuse the active version while its      *)
(* dependencies still match the situation they read; otherwise they mark   *)
(* it stale and plan another.  Meanwhile people pin, revert and patch it   *)
(* from windows that show the version that was active when they loaded it. *)
(* What a window shows does not travel with its order: the route reads the *)
(* aggregate anew, and that version is the base of the command.  Every     *)
(* command is decided under a lock against the replay of the presentation  *)
(* events; what it was built from was read before, outside the lock.       *)
(*                                                                         *)
(* The fingerprints of all dependencies are one value, the situation: it   *)
(* depends on the contracts and on the grants of the caller, and differs   *)
(* from request to request.  A surface is the last author of its paths.    *)
(***************************************************************************)
EXTENDS Naturals, Sequences, FiniteSets

CONSTANTS
    Requests,     \* request identities
    People,       \* human commands, one each
    Paths,        \* parts of a surface that can be patched
    Situations,   \* what the dependencies of the subject are to a caller
    Nil,          \* no author, no situation
    MaxActivity   \* bound on requests under way or answered, windows and, twice,
                  \* restarts and failed transactions

ASSUME NilAssumption == Nil \notin People \cup Situations
ASSUME IdentityAssumption == Requests \cap People = {}

VARIABLES
    events,    \* the events user-sidecar-* of the log
    sidecar,   \* the projection row of the aggregate
    stage,     \* where each request is in the broker
    situation, \* what the authorization of a request read
    base,      \* the version that was active when a request, or the route for a
               \* person, last read; then the version a written request will name
    recipe,    \* the request found a promoted recipe instead of planning
    receipt,   \* the terminal receipt in the memory of the broker
    order,     \* the window of each person and what it orders
    faults

broker == <<stage, situation, recipe, receipt>>
vars == <<events, sidecar, broker, base, order, faults>>

NoSidecar == [versions |-> <<>>, active |-> 0, stale |-> FALSE]
Unchosen == [op |-> "unchosen"]

\* A failure takes the place of two participants: the bound only.
Activity ==
    2 * faults + Cardinality({r \in Requests : stage[r] # "new"})
               + Cardinality({h \in People : order[h] # Unchosen})

Planned(w) == [seen |-> w, edits |-> [p \in Paths |-> Nil]]

Current(s) == s.versions[s.active]
Found(s)   == s.active > 0 /\ ~s.stale
Pinned(s)  == s.active > 0 /\ Current(s).pinned

-----------------------------------------------------------------------------
(* The fold.                                                               *)

\* Mutation: the first version after the base is forgotten.
TouchedLater(s, b) == UNION {s.versions[v].paths : v \in (b + 2)..Len(s.versions)}
Touched(s, b) == UNION {s.versions[v].paths : v \in (b + 1)..Len(s.versions)}

\* Mutation: a mark or pin lands on whatever is active now.
MovedOrNot(s, e) == s.active > 0
Unmoved(s, e) == s.active > 0 /\ e.base = s.active

\* The conditions under which foldOne takes an event, by kind.
Takes(s, e) ==
    \/ e.kind = "instantiated" /\ s.active = 0
    \/ /\ e.kind = "revised"
       /\ e.base \in 1..s.active
       /\ e.base = s.active \/ e.paths \cap Touched(s, e.base) = {}
    \/ e.kind \in {"pinned", "staled"} /\ Unmoved(s, e)
    \/ e.kind = "reverted" /\ Unmoved(s, e) /\ e.target \in DOMAIN s.versions

\* Mutation: retention comes from the version the author read.
RetainedOfBase(s, e) == e.kind = "revised" /\ s.versions[e.base].pinned
\* Retention is inherited from the version active now, not from the base.
Retained(s, e) == Pinned(s)

NewVersion(s, e) ==
    [s EXCEPT !.versions = Append(@, [content |-> e.content, paths |-> e.paths,
                                      pinned |-> Retained(s, e)]),
              !.active = Len(s.versions) + 1,
              !.stale = FALSE]

Fold(s, e) ==
    CASE e.kind \in {"instantiated", "revised"} -> NewVersion(s, e)
      [] e.kind = "pinned" ->
           [s EXCEPT !.versions = Append(@, [Current(s) EXCEPT !.pinned = TRUE, !.paths = {"$retention"}]),
                     !.active = Len(s.versions) + 1]
      [] e.kind = "staled" -> [s EXCEPT !.stale = TRUE]
      [] e.kind = "reverted" -> [s EXCEPT !.active = e.target, !.stale = FALSE]

\* The replay of the whole log skips the repetition of a command and throws
\* on an event that it does not take.
Steps(log, n, s) ==
    LET repeated == \E i \in 1..(n - 1) : log[i].command = log[n].command
    IN  IF ~s.ok \/ repeated THEN s
        ELSE IF Takes(s.row, log[n]) THEN [ok |-> TRUE, row |-> Fold(s.row, log[n])]
        ELSE [ok |-> FALSE, row |-> s.row]

Prefixes(log) ==
    LET after[n \in 0..Len(log)] ==
          IF n = 0 THEN [ok |-> TRUE, row |-> NoSidecar] ELSE Steps(log, n, after[n - 1])
    IN  after

Replay(log) == Prefixes(log)[Len(log)]

-----------------------------------------------------------------------------
(* appendSidecarCommand: one transaction under the lock of the sidecar.    *)

\* What a command of x is decided on: the replay of the log under the lock,
\* which is the row (RowIsReplay).
Decided(x) == sidecar

Processed(e) == \E i \in DOMAIN events : events[i].command = e.command
Existing(x, e) == Processed(e) \/ (e.kind = "instantiated" /\ Decided(x).active > 0)

Appended(x, e) ==
    /\ ~Existing(x, e) /\ Takes(Decided(x), e)
    /\ events' = Append(events, e)
    /\ sidecar' = Fold(Decided(x), e)
Deduplicated(x, e) == Existing(x, e) /\ UNCHANGED <<events, sidecar>>
Refused(x, e) == ~Existing(x, e) /\ ~Takes(Decided(x), e) /\ UNCHANGED <<events, sidecar>>

\* Mutation: the event is appended and the row is not updated.
LandedWithoutRow(x, e) ==
    ~Existing(x, e) /\ Takes(Decided(x), e) /\ events' = Append(events, e) /\ UNCHANGED sidecar
Landed(x, e) == Appended(x, e)

\* The transaction fails: rolled back, or committed with the answer lost.
Fails(x, e) ==
    /\ Activity + 2 <= MaxActivity /\ faults' = faults + 1
    /\ Landed(x, e) \/ UNCHANGED <<events, sidecar>>

-----------------------------------------------------------------------------
(* Requests: runPresentationBroker over the web adapter.                   *)

None == [status |-> "none", version |-> 0]
\* Mutation: a receipt that is ready forgets its version.
OutcomeWithoutSidecar(s, v) == [status |-> s, version |-> 0]
Outcome(s, v) == [status |-> s, version |-> v]

Reach(r, s) == stage' = [stage EXCEPT ![r] = s]
\* What the handler had read goes with it.
Complete(r, s, v) ==
    /\ Reach(r, "answered")
    /\ receipt' = [receipt EXCEPT ![r] = Outcome(s, v)]
    /\ situation' = [situation EXCEPT ![r] = Nil]
    /\ base' = [base EXCEPT ![r] = 0]
    /\ recipe' = [recipe EXCEPT ![r] = FALSE]

\* A second presentation of a claimed request is answered from memory.
Claim(r) ==
    /\ stage[r] = "new" /\ Activity < MaxActivity /\ Reach(r, "authorizing")
    /\ UNCHANGED <<events, sidecar, situation, base, recipe, receipt, order, faults>>

Authorize(r, s) ==
    /\ stage[r] = "authorizing" /\ Reach(r, "resolving")
    /\ situation' = [situation EXCEPT ![r] = s]
    /\ UNCHANGED <<events, sidecar, base, recipe, receipt, order, faults>>

\* Access is denied, or a read of the authorization or resolution throws.
Deny(r) ==
    /\ stage[r] \in {"authorizing", "resolving"} /\ Complete(r, "failed", 0)
    /\ UNCHANGED <<events, sidecar, order, faults>>

\* dependencyDecision(...).valid: nothing needs planning again.
Valid(r) == Current(sidecar).content.seen = situation[r]

Reuse(r) ==
    /\ stage[r] = "resolving" /\ Found(sidecar) /\ Valid(r)
    /\ Complete(r, "ready", sidecar.active)
    /\ UNCHANGED <<events, sidecar, order, faults>>

\* The dependencies changed, or the surface misses a responsibility of the
\* situation: the reason names the command.
Distrust(r) ==
    /\ stage[r] = "resolving" /\ Found(sidecar)
    /\ Reach(r, IF Valid(r) THEN "surface-invalid" ELSE "stale")
    /\ base' = [base EXCEPT ![r] = sidecar.active]
    /\ UNCHANGED <<events, sidecar, situation, recipe, receipt, order, faults>>

\* No active version: a promoted recipe may fit, else the planner is next.
Miss(r, fits) ==
    /\ stage[r] = "resolving" /\ ~Found(sidecar)
    /\ recipe' = [recipe EXCEPT ![r] = fits]
    /\ Reach(r, "planning")
    /\ UNCHANGED <<events, sidecar, situation, base, receipt, order, faults>>

StaleCommand(r) == [kind |-> "staled", command |-> <<r, stage[r]>>, base |-> base[r]]

\* Mutation: a refused mark is not caught, and nobody answers.
SwallowedNot(r, e) == FALSE
\* A refusal or a failure is swallowed: planning goes on.
Swallowed(r, e) == Refused(r, e) /\ UNCHANGED faults

MarkStale(r) ==
    /\ stage[r] \in {"stale", "surface-invalid"}
    /\ LET e == StaleCommand(r) IN
         \/ Appended(r, e) /\ UNCHANGED faults
         \/ Deduplicated(r, e) /\ UNCHANGED faults
         \/ Swallowed(r, e)
         \/ Fails(r, e)
    /\ Reach(r, "planning")
    /\ UNCHANGED <<situation, base, recipe, receipt, order>>

\* An error on the way of the recipe is one of resolution, else of
\* planning, which falls back on the generic page.
Gives(r) == IF recipe[r] THEN "failed" ELSE "fallback"

\* The first half of persistSurface, outside the lock.
Load(r) ==
    /\ stage[r] = "planning" /\ Reach(r, "writing")
    /\ base' = [base EXCEPT ![r] = sidecar.active]
    /\ UNCHANGED <<events, sidecar, situation, recipe, receipt, order, faults>>

PlanFails(r) ==
    /\ stage[r] = "planning" /\ Complete(r, Gives(r), 0)
    /\ UNCHANGED <<events, sidecar, order, faults>>

SurfaceCommand(r) ==
    IF base[r] = 0
    THEN [kind |-> "instantiated", command |-> <<r, "instantiate">>,
          paths |-> {}, content |-> Planned(situation[r])]
    ELSE [kind |-> "revised", command |-> <<r, "repair">>, base |-> base[r],
          paths |-> {}, content |-> Planned(situation[r])]

\* The version to answer is the one active when the transaction ended.
\* Mutation: the version is guessed from the one that was read.
VersionFromRead(r) == base[r] + 1
VersionGiven(r) == sidecar'.active

\* A command that was processed before changes nothing and succeeds.
Persist(r) ==
    /\ stage[r] = "writing"
    /\ LET e == SurfaceCommand(r) IN
         \/ Appended(r, e) /\ Reach(r, "written") /\ UNCHANGED faults
         \/ Deduplicated(r, e) /\ Reach(r, "repeated") /\ UNCHANGED faults
    /\ base' = [base EXCEPT ![r] = VersionGiven(r)]
    /\ UNCHANGED <<situation, recipe, receipt, order>>

PersistFails(r) ==
    /\ stage[r] = "writing"
    /\ LET e == SurfaceCommand(r) IN
         \/ Refused(r, e) /\ UNCHANGED faults
         \/ Fails(r, e)
    /\ Complete(r, Gives(r), 0)
    /\ UNCHANGED order

\* commitTerminal, after the transaction: a restart may come before it.
AnswerReady(r) ==
    /\ stage[r] \in {"written", "repeated"} /\ Complete(r, "ready", base[r])
    /\ UNCHANGED <<events, sidecar, order, faults>>

-----------------------------------------------------------------------------
(* People: the POST handler of the sidecar route.                          *)

Over == [op |-> "over"]
Window(v) == [op |-> "looking", shown |-> v]
Orders(w) == {[op |-> "pin"]}
    \cup {[op |-> "revert", target |-> v] : v \in DOMAIN sidecar.versions}
    \cup {[op |-> "patch", shown |-> w.shown, path |-> p] : p \in Paths}

\* The GET of a window; a window that reloads looks later.
Look(h) ==
    /\ order[h] = Unchosen /\ Found(sidecar) /\ Activity < MaxActivity
    /\ order' = [order EXCEPT ![h] = Window(sidecar.active)]
    /\ UNCHANGED <<events, sidecar, broker, base, faults>>

\* The order arrives, without a version: the aggregate is read, whatever the
\* window shows; authorization and coverage are awaited next.
Open(h) ==
    /\ order[h].op = "looking" /\ Found(sidecar)
    /\ \E o \in Orders(order[h]) : order' = [order EXCEPT ![h] = o]
    /\ base' = [base EXCEPT ![h] = sidecar.active]
    /\ UNCHANGED <<events, sidecar, broker, faults>>

Close(h) ==
    /\ order[h] \notin {Unchosen, Over}
    /\ order' = [order EXCEPT ![h] = Over]
    /\ base' = [base EXCEPT ![h] = 0]

\* The window is closed, or the route finds nothing or denies.
GiveUp(h) == Close(h) /\ UNCHANGED <<events, sidecar, broker, faults>>

\* A patch carries the whole surface its author read, with one path changed.
HumanCommand(h) ==
    LET o == order[h] IN
    CASE o.op = "pin"    -> [kind |-> "pinned", command |-> h, base |-> base[h]]
         [] o.op = "revert" -> [kind |-> "reverted", command |-> h, base |-> base[h], target |-> o.target]
         [] o.op = "patch"  -> [kind |-> "revised", command |-> h, base |-> base[h], paths |-> {o.path},
                                content |-> [sidecar.versions[base[h]].content EXCEPT !.edits[o.path] = h]]

Send(h) ==
    /\ base[h] # 0 /\ Close(h)
    /\ LET e == HumanCommand(h) IN
         \/ (Appended(h, e) \/ Refused(h, e)) /\ UNCHANGED faults
         \/ Fails(h, e)
    /\ UNCHANGED broker

-----------------------------------------------------------------------------
\* Claims and receipts are in memory: any request may be presented again.
\* Windows outlive the process, the orders it was working on do not.
Restart ==
    /\ Activity + 2 <= MaxActivity /\ faults' = faults + 1
    /\ stage' = [r \in Requests |-> "new"]
    /\ situation' = [r \in Requests |-> Nil]
    /\ recipe' = [r \in Requests |-> FALSE]
    /\ receipt' = [r \in Requests |-> None]
    /\ base' = [x \in Requests \cup People |-> 0]
    /\ order' = [h \in People |-> IF base[h] = 0 THEN order[h] ELSE Over]
    /\ UNCHANGED <<events, sidecar>>

Init ==
    /\ events = <<>> /\ sidecar = NoSidecar
    /\ stage = [r \in Requests |-> "new"]
    /\ situation = [r \in Requests |-> Nil]
    /\ base = [x \in Requests \cup People |-> 0]
    /\ recipe = [r \in Requests |-> FALSE]
    /\ receipt = [r \in Requests |-> None]
    /\ order = [h \in People |-> Unchosen]
    /\ faults = 0

Work(r) ==
    \/ \E s \in Situations : Authorize(r, s)
    \/ Deny(r) \/ Reuse(r) \/ Distrust(r) \/ MarkStale(r)
    \/ \E fits \in BOOLEAN : Miss(r, fits)
    \/ Load(r) \/ PlanFails(r) \/ Persist(r) \/ PersistFails(r) \/ AnswerReady(r)

Next ==
    \/ \E r \in Requests : Claim(r) \/ Work(r)
    \/ \E h \in People : Look(h) \/ Open(h) \/ GiveUp(h) \/ Send(h)
    \/ Restart

\* The event loop of a live process runs every continuation.
Spec == Init /\ [][Next]_vars /\ \A r \in Requests : WF_vars(Work(r))

-----------------------------------------------------------------------------
Contents == [seen : Situations, edits : [Paths -> People \cup {Nil}]]
Sidecars(s) ==
    /\ s.active \in 0..Len(s.versions) /\ (s.active = 0) = (s.versions = <<>>)
    /\ s.stale => s.active > 0
    /\ \A v \in DOMAIN s.versions :
         /\ s.versions[v].content \in Contents
         /\ s.versions[v].pinned \in BOOLEAN
         /\ s.versions[v].paths \subseteq Paths \cup {"$retention"}

\* Types, and: a receipt that is ready names an existing version, any other
\* names none (PresentationReceipt).
TypeOK ==
    /\ Sidecars(sidecar) /\ base \in [Requests \cup People -> 0..Len(sidecar.versions)]
    /\ situation \in [Requests -> Situations \cup {Nil}]
    /\ recipe \in [Requests -> BOOLEAN]
    /\ stage \in [Requests -> {"new", "authorizing", "resolving", "stale", "surface-invalid",
                               "planning", "writing", "written", "repeated", "answered"}]
    /\ \A r \in Requests :
         /\ (receipt[r] = None) = (stage[r] # "answered")
         /\ receipt[r].status \in {"none", "ready", "fallback", "failed"}
         /\ IF receipt[r].status = "ready"
            THEN receipt[r].version \in DOMAIN sidecar.versions ELSE receipt[r].version = 0

\* The presentation events always replay, and to the row that is served,
\* however often a request is presented again after a restart or a lost
\* answer (appendSidecarCommand, rebuildPresentationProjection).  One event
\* that does not replay would stop every later command, of every user.
RowIsReplay == Replay(events) = [ok |-> TRUE, row |-> sidecar]

\* A sidecar somebody pinned stays pinned through every later version, the
\* ones planned or patched from a version read before the pin included
\* (retention in foldOne); only a revert to an older version unpins it.
PinKept ==
    [][Pinned(sidecar) /\ Len(sidecar'.versions) > Len(sidecar.versions) => Pinned(sidecar')]_vars

\* A stale mark only lands on the version its author examined, never on one
\* that replaced it in between (activeVersion of user-sidecar-staled).
StaleIsJudged ==
    [][~sidecar.stale /\ sidecar'.stale =>
        \E r \in Requests :
            /\ stage[r] \in {"stale", "surface-invalid"}
            /\ base[r] = sidecar.active
            /\ stage[r] = "stale" => Current(sidecar).content.seen # situation[r]]_vars

\* An edit in force that a patch overwrites is in the version the route read
\* for it, or in one before: nothing that lands between that read and the
\* append is overwritten, however many versions it takes (interveningPaths).
Overwrites(h, p) ==
    /\ order[h].op = "patch" /\ order[h].path = p /\ order'[h] # order[h]
    /\ Len(sidecar'.versions) > Len(sidecar.versions)
    /\ Current(sidecar).content.edits[p] # Nil

InVersions(vs, p) ==
    \E v \in vs : sidecar.versions[v].content.edits[p] = Current(sidecar).content.edits[p]

OverwrittenAsRead ==
    [][\A h \in People, p \in Paths : Overwrites(h, p) => InVersions(1..base[h], p)]_vars

\* The same of the version the window shows: "baseVersion optimistic
\* concurrency prevents silent overwrite" (TS16 of the track
\* t16-semantic-a2ui-sidecars).  The base is not the window's (Open).
OverwrittenAsShown ==
    [][\A h \in People, p \in Paths :
        Overwrites(h, p) => InVersions(1..order[h].shown, p)]_vars

\* A ready answer names a version that fits the situation this request was
\* authorized for, whatever others wrote while it planned, wrote and
\* answered; the exception is the answer of a request that lost the race to
\* the first version, or runs again after a restart that came after its
\* event: it gets the version that is active.
AnswerFits ==
    [][\A r \in Requests :
        (receipt[r] = None /\ receipt'[r].status = "ready" /\ stage[r] # "repeated")
        => sidecar.versions[receipt'[r].version].content.seen = situation[r]]_vars

\* Every claimed request is answered, or forgotten by a restart: no failure
\* of a stage, and no lost race for a mark, leaves one without a receipt
\* ("no Presentation error is allowed to reject", runPresentationBroker).
AnsweredOrForgotten ==
    \A r \in Requests : stage[r] # "new" ~> stage[r] \in {"new", "answered"}
=============================================================================
