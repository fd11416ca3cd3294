------------------------ MODULE PresentationProofs --------------------------
(***************************************************************************)
(* Proofs about Presentation, for every number of requests, people, paths  *)
(* and faults: the row is the replay of the events, and what is decided    *)
(* under the lock still holds of what was read before it.                  *)
(***************************************************************************)
EXTENDS Presentation, NaturalsLemmas, SequenceTheorems

VersionRecord == [content : Contents, paths : SUBSET (Paths \cup {"$retention"}), pinned : BOOLEAN]
SidecarRecord == [versions : Seq(VersionRecord), active : Nat, stale : BOOLEAN]

SidecarOK(s) ==
    /\ s \in SidecarRecord
    /\ s.active <= Len(s.versions) /\ (s.active = 0) = (s.versions = <<>>)
    /\ s.stale => s.active > 0

(* Every edit in force at a path was written there, or taken over from an    *)
(* earlier version.                                                         *)
EditAt(s, v, p) == s.versions[v].content.edits[p]

Provenance(s) ==
    \A v \in DOMAIN s.versions, p \in Paths :
        EditAt(s, v, p) # Nil /\ p \notin s.versions[v].paths =>
            \E u \in 1..(v - 1) : EditAt(s, u, p) = EditAt(s, v, p)

LogTyped ==
    /\ events \in Seq({events[i] : i \in DOMAIN events})
    /\ events # <<>> => sidecar.active > 0
    /\ RowIsReplay

RowInv == SidecarOK(sidecar) /\ Provenance(sidecar) /\ LogTyped

(* What a request knows at each stage: what it holds against the version it  *)
(* distrusts, and what the version it wrote fits.                           *)
Stages == {"new", "authorizing", "resolving", "stale", "surface-invalid",
           "planning", "writing", "written", "repeated", "answered"}

RequestTyped(r) ==
    /\ stage[r] \in {"resolving", "stale", "surface-invalid", "planning", "writing"} =>
         situation[r] \in Situations
    /\ stage[r] \in {"stale", "surface-invalid", "written", "repeated"} => base[r] > 0
    /\ stage[r] = "stale" => sidecar.versions[base[r]].content.seen # situation[r]
    /\ stage[r] = "written" => sidecar.versions[base[r]].content.seen = situation[r]

RequestsTyped ==
    /\ stage \in [Requests -> Stages]
    /\ situation \in [Requests -> Situations \cup {Nil}]
    /\ recipe \in [Requests -> BOOLEAN]
    /\ base \in [Requests \cup People -> 0..Len(sidecar.versions)]
    /\ \A r \in Requests : RequestTyped(r)

AnswerTyped(r) ==
    /\ (receipt[r] = None) = (stage[r] # "answered")
    /\ receipt[r].status \in {"none", "ready", "fallback", "failed"}
    /\ IF receipt[r].status = "ready"
       THEN receipt[r].version \in DOMAIN sidecar.versions ELSE receipt[r].version = 0

AnswersTyped == DOMAIN receipt = Requests /\ \A r \in Requests : AnswerTyped(r)

OrdersTyped ==
    /\ DOMAIN order = People
    /\ \A h \in People :
         base[h] # 0 => /\ order[h].op \in {"pin", "revert", "patch"}
                        /\ order[h].op = "patch" => order[h].path \in Paths

IInv == RowInv /\ RequestsTyped /\ AnswersTyped /\ OrdersTyped

-----------------------------------------------------------------------------
(* The replay: Prefixes is the function its recursion describes, and one     *)
(* more event is one more step.                                             *)
Start == [ok |-> TRUE, row |-> NoSidecar]

IsRun(f, log, n) ==
    /\ DOMAIN f = 0..n
    /\ f[0] = Start
    /\ \A i \in 1..n : f[i] = Steps(log, i, f[i - 1])

(* Some function replays the first n events of a log, event by event.       *)
LEMMA RunExists ==
    ASSUME NEW log, NEW n \in Nat
    PROVE  \E f : IsRun(f, log, n)
<1> DEFINE Missing == {m \in Nat : ~\E f : IsRun(f, log, m)}
<1>1. SUFFICES ASSUME Missing # {} PROVE FALSE
  OBVIOUS
<1>2. PICK m \in Missing : \A k \in Missing : m <= k
  BY <1>1, LeastNatural
<1>3. CASE m = 0
  <2>1. IsRun([i \in 0..0 |-> Start], log, 0)
    BY DEF IsRun
  <2> QED BY <1>2, <1>3, <2>1
<1>4. CASE m # 0
  <2>1. m - 1 \in Nat /\ m \in Nat /\ m - 1 \notin Missing
    BY <1>2, <1>4
  <2>2. PICK f : IsRun(f, log, m - 1)
    BY <2>1
  <2> DEFINE last == Steps(log, m, f[m - 1])
             g == [i \in 0..m |-> IF i = m THEN last ELSE f[i]]
  <2> HIDE DEF last
  <2>3. DOMAIN g = 0..m /\ g[0] = Start /\ g[m] = last
    BY <1>4, <2>1, <2>2 DEF IsRun
  <2>4. \A i \in 0..(m - 1) : g[i] = f[i]
    BY <2>1
  <2>5. ASSUME NEW i \in 1..m PROVE g[i] = Steps(log, i, g[i - 1])
    <3>1. CASE i = m
      <4>1. g[i - 1] = f[m - 1]
        BY <2>1, <2>4, <3>1
      <4> QED BY <2>3, <3>1, <4>1 DEF last
    <3>2. CASE i # m
      <4>1. i \in 1..(m - 1) /\ i \in 0..(m - 1) /\ i - 1 \in 0..(m - 1)
        BY <2>1, <3>2
      <4> QED BY <2>2, <2>4, <4>1 DEF IsRun
    <3> QED BY <3>1, <3>2
  <2> HIDE DEF g
  <2>6. IsRun(g, log, m)
    BY <2>3, <2>5 DEF IsRun
  <2> QED BY <1>2, <2>6
<1> QED
  BY <1>3, <1>4

(* The recursive function of the model is such a replay.                    *)
LEMMA PrefixesRun ==
    ASSUME NEW log, Len(log) \in Nat
    PROVE  IsRun(Prefixes(log), log, Len(log))
<1> DEFINE Body(after) == [n \in 0..Len(log) |-> IF n = 0 THEN [ok |-> TRUE, row |-> NoSidecar]
                                                  ELSE Steps(log, n, after[n - 1])]
<1>1. PICK f : IsRun(f, log, Len(log))
  BY RunExists
<1>2. f = Body(f)
  <2>1. f = [n \in 0..Len(log) |-> f[n]]
    BY <1>1 DEF IsRun
  <2> QED BY <1>1, <2>1 DEF IsRun, Start
<1>3. Prefixes(log) = CHOOSE after : after = Body(after)
  BY DEF Prefixes
<1>4. Prefixes(log) = Body(Prefixes(log))
  BY <1>2, <1>3, Zenon
<1> HIDE DEF Body
<1>5. DOMAIN Body(Prefixes(log)) = 0..Len(log)
  BY DEF Body
<1>6. \A n \in 0..Len(log) : Body(Prefixes(log))[n] = IF n = 0 THEN Start
                                                     ELSE Steps(log, n, Prefixes(log)[n - 1])
  BY DEF Body, Start
<1> QED
  BY <1>4, <1>5, <1>6 DEF IsRun

(* A longer log replays its beginning as the shorter one did.               *)
LEMMA RunsAgree ==
    ASSUME NEW log, NEW longer, NEW n \in Nat, NEW m \in Nat, n <= m, NEW f, NEW g,
           IsRun(f, log, n), IsRun(g, longer, m), \A i \in 1..n : longer[i] = log[i]
    PROVE  f[n] = g[n]
<1> DEFINE Differ == {i \in 0..n : f[i] # g[i]}
<1>1. SUFFICES ASSUME Differ # {} PROVE FALSE
  OBVIOUS
<1>2. PICK k \in Differ : \A i \in Differ : k <= i
  <2>1. Differ \in SUBSET Nat
    OBVIOUS
  <2> QED BY <1>1, <2>1, LeastNatural
<1>3. k # 0
  BY <1>2 DEF IsRun
<1>4. k \in 1..n /\ k - 1 \in 0..n /\ k - 1 \notin Differ
  BY <1>2, <1>3
<1>5. f[k - 1] = g[k - 1]
  BY <1>4
<1>6. f[k] = Steps(log, k, f[k - 1]) /\ g[k] = Steps(longer, k, g[k - 1])
  BY <1>4 DEF IsRun
<1>7. log[k] = longer[k] /\ \A i \in 1..(k - 1) : log[i] = longer[i]
  BY <1>4
<1>8. \A s : Steps(log, k, s) = Steps(longer, k, s)
  BY <1>7 DEF Steps
<1> QED
  BY <1>2, <1>5, <1>6, <1>8

(* An empty log replays to the sidecar nobody wrote to.                     *)
LEMMA ReplayEmpty == Replay(<<>>) = Start
<1>1. Len(<<>>) = 0
  OBVIOUS
<1> QED
  BY <1>1, PrefixesRun DEF IsRun, Replay

(* One more event that repeats no command and is taken is folded into what   *)
(* was replayed before.                                                     *)
LEMMA ReplayAppended ==
    ASSUME NEW S, NEW log \in Seq(S), NEW e \in S, NEW row,
           Replay(log) = [ok |-> TRUE, row |-> row],
           ~\E i \in DOMAIN log : log[i].command = e.command,
           Takes(row, e)
    PROVE  Replay(Append(log, e)) = [ok |-> TRUE, row |-> Fold(row, e)]
<1> DEFINE longer == Append(log, e)
           n == Len(log)
<1>1. /\ n \in Nat /\ Len(longer) = n + 1 /\ DOMAIN log = 1..n
      /\ longer[n + 1] = e /\ \A i \in 1..n : longer[i] = log[i]
  OBVIOUS
<1> HIDE DEF longer, n
<1>2. IsRun(Prefixes(log), log, n) /\ IsRun(Prefixes(longer), longer, n + 1)
  BY <1>1, PrefixesRun DEF n
<1>3. Prefixes(longer)[n] = [ok |-> TRUE, row |-> row]
  <2>1. PICK m \in Nat : m = n + 1
    BY <1>1
  <2>2. n <= m /\ IsRun(Prefixes(longer), longer, m)
    BY <1>1, <1>2, <2>1
  <2>3. Prefixes(log)[n] = Prefixes(longer)[n]
    BY <1>1, <1>2, <2>2, RunsAgree
  <2> QED BY <2>3 DEF Replay, n
<1>4. Prefixes(longer)[n + 1] = Steps(longer, n + 1, Prefixes(longer)[n])
  <2>1. n + 1 \in 1..(n + 1) /\ (n + 1) - 1 = n
    BY <1>1
  <2> QED BY <1>2, <2>1 DEF IsRun
<1>5. ~\E i \in 1..((n + 1) - 1) : longer[i].command = longer[n + 1].command
  BY <1>1
<1>6. Prefixes(longer)[n].ok /\ Prefixes(longer)[n].row = row
  BY <1>3
<1>7. Steps(longer, n + 1, Prefixes(longer)[n]) = [ok |-> TRUE, row |-> Fold(row, e)]
  BY <1>1, <1>5, <1>6 DEF Steps
<1> QED
  BY <1>1, <1>4, <1>7 DEF Replay, longer

-----------------------------------------------------------------------------
(* What the fold of an event makes of a well-formed sidecar: versions are    *)
(* only appended.                                                           *)
EventOK(e) ==
    /\ e.kind \in {"instantiated", "revised", "pinned", "staled", "reverted"}
    /\ e.kind \in {"instantiated", "revised"} =>
         e.content \in Contents /\ e.paths \in SUBSET (Paths \cup {"$retention"})

Extends(s, t) ==
    /\ Len(t.versions) \in Nat /\ Len(s.versions) <= Len(t.versions)
    /\ \A v \in 1..Len(s.versions) : t.versions[v] = s.versions[v]

(* The version x is added and active.                                       *)
Adds(s, t, x) ==
    /\ x \in VersionRecord
    /\ Len(t.versions) = Len(s.versions) + 1 /\ t.versions[Len(s.versions) + 1] = x
    /\ t.active = Len(s.versions) + 1

(* The active version of a sidecar is one of its versions.                  *)
LEMMA CurrentVersion ==
    ASSUME NEW s, SidecarOK(s), s.active > 0
    PROVE  /\ s.active \in 1..Len(s.versions) /\ s.active \in DOMAIN s.versions
           /\ Current(s) \in VersionRecord /\ Current(s) = s.versions[s.active]
<1> DEFINE V == VersionRecord
<1>1. s.versions \in Seq(V) /\ s.active \in 1..Len(s.versions)
  BY DEF SidecarOK, SidecarRecord
<1> HIDE DEF V
<1>2. s.versions[s.active] \in V /\ s.active \in DOMAIN s.versions
  BY <1>1
<1> QED
  BY <1>1, <1>2 DEF Current, V

(* The fields of a sidecar, in the form the steps use.                      *)
LEMMA VersionsTyped ==
    ASSUME NEW s, SidecarOK(s)
    PROVE  /\ Len(s.versions) \in Nat /\ DOMAIN s.versions = 1..Len(s.versions)
           /\ s.active \in Nat /\ s.stale \in BOOLEAN
           /\ \A v \in 1..Len(s.versions) : s.versions[v] \in VersionRecord
<1> DEFINE V == VersionRecord
<1>1. s.versions \in Seq(V) /\ s.active \in Nat /\ s.stale \in BOOLEAN
  BY DEF SidecarOK, SidecarRecord
<1> HIDE DEF V
<1>2. \A v \in 1..Len(s.versions) : s.versions[v] \in V
  BY <1>1
<1> QED
  BY <1>1, <1>2 DEF V

(* What a new version does to the record.                                   *)
LEMMA AddedVersion ==
    ASSUME NEW s, SidecarOK(s), NEW x \in VersionRecord, NEW b \in BOOLEAN, NEW t,
           t = [s EXCEPT !.versions = Append(s.versions, x), !.active = Len(s.versions) + 1,
                         !.stale = b]
    PROVE  SidecarOK(t) /\ Extends(s, t) /\ Adds(s, t, x) /\ t.stale = b
<1> DEFINE V == VersionRecord
           vs == Append(s.versions, x)
           n == Len(s.versions)
<1>1. s.versions \in Seq(V) /\ x \in V /\ s \in [versions : Seq(V), active : Nat, stale : BOOLEAN]
  BY DEF SidecarOK, SidecarRecord
<1> HIDE DEF V
<1>2. /\ vs \in Seq(V) /\ Len(vs) = n + 1 /\ n \in Nat /\ vs[n + 1] = x
      /\ \A v \in 1..n : vs[v] = s.versions[v]
      /\ vs # <<>>
  BY <1>1
<1>3. t = [s EXCEPT !.versions = vs, !.active = n + 1, !.stale = b]
  OBVIOUS
<1> HIDE DEF vs
<1>4. n + 1 \in Nat
  BY <1>2
<1>5. /\ t \in [versions : Seq(V), active : Nat, stale : BOOLEAN]
      /\ t.versions = vs /\ t.active = n + 1 /\ t.stale = b
  BY <1>1, <1>2, <1>3, <1>4
<1>6. SidecarOK(t)
  BY <1>2, <1>5 DEF SidecarOK, SidecarRecord, V
<1> QED
  BY <1>2, <1>5, <1>6 DEF Extends, Adds, V

(* Instantiating or revising adds one version and clears the stale mark.    *)
LEMMA FoldNew ==
    ASSUME NEW s, SidecarOK(s), NEW e, EventOK(e), e.kind \in {"instantiated", "revised"}
    PROVE  \E x : /\ SidecarOK(Fold(s, e)) /\ Extends(s, Fold(s, e)) /\ Adds(s, Fold(s, e), x)
                  /\ x.content = e.content /\ x.paths = e.paths /\ x.pinned = Pinned(s)
                  /\ ~Fold(s, e).stale
<1>1. Pinned(s) \in BOOLEAN
  BY CurrentVersion, VersionsTyped DEF Pinned, VersionRecord
<1> DEFINE x == [content |-> e.content, paths |-> e.paths, pinned |-> Retained(s, e)]
<1>2. x \in VersionRecord /\ x.content = e.content /\ x.paths = e.paths /\ x.pinned = Pinned(s)
  BY <1>1 DEF EventOK, VersionRecord, Retained
<1>3. Fold(s, e) = [s EXCEPT !.versions = Append(s.versions, x), !.active = Len(s.versions) + 1,
                             !.stale = FALSE]
  BY DEF Fold, NewVersion
<1> HIDE DEF x
<1>4. /\ SidecarOK(Fold(s, e)) /\ Extends(s, Fold(s, e)) /\ Adds(s, Fold(s, e), x)
      /\ Fold(s, e).stale = FALSE
  BY <1>2, <1>3, AddedVersion
<1> QED
  BY <1>2, <1>4

(* Pinning adds a version of the same content, and leaves the stale mark    *)
(* alone.                                                                   *)
LEMMA FoldPin ==
    ASSUME NEW s, SidecarOK(s), NEW e, e.kind = "pinned", s.active > 0
    PROVE  \E x : /\ SidecarOK(Fold(s, e)) /\ Extends(s, Fold(s, e)) /\ Adds(s, Fold(s, e), x)
                  /\ x.content = Current(s).content /\ x.paths = {"$retention"} /\ x.pinned
                  /\ Fold(s, e).stale = s.stale
<1> DEFINE x == [Current(s) EXCEPT !.pinned = TRUE, !.paths = {"$retention"}]
<1>1. Current(s) \in VersionRecord
  BY CurrentVersion
<1>2. /\ x \in VersionRecord /\ x.content = Current(s).content
      /\ x.paths = {"$retention"} /\ x.pinned
  BY <1>1 DEF VersionRecord
<1>3. Fold(s, e) = [s EXCEPT !.versions = Append(s.versions, x), !.active = Len(s.versions) + 1]
  BY DEF Fold
<1> HIDE DEF x
<1>4. s \in SidecarRecord /\ s.stale \in BOOLEAN
  BY VersionsTyped DEF SidecarOK
<1>5. Fold(s, e) = [s EXCEPT !.versions = Append(s.versions, x), !.active = Len(s.versions) + 1,
                             !.stale = s.stale]
  BY <1>3, <1>4 DEF SidecarRecord
<1>6. SidecarOK(Fold(s, e)) /\ Extends(s, Fold(s, e)) /\ Adds(s, Fold(s, e), x)
  BY <1>2, <1>4, <1>5, AddedVersion
<1>7. Fold(s, e).stale = s.stale
  <2>1. PICK b \in BOOLEAN : b = s.stale
    BY <1>4
  <2>2. PICK t : t = Fold(s, e)
    OBVIOUS
  <2>3. t = [s EXCEPT !.versions = Append(s.versions, x), !.active = Len(s.versions) + 1, !.stale = b]
    BY <1>5, <2>1, <2>2
  <2>4. t.stale = b
    BY <1>2, <2>3, AddedVersion
  <2> QED BY <2>1, <2>2, <2>4
<1> QED
  BY <1>2, <1>6, <1>7

(* Marking stale and reverting add no version.                              *)
LEMMA FoldMove ==
    ASSUME NEW s, SidecarOK(s), NEW e, Takes(s, e), e.kind \in {"staled", "reverted"}
    PROVE  /\ SidecarOK(Fold(s, e)) /\ Fold(s, e).versions = s.versions
           /\ Fold(s, e).active > 0
           /\ Fold(s, e).stale => e.kind = "staled"
<1>1. s \in SidecarRecord /\ s.active > 0 /\ DOMAIN s.versions = 1..Len(s.versions)
  BY VersionsTyped DEF Takes, Unmoved, SidecarOK
<1>2. CASE e.kind = "staled"
  <2>1. Fold(s, e) = [s EXCEPT !.stale = TRUE]
    BY <1>2 DEF Fold
  <2>2. Fold(s, e) \in SidecarRecord /\ Fold(s, e).versions = s.versions /\ Fold(s, e).active = s.active
    BY <1>1, <2>1 DEF SidecarRecord
  <2> QED BY <1>1, <1>2, <2>2 DEF SidecarOK
<1>3. CASE e.kind = "reverted"
  <2>1. Fold(s, e) = [s EXCEPT !.active = e.target, !.stale = FALSE] /\ e.target \in 1..Len(s.versions)
    BY <1>1, <1>3 DEF Fold, Takes
  <2>2. e.target \in Nat /\ e.target > 0
    BY <2>1, VersionsTyped
  <2>3. /\ Fold(s, e) \in SidecarRecord /\ Fold(s, e).versions = s.versions
        /\ Fold(s, e).active = e.target /\ ~Fold(s, e).stale
    BY <1>1, <2>1, <2>2 DEF SidecarRecord
  <2> QED BY <1>1, <2>1, <2>2, <2>3 DEF SidecarOK
<1> QED
  BY <1>2, <1>3

(* The content of a planned or patched version names only edits that are     *)
(* there already, and those of its own paths.                               *)
Sourced(s, e) ==
    e.kind \in {"instantiated", "revised"} =>
        \A p \in Paths : e.content.edits[p] # Nil /\ p \notin e.paths =>
            \E u \in 1..Len(s.versions) : EditAt(s, u, p) = e.content.edits[p]

(* A new version whose edits, outside the paths it names, come from earlier *)
(* versions keeps every edit traceable.                                     *)
LEMMA AddKeepsProvenance ==
    ASSUME NEW s, SidecarOK(s), Provenance(s), NEW t, SidecarOK(t), Extends(s, t),
           NEW x, Adds(s, t, x),
           \A p \in Paths : x.content.edits[p] # Nil /\ p \notin x.paths =>
               \E u \in 1..Len(s.versions) : EditAt(s, u, p) = x.content.edits[p]
    PROVE  Provenance(t)
<1> DEFINE n == Len(s.versions)
<1>1. n \in Nat /\ DOMAIN s.versions = 1..n /\ DOMAIN t.versions = 1..(n + 1)
  BY VersionsTyped DEF Adds
<1>2. \A v \in 1..n, p \in Paths : EditAt(t, v, p) = EditAt(s, v, p)
  BY DEF Extends, EditAt
<1> SUFFICES ASSUME NEW v \in 1..(n + 1), NEW p \in Paths,
                    EditAt(t, v, p) # Nil, p \notin t.versions[v].paths
             PROVE  \E u \in 1..(v - 1) : EditAt(t, u, p) = EditAt(t, v, p)
  BY <1>1 DEF Provenance
<1>3. CASE v = n + 1
  <2>1. t.versions[v] = x /\ EditAt(t, v, p) = x.content.edits[p]
    BY <1>3 DEF Adds, EditAt
  <2>2. PICK u \in 1..n : EditAt(s, u, p) = x.content.edits[p]
    BY <2>1
  <2>3. u \in 1..(v - 1)
    BY <1>1, <1>3
  <2> QED BY <1>2, <2>1, <2>2, <2>3
<1>4. CASE v # n + 1
  <2>1. v \in 1..n
    BY <1>1, <1>4
  <2>2. EditAt(s, v, p) # Nil /\ p \notin s.versions[v].paths
    BY <1>2, <2>1 DEF Extends
  <2>3. PICK u \in 1..(v - 1) : EditAt(s, u, p) = EditAt(s, v, p)
    BY <1>1, <2>1, <2>2 DEF Provenance
  <2>4. u \in 1..n
    BY <1>1, <2>1
  <2> QED BY <1>2, <2>1, <2>3, <2>4
<1> QED
  BY <1>3, <1>4

(* An event that is taken keeps the sidecar well formed.                     *)
LEMMA FoldKeeps ==
    ASSUME NEW s, SidecarOK(s), Provenance(s), NEW e, EventOK(e), Sourced(s, e), Takes(s, e)
    PROVE  /\ SidecarOK(Fold(s, e)) /\ Provenance(Fold(s, e)) /\ Extends(s, Fold(s, e))
           /\ Fold(s, e).active > 0
<1> DEFINE t == Fold(s, e)
<1>1. CASE e.kind \in {"instantiated", "revised"}
  <2>1. PICK x : /\ SidecarOK(t) /\ Extends(s, t) /\ Adds(s, t, x)
                 /\ x.content = e.content /\ x.paths = e.paths
    BY <1>1, FoldNew
  <2>2. Provenance(t)
    BY <1>1, <2>1, AddKeepsProvenance DEF Sourced
  <2> QED BY <2>1, <2>2, VersionsTyped DEF Adds
<1>2. CASE e.kind = "pinned"
  <2>1. s.active > 0
    BY <1>2 DEF Takes, Unmoved
  <2>2. PICK x : /\ SidecarOK(t) /\ Extends(s, t) /\ Adds(s, t, x)
                 /\ x.content = Current(s).content
    BY <1>2, <2>1, FoldPin
  <2>3. \A p \in Paths : EditAt(s, s.active, p) = x.content.edits[p]
    BY <2>1, <2>2, CurrentVersion DEF EditAt
  <2>4. s.active \in 1..Len(s.versions)
    BY <2>1, CurrentVersion
  <2>5. Provenance(t)
    BY <2>2, <2>3, <2>4, AddKeepsProvenance
  <2> QED BY <2>2, <2>5, VersionsTyped DEF Adds
<1>3. CASE e.kind \in {"staled", "reverted"}
  <2>1. SidecarOK(t) /\ t.versions = s.versions /\ t.active > 0
    BY <1>3, FoldMove
  <2>2. Provenance(t)
    BY <2>1 DEF Provenance, EditAt
  <2>3. Extends(s, t)
    BY <2>1, VersionsTyped DEF Extends
  <2> QED BY <2>1, <2>2, <2>3
<1> QED
  BY <1>1, <1>2, <1>3 DEF EventOK

-----------------------------------------------------------------------------
(* A sequence is one over the set of its own elements.                      *)
LEMMA OwnRange ==
    ASSUME NEW S, NEW q \in Seq(S)
    PROVE  q \in Seq({q[i] : i \in DOMAIN q})
<1> DEFINE R == {q[i] : i \in DOMAIN q}
<1>1. Len(q) \in Nat /\ q \in [1..Len(q) -> S] /\ DOMAIN q = 1..Len(q)
  BY LenProperties
<1>2. \A i \in 1..Len(q) : q[i] \in R
  BY <1>1
<1> HIDE DEF R
<1>3. q \in [1..Len(q) -> R]
  BY <1>1, <1>2
<1>4. q \in Seq(R)
  BY <1>1, <1>3, SeqDef
<1> QED
  BY <1>4 DEF R

(* One transaction: what is decided on the row is decided on the replay.     *)
LEMMA AppendKeeps ==
    ASSUME RowInv, NEW x, NEW e, EventOK(e), Sourced(sidecar, e), Appended(x, e)
    PROVE  RowInv' /\ Extends(sidecar, sidecar')
<1>1. sidecar' = Fold(sidecar, e) /\ Takes(sidecar, e) /\ events' = Append(events, e)
  BY DEF Appended, Decided
<1>2. /\ SidecarOK(sidecar') /\ Provenance(sidecar') /\ Extends(sidecar, sidecar')
      /\ sidecar'.active > 0
  BY <1>1, FoldKeeps DEF RowInv
<1> DEFINE S == {events[i] : i \in DOMAIN events} \cup {e}
<1>3. events \in Seq(S) /\ e \in S
  <2> DEFINE R == {events[i] : i \in DOMAIN events}
  <2>1. events \in Seq(R)
    BY DEF RowInv, LogTyped
  <2>2. R \subseteq S
    OBVIOUS
  <2> HIDE DEF R, S
  <2>3. events \in Seq(S)
    BY <2>1, <2>2
  <2> QED BY <2>3 DEF S
<1>4. ~\E i \in DOMAIN events : events[i].command = e.command
  BY DEF Appended, Existing, Processed
<1>5. Replay(events) = [ok |-> TRUE, row |-> sidecar]
  BY DEF RowInv, LogTyped, RowIsReplay
<1>6. Replay(events') = [ok |-> TRUE, row |-> sidecar']
  <2> HIDE DEF S
  <2>1. Replay(Append(events, e)) = [ok |-> TRUE, row |-> Fold(sidecar, e)]
    BY <1>1, <1>3, <1>4, <1>5, ReplayAppended
  <2> QED BY <1>1, <2>1
<1>7. events' \in Seq({events'[i] : i \in DOMAIN events'})
  <2> HIDE DEF S
  <2>1. events' \in Seq(S)
    BY <1>1, <1>3
  <2> QED BY <2>1, OwnRange
<1> QED
  BY <1>2, <1>6, <1>7 DEF RowInv, LogTyped, RowIsReplay

(* A step that appends no event keeps the row, and every version in it.     *)
LEMMA NoWriteKeeps ==
    ASSUME RowInv, UNCHANGED <<events, sidecar>>
    PROVE  RowInv' /\ Extends(sidecar, sidecar')
<1>1. SidecarOK(sidecar') /\ Provenance(sidecar') /\ sidecar' = sidecar
  BY DEF RowInv
<1>2. LogTyped'
  BY DEF RowInv, LogTyped, RowIsReplay
<1>3. Extends(sidecar, sidecar')
  BY <1>1, VersionsTyped DEF Extends
<1> QED
  BY <1>1, <1>2, <1>3 DEF RowInv

(* The commands: what a request plans from its own reading, what a person    *)
(* takes over from the version the route read for it.                       *)
LEMMA StaleCommandOK ==
    ASSUME NEW r
    PROVE  /\ EventOK(StaleCommand(r)) /\ Sourced(sidecar, StaleCommand(r))
           /\ StaleCommand(r).kind = "staled" /\ StaleCommand(r).base = base[r]
  BY DEF EventOK, Sourced, StaleCommand

(* What the planner returns shows what was read and edits nothing.          *)
LEMMA PlannedTyped ==
    ASSUME NEW w \in Situations
    PROVE  Planned(w) \in Contents /\ Planned(w).seen = w /\ \A p \in Paths : Planned(w).edits[p] = Nil
  BY DEF Planned, Contents

(* The event a broker request persists is well formed and needs no base.    *)
LEMMA SurfaceCommandOK ==
    ASSUME NEW r, situation[r] \in Situations
    PROVE  /\ EventOK(SurfaceCommand(r)) /\ Sourced(sidecar, SurfaceCommand(r))
           /\ SurfaceCommand(r).kind \in {"instantiated", "revised"}
           /\ SurfaceCommand(r).content = Planned(situation[r])
<1> DEFINE c == Planned(situation[r])
<1>1. c \in Contents /\ \A p \in Paths : c.edits[p] = Nil
  BY PlannedTyped
<1> HIDE DEF c
<1>2. /\ SurfaceCommand(r).kind \in {"instantiated", "revised"}
      /\ SurfaceCommand(r).content = c /\ SurfaceCommand(r).paths = {}
  BY DEF SurfaceCommand, c
<1> QED
  BY <1>1, <1>2 DEF EventOK, Sourced, c

(* The event a human sends is well formed, and a patch names the base it was*)
(* read at.                                                                 *)
LEMMA HumanCommandOK ==
    ASSUME RowInv, RequestsTyped, OrdersTyped, NEW h \in People, base[h] # 0
    PROVE  /\ EventOK(HumanCommand(h)) /\ Sourced(sidecar, HumanCommand(h))
           /\ HumanCommand(h).kind \in {"pinned", "reverted", "revised"}
           /\ order[h].op = "patch" => /\ HumanCommand(h).kind = "revised"
                                       /\ HumanCommand(h).base = base[h]
                                       /\ HumanCommand(h).paths = {order[h].path}
<1>1. /\ order[h].op \in {"pin", "revert", "patch"}
      /\ order[h].op = "patch" => order[h].path \in Paths
  BY DEF OrdersTyped
<1>2. SidecarOK(sidecar) /\ base[h] \in 1..Len(sidecar.versions)
  BY VersionsTyped DEF RowInv, RequestsTyped
<1>3. CASE order[h].op = "pin"
  <2>1. HumanCommand(h).kind = "pinned"
    BY <1>3 DEF HumanCommand
  <2> QED BY <1>3, <2>1 DEF EventOK, Sourced
<1>4. CASE order[h].op = "revert"
  <2>1. HumanCommand(h).kind = "reverted"
    BY <1>4 DEF HumanCommand
  <2> QED BY <1>4, <2>1 DEF EventOK, Sourced
<1>5. CASE order[h].op = "patch"
  <2> DEFINE old == sidecar.versions[base[h]].content
             c == [old EXCEPT !.edits[order[h].path] = h]
  <2>1. old \in Contents
    BY <1>2, VersionsTyped DEF VersionRecord
  <2>2. PICK q \in Paths : q = order[h].path
    BY <1>1, <1>5
  <2>3. c \in Contents /\ \A p \in Paths : p # q => c.edits[p] = old.edits[p]
    BY <2>1, <2>2 DEF Contents
  <2> HIDE DEF c
  <2>4. /\ HumanCommand(h).kind = "revised" /\ HumanCommand(h).content = c
        /\ HumanCommand(h).paths = {q} /\ HumanCommand(h).base = base[h]
    BY <1>5, <2>2 DEF HumanCommand, c
  <2>5. EventOK(HumanCommand(h))
    BY <2>2, <2>3, <2>4 DEF EventOK
  <2>6. Sourced(sidecar, HumanCommand(h))
    BY <1>2, <2>3, <2>4 DEF Sourced, EditAt
  <2> QED BY <2>2, <2>4, <2>5, <2>6
<1> QED
  BY <1>1, <1>3, <1>4, <1>5

-----------------------------------------------------------------------------
(* What a request or a person knows survives what the others write.         *)
LEMMA Growth ==
    ASSUME IInv, RowInv', Extends(sidecar, sidecar')
    PROVE  /\ Len(sidecar.versions) \in Nat /\ Len(sidecar'.versions) \in Nat
           /\ DOMAIN sidecar.versions = 1..Len(sidecar.versions)
           /\ DOMAIN sidecar'.versions = 1..Len(sidecar'.versions)
           /\ \A b \in 0..Len(sidecar.versions) : b \in 0..Len(sidecar'.versions)
           /\ sidecar.active \in 0..Len(sidecar.versions)
           /\ sidecar'.active \in 0..Len(sidecar'.versions)
<1>1. SidecarOK(sidecar) /\ SidecarOK(sidecar')
  BY DEF IInv, RowInv
<1>2. /\ Len(sidecar.versions) \in Nat /\ DOMAIN sidecar.versions = 1..Len(sidecar.versions)
      /\ sidecar.active \in Nat
  BY <1>1, VersionsTyped
<1>3. /\ Len(sidecar'.versions) \in Nat /\ DOMAIN sidecar'.versions = 1..Len(sidecar'.versions)
      /\ sidecar'.active \in Nat
  BY <1>1, VersionsTyped
<1> QED
  BY <1>1, <1>2, <1>3 DEF Extends, SidecarOK

(* A request no step touched keeps its type as the row grows.               *)
LEMMA OtherRequestKept ==
    ASSUME IInv, RowInv', Extends(sidecar, sidecar'), NEW r \in Requests,
           stage'[r] = stage[r], situation'[r] = situation[r], base'[r] = base[r]
    PROVE  RequestTyped(r)'
<1>1. RequestTyped(r) /\ base[r] \in 0..Len(sidecar.versions)
  BY DEF IInv, RequestsTyped
<1>2. stage[r] \in {"stale", "written"} => base[r] \in 1..Len(sidecar.versions)
  BY <1>1, Growth DEF RequestTyped
<1> QED
  BY <1>1, <1>2 DEF RequestTyped, Extends

(* An answer given stays justified as the row grows.                        *)
LEMMA OtherAnswerKept ==
    ASSUME IInv, RowInv', Extends(sidecar, sidecar'), NEW r \in Requests,
           receipt'[r] = receipt[r], stage'[r] = "answered" <=> stage[r] = "answered"
    PROVE  AnswerTyped(r)'
<1>1. AnswerTyped(r)
  BY DEF IInv, AnswersTyped
<1>2. \A v \in DOMAIN sidecar.versions : v \in DOMAIN sidecar'.versions
  BY Growth DEF Extends
<1> QED
  BY <1>1, <1>2 DEF AnswerTyped

(* Orders nobody changed keep their type.                                   *)
LEMMA OrdersKept ==
    ASSUME IInv, UNCHANGED order, \A h \in People : base'[h] = base[h]
    PROVE  OrdersTyped'
  BY DEF IInv, OrdersTyped

(* A request goes one stage on, and may have written the version it read.   *)
LEMMA AdvanceKeeps ==
    ASSUME IInv, RowInv', Extends(sidecar, sidecar'), NEW r \in Requests,
           stage[r] # "answered", NEW s \in Stages \ {"answered"}, Reach(r, s),
           NEW b \in 0..Len(sidecar'.versions), base' = [base EXCEPT ![r] = b],
           NEW w \in Situations \cup {Nil}, situation' = [situation EXCEPT ![r] = w],
           s \in {"resolving", "stale", "surface-invalid", "planning", "writing"} => w \in Situations,
           s \in {"stale", "surface-invalid", "written", "repeated"} => b > 0,
           s = "stale" => sidecar'.versions[b].content.seen # w,
           s = "written" => sidecar'.versions[b].content.seen = w,
           recipe' \in [Requests -> BOOLEAN], UNCHANGED <<receipt, order>>
    PROVE  IInv'
<1>1. /\ stage \in [Requests -> Stages] /\ situation \in [Requests -> Situations \cup {Nil}]
      /\ base \in [Requests \cup People -> 0..Len(sidecar.versions)]
  BY DEF IInv, RequestsTyped
<1>2. stage' \in [Requests -> Stages] /\ stage'[r] = s /\ \A o \in Requests \ {r} : stage'[o] = stage[o]
  BY <1>1 DEF Reach
<1>3. /\ situation' \in [Requests -> Situations \cup {Nil}] /\ situation'[r] = w
      /\ \A o \in Requests \ {r} : situation'[o] = situation[o]
  BY <1>1
<1>4. base'[r] = b /\ \A o \in Requests \cup People : o # r => base'[o] = base[o]
  BY <1>1
<1>5. base' \in [Requests \cup People -> 0..Len(sidecar'.versions)]
  BY <1>1, Growth
<1>6. ASSUME NEW o \in Requests PROVE RequestTyped(o)' /\ AnswerTyped(o)'
  <2>1. CASE o = r
    <3>1. RequestTyped(o)'
      BY <1>2, <1>3, <1>4, <2>1 DEF RequestTyped
    <3>2. AnswerTyped(o)'
      BY <1>2, <2>1, OtherAnswerKept
    <3> QED BY <3>1, <3>2
  <2>2. CASE o # r
    <3>1. stage'[o] = stage[o] /\ situation'[o] = situation[o] /\ base'[o] = base[o]
      BY <1>2, <1>3, <1>4, <2>2
    <3> QED BY <3>1, OtherRequestKept, OtherAnswerKept
  <2> QED BY <2>1, <2>2
<1>7. RequestsTyped'
  BY <1>2, <1>3, <1>5, <1>6 DEF RequestsTyped
<1>8. AnswersTyped'
  BY <1>6 DEF IInv, AnswersTyped
<1>9. OrdersTyped'
  BY <1>4, OrdersKept, IdentityAssumption
<1> QED
  BY <1>7, <1>8, <1>9 DEF IInv

(* A request goes one stage on before it writes its surface.                *)
LEMMA ReachKeeps ==
    ASSUME IInv, RowInv', Extends(sidecar, sidecar'), NEW r \in Requests,
           stage[r] # "answered", NEW s \in Stages \ {"written", "repeated", "answered"}, Reach(r, s),
           NEW b \in 0..Len(sidecar.versions), base' = [base EXCEPT ![r] = b],
           NEW w \in Situations \cup {Nil}, situation' = [situation EXCEPT ![r] = w],
           s \in {"resolving", "stale", "surface-invalid", "planning", "writing"} => w \in Situations,
           s \in {"stale", "surface-invalid"} => b > 0,
           s = "stale" => sidecar'.versions[b].content.seen # w,
           recipe' \in [Requests -> BOOLEAN], UNCHANGED <<receipt, order>>
    PROVE  IInv'
<1>1. b \in 0..Len(sidecar'.versions)
  BY Growth
<1> QED
  BY <1>1, AdvanceKeeps

(* A request is answered.                                                   *)
LEMMA CompleteKeeps ==
    ASSUME IInv, RowInv', Extends(sidecar, sidecar'), NEW r \in Requests,
           NEW s \in {"ready", "fallback", "failed"}, NEW v, Complete(r, s, v),
           IF s = "ready" THEN v \in DOMAIN sidecar'.versions ELSE v = 0,
           UNCHANGED order
    PROVE  IInv' /\ receipt'[r] = Outcome(s, v)
                 /\ \A o \in Requests \ {r} : receipt'[o] = receipt[o]
<1>1. /\ stage \in [Requests -> Stages] /\ situation \in [Requests -> Situations \cup {Nil}]
      /\ base \in [Requests \cup People -> 0..Len(sidecar.versions)]
      /\ recipe \in [Requests -> BOOLEAN] /\ DOMAIN receipt = Requests
  BY DEF IInv, RequestsTyped, AnswersTyped
<1>2. /\ stage' \in [Requests -> Stages] /\ stage'[r] = "answered"
      /\ \A o \in Requests \ {r} : stage'[o] = stage[o]
  BY <1>1 DEF Complete, Reach, Stages
<1>3. /\ situation' \in [Requests -> Situations \cup {Nil}]
      /\ \A o \in Requests \ {r} : situation'[o] = situation[o]
  BY <1>1 DEF Complete
<1>4. /\ base' \in [Requests \cup People -> 0..Len(sidecar.versions)]
      /\ \A o \in Requests \cup People : o # r => base'[o] = base[o]
  BY <1>1, Growth DEF Complete
<1>5. base' \in [Requests \cup People -> 0..Len(sidecar'.versions)]
  BY <1>4, Growth
<1>6. recipe' \in [Requests -> BOOLEAN]
  BY <1>1 DEF Complete
<1>7. /\ DOMAIN receipt' = Requests /\ receipt'[r] = Outcome(s, v)
      /\ \A o \in Requests \ {r} : receipt'[o] = receipt[o]
  BY <1>1 DEF Complete
<1>8. ASSUME NEW o \in Requests PROVE RequestTyped(o)' /\ AnswerTyped(o)'
  <2>1. CASE o = r
    <3>1. RequestTyped(o)'
      BY <1>2, <2>1 DEF RequestTyped
    <3>2. AnswerTyped(o)'
      <4>1. Outcome(s, v).status = s /\ Outcome(s, v).version = v /\ None.status = "none"
        BY DEF Outcome, None
      <4> QED BY <1>2, <1>7, <2>1, <4>1 DEF AnswerTyped
    <3> QED BY <3>1, <3>2
  <2>2. CASE o # r
    <3>1. /\ stage'[o] = stage[o] /\ situation'[o] = situation[o] /\ base'[o] = base[o]
          /\ receipt'[o] = receipt[o]
      BY <1>2, <1>3, <1>4, <1>7, <2>2
    <3> QED BY <3>1, OtherRequestKept, OtherAnswerKept
  <2> QED BY <2>1, <2>2
<1>9. RequestsTyped'
  BY <1>2, <1>3, <1>5, <1>6, <1>8 DEF RequestsTyped
<1>10. AnswersTyped'
  BY <1>7, <1>8 DEF AnswersTyped
<1>11. OrdersTyped'
  BY <1>4, OrdersKept, IdentityAssumption
<1> QED
  BY <1>7, <1>9, <1>10, <1>11 DEF IInv

(* A person reads or closes.                                                *)
LEMMA PersonKeeps ==
    ASSUME IInv, RowInv', Extends(sidecar, sidecar'), UNCHANGED broker, NEW h \in People,
           NEW b \in 0..Len(sidecar.versions), base' = [base EXCEPT ![h] = b],
           NEW o, order' = [order EXCEPT ![h] = o],
           b # 0 => o.op \in {"pin", "revert", "patch"} /\ (o.op = "patch" => o.path \in Paths)
    PROVE  IInv'
<1>1. base \in [Requests \cup People -> 0..Len(sidecar.versions)]
  BY DEF IInv, RequestsTyped
<1>2. /\ base' \in [Requests \cup People -> 0..Len(sidecar.versions)] /\ base'[h] = b
      /\ \A x \in Requests \cup People : x # h => base'[x] = base[x]
  BY <1>1
<1>3. base' \in [Requests \cup People -> 0..Len(sidecar'.versions)]
  BY <1>2, Growth
<1>4. ASSUME NEW r \in Requests PROVE RequestTyped(r)' /\ AnswerTyped(r)'
  <2>1. base'[r] = base[r]
    BY <1>2, IdentityAssumption
  <2>2. stage' = stage /\ situation' = situation /\ receipt' = receipt
    BY DEF broker
  <2> QED BY <2>1, <2>2, OtherRequestKept, OtherAnswerKept
<1>5. RequestsTyped'
  BY <1>3, <1>4 DEF RequestsTyped, IInv, broker
<1>6. AnswersTyped'
  BY <1>4 DEF AnswersTyped, IInv, broker
<1>7. OrdersTyped'
  <2>1. DOMAIN order' = People /\ order'[h] = o /\ \A x \in People \ {h} : order'[x] = order[x]
    BY DEF IInv, OrdersTyped
  <2> QED BY <1>2, <2>1 DEF IInv, OrdersTyped
<1> QED
  BY <1>5, <1>6, <1>7 DEF IInv

-----------------------------------------------------------------------------
(* One lemma per action.                                                    *)
LEMMA Values ==
    ASSUME IInv, NEW r \in Requests
    PROVE  /\ stage[r] \in Stages /\ situation[r] \in Situations \cup {Nil}
           /\ base[r] \in 0..Len(sidecar.versions) /\ recipe \in [Requests -> BOOLEAN]
           /\ base = [base EXCEPT ![r] = base[r]]
           /\ situation = [situation EXCEPT ![r] = situation[r]]
           /\ sidecar.active \in 0..Len(sidecar.versions)
<1>1. /\ stage \in [Requests -> Stages] /\ situation \in [Requests -> Situations \cup {Nil}]
      /\ base \in [Requests \cup People -> 0..Len(sidecar.versions)]
      /\ recipe \in [Requests -> BOOLEAN]
  BY DEF IInv, RequestsTyped
<1>2. sidecar.active \in 0..Len(sidecar.versions)
  BY VersionsTyped DEF IInv, RowInv, SidecarOK
<1> QED
  BY <1>1, <1>2

LEMMA ClaimStep ==
    ASSUME IInv, NEW r \in Requests, Claim(r)
    PROVE  IInv'
<1>1. RowInv' /\ Extends(sidecar, sidecar')
  BY NoWriteKeeps DEF IInv, Claim
<1>2. "authorizing" \in Stages \ {"written", "repeated", "answered"} /\ stage[r] # "answered"
  BY DEF Stages, Claim
<1>3. /\ base' = [base EXCEPT ![r] = base[r]] /\ base[r] \in 0..Len(sidecar.versions)
      /\ situation' = [situation EXCEPT ![r] = situation[r]] /\ situation[r] \in Situations \cup {Nil}
      /\ recipe' \in [Requests -> BOOLEAN]
  BY Values DEF Claim
<1>4. Reach(r, "authorizing") /\ UNCHANGED <<receipt, order>>
  BY DEF Claim
<1>5. PICK s \in Stages \ {"written", "repeated", "answered"}, b \in 0..Len(sidecar.versions), w \in Situations \cup {Nil} :
           s = "authorizing" /\ b = base[r] /\ w = situation[r]
  BY <1>2, <1>3
<1>6. /\ base' = [base EXCEPT ![r] = b] /\ situation' = [situation EXCEPT ![r] = w] /\ Reach(r, s)
  BY <1>3, <1>4, <1>5
<1>7. /\ s \in {"resolving", "stale", "surface-invalid", "planning", "writing"} => w \in Situations
      /\ s \notin {"stale", "surface-invalid"}
  BY <1>5
<1> QED
  BY <1>1, <1>2, <1>3, <1>4, <1>6, <1>7, ReachKeeps

LEMMA AuthorizeStep ==
    ASSUME IInv, NEW r \in Requests, NEW read \in Situations, Authorize(r, read)
    PROVE  IInv'
<1>1. RowInv' /\ Extends(sidecar, sidecar')
  BY NoWriteKeeps DEF IInv, Authorize
<1>2. "resolving" \in Stages \ {"written", "repeated", "answered"} /\ stage[r] # "answered"
  BY DEF Stages, Authorize
<1>3. /\ base' = [base EXCEPT ![r] = base[r]] /\ base[r] \in 0..Len(sidecar.versions)
      /\ situation' = [situation EXCEPT ![r] = read] /\ read \in Situations \cup {Nil}
      /\ recipe' \in [Requests -> BOOLEAN]
  BY Values DEF Authorize
<1>4. Reach(r, "resolving") /\ UNCHANGED <<receipt, order>>
  BY DEF Authorize
<1>5. PICK s \in Stages \ {"written", "repeated", "answered"}, b \in 0..Len(sidecar.versions), w \in Situations \cup {Nil} :
           s = "resolving" /\ b = base[r] /\ w = read
  BY <1>2, <1>3
<1>6. /\ base' = [base EXCEPT ![r] = b] /\ situation' = [situation EXCEPT ![r] = w] /\ Reach(r, s)
  BY <1>3, <1>4, <1>5
<1>7. /\ s \in {"resolving", "stale", "surface-invalid", "planning", "writing"} => w \in Situations
      /\ s \notin {"stale", "surface-invalid"}
  BY <1>5
<1> QED
  BY <1>1, <1>2, <1>3, <1>4, <1>6, <1>7, ReachKeeps

LEMMA DenyStep ==
    ASSUME IInv, NEW r \in Requests, Deny(r)
    PROVE  IInv'
<1>1. RowInv' /\ Extends(sidecar, sidecar')
  BY NoWriteKeeps DEF IInv, Deny
<1> QED
  BY <1>1, CompleteKeeps DEF Deny

LEMMA ReuseStep ==
    ASSUME IInv, NEW r \in Requests, Reuse(r)
    PROVE  IInv'
<1>1. RowInv' /\ Extends(sidecar, sidecar') /\ sidecar' = sidecar
  BY NoWriteKeeps DEF IInv, Reuse
<1>2. sidecar.active \in DOMAIN sidecar'.versions
  BY <1>1, CurrentVersion DEF IInv, RowInv, Reuse, Found
<1> QED
  BY <1>1, <1>2, CompleteKeeps DEF Reuse

LEMMA DistrustStep ==
    ASSUME IInv, NEW r \in Requests, Distrust(r)
    PROVE  IInv'
<1>1. RowInv' /\ Extends(sidecar, sidecar') /\ sidecar' = sidecar
  BY NoWriteKeeps DEF IInv, Distrust
<1>2. PICK s \in {"stale", "surface-invalid"} : s = IF Valid(r) THEN "surface-invalid" ELSE "stale"
  BY DEF Valid
<1>3. s \in Stages \ {"written", "repeated", "answered"} /\ stage[r] # "answered" /\ Reach(r, s)
  BY <1>2 DEF Stages, Distrust
<1>4. sidecar.active > 0 /\ (s = "stale" => sidecar'.versions[sidecar.active].content.seen # situation[r])
  BY <1>1, <1>2 DEF Distrust, Found, Valid, Current
<1>5. situation[r] \in Situations
  BY DEF Distrust, IInv, RequestsTyped, RequestTyped
<1> QED
  BY <1>1, <1>3, <1>4, <1>5, Values, ReachKeeps DEF Distrust

LEMMA MissStep ==
    ASSUME IInv, NEW r \in Requests, NEW fits \in BOOLEAN, Miss(r, fits)
    PROVE  IInv'
<1>1. RowInv' /\ Extends(sidecar, sidecar')
  BY NoWriteKeeps DEF IInv, Miss
<1>2. "planning" \in Stages \ {"written", "repeated", "answered"} /\ stage[r] # "answered"
  BY DEF Stages, Miss
<1>3. situation[r] \in Situations
  BY DEF Miss, IInv, RequestsTyped, RequestTyped
<1>4. recipe' \in [Requests -> BOOLEAN]
  BY Values DEF Miss
<1> QED
  BY <1>1, <1>2, <1>3, <1>4, Values, ReachKeeps DEF Miss

LEMMA LoadStep ==
    ASSUME IInv, NEW r \in Requests, Load(r)
    PROVE  IInv'
<1>1. RowInv' /\ Extends(sidecar, sidecar')
  BY NoWriteKeeps DEF IInv, Load
<1>2. "writing" \in Stages \ {"written", "repeated", "answered"} /\ stage[r] # "answered"
  BY DEF Stages, Load
<1>3. situation[r] \in Situations
  BY DEF Load, IInv, RequestsTyped, RequestTyped
<1>4. /\ base' = [base EXCEPT ![r] = sidecar.active] /\ sidecar.active \in 0..Len(sidecar.versions)
      /\ situation' = [situation EXCEPT ![r] = situation[r]] /\ situation[r] \in Situations \cup {Nil}
      /\ recipe' \in [Requests -> BOOLEAN]
  BY Values DEF Load
<1>5. Reach(r, "writing") /\ UNCHANGED <<receipt, order>>
  BY DEF Load
<1>6. PICK s \in Stages \ {"written", "repeated", "answered"}, b \in 0..Len(sidecar.versions), w \in Situations \cup {Nil} :
           s = "writing" /\ b = sidecar.active /\ w = situation[r]
  BY <1>2, <1>4
<1>7. /\ base' = [base EXCEPT ![r] = b] /\ situation' = [situation EXCEPT ![r] = w] /\ Reach(r, s)
  BY <1>4, <1>5, <1>6
<1>8. /\ s \in {"resolving", "stale", "surface-invalid", "planning", "writing"} => w \in Situations
      /\ s \notin {"stale", "surface-invalid"}
  BY <1>6, <1>3
<1> QED
  BY <1>1, <1>2, <1>4, <1>5, <1>7, <1>8, ReachKeeps

(* What a failed plan answers is never ready.                               *)
LEMMA GivesFailure == \A r : Gives(r) \in {"ready", "fallback", "failed"} /\ Gives(r) # "ready"
  BY DEF Gives

LEMMA PlanFailsStep ==
    ASSUME IInv, NEW r \in Requests, PlanFails(r)
    PROVE  IInv'
<1>1. RowInv' /\ Extends(sidecar, sidecar')
  BY NoWriteKeeps DEF IInv, PlanFails
<1> QED
  BY <1>1, GivesFailure, CompleteKeeps DEF PlanFails

(* An event of the log belongs to a transaction that is decided on the row.  *)
LEMMA Writes ==
    ASSUME IInv, NEW x, NEW e, EventOK(e), Sourced(sidecar, e),
           Appended(x, e) \/ UNCHANGED <<events, sidecar>>
    PROVE  RowInv' /\ Extends(sidecar, sidecar')
  BY AppendKeeps, NoWriteKeeps DEF IInv

LEMMA MarkStaleStep ==
    ASSUME IInv, NEW r \in Requests, MarkStale(r)
    PROVE  IInv'
<1> DEFINE e == StaleCommand(r)
<1>1. EventOK(e) /\ Sourced(sidecar, e)
  BY StaleCommandOK
<1>2. Appended(r, e) \/ UNCHANGED <<events, sidecar>>
  BY DEF MarkStale, Deduplicated, Swallowed, Refused, Fails, Landed
<1> HIDE DEF e
<1>3. RowInv' /\ Extends(sidecar, sidecar')
  BY <1>1, <1>2, Writes
<1>4. "planning" \in Stages \ {"written", "repeated", "answered"} /\ stage[r] # "answered"
  BY DEF Stages, MarkStale
<1>5. situation[r] \in Situations
  BY DEF MarkStale, IInv, RequestsTyped, RequestTyped
<1>6. /\ base' = [base EXCEPT ![r] = base[r]] /\ base[r] \in 0..Len(sidecar.versions)
      /\ situation' = [situation EXCEPT ![r] = situation[r]] /\ situation[r] \in Situations \cup {Nil}
      /\ recipe' \in [Requests -> BOOLEAN]
  BY Values DEF MarkStale
<1>7. Reach(r, "planning") /\ UNCHANGED <<receipt, order>>
  BY DEF MarkStale
<1>8. PICK s \in Stages \ {"written", "repeated", "answered"}, b \in 0..Len(sidecar.versions), w \in Situations \cup {Nil} :
           s = "planning" /\ b = base[r] /\ w = situation[r]
  BY <1>4, <1>6
<1>9. /\ base' = [base EXCEPT ![r] = b] /\ situation' = [situation EXCEPT ![r] = w] /\ Reach(r, s)
  BY <1>6, <1>7, <1>8
<1>10. /\ s \in {"resolving", "stale", "surface-invalid", "planning", "writing"} => w \in Situations
      /\ s \notin {"stale", "surface-invalid"}
  BY <1>8, <1>5
<1> QED
  BY <1>3, <1>4, <1>6, <1>7, <1>9, <1>10, ReachKeeps

(* The event of a surface that landed is active.                             *)
LEMMA ActiveAfter ==
    ASSUME IInv, NEW x, NEW e, EventOK(e), Sourced(sidecar, e),
           e.kind \in {"instantiated", "revised"}, Appended(x, e)
    PROVE  /\ sidecar'.active \in DOMAIN sidecar'.versions
           /\ sidecar'.versions[sidecar'.active].content = e.content
<1>1. SidecarOK(sidecar) /\ sidecar' = Fold(sidecar, e)
  BY DEF IInv, RowInv, Appended, Decided
<1>2. PICK v : /\ SidecarOK(sidecar') /\ Adds(sidecar, sidecar', v) /\ v.content = e.content
  BY <1>1, FoldNew
<1>3. Len(sidecar.versions) \in Nat /\ DOMAIN sidecar'.versions = 1..Len(sidecar'.versions)
  BY <1>1, <1>2, VersionsTyped
<1> QED
  BY <1>2, <1>3 DEF Adds

LEMMA PersistStep ==
    ASSUME IInv, NEW r \in Requests, Persist(r)
    PROVE  IInv'
<1> DEFINE e == SurfaceCommand(r)
<1>1. situation[r] \in Situations /\ stage[r] # "answered"
  BY DEF Persist, IInv, RequestsTyped, RequestTyped
<1>2. /\ EventOK(e) /\ Sourced(sidecar, e) /\ e.kind \in {"instantiated", "revised"}
      /\ e.content.seen = situation[r]
  BY <1>1, SurfaceCommandOK, PlannedTyped
<1>3. /\ base' = [base EXCEPT ![r] = sidecar'.active]
      /\ situation' = [situation EXCEPT ![r] = situation[r]]
      /\ recipe' \in [Requests -> BOOLEAN] /\ UNCHANGED <<receipt, order>>
  BY Values DEF Persist, VersionGiven
<1>4. /\ "written" \in Stages \ {"answered"} /\ "repeated" \in Stages \ {"answered"}
      /\ situation[r] \in Situations \cup {Nil}
  BY <1>1 DEF Stages
<1>5. CASE Appended(r, e) /\ Reach(r, "written")
  <2> HIDE DEF e
  <2>1. RowInv' /\ Extends(sidecar, sidecar')
    BY <1>2, <1>5, Writes
  <2>2. sidecar'.active \in DOMAIN sidecar'.versions /\ sidecar'.active \in 0..Len(sidecar'.versions)
    BY <1>2, <1>5, <2>1, ActiveAfter, Growth
  <2>3. sidecar'.active > 0 /\ sidecar'.versions[sidecar'.active].content.seen = situation[r]
    BY <1>2, <1>5, <2>1, <2>2, ActiveAfter, Growth
  <2> QED BY <1>1, <1>3, <1>4, <1>5, <2>1, <2>2, <2>3, AdvanceKeeps
<1>6. CASE Deduplicated(r, e) /\ Reach(r, "repeated")
  <2>1. UNCHANGED <<events, sidecar>>
    BY <1>6 DEF Deduplicated
  <2>2. RowInv' /\ Extends(sidecar, sidecar')
    BY <2>1, NoWriteKeeps DEF IInv
  <2>3. sidecar.active > 0
    <3>1. Processed(e) => sidecar.active > 0
      <4>1. Processed(e) => events # <<>>
        BY DEF Processed
      <4> QED BY <4>1 DEF IInv, RowInv, LogTyped
    <3> QED BY <1>6, <3>1 DEF Deduplicated, Existing, Decided
  <2>4. sidecar'.active > 0 /\ sidecar'.active \in 0..Len(sidecar'.versions)
    BY <2>1, <2>2, <2>3, Growth
  <2> HIDE DEF e
  <2> QED BY <1>1, <1>3, <1>4, <1>6, <2>2, <2>4, AdvanceKeeps
<1> QED
  BY <1>5, <1>6 DEF Persist

LEMMA PersistFailsStep ==
    ASSUME IInv, NEW r \in Requests, PersistFails(r)
    PROVE  IInv'
<1> DEFINE e == SurfaceCommand(r)
<1>1. situation[r] \in Situations
  BY DEF PersistFails, IInv, RequestsTyped, RequestTyped
<1>2. EventOK(e) /\ Sourced(sidecar, e)
  BY <1>1, SurfaceCommandOK
<1>3. Appended(r, e) \/ UNCHANGED <<events, sidecar>>
  BY DEF PersistFails, Refused, Fails, Landed
<1> HIDE DEF e
<1>4. RowInv' /\ Extends(sidecar, sidecar')
  BY <1>2, <1>3, Writes
<1> QED
  BY <1>4, GivesFailure, CompleteKeeps DEF PersistFails

LEMMA AnswerReadyStep ==
    ASSUME IInv, NEW r \in Requests, AnswerReady(r)
    PROVE  IInv'
<1>1. RowInv' /\ Extends(sidecar, sidecar') /\ sidecar' = sidecar
  BY NoWriteKeeps DEF IInv, AnswerReady
<1>2. base[r] \in 0..Len(sidecar.versions) /\ base[r] > 0
  BY DEF AnswerReady, IInv, RequestsTyped, RequestTyped
<1>3. base[r] \in DOMAIN sidecar'.versions
  BY <1>1, <1>2, Growth
<1> QED
  BY <1>1, <1>3, CompleteKeeps DEF AnswerReady

LEMMA LookStep ==
    ASSUME IInv, NEW h \in People, Look(h)
    PROVE  IInv'
<1>1. RowInv' /\ Extends(sidecar, sidecar')
  BY NoWriteKeeps DEF IInv, Look
<1>2. base[h] = 0
  BY DEF Look, Unchosen, IInv, OrdersTyped
<1>3. 0 \in 0..Len(sidecar.versions) /\ base' = [base EXCEPT ![h] = 0]
  BY <1>1, <1>2, Growth DEF Look, IInv, RequestsTyped
<1> QED
  BY <1>1, <1>3, PersonKeeps DEF Look

LEMMA OpenStep ==
    ASSUME IInv, NEW h \in People, Open(h)
    PROVE  IInv'
<1>1. RowInv' /\ Extends(sidecar, sidecar')
  BY NoWriteKeeps DEF IInv, Open
<1>2. PICK o \in Orders(order[h]) : order' = [order EXCEPT ![h] = o]
  BY DEF Open
<1>3. o.op \in {"pin", "revert", "patch"} /\ (o.op = "patch" => o.path \in Paths)
  <2>1. CASE o \in {[op |-> "pin"]}
    BY <2>1
  <2>2. CASE \E v \in DOMAIN sidecar.versions : o = [op |-> "revert", target |-> v]
    BY <2>2
  <2>3. CASE \E p \in Paths : o = [op |-> "patch", shown |-> order[h].shown, path |-> p]
    BY <2>3
  <2> QED BY <2>1, <2>2, <2>3 DEF Orders
<1>4. sidecar.active \in 0..Len(sidecar.versions) /\ sidecar.active > 0
  BY Growth, <1>1 DEF Open, Found
<1> QED
  BY <1>1, <1>2, <1>3, <1>4, PersonKeeps DEF Open

(* Closing a human's order keeps the invariant, whatever was written with   *)
(* it.                                                                      *)
LEMMA CloseKeeps ==
    ASSUME IInv, RowInv', Extends(sidecar, sidecar'), NEW h \in People, Close(h), UNCHANGED broker
    PROVE  IInv'
<1>1. 0 \in 0..Len(sidecar.versions)
  BY Growth
<1> QED
  BY <1>1, PersonKeeps DEF Close

LEMMA GiveUpStep ==
    ASSUME IInv, NEW h \in People, GiveUp(h)
    PROVE  IInv'
<1>1. RowInv' /\ Extends(sidecar, sidecar')
  BY NoWriteKeeps DEF IInv, GiveUp
<1> QED
  BY <1>1, CloseKeeps DEF GiveUp

LEMMA SendStep ==
    ASSUME IInv, NEW h \in People, Send(h)
    PROVE  IInv'
<1> DEFINE e == HumanCommand(h)
<1>1. EventOK(e) /\ Sourced(sidecar, e)
  BY HumanCommandOK DEF IInv, Send, Close
<1>2. Appended(h, e) \/ UNCHANGED <<events, sidecar>>
  BY DEF Send, Refused, Fails, Landed
<1> HIDE DEF e
<1>3. RowInv' /\ Extends(sidecar, sidecar')
  BY <1>1, <1>2, Writes
<1> QED
  BY <1>3, CloseKeeps DEF Send

LEMMA RestartStep ==
    ASSUME IInv, Restart
    PROVE  IInv'
<1>1. RowInv' /\ Extends(sidecar, sidecar')
  BY NoWriteKeeps DEF IInv, Restart
<1>2. stage' \in [Requests -> Stages] /\ \A r \in Requests : stage'[r] = "new"
  BY DEF Restart, Stages
<1>3. \A r \in Requests : RequestTyped(r)'
  BY <1>2 DEF RequestTyped
<1>4. AnswersTyped'
  <2>1. DOMAIN receipt' = Requests /\ \A r \in Requests : receipt'[r] = None
    BY DEF Restart
  <2> QED BY <1>2, <2>1 DEF AnswersTyped, AnswerTyped, None
<1>5. situation' \in [Requests -> Situations \cup {Nil}] /\ recipe' \in [Requests -> BOOLEAN]
  BY DEF Restart
<1>6. base' \in [Requests \cup People -> 0..Len(sidecar'.versions)] /\ \A h \in People : base'[h] = 0
  BY <1>1, Growth DEF Restart
<1>7. RequestsTyped'
  BY <1>2, <1>3, <1>5, <1>6 DEF RequestsTyped
<1>8. OrdersTyped'
  BY <1>6 DEF OrdersTyped, Restart
<1> QED
  BY <1>1, <1>4, <1>7, <1>8 DEF IInv

LEMMA StutterStep ==
    ASSUME IInv, UNCHANGED vars
    PROVE  IInv'
<1>1. RowInv' /\ Extends(sidecar, sidecar')
  BY NoWriteKeeps DEF IInv, vars
<1>2. RequestsTyped'
  BY DEF IInv, RequestsTyped, RequestTyped, vars, broker
<1>3. AnswersTyped'
  BY DEF IInv, AnswersTyped, AnswerTyped, vars, broker
<1>4. OrdersTyped'
  BY DEF IInv, OrdersTyped, vars
<1> QED
  BY <1>1, <1>2, <1>3, <1>4 DEF IInv

-----------------------------------------------------------------------------
(* The invariant.                                                           *)
LEMMA InitInv == Init => IInv
<1> SUFFICES ASSUME Init PROVE IInv
  OBVIOUS
<1>1. /\ sidecar = NoSidecar /\ sidecar.versions = <<>> /\ sidecar.active = 0 /\ ~sidecar.stale
      /\ Len(sidecar.versions) = 0
  BY DEF Init, NoSidecar
<1>2. SidecarOK(sidecar)
  <2> DEFINE V == VersionRecord
  <2> HIDE DEF V
  <2>1. NoSidecar \in [versions : Seq(V), active : Nat, stale : BOOLEAN]
    BY DEF NoSidecar
  <2>2. sidecar \in SidecarRecord
    BY <1>1, <2>1 DEF SidecarRecord, V
  <2> QED BY <1>1, <2>2 DEF SidecarOK
<1>3. Provenance(sidecar)
  BY <1>1 DEF Provenance
<1>4. LogTyped
  <2>1. Replay(events) = [ok |-> TRUE, row |-> sidecar]
    BY <1>1, ReplayEmpty DEF Init, Start
  <2> QED BY <2>1 DEF LogTyped, RowIsReplay, Init
<1>5. RequestsTyped
  <2>1. base \in [Requests \cup People -> 0..Len(sidecar.versions)]
    BY <1>1 DEF Init
  <2> QED BY <2>1 DEF RequestsTyped, RequestTyped, Stages, Init
<1>6. AnswersTyped
  BY DEF AnswersTyped, AnswerTyped, None, Init
<1>7. OrdersTyped
  BY DEF OrdersTyped, Init
<1> QED
  BY <1>2, <1>3, <1>4, <1>5, <1>6, <1>7 DEF IInv, RowInv

LEMMA NextInv == IInv /\ [Next]_vars => IInv'
<1> SUFFICES ASSUME IInv, [Next]_vars PROVE IInv'
  OBVIOUS
<1>1. ASSUME NEW r \in Requests, Claim(r) \/ Work(r) PROVE IInv'
  <2>1. CASE Claim(r)
    BY <2>1, ClaimStep
  <2>2. ASSUME NEW w \in Situations, Authorize(r, w) PROVE IInv'
    BY <2>2, AuthorizeStep
  <2>3. CASE Deny(r)
    BY <2>3, DenyStep
  <2>4. CASE Reuse(r)
    BY <2>4, ReuseStep
  <2>5. CASE Distrust(r)
    BY <2>5, DistrustStep
  <2>6. CASE MarkStale(r)
    BY <2>6, MarkStaleStep
  <2>7. ASSUME NEW fits \in BOOLEAN, Miss(r, fits) PROVE IInv'
    BY <2>7, MissStep
  <2>8. CASE Load(r)
    BY <2>8, LoadStep
  <2>9. CASE PlanFails(r)
    BY <2>9, PlanFailsStep
  <2>10. CASE Persist(r)
    BY <2>10, PersistStep
  <2>11. CASE PersistFails(r)
    BY <2>11, PersistFailsStep
  <2>12. CASE AnswerReady(r)
    BY <2>12, AnswerReadyStep
  <2> QED BY <1>1, <2>1, <2>2, <2>3, <2>4, <2>5, <2>6, <2>7, <2>8, <2>9, <2>10, <2>11, <2>12 DEF Work
<1>2. ASSUME NEW h \in People, Look(h) \/ Open(h) \/ GiveUp(h) \/ Send(h) PROVE IInv'
  BY <1>2, LookStep, OpenStep, GiveUpStep, SendStep
<1>3. CASE Restart
  BY <1>3, RestartStep
<1>4. CASE UNCHANGED vars
  BY <1>4, StutterStep
<1> QED
  BY <1>1, <1>2, <1>3, <1>4 DEF Next

(* The inductive invariant holds of every behaviour.                         *)
THEOREM Invariance == Spec => []IInv
<1>1. Init => IInv
  BY InitInv
<1>2. IInv /\ [Next]_vars => IInv'
  BY NextInv
<1> QED
  BY <1>1, <1>2, PTL DEF Spec

(* The inductive invariant implies the type invariant of the model.         *)
LEMMA InvTyped == IInv => TypeOK
<1> SUFFICES ASSUME IInv PROVE TypeOK
  OBVIOUS
<1>1. /\ sidecar.active \in 0..Len(sidecar.versions) /\ (sidecar.active = 0) = (sidecar.versions = <<>>)
      /\ sidecar.stale => sidecar.active > 0
  BY VersionsTyped DEF IInv, RowInv, SidecarOK
<1>2. ASSUME NEW v \in DOMAIN sidecar.versions
      PROVE  /\ sidecar.versions[v].content \in Contents /\ sidecar.versions[v].pinned \in BOOLEAN
             /\ sidecar.versions[v].paths \subseteq Paths \cup {"$retention"}
  BY VersionsTyped DEF IInv, RowInv, VersionRecord
<1>3. Sidecars(sidecar)
  BY <1>1, <1>2 DEF Sidecars
<1> QED
  BY <1>3 DEF TypeOK, IInv, RequestsTyped, Stages, AnswersTyped, AnswerTyped

(* Types, and the answers of every request: a receipt that is ready names a  *)
(* version that exists, however the sidecar was written meanwhile.          *)
THEOREM TypeCorrect == Spec => []TypeOK
  BY Invariance, InvTyped, PTL

(* The events always replay, and to the row every command is decided on      *)
(* (appendSidecarCommand, rebuildPresentationProjection).                   *)
THEOREM RowReplays == Spec => []RowIsReplay
<1>1. IInv => RowIsReplay
  BY DEF IInv, RowInv, LogTyped
<1> QED
  BY <1>1, Invariance, PTL

-----------------------------------------------------------------------------
(* Action properties.                                                       *)
LEMMA WhoWrites ==
    ASSUME [Next]_vars
    PROVE  \/ UNCHANGED <<events, sidecar>>
           \/ \E r \in Requests : MarkStale(r) /\ Appended(r, StaleCommand(r))
           \/ \E r \in Requests : (Persist(r) \/ PersistFails(r)) /\ Appended(r, SurfaceCommand(r))
           \/ \E h \in People : Send(h) /\ Appended(h, HumanCommand(h))
<1>1. ASSUME NEW r \in Requests, Claim(r) PROVE UNCHANGED <<events, sidecar>>
  BY <1>1 DEF Claim
<1>2. ASSUME NEW r \in Requests, Work(r)
      PROVE  \/ UNCHANGED <<events, sidecar>>
             \/ MarkStale(r) /\ Appended(r, StaleCommand(r))
             \/ (Persist(r) \/ PersistFails(r)) /\ Appended(r, SurfaceCommand(r))
  <2>1. CASE MarkStale(r)
    BY <2>1 DEF MarkStale, Deduplicated, Swallowed, Refused, Fails, Landed
  <2>2. CASE Persist(r) \/ PersistFails(r)
    BY <2>2 DEF Persist, PersistFails, Deduplicated, Refused, Fails, Landed
  <2>3. CASE ~MarkStale(r) /\ ~Persist(r) /\ ~PersistFails(r)
    BY <1>2, <2>3 DEF Work, Authorize, Deny, Reuse, Distrust, Miss, Load, PlanFails, AnswerReady
  <2> QED BY <2>1, <2>2, <2>3
<1>3. ASSUME NEW h \in People, Look(h) \/ Open(h) \/ GiveUp(h) PROVE UNCHANGED <<events, sidecar>>
  BY <1>3 DEF Look, Open, GiveUp
<1>4. ASSUME NEW h \in People, Send(h)
      PROVE  UNCHANGED <<events, sidecar>> \/ (Send(h) /\ Appended(h, HumanCommand(h)))
  BY <1>4 DEF Send, Refused, Fails, Landed
<1>5. CASE Restart
  BY <1>5 DEF Restart
<1>6. CASE UNCHANGED vars
  BY <1>6 DEF vars
<1> QED
  BY <1>1, <1>2, <1>3, <1>4, <1>5, <1>6 DEF Next

(* Every write is the fold of a well-formed event that the row takes.        *)
LEMMA WriteIsFold ==
    ASSUME IInv, [Next]_vars, sidecar' # sidecar
    PROVE  \E e : EventOK(e) /\ Takes(sidecar, e) /\ sidecar' = Fold(sidecar, e)
<1>1. ASSUME NEW r \in Requests, Appended(r, StaleCommand(r))
      PROVE  \E e : EventOK(e) /\ Takes(sidecar, e) /\ sidecar' = Fold(sidecar, e)
  BY <1>1, StaleCommandOK DEF Appended, Decided
<1>2. ASSUME NEW r \in Requests, Persist(r) \/ PersistFails(r), Appended(r, SurfaceCommand(r))
      PROVE  \E e : EventOK(e) /\ Takes(sidecar, e) /\ sidecar' = Fold(sidecar, e)
  <2>1. situation[r] \in Situations
    BY <1>2 DEF Persist, PersistFails, IInv, RequestsTyped, RequestTyped
  <2> QED BY <1>2, <2>1, SurfaceCommandOK DEF Appended, Decided
<1>3. ASSUME NEW h \in People, Send(h), Appended(h, HumanCommand(h))
      PROVE  \E e : EventOK(e) /\ Takes(sidecar, e) /\ sidecar' = Fold(sidecar, e)
  <2>1. base[h] # 0
    BY <1>3 DEF Send
  <2> QED BY <1>3, <2>1, HumanCommandOK DEF IInv, Appended, Decided
<1> QED
  BY <1>1, <1>2, <1>3, WhoWrites

(* A version added to a pinned row is pinned as well.                       *)
LEMMA FoldPinned ==
    ASSUME NEW s, SidecarOK(s), NEW e, EventOK(e), Takes(s, e), Pinned(s),
           Len(Fold(s, e).versions) > Len(s.versions)
    PROVE  Pinned(Fold(s, e))
<1> DEFINE t == Fold(s, e)
<1>1. Len(s.versions) \in Nat
  BY VersionsTyped
<1>2. ASSUME NEW x, Adds(s, t, x), x.pinned PROVE Pinned(t)
  <2>1. t.active = Len(s.versions) + 1 /\ t.versions[t.active] = x
    BY <1>2 DEF Adds
  <2>2. t.active > 0 /\ Current(t) = x
    BY <1>1, <2>1 DEF Current
  <2> QED BY <1>2, <2>2 DEF Pinned
<1>3. CASE e.kind \in {"instantiated", "revised"}
  <2>1. PICK x : Adds(s, t, x) /\ x.pinned = Pinned(s)
    BY <1>3, FoldNew
  <2> QED BY <1>2, <2>1
<1>4. CASE e.kind = "pinned"
  <2>1. s.active > 0
    BY <1>4 DEF Takes, Unmoved
  <2>2. PICK x : Adds(s, t, x) /\ x.pinned
    BY <1>4, <2>1, FoldPin
  <2> QED BY <1>2, <2>2
<1>5. CASE e.kind \in {"staled", "reverted"}
  <2>1. t.versions = s.versions
    BY <1>5, FoldMove
  <2> QED BY <1>1, <2>1
<1> QED
  BY <1>3, <1>4, <1>5 DEF EventOK

(* A pinned sidecar stays pinned through every later version (retention in   *)
(* foldOne).                                                                *)
THEOREM PinsStay == Spec => PinKept
<1>1. ASSUME IInv, [Next]_vars, Pinned(sidecar), Len(sidecar'.versions) > Len(sidecar.versions)
      PROVE  Pinned(sidecar')
  <2>1. SidecarOK(sidecar) /\ Len(sidecar.versions) \in Nat
    BY <1>1, VersionsTyped DEF IInv, RowInv
  <2>2. sidecar' # sidecar
    BY <1>1, <2>1
  <2>3. PICK e : EventOK(e) /\ Takes(sidecar, e) /\ sidecar' = Fold(sidecar, e)
    BY <1>1, <2>2, WriteIsFold
  <2> QED BY <1>1, <2>1, <2>3, FoldPinned
<1>2. IInv /\ [Next]_vars =>
        (Pinned(sidecar) /\ Len(sidecar'.versions) > Len(sidecar.versions) => Pinned(sidecar'))
  BY <1>1
<1> QED
  BY <1>2, Invariance, PTL DEF Spec, PinKept

(* Only the staled event sets the stale mark.                               *)
LEMMA FoldStale ==
    ASSUME NEW s, SidecarOK(s), NEW e, EventOK(e), Takes(s, e), ~s.stale, Fold(s, e).stale
    PROVE  e.kind = "staled"
<1>1. e.kind \in {"instantiated", "revised"} => ~Fold(s, e).stale
  BY FoldNew
<1>2. e.kind = "pinned" => ~Fold(s, e).stale
  <2>1. e.kind = "pinned" => s.active > 0
    BY DEF Takes, Unmoved
  <2> QED BY <2>1, FoldPin
<1>3. e.kind = "reverted" => ~Fold(s, e).stale
  BY FoldMove
<1> QED
  BY <1>1, <1>2, <1>3 DEF EventOK

(* A stale mark lands on the version its author examined, against the        *)
(* situation it read (activeVersion of user-sidecar-staled).                 *)
THEOREM MarksJudge == Spec => StaleIsJudged
<1>1. ASSUME IInv, [Next]_vars, ~sidecar.stale, sidecar'.stale
      PROVE  \E r \in Requests :
                /\ stage[r] \in {"stale", "surface-invalid"}
                /\ base[r] = sidecar.active
                /\ stage[r] = "stale" => Current(sidecar).content.seen # situation[r]
  <2>1. sidecar' # sidecar /\ SidecarOK(sidecar)
    BY <1>1 DEF IInv, RowInv
  <2>2. CASE \E r \in Requests : MarkStale(r) /\ Appended(r, StaleCommand(r))
    <3>1. PICK r \in Requests : MarkStale(r) /\ Appended(r, StaleCommand(r))
      BY <2>2
    <3>2. base[r] = sidecar.active
      <4>1. Takes(sidecar, StaleCommand(r))
        BY <3>1 DEF Appended, Decided
      <4> QED BY <4>1, StaleCommandOK DEF Takes, Unmoved
    <3>3. stage[r] \in {"stale", "surface-invalid"}
      BY <3>1 DEF MarkStale
    <3>4. stage[r] = "stale" => Current(sidecar).content.seen # situation[r]
      BY <1>1, <3>2 DEF IInv, RequestsTyped, RequestTyped, Current
    <3> QED BY <3>2, <3>3, <3>4
  <2>3. CASE \E r \in Requests : (Persist(r) \/ PersistFails(r)) /\ Appended(r, SurfaceCommand(r))
    <3>1. PICK r \in Requests : (Persist(r) \/ PersistFails(r)) /\ Appended(r, SurfaceCommand(r))
      BY <2>3
    <3>2. situation[r] \in Situations
      BY <1>1, <3>1 DEF Persist, PersistFails, IInv, RequestsTyped, RequestTyped
    <3>3. PICK e : e = SurfaceCommand(r)
      OBVIOUS
    <3>4. /\ EventOK(e) /\ e.kind \in {"instantiated", "revised"}
          /\ Takes(sidecar, e) /\ sidecar' = Fold(sidecar, e)
      BY <3>1, <3>2, <3>3, SurfaceCommandOK DEF Appended, Decided
    <3> QED BY <1>1, <2>1, <3>4, FoldStale
  <2>4. CASE \E h \in People : Send(h) /\ Appended(h, HumanCommand(h))
    <3>1. PICK h \in People : Send(h) /\ Appended(h, HumanCommand(h))
      BY <2>4
    <3>2. base[h] # 0
      BY <3>1 DEF Send
    <3>3. PICK e : e = HumanCommand(h)
      OBVIOUS
    <3>4. /\ EventOK(e) /\ e.kind \in {"pinned", "reverted", "revised"}
          /\ Takes(sidecar, e) /\ sidecar' = Fold(sidecar, e)
      BY <1>1, <3>1, <3>2, <3>3, HumanCommandOK DEF IInv, Appended, Decided
    <3> QED BY <1>1, <2>1, <3>4, FoldStale
  <2> QED BY <1>1, <2>1, <2>2, <2>3, <2>4, WhoWrites
<1>2. IInv /\ [Next]_vars =>
        (~sidecar.stale /\ sidecar'.stale =>
          \E r \in Requests :
            /\ stage[r] \in {"stale", "surface-invalid"}
            /\ base[r] = sidecar.active
            /\ stage[r] = "stale" => Current(sidecar).content.seen # situation[r])
  BY <1>1
<1> QED
  BY <1>2, Invariance, PTL DEF Spec, StaleIsJudged

(* A patch that is taken for a path finds the edit in force among the        *)
(* versions up to the one its author read: whoever wrote it later would have *)
(* touched the path after the base.                                         *)
LEMMA EditWasRead ==
    ASSUME NEW s, SidecarOK(s), Provenance(s), s.active > 0, NEW p \in Paths,
           NEW b \in 1..s.active, b = s.active \/ {p} \cap Touched(s, b) = {},
           EditAt(s, s.active, p) # Nil
    PROVE  \E v \in 1..b : EditAt(s, v, p) = EditAt(s, s.active, p)
<1> DEFINE n == Len(s.versions)
           g == EditAt(s, s.active, p)
           Same == {v \in 1..n : EditAt(s, v, p) = g}
<1>1. n \in Nat /\ s.active \in 1..n /\ DOMAIN s.versions = 1..n
  BY CurrentVersion, VersionsTyped
<1>2. CASE b = s.active
  BY <1>1, <1>2
<1>3. CASE {p} \cap Touched(s, b) = {}
  <2>1. Same \in SUBSET Nat /\ Same # {}
    BY <1>1
  <2>2. PICK u \in Same : \A v \in Same : u <= v
    BY <2>1, LeastNatural
  <2>3. u \in 1..n /\ EditAt(s, u, p) = g
    BY <2>2
  <2>4. p \in s.versions[u].paths
    <3>1. SUFFICES ASSUME p \notin s.versions[u].paths PROVE FALSE
      OBVIOUS
    <3>2. PICK v \in 1..(u - 1) : EditAt(s, v, p) = EditAt(s, u, p)
      BY <1>1, <2>3, <3>1 DEF Provenance
    <3>3. v \in Same /\ v < u
      BY <1>1, <2>3, <3>2
    <3> QED BY <1>1, <2>2, <2>3, <3>2, <3>3
  <2>5. u \notin (b + 1)..n
    BY <1>3, <2>4 DEF Touched
  <2>6. u \in 1..b
    BY <1>1, <2>3, <2>5
  <2> QED BY <2>3, <2>6
<1> QED
  BY <1>2, <1>3

(* A patch overwrites no edit that landed after the version the route read   *)
(* for it, however many versions lie between (interveningPaths of the        *)
(* revised event).                                                          *)
THEOREM NoBlindOverwrite == Spec => OverwrittenAsRead
<1>1. ASSUME IInv, [Next]_vars, NEW h \in People, NEW p \in Paths, Overwrites(h, p)
      PROVE  InVersions(1..base[h], p)
  <2>0. /\ order[h].op = "patch" /\ order[h].path = p /\ order'[h] # order[h]
        /\ Len(sidecar'.versions) > Len(sidecar.versions)
        /\ Current(sidecar).content.edits[p] # Nil
    BY <1>1 DEF Overwrites
  <2>1. SidecarOK(sidecar) /\ Provenance(sidecar) /\ Len(sidecar.versions) \in Nat
    BY <1>1, VersionsTyped DEF IInv, RowInv
  <2>2. sidecar' # sidecar
    BY <2>0, <2>1
  <2>3. PICK k \in People : Send(k) /\ Appended(k, HumanCommand(k))
    <3>1. ASSUME NEW r \in Requests, MarkStale(r) PROVE FALSE
      BY <2>0, <3>1 DEF MarkStale
    <3>2. ASSUME NEW r \in Requests, Persist(r) \/ PersistFails(r) PROVE FALSE
      BY <2>0, <3>2 DEF Persist, PersistFails
    <3> QED BY <1>1, <2>2, <3>1, <3>2, WhoWrites
  <2>4. k = h
    BY <1>1, <2>0, <2>3 DEF Send, Close, IInv, OrdersTyped
  <2>5. base[h] # 0
    BY <2>3, <2>4 DEF Send
  <2>6. PICK e : e = HumanCommand(h)
    OBVIOUS
  <2>7. e.kind = "revised" /\ e.base = base[h] /\ e.paths = {p} /\ Takes(sidecar, e)
    BY <1>1, <2>0, <2>3, <2>4, <2>5, <2>6, HumanCommandOK DEF IInv, Appended, Decided
  <2>8. base[h] \in 1..sidecar.active /\ (base[h] = sidecar.active \/ {p} \cap Touched(sidecar, base[h]) = {})
    BY <2>7 DEF Takes
  <2>9. sidecar.active > 0
    BY <2>1, <2>8, VersionsTyped
  <2>10. \A v : sidecar.versions[v].content.edits[p] = EditAt(sidecar, v, p)
    BY DEF EditAt
  <2>11. EditAt(sidecar, sidecar.active, p) # Nil
    BY <2>0 DEF Current, EditAt
  <2>12. PICK v \in 1..base[h] : EditAt(sidecar, v, p) = EditAt(sidecar, sidecar.active, p)
    BY <2>1, <2>8, <2>9, <2>11, EditWasRead
  <2> QED BY <2>10, <2>12 DEF Current, InVersions
<1>2. IInv /\ [Next]_vars =>
        \A h \in People, p \in Paths : Overwrites(h, p) => InVersions(1..base[h], p)
  BY <1>1
<1> QED
  BY <1>2, Invariance, PTL DEF Spec, OverwrittenAsRead

(* What a request that completes is answered.                                *)
LEMMA Answered ==
    ASSUME IInv, NEW r \in Requests, NEW s, NEW v, Complete(r, s, v)
    PROVE  /\ receipt'[r].status = s /\ receipt'[r].version = v
           /\ \A o \in Requests \ {r} : receipt'[o] = receipt[o]
<1>1. DOMAIN receipt = Requests /\ receipt' = [receipt EXCEPT ![r] = Outcome(s, v)]
  BY DEF IInv, AnswersTyped, Complete
<1>2. receipt'[r] = Outcome(s, v) /\ \A o \in Requests \ {r} : receipt'[o] = receipt[o]
  BY <1>1
<1> QED
  BY <1>2 DEF Outcome

(* A request becomes ready by reuse, or after its surface was persisted.    *)
LEMMA WhoAnswers ==
    ASSUME IInv, [Next]_vars, NEW r \in Requests, receipt[r] = None, receipt'[r].status = "ready"
    PROVE  Reuse(r) \/ AnswerReady(r)
<1>1. receipt'[r] # receipt[r]
  BY DEF None
<1>2. ASSUME NEW o \in Requests, Claim(o) \/ Work(o) PROVE Reuse(r) \/ AnswerReady(r)
  <2>1. ASSUME ~Deny(o), ~Reuse(o), ~PlanFails(o), ~PersistFails(o), ~AnswerReady(o) PROVE FALSE
    BY <1>1, <1>2, <2>1 DEF Claim, Work, Authorize, Distrust, MarkStale, Miss, Load, Persist
  <2>2. ASSUME Deny(o) PROVE FALSE
    <3>1. Complete(o, "failed", 0)
      BY <2>2 DEF Deny
    <3> QED BY <1>1, <3>1, Answered
  <2>3. ASSUME PlanFails(o) \/ PersistFails(o) PROVE FALSE
    <3>1. Complete(o, Gives(o), 0)
      BY <2>3 DEF PlanFails, PersistFails
    <3> QED BY <1>1, <3>1, Answered, GivesFailure
  <2>4. CASE Reuse(o)
    <3>1. Complete(o, "ready", sidecar.active)
      BY <2>4 DEF Reuse
    <3>2. o = r
      BY <1>1, <3>1, Answered
    <3> QED BY <2>4, <3>2
  <2>5. CASE AnswerReady(o)
    <3>1. Complete(o, "ready", base[o])
      BY <2>5 DEF AnswerReady
    <3>2. o = r
      BY <1>1, <3>1, Answered
    <3> QED BY <2>5, <3>2
  <2> QED BY <2>1, <2>2, <2>3, <2>4, <2>5
<1>3. ASSUME NEW h \in People, Look(h) \/ Open(h) \/ GiveUp(h) \/ Send(h) PROVE FALSE
  BY <1>1, <1>3 DEF Look, Open, GiveUp, Send, broker
<1>4. ASSUME Restart PROVE FALSE
  BY <1>1, <1>4 DEF Restart
<1>5. ASSUME UNCHANGED vars PROVE FALSE
  BY <1>1, <1>5 DEF vars, broker
<1> QED
  BY <1>2, <1>3, <1>4, <1>5 DEF Next

(* A ready answer fits the situation its request was authorized for, though  *)
(* others write between the transaction and the answer (persistSurface,      *)
(* commitTerminal).                                                         *)
THEOREM AnswersFit == Spec => AnswerFits
<1>1. ASSUME IInv, [Next]_vars, NEW r \in Requests, receipt[r] = None,
             receipt'[r].status = "ready", stage[r] # "repeated"
      PROVE  sidecar.versions[receipt'[r].version].content.seen = situation[r]
  <2>1. CASE Reuse(r)
    <3>1. receipt'[r].version = sidecar.active
      BY <1>1, <2>1, Answered DEF Reuse
    <3> QED BY <2>1, <3>1 DEF Reuse, Valid, Current
  <2>2. CASE AnswerReady(r)
    <3>1. receipt'[r].version = base[r] /\ stage[r] = "written"
      BY <1>1, <2>2, Answered DEF AnswerReady
    <3> QED BY <1>1, <3>1 DEF IInv, RequestsTyped, RequestTyped
  <2> QED BY <1>1, <2>1, <2>2, WhoAnswers
<1>2. IInv /\ [Next]_vars =>
        \A r \in Requests :
          (receipt[r] = None /\ receipt'[r].status = "ready" /\ stage[r] # "repeated")
          => sidecar.versions[receipt'[r].version].content.seen = situation[r]
  BY <1>1
<1> QED
  BY <1>2, Invariance, PTL DEF Spec, AnswerFits
=============================================================================
