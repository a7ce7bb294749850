---------------------------- MODULE AnchorsProofs ----------------------------
(***************************************************************************)
(* Proofs about the fact anchors and the symbol index: what the index says  *)
(* when a refresh answers ready, and when recall may call an anchor stale.   *)
(***************************************************************************)
EXTENDS Anchors, FiniteSetTheorems, TLAPS

Stage == {"commit", "overlay", "stale", "dirty", "record"}
Jobs ==
  [at : Stage, budgeted : BOOLEAN, head : 1..Len(commits), listed : BOOLEAN,
   todo : SUBSET File, stale : SUBSET File, dirty : SUBSET File,
   ops : [File -> {"keep", "drop", "upsert"}], seen : [File -> Content],
   whole : BOOLEAN, reconciled : BOOLEAN, done : BOOLEAN]

SymbolType ==
  /\ tree \in [File -> Content] /\ commits \in Seq([File -> Content])
  /\ head \in 1..Len(commits) /\ indexed \in 0..Len(commits) /\ ready \in 0..Len(commits)
  /\ rows \in SUBSET File /\ overlay \in SUBSET File
  /\ excused \in SUBSET File /\ adrift \in SUBSET File /\ unrecorded \in SUBSET File /\ behind \in SUBSET File
  /\ job = NoJob \/ job \in Jobs

AnchorType ==
  /\ Existing \subseteq Anchor
  /\ \A a \in Existing :
       anchors[a] \in [kind : {"file", "symbol"}, file : File, state : {"claimed", "verified", "stale"}]

(* The index holds no row of a file it cannot parse, and what it has read of a   *)
(* file that no race or failed parse hides is what the file still says.          *)
Current ==
  \A f \in File : /\ f \in Unsupported => f \notin rows
                  /\ f \notin Unsupported \cup behind \cup excused => (f \in rows <=> tree[f] = "with")

(* Rows that no record accounts for are gaps: the others are those of the stamp. *)
Gaps == adrift \cup unrecorded
Accounted ==
  indexed # 0 =>
    \A f \in File \ (overlay \cup Gaps \cup excused) : f \in rows <=> Shows(commits[indexed], f)

(* What a refresh is about to apply is what it read, and a file that changed since *)
(* is known to have changed.                                                      *)
Pending ==
  job # NoJob =>
    \A f \in Applied : /\ f \notin Unsupported
                       /\ job.ops[f] = "upsert" <=> job.seen[f] = "with"
                       /\ job.seen[f] # tree[f] => f \in behind \cap excused

(* A file the commit stage neither reads nor has read already shows the commit. *)
Stamping ==
  job.at = "commit" /\ job.listed /\ job.whole =>
    \A f \in File \ (job.todo \cup Applied \cup overlay \cup Gaps \cup excused) :
      f \in rows <=> Shows(commits[job.head], f)

(* The overlay list the refresh replaces: its clean files are read, or failed to   *)
(* parse, before the list lets go of them.                                        *)
Covered == job.at \in {"stale", "dirty", "record"} => overlay \subseteq job.dirty \cup job.stale
Reconciling ==
  /\ job.at = "stale" /\ job.whole => job.stale \subseteq job.todo \cup Applied \cup excused \cup Unsupported
  /\ job.at = "dirty" /\ job.reconciled => job.stale \subseteq Applied \cup excused \cup Unsupported
  /\ job.at = "record" /\ job.reconciled /\ indexed # 0 =>
       \A f \in job.stale \ (Gaps \cup excused) : f \in rows <=> Shows(commits[indexed], f)

JobInv == Pending /\ Stamping /\ Covered /\ Reconciling
SymbolInv == SymbolType /\ Current /\ Accounted /\ JobInv /\ ReadyTruthful

---------------------------------------------------------------------------
LEMMA InitSymbolInv == SymbolInit => SymbolInv
<1> SUFFICES ASSUME SymbolInit PROVE SymbolInv
  OBVIOUS
<1> USE DEF SymbolInit
<1>1. SymbolType
  <2>1. tree \in [File -> Content] /\ commits \in Seq([File -> Content]) /\ Len(commits) = 1
    BY DEF Unseen, Content
  <2> QED BY <2>1 DEF SymbolType
<1>2. Current
  BY DEF Current
<1>3. Accounted /\ ReadyTruthful
  BY DEF Accounted, ReadyTruthful
<1>4. JobInv
  BY DEF JobInv, Pending, Stamping, Covered, Reconciling, NoJob
<1> QED BY <1>1, <1>2, <1>3, <1>4 DEF SymbolInv

LEMMA JobFields ==
  ASSUME SymbolType, job # NoJob
  PROVE  /\ job \in Jobs /\ job.at \in Stage /\ job.head \in 1..Len(commits)
         /\ job.todo \in SUBSET File /\ job.stale \in SUBSET File /\ job.dirty \in SUBSET File
         /\ job.ops \in [File -> {"keep", "drop", "upsert"}] /\ job.seen \in [File -> Content]
<1>1. job \in Jobs
  BY DEF SymbolType
<1> QED BY <1>1 DEF Jobs

---------------------------------------------------------------------------
(* The user *)

LEMMA MovedKeeps ==
  ASSUME SymbolInv, NEW t \in [File -> Content], Moved(t),
         \/ commits' = commits
         \/ commits' = Append(commits, tree),
         head' \in 1..Len(commits')
  PROVE  SymbolInv'
<1>1. /\ tree' = t /\ behind' = behind \cup {f \in File : t[f] # tree[f]}
      /\ excused' = IF job = NoJob THEN excused ELSE excused \cup {f \in File : t[f] # tree[f]}
      /\ ready' = 0 /\ rows' = rows /\ indexed' = indexed /\ overlay' = overlay /\ job' = job
      /\ adrift' = adrift /\ unrecorded' = unrecorded /\ Gaps' = Gaps
  BY DEF Moved, indexVars, Gaps
<1>2. /\ commits' \in Seq([File -> Content]) /\ Len(commits') \in Nat /\ Len(commits) \in Nat
      /\ Len(commits') >= Len(commits)
      /\ \A c \in 1..Len(commits) : commits'[c] = commits[c]
  <2> DEFINE S == [File -> Content]
  <2>1. commits \in Seq(S) /\ tree \in S
    BY DEF SymbolInv, SymbolType
  <2> HIDE DEF S
  <2>2. /\ commits' \in Seq(S) /\ Len(commits') \in Nat /\ Len(commits) \in Nat
        /\ Len(commits') >= Len(commits)
        /\ \A c \in 1..Len(commits) : commits'[c] = commits[c]
    <3>1. CASE commits' = commits
      BY <2>1, <3>1
    <3>2. CASE commits' = Append(commits, tree)
      BY <2>1, <3>2
    <3> QED BY <3>1, <3>2
  <2> QED BY <2>2 DEF S
<1>3. SymbolType'
  <2>1. job = NoJob \/ job \in Jobs'
    <3>1. CASE job # NoJob
      <4>1. job.head \in 1..Len(commits') /\ job \in Jobs
        BY <1>2, <3>1, JobFields DEF SymbolInv
      <4> QED BY <4>1 DEF Jobs
    <3> QED BY <3>1
  <2>2. indexed' \in 0..Len(commits') /\ ready' \in 0..Len(commits')
    <3>1. indexed \in 0..Len(commits)
      BY DEF SymbolInv, SymbolType
    <3> QED BY <1>1, <1>2, <3>1
  <2> QED BY <1>1, <1>2, <2>1, <2>2 DEF SymbolInv, SymbolType
<1>4. excused \subseteq excused' /\ behind \subseteq behind'
  BY <1>1
<1>5. Current'
  <2> SUFFICES ASSUME NEW f \in File
               PROVE  /\ f \in Unsupported => f \notin rows'
                      /\ f \notin Unsupported \cup behind' \cup excused' =>
                           (f \in rows' <=> tree'[f] = "with")
    BY DEF Current
  <2>1. f \in Unsupported => f \notin rows
    BY DEF SymbolInv, Current
  <2>2. ASSUME f \notin Unsupported \cup behind' \cup excused'
        PROVE  f \in rows <=> tree'[f] = "with"
    <3>1. t[f] = tree[f] /\ f \notin Unsupported \cup behind \cup excused
      BY <1>1, <1>4, <2>2
    <3> QED BY <1>1, <3>1 DEF SymbolInv, Current
  <2> QED BY <1>1, <2>1, <2>2
<1>6. Accounted'
  <2>1. indexed # 0 => commits'[indexed] = commits[indexed]
    BY <1>2 DEF SymbolInv, SymbolType
  <2> QED BY <1>1, <1>4, <2>1 DEF SymbolInv, Accounted, Shows
<1>7. ReadyTruthful'
  BY <1>1 DEF ReadyTruthful
<1>8. CASE job = NoJob
  <2>1. JobInv'
    BY <1>1, <1>8 DEF JobInv, Pending, Stamping, Covered, Reconciling, NoJob
  <2> QED BY <1>3, <1>5, <1>6, <1>7, <2>1 DEF SymbolInv
<1>9. CASE job # NoJob
  <2>1. Applied' = Applied
    BY <1>1 DEF Applied
  <2>2. commits'[job.head] = commits[job.head]
    BY <1>2, <1>9, JobFields DEF SymbolInv
  <2>3. Pending'
    <3>1. ASSUME NEW f \in Applied, job.seen[f] # t[f] PROVE f \in behind' \cap excused'
      <4>1. f \in File
        BY DEF Applied
      <4> QED BY <1>1, <1>4, <1>9, <3>1, <4>1 DEF SymbolInv, JobInv, Pending
    <3> QED BY <1>1, <1>9, <2>1, <3>1 DEF SymbolInv, JobInv, Pending
  <2>4. Stamping'
    BY <1>1, <1>4, <2>1, <2>2 DEF SymbolInv, JobInv, Stamping, Shows
  <2>5. Covered'
    BY <1>1 DEF SymbolInv, JobInv, Covered
  <2>6. Reconciling'
    <3>1. indexed # 0 => commits'[indexed] = commits[indexed]
      BY <1>2 DEF SymbolInv, SymbolType
    <3> QED BY <1>1, <1>4, <2>1, <3>1 DEF SymbolInv, JobInv, Reconciling, Shows
  <2> QED BY <1>3, <1>5, <1>6, <1>7, <2>3, <2>4, <2>5, <2>6 DEF SymbolInv, JobInv
<1> QED BY <1>8, <1>9

LEMMA UserKeeps == SymbolInv /\ User => SymbolInv'
<1> SUFFICES ASSUME SymbolInv, User PROVE SymbolInv'
  OBVIOUS
<1> USE DEF SymbolInv, SymbolType
<1>1. ASSUME NEW f \in File, NEW c \in Content, Edit(f, c) PROVE SymbolInv'
  <2>1. [tree EXCEPT ![f] = c] \in [File -> Content]
    OBVIOUS
  <2>2. Moved([tree EXCEPT ![f] = c]) /\ commits' = commits /\ head' \in 1..Len(commits')
    BY <1>1 DEF Edit
  <2> QED BY <2>1, <2>2, MovedKeeps
<1>2. ASSUME NEW amend \in BOOLEAN, Commit(amend) PROVE SymbolInv'
  <2>1. Moved(tree) /\ commits' = Append(commits, tree) /\ head' = Len(commits')
    BY <1>2 DEF Commit
  <2>2. Len(commits') \in Nat /\ Len(commits') >= 1
    BY <2>1
  <2> QED BY <2>1, <2>2, MovedKeeps
<1>3. ASSUME NEW c \in 1..Len(commits), Checkout(c) PROVE SymbolInv'
  <2>1. Moved(commits[c]) /\ commits' = commits /\ head' = c /\ commits[c] \in [File -> Content]
    BY <1>3 DEF Checkout
  <2> QED BY <1>3, <2>1, MovedKeeps
<1> QED BY <1>1, <1>2, <1>3 DEF User

---------------------------------------------------------------------------
(* The steps of a refresh that leave the index alone *)

LEMMA IndexAlone ==
  ASSUME SymbolInv, UNCHANGED <<tree, commits, head, rows, indexed, overlay, behind>>,
         excused \subseteq excused', excused' \subseteq File,
         adrift \subseteq adrift', adrift' \subseteq File, unrecorded' = unrecorded,
         ready' \in {0, ready, indexed}, job' = NoJob \/ job' \in Jobs, JobInv'
  PROVE  SymbolInv'
<1>0. Gaps \subseteq Gaps'
  BY DEF Gaps
<1>1. SymbolType'
  <2>1. ready' \in 0..Len(commits)
    BY DEF SymbolInv, SymbolType
  <2>2. Jobs' = Jobs
    BY DEF Jobs
  <2> QED BY <2>1, <2>2 DEF SymbolInv, SymbolType
<1>2. Current'
  BY DEF SymbolInv, Current
<1>3. Accounted'
  BY <1>0 DEF SymbolInv, Accounted, Shows
<1>4. ReadyTruthful'
  <2>1. CASE ready' = 0
    BY <2>1 DEF ReadyTruthful
  <2>2. CASE ready' = ready
    BY <2>2 DEF SymbolInv, ReadyTruthful, Claimed, Correct, Shows
  <2>3. CASE ready' = indexed
    BY <2>3 DEF SymbolInv, Accounted, Gaps, ReadyTruthful, Claimed, Correct, Shows
  <2> QED BY <2>1, <2>2, <2>3
<1> QED BY <1>1, <1>2, <1>3, <1>4 DEF SymbolInv

LEMMA BeginKeeps == ASSUME SymbolInv, NEW b \in BOOLEAN, Begin(b) PROVE SymbolInv'
<1>1. /\ job' = [at |-> "commit", budgeted |-> b, head |-> head, listed |-> FALSE, todo |-> {},
                 stale |-> {}, dirty |-> {}, ops |-> NoOps, seen |-> Unseen, whole |-> TRUE,
                 reconciled |-> TRUE, done |-> TRUE]
      /\ ready' = 0 /\ UNCHANGED <<tree, commits, head, rows, indexed, overlay, behind, excused, adrift, unrecorded>>
  BY DEF Begin, gitVars, indexVars, history
<1>2. job' \in Jobs
  BY <1>1 DEF Jobs, Stage, NoOps, Unseen, Content, SymbolInv, SymbolType
<1>3. JobInv'
  <2>1. Applied' = {}
    BY <1>1 DEF Applied, NoOps
  <2> QED BY <1>1, <2>1 DEF JobInv, Pending, Stamping, Covered, Reconciling
<1> QED BY <1>1, <1>2, <1>3, IndexAlone DEF SymbolInv, SymbolType

LEMMA SkipKeeps == SymbolInv /\ Skip => SymbolInv'
<1> SUFFICES ASSUME SymbolInv, Skip PROVE SymbolInv'
  OBVIOUS
<1>1. /\ ready' \in {0, indexed} /\ job # NoJob
      /\ UNCHANGED <<tree, commits, head, rows, indexed, overlay, behind, excused, adrift, unrecorded, job>>
  BY DEF Skip, gitVars, indexVars, history
<1>2. JobInv'
  BY <1>1 DEF SymbolInv, JobInv, Pending, Stamping, Covered, Reconciling, Applied, Shows, Gaps
<1> QED BY <1>1, <1>2, IndexAlone DEF SymbolInv, SymbolType

LEMMA CrashKeeps == SymbolInv /\ Crash => SymbolInv'
<1> SUFFICES ASSUME SymbolInv, Crash PROVE SymbolInv'
  OBVIOUS
<1>1. /\ job' = NoJob
      /\ UNCHANGED <<tree, commits, head, rows, indexed, overlay, behind, excused, adrift, unrecorded, ready>>
  BY DEF Crash, gitVars, indexVars, history
<1>2. JobInv'
  BY <1>1 DEF JobInv, Pending, Stamping, Covered, Reconciling, NoJob
<1> QED BY <1>1, <1>2, IndexAlone DEF SymbolInv, SymbolType

LEMMA StatusFailsKeeps == SymbolInv /\ StatusFails => SymbolInv'
<1> SUFFICES ASSUME SymbolInv, StatusFails PROVE SymbolInv'
  OBVIOUS
<1>1. /\ job' = NoJob /\ ready' \in {0, indexed}
      /\ UNCHANGED <<tree, commits, head, rows, indexed, overlay, behind, excused, adrift, unrecorded>>
  BY DEF StatusFails, Answer, gitVars, indexVars, history
<1>2. JobInv'
  BY <1>1 DEF JobInv, Pending, Stamping, Covered, Reconciling, NoJob
<1> QED BY <1>1, <1>2, IndexAlone DEF SymbolInv, SymbolType

(* A file the commit stage lists is one whose rows may not show the commit. *)
LEMMA ListCommitKeeps == SymbolInv /\ ListCommit => SymbolInv'
<1> SUFFICES ASSUME SymbolInv, ListCommit PROVE SymbolInv'
  OBVIOUS
<1> DEFINE here == commits[job.head]
           r(at, files) == [job EXCEPT !.at = at, !.todo = files, !.listed = TRUE]
<1>1. /\ job.at = "commit" /\ job # NoJob
      /\ UNCHANGED <<tree, commits, head, rows, indexed, overlay, behind, excused, unrecorded, ready>>
  BY DEF ListCommit, NoJob, gitVars, indexVars
<1>2. /\ job \in Jobs /\ job.head \in 1..Len(commits)
      /\ here \in [File -> Content]
  <2>1. job.head \in 1..Len(commits) /\ job \in Jobs /\ commits \in Seq([File -> Content])
    BY <1>1, JobFields DEF SymbolInv, SymbolType
  <2> QED BY <2>1
<1>3. \/ indexed = job.head /\ job' = r("overlay", {}) /\ adrift' = adrift
      \/ /\ job' = r("commit", Tracked(here))
         /\ adrift' = adrift \cup {f \in rows : here[f] = "absent"}
      \/ /\ indexed # 0 /\ job' = r("commit", DiffNames(commits[indexed], here))
         /\ adrift' = adrift \cup RenamedAway(commits[indexed], here)
  BY DEF ListCommit, Goto
<1> HIDE DEF here
<1>4. /\ \A t : Tracked(t) \subseteq File
      /\ \A t, u : DiffNames(t, u) \subseteq File /\ RenamedAway(t, u) \subseteq File
  BY DEF Tracked, DiffNames, RenamedAway
<1>5. ASSUME NEW at \in Stage, NEW files \in SUBSET File
      PROVE  /\ r(at, files) \in Jobs
             /\ r(at, files).at = at /\ r(at, files).todo = files /\ r(at, files).ops = job.ops
             /\ r(at, files).seen = job.seen /\ r(at, files).head = job.head
  BY <1>2 DEF Jobs
<1>6. job' \in Jobs /\ adrift \subseteq adrift' /\ adrift' \subseteq File
  <2>1. "commit" \in Stage /\ "overlay" \in Stage
    BY DEF Stage
  <2> HIDE DEF r
  <2>2. adrift \subseteq File /\ rows \subseteq File
    BY DEF SymbolInv, SymbolType
  <2> QED BY <1>3, <1>4, <1>5, <2>1, <2>2
<1>7. /\ job'.at \in {"commit", "overlay"} /\ job'.ops = job.ops /\ job'.seen = job.seen
      /\ job'.head = job.head
  BY <1>2, <1>3 DEF Jobs
<1>8. Pending'
  BY <1>1, <1>7 DEF SymbolInv, JobInv, Pending, Applied
<1>9. Stamping'
  <2>1. SUFFICES ASSUME job'.at = "commit",
                        NEW f \in File, f \notin job'.todo, f \notin overlay, f \notin Gaps',
                        f \notin excused
                 PROVE  f \in rows <=> Shows(here, f)
    BY <1>1, <1>7 DEF Stamping, Shows, here
  <2>6. f \notin Gaps /\ f \notin adrift'
    BY <1>1, <1>6, <2>1 DEF Gaps
  <2>2. f \in Unsupported => f \notin rows
    BY DEF SymbolInv, Current
  <2>3. CASE job' = r("commit", Tracked(here)) /\ adrift' = adrift \cup {g \in rows : here[g] = "absent"}
    <3>1. job'.todo = Tracked(here)
      BY <1>2, <2>3 DEF Jobs
    <3>2. here[f] = "absent"
      BY <2>1, <3>1 DEF Tracked
    <3> QED BY <2>1, <2>3, <2>6, <3>2 DEF Shows
  <2>4. CASE /\ indexed # 0 /\ job' = r("commit", DiffNames(commits[indexed], here))
             /\ adrift' = adrift \cup RenamedAway(commits[indexed], here)
    <3>1. job'.todo = DiffNames(commits[indexed], here)
      BY <1>2, <2>4 DEF Jobs
    <3>2. commits[indexed][f] = here[f]
      BY <2>1, <2>4, <2>6, <3>1 DEF DiffNames
    <3>3. f \in rows <=> Shows(commits[indexed], f)
      BY <2>1, <2>4, <2>6 DEF SymbolInv, Accounted
    <3> QED BY <3>2, <3>3 DEF Shows
  <2>5. job' # r("overlay", {})
    BY <1>2, <2>1 DEF Jobs
  <2> QED BY <1>3, <2>3, <2>4, <2>5
<1>10. Covered' /\ Reconciling'
  BY <1>7 DEF Covered, Reconciling
<1> QED BY <1>1, <1>6, <1>8, <1>9, <1>10, IndexAlone DEF SymbolInv, SymbolType, JobInv

LEMMA ListFailsKeeps == SymbolInv /\ ListFails => SymbolInv'
<1> SUFFICES ASSUME SymbolInv, ListFails PROVE SymbolInv'
  OBVIOUS
<1>1. /\ job.at = "commit" /\ job # NoJob
      /\ job' = [job EXCEPT !.at = "overlay", !.listed = TRUE, !.done = FALSE]
      /\ UNCHANGED <<tree, commits, head, rows, indexed, overlay, behind, excused, adrift, unrecorded, ready>>
  BY DEF ListFails, NoJob, gitVars, indexVars, history
<1>2. job \in Jobs
  BY <1>1, JobFields DEF SymbolInv
<1>3. job' \in Jobs /\ job'.at = "overlay" /\ job'.ops = job.ops /\ job'.seen = job.seen
  BY <1>1, <1>2 DEF Jobs, Stage
<1>4. JobInv'
  BY <1>1, <1>3 DEF SymbolInv, JobInv, Pending, Applied, Stamping, Covered, Reconciling
<1> QED BY <1>1, <1>3, <1>4, IndexAlone DEF SymbolInv, SymbolType

LEMMA ReadKeeps == ASSUME SymbolInv, job # NoJob, NEW f \in File, Read(f) PROVE SymbolInv'
<1> DEFINE op == IF f \in Unsupported THEN "keep" ELSE IF tree[f] = "with" THEN "upsert" ELSE "drop"
           r == [job EXCEPT !.todo = job.todo \ {f}, !.seen = [job.seen EXCEPT ![f] = tree[f]],
                            !.ops = [job.ops EXCEPT ![f] = op]]
<1>1. /\ job' = r /\ f \in job.todo
      /\ UNCHANGED <<tree, commits, head, rows, indexed, overlay, behind, excused, adrift, unrecorded, ready>>
  BY DEF Read, Turn, gitVars, indexVars, history
<1>2. job \in Jobs /\ tree \in [File -> Content]
  BY JobFields DEF SymbolInv, SymbolType
<1>3. /\ r.at = job.at /\ r.todo = job.todo \ {f} /\ r.head = job.head /\ r.listed = job.listed
      /\ r.whole = job.whole /\ r.reconciled = job.reconciled
      /\ r.stale = job.stale /\ r.dirty = job.dirty
      /\ r.seen = [job.seen EXCEPT ![f] = tree[f]] /\ r.ops = [job.ops EXCEPT ![f] = op]
      /\ job.ops \in [File -> {"keep", "drop", "upsert"}] /\ job.seen \in [File -> Content]
  BY <1>2 DEF Jobs
<1>4. r \in Jobs
  BY <1>2 DEF Jobs
<1> HIDE DEF r
<1>5. /\ \A g \in File \ {f} : job'.ops[g] = job.ops[g] /\ job'.seen[g] = job.seen[g]
      /\ job'.ops[f] = op /\ job'.seen[f] = tree[f]
  BY <1>1, <1>2, <1>3
<1>6. Pending'
  <2>1. SUFFICES ASSUME NEW g \in File, job'.ops[g] # "keep"
                 PROVE  /\ g \notin Unsupported
                        /\ job'.ops[g] = "upsert" <=> job'.seen[g] = "with"
                        /\ job'.seen[g] # tree[g] => g \in behind \cap excused
    BY <1>1 DEF Pending, Applied
  <2>2. CASE g = f
    BY <1>5, <2>1, <2>2
  <2>3. CASE g # f
    BY <1>5, <2>1, <2>3 DEF SymbolInv, JobInv, Pending, Applied
  <2> QED BY <2>2, <2>3
<1>7. \A S : S \subseteq File /\ S \subseteq job.todo \cup Applied \cup excused \cup Unsupported
        => S \subseteq job'.todo \cup Applied' \cup excused' \cup Unsupported
  BY <1>1, <1>3, <1>5 DEF Applied
<1>8. Stamping'
  <2>1. SUFFICES ASSUME job.at = "commit", job.listed, job.whole, NEW g \in File, g \notin job'.todo,
                        job'.ops[g] = "keep", g \notin overlay, g \notin Gaps, g \notin excused
                 PROVE  g \in rows <=> Shows(commits[job.head], g)
    BY <1>1, <1>3 DEF Stamping, Applied, Shows, Gaps
  <2>2. CASE g \in Unsupported
    BY <2>2 DEF SymbolInv, Current, Shows
  <2>3. CASE g \notin Unsupported
    <3>1. g # f
      BY <1>5, <2>1, <2>3
    <3>2. g \notin job.todo /\ job.ops[g] = "keep"
      BY <1>1, <1>3, <1>5, <2>1, <3>1
    <3> QED BY <2>1, <3>2 DEF SymbolInv, JobInv, Stamping, Applied
  <2> QED BY <2>2, <2>3
<1>9. Covered'
  BY <1>1, <1>3 DEF SymbolInv, JobInv, Covered
<1>10. Reconciling'
  <2>1. job.stale \subseteq File
    BY JobFields DEF SymbolInv
  <2>2. job.at = "stale" /\ job.whole =>
          job.stale \subseteq job'.todo \cup Applied' \cup excused' \cup Unsupported
    BY <1>7, <2>1 DEF SymbolInv, JobInv, Reconciling
  <2>3. job.at = "dirty" /\ job.reconciled => job.stale \subseteq Applied' \cup excused' \cup Unsupported
    <3>1. Applied \subseteq Applied' \cup Unsupported
      BY <1>1, <1>5 DEF Applied
    <3> QED BY <1>1, <3>1 DEF SymbolInv, JobInv, Reconciling
  <2>4. job.at = "record" /\ job.reconciled /\ indexed # 0 =>
          \A g \in job.stale \ (Gaps \cup excused) : g \in rows <=> Shows(commits[indexed], g)
    BY DEF SymbolInv, JobInv, Reconciling
  <2> QED BY <1>1, <1>3, <2>2, <2>3, <2>4 DEF Reconciling, Shows, Gaps
<1> QED BY <1>1, <1>4, <1>6, <1>8, <1>9, <1>10, IndexAlone DEF SymbolInv, SymbolType, JobInv

(* A file that is not read is set aside as excused, or the pass as not whole. *)
LEMMA NotReadKeeps ==
  ASSUME SymbolInv, job # NoJob,
         \/ \E f \in File : ReadFails(f) \/ PutOff(f)
         \/ OverBudget
  PROVE  SymbolInv'
<1>1. \/ \E f \in job.todo : job' = [job EXCEPT !.todo = job.todo \ {f}] /\ excused' = excused \cup {f}
      \/ \E files \in SUBSET job.todo :
           job' = [job EXCEPT !.todo = files, !.whole = FALSE] /\ excused' = excused
  <2>1. ASSUME NEW f \in File, ReadFails(f)
        PROVE  f \in job.todo /\ job' = [job EXCEPT !.todo = job.todo \ {f}] /\ excused' = excused \cup {f}
    BY <2>1 DEF ReadFails, Turn
  <2>2. ASSUME NEW f \in File, PutOff(f)
        PROVE  job' = [job EXCEPT !.todo = job.todo \ {f}, !.whole = FALSE] /\ excused' = excused
    BY <2>2 DEF PutOff, history
  <2>3. ASSUME OverBudget PROVE job' = [job EXCEPT !.todo = {}, !.whole = FALSE] /\ excused' = excused
    BY <2>3 DEF OverBudget, history
  <2>4. {} \in SUBSET job.todo /\ \A f : job.todo \ {f} \in SUBSET job.todo
    OBVIOUS
  <2> QED BY <2>1, <2>2, <2>3, <2>4
<1>2. UNCHANGED <<tree, commits, head, rows, indexed, overlay, behind, adrift, unrecorded, ready>>
  BY DEF ReadFails, PutOff, OverBudget, gitVars, indexVars, history
<1>3. job \in Jobs /\ job.todo \subseteq File /\ excused \subseteq File
  BY JobFields DEF SymbolInv, SymbolType
<1>4. /\ job' \in Jobs /\ job'.at = job.at /\ job'.head = job.head /\ job'.listed = job.listed
      /\ job'.reconciled = job.reconciled /\ job'.stale = job.stale /\ job'.dirty = job.dirty
      /\ job'.seen = job.seen /\ job'.ops = job.ops
  <2>1. CASE \E f \in job.todo : job' = [job EXCEPT !.todo = job.todo \ {f}]
    <3>1. PICK f \in job.todo : job' = [job EXCEPT !.todo = job.todo \ {f}]
      BY <2>1
    <3> QED BY <1>3, <3>1 DEF Jobs
  <2>2. CASE \E files \in SUBSET job.todo : job' = [job EXCEPT !.todo = files, !.whole = FALSE]
    <3>1. PICK files \in SUBSET job.todo : job' = [job EXCEPT !.todo = files, !.whole = FALSE]
      BY <2>2
    <3>2. files \subseteq File
      BY <1>3
    <3> QED BY <1>3, <3>1, <3>2 DEF Jobs
  <2> QED BY <1>1, <2>1, <2>2
<1>5. /\ excused \subseteq excused' /\ excused' \subseteq File
      /\ job'.whole => job.whole /\ job.todo \subseteq job'.todo \cup excused'
  <2>1. ASSUME NEW f \in job.todo,
               job' = [job EXCEPT !.todo = job.todo \ {f}], excused' = excused \cup {f}
        PROVE  job'.whole = job.whole /\ job'.todo = job.todo \ {f} /\ f \in File
    BY <1>3, <2>1 DEF Jobs
  <2>2. ASSUME NEW files \in SUBSET job.todo, job' = [job EXCEPT !.todo = files, !.whole = FALSE]
        PROVE  ~job'.whole
    BY <1>3, <2>2 DEF Jobs
  <2> QED BY <1>1, <1>3, <2>1, <2>2
<1>6. Applied' = Applied
  BY <1>4 DEF Applied
<1>7. Pending'
  BY <1>2, <1>4, <1>5, <1>6 DEF SymbolInv, JobInv, Pending
<1>8. Stamping'
  <2>1. job'.whole => job.todo \cup excused \subseteq job'.todo \cup excused'
    BY <1>5
  <2> QED BY <1>2, <1>4, <1>5, <1>6, <2>1 DEF SymbolInv, JobInv, Stamping, Shows, Gaps
<1>9. Covered'
  BY <1>2, <1>4 DEF SymbolInv, JobInv, Covered
<1>10. Reconciling'
  BY <1>2, <1>4, <1>5, <1>6 DEF SymbolInv, JobInv, Reconciling, Shows, Gaps
<1> QED BY <1>2, <1>4, <1>5, <1>7, <1>8, <1>9, <1>10, IndexAlone DEF SymbolInv, SymbolType, JobInv

LEMMA ListDirtyKeeps == SymbolInv /\ ListDirty => SymbolInv'
<1> SUFFICES ASSUME SymbolInv, ListDirty PROVE SymbolInv'
  OBVIOUS
<1>1. /\ job.at = "overlay" /\ job # NoJob
      /\ job' = [job EXCEPT !.at = "stale", !.todo = overlay \ Dirty, !.dirty = Dirty,
                            !.stale = overlay \ Dirty]
      /\ UNCHANGED <<tree, commits, head, rows, indexed, overlay, behind, excused, adrift, unrecorded, ready>>
  BY DEF ListDirty, NoJob, gitVars, indexVars, history
<1>2. job \in Jobs /\ Dirty \subseteq File /\ overlay \subseteq File
  BY <1>1, JobFields DEF SymbolInv, SymbolType, Dirty
<1>3. /\ job' \in Jobs /\ job'.at = "stale" /\ job'.ops = job.ops /\ job'.seen = job.seen
      /\ job'.todo = overlay \ Dirty /\ job'.stale = overlay \ Dirty /\ job'.dirty = Dirty
  BY <1>1, <1>2 DEF Jobs, Stage
<1>4. Pending'
  BY <1>1, <1>3 DEF SymbolInv, JobInv, Pending, Applied
<1>5. Stamping' /\ Covered' /\ Reconciling'
  BY <1>1, <1>3 DEF Stamping, Covered, Reconciling
<1> QED BY <1>1, <1>3, <1>4, <1>5, IndexAlone DEF SymbolInv, SymbolType, JobInv

LEMMA ToDirtyKeeps == SymbolInv /\ ToDirty => SymbolInv'
<1> SUFFICES ASSUME SymbolInv, ToDirty PROVE SymbolInv'
  OBVIOUS
<1>1. /\ job.at = "stale" /\ job # NoJob /\ job.todo = {}
      /\ job' = [job EXCEPT !.at = "dirty", !.todo = job.dirty, !.reconciled = job.whole]
      /\ UNCHANGED <<tree, commits, head, rows, indexed, overlay, behind, excused, adrift, unrecorded, ready>>
  BY DEF ToDirty, NoJob, gitVars, indexVars, history
<1>2. job \in Jobs
  BY <1>1, JobFields DEF SymbolInv
<1>3. /\ job' \in Jobs /\ job'.at = "dirty" /\ job'.ops = job.ops /\ job'.seen = job.seen
      /\ job'.stale = job.stale /\ job'.dirty = job.dirty /\ job'.reconciled = job.whole
  BY <1>1, <1>2 DEF Jobs, Stage
<1>4. Applied' = Applied
  BY <1>3 DEF Applied
<1>5. Pending'
  BY <1>1, <1>3, <1>4 DEF SymbolInv, JobInv, Pending
<1>6. Stamping' /\ Covered' /\ Reconciling'
  BY <1>1, <1>3, <1>4 DEF SymbolInv, JobInv, Stamping, Covered, Reconciling
<1> QED BY <1>1, <1>3, <1>5, <1>6, IndexAlone DEF SymbolInv, SymbolType, JobInv

---------------------------------------------------------------------------
(* The steps that write the index *)

(* What ApplyOps makes of a file: the rows are those of what was read, and what  *)
(* was read is what the file says, or a race is known to have hidden it.         *)
LEMMA AppliedRows ==
  ASSUME SymbolInv, job # NoJob, ApplyOps, tree' = tree
  PROVE  /\ \A f \in Applied : /\ f \in File /\ f \notin Unsupported
                               /\ f \in rows' <=> job.seen[f] = "with"
                               /\ f \in excused' \/ job.seen[f] = tree[f]
         /\ \A f \in File \ Applied : /\ f \in rows' <=> f \in rows
                                      /\ f \in excused' <=> f \in excused
         /\ rows' \in SUBSET File /\ excused' \in SUBSET File /\ behind' \in SUBSET File
         /\ Current'
<1> DEFINE current == {f \in Applied : job.seen[f] = tree[f]}
<1>1. /\ rows' = {f \in File : job.ops[f] = "upsert" \/ (f \in rows /\ job.ops[f] = "keep")}
      /\ behind' = behind \ current
      /\ excused' = excused \/ excused' = excused \ current
  BY DEF ApplyOps
<1>2. Pending
  BY DEF SymbolInv, JobInv
<1>3. job.ops \in [File -> {"keep", "drop", "upsert"}]
  BY JobFields DEF SymbolInv
<1>4. ASSUME NEW f \in Applied
      PROVE  /\ f \in File /\ f \notin Unsupported
             /\ f \in rows' <=> job.seen[f] = "with"
             /\ f \in excused' \/ job.seen[f] = tree[f]
             /\ f \in behind' \/ job.seen[f] = tree[f]
  BY <1>1, <1>2 DEF Pending, Applied
<1>5. ASSUME NEW f \in File, f \notin Applied
      PROVE  /\ f \in rows' <=> f \in rows
             /\ f \in excused' <=> f \in excused
             /\ f \in behind' <=> f \in behind
  BY <1>1, <1>5 DEF Applied
<1>6. rows' \in SUBSET File /\ excused' \in SUBSET File /\ behind' \in SUBSET File
  BY <1>1 DEF SymbolInv, SymbolType
<1>7. Current'
  <2>1. ASSUME NEW f \in File
        PROVE  /\ f \in Unsupported => f \notin rows'
               /\ f \notin Unsupported \cup behind' \cup excused' => (f \in rows' <=> tree[f] = "with")
    <3>1. CASE f \in Applied
      BY <1>4, <3>1
    <3>2. CASE f \notin Applied
      BY <1>5, <3>2 DEF SymbolInv, Current
    <3> QED BY <3>1, <3>2
  <2> QED BY <2>1 DEF Current
<1> QED BY <1>4, <1>5, <1>6, <1>7

(* What was shown to be the commit's of an answer stays so: a file is read as it  *)
(* is, or excused.                                                                *)
LEMMA AppliedReady ==
  ASSUME SymbolInv, job # NoJob, ApplyOps, UNCHANGED <<tree, commits, overlay, ready>>,
         Gaps \subseteq Gaps' \cup Applied
  PROVE  ReadyTruthful'
<1>1. SUFFICES ASSUME ready # 0, NEW f \in File, tree[f] = commits[ready][f], f \notin overlay,
                      f \notin excused' \cup Gaps'
               PROVE  f \in rows' <=> Shows(commits[ready], f)
  BY DEF ReadyTruthful, Claimed, Correct, Shows, Gaps
<1>2. CASE f \in Applied
  BY <1>1, <1>2, AppliedRows DEF Shows
<1>3. CASE f \notin Applied
  <2>1. f \notin excused \cup Gaps /\ (f \in rows' <=> f \in rows)
    BY <1>1, <1>3, AppliedRows
  <2> QED BY <1>1, <2>1 DEF SymbolInv, ReadyTruthful, Claimed, Correct, Gaps
<1> QED BY <1>2, <1>3

LEMMA ApplyCommitKeeps == SymbolInv /\ ApplyCommit => SymbolInv'
<1> SUFFICES ASSUME SymbolInv, ApplyCommit PROVE SymbolInv'
  OBVIOUS
<1> DEFINE committed == {f \in Applied : job.seen[f] = commits[job.head][f]}
<1>1. /\ job.at = "commit" /\ job # NoJob /\ job.listed /\ job.todo = {} /\ ApplyOps
      /\ indexed' = IF job.whole THEN job.head ELSE indexed
      /\ IF job.whole
         THEN /\ adrift' = (adrift \ committed) \cup (Applied \ committed)
              /\ unrecorded' = unrecorded \ Applied
         ELSE unrecorded' = (unrecorded \ Applied) \cup OffStamp /\ adrift' = adrift
      /\ job' = [job EXCEPT !.at = "overlay", !.done = job.whole, !.ops = NoOps,
                            !.seen = Unseen, !.whole = TRUE]
      /\ UNCHANGED <<tree, commits, head, overlay, ready>>
  BY DEF ApplyCommit, NoJob, gitVars
<1>2. job \in Jobs /\ job.head \in 1..Len(commits) /\ committed \subseteq Applied /\ Applied \subseteq File
      /\ OffStamp \subseteq Applied
  BY <1>1, JobFields DEF SymbolInv, Applied, OffStamp
<1>3. job' \in Jobs /\ job'.at = "overlay" /\ job'.ops = NoOps
  BY <1>1, <1>2 DEF Jobs, Stage, NoOps, Unseen, Content
<1>4. SymbolType'
  <2>1. indexed' \in 0..Len(commits) /\ adrift' \subseteq File /\ unrecorded' \subseteq File
    BY <1>1, <1>2 DEF SymbolInv, SymbolType
  <2>2. Jobs' = Jobs
    BY <1>1 DEF Jobs
  <2>3. rows' \in SUBSET File /\ excused' \in SUBSET File /\ behind' \in SUBSET File
    BY <1>1, AppliedRows
  <2> QED BY <1>1, <1>3, <2>1, <2>2, <2>3 DEF SymbolInv, SymbolType
<1>5. Current'
  BY <1>1, AppliedRows
<1>6. ReadyTruthful'
  <2>1. Gaps \subseteq Gaps' \cup Applied
    BY <1>1, <1>2 DEF Gaps
  <2> QED BY <1>1, <2>1, AppliedReady
<1>7. Accounted'
  <2>1. SUFFICES ASSUME indexed' # 0, NEW f \in File, f \notin overlay, f \notin Gaps', f \notin excused'
                 PROVE  f \in rows' <=> Shows(commits[indexed'], f)
    BY <1>1 DEF Accounted, Shows
  <2>2. CASE f \in Applied
    <3>1. job.seen[f] = commits[indexed'][f]
      <4>1. CASE job.whole
        <5>1. f \in committed /\ indexed' = job.head
          BY <1>1, <2>1, <2>2, <4>1 DEF Gaps
        <5> QED BY <5>1
      <4>2. CASE ~job.whole
        <5>1. f \notin OffStamp /\ indexed' = indexed
          BY <1>1, <2>1, <2>2, <4>2 DEF Gaps
        <5> QED BY <2>1, <2>2, <5>1 DEF OffStamp
      <4> QED BY <4>1, <4>2
    <3>2. f \notin Unsupported /\ (f \in rows' <=> job.seen[f] = "with")
      BY <1>1, <2>2, AppliedRows
    <3> QED BY <1>1, <3>1, <3>2 DEF Shows
  <2>3. CASE f \notin Applied
    <3>1. f \notin excused /\ f \notin Gaps /\ (f \in rows' <=> f \in rows)
      <4>1. f \notin Gaps
        BY <1>1, <1>2, <2>1, <2>3 DEF Gaps
      <4> QED BY <1>1, <2>1, <2>3, <4>1, AppliedRows
    <3>2. CASE job.whole
      BY <1>1, <2>1, <2>3, <3>1, <3>2 DEF SymbolInv, JobInv, Stamping
    <3>3. CASE ~job.whole
      BY <1>1, <2>1, <3>1, <3>3 DEF SymbolInv, Accounted
    <3> QED BY <3>2, <3>3
  <2> QED BY <2>2, <2>3
<1>8. JobInv'
  <2>1. Applied' = {}
    BY <1>3 DEF Applied, NoOps
  <2> QED BY <1>3, <2>1 DEF JobInv, Pending, Stamping, Covered, Reconciling
<1> QED BY <1>4, <1>5, <1>6, <1>7, <1>8 DEF SymbolInv

LEMMA ApplyOverlayKeeps == SymbolInv /\ ApplyOverlay => SymbolInv'
<1> SUFFICES ASSUME SymbolInv, ApplyOverlay PROVE SymbolInv'
  OBVIOUS
<1>1. /\ job.at = "dirty" /\ job # NoJob /\ ApplyOps
      /\ unrecorded' = (unrecorded \ Applied) \cup OffStamp /\ adrift' = adrift
      /\ job' = [job EXCEPT !.at = "record", !.ops = NoOps, !.seen = Unseen]
      /\ UNCHANGED <<tree, commits, head, indexed, overlay, ready>>
  BY DEF ApplyOverlay, NoJob, gitVars
<1>2. job \in Jobs /\ Applied \subseteq File /\ OffStamp \subseteq Applied
  BY <1>1, JobFields DEF SymbolInv, Applied, OffStamp
<1>3. /\ job' \in Jobs /\ job'.at = "record" /\ job'.ops = NoOps /\ job'.reconciled = job.reconciled
      /\ job'.stale = job.stale /\ job'.dirty = job.dirty /\ job.stale \subseteq File
  BY <1>1, <1>2 DEF Jobs, Stage, NoOps, Unseen, Content
<1>4. SymbolType'
  <2>1. adrift' \subseteq File /\ unrecorded' \subseteq File
    BY <1>1, <1>2 DEF SymbolInv, SymbolType
  <2>2. Jobs' = Jobs
    BY <1>1 DEF Jobs
  <2>3. rows' \in SUBSET File /\ excused' \in SUBSET File /\ behind' \in SUBSET File
    BY <1>1, AppliedRows
  <2> QED BY <1>1, <1>3, <2>1, <2>2, <2>3 DEF SymbolInv, SymbolType
<1>5. Current'
  BY <1>1, AppliedRows
<1>6. ReadyTruthful'
  <2>1. Gaps \subseteq Gaps' \cup Applied
    BY <1>1 DEF Gaps
  <2> QED BY <1>1, <2>1, AppliedReady
<1>7. ASSUME indexed # 0, NEW f \in Applied, f \notin Gaps'
      PROVE  f \in rows' <=> Shows(commits[indexed], f)
  <2>1. job.seen[f] = commits[indexed][f]
    BY <1>1, <1>7 DEF Gaps, OffStamp
  <2> QED BY <1>1, <2>1, AppliedRows DEF Shows
<1>8. ASSUME NEW f \in File, f \notin Applied, f \notin Gaps', f \notin excused'
      PROVE  f \notin excused /\ f \notin Gaps /\ (f \in rows' <=> f \in rows)
  <2>1. f \notin Gaps
    BY <1>1, <1>8 DEF Gaps
  <2> QED BY <1>1, <1>8, <2>1, AppliedRows
<1>9. Accounted'
  <2>1. SUFFICES ASSUME indexed # 0, NEW f \in File, f \notin overlay, f \notin Gaps', f \notin excused'
                 PROVE  f \in rows' <=> Shows(commits[indexed], f)
    BY <1>1 DEF Accounted, Shows
  <2>2. CASE f \notin Applied
    BY <1>8, <2>1, <2>2 DEF SymbolInv, Accounted
  <2> QED BY <1>7, <2>1, <2>2
<1>10. JobInv'
  <2>1. Applied' = {}
    BY <1>3 DEF Applied, NoOps
  <2>2. Covered'
    BY <1>1, <1>3 DEF SymbolInv, JobInv, Covered
  <2>3. Reconciling'
    <3>1. SUFFICES ASSUME job.reconciled, indexed # 0, NEW f \in job.stale, f \notin Gaps',
                          f \notin excused'
                   PROVE  f \in rows' <=> Shows(commits[indexed], f)
      BY <1>1, <1>3 DEF Reconciling, Shows
    <3>2. CASE f \notin Applied
      <4>1. f \notin excused /\ f \in File
        BY <1>3, <1>8, <3>1, <3>2
      <4>2. f \in Unsupported
        BY <1>1, <3>1, <3>2, <4>1 DEF SymbolInv, JobInv, Reconciling
      <4> QED BY <1>5, <4>1, <4>2 DEF Current, Shows
    <3> QED BY <1>7, <3>1, <3>2
  <2> QED BY <1>3, <2>1, <2>2, <2>3 DEF JobInv, Pending, Stamping
<1> QED BY <1>4, <1>5, <1>6, <1>9, <1>10 DEF SymbolInv

LEMMA RecordOverlayKeeps == SymbolInv /\ RecordOverlay => SymbolInv'
<1> SUFFICES ASSUME SymbolInv, RecordOverlay PROVE SymbolInv'
  OBVIOUS
<1>1. /\ job.at = "record" /\ job # NoJob
      /\ overlay' = IF job.reconciled THEN job.dirty ELSE job.dirty \cup job.stale
      /\ adrift' = adrift \ overlay' /\ unrecorded' = unrecorded \ overlay' /\ ready' \in {0, indexed} /\ job' = NoJob
      /\ UNCHANGED <<tree, commits, head, rows, indexed, excused, behind>>
  BY DEF RecordOverlay, Answer, NoJob, gitVars
<1>2. job.dirty \subseteq File /\ job.stale \subseteq File
  BY <1>1, JobFields DEF SymbolInv
<1>3. SymbolType'
  <2>1. ready' \in 0..Len(commits) /\ overlay' \subseteq File /\ adrift' \subseteq File
          /\ unrecorded' \subseteq File
    BY <1>1, <1>2 DEF SymbolInv, SymbolType
  <2> QED BY <1>1, <2>1 DEF SymbolInv, SymbolType
<1>4. Current'
  BY <1>1 DEF SymbolInv, Current
<1>5. Accounted'
  <2>1. SUFFICES ASSUME indexed # 0, NEW f \in File, f \notin overlay', f \notin Gaps, f \notin excused
                 PROVE  f \in rows <=> Shows(commits[indexed], f)
    BY <1>1 DEF Accounted, Shows, Gaps
  <2>2. CASE f \notin overlay
    BY <2>1, <2>2 DEF SymbolInv, Accounted
  <2>3. CASE f \in overlay
    <3>1. job.reconciled /\ f \in job.stale
      BY <1>1, <2>1, <2>3 DEF SymbolInv, JobInv, Covered
    <3> QED BY <1>1, <2>1, <3>1 DEF SymbolInv, JobInv, Reconciling
  <2> QED BY <2>2, <2>3
<1>6. ReadyTruthful'
  <2>1. CASE ready' = 0
    BY <2>1 DEF ReadyTruthful
  <2>2. CASE ready' = indexed
    BY <1>1, <1>5, <2>2 DEF Accounted, Gaps, ReadyTruthful, Claimed, Correct, Shows
  <2> QED BY <1>1, <2>1, <2>2
<1>7. JobInv'
  BY <1>1 DEF JobInv, Pending, Stamping, Covered, Reconciling, NoJob
<1> QED BY <1>3, <1>4, <1>5, <1>6, <1>7 DEF SymbolInv

LEMMA RefreshKeeps == SymbolInv /\ Refresh => SymbolInv'
<1> SUFFICES ASSUME SymbolInv, Refresh PROVE SymbolInv'
  OBVIOUS
<1>1. CASE Progress
  BY <1>1, ListCommitKeeps, ApplyCommitKeeps, ListDirtyKeeps, ToDirtyKeeps, ApplyOverlayKeeps,
     RecordOverlayKeeps, ReadKeeps DEF Progress
<1>2. CASE OverBudget \/ \E f \in File : job # NoJob /\ (ReadFails(f) \/ PutOff(f))
  <2>1. job # NoJob
    BY <1>2 DEF OverBudget
  <2> QED BY <1>2, <2>1, NotReadKeeps
<1>3. CASE \E b \in BOOLEAN : Begin(b)
  BY <1>3, BeginKeeps
<1>4. CASE Skip \/ Crash \/ (job # NoJob /\ (ListFails \/ StatusFails))
  BY <1>4, SkipKeeps, CrashKeeps, ListFailsKeeps, StatusFailsKeeps
<1> QED BY <1>1, <1>2, <1>3, <1>4 DEF Refresh

LEMMA SymbolsKept == SymbolInv /\ [Next]_vars => SymbolInv'
<1> SUFFICES ASSUME SymbolInv, [Next]_vars PROVE SymbolInv'
  OBVIOUS
<1>1. CASE UNCHANGED symbolVars
  BY <1>1 DEF symbolVars, gitVars, indexVars, history, SymbolInv, SymbolType, Jobs, Current, Accounted,
     JobInv, Pending, Stamping, Covered, Reconciling, ReadyTruthful, Claimed, Correct, Shows, Applied,
     Gaps
<1> QED BY <1>1, UserKeeps, RefreshKeeps DEF Next, vars

(* A refresh that answers ready for a commit has, of each file that is clean     *)
(* against it, that is not on the overlay list and is none of the gaps, the rows  *)
(* of that commit (src/index/indexer.ts).  The gaps are the files that an edit     *)
(* raced or that did not parse, those git does not list or a commit stage read     *)
(* dirty, and those whose rows a pass applied that was cut, or killed before it    *)
(* recorded them, until a refresh records them after all.                          *)
THEOREM ReadyIsTruthful == Spec => []ReadyTruthful
<1>1. Init => SymbolInv
  BY InitSymbolInv DEF Init
<1>2. SymbolInv => ReadyTruthful
  BY DEF SymbolInv
<1> QED BY <1>1, <1>2, SymbolsKept, PTL DEF Spec

---------------------------------------------------------------------------
(* The anchors *)

LEMMA AnchorsKept == SymbolInv /\ AnchorType /\ [Next]_vars => AnchorType'
<1> SUFFICES ASSUME SymbolInv, AnchorType, [Next]_vars PROVE AnchorType'
  OBVIOUS
<1> USE DEF AnchorType, Existing
<1>1. CASE UNCHANGED anchors
  BY <1>1
<1>2. ASSUME NEW a \in Anchor, NEW k \in {"file", "symbol"}, NEW f \in File, Seed(a, k, f)
      PROVE  AnchorType'
  BY <1>2 DEF Seed
<1>3. CASE Sweep
  BY <1>3 DEF Sweep, Verified
<1>4. ASSUME NEW shown \in SUBSET Existing, Heal(shown) PROVE AnchorType'
  <2>1. ASSUME ResolvesUniquely PROVE (CHOOSE f \in rows : TRUE) \in File
    <3>1. Cardinality(rows) = 1 /\ Cardinality({}) = 0
      BY <2>1, FS_EmptySet DEF ResolvesUniquely
    <3>2. rows # {}
      BY <3>1
    <3>3. rows \subseteq File
      BY DEF SymbolInv, SymbolType
    <3> QED BY <3>2, <3>3
  <2>2. ASSUME NEW a \in Existing
        PROVE  Healed(a) \in [kind : {"file", "symbol"}, file : File,
                              state : {"claimed", "verified", "stale"}]
    BY <2>1 DEF Healed, Verified
  <2> QED BY <1>4, <2>2 DEF Heal
<1> QED BY <1>1, <1>2, <1>3, <1>4 DEF Next, vars, anchorVars

(* Recall calls an anchor stale only where the code cannot know better: the file   *)
(* is gone, or lost its symbol, or the index has not read it since it changed, or a *)
(* race or a failed parse hid it (src/anchoring/verify.ts).                         *)
THEOREM NeverFalselyStale == Spec => NoFalseStale
<1> DEFINE Fair(a) ==
      anchors'[a].state = "stale" /\ anchors[a].state # "stale"
        => LET f == anchors[a].file
           IN  IF anchors[a].kind = "file" \/ f \in Unsupported
               THEN tree[f] = "absent"
               ELSE tree[f] # "with" \/ f \in behind \cup excused
<1>1. Init => SymbolInv /\ AnchorType
  BY InitSymbolInv DEF Init, AnchorType, Existing
<1>2. SymbolInv /\ AnchorType /\ [Next]_vars => SymbolInv' /\ AnchorType'
  BY SymbolsKept, AnchorsKept
<1>3. SymbolInv /\ AnchorType /\ [Next]_vars => [\A a \in Existing : Fair(a)]_vars
  <2> SUFFICES ASSUME SymbolInv, AnchorType, Next, NEW a \in Existing PROVE Fair(a)
    BY Zenon
  <2>1. CASE UNCHANGED anchors
    BY <2>1
  <2>2. ASSUME NEW b \in Anchor, NEW k \in {"file", "symbol"}, NEW f \in File, Seed(b, k, f)
        PROVE  Fair(a)
    BY <2>2 DEF Seed, Existing
  <2>3. CASE Sweep
    BY <2>3 DEF Sweep, Verified
  <2>4. ASSUME NEW shown \in SUBSET Existing, Heal(shown), anchors'[a].state = "stale",
               anchors[a].state # "stale"
        PROVE  Fair(a)
    <3>1. ~Resolves(a)
      BY <2>4 DEF Heal, Healed, Verified, AnchorType
    <3>2. anchors[a].file \in File /\ anchors[a].kind \in {"file", "symbol"}
      BY DEF AnchorType
    <3> QED BY <3>1, <3>2 DEF Resolves, ResolvesIn, ResolveFile, SymbolInv, Current
  <2> QED BY <2>1, <2>2, <2>3, <2>4 DEF Next
<1> QED BY <1>1, <1>2, <1>3, PTL DEF Spec, NoFalseStale
=============================================================================
