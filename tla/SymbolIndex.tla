----------------------------- MODULE SymbolIndex -----------------------------
(***************************************************************************)
(* The per-repository symbol index (src/index): a table of the symbols of  *)
(* each file, kept current from git by refreshIndex.  One symbol is        *)
(* followed; a file either lacks it, defines it, or does not exist.  A     *)
(* refresh runs alone under the refresh lock, reads files one await at a   *)
(* time while the user edits, commits and checks out, and may be cut by    *)
(* its time budget or by a crash.                                          *)
(***************************************************************************)
EXTENDS Naturals, FiniteSets, Sequences

CONSTANTS
  File,          \* repository paths
  Unsupported,   \* those whose language the parser does not know
  MaxCommit,     \* bound: commits that are ever made
  MaxEdit        \* bound: edits of the working tree

VARIABLES
  tree,      \* the working tree
  commits,   \* the tree of each commit, in the order they were made
  head,      \* the commit HEAD names
  pruned,    \* commits whose objects git no longer has
  rows,      \* the files the symbols table holds the symbol for
  indexed,   \* meta indexed_commit, 0 before the first stamp
  overlay,   \* meta overlay_files
  job,       \* the refresh that holds the lock
  ready,     \* the commit the last refresh answered ready for, 0 for none;
             \* forgotten when the repository moves
  excused,   \* history: files edited under a refresh, or that did not parse
  adrift,    \* history: files git does not list (renamed away, or gone
             \* before a cold start), or that a commit stage read dirty
  unrecorded, \* history: files whose rows were applied and then neither
             \* stamped, the batch being cut, nor put on the overlay list,
             \* the process having died before it wrote it
  behind,    \* history: files changed since the index last read them
  edits

gitVars == <<tree, commits, head, pruned, edits>>
indexVars == <<rows, indexed, overlay>>
history == <<excused, adrift, unrecorded, behind>>
symbolVars == <<gitVars, indexVars, job, ready, history>>

Content == {"absent", "without", "with"}
NoJob == [at |-> "none"]
NoOps == [f \in File |-> "keep"]
Unseen == [f \in File |-> "absent"]

\* What the index should say of a file of tree t.
Shows(t, f) == t[f] = "with" /\ f \notin Unsupported

(*--------------------------------- git ----------------------------------*)

Tracked(t) == {f \in File : t[f] # "absent"}

\* git diff --name-only: rename detection is on by default, and a rename is
\* listed by its destination alone.
RenamedAway(a, b) ==
  {f \in Tracked(a) \ Tracked(b) : \E g \in Tracked(b) \ Tracked(a) : a[f] = b[g]}
DiffNames(a, b) == {f \in File : a[f] # b[f]} \ RenamedAway(a, b)

Dirty == {f \in File : tree[f] # commits[head][f]}

Moved(t) ==
  /\ tree' = t
  /\ LET touched == {f \in File : t[f] # tree[f]} IN
       /\ behind' = behind \cup touched
       /\ excused' = IF job = NoJob THEN excused ELSE excused \cup touched
  /\ ready' = 0
  /\ UNCHANGED <<indexVars, job, adrift, unrecorded>>

Edit(f, c) ==
  /\ edits < MaxEdit /\ c # tree[f]
  /\ edits' = edits + 1
  /\ Moved([tree EXCEPT ![f] = c])
  /\ UNCHANGED <<commits, head, pruned>>

\* A commit records the working tree; an amend or a rebase also loses the
\* commit it replaces.
Commit(amend) ==
  /\ Len(commits) < MaxCommit /\ Dirty # {}
  /\ commits' = Append(commits, tree)
  /\ head' = Len(commits')
  /\ pruned' = IF amend THEN pruned \cup {head} ELSE pruned
  /\ Moved(tree)
  /\ UNCHANGED edits

Checkout(c) ==
  /\ Dirty = {} /\ c # head /\ c \notin pruned
  /\ head' = c
  /\ Moved(commits[c])
  /\ UNCHANGED <<commits, pruned, edits>>

(*------------------------------- refresh --------------------------------*)

\* openSymbolStore and acquireIndexLock: the lock is free, or its holder died
\* and its heartbeat aged past the TTL.  A budgeted refresh is the guard's.
Begin(budgeted) ==
  /\ job = NoJob
  /\ job' = [at |-> "commit", budgeted |-> budgeted, head |-> head,
             listed |-> FALSE, todo |-> {}, stale |-> {}, dirty |-> {},
             ops |-> NoOps, seen |-> Unseen, whole |-> TRUE,
             reconciled |-> TRUE, done |-> TRUE]
  /\ ready' = 0
  /\ UNCHANGED <<gitVars, indexVars, history>>

\* Another session finds the lock held and reuses the index.
Skip ==
  /\ job # NoJob
  /\ ready' = IF indexed = head THEN head ELSE 0
  /\ UNCHANGED <<gitVars, indexVars, job, history>>

Goto(pc, todo) ==
  job' = [job EXCEPT !.at = pc, !.todo = todo, !.listed = TRUE]

\* The files the commit stage parses: nothing at HEAD, every tracked file of
\* a cold start or when the stamped commit is gone, else the diff.
ListCommit ==
  /\ job.at = "commit" /\ ~job.listed
  /\ LET cold == indexed = 0 \/ indexed \in pruned
         here == commits[job.head]
     IN IF indexed = job.head
        THEN Goto("overlay", {}) /\ UNCHANGED adrift
        ELSE IF cold
        THEN Goto("commit", Tracked(here))
             /\ adrift' = adrift \cup {f \in rows : here[f] = "absent"}
        ELSE Goto("commit", DiffNames(commits[indexed], here))
             /\ adrift' = adrift \cup RenamedAway(commits[indexed], here)
  /\ UNCHANGED <<gitVars, indexVars, ready, excused, unrecorded, behind>>

\* git failed: the commit stage is left out and nothing is stamped.
ListFails ==
  /\ job.at = "commit" /\ ~job.listed /\ indexed # job.head
  /\ job' = [job EXCEPT !.at = "overlay", !.listed = TRUE, !.done = FALSE]
  /\ UNCHANGED <<gitVars, indexVars, ready, history>>

\* git lists files in a fixed order.
Turn(f) == f \in job.todo /\ f = CHOOSE g \in job.todo : TRUE

\* parseFiles, one file: a missing file drops its symbols, an unsupported one
\* is passed over, a parsed one is upserted.
Read(f) ==
  /\ Turn(f)
  /\ job' = [job EXCEPT
       !.todo = @ \ {f},
       !.seen[f] = tree[f],
       !.ops[f] = IF f \in Unsupported THEN "keep"
                  ELSE IF tree[f] = "with" THEN "upsert" ELSE "drop"]
  /\ UNCHANGED <<gitVars, indexVars, ready, history>>

\* The file cannot be read or parsed: its previous rows stay.
ReadFails(f) ==
  /\ Turn(f) /\ f \notin Unsupported /\ tree[f] # "absent"
  /\ job' = [job EXCEPT !.todo = @ \ {f}]
  /\ excused' = excused \cup {f}
  /\ UNCHANGED <<gitVars, indexVars, ready, adrift, unrecorded, behind>>

\* On the budgeted path a file too large to parse is put off, and the budget
\* may be spent before the next file.
PutOff(f) ==
  /\ Turn(f) /\ f \notin Unsupported /\ job.budgeted /\ tree[f] # "absent"
  /\ job' = [job EXCEPT !.todo = @ \ {f}, !.whole = FALSE]
  /\ UNCHANGED <<gitVars, indexVars, ready, history>>
OverBudget ==
  /\ job # NoJob /\ job.budgeted /\ job.todo # {}
  /\ job' = [job EXCEPT !.todo = {}, !.whole = FALSE]
  /\ UNCHANGED <<gitVars, indexVars, ready, history>>

Applied == {f \in File : job.ops[f] # "keep"}
\* Those whose new rows are not the ones the stamp stands for.
OffStamp == {f \in Applied : indexed = 0 \/ job.seen[f] # commits[indexed][f]}
ApplyOps ==
  /\ rows' = {f \in File : job.ops[f] = "upsert" \/ (f \in rows /\ job.ops[f] = "keep")}
  /\ LET current == {f \in Applied : job.seen[f] = tree[f]} IN
       /\ behind' = behind \ current
       /\ excused' = IF head = job.head THEN excused \ current ELSE excused

\* The stamp of a batch that was cut short.
ApplyCommit_StampsCut ==
  /\ job.at = "commit" /\ job.listed /\ job.todo = {}
  /\ ApplyOps
  /\ indexed' = job.head
  /\ job' = [job EXCEPT !.at = "overlay", !.ops = NoOps, !.seen = Unseen, !.whole = TRUE]
  /\ UNCHANGED <<gitVars, overlay, ready, adrift, unrecorded>>

\* applyBatch of the commit stage: the stamp is in the same transaction, and
\* only when every file of the diff was applied.
ApplyCommit ==
  /\ job.at = "commit" /\ job.listed /\ job.todo = {}
  /\ ApplyOps
  /\ indexed' = IF job.whole THEN job.head ELSE indexed
  /\ LET committed == {f \in Applied : job.seen[f] = commits[job.head][f]} IN
       IF job.whole
       THEN /\ adrift' = (adrift \ committed) \cup (Applied \ committed)
            /\ unrecorded' = unrecorded \ Applied
       ELSE unrecorded' = (unrecorded \ Applied) \cup OffStamp /\ UNCHANGED adrift
  /\ job' = [job EXCEPT !.at = "overlay", !.done = job.whole, !.ops = NoOps,
                        !.seen = Unseen, !.whole = TRUE]
  /\ UNCHANGED <<gitVars, overlay, ready>>

\* The answer, and the release of the lock.
Answer ==
  /\ ready' = IF job.done /\ indexed = job.head THEN job.head ELSE 0
  /\ job' = NoJob

\* The overlay stage: git status, then the files that were dirty last time
\* and are clean now, then the dirty ones.
ListDirty ==
  /\ job.at = "overlay"
  /\ job' = [job EXCEPT !.at = "stale", !.todo = overlay \ Dirty, !.dirty = Dirty,
                        !.stale = overlay \ Dirty]
  /\ UNCHANGED <<gitVars, indexVars, ready, history>>
StatusFails ==
  /\ job.at = "overlay"
  /\ Answer
  /\ UNCHANGED <<gitVars, indexVars, history>>
ToDirty ==
  /\ job.at = "stale" /\ job.todo = {}
  /\ job' = [job EXCEPT !.at = "dirty", !.todo = job.dirty, !.reconciled = job.whole]
  /\ UNCHANGED <<gitVars, indexVars, ready, history>>

ApplyOverlay ==
  /\ job.at = "dirty" /\ job.todo = {}
  /\ ApplyOps
  /\ unrecorded' = (unrecorded \ Applied) \cup OffStamp
  /\ job' = [job EXCEPT !.at = "record", !.ops = NoOps, !.seen = Unseen]
  /\ UNCHANGED <<gitVars, indexed, overlay, ready, adrift>>

\* setMeta overlay_files is a transaction of its own: whoever is killed before
\* it leaves rows of dirty files that no list names.
RecordOverlay ==
  /\ job.at = "record"
  /\ overlay' = IF job.reconciled THEN job.dirty ELSE job.dirty \cup job.stale
  /\ adrift' = adrift \ overlay' /\ unrecorded' = unrecorded \ overlay'
  /\ Answer
  /\ UNCHANGED <<gitVars, rows, indexed, excused, behind>>

\* The process dies; the transaction it was in is rolled back and its lock
\* goes stale.
Crash ==
  /\ job # NoJob
  /\ job' = NoJob
  /\ UNCHANGED <<gitVars, indexVars, ready, history>>

SymbolInit ==
  /\ tree = Unseen /\ commits = <<tree>> /\ head = 1 /\ pruned = {} /\ edits = 0
  /\ rows = {} /\ indexed = 0 /\ overlay = {} /\ job = NoJob /\ ready = 0
  /\ excused = {} /\ adrift = {} /\ unrecorded = {} /\ behind = File

User ==
  \/ \E f \in File, c \in Content : Edit(f, c)
  \/ \E amend \in BOOLEAN : Commit(amend)
  \/ \E c \in 1..Len(commits) : Checkout(c)

\* The steps that carry the refresh in hand to its answer.
Progress ==
  \/ job # NoJob /\ (ListCommit \/ ApplyCommit \/ ListDirty \/ ToDirty)
  \/ job # NoJob /\ (ApplyOverlay \/ RecordOverlay)
  \/ \E f \in File : job # NoJob /\ Read(f)

Refresh ==
  \/ Progress \/ Skip \/ OverBudget \/ Crash
  \/ \E b \in BOOLEAN : Begin(b)
  \/ job # NoJob /\ (ListFails \/ StatusFails)
  \/ \E f \in File : job # NoJob /\ (ReadFails(f) \/ PutOff(f))

(*------------------------------ properties -------------------------------*)

\* The committed side of an answer: files the overlay does not claim and that
\* are clean against the commit the answer is about.
Claimed == {f \in File : tree[f] = commits[ready][f]} \ overlay
Correct(f) == (f \in rows) <=> Shows(commits[ready], f)

\* When refreshIndex answers ready, every file that is clean and unclaimed by
\* the overlay has the rows of the commit, whatever budgets, git failures,
\* parse failures and crashes came before, except for the files that an edit
\* raced or that would not parse (excused), that git does not list or a commit
\* stage read dirty (adrift), and those of a pass that was cut, or killed between
\* its two transactions, until a refresh finds them dirty or changed again and
\* records them (unrecorded): reverted or checked out before that, they are clean
\* and wrong, which is not what indexer.ts:291-294 says of the overlay.
ReadyTruthful ==
  ready # 0 => \A f \in Claimed \ (excused \cup adrift \cup unrecorded) : Correct(f)
=============================================================================
