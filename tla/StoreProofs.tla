----------------------------- MODULE StoreProofs -----------------------------
(***************************************************************************)
(* The components of the store suite, for any number of processes, rows,      *)
(* tabs, exporters and servers: what the suite's runs check on small           *)
(* instances.                                                              *)
(***************************************************************************)
EXTENDS StoreSuite, FiniteSetTheorems, WellFoundedInduction, TLAPS

(* A behaviour of the suite is one of a single component. *)
LEMMA SuiteInit ==
  Init => /\ part = "open" => Opening!Init
          /\ part = "purge" => Purging!Init
          /\ part = "forget" => Forgetting!Init
          /\ part = "export" => Exporting!Init
          /\ part = "rebuild" => Rebuilding!Init
          /\ part = "apply" => Applying!Init
BY DEF Init

LEMMA SuiteStep ==
  [Next]_vars => /\ part' = part
                 /\ part = "open" => [Opening!Next]_openVars
                 /\ part = "purge" => [Purging!Next]_purgeVars
                 /\ part = "forget" => [Forgetting!Next]_forgetVars
                 /\ part = "export" => [Exporting!Next]_exportVars
                 /\ part = "rebuild" => [Rebuilding!Next]_rebuildVars
                 /\ part = "apply" => [Applying!Next]_applyVars
BY DEF Next, vars, Open, Purge, Forget, Export, Rebuild, Apply

---------------------------------------------------------------------------
(* StoreOpen *)

(* The ledger holds the migrations up to a version, each once; obs, over ids,  *)
(* has every entry of the two indexes.                                       *)
Ledger(v) == [w \in 0..Opening!Current |-> IF w <= v THEN 1 ELSE 0]
RowsInv ==
  /\ \E v \in 0..Opening!Current : ledger = Ledger(v)
  /\ obs \in [DOMAIN obs -> Key] /\ DOMAIN obs \subseteq Nat
  /\ vec \cup fts \subseteq DOMAIN obs
  /\ Opening!Version >= Opening!Dedupe => Opening!Kept = DOMAIN obs

(* Version reads the version back from the ledger. *)
LEMMA VersionIs ==
  ASSUME NEW v \in 0..Opening!Current, ledger = Ledger(v)
  PROVE  Opening!Version = v
<1> DEFINE P(u) == ledger[u] > 0 /\ \A w \in 0..Opening!Current : ledger[w] > 0 => w <= u
<1>1. P(v)
  BY DEF Ledger, Opening!Current
<1>2. ASSUME NEW u \in 0..Opening!Current, P(u) PROVE u = v
  BY <1>1, <1>2 DEF Ledger, Opening!Current
<1> QED BY <1>1, <1>2 DEF Opening!Version

LEMMA InitRows == Opening!Init => RowsInv
<1> SUFFICES ASSUME Opening!Init PROVE RowsInv
  OBVIOUS
<1>1. PICK v \in Opening!Legacy : ledger = Ledger(v)
  BY DEF Opening!Init, Ledger
<1>2. v \in 0..Opening!Current
  BY DEF Opening!Legacy, Opening!Current
<1>3. PICK n : obs \in [1..n -> Key]
  BY DEF Opening!Init
<1>4. DOMAIN obs \subseteq Nat /\ obs \in [DOMAIN obs -> Key]
  BY <1>3
<1> QED BY <1>1, <1>2, <1>4 DEF Opening!Init, RowsInv

(* Every migration after the version, in one transaction: the ledger is whole. *)
LEMMA MigrateKeepsRows ==
  ASSUME RowsInv, NEW p \in Process, Opening!Migrate(p)
  PROVE  RowsInv'
<1>1. PICK v \in 0..Opening!Current : ledger = Ledger(v)
  BY DEF RowsInv
<1>2. Opening!Version = v
  BY <1>1, VersionIs
<1>3. Opening!Apply(v)
  BY <1>2 DEF Opening!Migrate
<1>4. ledger' = Ledger(Opening!Current)
  BY <1>1, <1>3 DEF Opening!Apply, Opening!Current, Ledger
<1>5. Opening!Kept' = DOMAIN obs'
  <2>1. CASE v < Opening!Dedupe
    <3>1. obs' = [i \in Opening!Kept |-> obs[i]]
      BY <1>3, <2>1 DEF Opening!Apply
    <3> QED BY <3>1 DEF Opening!Kept
  <2>2. CASE ~(v < Opening!Dedupe)
    <3>1. obs' = obs
      BY <1>3, <2>2 DEF Opening!Apply
    <3>2. Opening!Kept = DOMAIN obs
      BY <1>2, <2>2 DEF RowsInv, Opening!Dedupe, Opening!Current
    <3> QED BY <3>1, <3>2 DEF Opening!Kept
  <2> QED BY <2>1, <2>2
<1>6. /\ obs' \in [DOMAIN obs' -> Key] /\ DOMAIN obs' \subseteq Nat
      /\ vec' \cup fts' \subseteq DOMAIN obs'
  <2>1. CASE v < Opening!Dedupe
    BY <1>3, <2>1 DEF Opening!Apply, Opening!Kept, RowsInv
  <2>2. CASE ~(v < Opening!Dedupe)
    BY <1>3, <2>2 DEF Opening!Apply, RowsInv
  <2> QED BY <2>1, <2>2
<1> QED BY <1>4, <1>5, <1>6 DEF RowsInv, Opening!Current

(* A new row has a key of its own and the highest id. *)
LEMMA InsertKeepsRows ==
  ASSUME RowsInv, NEW p \in Process, NEW k \in Key, Opening!Insert(p, k)
  PROVE  RowsInv'
<1>1. PICK i \in RowId \ DOMAIN obs :
        /\ \A j \in DOMAIN obs : j < i
        /\ obs' = [j \in DOMAIN obs \cup {i} |-> IF j = i THEN k ELSE obs[j]]
        /\ fts' = fts \cup {i} /\ vec' = vec \cup {i}
  BY DEF Opening!Insert
<1>2. ledger' = ledger /\ \A j \in DOMAIN obs : obs[j] # k
  BY DEF Opening!Insert
<1>3. Opening!Version' = Opening!Version
  BY <1>2 DEF Opening!Version
<1>4. i \in Nat
  BY IdAssumption
<1>5. ASSUME Opening!Kept = DOMAIN obs PROVE Opening!Kept' = DOMAIN obs'
  BY <1>1, <1>2, <1>4, <1>5 DEF Opening!Kept, RowsInv
<1> QED BY <1>1, <1>2, <1>3, <1>4, <1>5 DEF RowsInv, Ledger

LEMMA StepKeepsRows == RowsInv /\ [Opening!Next]_openVars => RowsInv'
<1> SUFFICES ASSUME RowsInv, [Opening!Next]_openVars PROVE RowsInv'
  OBVIOUS
<1>1. ASSUME UNCHANGED Opening!rowVars PROVE RowsInv'
  BY <1>1 DEF Opening!rowVars, RowsInv, Opening!Version, Opening!Kept, Ledger
<1>2. ASSUME NEW p \in Process, Opening!Migrate(p) PROVE RowsInv'
  BY <1>2, MigrateKeepsRows
<1>3. ASSUME NEW p \in Process, NEW k \in Key, Opening!Insert(p, k) PROVE RowsInv'
  BY <1>3, InsertKeepsRows
<1>4. ASSUME NEW p \in Process,
             \/ Opening!Open(p) \/ Opening!NotDue(p) \/ Opening!Checkpoint(p)
             \/ Opening!CheckpointBusy(p) \/ Opening!StartCopy(p) \/ Opening!Promote(p)
             \/ Opening!Close(p) \/ Opening!Finish(p) \/ Opening!Crash(p)
      PROVE  UNCHANGED Opening!rowVars
  BY <1>4 DEF Opening!Open, Opening!NotDue, Opening!Checkpoint, Opening!CheckpointBusy,
       Opening!StartCopy, Opening!Promote, Opening!Close, Opening!Finish, Opening!Crash
<1>5. ASSUME NEW p \in Process, NEW g \in Opening!Page,
             Opening!WritePage(p, g) \/ Opening!CopyPage(p, g)
      PROVE  UNCHANGED Opening!rowVars
  BY <1>5 DEF Opening!WritePage, Opening!CopyPage
<1>6. ASSUME Opening!Damage \/ Opening!DayPasses \/ UNCHANGED openVars
      PROVE  UNCHANGED Opening!rowVars
  BY <1>6 DEF Opening!Damage, Opening!DayPasses, openVars, Opening!rowVars
<1> QED BY <1>1, <1>2, <1>3, <1>4, <1>5, <1>6 DEF Opening!Next

(* However many processes of a new version open an old store, and die over it:    *)
(* each migration is applied once, and the migrated store has one row per key,     *)
(* the lowest id of each, and no index entry without its row                     *)
(* (memory-store.ts, runMigrations; schema.ts).                                 *)
THEOREM MigrationsApplyOnce == Spec => []MigratedOnce
<1> DEFINE Inv == part = "open" => RowsInv
<1>1. Init => Inv
  BY SuiteInit, InitRows
<1>2. Inv /\ [Next]_vars => Inv'
  BY SuiteStep, StepKeepsRows
<1>3. RowsInv => Opening!MigratedOnce
  <2> SUFFICES ASSUME RowsInv PROVE Opening!MigratedOnce
    OBVIOUS
  <2>1. \A v \in 0..Opening!Current : ledger[v] <= 1
    BY DEF RowsInv, Ledger
  <2> QED BY <2>1 DEF RowsInv, Opening!MigratedOnce
<1>4. Inv => MigratedOnce
  BY <1>3 DEF MigratedOnce
<1> QED BY <1>1, <1>2, <1>4, PTL DEF Spec

(* What a checkpointer has written reflects the commit it began with, and nobody  *)
(* else writes; a copy that is not raced is of one commit.                     *)
Copied == [pages : [Opening!Page -> Nat], asof : Nat, damaged : BOOLEAN, raced : BOOLEAN]
Place == {"closed", "refused", "backup", "checkpoint", "copy", "migrate", "open", "closing"}
Opener == [at : Place, tmp : Copied, todo : SUBSET Opening!Page]
Checks(r) == r.at \in {"checkpoint", "closing"}
SoundCheck(r) ==
  Checks(r) => r.tmp.asof <= log /\ \A g \in Opening!Page \ r.todo : file[g] = r.tmp.asof
SoundCopy(r) ==
  r.at = "copy" /\ ~r.tmp.raced =>
    /\ \A g \in Opening!Page : file[g] = r.tmp.asof
    /\ \A g \in Opening!Page \ r.todo : r.tmp.pages[g] = r.tmp.asof
BackupInv ==
  /\ log \in Nat /\ file \in [Opening!Page -> Nat] /\ damaged \in BOOLEAN
  /\ procs \in [Process -> Opener]
  /\ \A g \in Opening!Page : file[g] <= log
  /\ \A p, q \in Process : Checks(procs[p]) /\ Checks(procs[q]) => p = q
  /\ \A p \in Process : SoundCheck(procs[p]) /\ SoundCopy(procs[p])
  /\ Opening!BackupRestores

LEMMA NoBakType == Opening!NoBak \in Copied /\ Opening!Closed \in Opener
<1>1. Opening!NoBak \in Copied
  BY DEF Opening!NoBak, Copied
<1> QED BY <1>1 DEF Opening!Closed, Opener, Place

LEMMA InitBackup == Opening!Init => BackupInv
<1> SUFFICES ASSUME Opening!Init PROVE BackupInv
  OBVIOUS
<1>1. /\ log = 1 /\ file = [g \in Opening!Page |-> 1] /\ damaged = FALSE
      /\ bak = Opening!NoBak /\ procs = [p \in Process |-> Opening!Closed]
  BY DEF Opening!Init
<1>2. procs \in [Process -> Opener]
  BY <1>1, NoBakType
<1>3. \A p \in Process : procs[p].at = "closed"
  BY <1>1 DEF Opening!Closed
<1>4. \A p \in Process : ~Checks(procs[p]) /\ SoundCheck(procs[p]) /\ SoundCopy(procs[p])
  BY <1>3 DEF Checks, SoundCheck, SoundCopy
<1>5. Opening!BackupRestores
  BY <1>1 DEF Opening!BackupRestores
<1>6. log \in Nat /\ file \in [Opening!Page -> Nat] /\ \A g \in Opening!Page : file[g] <= log
  BY <1>1
<1> QED BY <1>1, <1>2, <1>4, <1>5, <1>6 DEF BackupInv

(* A step of one process that leaves the file, the log and the backup alone.      *)
LEMMA OneStepKeepsBackup ==
  ASSUME BackupInv, NEW p \in Process, NEW r \in Opener, procs' = [procs EXCEPT ![p] = r],
         UNCHANGED <<log, file, damaged, bak>>, SoundCheck(r), SoundCopy(r),
         Checks(r) => Checks(procs[p]) \/ Opening!Checkpointing = {}
  PROVE  BackupInv'
<1>1. \A q \in Process : procs'[q] = IF q = p THEN r ELSE procs[q]
  BY DEF BackupInv
<1>2. procs' \in [Process -> Opener]
  BY DEF BackupInv
<1>3. \A q \in Process : SoundCheck(procs'[q]) /\ SoundCopy(procs'[q])
  BY <1>1 DEF BackupInv
<1>4. \A q \in Process : (SoundCheck(procs[q]) /\ SoundCopy(procs[q]))'
  BY <1>3 DEF SoundCheck, SoundCopy
<1>5. \A q, s \in Process : Checks(procs'[q]) /\ Checks(procs'[s]) => q = s
  BY <1>1 DEF BackupInv, Opening!Checkpointing, Checks
<1>6. (\A q, s \in Process : Checks(procs[q]) /\ Checks(procs[s]) => q = s)'
  BY <1>5 DEF Checks
<1> QED BY <1>2, <1>4, <1>6 DEF BackupInv, Opening!BackupRestores

(* The checkpointer begins with the pages that lag behind the last commit.      *)
LEMMA StartCheckpointKeeps ==
  ASSUME BackupInv, NEW p \in Process, Opening!Checkpointing = {},
         NEW pc0 \in {"checkpoint", "closing"}, Opening!StartCheckpoint(p, pc0),
         UNCHANGED <<log, file, damaged, bak>>
  PROVE  BackupInv'
<1> DEFINE t == [Opening!NoBak EXCEPT !.asof = log]
           r == [procs[p] EXCEPT !.at = pc0, !.todo = {g \in Opening!Page : file[g] < log}, !.tmp = t]
<1>1. t \in Copied /\ t.asof = log
  BY NoBakType DEF Copied, BackupInv
<1>2. /\ r \in Opener /\ r.at = pc0 /\ r.tmp = t
      /\ r.todo = {g \in Opening!Page : file[g] < log}
  BY <1>1 DEF Opener, BackupInv, Place
<1>3. procs' = [procs EXCEPT ![p] = r]
  BY DEF Opening!StartCheckpoint
<1> HIDE DEF t, r
<1>4. SoundCheck(r) /\ SoundCopy(r)
  BY <1>1, <1>2 DEF SoundCheck, SoundCopy, BackupInv
<1> QED BY <1>2, <1>3, <1>4, OneStepKeepsBackup

(* The other steps of an opening leave the file as it is.                        *)
LEMMA MovesKeepBackup ==
  ASSUME BackupInv, NEW p \in Process, NEW r \in Opener, procs' = [procs EXCEPT ![p] = r],
         UNCHANGED <<log, file, damaged, bak>>, r.at \in {"closed", "refused", "backup", "migrate", "open"}
  PROVE  BackupInv'
BY OneStepKeepsBackup DEF SoundCheck, SoundCopy, Checks

LEMMA GotoKeepsBackup ==
  ASSUME BackupInv, NEW p \in Process, NEW pc0 \in {"refused", "backup", "migrate", "open"},
         Opening!Goto(p, pc0), UNCHANGED <<log, file, damaged, bak>>
  PROVE  BackupInv'
<1> DEFINE r == [procs[p] EXCEPT !.at = pc0]
<1>1. r \in Opener /\ r.at = pc0
  BY DEF Opener, BackupInv, Place
<1>2. procs' = [procs EXCEPT ![p] = r]
  BY DEF Opening!Goto
<1> QED BY <1>1, <1>2, MovesKeepBackup

LEMMA OpenKeepsBackup ==
  ASSUME BackupInv, NEW p \in Process,
         \/ Opening!Open(p) \/ Opening!NotDue(p) \/ Opening!CheckpointBusy(p)
         \/ Opening!Finish(p) \/ Opening!Crash(p)
  PROVE  BackupInv'
<1>1. CASE Opening!Open(p)
  <2>1. /\ Opening!Goto(p, "refused") \/ Opening!Goto(p, "backup")
        /\ UNCHANGED <<log, file, damaged, bak>>
    BY <1>1 DEF Opening!Open, Opening!bakVars
  <2> QED BY <2>1, GotoKeepsBackup
<1>2. CASE Opening!NotDue(p) \/ Opening!CheckpointBusy(p)
  <2>1. Opening!Goto(p, "migrate") /\ UNCHANGED <<log, file, damaged, bak>>
    BY <1>2 DEF Opening!NotDue, Opening!CheckpointBusy, Opening!bakVars
  <2> QED BY <2>1, GotoKeepsBackup
<1>3. CASE Opening!Finish(p) \/ Opening!Crash(p)
  <2>1. procs' = [procs EXCEPT ![p] = Opening!Closed] /\ UNCHANGED <<log, file, damaged, bak>>
    BY <1>3 DEF Opening!Finish, Opening!Crash, Opening!bakVars
  <2>2. Opening!Closed.at = "closed"
    BY DEF Opening!Closed
  <2> QED BY <2>1, <2>2, NoBakType, MovesKeepBackup
<1> QED BY <1>1, <1>2, <1>3

(* A page that is written under a copy marks it as raced.                        *)
LEMMA WritePageKeepsBackup ==
  ASSUME BackupInv, NEW p \in Process, NEW g \in Opening!Page, Opening!WritePage(p, g)
  PROVE  BackupInv'
<1> DEFINE new(q) ==
      IF q = p THEN [procs[p] EXCEPT !.todo = procs[p].todo \ {g}]
      ELSE IF procs[q].at \in {"copy", "probe"} THEN [procs[q] EXCEPT !.tmp.raced = TRUE]
      ELSE procs[q]
<1>1. /\ Checks(procs[p]) /\ file' = [file EXCEPT ![g] = procs[p].tmp.asof]
      /\ procs' = [q \in Process |-> new(q)] /\ UNCHANGED <<log, damaged, bak>>
  BY DEF Opening!WritePage, Checks, Opening!bakVars
<1>2. \A q \in Process : new(q) \in Opener /\ new(q).at = procs[q].at
  <2> SUFFICES ASSUME NEW q \in Process PROVE new(q) \in Opener /\ new(q).at = procs[q].at
    OBVIOUS
  <2>1. procs[q] \in Opener /\ procs[p] \in Opener
    BY DEF BackupInv
  <2>2. [procs[q].tmp EXCEPT !.raced = TRUE] \in Copied
    BY <2>1 DEF Opener, Copied
  <2> QED BY <2>1, <2>2 DEF Opener
<1>3. \A q \in Process : procs'[q] = new(q)
  BY <1>1
<1>4. procs[p].tmp.asof \in Nat /\ procs[p].tmp.asof <= log
  BY <1>1 DEF BackupInv, Opener, Copied, SoundCheck
<1>5. /\ file' \in [Opening!Page -> Nat]
      /\ \A h \in Opening!Page : file'[h] = IF h = g THEN procs[p].tmp.asof ELSE file[h]
  BY <1>1, <1>4 DEF BackupInv
<1>6. ASSUME NEW q \in Process PROVE SoundCheck(procs[q])' /\ SoundCopy(procs[q])'
  <2>1. CASE q = p
    <3>1. procs'[q].at = procs[p].at /\ procs'[q].tmp = procs[p].tmp /\ procs'[q].todo = procs[p].todo \ {g}
      BY <1>3, <2>1 DEF BackupInv, Opener
    <3> QED BY <1>1, <1>5, <3>1 DEF SoundCheck, SoundCopy, Checks, BackupInv
  <2>2. CASE q # p
    <3>1. ~Checks(procs'[q])
      BY <1>1, <1>2, <1>3, <2>2 DEF BackupInv, Checks
    <3>2. procs'[q].at = "copy" => procs'[q].tmp.raced
      BY <1>2, <1>3, <2>2 DEF BackupInv, Opener, Copied
    <3> QED BY <3>1, <3>2 DEF SoundCheck, SoundCopy
  <2> QED BY <2>1, <2>2
<1>7. (\A q, s \in Process : Checks(procs[q]) /\ Checks(procs[s]) => q = s)'
  BY <1>2, <1>3 DEF BackupInv, Checks
<1>8. procs' \in [Process -> Opener]
  BY <1>1, <1>2
<1>9. Opening!BackupRestores'
  BY <1>1 DEF BackupInv, Opening!BackupRestores
<1> HIDE DEF new
<1>10. log' \in Nat /\ damaged' \in BOOLEAN /\ \A h \in Opening!Page : file'[h] <= log'
  BY <1>1, <1>4, <1>5 DEF BackupInv
<1> QED BY <1>5, <1>6, <1>7, <1>8, <1>9, <1>10 DEF BackupInv

LEMMA StartCopyKeepsBackup ==
  ASSUME BackupInv, NEW p \in Process, Opening!StartCopy(p)
  PROVE  BackupInv'
<1> DEFINE r == [procs[p] EXCEPT !.at = "copy", !.todo = Opening!Page]
<1>1. /\ procs[p].at = "checkpoint" /\ procs[p].todo = {}
      /\ procs' = [procs EXCEPT ![p] = r] /\ UNCHANGED <<log, file, damaged, bak>>
  BY DEF Opening!StartCopy, Opening!bakVars
<1>2. r \in Opener /\ r.at = "copy" /\ r.tmp = procs[p].tmp /\ r.todo = Opening!Page
  BY DEF BackupInv, Opener, Place
<1> HIDE DEF r
<1>3. SoundCheck(r) /\ SoundCopy(r) /\ ~Checks(r)
  BY <1>1, <1>2 DEF BackupInv, SoundCheck, SoundCopy, Checks
<1> QED BY <1>1, <1>2, <1>3, OneStepKeepsBackup

LEMMA CopyPageKeepsBackup ==
  ASSUME BackupInv, NEW p \in Process, NEW g \in Opening!Page, Opening!CopyPage(p, g)
  PROVE  BackupInv'
<1> DEFINE t == [procs[p].tmp EXCEPT !.pages[g] = file[g],
                                     !.damaged = procs[p].tmp.damaged \/ damaged]
           r == [procs[p] EXCEPT !.tmp = t, !.todo = procs[p].todo \ {g}]
<1>0. procs[p] \in Opener /\ procs[p].tmp \in Copied
  BY DEF BackupInv, Opener
<1>1. /\ procs[p].at = "copy"
      /\ procs' = [procs EXCEPT ![p] = r] /\ UNCHANGED <<log, file, damaged, bak>>
  <2>1. procs[p].at = "copy" /\ UNCHANGED <<log, file, damaged, bak>>
    BY DEF Opening!CopyPage, Opening!bakVars
  <2>2. procs' = [procs EXCEPT ![p] = r]
    BY ZenonT(60) DEF Opening!CopyPage
  <2> QED BY <2>1, <2>2
<1>2. /\ t.pages = [procs[p].tmp.pages EXCEPT ![g] = file[g]]
      /\ t.asof = procs[p].tmp.asof /\ t.raced = procs[p].tmp.raced
  BY <1>0 DEF Copied
<1>3. t \in Copied
  BY <1>0 DEF Copied, BackupInv
<1>4. r \in Opener /\ r.at = "copy" /\ r.tmp = t /\ r.todo = procs[p].todo \ {g}
  BY <1>0, <1>1, <1>3 DEF Opener
<1> HIDE DEF t, r
<1>5. SoundCopy(procs[p])
  BY DEF BackupInv
<1>6. SoundCopy(r)
  BY <1>0, <1>1, <1>2, <1>4, <1>5 DEF SoundCopy, Copied
<1>7. SoundCheck(r) /\ ~Checks(r)
  BY <1>4 DEF SoundCheck, Checks
<1> QED BY <1>1, <1>4, <1>6, <1>7, OneStepKeepsBackup

(* The rename: an undamaged copy of both pages, of one commit if it was not raced. *)
LEMMA PromoteKeepsBackup ==
  ASSUME BackupInv, NEW p \in Process, Opening!Promote(p)
  PROVE  BackupInv'
<1> DEFINE r == [procs[p] EXCEPT !.at = "migrate", !.tmp = Opening!NoBak]
<1>0. procs[p] \in Opener /\ procs[p].tmp \in Copied /\ SoundCopy(procs[p])
  BY DEF BackupInv, Opener
<1>1. /\ procs[p].at = "copy" /\ procs[p].todo = {}
      /\ procs' = [procs EXCEPT ![p] = r] /\ UNCHANGED <<log, file, damaged>>
      /\ bak' = bak \/ (bak' = procs[p].tmp /\ ~procs[p].tmp.damaged)
  BY DEF Opening!Promote, Opening!bakVars
<1>2. r \in Opener /\ r.at = "migrate"
  BY <1>0, NoBakType DEF Opener, Place
<1> HIDE DEF r
<1>3. \A q \in Process : procs'[q] = IF q = p THEN r ELSE procs[q]
  BY <1>1 DEF BackupInv
<1>4. procs' \in [Process -> Opener]
  BY <1>1, <1>2 DEF BackupInv
<1>5. \A q \in Process : SoundCheck(procs[q])' /\ SoundCopy(procs[q])'
  BY <1>1, <1>2, <1>3 DEF BackupInv, SoundCheck, SoundCopy, Checks
<1>6. (\A q, s \in Process : Checks(procs[q]) /\ Checks(procs[s]) => q = s)'
  BY <1>2, <1>3 DEF BackupInv, Checks
<1>7. Opening!BackupRestores'
  <2>1. CASE bak' = bak
    BY <2>1 DEF BackupInv, Opening!BackupRestores
  <2>2. CASE bak' = procs[p].tmp /\ ~procs[p].tmp.damaged
    <3>1. procs[p].tmp.raced \/ (\A g \in Opening!Page : procs[p].tmp.pages[g] = procs[p].tmp.asof)
      BY <1>0, <1>1 DEF SoundCopy
    <3>2. "rows" \in Opening!Page /\ "index" \in Opening!Page /\ procs[p].tmp.asof \in Nat
      BY <1>0 DEF Opening!Page, Copied
    <3> QED BY <2>2, <3>1, <3>2 DEF Opening!BackupRestores
  <2> QED BY <1>1, <2>1, <2>2
<1> QED BY <1>1, <1>4, <1>5, <1>6, <1>7 DEF BackupInv

(* A commit goes to the log alone.                                             *)
LEMMA CommitKeepsBackup ==
  ASSUME BackupInv, log' \in {log, log + 1}, UNCHANGED <<file, procs, bak>>, damaged' \in BOOLEAN
  PROVE  BackupInv'
<1>1. \A q \in Process : procs[q] \in Opener /\ procs[q].tmp.asof \in Nat
  BY DEF BackupInv, Opener, Copied
<1>2. \A q \in Process : SoundCheck(procs[q])' /\ SoundCopy(procs[q])'
  BY <1>1 DEF BackupInv, SoundCheck, SoundCopy, Checks
<1>3. log' \in Nat /\ \A g \in Opening!Page : file'[g] <= log'
  BY DEF BackupInv
<1> QED BY <1>2, <1>3 DEF BackupInv, Opening!BackupRestores

LEMMA MigrateKeepsBackup ==
  ASSUME BackupInv, NEW p \in Process, Opening!Migrate(p)
  PROVE  BackupInv'
<1> DEFINE r == [procs[p] EXCEPT !.at = "open"]
<1>1. /\ procs' = [procs EXCEPT ![p] = r] /\ UNCHANGED <<file, damaged, bak>>
      /\ log' = log \/ log' = log + 1
  BY DEF Opening!Migrate, Opening!Goto, Opening!Apply, Opening!bakVars
<1>2. r \in Opener /\ r.at = "open"
  BY DEF BackupInv, Opener, Place
<1> HIDE DEF r
<1>3. \A q \in Process : procs'[q] = IF q = p THEN r ELSE procs[q]
  BY <1>1 DEF BackupInv
<1>4. procs' \in [Process -> Opener]
  BY <1>1, <1>2 DEF BackupInv
<1>5. \A q \in Process : procs[q].tmp.asof \in Nat
  BY DEF BackupInv, Opener, Copied
<1>6. \A q \in Process : SoundCheck(procs[q])' /\ SoundCopy(procs[q])'
  BY <1>1, <1>2, <1>3, <1>5 DEF BackupInv, SoundCheck, SoundCopy, Checks
<1>7. (\A q, s \in Process : Checks(procs[q]) /\ Checks(procs[s]) => q = s)'
  BY <1>2, <1>3 DEF BackupInv, Checks
<1>8. log' \in Nat /\ \A g \in Opening!Page : file'[g] <= log'
  BY <1>1 DEF BackupInv
<1> QED BY <1>1, <1>4, <1>6, <1>7, <1>8 DEF BackupInv, Opening!BackupRestores

LEMMA StepKeepsBackup == BackupInv /\ [Opening!Next]_openVars => BackupInv'
<1> SUFFICES ASSUME BackupInv, [Opening!Next]_openVars PROVE BackupInv'
  OBVIOUS
<1>1. ASSUME NEW p \in Process, Opening!Checkpoint(p) \/ Opening!Close(p) PROVE BackupInv'
  <2>1. /\ Opening!Checkpointing = {} /\ UNCHANGED <<log, file, damaged, bak>>
        /\ Opening!StartCheckpoint(p, "checkpoint") \/ Opening!StartCheckpoint(p, "closing")
    BY <1>1 DEF Opening!Checkpoint, Opening!Close, Opening!bakVars
  <2> QED BY <2>1, StartCheckpointKeeps
<1>2. ASSUME NEW p \in Process, NEW k \in Key, Opening!Insert(p, k) PROVE BackupInv'
  <2>1. log' = log + 1 /\ UNCHANGED <<file, procs, damaged, bak>>
    BY <1>2 DEF Opening!Insert, Opening!bakVars
  <2>2. damaged' \in BOOLEAN
    BY <2>1 DEF BackupInv
  <2> QED BY <2>1, <2>2, CommitKeepsBackup
<1>3. CASE Opening!Damage \/ Opening!DayPasses \/ UNCHANGED openVars
  <2>1. damaged' \in {damaged, TRUE} /\ UNCHANGED <<log, file, procs, bak>>
    BY <1>3 DEF Opening!Damage, Opening!DayPasses, openVars, Opening!bakVars
  <2>2. damaged' \in BOOLEAN
    BY <2>1 DEF BackupInv
  <2> QED BY <2>1, <2>2, CommitKeepsBackup
<1>4. ASSUME NEW p \in Process,
             \/ Opening!Open(p) \/ Opening!NotDue(p) \/ Opening!CheckpointBusy(p)
             \/ Opening!Finish(p) \/ Opening!Crash(p)
      PROVE  BackupInv'
  BY <1>4, OpenKeepsBackup
<1>5. ASSUME NEW p \in Process, Opening!StartCopy(p) \/ Opening!Promote(p) \/ Opening!Migrate(p)
      PROVE  BackupInv'
  BY <1>5, StartCopyKeepsBackup, PromoteKeepsBackup, MigrateKeepsBackup
<1>6. ASSUME NEW p \in Process, NEW g \in Opening!Page,
             Opening!WritePage(p, g) \/ Opening!CopyPage(p, g)
      PROVE  BackupInv'
  BY <1>6, WritePageKeepsBackup, CopyPageKeepsBackup
<1> QED BY <1>1, <1>2, <1>3, <1>4, <1>5, <1>6 DEF Opening!Next

(* The daily backup (memory-store.ts, maybeBackup), while other processes open,    *)
(* write, checkpoint, close and die, and the medium decays: once there is one, it   *)
(* is undamaged, and of one commit not older than its checkpoint, unless another     *)
(* process's checkpoint wrote under the copy.                                    *)
THEOREM BackupsRestore == Spec => []BackupRestores
<1> DEFINE Inv == part = "open" => BackupInv
<1>1. Init => Inv
  BY SuiteInit, InitBackup
<1>2. Inv /\ [Next]_vars => Inv'
  BY SuiteStep, StepKeepsBackup
<1>3. Inv => BackupRestores
  BY DEF BackupInv, BackupRestores
<1> QED BY <1>1, <1>2, <1>3, PTL DEF Spec

---------------------------------------------------------------------------
(* Forget *)

View == [pc : {"idle", "dialog", "confirmed", "done"}, token : Nat,
         handle : Nat, shown : SUBSET Forgetting!Id]

(* A handle is minted once; what is pinned under it is what its tab shows, and   *)
(* no row gets an id that was shown to anybody.                                *)
ForgetInv ==
  /\ nextId \in Nat /\ handles \in Nat
  /\ rows \in [Forgetting!Id -> Session \cup {NoRow}]
  /\ tab \in [Tab -> View]
  /\ \A i \in Forgetting!Id : i >= nextId => rows[i] = NoRow
  /\ \A t \in Tab : tab[t].handle <= handles /\ \A i \in tab[t].shown : i < nextId
  /\ \A e \in cache : e.h \in Nat /\ 0 < e.h /\ e.h <= handles
  /\ \A e \in cache, t \in Tab : e.h = tab[t].handle => e.ids = tab[t].shown
  /\ server \in Nat
  /\ Forgetting!AllShownGone

LEMMA PageView ==
  ASSUME NEW k \in Nat
  PROVE  /\ Forgetting!Page(k) \in View /\ Forgetting!Page(k).pc = "idle"
         /\ Forgetting!Page(k).handle = 0 /\ Forgetting!Page(k).shown = {}
BY DEF Forgetting!Page, View

LEMMA InitForget == Forgetting!Init => ForgetInv
<1> SUFFICES ASSUME Forgetting!Init PROVE ForgetInv
  OBVIOUS
<1>1. /\ nextId = 1 /\ handles = 0 /\ server = 0 /\ cache = {}
      /\ rows = [i \in Forgetting!Id |-> NoRow] /\ tab = [t \in Tab |-> Forgetting!Page(0)]
  BY DEF Forgetting!Init
<1>2. \A t \in Tab : tab[t] \in View /\ tab[t].pc = "idle" /\ tab[t].handle = 0 /\ tab[t].shown = {}
  BY <1>1, PageView
<1>3. tab \in [Tab -> View]
  BY <1>1, <1>2
<1>4. Forgetting!AllShownGone
  BY <1>2 DEF Forgetting!AllShownGone
<1> QED BY <1>1, <1>2, <1>3, <1>4 DEF ForgetInv, View

(* A step of one tab that shows nothing new and touches no row.                   *)
LEMMA TabKeeps ==
  ASSUME ForgetInv, NEW t \in Tab, NEW v \in View, tab' = [tab EXCEPT ![t] = v],
         UNCHANGED <<rows, nextId, handles, server>>, cache' \subseteq cache,
         \/ v.handle = 0 /\ v.shown = {}
         \/ v.handle = tab[t].handle /\ v.shown = tab[t].shown,
         v.pc = "done" => v.shown \cap Forgetting!Live = {}
  PROVE  ForgetInv'
<1>1. \A u \in Tab : tab'[u] = IF u = t THEN v ELSE tab[u]
  BY DEF ForgetInv
<1>2. tab' \in [Tab -> View]
  BY DEF ForgetInv, View
<1>3. v.handle <= handles /\ \A i \in v.shown : i < nextId
  BY DEF ForgetInv, View
<1>4. \A e \in cache : e.h = v.handle => e.ids = v.shown
  BY DEF ForgetInv, View
<1>5. Forgetting!AllShownGone'
  BY <1>1 DEF ForgetInv, Forgetting!AllShownGone, Forgetting!Live
<1>6. \A u \in Tab : tab'[u].handle <= handles' /\ \A i \in tab'[u].shown : i < nextId'
  BY <1>1, <1>3 DEF ForgetInv
<1>7. \A e \in cache', u \in Tab : e.h = tab'[u].handle => e.ids = tab'[u].shown
  BY <1>1, <1>4 DEF ForgetInv
<1> QED BY <1>2, <1>5, <1>6, <1>7 DEF ForgetInv, View

(* The rest of the program: a new row has a new id, a row that moves was live.     *)
LEMMA OthersKeepForget ==
  ASSUME ForgetInv, NEW s \in Session,
         \/ Forgetting!Capture(s) \/ Forgetting!Relabel(s)
         \/ \E i \in Forgetting!Id : Forgetting!Promote(i, s)
  PROVE  ForgetInv'
<1>1. CASE Forgetting!Capture(s)
  <2>1. /\ rows' = [rows EXCEPT ![nextId] = s] /\ nextId' = nextId + 1
        /\ UNCHANGED <<cache, handles, server, tab>>
    BY <1>1 DEF Forgetting!Capture
  <2>2. rows' \in [Forgetting!Id -> Session \cup {NoRow}]
    BY <2>1 DEF ForgetInv
  <2>3. \A i \in Forgetting!Id : i \in Nat /\ (i # nextId => rows'[i] = rows[i])
    BY <2>1 DEF ForgetInv, Forgetting!Id
  <2>4. \A t \in Tab : \A i \in tab[t].shown : i \in Forgetting!Id
    BY DEF ForgetInv, View
  <2>5. Forgetting!AllShownGone'
    BY <2>1, <2>3, <2>4 DEF ForgetInv, Forgetting!AllShownGone, Forgetting!Live
  <2>6. \A i \in Forgetting!Id : i >= nextId' => rows'[i] = NoRow
    BY <2>1, <2>3 DEF ForgetInv
  <2>7. \A t \in Tab : \A i \in tab[t].shown : i < nextId'
    BY <2>1, <2>3, <2>4 DEF ForgetInv
  <2> QED BY <2>1, <2>2, <2>5, <2>6, <2>7 DEF ForgetInv
<1>2. CASE Forgetting!Relabel(s)
  BY <1>2 DEF Forgetting!Relabel, ForgetInv, Forgetting!AllShownGone, Forgetting!Live
<1>3. ASSUME NEW i \in Forgetting!Id, Forgetting!Promote(i, s) PROVE ForgetInv'
  <2>1. /\ rows[i] # NoRow /\ rows' = [rows EXCEPT ![i] = s]
        /\ UNCHANGED <<nextId, cache, handles, server, tab>>
    BY <1>3 DEF Forgetting!Promote, Forgetting!Live
  <2>2. rows' \in [Forgetting!Id -> Session \cup {NoRow}]
    BY <2>1 DEF ForgetInv
  <2>3. \A j \in Forgetting!Id : rows[j] = NoRow => rows'[j] = NoRow
    BY <2>1 DEF ForgetInv
  <2>4. Forgetting!AllShownGone'
    BY <2>1, <2>3 DEF ForgetInv, Forgetting!AllShownGone, Forgetting!Live
  <2> QED BY <2>1, <2>2, <2>3, <2>4 DEF ForgetInv
<1> QED BY <1>1, <1>2, <1>3

(* A restart forgets the handles, and so does time.                             *)
LEMMA ForgettingHandlesKeeps ==
  ASSUME ForgetInv, Forgetting!Restart \/ Forgetting!Expire
  PROVE  ForgetInv'
<1>1. /\ cache' \subseteq cache /\ server' \in Nat /\ UNCHANGED <<rows, nextId, handles, tab>>
  BY DEF Forgetting!Restart, Forgetting!Expire, Forgetting!storeVars, ForgetInv
<1> QED BY <1>1 DEF ForgetInv, Forgetting!AllShownGone, Forgetting!Live

(* A reload shows nothing.                                                     *)
LEMMA ReloadKeeps ==
  ASSUME ForgetInv, NEW t \in Tab, Forgetting!Reload(t), cache' \subseteq cache,
         UNCHANGED <<rows, nextId, handles, server>>
  PROVE  ForgetInv'
<1>1. tab' = [tab EXCEPT ![t] = Forgetting!Page(server)] /\ server \in Nat
  BY DEF Forgetting!Reload, ForgetInv
<1> QED BY <1>1, PageView, TabKeeps

(* A preview pins under a new handle what it shows: rows that are there.            *)
LEMMA PreviewKeeps ==
  ASSUME ForgetInv, NEW t \in Tab, Forgetting!Preview(t)
  PROVE  ForgetInv'
<1>0. UNCHANGED <<rows, nextId, server>> /\ tab[t].pc \in {"idle", "done"}
  BY DEF Forgetting!Preview, Forgetting!storeVars
<1>1. CASE Forgetting!Reload(t) /\ UNCHANGED <<cache, handles>>
  BY <1>0, <1>1, ReloadKeeps
<1>2. CASE ~(Forgetting!Reload(t) /\ UNCHANGED <<cache, handles>>)
  <2>1. handles' = handles + 1
    BY <1>2 DEF Forgetting!Preview
  <2>2. PICK sel \in Forgetting!Selector :
          /\ cache' = Forgetting!evictOverflow(cache \cup
                        {[h |-> handles', ids |-> Forgetting!resolve(sel), sel |-> sel]})
          /\ tab' = [tab EXCEPT ![t] = [tab[t] EXCEPT !.pc = "dialog", !.handle = handles',
                                                     !.shown = Forgetting!resolve(sel)]]
    BY <1>2 DEF Forgetting!Preview
  <2> DEFINE ids == Forgetting!resolve(sel)
             v == [tab[t] EXCEPT !.pc = "dialog", !.handle = handles', !.shown = ids]
             new == [h |-> handles', ids |-> ids, sel |-> sel]
  <2>3. ids \subseteq Forgetting!Live
    BY DEF Forgetting!resolve, Forgetting!idsForSession, Forgetting!idsForProject, Forgetting!Selector
  <2>4. \A i \in ids : i \in Forgetting!Id /\ i < nextId
    BY <2>3 DEF Forgetting!Live, ForgetInv, Forgetting!Id
  <2>5. v \in View /\ v.pc = "dialog" /\ v.handle = handles + 1 /\ v.shown = ids
    <3>1. tab[t] \in View /\ handles + 1 \in Nat /\ ids \in SUBSET Forgetting!Id
      BY <2>4 DEF ForgetInv
    <3> HIDE DEF ids
    <3> QED BY <2>1, <3>1 DEF View
  <2>6. new.h = handles + 1 /\ new.ids = ids
    BY <2>1
  <2>7. cache' \subseteq cache \cup {new} /\ tab' = [tab EXCEPT ![t] = v]
    BY <2>2 DEF Forgetting!evictOverflow
  <2> HIDE DEF ids, v, new
  <2>8. \A u \in Tab : tab'[u] = IF u = t THEN v ELSE tab[u]
    BY <2>7 DEF ForgetInv
  <2>9. tab' \in [Tab -> View]
    BY <2>5, <2>7 DEF ForgetInv, View
  <2>10. \A u \in Tab : tab[u].handle \in Nat /\ tab[u].handle <= handles
    BY DEF ForgetInv, View
  <2>11. \A u \in Tab : tab'[u].handle <= handles' /\ \A i \in tab'[u].shown : i < nextId'
    BY <1>0, <2>1, <2>4, <2>5, <2>8, <2>10 DEF ForgetInv
  <2>12. \A e \in cache' : e.h \in Nat /\ 0 < e.h /\ e.h <= handles'
    BY <2>1, <2>6, <2>7 DEF ForgetInv
  <2>13. ASSUME NEW e \in cache', NEW u \in Tab, e.h = tab'[u].handle PROVE e.ids = tab'[u].shown
    <3>1. CASE u = t
      <4>1. e.h = handles + 1 /\ tab'[u].shown = ids
        BY <2>5, <2>8, <2>13, <3>1
      <4>2. e \notin cache
        BY <4>1 DEF ForgetInv
      <4> QED BY <2>6, <2>7, <4>1, <4>2
    <3>2. CASE u # t
      <4>1. e.h <= handles /\ tab'[u] = tab[u]
        BY <2>8, <2>10, <2>13, <3>2
      <4>2. e \in cache
        BY <2>6, <2>7, <4>1 DEF ForgetInv
      <4> QED BY <2>13, <4>1, <4>2 DEF ForgetInv
    <3> QED BY <3>1, <3>2
  <2>14. Forgetting!AllShownGone'
    BY <1>0, <2>5, <2>8 DEF ForgetInv, Forgetting!AllShownGone, Forgetting!Live
  <2>15. handles' \in Nat
    BY <2>1 DEF ForgetInv
  <2> QED BY <1>0, <2>9, <2>11, <2>12, <2>13, <2>14, <2>15 DEF ForgetInv, View
<1> QED BY <1>1, <1>2

LEMMA DialogKeeps ==
  ASSUME ForgetInv, NEW t \in Tab, Forgetting!Confirm(t) \/ Forgetting!Cancel(t) \/ Forgetting!Refused(t)
  PROVE  ForgetInv'
<1>0. tab[t] \in View /\ UNCHANGED <<rows, nextId, handles, server, cache>>
  BY DEF ForgetInv, Forgetting!Confirm, Forgetting!Cancel, Forgetting!Refused, Forgetting!storeVars
<1>1. CASE Forgetting!Confirm(t)
  <2> DEFINE v == [tab[t] EXCEPT !.pc = "confirmed"]
  <2>1. v \in View /\ v.pc = "confirmed" /\ v.handle = tab[t].handle /\ v.shown = tab[t].shown
    BY <1>0 DEF View
  <2>2. tab' = [tab EXCEPT ![t] = v]
    BY <1>1 DEF Forgetting!Confirm
  <2> HIDE DEF v
  <2> QED BY <1>0, <2>1, <2>2, TabKeeps
<1>2. ASSUME tab' = [tab EXCEPT ![t] = Forgetting!Page(tab[t].token)] PROVE ForgetInv'
  <2>1. tab[t].token \in Nat
    BY <1>0 DEF View
  <2> QED BY <1>0, <1>2, <2>1, PageView, TabKeeps
<1>3. CASE Forgetting!Reload(t)
  BY <1>0, <1>3, ReloadKeeps
<1> QED BY <1>1, <1>2, <1>3 DEF Forgetting!Cancel, Forgetting!Refused

(* The rows that go are those pinned, which are those shown.                       *)
LEMMA ExecuteTakes ==
  ASSUME ForgetInv, NEW t \in Tab, Forgetting!Execute(t)
  PROVE  \/ /\ rows' = [i \in Forgetting!Id |-> IF i \in tab[t].shown THEN NoRow ELSE rows[i]]
            /\ tab' = [tab EXCEPT ![t].pc = "done"]
         \/ UNCHANGED rows /\ tab' = [tab EXCEPT ![t] = Forgetting!Page(tab[t].token)]
<1>1. PICK e \in cache :
        /\ e.h = tab[t].handle
        /\ \/ Forgetting!deletePinned(e) /\ tab' = [tab EXCEPT ![t].pc = "done"]
           \/ UNCHANGED rows /\ tab' = [tab EXCEPT ![t] = Forgetting!Page(tab[t].token)]
  BY DEF Forgetting!Execute
<1>2. e.ids = tab[t].shown
  BY <1>1 DEF ForgetInv
<1> QED BY <1>1, <1>2 DEF Forgetting!deletePinned

LEMMA ExecuteKeeps ==
  ASSUME ForgetInv, NEW t \in Tab, Forgetting!Execute(t)
  PROVE  ForgetInv'
<1>0. /\ tab[t] \in View /\ cache' \subseteq cache /\ UNCHANGED <<nextId, handles, server>>
      /\ tab[t].pc = "confirmed"
  BY DEF ForgetInv, Forgetting!Execute
<1>1. CASE UNCHANGED rows /\ tab' = [tab EXCEPT ![t] = Forgetting!Page(tab[t].token)]
  <2>1. tab[t].token \in Nat
    BY <1>0 DEF View
  <2> QED BY <1>0, <1>1, <2>1, PageView, TabKeeps
<1>2. CASE /\ rows' = [i \in Forgetting!Id |-> IF i \in tab[t].shown THEN NoRow ELSE rows[i]]
           /\ tab' = [tab EXCEPT ![t].pc = "done"]
  <2> DEFINE v == [tab[t] EXCEPT !.pc = "done"]
  <2>1. v \in View /\ v.pc = "done" /\ v.handle = tab[t].handle /\ v.shown = tab[t].shown
    BY <1>0 DEF View
  <2>2. tab' = [tab EXCEPT ![t] = v]
    BY <1>2
  <2> HIDE DEF v
  <2>3. \A u \in Tab : tab'[u] = IF u = t THEN v ELSE tab[u]
    BY <2>2 DEF ForgetInv
  <2>4. tab' \in [Tab -> View]
    BY <2>1, <2>2 DEF ForgetInv
  <2>5. \A u \in Tab : tab'[u].handle = tab[u].handle /\ tab'[u].shown = tab[u].shown
    BY <2>1, <2>3
  <2>6. rows' \in [Forgetting!Id -> Session \cup {NoRow}]
    BY <1>2 DEF ForgetInv
  <2>7. \A i \in Forgetting!Id : rows[i] = NoRow \/ i \in tab[t].shown => rows'[i] = NoRow
    BY <1>2
  <2>8. Forgetting!AllShownGone'
    <3> SUFFICES ASSUME NEW u \in Tab, tab'[u].pc = "done", NEW i \in tab'[u].shown, i \in Forgetting!Live'
                 PROVE  FALSE
      BY DEF Forgetting!AllShownGone
    <3>1. i \in Forgetting!Id /\ rows'[i] # NoRow
      BY DEF Forgetting!Live
    <3>2. rows[i] # NoRow /\ i \notin tab[t].shown
      BY <2>7, <3>1
    <3>3. CASE u = t
      BY <2>5, <3>2, <3>3
    <3>4. CASE u # t
      BY <2>3, <3>1, <3>2, <3>4 DEF ForgetInv, Forgetting!AllShownGone, Forgetting!Live
    <3> QED BY <3>3, <3>4
  <2> QED BY <1>0, <2>4, <2>5, <2>6, <2>7, <2>8 DEF ForgetInv
<1> QED BY <1>1, <1>2, ExecuteTakes

LEMMA StepKeepsForget == ForgetInv /\ [Forgetting!Next]_forgetVars => ForgetInv'
<1> SUFFICES ASSUME ForgetInv, [Forgetting!Next]_forgetVars PROVE ForgetInv'
  OBVIOUS
<1>1. CASE Forgetting!Restart \/ Forgetting!Expire
  BY <1>1, ForgettingHandlesKeeps
<1>2. ASSUME NEW s \in Session,
             \/ Forgetting!Capture(s) \/ Forgetting!Relabel(s)
             \/ \E i \in Forgetting!Id : Forgetting!Promote(i, s)
      PROVE  ForgetInv'
  BY <1>2, OthersKeepForget
<1>3. ASSUME NEW t \in Tab,
             \/ Forgetting!Preview(t) \/ Forgetting!Confirm(t) \/ Forgetting!Cancel(t)
             \/ Forgetting!Execute(t) \/ Forgetting!Refused(t)
      PROVE  ForgetInv'
  BY <1>3, PreviewKeeps, DialogKeeps, ExecuteKeeps
<1>4. CASE UNCHANGED forgetVars
  BY <1>4 DEF forgetVars, ForgetInv, Forgetting!AllShownGone, Forgetting!Live
<1> QED BY <1>1, <1>2, <1>3, <1>4 DEF Forgetting!Next

(* No other step takes a row: captures and promotions give a session.              *)
LEMMA StepTakesOnlyShown ==
  ASSUME ForgetInv, [Forgetting!Next]_forgetVars
  PROVE  Forgetting!TakesOnlyShown
<1> SUFFICES ASSUME NEW i \in Forgetting!Id, rows[i] # NoRow, rows'[i] = NoRow
             PROVE  \E t \in Tab : tab[t].pc = "confirmed" /\ i \in tab[t].shown /\ tab'[t].pc = "done"
  BY DEF Forgetting!TakesOnlyShown, Forgetting!Live
<1>1. ASSUME NEW s \in Session, Forgetting!Capture(s) PROVE FALSE
  BY <1>1, MarkerAssumption DEF Forgetting!Capture, ForgetInv
<1>2. ASSUME NEW s \in Session, NEW j \in Forgetting!Id, Forgetting!Promote(j, s) PROVE FALSE
  BY <1>2, MarkerAssumption DEF Forgetting!Promote, ForgetInv
<1>3. ASSUME \/ Forgetting!Restart \/ Forgetting!Expire \/ UNCHANGED forgetVars
             \/ \E s \in Session : Forgetting!Relabel(s)
             \/ \E t \in Tab : Forgetting!Preview(t) \/ Forgetting!Confirm(t) \/ Forgetting!Cancel(t)
                               \/ Forgetting!Refused(t)
      PROVE  FALSE
  <2>1. rows' = rows
    BY <1>3 DEF Forgetting!Restart, Forgetting!Expire, Forgetting!Relabel, Forgetting!Preview,
         Forgetting!Confirm, Forgetting!Cancel, Forgetting!Refused, Forgetting!storeVars, forgetVars
  <2> QED BY <2>1
<1>4. ASSUME NEW t \in Tab, Forgetting!Execute(t)
      PROVE  tab[t].pc = "confirmed" /\ i \in tab[t].shown /\ tab'[t].pc = "done"
  <2>1. /\ rows' = [j \in Forgetting!Id |-> IF j \in tab[t].shown THEN NoRow ELSE rows[j]]
        /\ tab' = [tab EXCEPT ![t].pc = "done"]
    BY <1>4, ExecuteTakes
  <2>2. i \in tab[t].shown
    BY <2>1
  <2>3. tab[t] \in View /\ tab'[t] = [tab[t] EXCEPT !.pc = "done"]
    BY <2>1 DEF ForgetInv
  <2>4. tab'[t].pc = "done"
    BY <2>3 DEF View
  <2> QED BY <1>4, <2>2, <2>4 DEF Forgetting!Execute
<1> QED BY <1>1, <1>2, <1>3, <1>4 DEF Forgetting!Next

(* A tab that reports a deletion is right for good: whatever was captured, moved,   *)
(* previewed and deleted by other tabs meanwhile, over restarts of the server, no    *)
(* row it showed is left (delete.ts:243-272, server.ts, delete-client.ts).          *)
THEOREM DeletedStaysDeleted == Spec => []AllShownGone
<1> DEFINE Inv == part = "forget" => ForgetInv
<1>1. Init => Inv
  BY SuiteInit, InitForget
<1>2. Inv /\ [Next]_vars => Inv'
  BY SuiteStep, StepKeepsForget
<1>3. Inv => AllShownGone
  BY DEF ForgetInv, AllShownGone
<1> QED BY <1>1, <1>2, <1>3, PTL DEF Spec

(* A row disappears only in the step that tells a tab so, which had shown that row   *)
(* and whose user had confirmed: no row that came into the session or project since,  *)
(* and none by way of its session.                                                *)
THEOREM DeletesOnlyShown == Spec => OnlyShown
<1> DEFINE Inv == part = "forget" => ForgetInv
<1>1. Init => Inv
  BY SuiteInit, InitForget
<1>2. Inv /\ [Next]_vars => Inv'
  BY SuiteStep, StepKeepsForget
<1>3. Inv /\ [Next]_vars => [part = "forget" => Forgetting!TakesOnlyShown]_vars
  BY SuiteStep, StepTakesOnlyShown
<1> QED BY <1>1, <1>2, <1>3, PTL DEF Spec, OnlyShown

---------------------------------------------------------------------------
(* Purge *)

Names == {"db", "wal"}
Generation == Purging!Gen \cup {0}
Rows == [db : SUBSET Row, wal : SUBSET Row]
Held(g) == content[g].db \cup content[g].wal

PurgeType ==
  /\ disk \in [db : Generation, wal : Generation]
  /\ content \in [Purging!Gen -> Rows] /\ open \in [Proc -> Generation]
  /\ targets \subseteq Names /\ seen \in [Proc -> SUBSET Row]

(* A row is held by one generation only.  Once a purge has begun, what there was   *)
(* is held by a generation that has lost the name for good; until then a log has   *)
(* a name only beside its database, so that this goes first.                      *)
PurgeInv ==
  /\ PurgeType
  /\ \A g, h \in Purging!Gen : g # h => Held(g) \cap Held(h) = {}
  /\ purged = {} \/ \E g \in Purging!Gen : purged \subseteq Held(g) /\ disk.db # g
  /\ pc \in {"idle", "asks", "first"} => disk.db # 0 \/ disk.wal = 0
  /\ pc \in {"asks", "first"} => "wal" \notin targets \/ "db" \in targets

LEMMA InitPurge == Purging!Init => PurgeInv
<1> SUFFICES ASSUME Purging!Init PROVE PurgeInv
  OBVIOUS
<1>1. /\ disk = [db |-> 0, wal |-> 0] /\ content = [g \in Purging!Gen |-> Purging!Empty]
      /\ open = [p \in Proc |-> 0] /\ targets = {} /\ purged = {}
      /\ seen = [p \in Proc |-> {}]
  BY DEF Purging!Init
<1>2. \A g \in Purging!Gen : content[g] \in Rows /\ Held(g) = {}
  BY <1>1 DEF Held, Rows, Purging!Empty
<1>3. content \in [Purging!Gen -> Rows]
  BY <1>1, <1>2
<1> QED BY <1>1, <1>2, <1>3 DEF PurgeInv, PurgeType, Generation

LEMMA GreatestExists ==
  ASSUME NEW n \in Nat, NEW S \in SUBSET (1..n), S # {}
  PROVE  \E x \in S : \A y \in S : y <= x
<1> DEFINE R == OpToRel(<, Nat)
           T == {m \in Nat : \E x \in S : m = n - x}
<1>1. IsWellFoundedOn(R, Nat)
  BY NatLessThanWellFounded
<1>2. ASSUME NEW x \in Nat, NEW y \in Nat, y < x PROVE <<y, x>> \in R
  BY <1>2 DEF OpToRel
<1>4. \A x \in S : n - x \in T
  OBVIOUS
<1>3. T \in SUBSET Nat /\ T # {}
  <2>1. PICK x \in S : TRUE
    OBVIOUS
  <2> QED BY <1>4, <2>1
<1> HIDE DEF R
<1>5. PICK m \in T : \A k \in T : ~ (<<k, m>> \in R)
  <2> HIDE DEF T
  <2> QED BY <1>1, <1>3, WFMin
<1>6. PICK x \in S : m = n - x
  OBVIOUS
<1>7. ASSUME NEW y \in S PROVE y <= x
  <2>1. n - y \in T /\ n - y \in Nat /\ m \in Nat
    BY <1>4
  <2>2. ~(n - y < m)
    BY <1>2, <1>5, <2>1
  <2>3. x \in Nat /\ y \in Nat
    OBVIOUS
  <2> QED BY <1>6, <2>1, <2>2, <2>3
<1> QED BY <1>7

(* A new generation is empty, and no older one that has rows.                      *)
LEMMA NewestIs ==
  ASSUME PurgeType, Purging!Newest + 1 \in Purging!Gen
  PROVE  Held(Purging!Newest + 1) = {}
<1> DEFINE C == Purging!Created
<1>1. C \subseteq 1..MaxGen /\ MaxGen \in Nat
  BY BoundAssumption DEF Purging!Created, Purging!Gen
<1>2. C # {} => /\ Purging!Newest \in C /\ \A h \in C : h <= Purging!Newest
  <2> HIDE DEF C
  <2> SUFFICES ASSUME C # {}
               PROVE  Purging!Newest \in C /\ \A h \in C : h <= Purging!Newest
    OBVIOUS
  <2>1. \E g \in C : \A h \in C : h <= g
    BY <1>1, GreatestExists
  <2>2. Purging!Newest = CHOOSE g \in C : \A h \in C : h <= g
    BY DEF Purging!Newest, C
  <2> QED BY <2>1, <2>2
<1>3. Purging!Newest + 1 \notin C
  <2>1. CASE C = {}
    BY <2>1
  <2>2. CASE C # {}
    <3> HIDE DEF C
    <3> DEFINE n == Purging!Newest
    <3> HIDE DEF n
    <3>1. n \in C /\ C \subseteq 1..MaxGen /\ MaxGen \in Nat
      BY <1>1, <1>2, <2>2 DEF n
    <3>2. n \in Nat
      BY <3>1
    <3>3. \A h \in C : h <= n
      BY <1>2, <2>2 DEF n
    <3>4. ~(n + 1 <= n)
      BY <3>2
    <3> QED BY <3>3, <3>4 DEF n
  <2> QED BY <2>1, <2>2
<1>4. content[Purging!Newest + 1] = Purging!Empty
  BY <1>3 DEF Purging!Created
<1> QED BY <1>4 DEF Held, Purging!Empty

(* Who opens finds the generation that has the name, or begins an empty one.        *)
LEMMA OpenFinds ==
  ASSUME PurgeInv, NEW p \in Proc, Purging!Open(p)
  PROVE  \E g \in Purging!Gen :
           /\ disk' = [db |-> g, wal |-> g] /\ open' = [open EXCEPT ![p] = g]
           /\ seen' \in [Proc -> SUBSET Row] /\ seen'[p] \subseteq Held(g)
           /\ purged = {} \/ \E h \in Purging!Gen : purged \subseteq Held(h) /\ g # h
<1> DEFINE g == IF disk.db # 0 THEN disk.db ELSE Purging!Newest + 1
           found == content[g].db \cup (IF disk.wal = g THEN content[g].wal ELSE {})
<1>1. /\ g \in Purging!Gen /\ disk' = [db |-> g, wal |-> g] /\ open' = [open EXCEPT ![p] = g]
      /\ seen' = [seen EXCEPT ![p] = found]
  BY DEF Purging!Open
<1>2. found \subseteq Held(g) /\ found \subseteq Row
  BY <1>1 DEF Held, PurgeInv, PurgeType, Rows
<1>3. seen' \in [Proc -> SUBSET Row] /\ seen'[p] = found
  BY <1>1, <1>2 DEF PurgeInv, PurgeType
<1>4. ASSUME purged # {} PROVE \E h \in Purging!Gen : purged \subseteq Held(h) /\ g # h
  <2>1. PICK h \in Purging!Gen : purged \subseteq Held(h) /\ disk.db # h
    BY <1>4 DEF PurgeInv
  <2>2. CASE disk.db # 0
    BY <2>1, <2>2
  <2>3. CASE disk.db = 0
    <3>1. Held(g) = {}
      BY <1>1, <2>3, NewestIs DEF PurgeInv
    <3> QED BY <1>4, <2>1, <3>1
  <2> QED BY <2>1, <2>2, <2>3
<1> QED BY <1>1, <1>2, <1>3, <1>4

(* The rows of each generation stay, wherever they are kept; a new row is in none. *)
LEMMA ContentKeepsPurge ==
  ASSUME PurgeInv, content' \in [Purging!Gen -> Rows], NEW R \in SUBSET Row, NEW o \in Generation,
         \A g \in Purging!Gen : Held(g)' = IF g = o THEN Held(g) \cup R ELSE Held(g),
         \A g \in Purging!Gen : R \cap Held(g) = {},
         disk' = disk \/ disk' = [disk EXCEPT !.wal = 0], open' \in [Proc -> Generation],
         UNCHANGED <<pc, targets, purged, seen>>
  PROVE  PurgeInv'
<1>1. disk'.db = disk.db /\ disk'.wal \in {disk.wal, 0} /\ disk' \in [db : Generation, wal : Generation]
  BY DEF PurgeInv, PurgeType, Generation
<1>2. (\A g, h \in Purging!Gen : g # h => Held(g) \cap Held(h) = {})'
  <2> SUFFICES ASSUME NEW g \in Purging!Gen, NEW h \in Purging!Gen, g # h
               PROVE  Held(g)' \cap Held(h)' = {}
    OBVIOUS
  <2> QED BY DEF PurgeInv
<1>3. (purged = {} \/ \E g \in Purging!Gen : purged \subseteq Held(g) /\ disk.db # g)'
  BY <1>1 DEF PurgeInv
<1>4. PurgeType'
  BY <1>1 DEF PurgeInv, PurgeType
<1>5. (pc \in {"idle", "asks", "first"} => disk.db # 0 \/ disk.wal = 0)'
  BY <1>1 DEF PurgeInv
<1> QED BY <1>2, <1>3, <1>4, <1>5 DEF PurgeInv

LEMMA SameRowsKeepPurge ==
  ASSUME PurgeInv, content' \in [Purging!Gen -> Rows],
         \A g \in Purging!Gen : Held(g)' = Held(g),
         disk' = disk \/ disk' = [disk EXCEPT !.wal = 0], open' \in [Proc -> Generation],
         UNCHANGED <<pc, targets, purged, seen>>
  PROVE  PurgeInv'
<1> DEFINE R == {}
<1>1. R \in SUBSET Row /\ 0 \in Generation /\ \A g \in Purging!Gen : g # 0 /\ R \cap Held(g) = {}
  BY DEF Generation, Purging!Gen
<1>2. \A g \in Purging!Gen : Held(g)' = IF g = 0 THEN Held(g) \cup R ELSE Held(g)
  BY <1>1
<1> HIDE DEF R
<1> QED BY <1>1, <1>2, ContentKeepsPurge

LEMMA CheckpointHolds ==
  ASSUME PurgeType, NEW o \in Generation, o # 0, content' = Purging!Checkpointed(o)
  PROVE  content' \in [Purging!Gen -> Rows] /\ \A g \in Purging!Gen : Held(g)' = Held(g)
<1>1. content' = [content EXCEPT ![o] = [db |-> content[o].db \cup content[o].wal, wal |-> {}]]
  BY DEF Purging!Checkpointed
<1> QED BY <1>1 DEF PurgeType, Rows, Held, Generation

LEMMA ProcessKeepsPurge ==
  ASSUME PurgeInv, NEW p \in Proc,
         \/ Purging!Open(p) \/ Purging!Backup(p) \/ Purging!Close(p) \/ Purging!Crash(p)
         \/ \E r \in Row : Purging!Remember(p, r)
  PROVE  PurgeInv'
<1> PurgeType /\ open[p] \in Generation /\ 0 \in Generation
  BY DEF PurgeInv, PurgeType, Generation
<1>1. CASE Purging!Open(p)
  <2>1. PICK g \in Purging!Gen :
          /\ disk' = [db |-> g, wal |-> g] /\ open' = [open EXCEPT ![p] = g]
          /\ seen' \in [Proc -> SUBSET Row]
          /\ purged = {} \/ \E h \in Purging!Gen : purged \subseteq Held(h) /\ g # h
    BY <1>1, OpenFinds
  <2>2. UNCHANGED <<content, pc, targets, purged>>
    BY <1>1 DEF Purging!Open, Purging!purge
  <2>3. g \in Generation /\ g # 0
    BY DEF Generation, Purging!Gen
  <2>4. PurgeType'
    BY <2>1, <2>2, <2>3 DEF PurgeType
  <2>5. disk'.db = g /\ \A h \in Purging!Gen : Held(h)' = Held(h)
    BY <2>1, <2>2 DEF Held
  <2> QED BY <2>1, <2>2, <2>3, <2>4, <2>5 DEF PurgeInv
<1>2. CASE Purging!Backup(p)
  <2>1. /\ open[p] # 0 /\ content' = Purging!Checkpointed(open[p])
        /\ UNCHANGED <<disk, open, pc, targets, purged, seen>>
    BY <1>2 DEF Purging!Backup, Purging!purge
  <2>2. content' \in [Purging!Gen -> Rows] /\ \A g \in Purging!Gen : Held(g)' = Held(g)
    BY <2>1, CheckpointHolds
  <2>3. open' \in [Proc -> Generation]
    BY <2>1 DEF PurgeType
  <2> QED BY <2>1, <2>2, <2>3, SameRowsKeepPurge
<1>3. CASE Purging!Close(p)
  <2>1. /\ open[p] # 0 /\ open' = [open EXCEPT ![p] = 0]
        /\ content' = content \/ content' = Purging!Checkpointed(open[p])
        /\ disk' = disk \/ disk' = [disk EXCEPT !.wal = 0]
        /\ UNCHANGED <<pc, targets, purged, seen>>
    BY <1>3 DEF Purging!Close, Purging!purge
  <2>2. content' \in [Purging!Gen -> Rows] /\ \A g \in Purging!Gen : Held(g)' = Held(g)
    BY <2>1, CheckpointHolds DEF PurgeType, Held
  <2>3. open' \in [Proc -> Generation]
    BY <2>1 DEF PurgeType
  <2> QED BY <2>1, <2>2, <2>3, SameRowsKeepPurge
<1>4. CASE Purging!Crash(p)
  <2>1. open' = [open EXCEPT ![p] = 0] /\ UNCHANGED <<disk, content, pc, targets, purged, seen>>
    BY <1>4 DEF Purging!Crash, Purging!purge
  <2>2. open' \in [Proc -> Generation]
    BY <2>1 DEF PurgeType
  <2> QED BY <2>1, <2>2 DEF PurgeInv, PurgeType, Held
<1>5. ASSUME NEW r \in Row, Purging!Remember(p, r) PROVE PurgeInv'
  <2>1. /\ open[p] # 0 /\ content' = [content EXCEPT ![open[p]].wal = content[open[p]].wal \cup {r}]
        /\ \A g \in Purging!Gen : {r} \cap Held(g) = {}
        /\ UNCHANGED <<disk, open, pc, targets, purged, seen>>
    BY <1>5 DEF Purging!Remember, Purging!purge, Held
  <2>2. open[p] \in Purging!Gen
    BY <2>1 DEF Generation
  <2>3. /\ content' \in [Purging!Gen -> Rows]
        /\ \A g \in Purging!Gen : Held(g)' = IF g = open[p] THEN Held(g) \cup {r} ELSE Held(g)
    BY <2>1, <2>2 DEF PurgeType, Rows, Held
  <2>4. open' \in [Proc -> Generation] /\ {r} \in SUBSET Row
    BY <2>1 DEF PurgeType
  <2> QED BY <2>1, <2>3, <2>4, ContentKeepsPurge
<1> QED BY <1>1, <1>2, <1>3, <1>4, <1>5

(* The database goes first: what it held has lost its name for good.                *)
LEMMA DeleteKeepsPurge ==
  ASSUME PurgeInv, Purging!Delete
  PROVE  PurgeInv'
<1>1. PICK f \in targets : /\ \A g \in targets : Purging!Order[f] <= Purging!Order[g]
                           /\ disk' = [disk EXCEPT ![f] = 0] /\ targets' = targets \ {f}
  BY DEF Purging!Delete
<1>2. /\ pc' = "deletes" /\ UNCHANGED <<content, open, seen>> /\ pc \in {"first", "deletes"}
      /\ purged' = IF pc = "first" THEN Purging!Stored ELSE purged
  BY DEF Purging!Delete
<1>3. f = "db" \/ f = "wal"
  BY <1>1 DEF PurgeInv, PurgeType, Names
<1>4. disk' \in [db : Generation, wal : Generation] /\ disk'.db \in {0, disk.db} /\ (f = "db" => disk'.db = 0)
  BY <1>1, <1>3 DEF PurgeInv, PurgeType, Generation
<1>5. PurgeType'
  BY <1>1, <1>2, <1>4 DEF PurgeInv, PurgeType
<1>6. \A g \in Purging!Gen : Held(g)' = Held(g) /\ g # 0
  BY <1>2 DEF Held, Purging!Gen
<1>7. purged' = {} \/ \E g \in Purging!Gen : purged' \subseteq Held(g) /\ disk'.db # g
  <2>1. CASE pc = "first"
    <3>1. f = "db"
      <4>1. ASSUME f = "wal" PROVE FALSE
        <5>1. "db" \in targets
          BY <1>1, <2>1, <4>1 DEF PurgeInv
        <5>2. Purging!Order["wal"] <= Purging!Order["db"]
          BY <1>1, <4>1, <5>1
        <5> QED BY <5>2 DEF Purging!Order
      <4> QED BY <1>3, <4>1
    <3>2. purged' = UNION {Held(g) : g \in {disk.db} \cap Purging!Gen}
      BY <1>2, <2>1 DEF Purging!Stored, Held
    <3>3. CASE disk.db \in Purging!Gen
      <4>1. purged' = Held(disk.db)
        BY <3>2, <3>3
      <4> QED BY <1>4, <1>6, <3>1, <3>3, <4>1
    <3>4. CASE disk.db \notin Purging!Gen
      BY <3>2, <3>4
    <3> QED BY <3>3, <3>4
  <2>2. CASE pc # "first"
    <3>1. purged' = purged
      BY <1>2, <2>2
    <3>2. CASE purged = {}
      BY <3>1, <3>2
    <3>3. ASSUME NEW g \in Purging!Gen, purged \subseteq Held(g), disk.db # g
          PROVE  purged' \subseteq Held(g) /\ disk'.db # g
      BY <1>4, <1>6, <3>1, <3>3
    <3> QED BY <3>2, <3>3 DEF PurgeInv
  <2> QED BY <2>1, <2>2
<1> QED BY <1>2, <1>5, <1>6, <1>7 DEF PurgeInv

LEMMA StepKeepsPurge == PurgeInv /\ [Purging!Next]_purgeVars => PurgeInv'
<1> SUFFICES ASSUME PurgeInv, [Purging!Next]_purgeVars PROVE PurgeInv'
  OBVIOUS
<1>1. ASSUME NEW p \in Proc,
             \/ Purging!Open(p) \/ Purging!Backup(p) \/ Purging!Close(p) \/ Purging!Crash(p)
             \/ \E r \in Row : Purging!Remember(p, r)
      PROVE  PurgeInv'
  BY <1>1, ProcessKeepsPurge
<1>2. CASE Purging!FindTargets
  <2>1. /\ pc = "idle" /\ pc' = "asks" /\ targets' = {f \in Names : disk[f] # 0}
        /\ UNCHANGED <<disk, content, open, purged, seen>>
    BY <1>2 DEF Purging!FindTargets, Names
  <2>2. "db" \in targets' \/ "wal" \notin targets'
    BY <2>1 DEF PurgeInv, Names
  <2> QED BY <2>1, <2>2 DEF PurgeInv, PurgeType, Held
<1>3. CASE Purging!Answer \/ Purging!Deleted \/ Purging!Stops
  BY <1>3 DEF Purging!Answer, Purging!Deleted, Purging!Stops, PurgeInv, PurgeType, Held
<1>4. CASE Purging!Delete
  BY <1>4, DeleteKeepsPurge
<1>5. CASE UNCHANGED purgeVars
  BY <1>5 DEF purgeVars, PurgeInv, PurgeType, Held
<1> QED BY <1>1, <1>2, <1>3, <1>4, <1>5 DEF Purging!Next

LEMMA StepFindsNothing ==
  ASSUME PurgeInv, [Purging!Next]_purgeVars
  PROVE  Purging!FindsNothing
<1> SUFFICES ASSUME NEW p \in Proc, open[p] = 0, open'[p] # 0 PROVE seen'[p] \cap purged = {}
  BY DEF Purging!FindsNothing
<1>1. PICK q \in Proc : Purging!Open(q)
  <2>1. ASSUME NEW q \in Proc, Purging!Close(q) \/ Purging!Crash(q) PROVE FALSE
    BY <2>1 DEF Purging!Close, Purging!Crash, PurgeInv, PurgeType
  <2>2. ASSUME NEW q \in Proc, Purging!Backup(q) \/ \E r \in Row : Purging!Remember(q, r) PROVE FALSE
    BY <2>2 DEF Purging!Backup, Purging!Remember
  <2>3. ASSUME \/ Purging!FindTargets \/ Purging!Answer \/ Purging!Deleted \/ Purging!Stops
               \/ Purging!Delete \/ UNCHANGED purgeVars
        PROVE  FALSE
    BY <2>3 DEF Purging!FindTargets, Purging!Answer, Purging!Deleted, Purging!Stops,
         Purging!Delete, purgeVars
  <2> QED BY <2>1, <2>2, <2>3 DEF Purging!Next
<1>2. PICK g \in Purging!Gen :
        /\ open' = [open EXCEPT ![q] = g] /\ seen'[q] \subseteq Held(g)
        /\ purged = {} \/ \E h \in Purging!Gen : purged \subseteq Held(h) /\ g # h
  BY <1>1, OpenFinds
<1>3. p = q
  BY <1>2 DEF PurgeInv, PurgeType
<1> QED BY <1>2, <1>3 DEF PurgeInv

(* `abs uninstall --purge` (cli.ts, purgeStore) beside processes that have the       *)
(* store open, open it meanwhile, checkpoint, close and die, and wherever it stops:   *)
(* from its first deletion on, who opens the store finds nothing of what it held.    *)
THEOREM PurgesStayPurged == Spec => PurgedStaysPurged
<1> DEFINE Inv == part = "purge" => PurgeInv
<1>1. Init => Inv
  BY SuiteInit, InitPurge
<1>2. Inv /\ [Next]_vars => Inv'
  BY SuiteStep, StepKeepsPurge
<1>3. Inv /\ [Next]_vars => [part = "purge" => Purging!FindsNothing]_vars
  BY SuiteStep, StepFindsNothing
<1> QED BY <1>1, <1>2, <1>3, PTL DEF Spec, PurgedStaysPurged

---------------------------------------------------------------------------
(* Export *)

ExportRun == [pc : {"idle", "counted", "listed", "planned", "open", "walked"},
               count : Nat, sessionCount : Nat, list : SUBSET Session, writable : Nat,
               walk : SUBSET Exporting!Id, dangling : Nat, fd : {"none", "tmp", "out", "gone"}]
Written(x) == IF x.pc = "open"
              THEN [lines |-> "header", declared |-> x.writable, rows |-> {}, mixed |-> FALSE]
              ELSE [lines |-> "all", declared |-> x.writable, rows |-> x.walk, mixed |-> FALSE]
ExportType ==
  exp \in [Exporter -> ExportRun] /\ known \in SUBSET Session /\ IsFiniteSet(known) /\ overlapped \in BOOLEAN

(* As long as no two exports have shared the temporary file, who has one open has  *)
(* it alone, and it holds what its own walk wrote under its own count.             *)
Alone ==
  /\ \A e \in Exporter :
       exp[e].fd = IF exp[e].pc \in {"open", "walked"} THEN "tmp" ELSE "none"
  /\ \A e, f \in Exporter : exp[e].fd = "tmp" /\ exp[f].fd = "tmp" => e = f
  /\ \A e \in Exporter : exp[e].fd = "tmp" => tmp = Written(exp[e])
  /\ out = Exporting!Absent \/ Exporting!Importable(out)
ExportInv == ExportType /\ (overlapped \/ Alone)

LEMMA ExportCounts ==
  ASSUME NEW S, S \subseteq Exporting!Id \/ IsFiniteSet(S)
  PROVE  Exporting!Cardinality(S) \in Nat
<1>1. Exporting!Cardinality(S) = Cardinality(S)
  BY Zenon DEF Cardinality, Exporting!Cardinality
<1>2. IsFiniteSet(Exporting!Id)
  BY FS_Interval, BoundAssumption DEF Exporting!Id
<1>3. IsFiniteSet(S)
  BY <1>2, FS_Subset
<1> QED BY <1>1, <1>3, FS_CardinalityType

LEMMA InitExport == Exporting!Init => ExportInv
<1> SUFFICES ASSUME Exporting!Init PROVE ExportInv
  OBVIOUS
<1>1. /\ exp = [e \in Exporter |-> Exporting!Idle] /\ known = {} /\ overlapped = FALSE
      /\ out = Exporting!Absent
  BY DEF Exporting!Init
<1>2. /\ Exporting!Idle \in ExportRun /\ Exporting!Idle.pc = "idle" /\ Exporting!Idle.fd = "none"
  BY DEF Exporting!Idle, ExportRun
<1>3. ExportType
  BY <1>1, <1>2, FS_EmptySet DEF ExportType
<1>4. \A e \in Exporter : exp[e].pc = "idle" /\ exp[e].fd = "none"
  BY <1>1, <1>2
<1> QED BY <1>1, <1>3, <1>4 DEF ExportInv, Alone

(* A step of one exporter that leaves the files alone and has none open after it. *)
LEMMA QuietStepKeepsExport ==
  ASSUME ExportInv, NEW e \in Exporter, NEW r \in ExportRun, exp' = [exp EXCEPT ![e] = r],
         r.pc \notin {"open", "walked"}, r.fd = "none",
         UNCHANGED <<known, tmp, out, overlapped>>
  PROVE  ExportInv'
<1>1. ExportType'
  BY DEF ExportInv, ExportType
<1>2. \A f \in Exporter : exp'[f] = IF f = e THEN r ELSE exp[f]
  BY DEF ExportInv, ExportType
<1>3. ASSUME Alone PROVE Alone'
  <2>1. \A f \in Exporter : exp'[f].fd = "tmp" => exp[f].fd = "tmp" /\ exp'[f] = exp[f]
    BY <1>2
  <2>2. \A f \in Exporter : exp'[f].fd = IF exp'[f].pc \in {"open", "walked"} THEN "tmp" ELSE "none"
    BY <1>2, <1>3 DEF Alone
  <2>3. \A f \in Exporter : exp'[f].fd = "tmp" => tmp' = Written(exp'[f])
    BY <2>1, <1>3 DEF Alone
  <2>4. out' = Exporting!Absent \/ Exporting!Importable(out')
    BY <1>3 DEF Alone
  <2> QED BY <2>1, <2>2, <2>3, <2>4, <1>3 DEF Alone
<1> QED BY <1>1, <1>3 DEF ExportInv

LEMMA PlanKeepsExport ==
  ASSUME ExportInv, NEW e \in Exporter,
         \/ Exporting!Counts(e) \/ Exporting!ListSessions(e) \/ Exporting!CountWritable(e)
         \/ Exporting!Killed(e)
  PROVE  ExportInv'
<1> exp[e] \in ExportRun /\ Exporting!Idle \in ExportRun /\ Exporting!Live \subseteq Exporting!Id
  BY DEF ExportInv, ExportType, ExportRun, Exporting!Idle, Exporting!Live
<1>1. CASE Exporting!Counts(e)
  <2> DEFINE r == [Exporting!Idle EXCEPT !.pc = "counted",
                      !.count = Exporting!Cardinality(Exporting!Live),
                      !.sessionCount = Exporting!Cardinality(known)]
  <2>1. Exporting!Cardinality(Exporting!Live) \in Nat /\ Exporting!Cardinality(known) \in Nat
    BY ExportCounts DEF ExportInv, ExportType
  <2>2. exp' = [exp EXCEPT ![e] = r] /\ UNCHANGED <<known, tmp, out, overlapped>>
    BY <1>1 DEF Exporting!Counts, Exporting!storeVars
  <2>3. r \in ExportRun /\ r.pc = "counted" /\ r.fd = "none"
    BY <2>1 DEF Exporting!Idle, ExportRun
  <2> HIDE DEF r
  <2> QED BY <2>2, <2>3, QuietStepKeepsExport
<1>2. CASE Exporting!ListSessions(e)
  <2> DEFINE r == [exp[e] EXCEPT !.pc = "listed", !.list = known]
  <2>1. exp' = [exp EXCEPT ![e] = r] /\ UNCHANGED <<known, tmp, out, overlapped>>
    BY <1>2 DEF Exporting!ListSessions, Exporting!storeVars, ExportInv, ExportType
  <2>2. r \in ExportRun /\ r.pc = "listed" /\ r.fd = exp[e].fd
    BY DEF ExportRun, ExportInv, ExportType
  <2>3. exp[e].pc = "counted"
    BY <1>2 DEF Exporting!ListSessions
  <2> HIDE DEF r
  <2>4. CASE Alone
    <3>1. r.fd = "none"
      BY <2>2, <2>3, <2>4 DEF Alone
    <3> QED BY <2>1, <2>2, <3>1, QuietStepKeepsExport
  <2>5. CASE overlapped
    BY <2>1, <2>2, <2>5 DEF ExportInv, ExportType
  <2> QED BY <2>4, <2>5 DEF ExportInv
<1>3. CASE Exporting!CountWritable(e)
  <2> DEFINE n == Exporting!Cardinality(Exporting!Writable(e))
             r == [exp[e] EXCEPT !.pc = "planned", !.writable = n]
  <2>1. n \in Nat
    BY ExportCounts DEF Exporting!Writable, Exporting!Live
  <2>2. exp' = [exp EXCEPT ![e] = r] /\ UNCHANGED <<known, tmp, out, overlapped>>
    BY <1>3 DEF Exporting!CountWritable, Exporting!storeVars, ExportInv, ExportType
  <2> HIDE DEF n
  <2>3. r \in ExportRun /\ r.pc = "planned" /\ r.fd = exp[e].fd
    BY <2>1 DEF ExportRun
  <2>4. exp[e].pc = "listed"
    BY <1>3 DEF Exporting!CountWritable
  <2> HIDE DEF r
  <2>5. CASE Alone
    <3>1. r.fd = "none"
      BY <2>3, <2>4, <2>5 DEF Alone
    <3> QED BY <2>2, <2>3, <3>1, QuietStepKeepsExport
  <2>6. CASE overlapped
    BY <2>2, <2>3, <2>6 DEF ExportInv, ExportType
  <2> QED BY <2>5, <2>6 DEF ExportInv
<1>4. CASE Exporting!Killed(e)
  <2>1. exp' = [exp EXCEPT ![e] = Exporting!Idle] /\ UNCHANGED <<known, tmp, out, overlapped>>
    BY <1>4 DEF Exporting!Killed, Exporting!storeVars
  <2>2. Exporting!Idle.pc = "idle" /\ Exporting!Idle.fd = "none"
    BY DEF Exporting!Idle
  <2> QED BY <2>1, <2>2, QuietStepKeepsExport
<1> QED BY <1>1, <1>2, <1>3, <1>4

(* The file is created anew for the header; if another had it open, they share it. *)
LEMMA OpenTmpKeepsExport ==
  ASSUME ExportInv, NEW e \in Exporter, Exporting!OpenTmp(e)
  PROVE  ExportInv'
<1> DEFINE shared == \E f \in Exporter \ {e} : exp[f].fd = "tmp"
           r == [exp[e] EXCEPT !.pc = "open", !.fd = "tmp"]
<1>1. /\ overlapped' = (overlapped \/ shared) /\ UNCHANGED <<known, out>>
      /\ tmp' = [lines |-> "header", declared |-> exp[e].writable, rows |-> {}, mixed |-> shared]
  BY DEF Exporting!OpenTmp, Exporting!storeVars
<1>2. exp[e] \in ExportRun
  BY DEF ExportInv, ExportType
<1>3. r \in ExportRun /\ r.pc = "open" /\ r.fd = "tmp" /\ r.writable = exp[e].writable
  BY <1>2 DEF ExportRun
<1>4. exp' = [exp EXCEPT ![e] = r]
  BY DEF Exporting!OpenTmp, ExportInv, ExportType
<1> HIDE DEF r
<1>5. overlapped' \in BOOLEAN
  BY <1>1 DEF ExportInv, ExportType
<1>6. ExportType'
  BY <1>1, <1>3, <1>4, <1>5 DEF ExportInv, ExportType
<1>7. ASSUME ~overlapped' PROVE Alone'
  <2>1. Alone /\ ~shared
    BY <1>1, <1>7 DEF ExportInv
  <2>2. \A f \in Exporter : exp'[f] = IF f = e THEN r ELSE exp[f]
    BY <1>4 DEF ExportInv, ExportType
  <2>3. \A f \in Exporter : exp'[f].fd = "tmp" => f = e
    BY <2>1, <2>2
  <2>4. tmp' = Written(r)
    BY <1>1, <1>3, <2>1 DEF Written
  <2>5. \A f \in Exporter : exp'[f].fd = "tmp" => tmp' = Written(exp'[f])
    BY <2>2, <2>3, <2>4
  <2>6. \A f \in Exporter : exp'[f].fd = IF exp'[f].pc \in {"open", "walked"} THEN "tmp" ELSE "none"
    BY <1>3, <2>1, <2>2 DEF Alone
  <2>7. out' = Exporting!Absent \/ Exporting!Importable(out')
    BY <1>1, <2>1 DEF Alone
  <2> QED BY <2>3, <2>5, <2>6, <2>7 DEF Alone
<1> QED BY <1>6, <1>7 DEF ExportInv

LEMMA WalkKeepsExport ==
  ASSUME ExportInv, NEW e \in Exporter, Exporting!Walk(e)
  PROVE  ExportInv'
<1> DEFINE walked == Exporting!Writable(e)
           n == Exporting!Cardinality(Exporting!Live \ walked)
           r == [exp[e] EXCEPT !.pc = "walked", !.walk = walked, !.dangling = n]
<1>1. walked \subseteq Exporting!Id /\ n \in Nat
  BY ExportCounts DEF Exporting!Writable, Exporting!Live
<1>2. exp[e] \in ExportRun /\ exp[e].pc = "open"
  BY DEF ExportInv, ExportType, Exporting!Walk
<1>3. exp' = [exp EXCEPT ![e] = r]
  BY DEF Exporting!Walk, ExportInv, ExportType
<1>4. /\ tmp' = IF exp[e].fd = "tmp" THEN [tmp EXCEPT !.lines = "all", !.rows = walked] ELSE tmp
      /\ out' = IF exp[e].fd = "out" THEN [out EXCEPT !.lines = "all", !.rows = walked] ELSE out
      /\ UNCHANGED <<known, overlapped>>
  BY DEF Exporting!Walk, Exporting!storeVars
<1> HIDE DEF walked, n
<1>5. /\ r \in ExportRun /\ r.pc = "walked" /\ r.fd = exp[e].fd
      /\ r.writable = exp[e].writable /\ r.walk = walked
  BY <1>1, <1>2 DEF ExportRun
<1> HIDE DEF r
<1>6. ExportType'
  BY <1>3, <1>4, <1>5 DEF ExportInv, ExportType
<1>7. ASSUME Alone PROVE Alone'
  <2>1. \A f \in Exporter : exp'[f] = IF f = e THEN r ELSE exp[f]
    BY <1>3 DEF ExportInv, ExportType
  <2>2. exp[e].fd = "tmp" /\ tmp = Written(exp[e])
    BY <1>2, <1>7 DEF Alone
  <2>3. tmp' = Written(r) /\ out' = out
    <3>1. tmp = [lines |-> "header", declared |-> exp[e].writable, rows |-> {}, mixed |-> FALSE]
      BY <1>2, <2>2 DEF Written
    <3>2. tmp' = [tmp EXCEPT !.lines = "all", !.rows = walked]
      BY <1>4, <2>2
    <3>3. tmp' = [lines |-> "all", declared |-> exp[e].writable, rows |-> walked, mixed |-> FALSE]
      BY <3>1, <3>2
    <3>4. Written(r) = [lines |-> "all", declared |-> exp[e].writable, rows |-> walked, mixed |-> FALSE]
      BY <1>5 DEF Written
    <3> QED BY <1>4, <2>2, <3>3, <3>4
  <2>4. \A f \in Exporter : exp'[f].fd = exp[f].fd
    BY <1>5, <2>1
  <2>5. \A f \in Exporter : exp'[f].fd = "tmp" => f = e
    BY <1>7, <2>2, <2>4 DEF Alone
  <2>6. \A f \in Exporter : exp'[f].fd = "tmp" => tmp' = Written(exp'[f])
    BY <2>1, <2>3, <2>5
  <2>7. \A f \in Exporter : exp'[f].fd = IF exp'[f].pc \in {"open", "walked"} THEN "tmp" ELSE "none"
    BY <1>5, <1>7, <2>1, <2>2 DEF Alone
  <2>8. out' = Exporting!Absent \/ Exporting!Importable(out')
    BY <1>7, <2>3 DEF Alone
  <2> QED BY <2>5, <2>6, <2>7, <2>8 DEF Alone
<1> QED BY <1>4, <1>6, <1>7 DEF ExportInv

(* The end of an export: no other had its file open.                               *)
LEMMA EndKeepsExport ==
  ASSUME ExportInv, NEW e \in Exporter, Exporting!Publish(e) \/ Exporting!Fail(e)
  PROVE  ExportInv'
<1>1. PICK renamed \in {[tmp |-> "out", out |-> "gone"], [tmp |-> "gone"]} :
        Exporting!Ends(e, renamed)
  BY DEF Exporting!Publish, Exporting!Fail
<1>2. /\ exp' = [f \in Exporter |->
                   IF f = e THEN Exporting!Idle
                   ELSE [exp[f] EXCEPT !.fd = IF exp[f].fd \in DOMAIN renamed
                                              THEN renamed[exp[f].fd] ELSE exp[f].fd]]
      /\ UNCHANGED <<known, overlapped>>
  BY <1>1 DEF Exporting!Ends, Exporting!storeVars
<1>3. /\ DOMAIN renamed \subseteq {"tmp", "out"}
      /\ \A d \in DOMAIN renamed : renamed[d] \in {"out", "gone"}
  OBVIOUS
<1>4. Exporting!Idle \in ExportRun /\ Exporting!Idle.pc = "idle" /\ Exporting!Idle.fd = "none"
  BY DEF Exporting!Idle, ExportRun
<1>5. \A f \in Exporter : exp[f] \in ExportRun
  BY DEF ExportInv, ExportType
<1>6. \A f \in Exporter : exp'[f] \in ExportRun
  <2> SUFFICES ASSUME NEW f \in Exporter, f # e PROVE exp'[f] \in ExportRun
    BY <1>2, <1>4
  <2> DEFINE d == IF exp[f].fd \in DOMAIN renamed THEN renamed[exp[f].fd] ELSE exp[f].fd
  <2>1. d \in {"none", "tmp", "out", "gone"}
    BY <1>3, <1>5 DEF ExportRun
  <2>2. exp'[f] = [exp[f] EXCEPT !.fd = d]
    BY <1>2
  <2> HIDE DEF d
  <2> QED BY <1>5, <2>1, <2>2 DEF ExportRun
<1>7. ExportType'
  <2>1. exp' = [f \in Exporter |-> exp'[f]]
    BY <1>2
  <2> QED BY <1>2, <1>6, <2>1 DEF ExportInv, ExportType
<1>8. ASSUME Alone PROVE Alone'
  <2>1. exp[e].fd = "tmp" /\ tmp = Written(exp[e]) /\ exp[e].pc \in {"open", "walked"}
    BY <1>8 DEF Alone, Exporting!Publish, Exporting!Fail
  <2>2. ASSUME NEW f \in Exporter, f # e PROVE exp'[f] = exp[f] /\ exp[f].fd = "none"
    <3>1. exp[f].fd = "none"
      BY <1>8, <2>1, <2>2 DEF Alone
    <3>2. exp'[f] = [exp[f] EXCEPT !.fd = exp[f].fd]
      BY <1>2, <1>3, <2>2, <3>1
    <3> QED BY <1>5, <3>1, <3>2 DEF ExportRun
  <2>3. exp'[e] = Exporting!Idle
    BY <1>2
  <2>4. \A f \in Exporter : exp'[f].fd = "none"
    BY <1>4, <2>2, <2>3
  <2>5. \A f \in Exporter : exp'[f].pc \notin {"open", "walked"}
    BY <1>4, <1>8, <2>2, <2>3 DEF Alone
  <2>6. out' = Exporting!Absent \/ Exporting!Importable(out')
    <3>1. CASE Exporting!Publish(e)
      <4>1. exp[e].pc = "walked" /\ out' = tmp /\ Exporting!Cardinality(exp[e].walk) = exp[e].writable
        BY <3>1 DEF Exporting!Publish, Exporting!Reconciled
      <4>2. out' = [lines |-> "all", declared |-> exp[e].writable, rows |-> exp[e].walk, mixed |-> FALSE]
        BY <2>1, <4>1 DEF Written
      <4>3. exp[e].writable \in Nat
        BY <1>5 DEF ExportRun
      <4>4. out'.lines = "all" /\ ~out'.mixed /\ out'.declared = exp[e].writable /\ out'.rows = exp[e].walk
        BY <4>2
      <4> QED BY <4>1, <4>3, <4>4 DEF Exporting!Importable
    <3>2. CASE Exporting!Fail(e)
      BY <1>8, <3>2 DEF Exporting!Fail, Alone
    <3> QED BY <3>1, <3>2
  <2> QED BY <2>4, <2>5, <2>6 DEF Alone
<1> QED BY <1>2, <1>7, <1>8 DEF ExportInv

(* What the other processes write leaves the exporters and their files alone.       *)
LEMMA WriteKeepsExport ==
  ASSUME ExportInv,
         \/ \E s \in Session : \/ Exporting!Insert(s) \/ Exporting!DeleteSession(s)
                               \/ \E i \in Exporting!Id : Exporting!Promote(i, s)
         \/ \E i \in Exporting!Id : Exporting!Delete(i)
  PROVE  ExportInv'
<1>1. UNCHANGED <<tmp, out, exp, overlapped>>
  BY DEF Exporting!Insert, Exporting!DeleteSession, Exporting!Promote, Exporting!Delete
<1>2. known' \in SUBSET Session /\ \E s : known' \subseteq known \cup {s}
  BY DEF Exporting!Insert, Exporting!DeleteSession, Exporting!Promote, Exporting!Delete,
         ExportInv, ExportType
<1>3. IsFiniteSet(known')
  BY <1>2, FS_AddElement, FS_Subset DEF ExportInv, ExportType
<1>4. ExportType'
  BY <1>1, <1>2, <1>3 DEF ExportInv, ExportType
<1> QED BY <1>1, <1>4 DEF ExportInv, Alone

LEMMA StepKeepsExport == ExportInv /\ [Exporting!Next]_exportVars => ExportInv'
<1> SUFFICES ASSUME ExportInv, [Exporting!Next]_exportVars PROVE ExportInv'
  OBVIOUS
<1>1. ASSUME NEW e \in Exporter,
             \/ Exporting!Counts(e) \/ Exporting!ListSessions(e) \/ Exporting!CountWritable(e)
             \/ Exporting!Killed(e)
      PROVE  ExportInv'
  BY <1>1, PlanKeepsExport
<1>2. ASSUME NEW e \in Exporter,
             Exporting!OpenTmp(e) \/ Exporting!Walk(e) \/ Exporting!Publish(e) \/ Exporting!Fail(e)
      PROVE  ExportInv'
  BY <1>2, OpenTmpKeepsExport, WalkKeepsExport, EndKeepsExport
<1>3. CASE UNCHANGED exportVars
  BY <1>3 DEF exportVars, ExportInv, ExportType, Alone
<1>4. CASE \/ \E s \in Session : \/ Exporting!Insert(s) \/ Exporting!DeleteSession(s)
                                 \/ \E i \in Exporting!Id : Exporting!Promote(i, s)
           \/ \E i \in Exporting!Id : Exporting!Delete(i)
  BY <1>4, WriteKeepsExport
<1> QED BY <1>1, <1>2, <1>3, <1>4 DEF Exporting!Next

(* The file at the artifact's name is one the importer takes, whatever exporters     *)
(* die, fail or count at odds with concurrent writes, as long as no two exports have *)
(* shared the temporary file (export/index.ts:182).                                *)
THEOREM ArtifactsImport == Spec => []ArtifactImportable
<1> DEFINE Inv == part = "export" => ExportInv
<1>1. Init => Inv
  BY SuiteInit, InitExport
<1>2. Inv /\ [Next]_vars => Inv'
  BY SuiteStep, StepKeepsExport
<1>3. Inv => ArtifactImportable
  BY DEF ExportInv, Alone, ArtifactImportable, Exporting!ArtifactImportable
<1> QED BY <1>1, <1>2, <1>3, PTL DEF Spec

---------------------------------------------------------------------------
(* RebuildLock *)

(* Announced is not inductive: a release might be under way without the lock, *)
(* and a thief might be about to overwrite an owner who is not known for it.   *)
LockInv ==
  /\ Rebuilding!TypeOK
  /\ \A s \in owns : srv[s] \in {"rebuild", "beat", "release"}
  /\ \A s \in Server : srv[s] \in {"beat", "release"} => s \in owns
  /\ \A s \in Server : srv[s] = "steal" => owns \subseteq overtaken
  /\ Rebuilding!Announced

(* The lock file does not exist, nobody rebuilds. *)
LEMMA InitLockInv == Rebuilding!Init => LockInv
BY DEF Rebuilding!Init, LockInv, Rebuilding!TypeOK, Rebuilding!Announced

LEMMA StartKeeps ==
  ASSUME LockInv, NEW s \in Server, Rebuilding!Start(s)
  PROVE  LockInv'
BY DEF LockInv, Rebuilding!TypeOK, Rebuilding!Announced, Rebuilding!Start, Rebuilding!Goto

(* Whoever writes the file when no owner is announced is announced himself, or   *)
(* known to be overwritten soon.                                               *)
LEMMA WriterKeeps ==
  ASSUME LockInv, NEW s \in Server, s \notin owns, owns \subseteq overtaken,
         Rebuilding!WritesToken(s), Rebuilding!Goto(s, "rebuild")
  PROVE  LockInv'
<1>1. /\ Rebuilding!TypeOK' /\ srv' = [srv EXCEPT ![s] = "rebuild"] /\ owns' = owns \cup {s}
      /\ holder' = s /\ fresh' = TRUE
  BY DEF LockInv, Rebuilding!TypeOK, Rebuilding!WritesToken, Rebuilding!Goto
<1>2. overtaken' = IF \E t \in Server \ {s} : srv[t] = "steal" THEN overtaken \cup {s}
                                                              ELSE overtaken \ {s}
  BY DEF Rebuilding!WritesToken
<1>3. /\ \A t \in owns' : srv'[t] \in {"rebuild", "beat", "release"}
      /\ \A t \in Server : srv'[t] \in {"beat", "release"} => t \in owns'
  BY <1>1 DEF LockInv, Rebuilding!TypeOK
<1>4. \A t \in Server : srv'[t] = "steal" => owns' \subseteq overtaken'
  <2> SUFFICES ASSUME NEW t \in Server, srv'[t] = "steal" PROVE owns' \subseteq overtaken'
    OBVIOUS
  <2>1. t # s /\ srv[t] = "steal"
    BY <1>1 DEF LockInv, Rebuilding!TypeOK
  <2>2. overtaken' = overtaken \cup {s}
    BY <1>2, <2>1
  <2> QED BY <1>1, <2>2
<1>5. \A t \in owns' \ overtaken' : t = s
  BY <1>1, <1>2
<1>6. Rebuilding!Announced'
  BY <1>1, <1>3, <1>5 DEF Rebuilding!Announced
<1> QED BY <1>1, <1>3, <1>4, <1>6 DEF LockInv

(* An exclusive create succeeds only on a missing file: no owner is announced. *)
LEMMA CreateKeeps ==
  ASSUME LockInv, NEW s \in Server, Rebuilding!Create(s)
  PROVE  LockInv'
<1>1. srv \in [Server -> {"idle", "create", "check", "steal", "rebuild", "beat", "release"}] /\ s \notin owns
  BY DEF Rebuilding!Create, LockInv, Rebuilding!TypeOK
<1>2. ASSUME holder = Nobody, Rebuilding!WritesToken(s), Rebuilding!Goto(s, "rebuild")
      PROVE  LockInv'
  <2>1. owns \subseteq overtaken
    BY <1>2, MarkerAssumption DEF LockInv, Rebuilding!TypeOK, Rebuilding!Announced
  <2> QED BY <1>1, <1>2, <2>1, WriterKeeps
<1>3. ASSUME Rebuilding!Goto(s, "check"), UNCHANGED <<holder, fresh, owns, overtaken>>
      PROVE  LockInv'
  BY <1>1, <1>3 DEF LockInv, Rebuilding!TypeOK, Rebuilding!Announced, Rebuilding!Goto
<1> QED BY <1>2, <1>3 DEF Rebuilding!Create

(* Who finds no fresh file finds no announced owner. *)
LEMMA CheckStaleKeeps ==
  ASSUME LockInv, NEW s \in Server, Rebuilding!CheckStale(s)
  PROVE  LockInv'
<1>1. srv[s] = "check" /\ s \notin owns /\ UNCHANGED <<holder, fresh, owns, overtaken>>
  BY DEF Rebuilding!CheckStale, LockInv
<1>2. CASE Rebuilding!isRebuildLocked
  BY <1>1, <1>2 DEF LockInv, Rebuilding!TypeOK, Rebuilding!Announced, Rebuilding!CheckStale,
     Rebuilding!Goto
<1>3. CASE ~Rebuilding!isRebuildLocked
  <2>1. owns \subseteq overtaken
    BY <1>3, MarkerAssumption DEF LockInv, Rebuilding!TypeOK, Rebuilding!Announced,
       Rebuilding!isRebuildLocked
  <2> QED BY <1>1, <1>3, <2>1 DEF LockInv, Rebuilding!TypeOK, Rebuilding!Announced,
             Rebuilding!CheckStale, Rebuilding!Goto
<1> QED BY <1>2, <1>3

(* While somebody steals, every owner is known to be at risk. *)
LEMMA StealKeeps ==
  ASSUME LockInv, NEW s \in Server, Rebuilding!Steal(s)
  PROVE  LockInv'
<1>1. s \notin owns /\ owns \subseteq overtaken /\ Rebuilding!Goto(s, "rebuild")
  BY DEF Rebuilding!Steal, LockInv
<1>2. CASE UNCHANGED <<holder, fresh, owns, overtaken>>
  BY <1>1, <1>2 DEF LockInv, Rebuilding!TypeOK, Rebuilding!Announced, Rebuilding!Goto
<1> QED BY <1>1, <1>2, WriterKeeps DEF Rebuilding!Steal

(* Reading the token and renewing the mtime leave the token as it is. *)
LEMMA HeartbeatKeeps ==
  ASSUME LockInv, NEW s \in Server,
         Rebuilding!HeartbeatReads(s) \/ Rebuilding!HeartbeatTouches(s)
  PROVE  LockInv'
<1>1. CASE Rebuilding!HeartbeatReads(s)
  BY <1>1, MarkerAssumption DEF LockInv, Rebuilding!TypeOK, Rebuilding!Announced,
     Rebuilding!HeartbeatReads, Rebuilding!Goto
<1>2. CASE Rebuilding!HeartbeatTouches(s)
  BY <1>2, MarkerAssumption DEF LockInv, Rebuilding!TypeOK, Rebuilding!Announced,
     Rebuilding!HeartbeatTouches, Rebuilding!Goto
<1> QED BY <1>1, <1>2

(* A release that removes another server's file was itself overtaken before. *)
LEMMA ReleaseKeeps ==
  ASSUME LockInv, NEW s \in Server,
         Rebuilding!ReleaseReads(s) \/ Rebuilding!ReleaseRemoves(s)
  PROVE  LockInv'
<1>1. CASE Rebuilding!ReleaseReads(s)
  BY <1>1 DEF LockInv, Rebuilding!TypeOK, Rebuilding!Announced, Rebuilding!ReleaseReads,
         Rebuilding!Goto
<1>2. CASE Rebuilding!ReleaseRemoves(s)
  <2>1. Rebuilding!TypeOK' /\ owns' = owns \ {s} /\ srv' = [srv EXCEPT ![s] = "idle"] /\ s \in owns
    BY <1>2 DEF LockInv, Rebuilding!TypeOK, Rebuilding!ReleaseRemoves, Rebuilding!Goto
  <2>2. ASSUME NEW t \in owns', t \notin overtaken' PROVE FALSE
    <3>1. t \in owns /\ t # s /\ t # Nobody
      BY <2>1, <2>2, MarkerAssumption DEF LockInv, Rebuilding!TypeOK
    <3>2. t \notin overtaken /\ (s \in overtaken => t # holder)
      BY <1>2, <2>2, <3>1 DEF Rebuilding!ReleaseRemoves
    <3>3. holder = t
      BY <3>1, <3>2 DEF LockInv, Rebuilding!Announced
    <3>4. s \notin overtaken => holder = s
      BY <2>1 DEF LockInv, Rebuilding!Announced
    <3> QED BY <3>1, <3>2, <3>3, <3>4
  <2>3. Rebuilding!Announced'
    BY <2>2 DEF Rebuilding!Announced
  <2>4. /\ \A t \in owns' : srv'[t] \in {"rebuild", "beat", "release"}
        /\ \A t \in Server : srv'[t] \in {"beat", "release"} => t \in owns'
    BY <2>1 DEF LockInv, Rebuilding!TypeOK
  <2>5. \A t \in Server : srv'[t] = "steal" => owns' \subseteq overtaken'
    <3> SUFFICES ASSUME NEW t \in Server, srv'[t] = "steal" PROVE owns' \subseteq overtaken'
      OBVIOUS
    <3>1. srv[t] = "steal"
      BY <2>1 DEF LockInv, Rebuilding!TypeOK
    <3>2. owns \subseteq overtaken
      BY <3>1 DEF LockInv
    <3>3. \A o \in owns : o # Nobody
      BY MarkerAssumption DEF LockInv, Rebuilding!TypeOK
    <3> QED BY <1>2, <2>1, <3>2, <3>3 DEF Rebuilding!ReleaseRemoves
  <2> QED BY <2>1, <2>3, <2>4, <2>5 DEF LockInv
<1> QED BY <1>1, <1>2

LEMMA KilledKeeps ==
  ASSUME LockInv, NEW s \in Server, Rebuilding!Killed(s)
  PROVE  LockInv'
BY DEF LockInv, Rebuilding!TypeOK, Rebuilding!Announced, Rebuilding!Killed, Rebuilding!Goto

(* The owner whose file goes stale is overtaken. *)
LEMMA GoesStaleKeeps ==
  ASSUME LockInv, Rebuilding!GoesStale
  PROVE  LockInv'
BY MarkerAssumption DEF LockInv, Rebuilding!TypeOK, Rebuilding!Announced, Rebuilding!GoesStale,
       Rebuilding!isRebuildLocked

LEMMA StepKeepsLockInv == LockInv /\ [Rebuilding!Next]_rebuildVars => LockInv'
<1> SUFFICES ASSUME LockInv, [Rebuilding!Next]_rebuildVars PROVE LockInv'
  OBVIOUS
<1>1. CASE Rebuilding!GoesStale
  BY <1>1, GoesStaleKeeps
<1>2. ASSUME NEW s \in Server,
             \/ Rebuilding!Start(s) \/ Rebuilding!Create(s) \/ Rebuilding!CheckStale(s)
             \/ Rebuilding!Steal(s)
             \/ Rebuilding!HeartbeatReads(s) \/ Rebuilding!HeartbeatTouches(s)
             \/ Rebuilding!ReleaseReads(s) \/ Rebuilding!ReleaseRemoves(s) \/ Rebuilding!Killed(s)
      PROVE  LockInv'
  BY <1>2, StartKeeps, CreateKeeps, CheckStaleKeeps, StealKeeps, HeartbeatKeeps, ReleaseKeeps,
     KilledKeeps
<1>3. CASE UNCHANGED rebuildVars
  BY <1>3 DEF rebuildVars, LockInv, Rebuilding!TypeOK, Rebuilding!Announced
<1> QED BY <1>1, <1>2, <1>3 DEF Rebuilding!Next

(* A server that owns the rebuild lock holds a fresh file until it has released  *)
(* it (write-lock.ts:81-88, 112-120), whatever other servers create, check,       *)
(* steal, release or die over, and a hook of session-end that looks then defers.  *)
(* Excepted are an owner that was late by 15 s, one that wrote the file while      *)
(* another stood between its check and its overwrite, and one whose file such an   *)
(* owner removed: EXCLUSIVE (64-68) holds no further.                             *)
THEOREM OwnersAreAnnounced == Spec => []Announced
<1> DEFINE Inv == part = "rebuild" => LockInv
<1>1. Init => Inv
  BY SuiteInit, InitLockInv
<1>2. Inv /\ [Next]_vars => Inv'
  BY SuiteStep, StepKeepsLockInv
<1>3. Inv => Announced
  BY DEF LockInv, Announced
<1> QED BY <1>1, <1>2, <1>3, PTL DEF Spec
---------------------------------------------------------------------------
(* Applier *)

Contents == Applying!Content \cup {Applying!NoFile}
ApplyRun == [pc : {"idle", "backup", "write", "rollback", "prune", "index"}, f : Applying!File,
             shown : Contents, replace : BOOLEAN, base : Applying!Content, existed : BOOLEAN,
             stamp : Nat]
ApplyType ==
  /\ target \in [Applying!File -> Contents] /\ run \in [Writer -> ApplyRun] /\ stamps \in Nat
  /\ backups \subseteq [f : Applying!File, stamp : Nat \ {0}, has : Applying!Content]

(* Whose rename or rollback will replace the file without a further backup: what     *)
(* others put into it is at risk.                                                 *)
Threatens(w) == run[w].pc \in {"write", "rollback"} \/ (run[w].pc = "backup" /\ ~run[w].existed)
InOwn(w, m) == \E b \in backups : Applying!Of(b, w) /\ m \in b.has
Safe(w) == Threatens(w) => \A m \in Applying!Has(run[w].f) :
             m \in excused \/ (run[w].existed /\ InOwn(w, m))

(* What is in a file that a writer is about to replace is in that writer's backup    *)
(* or excused.  No two writers have the same backup, and stamps only grow.           *)
ApplyInv ==
  /\ ApplyType
  /\ \A b \in backups : b.stamp <= stamps
  /\ \A w \in Writer : run[w].stamp <= stamps
  /\ \A w \in Writer : run[w].pc = "idle" => run[w].f = "entry"
  /\ \A w \in Writer : run[w].pc \in {"idle", "backup"} \/ ~run[w].existed => run[w].stamp = 0
  /\ \A v, w \in Writer : run[v].stamp = run[w].stamp /\ run[v].stamp # 0 => v = w
  /\ \A w \in Writer : Safe(w)

LEMMA InitApply == Applying!Init => ApplyInv
<1> SUFFICES ASSUME Applying!Init PROVE ApplyInv
  OBVIOUS
<1>1. /\ target = [f \in Applying!File |-> Applying!NoFile] /\ backups = {} /\ stamps = 0
      /\ run = [w \in Writer |-> Applying!Idle]
  BY DEF Applying!Init
<1>2. /\ Applying!Idle \in ApplyRun /\ Applying!Idle.pc = "idle" /\ Applying!Idle.f = "entry"
      /\ Applying!Idle.stamp = 0
  BY DEF Applying!Idle, ApplyRun, Contents, Applying!File, Applying!Content
<1>3. ApplyType
  BY <1>1, <1>2 DEF ApplyType, Contents
<1>4. \A w \in Writer : run[w] = Applying!Idle
  BY <1>1
<1>5. \A w \in Writer : Safe(w)
  BY <1>2, <1>4 DEF Safe, Threatens
<1> QED BY <1>1, <1>2, <1>3, <1>4, <1>5 DEF ApplyInv

(* What is safe from a writer stays so, as long as what is put into its file from     *)
(* now on is excused, and its backup stays or is excused.                          *)
LEMMA SafeStays ==
  ASSUME NEW w \in Writer, Safe(w), run'[w] = run[w], excused \subseteq excused',
         Threatens(w) => \A m \in Applying!Has(run[w].f)' :
           m \in Applying!Has(run[w].f) \/ m \in excused',
         Threatens(w) => \A b \in backups :
           Applying!Of(b, w) => b \in backups' \/ b.has \subseteq excused'
  PROVE  Safe(w)'
<1> SUFFICES ASSUME Threatens(w)', NEW m \in Applying!Has(run[w].f)', m \notin excused'
             PROVE  run'[w].existed /\ InOwn(w, m)'
  BY DEF Safe
<1>1. Threatens(w)
  BY DEF Threatens
<1>2. m \in Applying!Has(run[w].f) /\ m \notin excused
  BY <1>1
<1>3. run[w].existed /\ InOwn(w, m)
  BY <1>1, <1>2 DEF Safe
<1>4. PICK b \in backups : Applying!Of(b, w) /\ m \in b.has
  BY <1>3 DEF InOwn
<1>5. b \in backups' /\ Applying!Of(b, w)'
  BY <1>1, <1>4 DEF Applying!Of
<1> QED BY <1>3, <1>4, <1>5 DEF InOwn

(* A step of one writer that only changes what it is doing.                         *)
LEMMA QuietStepKeepsApply ==
  ASSUME ApplyInv, NEW w \in Writer, NEW r \in ApplyRun, run' = [run EXCEPT ![w] = r],
         UNCHANGED <<target, backups, stamps, excused>>,
         r.stamp \in {0, run[w].stamp}, r.pc = "idle" => r.f = "entry",
         r.pc \in {"idle", "backup"} \/ ~r.existed => r.stamp = 0,
         Safe(w)'
  PROVE  ApplyInv'
<1>1. \A v \in Writer : run'[v] = IF v = w THEN r ELSE run[v]
  BY DEF ApplyInv, ApplyType
<1>2. ApplyType'
  BY DEF ApplyInv, ApplyType
<1>3. \A v \in Writer : Safe(v)'
  <2> SUFFICES ASSUME NEW v \in Writer, v # w PROVE Safe(v)'
    OBVIOUS
  <2>1. run'[v] = run[v] /\ Safe(v)
    BY <1>1 DEF ApplyInv
  <2>2. \A f : Applying!Has(f)' = Applying!Has(f)
    BY DEF Applying!Has
  <2> QED BY <2>1, <2>2, SafeStays
<1>4. \A v \in Writer : run'[v].stamp \in {0, run[v].stamp}
  BY <1>1
<1>5. /\ \A b \in backups' : b.stamp <= stamps'
      /\ \A v \in Writer : run'[v].stamp <= stamps'
      /\ \A u, v \in Writer : run'[u].stamp = run'[v].stamp /\ run'[u].stamp # 0 => u = v
  BY <1>4 DEF ApplyInv, ApplyType
<1>6. /\ \A v \in Writer : run'[v].pc = "idle" => run'[v].f = "entry"
      /\ \A v \in Writer : run'[v].pc \in {"idle", "backup"} \/ ~run'[v].existed => run'[v].stamp = 0
  BY <1>1 DEF ApplyInv
<1> QED BY <1>2, <1>3, <1>5, <1>6 DEF ApplyInv

LEMMA IdleStepKeepsApply ==
  ASSUME ApplyInv, NEW w \in Writer, NEW r \in ApplyRun, run' = [run EXCEPT ![w] = r],
         UNCHANGED <<target, backups, stamps, excused>>,
         r.stamp = 0, r.f = "entry", r.pc = "idle"
  PROVE  ApplyInv'
<1>1. run'[w] = r
  BY DEF ApplyInv, ApplyType
<1>2. Safe(w)'
  BY <1>1 DEF Safe, Threatens
<1> QED BY <1>2, QuietStepKeepsApply

(* What a file holds, without the marker that says there is none.                    *)
LEMMA HasContent ==
  ASSUME ApplyType, NEW f \in Applying!File
  PROVE  /\ Applying!Has(f) \in Applying!Content
         /\ target[f] = Applying!NoFile => Applying!Has(f) = {}
         /\ target[f] # Applying!NoFile => Applying!Has(f) = target[f] /\ target[f] \in Applying!Content
BY MarkerAssumption DEF ApplyType, Contents, Applying!Has, Applying!NoFile, Applying!Content,
   Applying!Mark

LEMMA StartKeepsApply ==
  ASSUME ApplyInv, NEW w \in Writer,
         \/ Applying!Preview(w) \/ Applying!Check(w) \/ Applying!NoBackup(w)
         \/ Applying!WriteFails(w) \/ Applying!IndexPointer(w) \/ Applying!Stops(w)
  PROVE  ApplyInv'
<1>1. /\ run[w] \in ApplyRun /\ Applying!Idle \in ApplyRun /\ Applying!Idle.pc = "idle"
      /\ Applying!Idle.stamp = 0 /\ Applying!Idle.f = "entry"
  BY DEF ApplyInv, ApplyType, Applying!Idle, ApplyRun, Contents, Applying!File, Applying!Content
<1>2. \A f : Applying!Has(f)' = Applying!Has(f)
  BY DEF Applying!Has, Applying!Preview, Applying!Check, Applying!NoBackup,
         Applying!WriteFails, Applying!IndexPointer, Applying!Stops
<1>3. UNCHANGED <<target, backups, stamps, excused>>
  BY DEF Applying!Preview, Applying!Check, Applying!NoBackup, Applying!WriteFails,
         Applying!IndexPointer, Applying!Stops
<1>4. \A r : run' = [run EXCEPT ![w] = r] => run'[w] = r
  BY DEF ApplyInv, ApplyType
<1>5. CASE Applying!Preview(w)
  <2>1. PICK replace \in BOOLEAN : run' = [run EXCEPT ![w] =
                 [Applying!Idle EXCEPT !.shown = target["entry"], !.replace = replace]]
    BY <1>5 DEF Applying!Preview
  <2> DEFINE r == [Applying!Idle EXCEPT !.shown = target["entry"], !.replace = replace]
  <2>2. target["entry"] \in Contents
    BY DEF ApplyInv, ApplyType, Applying!File
  <2>3. r \in ApplyRun /\ r.pc = "idle" /\ r.stamp = 0 /\ r.f = "entry"
    BY <1>1, <2>2 DEF ApplyRun
  <2>4. run' = [run EXCEPT ![w] = r]
    BY <2>1
  <2> HIDE DEF r
  <2> QED BY <1>3, <2>3, <2>4, IdleStepKeepsApply
<1>6. CASE Applying!Check(w)
  <2> DEFINE base == Applying!Has("entry")
             existed == target["entry"] # Applying!NoFile
             r == [run[w] EXCEPT !.pc = "backup", !.base = base, !.existed = existed]
  <2>1. run[w].pc = "idle" /\ run' = [run EXCEPT ![w] = r]
    BY <1>6 DEF Applying!Check, ApplyInv, ApplyType
  <2>2. run[w].f = "entry" /\ run[w].stamp = 0 /\ "entry" \in Applying!File
    BY <2>1 DEF ApplyInv, Applying!File
  <2>3. base \in Applying!Content /\ existed \in BOOLEAN /\ (~existed => base = {})
    BY <2>2, HasContent DEF ApplyInv
  <2> HIDE DEF base, existed
  <2>4. r \in ApplyRun /\ r.pc = "backup" /\ r.stamp = 0 /\ r.f = "entry" /\ r.existed = existed
    BY <1>1, <2>2, <2>3 DEF ApplyRun
  <2> HIDE DEF r
  <2>5. Safe(w)'
    BY <1>2, <1>4, <2>1, <2>3, <2>4 DEF Safe, Threatens, base
  <2> QED BY <1>3, <2>1, <2>4, <2>5, QuietStepKeepsApply
<1>7. CASE Applying!NoBackup(w) \/ Applying!WriteFails(w)
  <2>1. PICK pc1 \in {"write", "rollback"} : run' = [run EXCEPT ![w] = [run[w] EXCEPT !.pc = pc1]]
    BY <1>7 DEF Applying!NoBackup, Applying!WriteFails, ApplyInv, ApplyType
  <2> DEFINE r == [run[w] EXCEPT !.pc = pc1]
  <2>2. /\ r \in ApplyRun /\ r.pc = pc1 /\ r.stamp = run[w].stamp /\ r.f = run[w].f
        /\ r.existed = run[w].existed /\ Threatens(w)
        /\ (run[w].pc \in {"idle", "backup"} \/ ~run[w].existed => run[w].stamp = 0)
    BY <1>1, <1>7 DEF ApplyRun, Threatens, Applying!NoBackup, Applying!WriteFails, ApplyInv
  <2>3. run' = [run EXCEPT ![w] = r]
    BY <2>1
  <2> HIDE DEF r
  <2>4. Safe(w) /\ run'[w] = r
    BY <1>4, <2>3 DEF ApplyInv
  <2>5. ASSUME NEW m PROVE InOwn(w, m)' = InOwn(w, m)
    BY <1>3, <2>2, <2>4 DEF InOwn, Applying!Of
  <2>6. Safe(w)'
    BY <1>2, <1>3, <2>2, <2>4, <2>5 DEF Safe
  <2> QED BY <1>3, <2>2, <2>3, <2>6, QuietStepKeepsApply
<1>8. CASE Applying!IndexPointer(w)
  <2>1. CASE Pointer \in Applying!Has("index")
    BY <1>1, <1>3, <1>8, <2>1, IdleStepKeepsApply DEF Applying!IndexPointer
  <2>2. CASE Pointer \notin Applying!Has("index")
    <3> DEFINE base == Applying!Has("index")
               existed == target["index"] # Applying!NoFile
               r == [Applying!Idle EXCEPT !.pc = "backup", !.f = "index", !.base = base,
                                          !.existed = existed]
    <3>1. run' = [run EXCEPT ![w] = r]
      BY <1>8, <2>2 DEF Applying!IndexPointer
    <3>2. "index" \in Applying!File
      BY DEF Applying!File
    <3>3. base \in Applying!Content /\ existed \in BOOLEAN /\ (~existed => base = {})
      BY <3>2, HasContent DEF ApplyInv
    <3> HIDE DEF base, existed
    <3>4. r \in ApplyRun /\ r.pc = "backup" /\ r.stamp = 0 /\ r.f = "index" /\ r.existed = existed
      BY <1>1, <3>2, <3>3 DEF ApplyRun
    <3> HIDE DEF r
    <3>5. Safe(w)'
      BY <1>2, <1>4, <3>1, <3>3, <3>4 DEF Safe, Threatens, base
    <3> QED BY <1>3, <3>1, <3>4, <3>5, QuietStepKeepsApply
  <2> QED BY <2>1, <2>2
<1>9. CASE Applying!Stops(w)
  BY <1>1, <1>3, <1>9, IdleStepKeepsApply DEF Applying!Stops
<1> QED BY <1>5, <1>6, <1>7, <1>8, <1>9

(* The new backup has all that is in the file.                                      *)
LEMMA BackupKeepsApply ==
  ASSUME ApplyInv, NEW w \in Writer, Applying!Backup(w)
  PROVE  ApplyInv' /\ Applying!Keeps
<1> DEFINE n == stamps + 1
           b == [f |-> run[w].f, stamp |-> n, has |-> target[run[w].f]]
           r == [run[w] EXCEPT !.pc = "write", !.stamp = n]
<1>1. /\ stamps' = n /\ backups' = backups \cup {b} /\ UNCHANGED <<target, excused>>
      /\ run[w].pc = "backup" /\ run[w].existed /\ target[run[w].f] # Applying!NoFile
  BY DEF Applying!Backup
<1>2. run[w] \in ApplyRun /\ n \in Nat \ {0} /\ stamps \in Nat /\ ~(n <= stamps) /\ stamps <= n
  BY DEF ApplyInv, ApplyType
<1>3. run' = [run EXCEPT ![w] = r]
  BY DEF Applying!Backup, ApplyInv, ApplyType
<1> HIDE DEF n
<1>4. r \in ApplyRun /\ r.pc = "write" /\ r.stamp = n /\ r.f = run[w].f /\ r.existed
  BY <1>1, <1>2 DEF ApplyRun
<1>5. run[w].f \in Applying!File
  BY <1>2 DEF ApplyRun
<1>6. /\ b \in [f : Applying!File, stamp : Nat \ {0}, has : Applying!Content]
      /\ b.f = run[w].f /\ b.stamp = n /\ b.has = Applying!Has(run[w].f)
  BY <1>1, <1>2, <1>5, HasContent DEF ApplyInv
<1> HIDE DEF r, b
<1>7. \A v \in Writer : run'[v] = IF v = w THEN r ELSE run[v]
  BY <1>3 DEF ApplyInv, ApplyType
<1>8. ApplyType'
  BY <1>1, <1>2, <1>3, <1>4, <1>6 DEF ApplyInv, ApplyType
<1>9. \A f : Applying!Has(f)' = Applying!Has(f)
  BY <1>1 DEF Applying!Has
<1>10. Safe(w)'
  <2>0. PICK c : c = b
    OBVIOUS
  <2>1. run'[w] = r /\ c \in backups' /\ Applying!Of(c, w)' /\ c.has = Applying!Has(run[w].f)
    BY <1>1, <1>4, <1>6, <1>7, <2>0 DEF Applying!Of
  <2>2. \A m \in Applying!Has(run[w].f) : InOwn(w, m)'
    BY <2>1 DEF InOwn
  <2> QED BY <1>4, <1>9, <2>1, <2>2 DEF Safe
<1>11. \A v \in Writer : Safe(v)'
  <2> SUFFICES ASSUME NEW v \in Writer, v # w PROVE Safe(v)'
    BY <1>10
  <2>1. run'[v] = run[v] /\ Safe(v)
    BY <1>7 DEF ApplyInv
  <2> QED BY <1>1, <1>9, <2>1, SafeStays
<1>12. \A c \in backups' : c.stamp <= stamps'
  BY <1>1, <1>2, <1>6 DEF ApplyInv, ApplyType
<1>13. /\ \A v \in Writer : run'[v].stamp <= stamps'
       /\ \A u, v \in Writer : run'[u].stamp = run'[v].stamp /\ run'[u].stamp # 0 => u = v
  <2>1. \A v \in Writer : run[v].stamp \in Nat /\ run[v].stamp <= stamps /\ run[v].stamp # n
    BY <1>2 DEF ApplyInv, ApplyType, ApplyRun
  <2>2. \A v \in Writer : run'[v].stamp = IF v = w THEN n ELSE run[v].stamp
    BY <1>4, <1>7
  <2>3. \A v \in Writer : run'[v].stamp <= stamps'
    BY <1>1, <1>2, <2>1, <2>2
  <2>4. \A u, v \in Writer : run[u].stamp = run[v].stamp /\ run[u].stamp # 0 => u = v
    BY DEF ApplyInv
  <2> QED BY <2>1, <2>2, <2>3, <2>4
<1>14. /\ \A v \in Writer : run'[v].pc = "idle" => run'[v].f = "entry"
       /\ \A v \in Writer : run'[v].pc \in {"idle", "backup"} \/ ~run'[v].existed => run'[v].stamp = 0
  BY <1>4, <1>7 DEF ApplyInv
<1>15. Applying!Keeps
  BY <1>1, <1>9 DEF Applying!Keeps, Applying!OnDisk
<1> QED BY <1>8, <1>11, <1>12, <1>13, <1>14, <1>15 DEF ApplyInv

(* What is put into a file that others are about to replace is excused.             *)
LEMMA PutIsExcused ==
  ASSUME NEW f, NEW text, NEW W \in SUBSET Writer, NEW w \in W, Threatens(w), run[w].f = f,
         NEW m \in text, m \notin Applying!NoFile, m \notin Applying!Has(f)
  PROVE  m \in Applying!Put(f, text, W)
<1>1. Applying!AtRisk(f, W)
  BY DEF Applying!AtRisk, Threatens
<1> QED BY <1>1 DEF Applying!Put

LEMMA UserKeepsApply ==
  ASSUME ApplyInv, NEW f \in Applying!File, NEW m \in Edit, Applying!UserEdits(f, m)
  PROVE  ApplyInv' /\ Applying!Keeps
<1>1. /\ target' = [target EXCEPT ![f] = Applying!Has(f) \cup {m}]
      /\ excused' = excused \cup Applying!Put(f, {m}, Writer)
      /\ UNCHANGED <<backups, stamps, run>> /\ m \notin Applying!Has(f)
  BY DEF Applying!UserEdits
<1>2. m \in Applying!Mark /\ m \notin Applying!NoFile
  BY MarkerAssumption DEF Applying!Mark, Applying!NoFile
<1>3. Applying!Has(f) \cup {m} \in Contents
  BY <1>2, HasContent DEF ApplyInv, Applying!Content, Contents
<1>4. ApplyType'
  BY <1>1, <1>3 DEF ApplyInv, ApplyType
<1>5. \A g \in Applying!File : Applying!Has(g)' = IF g = f THEN Applying!Has(g) \cup {m} ELSE Applying!Has(g)
  BY <1>1, <1>2 DEF Applying!Has, ApplyInv, ApplyType
<1>6. \A w \in Writer : Safe(w)'
  <2> SUFFICES ASSUME NEW w \in Writer PROVE Safe(w)'
    OBVIOUS
  <2>1. run[w].f \in Applying!File /\ run'[w] = run[w] /\ Safe(w) /\ excused \subseteq excused'
    BY <1>1 DEF ApplyInv, ApplyType, ApplyRun
  <2>2. ASSUME Threatens(w), NEW l \in Applying!Has(run[w].f)', l \notin Applying!Has(run[w].f)
        PROVE  l \in excused'
    <3>1. run[w].f = f /\ l = m
      BY <1>5, <2>1, <2>2
    <3> QED BY <1>1, <1>2, <2>2, <3>1, PutIsExcused
  <2> QED BY <1>1, <2>1, <2>2, SafeStays
<1>7. Applying!Keeps
  BY <1>1, <1>5 DEF Applying!Keeps, Applying!OnDisk
<1> QED BY <1>1, <1>4, <1>6, <1>7 DEF ApplyInv

(* A file is replaced by its writer, whose run then has another place.               *)
LEMMA ReplaceKeepsApply ==
  ASSUME ApplyInv, NEW w \in Writer, NEW r \in ApplyRun, run' = [run EXCEPT ![w] = r],
         NEW text \in Contents, target' = [target EXCEPT ![run[w].f] = text],
         backups' \subseteq backups, \A b \in backups \ backups' : Applying!Of(b, w) /\ run[w].stamp # 0,
         excused' = excused \cup Applying!Put(run[w].f, text, Writer \ {w}),
         stamps' = stamps, r.stamp \in {0, run[w].stamp}, r.pc \in {"idle", "prune"},
         r.pc = "idle" => r.f = "entry" /\ r.stamp = 0, ~r.existed => r.stamp = 0
  PROVE  ApplyInv'
<1> DEFINE f == run[w].f
<1>1. \A v \in Writer : run'[v] = IF v = w THEN r ELSE run[v]
  BY DEF ApplyInv, ApplyType
<1>2. f \in Applying!File
  BY DEF ApplyInv, ApplyType, ApplyRun
<1>3. ApplyType'
  BY <1>2 DEF ApplyInv, ApplyType
<1>4. \A g \in Applying!File : target'[g] = IF g = f THEN text ELSE target[g]
  BY DEF ApplyInv, ApplyType
<1>5. \A v \in Writer : Safe(v)'
  <2>1. Safe(w)'
    BY <1>1 DEF Safe, Threatens
  <2> SUFFICES ASSUME NEW v \in Writer, v # w PROVE Safe(v)'
    BY <2>1
  <2>2. run'[v] = run[v] /\ Safe(v) /\ excused \subseteq excused' /\ run[v].f \in Applying!File
    BY <1>1 DEF ApplyInv, ApplyType, ApplyRun
  <2>3. ASSUME Threatens(v), NEW m \in Applying!Has(run[v].f)', m \notin Applying!Has(run[v].f)
        PROVE  m \in excused'
    <3>1. m \in target'[run[v].f] /\ m \notin Applying!NoFile
      BY <2>2 DEF Applying!Has, Applying!NoFile
    <3>2. run[v].f = f /\ m \in text
      BY <1>4, <2>2, <2>3, <3>1 DEF Applying!Has
    <3>3. v \in Writer \ {w} /\ Writer \ {w} \in SUBSET Writer
      BY <2>2
    <3>4. m \in Applying!Put(f, text, Writer \ {w})
      BY <2>3, <3>1, <3>2, <3>3, PutIsExcused
    <3> QED BY <3>4
  <2>4. ASSUME NEW b \in backups, Applying!Of(b, v) PROVE b \in backups'
    <3>1. ASSUME b \notin backups' PROVE FALSE
      <4>1. b.stamp = run[w].stamp /\ b.stamp = run[v].stamp /\ run[w].stamp # 0
        BY <2>4, <3>1 DEF Applying!Of
      <4> QED BY <4>1 DEF ApplyInv
    <3> QED BY <3>1
  <2> QED BY <2>2, <2>3, <2>4, SafeStays
<1>6. \A v \in Writer : run'[v].stamp \in {0, run[v].stamp}
  BY <1>1
<1>7. /\ \A b \in backups' : b.stamp <= stamps'
      /\ \A v \in Writer : run'[v].stamp <= stamps'
      /\ \A u, v \in Writer : run'[u].stamp = run'[v].stamp /\ run'[u].stamp # 0 => u = v
  BY <1>6 DEF ApplyInv, ApplyType
<1>8. /\ \A v \in Writer : run'[v].pc = "idle" => run'[v].f = "entry"
      /\ \A v \in Writer : run'[v].pc \in {"idle", "backup"} \/ ~run'[v].existed => run'[v].stamp = 0
  BY <1>1 DEF ApplyInv
<1> QED BY <1>3, <1>5, <1>7, <1>8 DEF ApplyInv


(* The rename loses nothing: what it replaces is in the backup or excused.           *)
LEMMA RenameKeepsApply ==
  ASSUME ApplyInv, NEW w \in Writer, Applying!Rename(w)
  PROVE  ApplyInv' /\ Applying!Keeps
<1> DEFINE f == run[w].f
           text == Applying!NextContent(w)
           r == [run[w] EXCEPT !.pc = "prune"]
<1>1. /\ run[w].pc = "write" /\ target' = [target EXCEPT ![f] = text]
      /\ excused' = excused \cup Applying!Put(f, text, Writer \ {w})
      /\ UNCHANGED <<backups, stamps>>
  BY DEF Applying!Rename
<1>2. run[w] \in ApplyRun /\ f \in Applying!File
  BY DEF ApplyInv, ApplyType, ApplyRun
<1>3. run' = [run EXCEPT ![w] = r]
  BY DEF Applying!Rename, ApplyInv, ApplyType
<1>4. text \in Contents
  BY <1>2 DEF Applying!NextContent, Applying!Text, Contents, Applying!Content, Applying!Mark, ApplyRun
<1> HIDE DEF text
<1>5. r \in ApplyRun /\ r.pc = "prune" /\ r.stamp = run[w].stamp /\ r.existed = run[w].existed
  BY <1>2 DEF ApplyRun
<1> HIDE DEF r
<1>6. ~r.existed => r.stamp = 0
  BY <1>5 DEF ApplyInv
<1>7. ApplyInv'
  BY <1>1, <1>3, <1>4, <1>5, <1>6, ReplaceKeepsApply
<1>8. ASSUME NEW m \in Applying!Has(f), m \notin excused
      PROVE  \E b \in backups : b.f = f /\ m \in b.has
  <2>1. Safe(w) /\ Threatens(w)
    BY <1>1 DEF ApplyInv, Threatens
  <2>2. InOwn(w, m)
    BY <1>8, <2>1 DEF Safe
  <2> QED BY <2>2 DEF InOwn, Applying!Of
<1>9. \A g \in Applying!File : g # f => Applying!Has(g)' = Applying!Has(g)
  BY <1>1 DEF Applying!Has, ApplyInv, ApplyType
<1>10. Applying!Keeps
  <2> SUFFICES ASSUME NEW g \in Applying!File, NEW m \in Applying!OnDisk(g), m \notin excused'
               PROVE  m \in Applying!OnDisk(g)'
    BY DEF Applying!Keeps
  <2>1. CASE m \in Applying!Has(g)
    <3>1. CASE g = f
      <4>1. PICK b \in backups : b.f = f /\ m \in b.has
        BY <1>1, <1>8, <2>1, <3>1
      <4> QED BY <1>1, <3>1, <4>1 DEF Applying!OnDisk
    <3>2. CASE g # f
      BY <1>9, <2>1, <3>2 DEF Applying!OnDisk
    <3> QED BY <3>1, <3>2
  <2>2. CASE m \notin Applying!Has(g)
    BY <1>1, <2>2 DEF Applying!OnDisk
  <2> QED BY <2>1, <2>2
<1> QED BY <1>7, <1>10

(* Nor does the rollback; the backup it removes is what the file then holds.        *)
LEMMA RollbackKeepsApply ==
  ASSUME ApplyInv, NEW w \in Writer, Applying!Rollback(w)
  PROVE  ApplyInv' /\ Applying!Keeps
<1> DEFINE f == run[w].f
           own == {b \in backups : Applying!Of(b, w)}
           text == IF ~run[w].existed THEN Applying!NoFile
                   ELSE IF own # {} THEN UNION {b.has : b \in own} ELSE run[w].base
<1>1. /\ run[w].pc = "rollback" /\ target' = [target EXCEPT ![f] = text]
      /\ backups' = backups \ own /\ run' = [run EXCEPT ![w] = Applying!Idle]
      /\ excused' = excused \cup Applying!Put(f, text, Writer \ {w}) /\ UNCHANGED stamps
  BY DEF Applying!Rollback
<1>2. run[w] \in ApplyRun /\ f \in Applying!File
  BY DEF ApplyInv, ApplyType, ApplyRun
<1>3. \A b \in backups : b.stamp # 0 /\ b.has \in Applying!Content
  BY DEF ApplyInv, ApplyType
<1>4. text \in Contents
  <2>1. UNION {b.has : b \in own} \in Applying!Content
    BY <1>3 DEF Applying!Content
  <2>2. run[w].base \in Applying!Content
    BY <1>2 DEF ApplyRun
  <2> QED BY <2>1, <2>2 DEF Contents
<1>5. \A b \in own : b \in backups /\ b.f = f /\ b.stamp = run[w].stamp
  BY DEF Applying!Of
<1>6. run[w].stamp = 0 => own = {}
  BY <1>3, <1>5
<1>7. ASSUME own # {} PROVE text = UNION {b.has : b \in own}
  <2>1. run[w].existed
    BY <1>6, <1>7 DEF ApplyInv
  <2> QED BY <1>7, <2>1
<1>8. ASSUME NEW m \in Applying!Has(f), m \notin excused PROVE m \in text
  <2>1. Safe(w) /\ Threatens(w)
    BY <1>1 DEF ApplyInv, Threatens
  <2>2. InOwn(w, m)
    BY <1>8, <2>1 DEF Safe
  <2>3. PICK b \in backups : Applying!Of(b, w) /\ m \in b.has
    BY <2>2 DEF InOwn
  <2>4. b \in own
    BY <2>3
  <2> QED BY <1>7, <2>3, <2>4
<1> HIDE DEF text, own
<1>9. /\ Applying!Idle \in ApplyRun /\ Applying!Idle.pc = "idle" /\ Applying!Idle.f = "entry"
      /\ Applying!Idle.stamp = 0
  BY DEF Applying!Idle, ApplyRun, Contents, Applying!File, Applying!Content
<1>10. \A b \in backups \ backups' : b \in own
  BY <1>1
<1>11. \A b \in backups \ backups' : Applying!Of(b, w) /\ run[w].stamp # 0
  BY <1>5, <1>6, <1>10 DEF Applying!Of
<1>12. ApplyInv'
  BY <1>1, <1>4, <1>9, <1>11, ReplaceKeepsApply
<1>13. \A g \in Applying!File : target'[g] = IF g = f THEN text ELSE target[g]
  BY <1>1 DEF ApplyInv, ApplyType
<1>14. Applying!Keeps
  <2> SUFFICES ASSUME NEW g \in Applying!File, NEW m \in Applying!OnDisk(g), m \notin excused'
               PROVE  m \in Applying!OnDisk(g)'
    BY DEF Applying!Keeps
  <2>1. CASE m \in Applying!Has(g)
    <3>1. m \in target'[g] /\ m \notin Applying!NoFile
      BY <1>1, <1>8, <1>13, <2>1 DEF Applying!Has
    <3> QED BY <3>1 DEF Applying!OnDisk, Applying!Has
  <2>2. CASE m \notin Applying!Has(g)
    <3>1. PICK b \in backups : b.f = g /\ m \in b.has
      BY <2>2 DEF Applying!OnDisk
    <3>2. CASE b \in own
      <4>1. g = f /\ m \in text
        BY <1>5, <1>7, <3>1, <3>2
      <4>2. m \notin Applying!NoFile
        BY <1>3, <3>1, MarkerAssumption DEF Applying!NoFile, Applying!Content, Applying!Mark
      <4> QED BY <1>13, <4>1, <4>2 DEF Applying!OnDisk, Applying!Has
    <3>3. CASE b \notin own
      BY <1>1, <3>1, <3>3 DEF Applying!OnDisk
    <3> QED BY <3>2, <3>3
  <2> QED BY <2>1, <2>2
<1> QED BY <1>12, <1>14

(* What is pruned is in the file still, or excused; all of it, if its writer is at   *)
(* work.                                                                         *)
LEMMA PruneKeepsApply ==
  ASSUME ApplyInv, NEW w \in Writer, Applying!Prune(w)
  PROVE  ApplyInv' /\ Applying!Keeps
<1> DEFINE f == run[w].f
           lost == backups \ backups'
           r == IF f = "entry" THEN [run[w] EXCEPT !.pc = "index"] ELSE Applying!Idle
<1>1. /\ run[w].pc = "prune" /\ UNCHANGED <<target, stamps>> /\ backups' \subseteq backups
      /\ \A b \in lost : b.f = f
  BY DEF Applying!Prune
<1>2. excused' = excused \cup
        UNION {IF Applying!InUse(b) THEN b.has ELSE b.has \ Applying!Has(f) : b \in lost}
  BY DEF Applying!Prune
<1>3. run[w] \in ApplyRun
  BY DEF ApplyInv, ApplyType
<1>4. run' = [run EXCEPT ![w] = r]
  BY DEF Applying!Prune, ApplyInv, ApplyType
<1>5. /\ Applying!Idle \in ApplyRun /\ Applying!Idle.pc = "idle" /\ Applying!Idle.f = "entry"
      /\ Applying!Idle.stamp = 0
  BY DEF Applying!Idle, ApplyRun, Contents, Applying!File, Applying!Content
<1>6. /\ r \in ApplyRun /\ r.pc \in {"idle", "index"} /\ r.stamp \in {0, run[w].stamp}
      /\ r.pc = "idle" => r.f = "entry" /\ r.stamp = 0
      /\ r.stamp # 0 => r.existed = run[w].existed
  BY <1>3, <1>5 DEF ApplyRun
<1> HIDE DEF r
<1>7. \A v \in Writer : run'[v] = IF v = w THEN r ELSE run[v]
  BY <1>4 DEF ApplyInv, ApplyType
<1>8. ApplyType'
  BY <1>1, <1>4, <1>6 DEF ApplyInv, ApplyType
<1>9. \A b \in lost : b.has \ Applying!Has(f) \subseteq excused' /\ (Applying!InUse(b) => b.has \subseteq excused')
  <2> HIDE DEF lost
  <2> QED BY <1>2
<1>10. \A g : Applying!Has(g)' = Applying!Has(g)
  BY <1>1 DEF Applying!Has
<1>11. \A v \in Writer : Safe(v)'
  <2>1. Safe(w)'
    BY <1>6, <1>7 DEF Safe, Threatens
  <2> SUFFICES ASSUME NEW v \in Writer, v # w PROVE Safe(v)'
    BY <2>1
  <2>2. run'[v] = run[v] /\ Safe(v) /\ excused \subseteq excused'
    BY <1>2, <1>7 DEF ApplyInv
  <2>3. ASSUME Threatens(v), NEW b \in backups, Applying!Of(b, v), b \notin backups'
        PROVE  b.has \subseteq excused'
    <3>1. b.stamp # 0 /\ b.stamp = run[v].stamp
      BY <2>3 DEF ApplyInv, ApplyType, Applying!Of
    <3>2. run[v].pc \in {"write", "rollback"}
      BY <2>3, <3>1 DEF ApplyInv, Threatens
    <3>3. Applying!InUse(b)
      BY <2>3, <3>2 DEF Applying!InUse
    <3> QED BY <1>9, <2>3, <3>3
  <2> QED BY <1>10, <2>2, <2>3, SafeStays
<1>12. \A v \in Writer : run'[v].stamp \in {0, run[v].stamp}
  BY <1>6, <1>7
<1>13. /\ \A b \in backups' : b.stamp <= stamps'
       /\ \A v \in Writer : run'[v].stamp <= stamps'
       /\ \A u, v \in Writer : run'[u].stamp = run'[v].stamp /\ run'[u].stamp # 0 => u = v
  BY <1>1, <1>12 DEF ApplyInv, ApplyType
<1>14. /\ \A v \in Writer : run'[v].pc = "idle" => run'[v].f = "entry"
       /\ \A v \in Writer : run'[v].pc \in {"idle", "backup"} \/ ~run'[v].existed => run'[v].stamp = 0
  <2>1. r.pc \in {"idle", "backup"} \/ ~r.existed => r.stamp = 0
    BY <1>6 DEF ApplyInv
  <2> QED BY <1>6, <1>7, <2>1 DEF ApplyInv
<1>15. Applying!Keeps
  <2> SUFFICES ASSUME NEW g \in Applying!File, NEW m \in Applying!OnDisk(g), m \notin excused'
               PROVE  m \in Applying!OnDisk(g)'
    BY DEF Applying!Keeps
  <2>1. CASE m \in Applying!Has(g)
    BY <1>10, <2>1 DEF Applying!OnDisk
  <2>2. CASE m \notin Applying!Has(g)
    <3>1. PICK b \in backups : b.f = g /\ m \in b.has
      BY <2>2 DEF Applying!OnDisk
    <3>2. b \in backups'
      BY <1>1, <1>9, <2>2, <3>1
    <3> QED BY <3>1, <3>2 DEF Applying!OnDisk
  <2> QED BY <2>1, <2>2
<1> QED BY <1>8, <1>11, <1>13, <1>14, <1>15 DEF ApplyInv

LEMMA StepKeepsApply ==
  ApplyInv /\ [Applying!Next]_applyVars => ApplyInv' /\ Applying!Keeps
<1> SUFFICES ASSUME ApplyInv, [Applying!Next]_applyVars PROVE ApplyInv' /\ Applying!Keeps
  OBVIOUS
<1>1. ASSUME NEW f \in Applying!File, NEW m \in Edit, Applying!UserEdits(f, m)
      PROVE  ApplyInv' /\ Applying!Keeps
  BY <1>1, UserKeepsApply
<1>2. ASSUME NEW w \in Writer,
             \/ Applying!Preview(w) \/ Applying!Check(w) \/ Applying!NoBackup(w)
             \/ Applying!WriteFails(w) \/ Applying!IndexPointer(w) \/ Applying!Stops(w)
      PROVE  ApplyInv' /\ Applying!Keeps
  <2>1. ApplyInv'
    BY <1>2, StartKeepsApply
  <2>2. UNCHANGED <<target, backups>>
    BY <1>2 DEF Applying!Preview, Applying!Check, Applying!NoBackup, Applying!WriteFails,
           Applying!IndexPointer, Applying!Stops
  <2> QED BY <2>1, <2>2 DEF Applying!Keeps, Applying!OnDisk, Applying!Has
<1>3. ASSUME NEW w \in Writer,
             \/ Applying!Backup(w) \/ Applying!Rename(w) \/ Applying!Rollback(w) \/ Applying!Prune(w)
      PROVE  ApplyInv' /\ Applying!Keeps
  BY <1>3, BackupKeepsApply, RenameKeepsApply, RollbackKeepsApply, PruneKeepsApply
<1>4. CASE UNCHANGED applyVars
  <2>1. \A w \in Writer : Safe(w)'
    <3> SUFFICES ASSUME NEW w \in Writer PROVE Safe(w)'
      OBVIOUS
    <3>1. Safe(w) /\ run'[w] = run[w] /\ excused' = excused /\ backups' = backups
      BY <1>4 DEF ApplyInv, applyVars
    <3>2. \A f : Applying!Has(f)' = Applying!Has(f)
      BY <1>4 DEF applyVars, Applying!Has
    <3> QED BY <3>1, <3>2, SafeStays
  <2>2. ApplyInv'
    BY <1>4, <2>1 DEF applyVars, ApplyInv, ApplyType
  <2>3. Applying!Keeps
    BY <1>4 DEF applyVars, Applying!Keeps, Applying!OnDisk, Applying!Has
  <2> QED BY <2>2, <2>3
<1> QED BY <1>1, <1>2, <1>3, <1>4 DEF Applying!Next

(* Nothing that was in a file the gated writer touches is lost by it: it is there or *)
(* in a backup, whatever the user and any number of appliers write meanwhile, unless  *)
(* it was put there while an applier stood between its backup and its rename or        *)
(* rollback, or the backups that had it became too many (applier.ts:256-345).          *)
THEOREM LosesNothing == Spec => Recoverable
<1> DEFINE Inv == part = "apply" => ApplyInv
<1>1. Init => Inv
  BY SuiteInit, InitApply
<1>2. Inv /\ [Next]_vars => Inv'
  BY SuiteStep, StepKeepsApply
<1>3. Inv /\ [Next]_vars => [part = "apply" => Applying!Keeps]_vars
  BY SuiteStep, StepKeepsApply
<1> QED BY <1>1, <1>2, <1>3, PTL DEF Spec, Recoverable
=============================================================================
