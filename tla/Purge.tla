-------------------------------- MODULE Purge --------------------------------
(***************************************************************************)
(* `abs uninstall --purge` (purgeStore in src/cli/cli.ts) beside processes   *)
(* that have the store open, or open it while its files are being deleted.  *)
(* The store is a database file, the write-ahead log of its last commits,    *)
(* and the daily backup (StoreOpen).  A file that is created anew is a new    *)
(* generation; who has the old one open keeps it.                           *)
(***************************************************************************)
EXTENDS Naturals, FiniteSets

CONSTANTS
  Row,     \* memories
  Proc,    \* processes that open the store
  MaxGen   \* bound: generations of the files

Gen == 1..MaxGen

VARIABLES
  disk,    \* the generations of the files that have the names, 0 for none
  content, \* of each generation: the rows in the file and those in its log
  bak,     \* the rows in the backup, which a purge leaves in place
  open,    \* what each process has open, 0 for nothing
  pc, targets,  \* the purge: its place, the files it has found and not deleted
  purged,  \* history: the rows there were at its first deletion
  seen     \* history: what each process found when it opened

vars == <<disk, content, bak, open, pc, targets, purged, seen>>
purge == <<pc, targets, purged>>

Empty == [db |-> {}, wal |-> {}]

Init ==
  /\ disk = [db |-> 0, wal |-> 0] /\ content = [g \in Gen |-> Empty] /\ bak = {}
  /\ open = [p \in Proc |-> 0] /\ pc = "idle" /\ targets = {} /\ purged = {}
  /\ seen = [p \in Proc |-> {}]

Created == {g \in Gen : g = disk.db \/ content[g] # Empty \/ \E p \in Proc : open[p] = g}
Newest == IF Created = {} THEN 0 ELSE CHOOSE g \in Created : \A h \in Created : h <= g

(*------------------------------ the processes ----------------------------*)

\* SQLite drops the log it finds beside a file that is not there.
Open(p) ==
  /\ open[p] = 0
  /\ LET g == IF disk.db # 0 THEN disk.db ELSE Newest + 1
     IN /\ g \in Gen /\ disk' = [db |-> g, wal |-> g] /\ open' = [open EXCEPT ![p] = g]
        /\ seen' = [seen EXCEPT ![p] = content[g].db \cup (IF disk.wal = g THEN content[g].wal ELSE {})]
  /\ UNCHANGED <<content, bak, purge>>

Remember(p, r) ==
  /\ open[p] # 0 /\ \A g \in Gen : r \notin content[g].db \cup content[g].wal
  /\ content' = [content EXCEPT ![open[p]].wal = @ \cup {r}]
  /\ UNCHANGED <<disk, bak, open, purge, seen>>

Checkpointed(g) == [content EXCEPT ![g] = [db |-> @.db \cup @.wal, wal |-> {}]]

\* openMemory's backup: a checkpoint, then a copy of what has the name.
Backup(p) ==
  /\ open[p] # 0 /\ disk.db # 0
  /\ content' = Checkpointed(open[p]) /\ bak' = content'[disk.db].db
  /\ UNCHANGED <<disk, open, purge, seen>>

\* The last to close a generation checkpoints it, and its log goes.
Close(p) ==
  /\ open[p] # 0 /\ open' = [open EXCEPT ![p] = 0]
  /\ LET last == \A q \in Proc \ {p} : open[q] # open[p]
     IN /\ content' = IF last THEN Checkpointed(open[p]) ELSE content
        /\ disk' = IF last /\ disk.wal = open[p] THEN [disk EXCEPT !.wal = 0] ELSE disk
  /\ UNCHANGED <<bak, purge, seen>>
Crash(p) ==
  /\ open[p] # 0 /\ open' = [open EXCEPT ![p] = 0]
  /\ UNCHANGED <<disk, content, bak, purge, seen>>

(*-------------------------------- the purge ------------------------------*)

\* The order in which the files go.
Order_LogFirst == [db |-> 2, wal |-> 1]   \* Mutant: the side files first
Order == [db |-> 1, wal |-> 2]

\* What exists, before the question is asked.
FindTargets ==
  /\ pc = "idle" /\ pc' = "asks"
  /\ targets' = {f \in {"db", "wal"} : disk[f] # 0}
  /\ UNCHANGED <<disk, content, bak, open, purged, seen>>

\* `--yes`, or y at the prompt; anything else keeps the store.
Answer ==
  /\ pc = "asks" /\ pc' \in {"kept", "first"}
  /\ UNCHANGED <<disk, content, bak, open, targets, purged, seen>>

Stored == UNION {content[g].db \cup content[g].wal : g \in {disk.db} \cap Gen}

\* rmSync of the next one, forced: it may be gone, or a new one by now.
Delete ==
  /\ pc \in {"first", "deletes"} /\ pc' = "deletes"
  /\ purged' = IF pc = "first" THEN Stored ELSE purged
  /\ \E f \in targets : /\ \A g \in targets : Order[f] <= Order[g]
                         /\ disk' = [disk EXCEPT ![f] = 0] /\ targets' = targets \ {f}
  /\ UNCHANGED <<content, bak, open, seen>>
Deleted ==
  /\ pc \in {"first", "deletes"} /\ targets = {} /\ pc' = "done"
  /\ UNCHANGED <<disk, content, bak, open, targets, purged, seen>>

\* The process of the purge ends before its last deletion.
Stops ==
  /\ pc \in {"asks", "first", "deletes"} /\ pc' = "stopped"
  /\ UNCHANGED <<disk, content, bak, open, targets, purged, seen>>

Next ==
  \/ \E p \in Proc : Open(p) \/ Backup(p) \/ Close(p) \/ Crash(p) \/ (\E r \in Row : Remember(p, r))
  \/ FindTargets \/ Answer \/ Delete \/ Deleted \/ Stops

Spec == Init /\ [][Next]_vars

(*------------------------------- properties ------------------------------*)

\* From the first deletion on, who opens the store finds nothing of what it
\* held, whichever process has the old files open, and wherever the purge stops.
FindsNothing == \A p \in Proc : open[p] = 0 /\ open'[p] # 0 => seen'[p] \cap purged = {}
PurgedStaysPurged == [][FindsNothing]_vars
=============================================================================
