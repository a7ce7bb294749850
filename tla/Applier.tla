------------------------------- MODULE Applier -------------------------------
(***************************************************************************)
(* The gated writer of the project's files (src/optimize/applier.ts,          *)
(* targets.ts): an approved candidate is written to its target by a temporary   *)
(* file and a rename, after a backup of what is there, and then MEMORY.md gets  *)
(* a pointer to it, in the same way.  The user's editor and other appliers       *)
(* write to the same files between any two of these awaits.                      *)
(*                                                                         *)
(* A file is the set of the marks in it: edits of the user, texts of candidates   *)
(* and the pointer.  Removals by the user are left out: a mark that is missing     *)
(* was lost by the program.                                                     *)
(***************************************************************************)
EXTENDS Naturals, FiniteSets

CONSTANTS
  Writer,      \* the processes that apply; each adds a mark of its own name
  Edit,        \* what the user may add
  Pointer,     \* the line of MEMORY.md that points to the entry
  Absent,      \* there is no such file
  MaxBackups,  \* MAX_BACKUPS_PER_FILE
  MaxStamp     \* bound: backups ever made

File == {"entry", "index"}
Mark == Writer \cup Edit \cup {Pointer}
Content == SUBSET Mark
NoFile == {Absent}

VARIABLES
  file,      \* what each file holds
  protected, \* the entry's frontmatter has a protected type
  backups,   \* [f, stamp, has]: the backups on disk
  stamps,    \* backups ever made
  run,       \* what each writer is doing
  excused    \* history: marks put into a file when no backup could have them, and marks
             \* pruned with an old backup

vars == <<file, protected, backups, stamps, run, excused>>

(* shown: what the diff was rendered against; base: what was read; existed;       *)
(* stamp: its backup, or 0.                                                     *)
Run == [pc : {"idle", "backup", "write", "rollback", "prune", "index"}, f : File,
        shown : Content \cup {NoFile}, replace : BOOLEAN, base : Content, existed : BOOLEAN,
        stamp : 0 .. MaxStamp]
Idle == [pc |-> "idle", f |-> "entry", shown |-> NoFile, replace |-> FALSE, base |-> {},
         existed |-> FALSE, stamp |-> 0]

Init ==
  /\ file = [f \in File |-> NoFile] /\ protected \in BOOLEAN
  /\ backups = {} /\ stamps = 0 /\ run = [w \in Writer |-> Idle] /\ excused = {}

Has(f) == file[f] \ NoFile

(* What is put into f now is in no backup of the writers that have theirs, or    *)
(* that make none.                                                             *)
AtRisk(f, writers) ==
  \E w \in writers : /\ run[w].f = f
                     /\ \/ run[w].pc \in {"write", "rollback"}
                        \/ run[w].pc = "backup" /\ ~run[w].existed

\* History: the marks that this puts into f, if they are at risk.
Put(f, content, writers) ==
  IF AtRisk(f, writers) THEN content \ (Has(f) \cup NoFile) ELSE {}

OnDisk(f) == Has(f) \cup UNION {b.has : b \in {c \in backups : c.f = f}}

---------------------------------------------------------------------------
(* The user *)

UserEdits(f, m) ==
  /\ \A g \in File : m \notin Has(g)
  /\ m \notin excused /\ \A b \in backups : m \notin b.has
  /\ file' = [file EXCEPT ![f] = Has(f) \cup {m}]
  /\ excused' = excused \cup Put(f, {m}, Writer)
  /\ UNCHANGED <<protected, backups, stamps, run>>

---------------------------------------------------------------------------
(* apply() *)

(* The diff is rendered against what the file holds. *)
Preview(w) ==
  /\ run[w].pc = "idle" /\ w \notin excused \cup Has("entry")
  /\ \A b \in backups : w \notin b.has
  /\ \E replace \in BOOLEAN :
       run' = [run EXCEPT ![w] = [Idle EXCEPT !.shown = file["entry"], !.replace = replace]]
  /\ UNCHANGED <<file, protected, backups, stamps, excused>>

(* Its checks: not over a protected entry, and only over what the diff showed.    *)
Check(w) ==
  /\ run[w].pc = "idle" /\ w \notin Has("entry")
  /\ ~(protected /\ file["entry"] # NoFile)
  /\ Has("entry") = run[w].shown \ NoFile
  /\ run' = [run EXCEPT ![w] = [@ EXCEPT !.pc = "backup", !.base = Has("entry"),
                                  !.existed = file["entry"] # NoFile]]
  /\ UNCHANGED <<file, protected, backups, stamps, excused>>

Text(w) == IF run[w].f = "entry" THEN w ELSE Pointer
NextContent(w) == IF run[w].replace THEN {Text(w)} ELSE run[w].base \cup {Text(w)}

(* Mutant: the backup holds what was read. *)
Backup_OfBase(w) ==
  /\ run[w].pc = "backup" /\ run[w].existed /\ stamps < MaxStamp
  /\ stamps' = stamps + 1
  /\ backups' = backups \cup {[f |-> run[w].f, stamp |-> stamps', has |-> run[w].base]}
  /\ run' = [run EXCEPT ![w].pc = "write", ![w].stamp = stamps']
  /\ UNCHANGED <<file, protected, excused>>

(* The backup is a copy of the file as it is now. *)
Backup(w) ==
  /\ run[w].pc = "backup" /\ run[w].existed /\ file[run[w].f] # NoFile
  /\ stamps < MaxStamp /\ stamps' = stamps + 1
  /\ backups' = backups \cup {[f |-> run[w].f, stamp |-> stamps', has |-> file[run[w].f]]}
  /\ run' = [run EXCEPT ![w].pc = "write", ![w].stamp = stamps']
  /\ UNCHANGED <<file, protected, excused>>

NoBackup(w) ==
  /\ run[w].pc = "backup" /\ ~run[w].existed
  /\ run' = [run EXCEPT ![w].pc = "write"]
  /\ UNCHANGED <<file, protected, backups, stamps, excused>>

(* The temporary file is written and renamed over the target. *)
Rename(w) ==
  LET f == run[w].f IN
  /\ run[w].pc = "write"
  /\ file' = [file EXCEPT ![f] = NextContent(w)]
  /\ run' = [run EXCEPT ![w].pc = "prune"]
  /\ excused' = excused \cup Put(f, NextContent(w), Writer \ {w})
  /\ UNCHANGED <<protected, backups, stamps>>

(* b is the backup of w; its writer is still at work. *)
Of(b, w) == b.f = run[w].f /\ b.stamp = run[w].stamp
InUse(b) == \E w \in Writer : run[w].pc \in {"write", "rollback"} /\ Of(b, w)

WriteFails(w) ==
  /\ run[w].pc = "write" /\ run' = [run EXCEPT ![w].pc = "rollback"]
  /\ UNCHANGED <<file, protected, backups, stamps, excused>>

(* The backup is copied back and removed; a file that did not exist is removed,    *)
(* whoever has made it since.                                                    *)
Rollback(w) ==
  LET f == run[w].f
      own == {b \in backups : Of(b, w)}
      restored == IF ~run[w].existed THEN NoFile
                  ELSE IF own # {} THEN UNION {b.has : b \in own} ELSE run[w].base IN
  /\ run[w].pc = "rollback"
  /\ file' = [file EXCEPT ![f] = restored]
  /\ backups' = backups \ own
  /\ run' = [run EXCEPT ![w] = Idle]
  /\ excused' = excused \cup Put(f, restored, Writer \ {w})
  /\ UNCHANGED <<protected, stamps>>

(* All but the newest backups of the file go; then the pointer. *)
Prune(w) ==
  LET f == run[w].f
      of == {b \in backups : b.f = f}
      old == {b \in of : Cardinality({c \in of : c.stamp > b.stamp}) >= MaxBackups} IN
  /\ run[w].pc = "prune"
  /\ backups' = IF run[w].existed THEN backups \ old ELSE backups
  /\ excused' = excused \cup
       UNION {IF InUse(b) THEN b.has ELSE b.has \ Has(f) : b \in backups \ backups'}
  /\ run' = [run EXCEPT ![w] = IF f = "entry" THEN [@ EXCEPT !.pc = "index"] ELSE Idle]
  /\ UNCHANGED <<file, protected, stamps>>

(* applyIndexPointer *)
IndexPointer(w) ==
  /\ run[w].pc = "index"
  /\ run' = [run EXCEPT ![w] =
       IF Pointer \in Has("index") THEN Idle
       ELSE [Idle EXCEPT !.pc = "backup", !.f = "index", !.base = Has("index"),
                         !.existed = file["index"] # NoFile]]
  /\ UNCHANGED <<file, protected, backups, stamps, excused>>

(* A failed copy, which throws before the rollback, or the end of the process. *)
Stops(w) ==
  /\ run[w].pc # "idle" /\ run' = [run EXCEPT ![w] = Idle]
  /\ UNCHANGED <<file, protected, backups, stamps, excused>>

Next ==
  \/ \E f \in File, m \in Edit : UserEdits(f, m)
  \/ \E w \in Writer :
       \/ Preview(w) \/ Check(w) \/ Backup(w) \/ NoBackup(w) \/ Rename(w) \/ WriteFails(w)
       \/ Rollback(w) \/ Prune(w) \/ IndexPointer(w) \/ Stops(w)

Spec == Init /\ [][Next]_vars

---------------------------------------------------------------------------
(* Nothing that was in a file is lost: it is still there or in a backup, unless   *)
(* the backups that had it became too old, or it was put there, by an edit, a       *)
(* rename or a rollback, after the backup of another writer was made and before     *)
(* that one's rename or rollback ended.  An approved replacement is no exception.    *)
(* So an edit made after the content check, which the rename overwrites, is in     *)
(* the backup as long as it came before the copy (applier.ts:277).                *)
Keeps == \A f \in File : OnDisk(f) \ excused' \subseteq OnDisk(f)'
Recoverable == [][Keeps]_vars
=============================================================================
