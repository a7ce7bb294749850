------------------------------ MODULE StoreSuite ------------------------------
(***************************************************************************)
(* The components that keep files and share no state in this abstraction,    *)
(* side by side: each behaviour is one of a single component, which `part`     *)
(* names, and the variables of the others keep the value Off.                 *)
(***************************************************************************)
EXTENDS Naturals, FiniteSets

CONSTANTS
  Process, RowId, Key, MaxCommit,          \* StoreOpen
  Row, Proc, MaxGen,                       \* Purge
  Tab, Session, Project, NoRow,            \* Forget; Session and NoRow of Export, too
  MaxId, MaxHandle, MaxCache, MaxRestart,
  Exporter, MaxLine, MaxChange,            \* Export
  Server, Nobody,                          \* RebuildLock
  Writer, Edit, Pointer, Missing, MaxBackups, MaxStamp \* Applier

\* Ids are numbers, and no marker for "nothing" is a session, a server or a mark.
ASSUME IdAssumption == RowId \subseteq Nat /\ IsFiniteSet(RowId)
ASSUME MarkerAssumption == NoRow \notin Session /\ Nobody \notin Server /\ Missing \notin Writer \cup Edit \cup {Pointer}
ASSUME BoundAssumption == {MaxCommit, MaxGen, MaxId, MaxHandle, MaxCache, MaxRestart, MaxLine, MaxChange} \subseteq Nat

VARIABLES
  part,
  ledger, obs, vec, fts, log, file, damaged, bak, recent, procs,      \* StoreOpen
  disk, content, copy, open, pc, targets, purged, seen,               \* Purge
  rows, nextId, sessions, project, cache, handles, server, tab,       \* Forget
  lines, lastId, known, changes, tmp, out, exp, overlapped,           \* Export
  holder, fresh, srv, owns, overtaken,                                \* RebuildLock
  target, protected, backups, stamps, run, excused                    \* Applier

Opening == INSTANCE StoreOpen WITH Id <- RowId
Purging == INSTANCE Purge WITH bak <- copy
Forgetting == INSTANCE Forget
Exporting == INSTANCE Export WITH MaxId <- MaxLine, rows <- lines, nextId <- lastId, sessions <- known
Rebuilding == INSTANCE RebuildLock
Applying == INSTANCE Applier WITH file <- target, Absent <- Missing

Off == 0
OpeningOff ==
  /\ ledger = Off /\ obs = Off /\ vec = Off /\ fts = Off /\ log = Off /\ file = Off
  /\ damaged = Off /\ bak = Off /\ recent = Off /\ procs = Off
PurgingOff ==
  /\ disk = Off /\ content = Off /\ copy = Off /\ open = Off /\ pc = Off
  /\ targets = Off /\ purged = Off /\ seen = Off
ForgettingOff ==
  /\ rows = Off /\ nextId = Off /\ sessions = Off /\ project = Off
  /\ cache = Off /\ handles = Off /\ server = Off /\ tab = Off
ExportingOff ==
  /\ lines = Off /\ lastId = Off /\ known = Off /\ changes = Off
  /\ tmp = Off /\ out = Off /\ exp = Off /\ overlapped = Off
RebuildingOff ==
  holder = Off /\ fresh = Off /\ srv = Off /\ owns = Off /\ overtaken = Off
ApplyingOff ==
  target = Off /\ protected = Off /\ backups = Off /\ stamps = Off /\ run = Off /\ excused = Off

Init ==
  \/ part = "open" /\ Opening!Init /\ PurgingOff /\ ForgettingOff /\ ExportingOff /\ RebuildingOff /\ ApplyingOff
  \/ part = "purge" /\ Purging!Init /\ OpeningOff /\ ForgettingOff /\ ExportingOff /\ RebuildingOff /\ ApplyingOff
  \/ part = "forget" /\ Forgetting!Init /\ OpeningOff /\ PurgingOff /\ ExportingOff /\ RebuildingOff /\ ApplyingOff
  \/ part = "export" /\ Exporting!Init /\ OpeningOff /\ PurgingOff /\ ForgettingOff /\ RebuildingOff /\ ApplyingOff
  \/ part = "rebuild" /\ Rebuilding!Init /\ OpeningOff /\ PurgingOff /\ ForgettingOff /\ ExportingOff /\ ApplyingOff
  \/ part = "apply" /\ Applying!Init /\ OpeningOff /\ PurgingOff /\ ForgettingOff /\ ExportingOff /\ RebuildingOff

openVars == <<ledger, obs, vec, fts, log, file, damaged, bak, recent, procs>>
purgeVars == <<disk, content, copy, open, pc, targets, purged, seen>>
forgetVars == <<rows, nextId, sessions, project, cache, handles, server, tab>>
exportVars == <<lines, lastId, known, changes, tmp, out, exp, overlapped>>
rebuildVars == <<holder, fresh, srv, owns, overtaken>>
applyVars == <<target, protected, backups, stamps, run, excused>>
vars == <<part, openVars, purgeVars, forgetVars, exportVars, rebuildVars, applyVars>>

Open ==
  /\ part = "open" /\ Opening!Next
  /\ UNCHANGED <<part, purgeVars, forgetVars, exportVars, rebuildVars, applyVars>>
Purge ==
  /\ part = "purge" /\ Purging!Next
  /\ UNCHANGED <<part, openVars, forgetVars, exportVars, rebuildVars, applyVars>>
Forget ==
  /\ part = "forget" /\ Forgetting!Next
  /\ UNCHANGED <<part, openVars, purgeVars, exportVars, rebuildVars, applyVars>>
Export ==
  /\ part = "export" /\ Exporting!Next
  /\ UNCHANGED <<part, openVars, purgeVars, forgetVars, rebuildVars, applyVars>>
Rebuild ==
  /\ part = "rebuild" /\ Rebuilding!Next
  /\ UNCHANGED <<part, openVars, purgeVars, forgetVars, exportVars, applyVars>>

Apply ==
  /\ part = "apply" /\ Applying!Next
  /\ UNCHANGED <<part, openVars, purgeVars, forgetVars, exportVars, rebuildVars>>

Next == Open \/ Purge \/ Forget \/ Export \/ Rebuild \/ Apply

Spec == Init /\ [][Next]_vars

\* StoreOpen: what the daily backup holds restores, and it is of one commit.
BackupRestores == part = "open" => Opening!BackupRestores
\* StoreOpen: no migration is applied twice, and none loses a row it should keep.
MigratedOnce == part = "open" => Opening!MigratedOnce
\* Purge: who opens the store after a purge began finds nothing of before.
PurgedStaysPurged == [][part = "purge" => Purging!FindsNothing]_vars
\* Forget: after a confirmed delete nothing is left of what its page showed.
AllShownGone == part = "forget" => Forgetting!AllShownGone
\* Forget: a delete takes no row that the page which confirmed it did not show.
OnlyShown == [][part = "forget" => Forgetting!TakesOnlyShown]_vars
\* Export: the file at the artifact's name is one the importer takes.
ArtifactImportable == part = "export" => Exporting!ArtifactImportable
\* RebuildLock: who rebuilds is seen by the hooks that must defer to it.
Announced == part = "rebuild" => Rebuilding!Announced
\* Applier: what was in a file is in it or in a backup of it.
Recoverable == [][part = "apply" => Applying!Keeps]_vars
=============================================================================
