------------------------------- MODULE Export -------------------------------
(***************************************************************************)
(* Export of the store to an artifact (src/export/index.ts), while other      *)
(* processes write: the counts, the sessions and the rows are read one after   *)
(* the other, the artifact is written to `<out>.tmp` line by line, reconciled  *)
(* with the counts and renamed to its name.  The rows are walked by one open    *)
(* statement, which sees the store as it was when the walk began.              *)
(*                                                                         *)
(* An exporter writes to the file it opened, whatever name that has by then.   *)
(* How far a file is written is all that is kept of its lines.                 *)
(***************************************************************************)
EXTENDS Naturals, FiniteSets

CONSTANTS
  Exporter,   \* the processes that export, all to the same path
  Session,    \* the session ids
  MaxId,      \* bound: observation ids run from 1 to MaxId
  MaxChange,  \* bound: changes to the store
  NoRow       \* there is no such row

Id == 1 .. MaxId

VARIABLES
  rows,      \* the session of each observation, or NoRow
  nextId,    \* AUTOINCREMENT
  sessions,  \* the sessions that exist
  changes,   \* changes to the store
  tmp, out,  \* the files `<out>.tmp` and `<out>`
  exp,       \* what each exporter is doing
  overlapped \* history: an export has opened the file of another that was running

storeVars == <<rows, nextId, sessions, changes>>
vars == <<rows, nextId, sessions, changes, tmp, out, exp, overlapped>>

(* lines: how far it is written; declared: the header's count of observations; *)
(* rows: what it is to hold; mixed: two exporters have it open.                *)
File == [lines : {"none", "header", "all"}, declared : 0 .. MaxId, rows : SUBSET Id,
         mixed : BOOLEAN]
Absent == [lines |-> "none", declared |-> 0, rows |-> {}, mixed |-> FALSE]

Export == [pc : {"idle", "counted", "listed", "planned", "open", "walked"},
           count : 0 .. MaxId, sessionCount : 0 .. Cardinality(Session), list : SUBSET Session,
           writable : 0 .. MaxId, walk : SUBSET Id, dangling : 0 .. MaxId, fd : {"none", "tmp", "out", "gone"}]
Idle == [pc |-> "idle", count |-> 0, sessionCount |-> 0, list |-> {}, writable |-> 0,
         walk |-> {}, dangling |-> 0, fd |-> "none"]

Init ==
  /\ rows = [i \in Id |-> NoRow] /\ nextId = 1 /\ sessions = {}
  /\ tmp = Absent /\ out = Absent /\ changes = 0
  /\ exp = [e \in Exporter |-> Idle]
  /\ overlapped = FALSE

Live == {i \in Id : rows[i] # NoRow}
Change == changes < MaxChange /\ changes' = changes + 1

---------------------------------------------------------------------------
(* Other processes *)

Insert(s) ==
  /\ Change /\ nextId <= MaxId
  /\ rows' = [rows EXCEPT ![nextId] = s] /\ nextId' = nextId + 1
  /\ sessions' = sessions \cup {s}
  /\ UNCHANGED <<tmp, out, exp, overlapped>>

Delete(i) ==
  /\ Change /\ i \in Live /\ rows' = [rows EXCEPT ![i] = NoRow]
  /\ UNCHANGED <<nextId, sessions, tmp, out, exp, overlapped>>

Promote(i, s) ==   \* to the global session, which may be new
  /\ Change /\ i \in Live /\ rows[i] # s
  /\ rows' = [rows EXCEPT ![i] = s] /\ sessions' = sessions \cup {s}
  /\ UNCHANGED <<nextId, tmp, out, exp, overlapped>>

DeleteSession(s) ==
  /\ Change /\ s \in sessions /\ sessions' = sessions \ {s}
  /\ rows' = [i \in Id |-> IF rows[i] = s THEN NoRow ELSE rows[i]]
  /\ UNCHANGED <<nextId, tmp, out, exp, overlapped>>

---------------------------------------------------------------------------
(* exportStore *)

Counts(e) ==
  /\ exp[e].pc = "idle"
  /\ exp' = [exp EXCEPT ![e] = [Idle EXCEPT !.pc = "counted", !.count = Cardinality(Live),
                                  !.sessionCount = Cardinality(sessions)]]
  /\ UNCHANGED <<storeVars, tmp, out, overlapped>>

ListSessions(e) ==
  /\ exp[e].pc = "counted"
  /\ exp' = [exp EXCEPT ![e].pc = "listed", ![e].list = sessions]
  /\ UNCHANGED <<storeVars, tmp, out, overlapped>>

Writable(e) == {i \in Live : rows[i] \in exp[e].list}

CountWritable(e) ==
  /\ exp[e].pc = "listed"
  /\ exp' = [exp EXCEPT ![e].pc = "planned", ![e].writable = Cardinality(Writable(e))]
  /\ UNCHANGED <<storeVars, tmp, out, overlapped>>

(* createWriteStream truncates the file, or creates one; then the header. *)
OpenTmp(e) ==
  /\ exp[e].pc = "planned"
  /\ LET shared == \E f \in Exporter \ {e} : exp[f].fd = "tmp" IN
       /\ tmp' = [lines |-> "header", declared |-> exp[e].writable, rows |-> {}, mixed |-> shared]
       /\ overlapped' = (overlapped \/ shared)
  /\ exp' = [exp EXCEPT ![e].pc = "open", ![e].fd = "tmp"]
  /\ UNCHANGED <<storeVars, out>>

(* The walk, to its end: every row of a listed session, as of one instant. *)
Walk(e) ==
  LET written(f) == [f EXCEPT !.lines = "all", !.rows = Writable(e)] IN
  /\ exp[e].pc = "open"
  /\ exp' = [exp EXCEPT ![e].pc = "walked", ![e].walk = Writable(e),
                        ![e].dangling = Cardinality(Live \ Writable(e))]
  /\ tmp' = IF exp[e].fd = "tmp" THEN written(tmp) ELSE tmp
  /\ out' = IF exp[e].fd = "out" THEN written(out) ELSE out
  /\ UNCHANGED <<storeVars, overlapped>>

(* Mutant: what is seen is not reconciled with what was counted. *)
Reconciled_Skipped(x) == TRUE

Reconciled(x) ==
  /\ Cardinality(x.list) = x.sessionCount
  /\ Cardinality(x.walk) = x.writable
  /\ Cardinality(x.walk) + x.dangling = x.count

(* e is done; the files that others have open get another name, or none. *)
Ends(e, renamed) ==
  /\ exp' = [f \in Exporter |->
               IF f = e THEN Idle
               ELSE [exp[f] EXCEPT !.fd = IF @ \in DOMAIN renamed THEN renamed[@] ELSE @]]
  /\ UNCHANGED <<storeVars, overlapped>>

(* Reconciled, the file gets its name, if it still has the other one. *)
Publish(e) ==
  /\ exp[e].pc = "walked" /\ Reconciled(exp[e]) /\ tmp # Absent
  /\ out' = tmp /\ tmp' = Absent
  /\ Ends(e, [tmp |-> "out", out |-> "gone"])

(* Mutant: the artifact is written to its name, not to the temporary one. *)
Fail_Published(e) ==
  /\ exp[e].pc \in {"open", "walked"}
  /\ tmp' = Absent /\ out' = tmp
  /\ Ends(e, [tmp |-> "gone"])

(* A write error, or counts that do not agree: the temporary file is removed. *)
Fail(e) ==
  /\ exp[e].pc \in {"open", "walked"}
  /\ tmp' = Absent /\ UNCHANGED out
  /\ Ends(e, [tmp |-> "gone"])

Killed(e) ==
  /\ exp[e].pc # "idle"
  /\ exp' = [exp EXCEPT ![e] = Idle]
  /\ UNCHANGED <<storeVars, tmp, out, overlapped>>

Next ==
  \/ \E s \in Session : Insert(s) \/ DeleteSession(s) \/ \E i \in Id : Promote(i, s)
  \/ \E i \in Id : Delete(i)
  \/ \E e \in Exporter : \/ Counts(e) \/ ListSessions(e) \/ CountWritable(e) \/ OpenTmp(e)
                         \/ Walk(e) \/ Publish(e) \/ Fail(e) \/ Killed(e)

Spec == Init /\ [][Next]_vars

---------------------------------------------------------------------------
(* importStore's first phase accepts the file: whole lines, and as many as the  *)
(* header declares.                                                          *)
Importable(f) == f.lines = "all" /\ ~f.mixed /\ Cardinality(f.rows) >= f.declared

(* Whatever dies, fails or is written meanwhile, the artifact at its name is one *)
(* that the importer takes: the last one that succeeded (export/index.ts:182),   *)
(* as long as two exports do not share the temporary file.                       *)
ArtifactImportable == overlapped \/ out = Absent \/ Importable(out)
=============================================================================
