------------------------------ MODULE Consolidate ------------------------------
(***************************************************************************)
(* Consolidation of a session into lessons (src/consolidate/consolidate.ts, *)
(* distill.ts), by the cadences of src/maintain/run.ts, which exclude each  *)
(* other as ExclusiveRun says, and by `abs consolidate`, which takes no     *)
(* lock.                                                                    *)
(*                                                                         *)
(* A run picks a session, notes the lessons it already has, awaits the LLM, *)
(* writes the new lessons one by one, and, when forced, deletes the old     *)
(* ones; if a write fails it deletes the ones it wrote.  Every write and    *)
(* every delete is a transaction of its own.                                *)
(*                                                                         *)
(* Abstractions.  Of the observations, the lessons (source `consolidate`)   *)
(* are rows here; of the others only which sessions have some (turns).      *)
(* A session that has turns keeps some.                                     *)
(* Which session is the newest is left open: the timestamps are those of    *)
(* the transcripts.  Global is the session `__global__`.                    *)
(***************************************************************************)
EXTENDS Naturals, FiniteSets

CONSTANTS
  Process,     \* the processes that consolidate
  Content,     \* what lessons may say
  MaxSession,  \* bound: session ids run from 1 (Global) to MaxSession
  MaxId,       \* bound: observation ids of lessons run from 1 to MaxId
  Numbers,     \* bound: the numbers that sessions have in artifacts
  Promotable,  \* bound: the lessons that may be promoted
  NoRow        \* there is no such row

Session == 1 .. MaxSession
Id == 1 .. MaxId
Global == 1

(* at: session_id; from: metadata.sourceSession; born, content: what           *)
(* content_hash was computed from, when the row was created.                   *)
Row == [at : Session, from : Session, born : Session, content : Content]

ASSUME ConsolidateAssumption ==
  /\ MaxSession \in Nat \ {0}
  /\ MaxId \in Nat
  /\ Numbers \subseteq Session
  /\ Promotable \subseteq Id
  /\ NoRow \notin Row

VARIABLES
  rows,      \* the lessons, by observation id
  nextId,    \* AUTOINCREMENT of observations
  turns,     \* the sessions that have observations other than lessons
  sessions,  \* the sessions that exist
  nextSession, \* AUTOINCREMENT of sessions
  renumbered, \* history: the sessions of whose numbers an artifact had another idea
  running, broken, \* the cadence lock, as ExclusiveRun has it: running are the cadences
  run        \* what each process is doing

storeVars == <<rows, nextId, turns, sessions, nextSession, renumbered>>
lockVars == <<running, broken>>
vars == <<rows, nextId, turns, sessions, nextSession, renumbered, running, broken, run>>

Lock == INSTANCE ExclusiveRun WITH Proc <- Process

(* prior: the lessons found at the start; todo: those still to be written;     *)
(* written: the ids the writes returned; left: the rows still to be deleted.   *)
(* met: history, who else has changed the session's lessons meanwhile: nobody, *)
(* only cadences (of a cadence), or any run, forget, deletion or import.        *)
RunState ==
  [pc : {"idle", "llm", "write", "rollback", "replace"}, session : Session,
   force : BOOLEAN, prior : SUBSET Id, todo : SUBSET Content, written : SUBSET Id,
   left : SUBSET Id, met : {"nobody", "cadence", "any"}]

Idle == [pc |-> "idle", session |-> Global, force |-> FALSE, prior |-> {}, todo |-> {},
         written |-> {}, left |-> {}, met |-> "nobody"]

TypeOK ==
  /\ rows \in [Id -> Row \cup {NoRow}]
  /\ nextId \in 1 .. MaxId + 1
  /\ nextSession \in 1 .. MaxSession + 1
  /\ turns \subseteq sessions /\ sessions \subseteq Session
  /\ renumbered \subseteq Session
  /\ running \subseteq Process /\ broken \in BOOLEAN
  /\ run \in [Process -> RunState]

Lessons == {i \in Id : rows[i] # NoRow}
priorConsolidation(s) == {i \in Lessons : rows[i].from = s}

OnSession(s) == {p \in Process : run[p].pc # "idle" /\ run[p].session = s}

(* What p has met, once the processes Q have worked on its session. *)
Meets(p, met, Q) ==
  CASE Q = {} \/ met = "any" -> met
    [] Q # {} /\ met # "any" /\ {p} \cup Q \subseteq running' -> "cadence"
    [] OTHER -> "any"

Init ==
  /\ rows = [i \in Id |-> NoRow] /\ nextId = 1
  /\ sessions = {Global} /\ turns = {} /\ nextSession = Global + 1
  /\ renumbered = {}
  /\ Lock!Init
  /\ run = [p \in Process |-> Idle]

---------------------------------------------------------------------------
(* consolidate() *)

(* Mutant: a cadence goes on without the lock. *)
Enter_Unlocked(p, force) ==
  \/ ~force /\ running' = running \cup {p} /\ UNCHANGED broken
  \/ UNCHANGED lockVars

(* A cadence runs under its lock and never forces; `abs consolidate` takes none. *)
Enter(p, force) ==
  \/ ~force /\ Lock!Begin(p)
  \/ UNCHANGED lockVars

Leave(p) == IF p \in running THEN Lock!End(p) ELSE UNCHANGED lockVars

(* resolveSession and the idempotency check: a session without lessons, or, on *)
(* demand, any; one without turns is skipped.                                  *)
Begin(p) ==
  /\ run[p].pc = "idle"
  /\ \E s \in turns, force \in BOOLEAN :
       /\ priorConsolidation(s) # {} => force
       /\ Enter(p, force)
       /\ run' = [q \in Process |->
                    IF q = p
                    THEN [Idle EXCEPT !.pc = "llm", !.session = s, !.force = force,
                                      !.prior = priorConsolidation(s),
                                      !.met = Meets(p, "nobody", OnSession(s))]
                    ELSE IF q \in OnSession(s)
                    THEN [run[q] EXCEPT !.met = Meets(q, @, {p})]
                    ELSE run[q]]
  /\ UNCHANGED storeVars

(* The LLM's answer, parsed: one lesson at least (parseLessons throws on none). *)
Distilled(p) ==
  /\ run[p].pc = "llm"
  /\ \E lessons \in SUBSET Content \ {{}} :
       run' = [run EXCEPT ![p].pc = "write", ![p].todo = lessons]
  /\ UNCHANGED <<storeVars, lockVars>>

(* The run is over: consolidate() returns or throws. *)
Finish(p) ==
  /\ run' = [run EXCEPT ![p] = Idle]
  /\ Leave(p)

(* A dry run, an LLM error, or an answer that does not parse. *)
NothingToWrite(p) ==
  /\ run[p].pc = "llm"
  /\ Finish(p)
  /\ UNCHANGED storeVars

(* createObservation: the row of this session and content, whoever wrote it,   *)
(* or a new one.                                                               *)
Same(s, c) == {i \in Lessons : rows[i].born = s /\ rows[i].content = c}

Insert(i, row) ==
  \/ /\ i \in Same(row.born, row.content)
     /\ UNCHANGED <<rows, nextId>>
  \/ /\ Same(row.born, row.content) = {}
     /\ i = nextId /\ nextId \in Id
     /\ rows' = [rows EXCEPT ![i] = row]
     /\ nextId' = nextId + 1

Lesson(s, c) == [at |-> s, from |-> s, born |-> s, content |-> c]

(* writeLesson: fails unless the session still exists. *)
writeLesson(p) ==
  /\ run[p].pc = "write" /\ run[p].todo # {}
  /\ run[p].session \in sessions
  /\ \E c \in run[p].todo, i \in Id :
       /\ Insert(i, Lesson(run[p].session, c))
       /\ run' = [run EXCEPT ![p].todo = @ \ {c}, ![p].written = @ \cup {i}]
  /\ UNCHANGED <<turns, sessions, nextSession, renumbered, lockVars>>

(* Mutant: a forced run deletes all the lessons it found. *)
AllWritten_DropsReused(p) ==
  /\ run[p].pc = "write" /\ run[p].todo = {}
  /\ \/ /\ run[p].force
        /\ run' = [run EXCEPT ![p].pc = "replace", ![p].left = run[p].prior]
        /\ UNCHANGED lockVars
     \/ /\ ~run[p].force
        /\ Finish(p)
  /\ UNCHANGED storeVars

(* All lessons are written: a forced run goes on to the old ones, except those *)
(* its writes have found in place.                                             *)
AllWritten(p) ==
  /\ run[p].pc = "write" /\ run[p].todo = {}
  /\ \/ /\ run[p].force
        /\ run' = [run EXCEPT ![p].pc = "replace", ![p].left = run[p].prior \ run[p].written]
        /\ UNCHANGED lockVars
     \/ /\ ~run[p].force
        /\ Finish(p)
  /\ UNCHANGED storeVars

(* Mutant: the rollback deletes the old lessons that the writes found in place. *)
WriteThrows_AllWritten(p) ==
  /\ run[p].pc = "write" /\ run[p].todo # {}
  /\ run' = [run EXCEPT ![p].pc = "rollback", ![p].left = run[p].written]
  /\ UNCHANGED <<storeVars, lockVars>>

(* A write throws: roll back what this run has written. *)
WriteThrows(p) ==
  /\ run[p].pc = "write" /\ run[p].todo # {}
  /\ run' = [run EXCEPT ![p].pc = "rollback", ![p].left = run[p].written \ run[p].prior]
  /\ UNCHANGED <<storeVars, lockVars>>

(* deleteObservation *)
DeleteNext(p) ==
  /\ run[p].pc \in {"rollback", "replace"}
  /\ \E i \in run[p].left :
       /\ rows' = [rows EXCEPT ![i] = NoRow]
       /\ run' = [run EXCEPT ![p].left = @ \ {i}]
  /\ UNCHANGED <<nextId, turns, sessions, nextSession, renumbered, lockVars>>

AllDeleted(p) ==
  /\ run[p].pc \in {"rollback", "replace"} /\ run[p].left = {}
  /\ Finish(p)
  /\ UNCHANGED storeVars

(* The process is killed, or a delete throws. *)
Killed(p) ==
  /\ run[p].pc # "idle"
  /\ Finish(p)
  /\ UNCHANGED storeVars

---------------------------------------------------------------------------
(* The rest of the program *)

(* Somebody changes the lessons of the sessions that the processes S work on. *)
Touch(S) ==
  run' = [p \in Process |-> IF run[p].pc # "idle" /\ p \in S
                            THEN [run[p] EXCEPT !.met = "any"] ELSE run[p]]

(* Ingest, remember, promote: turns of a session that exists or is new. *)
Ingest ==
  /\ \/ /\ \E s \in sessions : turns' = turns \cup {s}
        /\ UNCHANGED <<sessions, nextSession>>
     \/ /\ nextSession \in Session
        /\ sessions' = sessions \cup {nextSession}
        /\ turns' = turns \cup {nextSession}
        /\ nextSession' = nextSession + 1
  /\ UNCHANGED <<rows, nextId, renumbered, lockVars, run>>

(* forget: one lesson. *)
Forget ==
  /\ \E i \in Lessons :
       /\ rows' = [rows EXCEPT ![i] = NoRow]
       /\ Touch({p \in Process : run[p].session = rows[i].from})
  /\ UNCHANGED <<nextId, turns, sessions, nextSession, renumbered, lockVars>>

(* deleteSession: its rows cascade. *)
DeleteSession ==
  /\ \E s \in sessions \ {Global} :
       /\ sessions' = sessions \ {s}
       /\ turns' = turns \ {s}
       /\ rows' = [i \in Id |-> IF i \in Lessons /\ rows[i].at = s THEN NoRow ELSE rows[i]]
       /\ Touch({p \in Process :
                   \/ run[p].session = s
                   \/ \E i \in Lessons : rows[i].at = s /\ run[p].session = rows[i].from})
  /\ UNCHANGED <<nextId, nextSession, renumbered, lockVars>>

(* promote without `as`: a lesson moves to the global session. *)
Promote ==
  /\ \E i \in Lessons \cap Promotable : rows' = [rows EXCEPT ![i].at = Global]
  /\ UNCHANGED <<nextId, turns, sessions, nextSession, renumbered, lockVars, run>>

(* importStore, of one lesson: its session is found by its external id or       *)
(* created, with a number of its own; its metadata still has the number the     *)
(* session had in the store that wrote the artifact.  In the replace mode       *)
(* deletions of the other sessions come first.                                  *)
Import ==
  /\ \E s \in sessions \cup ({nextSession} \cap Session), n \in Numbers, c \in Content :
       /\ \E i \in Id : Insert(i, [Lesson(s, c) EXCEPT !.from = n])
       /\ sessions' = sessions \cup {s}
       /\ nextSession' = IF s = nextSession THEN nextSession + 1 ELSE nextSession
       /\ renumbered' = IF s = n THEN renumbered ELSE renumbered \cup {s, n}
       /\ Touch({p \in Process : run[p].session \in {s, n}})
  /\ UNCHANGED <<turns, lockVars>>

(* A frozen cadence loses its lock to a live one. *)
StealLock ==
  /\ Lock!Break
  /\ UNCHANGED <<storeVars, run>>

Next ==
  \/ \E p \in Process :
       \/ Begin(p) \/ Distilled(p) \/ NothingToWrite(p)
       \/ writeLesson(p) \/ AllWritten(p) \/ WriteThrows(p)
       \/ DeleteNext(p) \/ AllDeleted(p) \/ Killed(p)
  \/ Ingest \/ Forget \/ DeleteSession \/ Promote \/ Import
  \/ StealLock

Spec == Init /\ [][Next]_vars

---------------------------------------------------------------------------
(* Properties *)

(* Nobody but the run p has changed its session's lessons: no manual run worked *)
(* on the session, no other cadence unless the lock was stolen, and no forget,   *)
(* deletion, or import with other numbers touched it.                            *)
Undisturbed(p) ==
  /\ run[p].pc # "idle"
  /\ run[p].session \notin renumbered
  /\ run[p].met = "nobody" \/ (run[p].met = "cadence" /\ ~broken)

(* What an undisturbed run has done to the lessons of its session, at any point *)
(* at which it may be killed.                                                   *)
Progress(p) ==
  priorConsolidation(run[p].session) =
    CASE run[p].pc = "llm" -> run[p].prior
      [] run[p].pc = "write" -> run[p].prior \cup run[p].written
      [] run[p].pc = "rollback" -> run[p].prior \cup run[p].left
      [] run[p].pc = "replace" -> run[p].written \cup run[p].left

(* Ids are never reused, no two rows are the same lesson of the same session,   *)
(* and a row's two session numbers differ only by an import.                    *)
RowsInv ==
  /\ \A i \in Id : i >= nextId => rows[i] = NoRow
  /\ \A i, j \in Lessons :
       rows[i].born = rows[j].born /\ rows[i].content = rows[j].content => i = j
  /\ \A i \in Lessons :
       rows[i].from # rows[i].born => {rows[i].from, rows[i].born} \subseteq renumbered

(* What a run holds: the ids of lessons of its session, or of rows since        *)
(* deleted; the old ones apart from those it is to delete.                      *)
Held(p) == run[p].prior \cup run[p].written \cup run[p].left
RunInv(p) ==
  /\ \A i \in Held(p) :
       i < nextId /\ (rows[i] # NoRow => run[p].session \in {rows[i].from, rows[i].born})
  /\ run[p].prior # {} => run[p].force
  /\ run[p].pc = "llm" => run[p].written = {}
  /\ run[p].pc = "rollback" => run[p].left \cap run[p].prior = {}
  /\ run[p].pc = "replace" => run[p].todo = {} /\ run[p].left \cap run[p].written = {}

(* Two runs on one session know of each other, and two cadences are there only  *)
(* once the lock was stolen.                                                    *)
MeetInv ==
  /\ \A p \in running : run[p].pc # "idle"
  /\ \A p \in Process : run[p].met = "cadence" => broken
  /\ \A s \in Session : \A p, q \in OnSession(s) : p # q => run[p].met # "nobody"
  /\ broken \/ \A p, q \in running : p = q

ConsolidateInv ==
  /\ TypeOK /\ RowsInv /\ MeetInv
  /\ \A p \in Process : RunInv(p) /\ (Undisturbed(p) => Progress(p))

(* "write-nothing-on-error, including --force (never a zero/partial state)"      *)
(* (consolidate.ts:108-111), for a run that nobody disturbs, and under the       *)
(* cadence lock no cadence disturbs another: its session has the old lessons or  *)
(* all of the new ones at every moment, even if it is killed in that moment.     *)
OldOrNew ==
  \A p \in Process : Undisturbed(p) =>
    LET found == priorConsolidation(run[p].session)
    IN  run[p].prior \subseteq found \/ (run[p].todo = {} /\ run[p].written \subseteq found)

(* An undisturbed run that ends, unless it is killed, leaves exactly the lessons *)
(* it found or exactly those it wrote: a failed batch is undone to the last row  *)
(* and nothing else, and a forced one replaces all of the old set                *)
(* (consolidate.ts:113-141).                                                     *)
AllOrNothing ==
  [][\A p \in Process :
       (AllWritten(p) \/ AllDeleted(p)) /\ run'[p].pc = "idle" /\ Undisturbed(p) =>
         priorConsolidation(run[p].session) =
           IF run[p].pc = "rollback" THEN run[p].prior ELSE run[p].written]_vars

(* --force replaces "the prior consolidation output for this session"           *)
(* (types.ts:27-28): no row that came from another session.                      *)
ForceReplacesOwn ==
  [][\A p \in Process : run[p].pc = "replace" /\ DeleteNext(p) =>
       \A i \in Lessons : rows'[i] = NoRow => rows[i].born = run[p].session]_vars
================================================================================
