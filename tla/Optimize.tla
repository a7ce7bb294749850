------------------------------- MODULE Optimize --------------------------------
(***************************************************************************)
(* Promotion of consolidated memory into the project's files               *)
(* (src/optimize/run.ts, candidate-gen.ts, applier.ts), as its three        *)
(* callers drive it: the cadence (src/maintain/run.ts), `abs optimize`      *)
(* (src/cli/cli.ts) and the optimize and apply tools of an MCP server       *)
(* (src/mcp/server.ts).                                                     *)
(*                                                                         *)
(* One project.  Its consolidated lessons are promoted into                 *)
(* consolidated-lessons.md and its decisions into CLAUDE.md; a cursor per   *)
(* kind says up to which row the kind has been dealt with.  A run reads the *)
(* rows above the cursors, curates them (an LLM call), shows the candidates *)
(* (one per kind), writes the approved ones and advances the cursors; other *)
(* processes and the user act between any two of these steps.               *)
(*                                                                         *)
(* Abstractions.  A row is its id and kind.  What a file holds is left out: *)
(* a run knows whether it still has the content its diff was rendered       *)
(* against, and which kinds it has written itself.                          *)
(* The statements that advance one cursor are one step: a row committed     *)
(* between them has the effect of one committed just before.                *)
(***************************************************************************)
EXTENDS Naturals

CONSTANTS
  Runner,   \* the processes that run it
  MaxId,    \* bound: rows are 1 .. MaxId
  Movable   \* bound: the rows that may belong to another project

ASSUME OptimizeAssumption == MaxId \in Nat /\ Movable \subseteq 1 .. MaxId

(* cadence: `abs maintain --auto` promotes lessons and leaves decisions; cli:   *)
(* the user of `abs optimize --apply` approves or declines each candidate;      *)
(* mcp: apply takes the candidates of the optimize tool one by one.             *)
Caller == {"cadence", "cli", "mcp"}
Id == 1 .. MaxId
Kind == {"lesson", "decision"}

VARIABLES
  kind,    \* the kind of each consolidated row, "none" when there is no such row
  here,    \* the rows whose session belongs to the project
  nextId,  \* the AUTOINCREMENT counter of observations
  cursor,  \* kv_meta optimize:<kind>:<project>
  run      \* what each run is doing

rowVars == <<kind, here, nextId>>
vars == <<kind, here, nextId, cursor, run>>

(* by: who asked for it; seen: the rows generation read; keep: those that survived curation; cands:  *)
(* the kinds with a candidate; todo: the kinds still to be applied, or         *)
(* advanced; applied: the kinds written; fresh: the files that still have the  *)
(* content their diff was rendered against; target: the kind being written.    *)
Idle == [pc |-> "idle", by |-> "cli", seen |-> {}, keep |-> {}, cands |-> {},
         todo |-> {}, applied |-> {}, fresh |-> {}, target |-> "none"]

RunState ==
  [pc : {"idle", "judge", "review", "write", "advance"}, by : Caller,
   seen : SUBSET Id, keep : SUBSET Id,
   cands : SUBSET Kind, todo : SUBSET Kind, applied : SUBSET Kind,
   fresh : SUBSET Kind, target : Kind \cup {"none"}]

TypeOK ==
  /\ kind \in [Id -> Kind \cup {"none"}]
  /\ here \subseteq Id
  /\ nextId \in 1 .. MaxId + 1
  /\ cursor \in [Kind -> 0 .. MaxId]
  /\ run \in [Runner -> RunState]

Rows(k) == {i \in here : kind[i] = k}
consolidatedIdsSince(k) == {i \in Rows(k) : i > cursor[k]}

(* Mutant: the cursor is set to the store's next id. *)
maxConsolidatedId_NextId(k) == nextId

maxConsolidatedId(k) == CHOOSE i \in Rows(k) : \A j \in Rows(k) : j <= i

(* The rows of a candidate. *)
evidence(r, k) ==
  IF k \in run[r].cands THEN {i \in run[r].keep : kind[i] = k} ELSE {}

(* Decisions have priority. *)
NextKind(K) == IF "decision" \in K THEN "decision" ELSE "lesson"

Init ==
  /\ kind = [i \in Id |-> "none"] /\ here = {} /\ nextId = 1
  /\ cursor = [k \in Kind |-> 0]
  /\ run = [r \in Runner |-> Idle]

(* A run that has no candidate left to apply comes to its advance; in an MCP   *)
(* server, which advances after every apply, it is over.                       *)
Reviewing(new) ==
  IF new.todo # {} THEN new
  ELSE IF new.by = "mcp" THEN Idle ELSE [new EXCEPT !.pc = "advance", !.todo = Kind]

Step(r, new) == run' = [run EXCEPT ![r] = new]

---------------------------------------------------------------------------
(* The rows *)

(* consolidate: a lesson or decision of some session, of this project or not. *)
Consolidate ==
  /\ nextId \in Id
  /\ \E k \in Kind : kind' = [kind EXCEPT ![nextId] = k]
  /\ here' \in {here \cup {nextId}} \cup (IF nextId \in Movable THEN {here} ELSE {})
  /\ nextId' = nextId + 1
  /\ UNCHANGED <<cursor, run>>

(* forget, or consolidate --force: the row goes. *)
Forget ==
  /\ \E i \in Id : /\ kind[i] # "none"
                   /\ kind' = [kind EXCEPT ![i] = "none"]
                   /\ here' = here \ {i}
  /\ UNCHANGED <<nextId, cursor, run>>

(* set_session_project: the rows of a session change project. *)
MoveSession ==
  /\ \E i \in Movable :
       /\ kind[i] # "none"
       /\ here' \in {here \ {i}, here \cup {i}}
  /\ UNCHANGED <<kind, nextId, cursor, run>>

(* The user edits a target file. *)
EditFile ==
  /\ \E k \in Kind :
       run' = [r \in Runner |-> [run[r] EXCEPT !.fresh = @ \ {k}]]
  /\ UNCHANGED <<rowVars, cursor>>

---------------------------------------------------------------------------
(* generateCandidates: read the rows, await the judge, read the files. *)

Generate(r) ==
  /\ run[r].pc = "idle"
  /\ \E by \in Caller :
       Step(r, [Idle EXCEPT !.pc = "judge", !.by = by,
                            !.seen = UNION {consolidatedIdsSince(k) : k \in Kind}])
  /\ UNCHANGED <<rowVars, cursor>>

ToApply(r, cands) == IF run[r].by = "cadence" THEN cands \ {"decision"} ELSE cands

(* Curation drops any of the rows.  The list of candidates is cut at --limit; *)
(* the cadence has no limit and leaves the decisions alone.                   *)
Judged(r) ==
  /\ run[r].pc = "judge"
  /\ \E keep \in SUBSET run[r].seen :
       LET all == {k \in Kind : \E i \in keep : kind[i] = k}
       IN  \E cands \in {all} \cup (IF run[r].by = "cadence" THEN {} ELSE {all \cap {"decision"}}) :
             /\ cands = {} => all = {}
             /\ Step(r, Reviewing([run[r] EXCEPT
                           !.pc = "review", !.keep = keep, !.cands = cands,
                           !.todo = ToApply(r, cands), !.fresh = ToApply(r, cands)]))
  /\ UNCHANGED <<rowVars, cursor>>

(* The user declines the next candidate. *)
Decline(r) ==
  /\ run[r].by = "cli"
  /\ run[r].pc = "review" /\ run[r].todo # {}
  /\ LET k == NextKind(run[r].todo)
     IN  Step(r, Reviewing([run[r] EXCEPT !.todo = @ \ {k}, !.fresh = @ \ {k}]))
  /\ UNCHANGED <<rowVars, cursor>>

---------------------------------------------------------------------------
(* GatedApplier.apply *)

(* Which candidate is applied next: in the order of the list, or, by the      *)
(* agent, any that was generated.                                             *)
Applies(r, k) ==
  /\ run[r].pc = "review"
  /\ k \in run[r].todo
  /\ run[r].by = "mcp" \/ k = NextKind(run[r].todo)

(* Read the file; refuse (target-modified) unless it is what the diff was     *)
(* rendered against.                                                          *)
Check(r, k) ==
  /\ Applies(r, k)
  /\ \/ /\ k \in run[r].fresh
        /\ Step(r, [run[r] EXCEPT !.pc = "write", !.target = k])
     \/ /\ k \notin run[r].fresh
        /\ Step(r, Reviewing([run[r] EXCEPT !.todo = @ \ {k}]))
  /\ UNCHANGED <<rowVars, cursor>>

(* r's write changes the content every run has read. *)
WriteFile(k, r, new) ==
  run' = [q \in Runner |-> [(IF q = r THEN new ELSE run[q]) EXCEPT !.fresh = @ \ {k}]]

(* rename(temp, target).  An MCP server advances after every apply, the others *)
(* after the last.                                                             *)
Write(r) ==
  /\ run[r].pc = "write"
  /\ LET k == run[r].target
         wrote == [run[r] EXCEPT !.applied = @ \cup {k}, !.target = "none"]
     IN  WriteFile(k, r, IF run[r].by = "mcp"
                         THEN [wrote EXCEPT !.pc = "advance", !.todo = Kind]
                         ELSE Reviewing([wrote EXCEPT !.pc = "review", !.todo = @ \ {k}]))
  /\ UNCHANGED <<rowVars, cursor>>

(* The write throws, before it began or with a rollback that writes the backup *)
(* over the file.  The error ends a CLI or cadence run without an advance.     *)
WriteFails(r) ==
  /\ run[r].pc = "write"
  /\ LET failed == IF run[r].by = "mcp" THEN [run[r] EXCEPT !.pc = "review", !.target = "none"]
                                ELSE Idle
     IN  Step(r, failed) \/ WriteFile(run[r].target, r, failed)
  /\ UNCHANGED <<rowVars, cursor>>

---------------------------------------------------------------------------
(* advanceOptimizeCursorsAfterApply *)

(* partitionConsolidated *)
survivors(r, k) == run[r].keep \cap consolidatedIdsSince(k)
promoted(r, k) == IF k \in run[r].applied THEN evidence(r, k) ELSE {}

(* Mutant: curated-out is what no candidate of the cut list covers. *)
pendingValid_OfList(r, k) == (survivors(r, k) \cap evidence(r, k)) \ promoted(r, k)

(* Mutant: one verdict for both kinds. *)
pendingValid_AnyKind(r, k) == UNION {survivors(r, l) \ promoted(r, l) : l \in Kind}

pendingValid(r, k) == survivors(r, k) \ promoted(r, k)

(* Mutant: a kind with nothing above its cursor is advanced like the others. *)
Reviewed_Always(k) == Rows(k) # {}

Reviewed(k) == consolidatedIdsSince(k) # {}

(* advanceOptimizeCursorForKind, lessons first. *)
AdvanceKind(r) ==
  /\ run[r].pc = "advance"
  /\ LET k == IF "lesson" \in run[r].todo THEN "lesson" ELSE "decision"
         left == run[r].todo \ {k}
     IN  /\ cursor' = IF Reviewed(k) /\ pendingValid(r, k) = {}
                      THEN [cursor EXCEPT ![k] = maxConsolidatedId(k)]
                      ELSE cursor
         /\ Step(r, IF left # {} THEN [run[r] EXCEPT !.todo = left]
                    ELSE IF run[r].by = "mcp"
                    THEN Reviewing([run[r] EXCEPT !.pc = "review",
                                                  !.todo = run[r].cands \ run[r].applied])
                    ELSE Idle)
  /\ UNCHANGED rowVars

(* A run ends early: a preview, an LLM error, a kill, the server's exit. *)
Stop(r) ==
  /\ run[r].pc # "idle"
  /\ Step(r, Idle)
  /\ UNCHANGED <<rowVars, cursor>>

Next ==
  \/ Consolidate \/ Forget \/ MoveSession \/ EditFile
  \/ \E r \in Runner :
       \/ Generate(r) \/ Judged(r) \/ Decline(r)
       \/ \E k \in Kind : Check(r, k)
       \/ Write(r) \/ WriteFails(r)
       \/ AdvanceKind(r) \/ Stop(r)

Spec == Init /\ [][Next]_vars

---------------------------------------------------------------------------
(* Properties *)

(* What a run holds between its steps: it keeps some of the rows it read, has  *)
(* candidates for kinds it kept rows of, and applies only those.               *)
RunInv(state, next) ==
  /\ state \in RunState
  /\ state.keep \subseteq state.seen
  /\ \A i \in state.seen : i < next
  /\ state.applied \subseteq state.cands
  /\ state.pc = "judge" => state.applied = {}
  /\ state.pc \in {"review", "write"} => state.todo \subseteq state.cands
  /\ state.pc = "write" => state.target \in state.cands

(* A cursor never reaches an id that is still to be given out: the row would   *)
(* be below it from the start and never be promoted (run.ts:209-218).          *)
OptimizeInv ==
  /\ TypeOK
  /\ \A k \in Kind : cursor[k] < nextId
  /\ \A i \in Id : i >= nextId => kind[i] = "none"
  /\ \A r \in Runner : RunInv(run[r], nextId)

(* The rows a step moves a cursor past. *)
Passed(k) == {i \in Rows(k) : cursor[k] < i /\ i <= cursor'[k]}

(* The kind an advance is about. *)
Advances(r, k) ==
  AdvanceKind(r) /\ k = IF "lesson" \in run[r].todo THEN "lesson" ELSE "decision"

(* Of the rows a run read, it moves a cursor only past those its curation      *)
(* dropped and those it has written: neither a cut candidate list, a declined  *)
(* or refused candidate, a failed write, nor a decision that the cadence       *)
(* leaves alone makes it pass a row it kept (run.ts:167-173, 214-218).         *)
AdvanceIsEarned ==
  [][\A r \in Runner, k \in Kind :
       Advances(r, k) =>
         Passed(k) \cap run[r].keep \subseteq promoted(r, k)]_vars

(* A run that comes to its advance leaves nothing that it wrote above a        *)
(* cursor, where the next run would write it again: the kinds do not hold each *)
(* other back, nor do rows that arrived meanwhile (candidate-gen.ts:91-96).    *)
WrittenIsPassed ==
  [][\A r \in Runner, k \in Kind :
       Advances(r, k) =>
         \A i \in promoted(r, k) \cap Rows(k) : i <= cursor'[k]]_vars

(* A cursor never moves back, so nothing below it is written twice, although   *)
(* the highest row of its kind may have been deleted or moved since            *)
(* (candidate-gen.ts:91-96).                                                   *)
CursorsOnlyAdvance ==
  [][\A k \in Kind : cursor'[k] >= cursor[k]]_vars
================================================================================
