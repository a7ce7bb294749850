---------------------------- MODULE OptimizeProofs -----------------------------
(***************************************************************************)
(* Proofs about Optimize: its invariant, and the three laws of a cursor:    *)
(* an advance is earned, what was written is passed, and no cursor moves    *)
(* back.  They hold for any number of runs and rows.                        *)
(***************************************************************************)
EXTENDS Optimize, TLAPS, NaturalsInduction, WellFoundedInduction

(* A non-empty set of row ids has a greatest element. *)
LEMMA HasHighest ==
  ASSUME NEW S \in SUBSET Id, S # {}
  PROVE  \E i \in S : \A j \in S : j <= i
<1> DEFINE T == {MaxId - i : i \in S}
<1>0. \A i \in S : MaxId - i \in Nat
  BY OptimizeAssumption DEF OptimizeAssumption, Id
<1>1. T \subseteq Nat /\ T # {}
  <2>1. PICK i \in S : TRUE
    OBVIOUS
  <2>2. MaxId - i \in T
    BY <2>1
  <2> QED
    BY <1>0, <2>2
<1>2. PICK m \in T : \A n \in T : ~(<<n, m>> \in OpToRel(<, Nat))
  BY <1>1, NatLessThanWellFounded, WFMin
<1>3. \A n \in T : ~(n < m)
  BY <1>1, <1>2 DEF OpToRel
<1>4. PICK i \in S : m = MaxId - i
  OBVIOUS
<1>5. \A j \in S : ~(MaxId - j < MaxId - i)
  BY <1>3, <1>4
<1>6. \A j \in S : j <= i
  BY <1>5, OptimizeAssumption DEF OptimizeAssumption, Id
<1> QED
  BY <1>6

(* The target of an advance is a row of its kind, at or above every other. *)
LEMMA MaxIsRow ==
  ASSUME TypeOK, NEW k \in Kind, Rows(k) # {}
  PROVE  /\ maxConsolidatedId(k) \in Rows(k)
         /\ \A j \in Rows(k) : j <= maxConsolidatedId(k)
<1>1. Rows(k) \in SUBSET Id
  BY DEF TypeOK, Rows
<1>2. \E i \in Rows(k) : \A j \in Rows(k) : j <= i
  BY <1>1, HasHighest
<1> QED
  BY <1>2 DEF maxConsolidatedId

LEMMA RowsAreNat ==
  ASSUME OptimizeInv, NEW k \in Kind
  PROVE  /\ Rows(k) \subseteq Nat
         /\ cursor[k] \in Nat
         /\ cursor \in [Kind -> 0 .. MaxId]
<1>1. Id \subseteq Nat
  BY OptimizeAssumption DEF OptimizeAssumption, Id
<1>2. Rows(k) \subseteq Id
  BY DEF OptimizeInv, TypeOK, Rows
<1>3. cursor \in [Kind -> 0 .. MaxId] /\ 0 .. MaxId \subseteq Nat
  BY OptimizeAssumption DEF OptimizeAssumption, OptimizeInv, TypeOK
<1> QED
  BY <1>1, <1>2, <1>3

---------------------------------------------------------------------------
(* What the records of a run keep *)

LEMMA LaterInv ==
  ASSUME NEW state, NEW m \in Nat, NEW n \in Nat, m <= n, RunInv(state, m)
  PROVE  RunInv(state, n)
BY DEF RunInv, RunState, Id

LEMMA IdleInv ==
  ASSUME NEW n \in Nat
  PROVE  RunInv(Idle, n)
BY DEF RunInv, RunState, Idle, Caller

LEMMA StaleInv ==
  ASSUME NEW n \in Nat, NEW k \in Kind, NEW state, RunInv(state, n)
  PROVE  RunInv([state EXCEPT !.fresh = @ \ {k}], n)
BY DEF RunInv, RunState

LEMMA ReviewingInv ==
  ASSUME NEW n \in Nat, NEW state, RunInv(state, n)
  PROVE  RunInv(Reviewing(state), n)
<1>1. CASE Reviewing(state) = state
  BY <1>1
<1>2. CASE Reviewing(state) = Idle
  BY <1>2, IdleInv
<1>3. CASE Reviewing(state) = [state EXCEPT !.pc = "advance", !.todo = Kind]
  BY <1>3 DEF RunInv, RunState
<1> QED
  BY <1>1, <1>2, <1>3 DEF Reviewing

(* One run moves; or one run moves and a file changes for the others. *)
LEMMA StepInv ==
  ASSUME OptimizeInv, NEW r \in Runner, NEW new, RunInv(new, nextId), Step(r, new)
  PROVE  /\ run' \in [Runner -> RunState]
         /\ \A q \in Runner : RunInv(run'[q], nextId)
BY DEF OptimizeInv, TypeOK, RunInv, Step

LEMMA WriteFileInv ==
  ASSUME OptimizeInv, NEW r \in Runner, NEW k \in Kind, NEW new,
         RunInv(new, nextId), WriteFile(k, r, new)
  PROVE  /\ run' \in [Runner -> RunState]
         /\ \A q \in Runner : RunInv(run'[q], nextId)
<1> DEFINE old(q) == IF q = r THEN new ELSE run[q]
<1>1. nextId \in Nat
  BY DEF OptimizeInv, TypeOK
<1>2. \A q \in Runner : RunInv(old(q), nextId)
  BY DEF OptimizeInv
<1>3. \A q \in Runner : RunInv([old(q) EXCEPT !.fresh = @ \ {k}], nextId)
  BY <1>1, <1>2, StaleInv
<1>4. \A q \in Runner : run'[q] = [old(q) EXCEPT !.fresh = @ \ {k}]
  BY DEF WriteFile
<1>5. \A q \in Runner : RunInv(run'[q], nextId)
  BY <1>3, <1>4
<1>6. run' = [q \in Runner |-> run'[q]]
  BY DEF WriteFile
<1> QED
  BY <1>5, <1>6 DEF RunInv

(* When the rows and the cursors stay, the invariant is about the runs. *)
LEMMA RunsOnly ==
  ASSUME OptimizeInv, UNCHANGED <<rowVars, cursor>>,
         run' \in [Runner -> RunState], \A q \in Runner : RunInv(run'[q], nextId)
  PROVE  OptimizeInv'
BY DEF OptimizeInv, TypeOK, rowVars

---------------------------------------------------------------------------
(* The invariant *)

LEMMA InitInv == Init => OptimizeInv
<1> SUFFICES ASSUME Init PROVE OptimizeInv
  OBVIOUS
<1>1. \A r \in Runner : run[r] = Idle
  BY DEF Init
<1>2. nextId = 1
  BY DEF Init
<1>3. \A r \in Runner : RunInv(run[r], nextId)
  BY <1>1, <1>2, IdleInv
<1>4. run \in [Runner -> RunState]
  BY <1>3 DEF Init, RunInv
<1>5. kind \in [Id -> Kind \cup {"none"}] /\ here \subseteq Id
  BY DEF Init
<1>6. nextId \in 1 .. MaxId + 1 /\ cursor \in [Kind -> 0 .. MaxId]
  BY OptimizeAssumption DEF Init, OptimizeAssumption
<1>7. \A k \in Kind : cursor[k] < nextId
  BY DEF Init
<1>8. \A i \in Id : kind[i] = "none"
  BY DEF Init
<1> QED
  BY <1>3, <1>4, <1>5, <1>6, <1>7, <1>8 DEF OptimizeInv, TypeOK

LEMMA ConsolidateInv == OptimizeInv /\ Consolidate => OptimizeInv'
<1> SUFFICES ASSUME OptimizeInv, Consolidate PROVE OptimizeInv'
  OBVIOUS
<1> USE DEF OptimizeInv
<1>1. nextId \in Nat /\ nextId' \in 1 .. MaxId + 1 /\ nextId' = nextId + 1
  BY OptimizeAssumption DEF OptimizeAssumption, TypeOK, Consolidate, Id
<1>2. kind' \in [Id -> Kind \cup {"none"}] /\ here' \subseteq Id
  BY DEF TypeOK, Consolidate
<1>3. \A i \in Id : i >= nextId' => kind'[i] = "none"
  BY <1>1 DEF TypeOK, Consolidate, Id
<1>4. \A k \in Kind : cursor'[k] < nextId'
  BY <1>1 DEF TypeOK, Consolidate, Kind
<1>5. \A r \in Runner : RunInv(run'[r], nextId')
  BY <1>1, LaterInv DEF Consolidate
<1> QED
  BY <1>1, <1>2, <1>3, <1>4, <1>5 DEF TypeOK, Consolidate

LEMMA RowsInv == OptimizeInv /\ (Forget \/ MoveSession) => OptimizeInv'
<1>1. ASSUME OptimizeInv, Forget PROVE OptimizeInv'
  BY <1>1 DEF OptimizeInv, TypeOK, Forget
<1>2. ASSUME OptimizeInv, MoveSession PROVE OptimizeInv'
  BY <1>2, OptimizeAssumption
  DEF OptimizeAssumption, OptimizeInv, TypeOK, MoveSession, Id
<1> QED
  BY <1>1, <1>2

LEMMA EditInv == OptimizeInv /\ EditFile => OptimizeInv'
<1> SUFFICES ASSUME OptimizeInv, EditFile PROVE OptimizeInv'
  OBVIOUS
<1>1. PICK k \in Kind : run' = [r \in Runner |-> [run[r] EXCEPT !.fresh = @ \ {k}]]
  BY DEF EditFile
<1>2. \A r \in Runner : run'[r] = [run[r] EXCEPT !.fresh = @ \ {k}]
  BY <1>1
<1>3. \A r \in Runner : RunInv([run[r] EXCEPT !.fresh = @ \ {k}], nextId)
  <2>1. nextId \in Nat /\ \A r \in Runner : RunInv(run[r], nextId)
    BY DEF OptimizeInv, TypeOK
  <2> QED
    BY <2>1, StaleInv
<1>4. \A r \in Runner : RunInv(run'[r], nextId)
  BY <1>2, <1>3
<1>5. run' = [r \in Runner |-> run'[r]]
  BY <1>1
<1>6. run' \in [Runner -> RunState]
  BY <1>4, <1>5 DEF RunInv
<1> QED
  BY <1>4, <1>6, RunsOnly DEF EditFile

(* A run moves to a state that keeps RunInv, and nothing else changes. *)
LEMMA MovesInv ==
  ASSUME OptimizeInv, NEW r \in Runner, NEW new, RunInv(new, nextId), Step(r, new),
         UNCHANGED <<rowVars, cursor>>
  PROVE  OptimizeInv'
BY StepInv, RunsOnly

LEMMA GenerateInv ==
  ASSUME OptimizeInv, NEW r \in Runner, Generate(r)
  PROVE  OptimizeInv'
<1> DEFINE read == UNION {consolidatedIdsSince(k) : k \in Kind}
           new(by) == [Idle EXCEPT !.pc = "judge", !.by = by, !.seen = read]
<1>1. PICK by \in Caller : Step(r, new(by))
  BY DEF Generate
<1>2. read \in SUBSET Id
  BY DEF consolidatedIdsSince, Rows, OptimizeInv, TypeOK
<1>3. \A i \in read : kind[i] # "none"
  BY DEF consolidatedIdsSince, Rows, Kind
<1>4. \A i \in read : i < nextId
  BY <1>2, <1>3 DEF OptimizeInv, TypeOK, Id
<1>5. RunInv(new(by), nextId)
  BY <1>2, <1>4 DEF RunInv, RunState, Idle
<1> QED
  BY <1>1, <1>5, MovesInv DEF Generate

LEMMA JudgedInv ==
  ASSUME OptimizeInv, NEW r \in Runner, Judged(r)
  PROVE  OptimizeInv'
<1> DEFINE new(keep, cands) ==
             [run[r] EXCEPT !.pc = "review", !.keep = keep, !.cands = cands,
                            !.todo = ToApply(r, cands), !.fresh = ToApply(r, cands)]
<1>1. PICK keep \in SUBSET run[r].seen, cands \in SUBSET Kind :
        Step(r, Reviewing(new(keep, cands)))
  BY DEF Judged
<1>2. nextId \in Nat /\ RunInv(run[r], nextId) /\ run[r].pc = "judge"
  BY DEF OptimizeInv, TypeOK, Judged
<1>3. ToApply(r, cands) \subseteq cands
  BY DEF ToApply
<1>4. RunInv(new(keep, cands), nextId)
  BY <1>2, <1>3 DEF RunInv, RunState
<1>5. RunInv(Reviewing(new(keep, cands)), nextId)
  BY <1>2, <1>4, ReviewingInv
<1> QED
  BY <1>1, <1>5, MovesInv DEF Judged

LEMMA NextKindInv ==
  ASSUME NEW K \in SUBSET Kind, K # {}
  PROVE  NextKind(K) \in K
BY DEF NextKind, Kind

LEMMA DeclineInv ==
  ASSUME OptimizeInv, NEW r \in Runner, Decline(r)
  PROVE  OptimizeInv'
<1> DEFINE k == NextKind(run[r].todo)
           new == [run[r] EXCEPT !.todo = @ \ {k}, !.fresh = @ \ {k}]
<1>1. nextId \in Nat /\ RunInv(run[r], nextId)
  BY DEF OptimizeInv, TypeOK
<1>2. Step(r, Reviewing(new))
  BY DEF Decline
<1> HIDE DEF k
<1>3. RunInv(new, nextId)
  BY <1>1 DEF RunInv, RunState
<1>4. RunInv(Reviewing(new), nextId)
  BY <1>1, <1>3, ReviewingInv
<1> QED
  BY <1>2, <1>4, MovesInv DEF Decline

LEMMA CheckInv ==
  ASSUME OptimizeInv, NEW r \in Runner, NEW k \in Kind, Check(r, k)
  PROVE  OptimizeInv'
<1> DEFINE write == [run[r] EXCEPT !.pc = "write", !.target = k]
           refuse == [run[r] EXCEPT !.todo = @ \ {k}]
<1>1. nextId \in Nat /\ RunInv(run[r], nextId) /\ run[r].pc = "review" /\ k \in run[r].todo
  BY DEF OptimizeInv, TypeOK, Check, Applies
<1>2. Step(r, write) \/ Step(r, Reviewing(refuse))
  BY DEF Check
<1>3. RunInv(write, nextId)
  BY <1>1 DEF RunInv, RunState
<1>4. RunInv(refuse, nextId)
  BY <1>1 DEF RunInv, RunState
<1>5. RunInv(Reviewing(refuse), nextId)
  BY <1>1, <1>4, ReviewingInv
<1> QED
  BY <1>2, <1>3, <1>5, MovesInv DEF Check

LEMMA WriteInv ==
  ASSUME OptimizeInv, NEW r \in Runner, Write(r)
  PROVE  OptimizeInv'
<1> DEFINE k == run[r].target
           wrote == [run[r] EXCEPT !.applied = @ \cup {k}, !.target = "none"]
           served == [wrote EXCEPT !.pc = "advance", !.todo = Kind]
           next == [wrote EXCEPT !.pc = "review", !.todo = @ \ {k}]
           new == IF run[r].by = "mcp" THEN served ELSE Reviewing(next)
<1>1. /\ nextId \in Nat /\ RunInv(run[r], nextId)
      /\ run[r].pc = "write" /\ k \in run[r].cands /\ k \in Kind
  BY DEF OptimizeInv, TypeOK, Write, RunInv, RunState
<1>2. WriteFile(k, r, new)
  BY DEF Write
<1>3. RunInv(served, nextId)
  BY <1>1 DEF RunInv, RunState
<1>4. RunInv(Reviewing(next), nextId)
  <2>1. RunInv(next, nextId)
    BY <1>1 DEF RunInv, RunState
  <2> QED
    BY <1>1, <2>1, ReviewingInv
<1>5. RunInv(new, nextId)
  BY <1>3, <1>4
<1>6. run' \in [Runner -> RunState] /\ \A q \in Runner : RunInv(run'[q], nextId)
  BY <1>1, <1>2, <1>5, WriteFileInv
<1> QED
  BY <1>6, RunsOnly DEF Write

LEMMA WriteFailsInv ==
  ASSUME OptimizeInv, NEW r \in Runner, WriteFails(r)
  PROVE  OptimizeInv'
<1> DEFINE open == [run[r] EXCEPT !.pc = "review", !.target = "none"]
           failed == IF run[r].by = "mcp" THEN open ELSE Idle
<1>1. /\ nextId \in Nat /\ RunInv(run[r], nextId)
      /\ run[r].pc = "write" /\ run[r].target \in Kind
  BY DEF OptimizeInv, TypeOK, WriteFails, RunInv, RunState
<1>2. RunInv(open, nextId)
  BY <1>1 DEF RunInv, RunState
<1>3. RunInv(failed, nextId)
  BY <1>1, <1>2, IdleInv
<1>4. CASE Step(r, failed)
  BY <1>3, <1>4, MovesInv DEF WriteFails
<1>5. CASE WriteFile(run[r].target, r, failed)
  <2>1. run' \in [Runner -> RunState] /\ \A q \in Runner : RunInv(run'[q], nextId)
    BY <1>1, <1>3, <1>5, WriteFileInv
  <2> QED
    BY <2>1, RunsOnly DEF WriteFails
<1> QED
  BY <1>4, <1>5 DEF WriteFails

(* What an advance does to the cursors. *)
LEMMA AdvanceCursor ==
  ASSUME OptimizeInv, NEW r \in Runner, NEW k \in Kind, Advances(r, k)
  PROVE  \/ cursor' = cursor /\ (Reviewed(k) => pendingValid(r, k) # {})
         \/ /\ Reviewed(k) /\ pendingValid(r, k) = {}
            /\ cursor' = [cursor EXCEPT ![k] = maxConsolidatedId(k)]
            /\ maxConsolidatedId(k) \in Rows(k)
            /\ \A j \in Rows(k) : j <= maxConsolidatedId(k)
<1>1. CASE Reviewed(k) /\ pendingValid(r, k) = {}
  <2>1. Rows(k) # {}
    BY <1>1 DEF Reviewed, consolidatedIdsSince
  <2>2. /\ maxConsolidatedId(k) \in Rows(k)
        /\ \A j \in Rows(k) : j <= maxConsolidatedId(k)
    BY <2>1, MaxIsRow DEF OptimizeInv
  <2>3. cursor' = [cursor EXCEPT ![k] = maxConsolidatedId(k)]
    BY <1>1 DEF Advances, AdvanceKind
  <2> QED
    BY <1>1, <2>2, <2>3
<1>2. CASE ~(Reviewed(k) /\ pendingValid(r, k) = {})
  BY <1>2 DEF Advances, AdvanceKind
<1> QED
  BY <1>1, <1>2

LEMMA AdvanceInv ==
  ASSUME OptimizeInv, NEW r \in Runner, AdvanceKind(r)
  PROVE  OptimizeInv'
<1>1. PICK k \in Kind : Advances(r, k)
  BY DEF Advances, Kind
<1>2. cursor' \in [Kind -> 0 .. MaxId] /\ \A l \in Kind : cursor'[l] < nextId
  <2>1. CASE cursor' = cursor
    BY <2>1 DEF OptimizeInv, TypeOK
  <2>2. CASE /\ cursor' = [cursor EXCEPT ![k] = maxConsolidatedId(k)]
             /\ maxConsolidatedId(k) \in Rows(k)
    <3>1. maxConsolidatedId(k) \in Id /\ kind[maxConsolidatedId(k)] # "none"
      BY <2>2 DEF Rows, OptimizeInv, TypeOK, Kind
    <3>2. maxConsolidatedId(k) < nextId /\ maxConsolidatedId(k) \in 0 .. MaxId
      BY <3>1, OptimizeAssumption DEF OptimizeInv, TypeOK, Id, OptimizeAssumption
    <3> QED
      BY <2>2, <3>2 DEF OptimizeInv, TypeOK
  <2> QED
    BY <1>1, <2>1, <2>2, AdvanceCursor
<1>3. run' \in [Runner -> RunState] /\ \A q \in Runner : RunInv(run'[q], nextId)
  <2> DEFINE j == IF "lesson" \in run[r].todo THEN "lesson" ELSE "decision"
             left == run[r].todo \ {j}
             other == [run[r] EXCEPT !.todo = left]
             again == [run[r] EXCEPT !.pc = "review",
                                     !.todo = run[r].cands \ run[r].applied]
             new == IF left # {} THEN other
                    ELSE IF run[r].by = "mcp" THEN Reviewing(again) ELSE Idle
  <2>1. nextId \in Nat /\ RunInv(run[r], nextId) /\ run[r].pc = "advance"
    BY DEF OptimizeInv, TypeOK, AdvanceKind
  <2>2. RunInv(other, nextId)
    BY <2>1 DEF RunInv, RunState
  <2>3. RunInv(again, nextId)
    BY <2>1 DEF RunInv, RunState
  <2>4. RunInv(new, nextId)
    BY <2>1, <2>2, <2>3, ReviewingInv, IdleInv
  <2>5. Step(r, new)
    BY DEF AdvanceKind
  <2> QED
    BY <2>4, <2>5, StepInv
<1> QED
  BY <1>2, <1>3 DEF OptimizeInv, TypeOK, AdvanceKind, rowVars

LEMMA StopInv ==
  ASSUME OptimizeInv, NEW r \in Runner, Stop(r)
  PROVE  OptimizeInv'
<1>1. RunInv(Idle, nextId)
  BY IdleInv DEF OptimizeInv, TypeOK
<1> QED
  BY <1>1, MovesInv DEF Stop

LEMMA NextInv == OptimizeInv /\ [Next]_vars => OptimizeInv'
<1> SUFFICES ASSUME OptimizeInv, [Next]_vars PROVE OptimizeInv'
  OBVIOUS
<1>1. CASE Consolidate
  BY <1>1, ConsolidateInv
<1>2. CASE Forget \/ MoveSession
  BY <1>2, RowsInv
<1>3. CASE EditFile
  BY <1>3, EditInv
<1>4. ASSUME NEW r \in Runner,
             \/ Generate(r) \/ Judged(r) \/ Decline(r)
             \/ \E k \in Kind : Check(r, k)
             \/ Write(r) \/ WriteFails(r) \/ AdvanceKind(r) \/ Stop(r)
      PROVE  OptimizeInv'
  BY <1>4, GenerateInv, JudgedInv, DeclineInv, CheckInv, WriteInv, WriteFailsInv,
     AdvanceInv, StopInv
<1>5. CASE UNCHANGED vars
  BY <1>5 DEF OptimizeInv, TypeOK, vars
<1> QED
  BY <1>1, <1>2, <1>3, <1>4, <1>5 DEF Next

(* Every reachable state satisfies OptimizeInv: in particular no cursor names  *)
(* a row that does not exist yet (run.ts:209-218).                             *)
THEOREM OptimizeInvariant == Spec => []OptimizeInv
<1>1. OptimizeInv /\ [Next]_vars => OptimizeInv'
  BY NextInv
<1> QED
  BY InitInv, <1>1, PTL DEF Spec

---------------------------------------------------------------------------
(* The laws of the cursors *)

(* No run moves a cursor past a row that it read and kept, unless it has       *)
(* written it (run.ts:167-173, 214-218).                                       *)
THEOREM AdvancesAreEarned == Spec => AdvanceIsEarned
<1>1. ASSUME OptimizeInv, NEW r \in Runner, NEW k \in Kind, Advances(r, k)
      PROVE  Passed(k) \cap run[r].keep \subseteq promoted(r, k)
  <2> SUFFICES ASSUME NEW i \in Passed(k) \cap run[r].keep
               PROVE  i \in promoted(r, k)
    OBVIOUS
  <2>1. cursor' # cursor
    <3>1. i \in Nat /\ cursor[k] \in Nat
      BY <1>1, RowsAreNat DEF Passed
    <3> QED
      BY <3>1 DEF Passed
  <2>2. pendingValid(r, k) = {}
    BY <1>1, <2>1, AdvanceCursor
  <2>3. i \in survivors(r, k)
    BY DEF survivors, consolidatedIdsSince, Passed
  <2> QED
    BY <2>2, <2>3 DEF pendingValid
<1>2. OptimizeInv => \A r \in Runner, k \in Kind :
        Advances(r, k) => Passed(k) \cap run[r].keep \subseteq promoted(r, k)
  BY <1>1
<1> QED
  BY <1>2, OptimizeInvariant, PTL DEF AdvanceIsEarned

(* What a run has written is not above its cursor once the run has advanced    *)
(* it, whatever arrived or was deleted meanwhile (candidate-gen.ts:91-96).     *)
THEOREM WrittenRowsArePassed == Spec => WrittenIsPassed
<1>1. ASSUME OptimizeInv, NEW r \in Runner, NEW k \in Kind, Advances(r, k)
      PROVE  \A i \in promoted(r, k) \cap Rows(k) : i <= cursor'[k]
  <2> SUFFICES ASSUME NEW i \in promoted(r, k) \cap Rows(k), ~(i <= cursor'[k])
               PROVE  FALSE
    OBVIOUS
  <2>1. i \in Nat /\ cursor[k] \in Nat /\ k \in DOMAIN cursor
    BY <1>1, RowsAreNat
  <2>2. promoted(r, k) = {j \in run[r].keep : kind[j] = k}
    BY DEF promoted, evidence
  <2>3. pendingValid(r, k) = {}
    BY <2>2 DEF pendingValid, survivors, consolidatedIdsSince, Rows
  <2>4. CASE cursor' = cursor
    <3>1. i > cursor[k]
      BY <2>1, <2>4
    <3>2. Reviewed(k)
      BY <3>1 DEF Reviewed, consolidatedIdsSince
    <3>3. cursor'[k] # maxConsolidatedId(k) \/ ~(maxConsolidatedId(k) \in Rows(k))
          \/ ~(\A j \in Rows(k) : j <= maxConsolidatedId(k))
      BY <2>1
    <3> QED
      BY <1>1, <2>1, <2>3, <2>4, <3>2, <3>3, AdvanceCursor
  <2>5. CASE /\ cursor' = [cursor EXCEPT ![k] = maxConsolidatedId(k)]
             /\ \A j \in Rows(k) : j <= maxConsolidatedId(k)
    BY <2>1, <2>5
  <2> QED
    BY <1>1, <2>4, <2>5, AdvanceCursor
<1>2. OptimizeInv => \A r \in Runner, k \in Kind :
        Advances(r, k) => \A i \in promoted(r, k) \cap Rows(k) : i <= cursor'[k]
  BY <1>1
<1> QED
  BY <1>2, OptimizeInvariant, PTL DEF WrittenIsPassed

(* No step, of any process, moves a cursor back (candidate-gen.ts:91-96).      *)
THEOREM CursorsNeverMoveBack == Spec => CursorsOnlyAdvance
<1>1. ASSUME OptimizeInv, [Next]_vars
      PROVE  \A k \in Kind : cursor'[k] >= cursor[k]
  <2>1. \A k \in Kind : cursor[k] \in Nat
    BY <1>1 DEF OptimizeInv, TypeOK
  <2>2. CASE cursor' = cursor
    BY <2>1, <2>2
  <2>3. ASSUME NEW r \in Runner, AdvanceKind(r)
        PROVE  \A k \in Kind : cursor'[k] >= cursor[k]
    <3>1. PICK k \in Kind : Advances(r, k)
      BY <2>3 DEF Advances, Kind
    <3>2. CASE /\ Reviewed(k)
               /\ cursor' = [cursor EXCEPT ![k] = maxConsolidatedId(k)]
               /\ maxConsolidatedId(k) \in Rows(k)
               /\ \A j \in Rows(k) : j <= maxConsolidatedId(k)
      <4>1. PICK i \in Rows(k) : i > cursor[k]
        BY <3>2 DEF Reviewed, consolidatedIdsSince
      <4>2. i \in Nat /\ maxConsolidatedId(k) \in Nat
        <5>1. Rows(k) \subseteq Nat
          BY <1>1, RowsAreNat
        <5> QED
          BY <3>2, <5>1
      <4>3. maxConsolidatedId(k) >= cursor[k]
        BY <2>1, <3>2, <4>1, <4>2
      <4> QED
        BY <1>1, <2>1, <3>2, <4>3 DEF OptimizeInv, TypeOK
    <3> QED
      BY <1>1, <2>2, <3>1, <3>2, AdvanceCursor
  <2>4. (\E r \in Runner : AdvanceKind(r)) \/ cursor' = cursor
    BY <1>1 DEF Next, vars, Consolidate, Forget, MoveSession, EditFile, Generate,
       Judged, Decline, Check, Write, WriteFails, Stop
  <2> QED
    BY <2>2, <2>3, <2>4
<1> QED
  BY <1>1, OptimizeInvariant, PTL DEF CursorsOnlyAdvance, Spec
================================================================================
