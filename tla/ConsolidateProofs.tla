--------------------------- MODULE ConsolidateProofs ---------------------------
(***************************************************************************)
(* Proofs about Consolidate: its invariant, and that the session of a run   *)
(* that nobody disturbs has its old lessons or all of the new ones at every *)
(* moment, and exactly one of the two sets in the end.  They hold for any   *)
(* number of processes, sessions, lessons and rows.                         *)
(***************************************************************************)
EXTENDS Consolidate, TLAPS

LEMMA ConstantFacts ==
  /\ Id \subseteq Nat /\ Session \subseteq Nat /\ Global \in Session
  /\ MaxId \in Nat /\ MaxSession \in Nat
  /\ NoRow \notin Row
  /\ Numbers \subseteq Session
BY ConsolidateAssumption DEF ConsolidateAssumption, Id, Session, Global

(* The lessons of session s after a step. *)
FoundNext(s) == {i \in Id : rows'[i] # NoRow /\ rows'[i].from = s}

LEMMA FoundNextIsFound ==
  ASSUME NEW p \in Process
  PROVE  priorConsolidation(run[p].session)' = FoundNext(run'[p].session)
BY DEF priorConsolidation, Lessons, FoundNext

(* A step that leaves a run alone, except for what it has met. *)
Rest(q) ==
  /\ run'[q].pc = run[q].pc /\ run'[q].session = run[q].session
  /\ run'[q].force = run[q].force
  /\ run'[q].prior = run[q].prior /\ run'[q].todo = run[q].todo
  /\ run'[q].written = run[q].written /\ run'[q].left = run[q].left

(* What the rows of given ids may become. *)
RowsAge ==
  /\ nextId' \in Nat /\ nextId <= nextId'
  /\ \A i \in Id : i < nextId =>
       \/ rows'[i] = NoRow
       \/ rows[i] # NoRow /\ rows'[i].from = rows[i].from /\ rows'[i].born = rows[i].born

(* What an undisturbed run has met under the invariant. *)
LEMMA UndisturbedMet ==
  ASSUME MeetInv, NEW q \in Process, Undisturbed(q)
  PROVE  run[q].met = "nobody"
BY DEF MeetInv, Undisturbed

LEMMA RestRunInv ==
  ASSUME ConsolidateInv, NEW q \in Process, Rest(q), RowsAge
  PROVE  RunInv(q)'
<1>1. RunInv(q) /\ Held(q) \subseteq Id /\ Held(q)' = Held(q)
  BY DEF ConsolidateInv, TypeOK, RunState, Held, Rest
<1>2. nextId \in Nat
  BY ConstantFacts DEF ConsolidateInv, TypeOK
<1>3. ASSUME NEW i \in Held(q)
      PROVE  i < nextId' /\ (rows'[i] # NoRow => run'[q].session \in {rows'[i].from, rows'[i].born})
  <2>1. i \in Id /\ i \in Nat /\ i < nextId
        /\ (rows[i] # NoRow => run[q].session \in {rows[i].from, rows[i].born})
    BY <1>1, ConstantFacts DEF RunInv
  <2> QED
    BY <2>1, <1>2 DEF RowsAge, Rest
<1> QED
  BY <1>1, <1>3 DEF RunInv, Rest

LEMMA RestProgress ==
  ASSUME ConsolidateInv, NEW q \in Process, Rest(q), Undisturbed(q)' => Undisturbed(q),
         Undisturbed(q)' => FoundNext(run[q].session) = priorConsolidation(run[q].session)
  PROVE  Undisturbed(q)' => Progress(q)'
<1> SUFFICES ASSUME Undisturbed(q)'
             PROVE  Progress(q)'
  OBVIOUS
<1>1. Progress(q)
  BY DEF ConsolidateInv
<1>2. priorConsolidation(run[q].session)' = priorConsolidation(run[q].session)
  BY FoundNextIsFound DEF Rest
<1> QED
  BY <1>1, <1>2 DEF Progress, Rest

---------------------------------------------------------------------------
(* Steps of one run that leave the rows alone *)

LEMMA SameRows ==
  ASSUME ConsolidateInv, rows' = rows, nextId' = nextId
  PROVE  /\ RowsAge
         /\ \A s : FoundNext(s) = priorConsolidation(s)
<1>1. nextId \in Nat
  BY ConstantFacts DEF ConsolidateInv, TypeOK
<1> QED
  BY <1>1 DEF RowsAge, FoundNext, priorConsolidation, Lessons

LEMMA SameUndisturbed ==
  ASSUME NEW p \in Process, run[p].pc # "idle", run'[p].session = run[p].session,
         run'[p].met = run[p].met, renumbered \subseteq renumbered', broken' = broken
  PROVE  Undisturbed(p)' => Undisturbed(p)
BY DEF Undisturbed

(* A run goes on with the same session. *)
LEMMA RunGoesOn ==
  ASSUME ConsolidateInv, NEW p \in Process, UNCHANGED <<storeVars, lockVars>>,
         run[p].pc # "idle", NEW new \in RunState, run' = [run EXCEPT ![p] = new],
         new.pc # "idle", new.session = run[p].session, new.met = run[p].met,
         RunInv(p)', Undisturbed(p)' => Progress(p)'
  PROVE  ConsolidateInv'
<1> USE DEF storeVars, lockVars
<1>1. run[p] \in RunState /\ run'[p] = new /\ \A q \in Process \ {p} : run'[q] = run[q]
  BY DEF ConsolidateInv, TypeOK
<1>2. TypeOK'
  BY DEF ConsolidateInv, TypeOK
<1>3. RowsInv'
  BY DEF ConsolidateInv, RowsInv, Lessons
<1>4. \A s \in Session : OnSession(s)' = OnSession(s)
  BY <1>1 DEF OnSession
<1>5. \A q \in Process : run'[q].met = run[q].met
  BY <1>1
<1>6. MeetInv'
  <2>1. MeetInv
    BY DEF ConsolidateInv
  <2>2. \A q \in running' : run'[q].pc # "idle"
    BY <1>1, <2>1 DEF MeetInv, ConsolidateInv, TypeOK
  <2>3. \A s \in Session : \A q, r \in OnSession(s)' : q # r => run'[q].met # "nobody"
    BY <1>4, <1>5, <2>1 DEF MeetInv, OnSession
  <2> QED
    BY <1>5, <2>1, <2>2, <2>3 DEF MeetInv
<1>7. ASSUME NEW q \in Process \ {p}
      PROVE  RunInv(q)' /\ (Undisturbed(q)' => Progress(q)')
  <2>1. Rest(q) /\ (Undisturbed(q)' => Undisturbed(q))
    BY <1>1 DEF Rest, Undisturbed
  <2> QED
    BY <2>1, SameRows, RestRunInv, RestProgress
<1> QED
  BY <1>2, <1>3, <1>6, <1>7 DEF ConsolidateInv

LEMMA DistilledInv ==
  ASSUME ConsolidateInv, NEW p \in Process, Distilled(p)
  PROVE  ConsolidateInv'
<1>1. PICK lessons \in SUBSET Content \ {{}} :
        run' = [run EXCEPT ![p].pc = "write", ![p].todo = lessons]
  BY DEF Distilled
<1> DEFINE new == [run[p] EXCEPT !.pc = "write", !.todo = lessons]
<1>2. run[p] \in RunState /\ run[p].pc = "llm" /\ run[p].written = {} /\ RunInv(p)
  BY DEF Distilled, ConsolidateInv, TypeOK, RunInv
<1>3. new \in RunState /\ run' = [run EXCEPT ![p] = new] /\ run'[p] = new
  BY <1>1, <1>2 DEF RunState, ConsolidateInv, TypeOK
<1>4. /\ run'[p].pc = "write" /\ run'[p].session = run[p].session /\ run'[p].force = run[p].force
      /\ run'[p].prior = run[p].prior /\ run'[p].written = {} /\ run'[p].left = run[p].left
      /\ run'[p].met = run[p].met
  BY <1>2, <1>3 DEF RunState
<1>5. UNCHANGED <<rows, nextId, renumbered, broken>>
  BY DEF Distilled, storeVars, lockVars
<1>6. RunInv(p)'
  BY <1>2, <1>4, <1>5 DEF RunInv, Held
<1>7. Undisturbed(p)' => Progress(p)'
  <2>1. Undisturbed(p)' => Undisturbed(p)
    BY <1>2, <1>4, <1>5 DEF Undisturbed
  <2>2. Undisturbed(p) => priorConsolidation(run[p].session) = run[p].prior
    BY <1>2 DEF ConsolidateInv, Progress
  <2>3. priorConsolidation(run[p].session)' = priorConsolidation(run[p].session)
    BY <1>4, <1>5 DEF priorConsolidation, Lessons
  <2> QED
    BY <1>4, <2>1, <2>2, <2>3 DEF Progress
<1> QED
  BY <1>2, <1>3, <1>4, <1>6, <1>7, RunGoesOn DEF Distilled

LEMMA WriteThrowsInv ==
  ASSUME ConsolidateInv, NEW p \in Process, WriteThrows(p)
  PROVE  ConsolidateInv'
<1> DEFINE new == [run[p] EXCEPT !.pc = "rollback", !.left = run[p].written \ run[p].prior]
<1>1. run[p] \in RunState /\ run[p].pc = "write" /\ RunInv(p)
  BY DEF WriteThrows, ConsolidateInv, TypeOK
<1>2. new \in RunState /\ run' = [run EXCEPT ![p] = new] /\ run'[p] = new
  BY <1>1 DEF RunState, ConsolidateInv, TypeOK, WriteThrows
<1>3. /\ run'[p].pc = "rollback" /\ run'[p].session = run[p].session
      /\ run'[p].force = run[p].force /\ run'[p].prior = run[p].prior
      /\ run'[p].written = run[p].written /\ run'[p].left = run[p].written \ run[p].prior
      /\ run'[p].met = run[p].met
  BY <1>1, <1>2 DEF RunState
<1>4. UNCHANGED <<rows, nextId, renumbered, broken>>
  BY DEF WriteThrows, storeVars, lockVars
<1>5. RunInv(p)'
  BY <1>1, <1>3, <1>4 DEF RunInv, Held
<1>6. Undisturbed(p)' => Progress(p)'
  <2>1. Undisturbed(p)' => Undisturbed(p)
    BY <1>1, <1>3, <1>4 DEF Undisturbed
  <2>2. Undisturbed(p) => priorConsolidation(run[p].session) = run[p].prior \cup run[p].written
    BY <1>1 DEF ConsolidateInv, Progress
  <2>3. priorConsolidation(run[p].session)' = priorConsolidation(run[p].session)
    BY <1>3, <1>4 DEF priorConsolidation, Lessons
  <2> QED
    BY <1>3, <2>1, <2>2, <2>3 DEF Progress
<1> QED
  BY <1>1, <1>2, <1>3, <1>5, <1>6, RunGoesOn DEF WriteThrows

LEMMA ReplaceInv ==
  ASSUME ConsolidateInv, NEW p \in Process, run[p].pc = "write", run[p].todo = {},
         run' = [run EXCEPT ![p].pc = "replace", ![p].left = run[p].prior \ run[p].written],
         UNCHANGED <<storeVars, lockVars>>
  PROVE  ConsolidateInv'
<1> DEFINE new == [run[p] EXCEPT !.pc = "replace", !.left = run[p].prior \ run[p].written]
<1>1. run[p] \in RunState /\ RunInv(p)
  BY DEF ConsolidateInv, TypeOK
<1>2. new \in RunState /\ run' = [run EXCEPT ![p] = new] /\ run'[p] = new
  BY <1>1 DEF RunState, ConsolidateInv, TypeOK
<1>3. /\ run'[p].pc = "replace" /\ run'[p].session = run[p].session
      /\ run'[p].force = run[p].force /\ run'[p].prior = run[p].prior
      /\ run'[p].written = run[p].written /\ run'[p].left = run[p].prior \ run[p].written
      /\ run'[p].todo = {} /\ run'[p].met = run[p].met
  BY <1>1, <1>2 DEF RunState
<1>4. UNCHANGED <<rows, nextId, renumbered, broken>>
  BY DEF storeVars, lockVars
<1>5. RunInv(p)'
  <2>1. Held(p)' = run[p].prior \cup run[p].written /\ Held(p)' \subseteq Held(p)
    BY <1>3 DEF Held
  <2>2. \A i \in Held(p)' :
          i < nextId' /\ (rows'[i] # NoRow => run'[p].session \in {rows'[i].from, rows'[i].born})
    BY <1>1, <1>3, <1>4, <2>1 DEF RunInv
  <2>3. run'[p].todo = {} /\ run'[p].left \cap run'[p].written = {}
    BY <1>3
  <2>4. run'[p].prior # {} => run'[p].force
    BY <1>1, <1>3 DEF RunInv
  <2>5. run'[p].pc = "replace"
    BY <1>3
  <2> QED
    BY <2>2, <2>3, <2>4, <2>5 DEF RunInv
<1>6. Undisturbed(p)' => Progress(p)'
  <2>1. Undisturbed(p)' => Undisturbed(p)
    BY <1>3, <1>4, SameUndisturbed
  <2>2. Undisturbed(p) => priorConsolidation(run[p].session) = run[p].prior \cup run[p].written
    BY <1>1 DEF ConsolidateInv, Progress
  <2>3. priorConsolidation(run[p].session)' = priorConsolidation(run[p].session)
    BY <1>3, <1>4 DEF priorConsolidation, Lessons
  <2> QED
    BY <1>3, <2>1, <2>2, <2>3 DEF Progress
<1> QED
  BY <1>1, <1>2, <1>3, <1>5, <1>6, RunGoesOn

(* A run ends, whatever it has left undone. *)
LEMMA RunEnds ==
  ASSUME ConsolidateInv, NEW p \in Process, Finish(p), UNCHANGED storeVars
  PROVE  ConsolidateInv'
<1> USE DEF storeVars
<1>1. run'[p] = Idle /\ \A q \in Process \ {p} : run'[q] = run[q]
  BY DEF ConsolidateInv, TypeOK, Finish
<1>2. running' = running \ {p} /\ broken' = broken
  BY DEF Finish, Leave, Lock!End, lockVars, ConsolidateInv, TypeOK
<1>3. TypeOK'
  <2>1. Idle \in RunState
    BY ConstantFacts DEF Idle, RunState
  <2> QED
    BY <1>2, <2>1 DEF ConsolidateInv, TypeOK, Finish
<1>4. RowsInv'
  BY DEF ConsolidateInv, RowsInv, Lessons
<1>5. MeetInv'
  <2>1. MeetInv /\ Idle.met = "nobody" /\ Idle.pc = "idle"
    BY DEF ConsolidateInv, Idle
  <2>2. \A q \in running' : run'[q].pc # "idle"
    BY <1>1, <1>2, <2>1 DEF MeetInv, ConsolidateInv, TypeOK
  <2>3. \A q \in Process : run'[q].met = "cadence" => broken'
    BY <1>1, <1>2, <2>1 DEF MeetInv
  <2>4. \A s \in Session : \A q, r \in OnSession(s)' : q # r => run'[q].met # "nobody"
    <3>1. \A s \in Session : \A q \in OnSession(s)' : q \in OnSession(s) /\ q # p
      BY <1>1, <2>1 DEF OnSession
    <3> QED
      BY <1>1, <2>1, <3>1 DEF MeetInv, OnSession
  <2> QED
    BY <1>2, <2>1, <2>2, <2>3, <2>4 DEF MeetInv
<1>6. RunInv(p)' /\ ~Undisturbed(p)'
  BY <1>1 DEF Idle, RunInv, Held, Undisturbed
<1>7. ASSUME NEW q \in Process \ {p}
      PROVE  RunInv(q)' /\ (Undisturbed(q)' => Progress(q)')
  <2>1. Rest(q) /\ (Undisturbed(q)' => Undisturbed(q))
    BY <1>1, <1>2 DEF Rest, Undisturbed
  <2> QED
    BY <2>1, SameRows, RestRunInv, RestProgress
<1> QED
  BY <1>3, <1>4, <1>5, <1>6, <1>7 DEF ConsolidateInv

LEMMA AllWrittenInv ==
  ASSUME ConsolidateInv, NEW p \in Process, AllWritten(p)
  PROVE  ConsolidateInv'
BY ReplaceInv, RunEnds DEF AllWritten

---------------------------------------------------------------------------
(* The start of a run *)

LEMMA BeginInv ==
  ASSUME ConsolidateInv, NEW p \in Process, Begin(p)
  PROVE  ConsolidateInv'
<1> USE DEF storeVars
<1>1. PICK s \in turns, force \in BOOLEAN :
        /\ priorConsolidation(s) # {} => force
        /\ Enter(p, force)
        /\ run' = [q \in Process |->
                     IF q = p
                     THEN [Idle EXCEPT !.pc = "llm", !.session = s, !.force = force,
                                       !.prior = priorConsolidation(s),
                                       !.met = Meets(p, "nobody", OnSession(s))]
                     ELSE IF q \in OnSession(s)
                     THEN [run[q] EXCEPT !.met = Meets(q, @, {p})]
                     ELSE run[q]]
  BY DEF Begin
<1>2. UNCHANGED storeVars /\ run[p].pc = "idle" /\ s \in Session
  BY DEF Begin, ConsolidateInv, TypeOK
<1>3. MeetInv /\ TypeOK /\ p \notin running
  BY <1>2 DEF ConsolidateInv, MeetInv
<1>4. /\ broken' = broken /\ running' \subseteq running \cup {p} /\ running \subseteq running'
      /\ p \in running' => broken \/ running = {}
  BY <1>1, <1>3 DEF Enter, Lock!Begin, lockVars
<1>5. /\ run'[p].pc = "llm" /\ run'[p].session = s /\ run'[p].force = force
      /\ run'[p].prior = priorConsolidation(s) /\ run'[p].written = {} /\ run'[p].left = {}
      /\ run'[p].todo = {} /\ run'[p].met = Meets(p, "nobody", OnSession(s))
  BY <1>1 DEF Idle
<1>6. ASSUME NEW q \in Process \ {p}
      PROVE  /\ Rest(q)
             /\ run'[q].met = IF q \in OnSession(s) THEN Meets(q, run[q].met, {p}) ELSE run[q].met
  BY <1>1, <1>3 DEF Rest, TypeOK, RunState
<1>7. /\ \A q, met, Q : Q # {} => Meets(q, met, Q) \in {"any", "cadence"}
      /\ \A q, met : Meets(q, met, {}) = met
      /\ \A q, met, Q : Meets(q, met, Q) = "cadence" => met = "cadence" \/ {q} \cup Q \subseteq running'
  BY DEF Meets
<1>8. TypeOK'
  <2>1. priorConsolidation(s) \subseteq Id
    BY DEF priorConsolidation, Lessons
  <2>2. \A q \in Process, met \in {"nobody", "cadence", "any"} : \A Q :
          Meets(q, met, Q) \in {"nobody", "cadence", "any"}
    BY DEF Meets
  <2>3. [Idle EXCEPT !.pc = "llm", !.session = s, !.force = force,
                     !.prior = priorConsolidation(s),
                     !.met = Meets(p, "nobody", OnSession(s))] \in RunState
    BY <1>2, <2>1, <2>2 DEF Idle, RunState
  <2>4. ASSUME NEW q \in Process
        PROVE  [run[q] EXCEPT !.met = Meets(q, @, {p})] \in RunState
    <3>1. run[q] \in RunState /\ Meets(q, run[q].met, {p}) \in {"nobody", "cadence", "any"}
      BY <1>3, <2>2 DEF TypeOK, RunState
    <3> QED
      BY <3>1 DEF RunState
  <2>5. run' \in [Process -> RunState]
    BY <1>1, <1>3, <2>3, <2>4 DEF TypeOK
  <2> QED
    BY <1>2, <1>3, <1>4, <2>5 DEF TypeOK
<1>9. RowsInv'
  BY <1>2 DEF ConsolidateInv, RowsInv, Lessons
<1>10. MeetInv'
  <2>1. \A q \in running' : run'[q].pc # "idle"
    BY <1>3, <1>4, <1>5, <1>6 DEF MeetInv, TypeOK, Rest
  <2>2. ASSUME NEW q \in Process, NEW r \in Process, q # r, {q, r} \subseteq running'
        PROVE  broken'
    <3>1. CASE p \in {q, r}
      BY <1>4, <2>2, <3>1
    <3>2. CASE p \notin {q, r}
      BY <1>3, <1>4, <2>2, <3>2 DEF MeetInv
    <3> QED
      BY <3>1, <3>2
  <2>3. ASSUME NEW q \in Process, run'[q].met = "cadence"
        PROVE  broken'
    <3>1. CASE q = p
      <4>1. PICK r \in OnSession(s) : {p, r} \subseteq running'
        BY <1>5, <1>7, <2>3, <3>1
      <4>2. r \in Process /\ r # p
        BY <1>2 DEF OnSession
      <4> QED
        BY <2>2, <4>1, <4>2
    <3>2. CASE q # p /\ q \in OnSession(s) /\ run[q].met # "cadence"
      <4>1. {q} \cup {p} \subseteq running'
        BY <1>6, <1>7, <2>3, <3>2
      <4> QED
        BY <2>2, <3>2, <4>1
    <3>3. CASE q # p /\ run[q].met = "cadence"
      BY <1>3, <1>4, <3>3 DEF MeetInv
    <3>4. CASE q # p /\ q \notin OnSession(s)
      BY <1>3, <1>4, <1>6, <2>3, <3>4 DEF MeetInv
    <3> QED
      BY <3>1, <3>2, <3>3, <3>4
  <2>4. ASSUME NEW t \in Session, NEW q \in OnSession(t)', NEW r \in OnSession(t)', q # r
        PROVE  run'[q].met # "nobody"
    <3>1. q \in Process /\ r \in Process
          /\ run'[q].pc # "idle" /\ run'[q].session = t
          /\ run'[r].pc # "idle" /\ run'[r].session = t
      BY DEF OnSession
    <3>2. CASE q = p
      <4>1. r \in OnSession(s)
        BY <1>5, <1>6, <2>4, <3>1, <3>2 DEF OnSession, Rest
      <4> QED
        BY <1>5, <1>7, <3>2, <4>1
    <3>3. CASE q # p /\ r = p
      <4>1. q \in OnSession(s)
        BY <1>5, <1>6, <3>1, <3>3 DEF OnSession, Rest
      <4> QED
        BY <1>6, <1>7, <3>1, <3>3, <4>1
    <3>4. CASE q # p /\ r # p
      <4>1. q \in OnSession(t) /\ r \in OnSession(t)
        BY <1>6, <3>1, <3>4 DEF OnSession, Rest
      <4>2. run[q].met # "nobody"
        BY <1>3, <2>4, <4>1 DEF MeetInv
      <4> QED
        BY <1>6, <1>7, <3>1, <3>4, <4>2
    <3> QED
      BY <3>2, <3>3, <3>4
  <2>5. broken' \/ \A q, r \in running' : q = r
    BY <1>8, <2>2 DEF TypeOK
  <2> QED
    BY <2>1, <2>3, <2>4, <2>5 DEF MeetInv
<1>11. RunInv(p)' /\ Progress(p)'
  <2>1. \A i \in priorConsolidation(s) : i \in Id /\ rows[i] # NoRow /\ rows[i].from = s
    BY DEF priorConsolidation, Lessons
  <2>2. \A i \in priorConsolidation(s) : i < nextId
    <3>1. nextId \in Nat /\ \A i \in Id : i \in Nat /\ (i >= nextId => rows[i] = NoRow)
      BY <1>3, ConstantFacts DEF ConsolidateInv, RowsInv, TypeOK
    <3> QED
      BY <2>1, <3>1
  <2>3. Held(p)' = priorConsolidation(s)
    BY <1>5 DEF Held
  <2>4. RunInv(p)'
    BY <1>1, <1>2, <1>5, <2>1, <2>2, <2>3 DEF RunInv
  <2>5. priorConsolidation(run[p].session)' = priorConsolidation(s)
    BY <1>2, <1>5 DEF priorConsolidation, Lessons
  <2> QED
    BY <1>5, <2>4, <2>5 DEF Progress
<1>12. ASSUME NEW q \in Process \ {p}
       PROVE  RunInv(q)' /\ (Undisturbed(q)' => Progress(q)')
  <2>1. Undisturbed(q)' => run'[q].met = "nobody"
    BY <1>10 DEF MeetInv, Undisturbed
  <2>2. run'[q].met = "nobody" => run[q].met = "nobody"
    BY <1>6, <1>7
  <2>3. Undisturbed(q)' => Undisturbed(q)
    BY <1>2, <1>6, <2>1, <2>2 DEF Undisturbed, Rest
  <2> QED
    BY <1>2, <1>6, <2>3, SameRows, RestRunInv, RestProgress
<1> QED
  BY <1>8, <1>9, <1>10, <1>11, <1>12 DEF ConsolidateInv

---------------------------------------------------------------------------
(* Steps that change the rows *)

(* The types of all variables except run. *)
StoreOK ==
  /\ rows \in [Id -> Row \cup {NoRow}]
  /\ nextId \in 1 .. MaxId + 1
  /\ nextSession \in 1 .. MaxSession + 1
  /\ turns \subseteq sessions /\ sessions \subseteq Session
  /\ renumbered \subseteq Session
  /\ running \subseteq Process /\ broken \in BOOLEAN

(* Somebody else's step: it touches the runs T, and the session of no other      *)
(* undisturbed run gains or loses a lesson.                                      *)
LEMMA OthersStep ==
  ASSUME ConsolidateInv, StoreOK', RowsInv', RowsAge, UNCHANGED lockVars,
         renumbered \subseteq renumbered', NEW T, Touch(T),
         \A q \in Process \ T : Undisturbed(q)' =>
           FoundNext(run[q].session) = priorConsolidation(run[q].session)
  PROVE  ConsolidateInv'
<1> USE DEF lockVars
<1>1. TypeOK /\ MeetInv
  BY DEF ConsolidateInv
<1>2. ASSUME NEW q \in Process
      PROVE  /\ run'[q] = IF run[q].pc # "idle" /\ q \in T
                          THEN [run[q] EXCEPT !.met = "any"] ELSE run[q]
             /\ Rest(q) /\ run'[q] \in RunState
             /\ run'[q].met \in {run[q].met, "any"}
             /\ q \in T /\ run[q].pc # "idle" => run'[q].met = "any"
             /\ q \notin T => run'[q].met = run[q].met
  <2>1. run'[q] = IF run[q].pc # "idle" /\ q \in T
                  THEN [run[q] EXCEPT !.met = "any"] ELSE run[q]
    BY DEF Touch
  <2>2. run[q] \in RunState
    BY <1>1 DEF TypeOK
  <2> QED
    BY <2>1, <2>2 DEF RunState, Rest
<1>3. TypeOK'
  <2>1. run' \in [Process -> RunState]
    BY <1>2 DEF Touch
  <2> QED
    BY <2>1 DEF TypeOK, StoreOK
<1>4. MeetInv'
  <2>1. \A s \in Session : OnSession(s)' = OnSession(s)
    BY <1>2 DEF OnSession, Rest
  <2>2. \A q \in running' : run'[q].pc # "idle"
    BY <1>1, <1>2 DEF MeetInv, TypeOK, Rest
  <2>3. \A q \in Process : run'[q].met = "cadence" => broken'
    BY <1>1, <1>2 DEF MeetInv
  <2>4. \A s \in Session : \A q, r \in OnSession(s)' : q # r => run'[q].met # "nobody"
    BY <1>1, <1>2, <2>1 DEF MeetInv, OnSession
  <2> QED
    BY <1>1, <2>2, <2>3, <2>4 DEF MeetInv
<1>5. ASSUME NEW q \in Process
      PROVE  RunInv(q)' /\ (Undisturbed(q)' => Progress(q)')
  <2>1. RunInv(q)'
    BY <1>2, RestRunInv
  <2>2. CASE q \in T
    BY <1>1, <1>2, <2>1, <2>2 DEF Undisturbed, Rest
  <2>3. CASE q \notin T
    <3>1. Undisturbed(q)' => Undisturbed(q)
      BY <1>2, <2>3 DEF Undisturbed, Rest
    <3> QED
      BY <1>2, <2>1, <2>3, <3>1, RestProgress
  <2> QED
    BY <2>2, <2>3
<1> QED
  BY <1>3, <1>4, <1>5 DEF ConsolidateInv

(* createObservation: the row is there afterwards, and only its session gains. *)
LEMMA InsertRows ==
  ASSUME ConsolidateInv, NEW i \in Id, NEW row \in Row, Insert(i, row),
         renumbered \subseteq renumbered',
         row.from # row.born => {row.from, row.born} \subseteq renumbered'
  PROVE  /\ rows' \in [Id -> Row \cup {NoRow}] /\ nextId' \in 1 .. MaxId + 1
         /\ RowsInv' /\ RowsAge
         /\ i < nextId' /\ rows'[i] # NoRow /\ rows'[i].born = row.born
         /\ rows'[i].from # row.from => rows'[i].from # rows'[i].born \/ row.from # row.born
         /\ \A t : FoundNext(t) = IF rows'[i].from = t THEN priorConsolidation(t) \cup {i}
                                                       ELSE priorConsolidation(t)
<1>1. TypeOK /\ RowsInv /\ nextId \in Nat /\ Id \subseteq Nat /\ MaxId \in Nat /\ row # NoRow
  BY ConstantFacts DEF ConsolidateInv, TypeOK
<1>2. CASE i \in Same(row.born, row.content) /\ UNCHANGED <<rows, nextId>>
  <2>1. i \in Lessons /\ rows[i].born = row.born
    BY <1>2 DEF Same
  <2>2. i < nextId
    BY <1>1, <2>1 DEF RowsInv, Lessons
  <2>3. RowsInv'
    BY <1>1, <1>2 DEF RowsInv, Lessons
  <2>4. RowsAge /\ \A t : FoundNext(t) = priorConsolidation(t)
    BY <1>2, SameRows
  <2>5. \A t : rows[i].from = t => i \in priorConsolidation(t)
    BY <2>1 DEF priorConsolidation
  <2> QED
    BY <1>1, <1>2, <2>1, <2>2, <2>3, <2>4, <2>5 DEF TypeOK, Lessons
<1>3. CASE /\ Same(row.born, row.content) = {}
           /\ i = nextId /\ nextId \in Id
           /\ rows' = [rows EXCEPT ![i] = row]
           /\ nextId' = nextId + 1
  <2>1. rows'[i] = row /\ \A j \in Id \ {i} : rows'[j] = rows[j]
    BY <1>1, <1>3 DEF TypeOK
  <2>2. rows[i] = NoRow
    BY <1>1, <1>3 DEF RowsInv
  <2>3. rows' \in [Id -> Row \cup {NoRow}] /\ nextId' \in 1 .. MaxId + 1
    BY <1>1, <1>3 DEF TypeOK, Id
  <2>4. RowsInv'
    <3>1. Lessons' = Lessons \cup {i}
      BY <1>1, <2>1 DEF Lessons
    <3>2. \A j \in Id : j >= nextId' => rows'[j] = NoRow
      BY <1>1, <1>3, <2>1 DEF RowsInv
    <3>3. \A j \in Lessons : rows[j].born = row.born => rows[j].content # row.content
      BY <1>3 DEF Same
    <3>4. \A j, k \in Lessons' :
            rows'[j].born = rows'[k].born /\ rows'[j].content = rows'[k].content => j = k
      BY <1>1, <2>1, <3>1, <3>3 DEF RowsInv, Lessons
    <3>5. \A j \in Lessons' :
            rows'[j].from # rows'[j].born => {rows'[j].from, rows'[j].born} \subseteq renumbered'
      BY <1>1, <2>1, <3>1 DEF RowsInv, Lessons
    <3> QED
      BY <3>2, <3>4, <3>5 DEF RowsInv
  <2>5. RowsAge
    BY <1>1, <1>3, <2>1 DEF RowsAge
  <2>6. \A t : FoundNext(t) = IF rows'[i].from = t THEN priorConsolidation(t) \cup {i}
                                                    ELSE priorConsolidation(t)
    BY <1>1, <2>1, <2>2 DEF FoundNext, priorConsolidation, Lessons
  <2> QED
    BY <1>1, <1>3, <2>1, <2>3, <2>4, <2>5, <2>6
<1> QED
  BY <1>2, <1>3 DEF Insert

(* Deleting rows: only the sessions they came from lose. *)
LEMMA DeleteRows ==
  ASSUME ConsolidateInv, NEW Gone, nextId' = nextId, renumbered' = renumbered,
         rows' = [i \in Id |-> IF i \in Gone THEN NoRow ELSE rows[i]]
  PROVE  /\ rows' \in [Id -> Row \cup {NoRow}]
         /\ RowsInv' /\ RowsAge
         /\ \A t : FoundNext(t) = priorConsolidation(t) \ Gone
<1>1. TypeOK /\ RowsInv /\ nextId \in Nat
  BY ConstantFacts DEF ConsolidateInv, TypeOK
<1>2. RowsInv'
  <2>1. Lessons' \subseteq Lessons /\ \A i \in Lessons' : rows'[i] = rows[i]
    BY DEF Lessons
  <2> QED
    BY <1>1, <2>1 DEF RowsInv
<1>3. RowsAge
  BY <1>1 DEF RowsAge
<1>4. \A t : FoundNext(t) = priorConsolidation(t) \ Gone
  BY DEF FoundNext, priorConsolidation, Lessons
<1> QED
  BY <1>1, <1>2, <1>3, <1>4 DEF TypeOK

(* A step of run p on one row of its session: nobody else sees it undisturbed. *)
LEMMA OwnStep ==
  ASSUME ConsolidateInv, StoreOK', RowsInv', RowsAge, UNCHANGED <<renumbered, lockVars>>,
         NEW p \in Process, run[p].pc # "idle",
         NEW new \in RunState, run' = [run EXCEPT ![p] = new],
         new.pc # "idle", new.session = run[p].session, new.met = run[p].met,
         RunInv(p)', Undisturbed(p)' => Progress(p)',
         \A t \in Session \ renumbered : t # run[p].session =>
           FoundNext(t) = priorConsolidation(t)
  PROVE  ConsolidateInv'
<1> USE DEF lockVars
<1>1. TypeOK /\ MeetInv /\ run'[p] = new /\ \A q \in Process \ {p} : run'[q] = run[q]
  BY DEF ConsolidateInv, TypeOK
<1>2. TypeOK'
  BY <1>1 DEF TypeOK, StoreOK
<1>3. \A s \in Session : OnSession(s)' = OnSession(s)
  BY <1>1 DEF OnSession
<1>4. \A q \in Process : run'[q].met = run[q].met
  BY <1>1
<1>5. MeetInv'
  <2>1. \A q \in running' : run'[q].pc # "idle"
    BY <1>1 DEF MeetInv, TypeOK
  <2>2. \A s \in Session : \A q, r \in OnSession(s)' : q # r => run'[q].met # "nobody"
    BY <1>1, <1>3, <1>4 DEF MeetInv, OnSession
  <2> QED
    BY <1>1, <1>4, <2>1, <2>2 DEF MeetInv
<1>6. ASSUME NEW q \in Process \ {p}
      PROVE  RunInv(q)' /\ (Undisturbed(q)' => Progress(q)')
  <2>1. Rest(q) /\ (Undisturbed(q)' => Undisturbed(q))
    BY <1>1 DEF Rest, Undisturbed
  <2>2. ASSUME Undisturbed(q)
        PROVE  FoundNext(run[q].session) = priorConsolidation(run[q].session)
    <3>1. run[q].met = "nobody" /\ run[q].session \in Session \ renumbered
      BY <1>1, <2>2, UndisturbedMet DEF Undisturbed, TypeOK, RunState
    <3>2. run[q].session # run[p].session
      BY <1>1, <2>2, <3>1 DEF MeetInv, OnSession, Undisturbed
    <3> QED
      BY <3>1, <3>2
  <2> QED
    BY <2>1, <2>2, RestRunInv, RestProgress
<1> QED
  BY <1>2, <1>5, <1>6, <1>1 DEF ConsolidateInv

LEMMA writeLessonInv ==
  ASSUME ConsolidateInv, NEW p \in Process, writeLesson(p)
  PROVE  ConsolidateInv'
<1>1. PICK c \in run[p].todo, i \in Id :
        /\ Insert(i, Lesson(run[p].session, c))
        /\ run' = [run EXCEPT ![p].todo = @ \ {c}, ![p].written = @ \cup {i}]
  BY DEF writeLesson
<1> DEFINE s == run[p].session
           row == Lesson(s, c)
           new == [run[p] EXCEPT !.todo = @ \ {c}, !.written = @ \cup {i}]
<1>2. TypeOK /\ run[p] \in RunState /\ run[p].pc = "write" /\ RunInv(p)
      /\ s \in Session /\ c \in Content
  BY DEF writeLesson, ConsolidateInv, TypeOK, RunState
<1>3. UNCHANGED <<turns, sessions, nextSession, renumbered, running, broken>>
  BY DEF writeLesson, lockVars
<1>4. row \in Row /\ row.from = s /\ row.born = s /\ Insert(i, row)
  BY <1>1, <1>2 DEF Row, Lesson
<1>5. /\ rows' \in [Id -> Row \cup {NoRow}] /\ nextId' \in 1 .. MaxId + 1
      /\ RowsInv' /\ RowsAge
      /\ i < nextId' /\ rows'[i] # NoRow /\ rows'[i].born = s
      /\ \A t : FoundNext(t) = IF rows'[i].from = t THEN priorConsolidation(t) \cup {i}
                                                    ELSE priorConsolidation(t)
  <2> HIDE DEF row
  <2> QED
    BY <1>3, <1>4, InsertRows
<1>6. s \notin renumbered => rows'[i].from = s
  BY <1>3, <1>5 DEF RowsInv, Lessons
<1>7. \A t \in Session \ renumbered : t # s => FoundNext(t) = priorConsolidation(t)
  BY <1>3, <1>5 DEF RowsInv, Lessons
<1>8. new \in RunState /\ run' = [run EXCEPT ![p] = new] /\ run'[p] = new
  BY <1>1, <1>2 DEF RunState, TypeOK
<1>9. /\ run'[p].pc = "write" /\ run'[p].session = s /\ run'[p].force = run[p].force
      /\ run'[p].prior = run[p].prior /\ run'[p].written = run[p].written \cup {i}
      /\ run'[p].left = run[p].left /\ run'[p].met = run[p].met
  BY <1>2, <1>8 DEF RunState
<1>10. StoreOK'
  BY <1>2, <1>3, <1>5 DEF TypeOK, StoreOK
<1>11. RunInv(p)'
  <2>1. Held(p)' = Held(p) \cup {i} /\ Held(p) \subseteq Id
    BY <1>2, <1>9 DEF Held, RunState
  <2>2. ASSUME NEW j \in Held(p)
        PROVE  j < nextId' /\ (rows'[j] # NoRow => s \in {rows'[j].from, rows'[j].born})
    <3>1. j \in Id /\ j < nextId /\ (rows[j] # NoRow => s \in {rows[j].from, rows[j].born})
      BY <1>2, <2>1 DEF RunInv
    <3>2. j \in Nat
      BY <3>1, ConstantFacts
    <3>3. nextId \in Nat
      BY ConstantFacts DEF ConsolidateInv, TypeOK
    <3> QED
      BY <1>5, <3>1, <3>2, <3>3 DEF RowsAge
  <2>3. \A j \in Held(p)' :
          j < nextId' /\ (rows'[j] # NoRow => run'[p].session \in {rows'[j].from, rows'[j].born})
    BY <1>5, <1>9, <2>1, <2>2
  <2>4. run'[p].prior # {} => run'[p].force
    BY <1>2, <1>9 DEF RunInv
  <2> QED
    BY <1>9, <2>3, <2>4 DEF RunInv
<1>12. Undisturbed(p)' => Progress(p)'
  <2>1. Undisturbed(p)' => Undisturbed(p) /\ s \notin renumbered
    BY <1>2, <1>3, <1>9, SameUndisturbed DEF Undisturbed
  <2>2. Undisturbed(p) => priorConsolidation(s) = run[p].prior \cup run[p].written
    BY <1>2 DEF ConsolidateInv, Progress
  <2>3. priorConsolidation(run[p].session)' = FoundNext(s)
    BY <1>9, FoundNextIsFound
  <2> QED
    BY <1>5, <1>6, <1>9, <2>1, <2>2, <2>3 DEF Progress
<1> QED
  BY <1>2, <1>3, <1>5, <1>7, <1>8, <1>9, <1>10, <1>11, <1>12, OwnStep DEF lockVars

LEMMA DeleteNextInv ==
  ASSUME ConsolidateInv, NEW p \in Process, DeleteNext(p)
  PROVE  ConsolidateInv'
<1>1. PICK i \in run[p].left : /\ rows' = [rows EXCEPT ![i] = NoRow]
                               /\ run' = [run EXCEPT ![p].left = @ \ {i}]
  BY DEF DeleteNext
<1> DEFINE s == run[p].session
           new == [run[p] EXCEPT !.left = @ \ {i}]
<1>2. TypeOK /\ run[p] \in RunState /\ run[p].pc \in {"rollback", "replace"} /\ RunInv(p)
      /\ s \in Session /\ i \in Id
  BY DEF DeleteNext, ConsolidateInv, TypeOK, RunState
<1>3. UNCHANGED <<nextId, turns, sessions, nextSession, renumbered, running, broken>>
  BY DEF DeleteNext, lockVars
<1>4. rows' = [j \in Id |-> IF j \in {i} THEN NoRow ELSE rows[j]]
  BY <1>1, <1>2 DEF TypeOK
<1>5. /\ rows' \in [Id -> Row \cup {NoRow}] /\ RowsInv' /\ RowsAge
      /\ \A t : FoundNext(t) = priorConsolidation(t) \ {i}
  BY <1>3, <1>4, DeleteRows
<1>6. \A t \in Session \ renumbered : t # s => FoundNext(t) = priorConsolidation(t)
  <2>1. rows[i] # NoRow => s \in {rows[i].from, rows[i].born}
    BY <1>2 DEF RunInv, Held
  <2>2. \A t \in Session \ renumbered : t # s => i \notin priorConsolidation(t)
    BY <2>1 DEF ConsolidateInv, RowsInv, priorConsolidation, Lessons
  <2> QED
    BY <1>5, <2>2
<1>7. new \in RunState /\ run' = [run EXCEPT ![p] = new] /\ run'[p] = new
  BY <1>1, <1>2 DEF RunState, TypeOK
<1>8. /\ run'[p].pc = run[p].pc /\ run'[p].session = s /\ run'[p].force = run[p].force
      /\ run'[p].prior = run[p].prior /\ run'[p].written = run[p].written
      /\ run'[p].left = run[p].left \ {i} /\ run'[p].todo = run[p].todo
      /\ run'[p].met = run[p].met
  BY <1>2, <1>7 DEF RunState
<1>9. StoreOK'
  BY <1>2, <1>3, <1>5 DEF TypeOK, StoreOK
<1>10. RunInv(p)'
  <2>1. Held(p)' \subseteq Held(p) /\ Held(p) \subseteq Id
    BY <1>2, <1>8 DEF Held, RunState
  <2>2. \A j \in Held(p)' :
          j < nextId' /\ (rows'[j] # NoRow => run'[p].session \in {rows'[j].from, rows'[j].born})
    BY <1>2, <1>3, <1>4, <1>8, <2>1 DEF RunInv
  <2>3. run'[p].prior # {} => run'[p].force
    BY <1>2, <1>8 DEF RunInv
  <2>4. run'[p].pc = "rollback" => run'[p].left \cap run'[p].prior = {}
    BY <1>2, <1>8 DEF RunInv
  <2>5. run'[p].pc = "replace" => run'[p].todo = {} /\ run'[p].left \cap run'[p].written = {}
    BY <1>2, <1>8 DEF RunInv
  <2>6. run'[p].pc # "llm"
    BY <1>2, <1>8
  <2> QED
    BY <2>2, <2>3, <2>4, <2>5, <2>6 DEF RunInv
<1>11. Undisturbed(p)' => Progress(p)'
  <2>1. Undisturbed(p)' => Undisturbed(p)
    BY <1>2, <1>3, <1>8, SameUndisturbed
  <2>2. priorConsolidation(run[p].session)' = priorConsolidation(s) \ {i}
    BY <1>5, <1>8, FoundNextIsFound
  <2>3. CASE run[p].pc = "rollback"
    <3>1. Undisturbed(p) => priorConsolidation(s) = run[p].prior \cup run[p].left
      BY <2>3 DEF ConsolidateInv, Progress
    <3>2. i \notin run[p].prior
      BY <1>2, <2>3 DEF RunInv
    <3> QED
      BY <1>8, <2>1, <2>2, <2>3, <3>1, <3>2 DEF Progress
  <2>4. CASE run[p].pc = "replace"
    <3>1. Undisturbed(p) => priorConsolidation(s) = run[p].written \cup run[p].left
      BY <2>4 DEF ConsolidateInv, Progress
    <3>2. i \notin run[p].written
      BY <1>2, <2>4 DEF RunInv
    <3> QED
      BY <1>8, <2>1, <2>2, <2>4, <3>1, <3>2 DEF Progress
  <2> QED
    BY <1>2, <2>3, <2>4
<1> QED
  BY <1>2, <1>3, <1>5, <1>6, <1>7, <1>8, <1>9, <1>10, <1>11, OwnStep DEF lockVars

---------------------------------------------------------------------------
(* Steps of the rest of the program *)

LEMMA ForgetInv ==
  ASSUME ConsolidateInv, Forget
  PROVE  ConsolidateInv'
<1>1. PICK i \in Lessons : /\ rows' = [rows EXCEPT ![i] = NoRow]
                           /\ Touch({p \in Process : run[p].session = rows[i].from})
  BY DEF Forget
<1> DEFINE T == {p \in Process : run[p].session = rows[i].from}
<1>2. TypeOK /\ UNCHANGED <<nextId, turns, sessions, nextSession, renumbered, running, broken>>
  BY DEF Forget, lockVars, ConsolidateInv
<1>3. rows' = [j \in Id |-> IF j \in {i} THEN NoRow ELSE rows[j]]
  BY <1>1, <1>2 DEF TypeOK
<1>4. /\ rows' \in [Id -> Row \cup {NoRow}] /\ RowsInv' /\ RowsAge
      /\ \A t : FoundNext(t) = priorConsolidation(t) \ {i}
  BY <1>2, <1>3, DeleteRows
<1>5. \A q \in Process \ T : FoundNext(run[q].session) = priorConsolidation(run[q].session)
  BY <1>4 DEF priorConsolidation
<1>6. StoreOK'
  BY <1>2, <1>4 DEF TypeOK, StoreOK
<1> HIDE DEF T
<1>7. Touch(T)
  BY <1>1 DEF T
<1> QED
  BY <1>2, <1>4, <1>5, <1>6, <1>7, OthersStep DEF lockVars

LEMMA DeleteSessionInv ==
  ASSUME ConsolidateInv, DeleteSession
  PROVE  ConsolidateInv'
<1>1. PICK s \in sessions \ {Global} :
        /\ sessions' = sessions \ {s}
        /\ turns' = turns \ {s}
        /\ rows' = [i \in Id |-> IF i \in Lessons /\ rows[i].at = s THEN NoRow ELSE rows[i]]
        /\ Touch({p \in Process :
                    \/ run[p].session = s
                    \/ \E i \in Lessons : rows[i].at = s /\ run[p].session = rows[i].from})
  BY DEF DeleteSession
<1> DEFINE Gone == {i \in Lessons : rows[i].at = s}
           T == {p \in Process :
                   \/ run[p].session = s
                   \/ \E i \in Lessons : rows[i].at = s /\ run[p].session = rows[i].from}
<1>2. TypeOK /\ UNCHANGED <<nextId, nextSession, renumbered, running, broken>>
  BY DEF DeleteSession, lockVars, ConsolidateInv
<1>3. rows' = [i \in Id |-> IF i \in Gone THEN NoRow ELSE rows[i]]
  BY <1>1
<1>4. \A q \in Process \ T : Gone \cap priorConsolidation(run[q].session) = {}
  BY DEF priorConsolidation
<1>5. /\ rows' \in [Id -> Row \cup {NoRow}] /\ RowsInv' /\ RowsAge
      /\ \A t : FoundNext(t) = priorConsolidation(t) \ Gone
  <2> HIDE DEF Gone
  <2> QED
    BY <1>2, <1>3, DeleteRows
<1>6. \A q \in Process \ T : FoundNext(run[q].session) = priorConsolidation(run[q].session)
  BY <1>4, <1>5
<1>7. StoreOK'
  BY <1>1, <1>2, <1>5 DEF TypeOK, StoreOK
<1>8. Touch(T)
  BY <1>1
<1> HIDE DEF T
<1> QED
  BY <1>2, <1>5, <1>6, <1>7, <1>8, OthersStep DEF lockVars

LEMMA RunsUntouched ==
  ASSUME ConsolidateInv, UNCHANGED run
  PROVE  Touch({})
BY DEF ConsolidateInv, TypeOK, Touch

LEMMA PromoteInv ==
  ASSUME ConsolidateInv, Promote
  PROVE  ConsolidateInv'
<1>1. PICK i \in Lessons : rows' = [rows EXCEPT ![i].at = Global]
  BY DEF Promote
<1>2. TypeOK /\ RowsInv
      /\ UNCHANGED <<nextId, turns, sessions, nextSession, renumbered, running, broken, run>>
  BY DEF Promote, lockVars, ConsolidateInv
<1>3. rows[i] \in Row /\ i \in Id
  BY <1>2 DEF TypeOK, Lessons
<1> DEFINE moved == [rows[i] EXCEPT !.at = Global]
<1>4. moved \in Row /\ moved # NoRow /\ moved.from = rows[i].from /\ moved.born = rows[i].born
      /\ moved.content = rows[i].content
  BY <1>3, ConstantFacts DEF Row
<1>5. rows' = [rows EXCEPT ![i] = moved]
  BY <1>1, <1>2, <1>3 DEF TypeOK
<1> HIDE DEF moved
<1>6. rows' \in [Id -> Row \cup {NoRow}] /\ rows'[i] = moved
      /\ \A j \in Id \ {i} : rows'[j] = rows[j]
  BY <1>2, <1>3, <1>4, <1>5 DEF TypeOK
<1>7. rows[i] # NoRow /\ Lessons' = Lessons
      /\ \A j \in Lessons : rows'[j].from = rows[j].from /\ rows'[j].born = rows[j].born
                            /\ rows'[j].content = rows[j].content
  BY <1>4, <1>6 DEF Lessons
<1>8. \A j \in Id : rows[j] = NoRow => rows'[j] = NoRow
  BY <1>6, <1>7
<1>9. RowsInv'
  BY <1>2, <1>7, <1>8 DEF RowsInv
<1>10. nextId \in Nat
  BY <1>2, ConstantFacts DEF TypeOK
<1>11. RowsAge
  BY <1>2, <1>7, <1>8, <1>10 DEF RowsAge, Lessons
<1>12. \A t : FoundNext(t) = priorConsolidation(t)
  BY <1>7 DEF FoundNext, priorConsolidation, Lessons
<1>13. StoreOK'
  BY <1>2, <1>6 DEF TypeOK, StoreOK
<1> QED
  BY <1>2, <1>9, <1>11, <1>12, <1>13, RunsUntouched, OthersStep DEF lockVars

LEMMA IngestInv ==
  ASSUME ConsolidateInv, Ingest
  PROVE  ConsolidateInv'
<1>1. TypeOK /\ RowsInv /\ UNCHANGED <<rows, nextId, renumbered, running, broken, run>>
  BY DEF Ingest, lockVars, ConsolidateInv
<1>2. StoreOK'
  <2>1. turns' \subseteq sessions' /\ sessions' \subseteq Session
    BY <1>1 DEF Ingest, TypeOK
  <2>2. nextSession' \in 1 .. MaxSession + 1
    <3>1. nextSession \in 1 .. MaxSession + 1 /\ MaxSession \in Nat
      BY <1>1, ConstantFacts DEF TypeOK
    <3>2. \/ nextSession' = nextSession
          \/ nextSession \in Session /\ nextSession' = nextSession + 1
      BY DEF Ingest
    <3> QED
      BY <3>1, <3>2 DEF Session
  <2> QED
    BY <1>1, <2>1, <2>2 DEF TypeOK, StoreOK
<1>3. RowsInv'
  BY <1>1 DEF RowsInv, Lessons
<1> QED
  BY <1>1, <1>2, <1>3, SameRows, RunsUntouched, OthersStep DEF lockVars

LEMMA ImportInv ==
  ASSUME ConsolidateInv, Import
  PROVE  ConsolidateInv'
<1>1. PICK s \in sessions \cup ({nextSession} \cap Session), n \in Numbers, c \in Content, i \in Id :
        /\ Insert(i, [Lesson(s, c) EXCEPT !.from = n])
        /\ sessions' = sessions \cup {s}
        /\ nextSession' = IF s = nextSession THEN nextSession + 1 ELSE nextSession
        /\ renumbered' = IF s = n THEN renumbered ELSE renumbered \cup {s, n}
        /\ Touch({p \in Process : run[p].session \in {s, n}})
  BY DEF Import
<1> DEFINE row == [Lesson(s, c) EXCEPT !.from = n]
           T == {p \in Process : run[p].session \in {s, n}}
<1>2. TypeOK /\ s \in Session /\ n \in Session /\ UNCHANGED <<turns, running, broken>>
  BY ConstantFacts DEF Import, lockVars, ConsolidateInv, TypeOK
<1>3. row \in Row /\ row.from = n /\ row.born = s /\ Insert(i, row)
  BY <1>1, <1>2 DEF Row, Lesson
<1>4. renumbered \subseteq renumbered' /\ (n # s => {n, s} \subseteq renumbered')
      /\ renumbered' \subseteq Session
  BY <1>1, <1>2 DEF TypeOK
<1>5. /\ rows' \in [Id -> Row \cup {NoRow}] /\ nextId' \in 1 .. MaxId + 1
      /\ RowsInv' /\ RowsAge /\ rows'[i] # NoRow /\ rows'[i].born = s
      /\ \A t : FoundNext(t) = IF rows'[i].from = t THEN priorConsolidation(t) \cup {i}
                                                    ELSE priorConsolidation(t)
  <2> HIDE DEF row
  <2> QED
    BY <1>3, <1>4, InsertRows
<1>6. rows'[i].from # s => rows'[i].from \in renumbered'
  BY <1>5 DEF RowsInv, Lessons
<1>7. \A q \in Process \ T : Undisturbed(q)' =>
        FoundNext(run[q].session) = priorConsolidation(run[q].session)
  <2>1. ASSUME NEW q \in Process \ T, Undisturbed(q)'
        PROVE  FoundNext(run[q].session) = priorConsolidation(run[q].session)
    <3>1. run'[q].session = run[q].session
      BY <1>1 DEF Touch
    <3>2. run[q].session \notin renumbered' /\ run[q].session # s
      BY <2>1, <3>1 DEF Undisturbed
    <3> QED
      BY <1>5, <1>6, <3>2
  <2> QED
    BY <2>1
<1>8. nextSession' \in 1 .. MaxSession + 1
  BY <1>1, <1>2, ConstantFacts DEF TypeOK, Session
<1>9. StoreOK'
  BY <1>1, <1>2, <1>4, <1>5, <1>8 DEF TypeOK, StoreOK
<1>10. Touch(T)
  BY <1>1
<1> HIDE DEF T
<1> QED
  BY <1>2, <1>4, <1>5, <1>7, <1>9, <1>10, OthersStep DEF lockVars

LEMMA StealLockInv ==
  ASSUME ConsolidateInv, StealLock
  PROVE  ConsolidateInv'
<1>1. TypeOK /\ RowsInv /\ MeetInv /\ UNCHANGED <<storeVars, run, running>> /\ broken' = TRUE
  BY DEF StealLock, Lock!Break, ConsolidateInv
<1> USE DEF storeVars
<1>2. TypeOK' /\ RowsInv'
  BY <1>1 DEF TypeOK, RowsInv, Lessons
<1>3. MeetInv'
  BY <1>1 DEF MeetInv, OnSession
<1>4. ASSUME NEW q \in Process
      PROVE  RunInv(q)' /\ (Undisturbed(q)' => Progress(q)')
  <2>1. Rest(q)
    BY <1>1 DEF Rest
  <2>2. Undisturbed(q)' => Undisturbed(q)
    <3>1. broken => Undisturbed(q)' = Undisturbed(q)
      BY <1>1 DEF Undisturbed
    <3>2. Undisturbed(q)' => run[q].met = "nobody"
      BY <1>1 DEF Undisturbed
    <3> QED
      BY <1>1, <3>1, <3>2 DEF Undisturbed
  <2> QED
    BY <1>1, <2>1, <2>2, SameRows, RestRunInv, RestProgress
<1> QED
  BY <1>2, <1>3, <1>4 DEF ConsolidateInv

---------------------------------------------------------------------------
(* The theorems *)

LEMMA InitInv ==
  ASSUME Init
  PROVE  ConsolidateInv
<1>1. TypeOK
  <2>1. Idle \in RunState
    BY ConstantFacts DEF Idle, RunState
  <2>2. run \in [Process -> RunState] /\ rows \in [Id -> Row \cup {NoRow}]
    BY <2>1 DEF Init
  <2>3. nextId \in 1 .. MaxId + 1 /\ nextSession \in 1 .. MaxSession + 1
    <3>1. Global + 1 \in 1 .. MaxSession + 1 /\ 1 \in 1 .. MaxId + 1
      BY ConsolidateAssumption DEF ConsolidateAssumption, Global
    <3> QED
      BY <3>1 DEF Init
  <2>4. sessions \subseteq Session /\ turns \subseteq sessions /\ renumbered \subseteq Session
        /\ running \subseteq Process /\ broken \in BOOLEAN
    BY ConstantFacts DEF Init, Lock!Init
  <2> QED
    BY <2>2, <2>3, <2>4 DEF TypeOK
<1>2. Lessons = {}
  BY DEF Init, Lessons
<1>3. RowsInv
  BY <1>2 DEF Init, RowsInv
<1>4. \A p \in Process : run[p] = Idle
  BY DEF Init
<1>5. MeetInv
  BY <1>4 DEF Init, Lock!Init, MeetInv, OnSession, Idle
<1>6. \A p \in Process : RunInv(p) /\ ~Undisturbed(p)
  BY <1>4 DEF Idle, RunInv, Held, Undisturbed
<1> QED
  BY <1>1, <1>3, <1>5, <1>6 DEF ConsolidateInv

LEMMA NextInv ==
  ASSUME ConsolidateInv, [Next]_vars
  PROVE  ConsolidateInv'
<1>1. ASSUME NEW p \in Process,
             \/ Begin(p) \/ Distilled(p) \/ NothingToWrite(p)
             \/ writeLesson(p) \/ AllWritten(p) \/ WriteThrows(p)
             \/ DeleteNext(p) \/ AllDeleted(p) \/ Killed(p)
      PROVE  ConsolidateInv'
  <2>1. CASE Begin(p)
    BY <2>1, BeginInv
  <2>2. CASE Distilled(p)
    BY <2>2, DistilledInv
  <2>3. CASE writeLesson(p)
    BY <2>3, writeLessonInv
  <2>4. CASE AllWritten(p)
    BY <2>4, AllWrittenInv
  <2>5. CASE WriteThrows(p)
    BY <2>5, WriteThrowsInv
  <2>6. CASE DeleteNext(p)
    BY <2>6, DeleteNextInv
  <2>7. CASE NothingToWrite(p) \/ AllDeleted(p) \/ Killed(p)
    BY <2>7, RunEnds DEF NothingToWrite, AllDeleted, Killed
  <2> QED
    BY <1>1, <2>1, <2>2, <2>3, <2>4, <2>5, <2>6, <2>7
<1>2. CASE UNCHANGED vars
  <2>1. UNCHANGED <<storeVars, lockVars, run>> /\ StoreOK' /\ RowsInv'
    BY <1>2 DEF vars, storeVars, lockVars, ConsolidateInv, TypeOK, StoreOK, RowsInv, Lessons
  <2> QED
    BY <2>1, SameRows, RunsUntouched, OthersStep DEF storeVars
<1> QED
  BY <1>1, <1>2, IngestInv, ForgetInv, DeleteSessionInv, PromoteInv, ImportInv, StealLockInv
     DEF Next

(* Ids are used once, a lesson is kept once per session, two runs on a session   *)
(* know of each other, and a run that nobody disturbs has changed its session's  *)
(* lessons by what its pc says and no more (consolidate.ts:113-159).             *)
THEOREM ConsolidateInvariant == Spec => []ConsolidateInv
<1>1. Init => ConsolidateInv
  BY InitInv
<1>2. ConsolidateInv /\ [Next]_vars => ConsolidateInv'
  BY NextInv
<1> QED
  BY <1>1, <1>2, PTL DEF Spec

(* A run that nobody disturbs may be killed at any moment: its session has the   *)
(* lessons it had, or all of the new ones (consolidate.ts:108-141).              *)
THEOREM OldOrNewAlways == Spec => []OldOrNew
<1>1. ConsolidateInv => OldOrNew
  <2> SUFFICES ASSUME ConsolidateInv, NEW p \in Process, Undisturbed(p)
               PROVE  LET found == priorConsolidation(run[p].session)
                      IN  \/ run[p].prior \subseteq found
                          \/ run[p].todo = {} /\ run[p].written \subseteq found
    BY DEF OldOrNew
  <2>1. RunInv(p) /\ Progress(p) /\ run[p] \in RunState /\ run[p].pc # "idle"
    BY DEF ConsolidateInv, TypeOK, Undisturbed
  <2>2. run[p].pc \in {"llm", "write", "rollback", "replace"}
    BY <2>1 DEF RunState
  <2> QED
    BY <2>1, <2>2 DEF RunInv, Progress
<1> QED
  BY <1>1, ConsolidateInvariant, PTL

(* A run that ends undisturbed and alive has left exactly the lessons it found,  *)
(* after a failed write, or exactly those it wrote (consolidate.ts:121-141).     *)
THEOREM AllOrNothingRuns == Spec => AllOrNothing
<1>1. ASSUME ConsolidateInv, NEW p \in Process, Undisturbed(p),
             AllWritten(p) \/ AllDeleted(p), run'[p].pc = "idle"
      PROVE  priorConsolidation(run[p].session) =
               IF run[p].pc = "rollback" THEN run[p].prior ELSE run[p].written
  <2>1. RunInv(p) /\ Progress(p) /\ run \in [Process -> RunState]
    BY <1>1 DEF ConsolidateInv, TypeOK
  <2>2. CASE AllWritten(p)
    <3>1. ~run[p].force /\ run[p].pc = "write"
      <4>1. run' = [run EXCEPT ![p].pc = "replace", ![p].left = run[p].prior \ run[p].written]
              => run'[p].pc = "replace"
        BY <2>1 DEF RunState
      <4> QED
        BY <1>1, <2>2, <4>1 DEF AllWritten
    <3> QED
      BY <2>1, <3>1 DEF RunInv, Progress
  <2>3. CASE AllDeleted(p)
    BY <2>1, <2>3 DEF AllDeleted, Progress
  <2> QED
    BY <1>1, <2>2, <2>3
<1>2. ConsolidateInv /\ [Next]_vars =>
        [\A p \in Process :
           (AllWritten(p) \/ AllDeleted(p)) /\ run'[p].pc = "idle" /\ Undisturbed(p) =>
             priorConsolidation(run[p].session) =
               IF run[p].pc = "rollback" THEN run[p].prior ELSE run[p].written]_vars
  BY <1>1
<1> QED
  BY <1>2, ConsolidateInvariant, PTL DEF Spec, AllOrNothing
================================================================================
