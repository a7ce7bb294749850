--------------------------- MODULE MemoryIndexProofs ---------------------------
(***************************************************************************)
(* The store index for any processes, providers, page size and artifacts:   *)
(* what the staleness verdict is worth, and what a rebuild covers.          *)
(***************************************************************************)
EXTENDS MemoryIndex, FiniteSetTheorems, TLAPS

(* A new id is the counter's value; an old one is already stored. *)
LEMMA CreatedId ==
  ASSUME TypeOK, IdsHandedOut, NEW id \in Id, createObservation(id)
  PROVE  /\ observations' = observations \cup {id}
         /\ nextId' \in 1 .. MaxId + 1
         /\ nextId <= nextId'
         /\ id < nextId'
         /\ id \in observations \/ id = nextId
  <1> USE MemoryIndexAssumption DEF TypeOK, IdsHandedOut, Id
  <1>1. CASE id \in observations /\ UNCHANGED <<observations, nextId>>
    BY <1>1
  <1>2. CASE /\ id = nextId /\ nextId \in Id
             /\ observations' = observations \cup {id}
             /\ nextId' = nextId + 1
    BY <1>2
  <1>3. QED
    BY <1>1, <1>2 DEF createObservation

(* One process moves on and its record keeps its type. *)
LEMMA ProcUpdate ==
  ASSUME NEW f \in [Process -> ProcState], NEW p \in Process, NEW r \in ProcState
  PROVE  [f EXCEPT ![p] = r] \in [Process -> ProcState]
  OBVIOUS

LEMMA AfterRowType ==
  ASSUME NEW r \in ProcState, NEW i
  PROVE  AfterRow(r, i) \in ProcState
  BY DEF AfterRow, ProcState, Pc

(* The page a rebuild reads consists of stored rows beyond its cursor. *)
LEMMA PageRows ==
  ASSUME TypeOK, NEW n \in Nat
  PROVE  listObservations(n) \subseteq observations /\ listObservations(n) \subseteq Id
  BY DEF TypeOK, listObservations

LEMMA IndexInvInit == Init => IndexInv
  <1> SUFFICES ASSUME Init PROVE IndexInv
    OBVIOUS
  <1> USE MemoryIndexAssumption DEF Init
  <1>1. Closed \in ProcState /\ Closed.page = {} /\ Closed.pc = "closed"
    BY DEF Closed, ProcState, Pc
  <1>2. nextId \in 1 .. MaxId + 1
    OBVIOUS
  <1>3. TypeOK
    BY <1>1, <1>2 DEF TypeOK
  <1>4. vectorRows = {}
    BY DEF vectorRows
  <1>5. QED
    BY <1>1, <1>3, <1>4 DEF IndexInv, IdsHandedOut, PagesHeld, Indexed

(* Type correctness, one action at a time. *)
LEMMA TypeOKStep ==
  ASSUME IndexInv, [Next]_vars
  PROVE  TypeOK'
  <1> USE MemoryIndexAssumption DEF TypeOK, ProcState, Pc, Counts, storeVars
  <1>0. TypeOK /\ IdsHandedOut /\ PagesHeld
    BY DEF IndexInv
  <1>1. ASSUME NEW p \in Process, openMemory(p)
        PROVE  TypeOK'
    <2>1. PICK l \in Pc : proc' = [proc EXCEPT ![p] = [Closed EXCEPT !.pc = l, !.sig = config]]
      BY <1>1 DEF openMemory
    <2>2. [Closed EXCEPT !.pc = l, !.sig = config] \in ProcState
      BY <1>0, <2>1 DEF Closed
    <2>3. proc' \in [Process -> ProcState]
      BY <1>0, <2>1, <2>2, ProcUpdate
    <2>4. QED
      BY <1>0, <1>1, <2>3 DEF openMemory
  <1>2. ASSUME NEW p \in Process, EnsureCounts(p) \/ EnsureVerdict(p)
        PROVE  TypeOK'
    BY <1>0, <1>2 DEF EnsureCounts, EnsureVerdict, counts, Counts, Goto
  <1>3. ASSUME NEW p \in Process, EnsureStamp(p)
        PROVE  TypeOK'
    BY <1>0, <1>3 DEF EnsureStamp, Goto
  <1>4. ASSUME NEW p \in Process, RebuildPage(p)
        PROVE  TypeOK'
    <2>0. UNCHANGED <<storeVars, config>>
      BY <1>4 DEF RebuildPage
    <2>1. CASE Goto(p, "prune")
      BY <1>0, <2>0, <2>1 DEF Goto
    <2>2. ASSUME NEW last \in listObservations(proc[p].after),
                 proc' = [proc EXCEPT ![p] = [@ EXCEPT !.pc = "embed",
                                                !.page = listObservations(proc[p].after),
                                                !.after = last]]
          PROVE  TypeOK'
      <3>1. listObservations(proc[p].after) \subseteq Id /\ last \in Nat
        BY <1>0, <2>2, PageRows DEF Id
      <3>2. [proc[p] EXCEPT !.pc = "embed", !.page = listObservations(proc[p].after),
                            !.after = last] \in ProcState
        BY <1>0, <3>1
      <3>3. proc' \in [Process -> ProcState]
        BY <1>0, <2>2, <3>2, ProcUpdate
      <3>4. QED
        BY <1>0, <2>0, <3>3
    <2>3. QED
      BY <1>4, <2>1, <2>2 DEF RebuildPage
  <1>5. ASSUME NEW p \in Process, RebuildEmbedded(p)
        PROVE  TypeOK'
    BY <1>0, <1>5 DEF RebuildEmbedded, Goto
  <1>6. ASSUME NEW p \in Process, RebuildThrows(p)
        PROVE  TypeOK'
    <2>1. CASE p \in Server
      BY <1>0, <1>6, <2>1 DEF RebuildThrows
    <2>2. CASE p \notin Server
      <3>1. Closed \in ProcState
        BY DEF Closed
      <3>2. proc' \in [Process -> ProcState]
        BY <1>0, <1>6, <2>2, <3>1, ProcUpdate DEF RebuildThrows
      <3>3. QED
        BY <1>0, <1>6, <2>2, <3>2 DEF RebuildThrows
    <2>3. QED
      BY <2>1, <2>2
  <1>7. ASSUME NEW p \in Process, RebuildVector(p)
        PROVE  TypeOK'
    BY <1>0, <1>7 DEF RebuildVector, Goto
  <1>8. ASSUME NEW p \in Process, RebuildFts(p)
        PROVE  TypeOK'
    <2>1. PICK i \in proc[p].page :
             /\ fts' = fts \cup {i}
             /\ proc' = [proc EXCEPT ![p] = AfterRow(@, i)]
      BY <1>8 DEF RebuildFts
    <2>2. fts' \subseteq Id
      BY <1>0, <2>1
    <2>3. proc' \in [Process -> ProcState]
      BY <1>0, <2>1, AfterRowType, ProcUpdate
    <2>4. UNCHANGED <<observations, nextId, vectors, signature, rebuildFailed, config>>
      BY <1>8 DEF RebuildFts
    <2>5. QED
      BY <1>0, <2>2, <2>3, <2>4
  <1>9. ASSUME NEW p \in Process, RebuildPrune(p)
        PROVE  TypeOK'
    BY <1>0, <1>9 DEF RebuildPrune, Goto
  <1>10. ASSUME NEW p \in Process, RebuildStamp(p)
         PROVE  TypeOK'
    BY <1>0, <1>10 DEF RebuildStamp, Goto
  <1>11. ASSUME NEW p \in Process, RebuildClear(p)
         PROVE  TypeOK'
    BY <1>0, <1>11 DEF RebuildClear, Goto
  <1>12. ASSUME NEW p \in Process, WriteBegin(p)
         PROVE  TypeOK'
    BY <1>0, <1>12 DEF WriteBegin, Goto
  <1>13. ASSUME NEW p \in Process, WriteCommit(p)
         PROVE  TypeOK'
    BY <1>0, <1>13, CreatedId DEF WriteCommit, Goto
  <1>14. ASSUME NEW p \in Process, WriteThrows(p)
         PROVE  TypeOK'
    BY <1>0, <1>14 DEF WriteThrows, Goto
  <1>15. ASSUME NEW p \in Process, Close(p)
         PROVE  TypeOK'
    BY <1>0, <1>15 DEF Close, Closed
  <1>16. CASE Delete
    BY <1>0, <1>16 DEF Delete, DeleteRows
  <1>17. ASSUME NEW s \in ImportSigs, ImportMerge(s)
         PROVE  TypeOK'
    BY <1>0, <1>17, CreatedId DEF ImportMerge
  <1>18. ASSUME NEW s \in ImportSigs, ImportReplace(s)
         PROVE  TypeOK'
    <2>1. observations' \subseteq Id /\ fts' \subseteq Id
      BY <1>18 DEF ImportReplace
    <2>2. nextId' \in 1 .. MaxId + 1
      BY <1>18 DEF ImportReplace, Id
    <2>3. s \in Sig \cup {NoSig}
      BY <1>18
    <2>4. vectors' \in [Id -> Sig \cup {NoSig}]
      BY <1>18, <2>3 DEF ImportReplace
    <2>5. QED
      BY <1>0, <1>18, <2>1, <2>2, <2>4 DEF ImportReplace
  <1>19. CASE ChangeConfig
    BY <1>0, <1>19 DEF ChangeConfig
  <1>20. CASE UNCHANGED vars
    BY <1>0, <1>20 DEF vars
  <1>21. QED
    BY <1>1, <1>2, <1>3, <1>4, <1>5, <1>6, <1>7, <1>8, <1>9, <1>10,
       <1>11, <1>12, <1>13, <1>14, <1>15, <1>16, <1>17, <1>18, <1>19, <1>20 DEF Next, Import

(* No id is reused: the counter bounds every row and every page held. *)
LEMMA IdsStep ==
  ASSUME IndexInv, [Next]_vars
  PROVE  IdsHandedOut'
  <1> USE MemoryIndexAssumption DEF IdsHandedOut, vectorRows, storeVars
  <1>0. TypeOK /\ TypeOK' /\ IdsHandedOut /\ PagesHeld
    BY TypeOKStep DEF IndexInv
  <1>1. ASSUME NEW p \in Process, openMemory(p)
        PROVE  IdsHandedOut'
    BY <1>0, <1>1 DEF openMemory, Closed, TypeOK, ProcState, Id
  <1>2. ASSUME NEW p \in Process, EnsureCounts(p) \/ EnsureVerdict(p)
        PROVE  IdsHandedOut'
    <2>1. PICK l \in Counts \cup {"page", "first", "clear"} :
             Goto(p, l) /\ UNCHANGED <<storeVars, config>>
      BY <1>2 DEF EnsureCounts, EnsureVerdict, counts, Counts
    <2>2. QED
      BY <1>0, <1>2, <2>1 DEF EnsureCounts, EnsureVerdict, Counts, Goto, TypeOK, ProcState, Id
  <1>3. ASSUME NEW p \in Process, EnsureStamp(p)
        PROVE  IdsHandedOut'
    BY <1>0, <1>3 DEF EnsureStamp, Goto, TypeOK, ProcState, Id
  <1>4. ASSUME NEW p \in Process, RebuildPage(p)
        PROVE  IdsHandedOut'
    <2>0. UNCHANGED <<storeVars, config>>
      BY <1>4 DEF RebuildPage
    <2>1. CASE Goto(p, "prune")
      BY <1>0, <2>0, <2>1 DEF Goto, TypeOK, ProcState
    <2>2. ASSUME proc'[p].page = listObservations(proc[p].after),
                 \A q \in Process \ {p} : proc'[q] = proc[q]
          PROVE  IdsHandedOut'
      <3>1. proc'[p].page \subseteq observations
        BY <1>0, <2>2, PageRows DEF TypeOK, ProcState
      <3>2. QED
        BY <1>0, <2>0, <2>2, <3>1
    <2>3. QED
      BY <1>0, <1>4, <2>1, <2>2 DEF RebuildPage, TypeOK, ProcState
  <1>5. ASSUME NEW p \in Process, RebuildEmbedded(p)
        PROVE  IdsHandedOut'
    BY <1>0, <1>5 DEF RebuildEmbedded, Goto, TypeOK, ProcState, Id
  <1>6. ASSUME NEW p \in Process, RebuildThrows(p)
        PROVE  IdsHandedOut'
    BY <1>0, <1>6 DEF RebuildThrows, Closed, TypeOK, ProcState, Id
  <1>7. ASSUME NEW p \in Process, RebuildVector(p)
        PROVE  IdsHandedOut'
    BY <1>0, <1>7 DEF RebuildVector, Goto, TypeOK, ProcState, Id
  <1>8. ASSUME NEW p \in Process, RebuildFts(p)
        PROVE  IdsHandedOut'
    <2>1. PICK i \in proc[p].page : fts' = fts \cup {i}
      BY <1>8 DEF RebuildFts
    <2>2. i < nextId
      BY <1>0, <2>1
    <2>3. \A q \in Process : proc'[q].page \subseteq proc[q].page
      <3>1. PICK j \in proc[p].page : proc' = [proc EXCEPT ![p] = AfterRow(@, j)]
        BY <1>8 DEF RebuildFts
      <3>2. proc'[p].page = proc[p].page \ {j} /\ \A q \in Process \ {p} : proc'[q] = proc[q]
        BY <1>0, <3>1 DEF TypeOK, ProcState, AfterRow
      <3>3. QED
        BY <3>2
    <2>4. QED
      BY <1>0, <1>8, <2>1, <2>2, <2>3 DEF RebuildFts
  <1>9. ASSUME NEW p \in Process, RebuildPrune(p)
        PROVE  IdsHandedOut'
    BY <1>0, <1>9 DEF RebuildPrune, Goto, TypeOK, ProcState, Id
  <1>10. ASSUME NEW p \in Process, RebuildStamp(p)
         PROVE  IdsHandedOut'
    BY <1>0, <1>10 DEF RebuildStamp, Goto, TypeOK, ProcState, Id
  <1>11. ASSUME NEW p \in Process, RebuildClear(p)
         PROVE  IdsHandedOut'
    BY <1>0, <1>11 DEF RebuildClear, Goto, TypeOK, ProcState, Id
  <1>12. ASSUME NEW p \in Process, WriteBegin(p)
         PROVE  IdsHandedOut'
    BY <1>0, <1>12 DEF WriteBegin, Goto, TypeOK, ProcState, Id
  <1>13. ASSUME NEW p \in Process, WriteCommit(p)
         PROVE  IdsHandedOut'
    BY <1>0, <1>13, CreatedId DEF WriteCommit, Goto, TypeOK, ProcState, Id
  <1>14. ASSUME NEW p \in Process, WriteThrows(p)
         PROVE  IdsHandedOut'
    BY <1>0, <1>14 DEF WriteThrows, Goto, TypeOK, ProcState, Id
  <1>15. ASSUME NEW p \in Process, Close(p)
         PROVE  IdsHandedOut'
    BY <1>0, <1>15 DEF Close, Closed, TypeOK, ProcState, Id
  <1>16. CASE Delete
    BY <1>0, <1>16 DEF Delete, DeleteRows, TypeOK, ProcState, Id
  <1>17. ASSUME NEW s \in ImportSigs, ImportMerge(s)
         PROVE  IdsHandedOut'
    BY <1>0, <1>17, CreatedId DEF ImportMerge, TypeOK, ProcState, Id
  <1>18. ASSUME NEW s \in ImportSigs, ImportReplace(s)
         PROVE  IdsHandedOut'
    BY <1>0, <1>18 DEF ImportReplace, Id, TypeOK, ProcState
  <1>19. CASE ChangeConfig
    BY <1>0, <1>19 DEF ChangeConfig, TypeOK, ProcState, Id
  <1>20. CASE UNCHANGED vars
    BY <1>0, <1>20 DEF vars
  <1>21. QED
    BY <1>1, <1>2, <1>3, <1>4, <1>5, <1>6, <1>7, <1>8, <1>9, <1>10,
       <1>11, <1>12, <1>13, <1>14, <1>15, <1>16, <1>17, <1>18, <1>19, <1>20 DEF Next, Import

(* A rebuild that indexes rows holds a page; an open process has a provider. *)
LEMMA PagesStep ==
  ASSUME IndexInv, [Next]_vars
  PROVE  PagesHeld'
  <1> USE MemoryIndexAssumption DEF PagesHeld, TypeOK, ProcState, storeVars
  <1>0. TypeOK /\ PagesHeld
    BY DEF IndexInv
  <1>1. ASSUME NEW p \in Process, openMemory(p)
        PROVE  PagesHeld'
    BY <1>0, <1>1 DEF openMemory, Closed
  <1>2. ASSUME NEW p \in Process, EnsureCounts(p) \/ EnsureVerdict(p)
        PROVE  PagesHeld'
    BY <1>0, <1>2 DEF EnsureCounts, EnsureVerdict, counts, Counts, Goto
  <1>3. ASSUME NEW p \in Process, EnsureStamp(p)
        PROVE  PagesHeld'
    BY <1>0, <1>3 DEF EnsureStamp, Goto
  <1>4. ASSUME NEW p \in Process, RebuildPage(p)
        PROVE  PagesHeld'
    <2>0. UNCHANGED <<storeVars, config>>
      BY <1>4 DEF RebuildPage
    <2>1. CASE Goto(p, "prune")
      <3>1. proc'[p].pc = "prune" /\ proc'[p].sig = proc[p].sig
        BY <1>0, <2>1 DEF Goto
      <3>2. \A q \in Process \ {p} : proc'[q] = proc[q]
        BY <1>0, <2>1 DEF Goto
      <3>3. proc[p].pc = "page"
        BY <1>4 DEF RebuildPage
      <3>4. QED
        BY <1>0, <3>1, <3>2, <3>3
    <2>2. ASSUME NEW last \in listObservations(proc[p].after),
                 proc' = [proc EXCEPT ![p] = [@ EXCEPT !.pc = "embed",
                                                !.page = listObservations(proc[p].after),
                                                !.after = last]]
          PROVE  PagesHeld'
      <3>1. proc'[p].page # {} /\ proc'[p].sig = proc[p].sig
        BY <1>0, <2>2
      <3>2. \A q \in Process \ {p} : proc'[q] = proc[q]
        BY <1>0, <2>2
      <3>3. proc[p].pc = "page"
        BY <1>4 DEF RebuildPage
      <3>4. ASSUME NEW q \in Process
            PROVE  /\ proc'[q].pc \in {"embed", "vector", "fts"} => proc'[q].page # {}
                   /\ proc'[q].pc # "closed" => proc'[q].sig \in Sig
        <4>1. CASE q = p
          BY <1>0, <3>1, <3>3, <4>1
        <4>2. CASE q # p
          BY <1>0, <3>2, <4>2
        <4>3. QED
          BY <4>1, <4>2
      <3>5. QED
        BY <3>4
    <2>3. QED
      BY <1>4, <2>1, <2>2 DEF RebuildPage
  <1>5. ASSUME NEW p \in Process, RebuildEmbedded(p)
        PROVE  PagesHeld'
    BY <1>0, <1>5 DEF RebuildEmbedded, Goto
  <1>6. ASSUME NEW p \in Process, RebuildThrows(p)
        PROVE  PagesHeld'
    BY <1>0, <1>6 DEF RebuildThrows, Closed
  <1>7. ASSUME NEW p \in Process, RebuildVector(p)
        PROVE  PagesHeld'
    BY <1>0, <1>7 DEF RebuildVector, Goto
  <1>8. ASSUME NEW p \in Process, RebuildFts(p)
        PROVE  PagesHeld'
    BY <1>0, <1>8 DEF RebuildFts, AfterRow
  <1>9. ASSUME NEW p \in Process, RebuildPrune(p)
        PROVE  PagesHeld'
    BY <1>0, <1>9 DEF RebuildPrune, Goto
  <1>10. ASSUME NEW p \in Process, RebuildStamp(p)
         PROVE  PagesHeld'
    BY <1>0, <1>10 DEF RebuildStamp, Goto
  <1>11. ASSUME NEW p \in Process, RebuildClear(p)
         PROVE  PagesHeld'
    BY <1>0, <1>11 DEF RebuildClear, Goto
  <1>12. ASSUME NEW p \in Process, WriteBegin(p)
         PROVE  PagesHeld'
    BY <1>0, <1>12 DEF WriteBegin, Goto
  <1>13. ASSUME NEW p \in Process, WriteCommit(p)
         PROVE  PagesHeld'
    BY <1>0, <1>13, CreatedId DEF WriteCommit, Goto
  <1>14. ASSUME NEW p \in Process, WriteThrows(p)
         PROVE  PagesHeld'
    BY <1>0, <1>14 DEF WriteThrows, Goto
  <1>15. ASSUME NEW p \in Process, Close(p)
         PROVE  PagesHeld'
    BY <1>0, <1>15 DEF Close, Closed
  <1>16. CASE Delete
    BY <1>0, <1>16 DEF Delete, DeleteRows
  <1>17. ASSUME NEW s \in ImportSigs, ImportMerge(s)
         PROVE  PagesHeld'
    BY <1>0, <1>17, CreatedId DEF ImportMerge
  <1>18. ASSUME NEW s \in ImportSigs, ImportReplace(s)
         PROVE  PagesHeld'
    BY <1>0, <1>18 DEF ImportReplace, Id
  <1>19. CASE ChangeConfig
    BY <1>0, <1>19 DEF ChangeConfig
  <1>20. CASE UNCHANGED vars
    BY <1>0, <1>20 DEF vars
  <1>21. QED
    BY <1>1, <1>2, <1>3, <1>4, <1>5, <1>6, <1>7, <1>8, <1>9, <1>10,
       <1>11, <1>12, <1>13, <1>14, <1>15, <1>16, <1>17, <1>18, <1>19, <1>20 DEF Next, Import

(* No step leaves a stored observation outside the index. *)
LEMMA IndexedStep ==
  ASSUME IndexInv, [Next]_vars
  PROVE  Indexed'
  <1> USE MemoryIndexAssumption DEF Indexed, NullVectors, vectorRows, storeVars
  <1>0. TypeOK /\ IdsHandedOut /\ PagesHeld /\ Indexed
    BY DEF IndexInv
  <1>1. ASSUME NEW p \in Process, openMemory(p)
        PROVE  Indexed'
    BY <1>0, <1>1 DEF openMemory, Closed
  <1>2. ASSUME NEW p \in Process, EnsureCounts(p) \/ EnsureVerdict(p)
        PROVE  Indexed'
    BY <1>0, <1>2 DEF EnsureCounts, EnsureVerdict, counts, Counts, Goto
  <1>3. ASSUME NEW p \in Process, EnsureStamp(p)
        PROVE  Indexed'
    BY <1>0, <1>3 DEF EnsureStamp, Goto
  <1>4. ASSUME NEW p \in Process, RebuildPage(p)
        PROVE  Indexed'
    BY <1>0, <1>4 DEF RebuildPage, listObservations, Goto, Id
  <1>5. ASSUME NEW p \in Process, RebuildEmbedded(p)
        PROVE  Indexed'
    BY <1>0, <1>5 DEF RebuildEmbedded, Goto
  <1>6. ASSUME NEW p \in Process, RebuildThrows(p)
        PROVE  Indexed'
    BY <1>0, <1>6 DEF RebuildThrows, Closed
  <1>7. ASSUME NEW p \in Process, RebuildVector(p)
        PROVE  Indexed'
    BY <1>0, <1>7 DEF RebuildVector, Goto, TypeOK, PagesHeld
  <1>8. ASSUME NEW p \in Process, RebuildFts(p)
        PROVE  Indexed'
    BY <1>0, <1>8 DEF RebuildFts, TypeOK, PagesHeld
  <1>9. ASSUME NEW p \in Process, RebuildPrune(p)
        PROVE  Indexed'
    BY <1>0, <1>9 DEF RebuildPrune, Goto, TypeOK, PagesHeld
  <1>10. ASSUME NEW p \in Process, RebuildStamp(p)
         PROVE  Indexed'
    BY <1>0, <1>10 DEF RebuildStamp, Goto
  <1>11. ASSUME NEW p \in Process, RebuildClear(p)
         PROVE  Indexed'
    BY <1>0, <1>11 DEF RebuildClear, Goto
  <1>12. ASSUME NEW p \in Process, WriteBegin(p)
         PROVE  Indexed'
    BY <1>0, <1>12 DEF WriteBegin, Goto
  <1>13. ASSUME NEW p \in Process, WriteCommit(p)
         PROVE  Indexed'
    BY <1>0, <1>13, CreatedId DEF WriteCommit, Goto, TypeOK, PagesHeld
  <1>14. ASSUME NEW p \in Process, WriteThrows(p)
         PROVE  Indexed'
    BY <1>0, <1>14 DEF WriteThrows, Goto
  <1>15. ASSUME NEW p \in Process, Close(p)
         PROVE  Indexed'
    BY <1>0, <1>15 DEF Close, Closed
  <1>16. CASE Delete
    BY <1>0, <1>16 DEF Delete, DeleteRows, TypeOK, PagesHeld
  <1>17. ASSUME NEW s \in ImportSigs, ImportMerge(s)
         PROVE  Indexed'
    BY <1>0, <1>17, CreatedId DEF ImportMerge, TypeOK, PagesHeld
  <1>18. ASSUME NEW s \in ImportSigs, ImportReplace(s)
         PROVE  Indexed'
    BY <1>0, <1>18 DEF ImportReplace, Id, TypeOK, PagesHeld
  <1>19. CASE ChangeConfig
    BY <1>0, <1>19 DEF ChangeConfig
  <1>20. CASE UNCHANGED vars
    BY <1>0, <1>20 DEF vars
  <1>21. QED
    BY <1>1, <1>2, <1>3, <1>4, <1>5, <1>6, <1>7, <1>8, <1>9, <1>10,
       <1>11, <1>12, <1>13, <1>14, <1>15, <1>16, <1>17, <1>18, <1>19, <1>20 DEF Next, Import

(* Every observation is in the FTS index, and has a vector unless an          *)
(* artifact lacked it; every index row has an id that was handed out.         *)
THEOREM IndexInvariant == Spec => []IndexInv
  <1>1. IndexInv /\ [Next]_vars => IndexInv'
    BY TypeOKStep, IdsStep, PagesStep, IndexedStep DEF IndexInv
  <1>2. QED
    BY <1>1, IndexInvInit, PTL DEF Spec

(* Equal counts of nested finite sets of rows are equal rows. *)
LEMMA SameRows ==
  ASSUME NEW S \in SUBSET Id, NEW T \in SUBSET S, Cardinality(S) = Cardinality(T)
  PROVE  S = T
  <1>1. IsFiniteSet(Id)
    BY FS_Interval, MemoryIndexAssumption DEF Id
  <1>2. IsFiniteSet(S)
    BY <1>1, FS_Subset
  <1>3. QED
    BY <1>2, FS_Subset

LEMMA FreshRows == IndexInv => FreshMeansExactRows
  <1> SUFFICES ASSUME IndexInv, ~NullVectors, Fresh, observations # {}
               PROVE  vectorRows = observations /\ fts = observations
    BY DEF FreshMeansExactRows
  <1>1. /\ Cardinality(vectorRows) = Cardinality(observations)
        /\ Cardinality(fts) = Cardinality(observations)
    BY MemoryIndexAssumption DEF Fresh, staleness, counts, IndexInv, TypeOK
  <1>2. vectorRows \in SUBSET Id /\ fts \in SUBSET Id
    BY DEF vectorRows, IndexInv, TypeOK
  <1>3. observations \in SUBSET vectorRows /\ observations \in SUBSET fts
    BY DEF IndexInv, Indexed
  <1>4. QED
    BY <1>1, <1>2, <1>3, SameRows

(* When no artifact lacks vectors, "fresh" means exactly the right rows in    *)
(* both indexes: orphans left by a crashed or overtaken rebuild always show   *)
(* in the counts.                                                             *)
THEOREM FreshIsExact == Spec => []FreshMeansExactRows
  BY IndexInvariant, FreshRows, PTL

---------------------------------------------------------------------------
(* What a rebuild covers.  The inductive invariant adds the keyset cursor's   *)
(* relation to the id counter to IndexInv.                                    *)
CoverInv == IndexInv /\ KeysetInv /\ RebuildCovers

(* A page has no hole: it holds every row between the cursor and its last.    *)
LEMMA PageHasNoHole ==
  ASSUME TypeOK, NEW n \in Nat, NEW last \in listObservations(n),
         NEW i \in observations, n < i, i <= last
  PROVE  i \in listObservations(n)
  <1> DEFINE before(k) == {j \in observations : n < j /\ j < k}
  <1>1. IsFiniteSet(Id)
    BY FS_Interval, MemoryIndexAssumption DEF Id
  <1>2. before(last) \subseteq Id /\ before(i) \subseteq before(last)
    <2>1. observations \subseteq Id /\ last \in observations
      BY DEF TypeOK, listObservations
    <2>2. \A j \in observations : j < i => j < last
      BY <2>1 DEF Id
    <2>3. QED
      BY <2>1, <2>2
  <1>3. IsFiniteSet(before(last))
    BY <1>1, <1>2, FS_Subset
  <1>4. /\ Cardinality(before(i)) <= Cardinality(before(last))
        /\ Cardinality(before(i)) \in Nat /\ Cardinality(before(last)) \in Nat
    BY <1>2, <1>3, FS_Subset, FS_CardinalityType
  <1>5. Cardinality(before(last)) < PageSize
    BY DEF listObservations
  <1>6. Cardinality(before(i)) < PageSize
    BY <1>4, <1>5, MemoryIndexAssumption
  <1>7. QED
    BY <1>6 DEF listObservations

LEMMA KeysetStep ==
  ASSUME CoverInv, [Next]_vars
  PROVE  KeysetInv'
  <1> USE MemoryIndexAssumption DEF KeysetInv, Counts, TypeOK, ProcState, Id, storeVars, vectorRows, IsLowest, IdsHandedOut, PagesHeld
  <1>0. TypeOK /\ IdsHandedOut /\ PagesHeld /\ KeysetInv /\ RebuildCovers
    BY DEF CoverInv, IndexInv
  <1>1. ASSUME NEW p \in Process, openMemory(p)
        PROVE  KeysetInv'
    BY <1>0, <1>1 DEF openMemory, Goto, Closed
  <1>2. ASSUME NEW p \in Process, EnsureCounts(p) \/ EnsureVerdict(p)
        PROVE  KeysetInv'
    <2>1. PICK l \in Counts \cup {"page", "first", "clear"} :
             Goto(p, l) /\ UNCHANGED <<storeVars, config>>
      BY <1>2 DEF EnsureCounts, EnsureVerdict, counts, Counts
    <2>2. QED
      BY <1>0, <1>2, <2>1 DEF EnsureCounts, EnsureVerdict, Counts, Goto, Closed
  <1>3. ASSUME NEW p \in Process, EnsureStamp(p)
        PROVE  KeysetInv'
    BY <1>0, <1>3 DEF EnsureStamp, Goto, Closed
  <1>4. ASSUME NEW p \in Process, RebuildPage(p)
        PROVE  KeysetInv'
    <2>0. UNCHANGED storeVars /\ proc[p].pc = "page" /\ proc[p].page = {}
      BY <1>0, <1>4 DEF RebuildPage
    <2>1. CASE Goto(p, "prune")
      <3>1. /\ proc'[p].pc = "prune"
            /\ proc'[p].after = proc[p].after /\ proc'[p].page = proc[p].page
            /\ \A q \in Process \ {p} : proc'[q] = proc[q]
        BY <1>0, <2>1 DEF Goto
      <3>2. QED
        BY <1>0, <2>0, <3>1
    <2>2. ASSUME NEW last \in listObservations(proc[p].after),
                 proc' = [proc EXCEPT ![p] = [@ EXCEPT !.pc = "embed",
                                                !.page = listObservations(proc[p].after),
                                                !.after = last]]
          PROVE  KeysetInv'
      <3>1. /\ proc'[p].pc = "embed" /\ proc'[p].after = last
            /\ \A q \in Process \ {p} : proc'[q] = proc[q]
        BY <1>0, <2>2
      <3>2. last \in observations
        BY <1>0, <2>2, PageRows
      <3>3. last < nextId
        BY <1>0, <3>2
      <3>4. QED
        BY <1>0, <2>0, <3>1, <3>3
    <2>3. QED
      BY <1>4, <2>1, <2>2 DEF RebuildPage
  <1>5. ASSUME NEW p \in Process, RebuildEmbedded(p)
        PROVE  KeysetInv'
    BY <1>0, <1>5 DEF RebuildEmbedded, Goto, Closed
  <1>6. ASSUME NEW p \in Process, RebuildThrows(p)
        PROVE  KeysetInv'
    <2>1. UNCHANGED <<observations, nextId, vectors>>
      BY <1>6 DEF RebuildThrows
    <2>2. /\ proc'[p].pc \in {"ready", "closed"} /\ proc'[p].page = {}
          /\ proc'[p].after \in {0, proc[p].after}
          /\ \A q \in Process \ {p} : proc'[q] = proc[q]
      <3>1. CASE p \in Server
        BY <1>0, <1>6, <3>1 DEF RebuildThrows
      <3>2. CASE p \notin Server
        BY <1>0, <1>6, <3>2 DEF RebuildThrows, Closed
      <3>3. QED
        BY <3>1, <3>2
    <2>3. nextId \in Nat /\ 0 < nextId
      BY <1>0
    <2>4. QED
      BY <1>0, <2>1, <2>2, <2>3
  <1>7. ASSUME NEW p \in Process, RebuildVector(p)
        PROVE  KeysetInv'
    BY <1>0, <1>7 DEF RebuildVector, Goto, Closed
  <1>8. ASSUME NEW p \in Process, RebuildFts(p)
        PROVE  KeysetInv'
    <2>1. PICK i \in proc[p].page :
             /\ IsLowest(i, proc[p].page)
             /\ proc' = [proc EXCEPT ![p] = AfterRow(@, i)]
      BY <1>8 DEF RebuildFts
    <2>2. /\ proc'[p].after = proc[p].after /\ proc'[p].page = proc[p].page \ {i}
          /\ proc'[p].pc = IF proc[p].page = {i} THEN "page" ELSE "vector"
          /\ \A q \in Process \ {p} : proc'[q] = proc[q]
      BY <1>0, <2>1 DEF AfterRow
    <2>3. UNCHANGED <<observations, nextId, vectors>> /\ proc[p].pc = "fts"
      BY <1>8 DEF RebuildFts
    <2>4. QED
      BY <1>0, <2>2, <2>3
  <1>9. ASSUME NEW p \in Process, RebuildPrune(p)
        PROVE  KeysetInv'
    BY <1>0, <1>9 DEF RebuildPrune, Goto, Closed
  <1>10. ASSUME NEW p \in Process, RebuildStamp(p)
        PROVE  KeysetInv'
    BY <1>0, <1>10 DEF RebuildStamp, Goto, Closed
  <1>11. ASSUME NEW p \in Process, RebuildClear(p)
        PROVE  KeysetInv'
    BY <1>0, <1>11 DEF RebuildClear, Goto, Closed
  <1>12. ASSUME NEW p \in Process, WriteBegin(p)
        PROVE  KeysetInv'
    BY <1>0, <1>12 DEF WriteBegin, Goto, Closed
  <1>13. ASSUME NEW p \in Process, WriteCommit(p)
        PROVE  KeysetInv'
    <2>1. PICK id \in Id : /\ createObservation(id)
                           /\ \A j \in Id : vectors[j] # NoSig => vectors'[j] # NoSig
      BY <1>0, <1>13 DEF WriteCommit
    <2>2. /\ observations' = observations \cup {id}
          /\ nextId <= nextId'
          /\ nextId' \in 1 .. MaxId + 1
          /\ id \in observations \/ id = nextId
      BY <1>0, <2>1, CreatedId
    <2>3. \A q \in Process : /\ proc'[q].after = proc[q].after
                              /\ proc'[q].page = proc[q].page
                              /\ proc'[q].pc \in {proc[q].pc, "ready"}
      BY <1>0, <1>13 DEF WriteCommit, Goto
    <2>4. \A q \in Process : proc'[q].after < nextId'
      BY <1>0, <2>2, <2>3
    <2>5. \A q \in Process : proc[q].page \cap observations' = proc[q].page \cap observations
      BY <1>0, <2>2
    <2>6. QED
      BY <1>0, <2>1, <2>2, <2>3, <2>4, <2>5
  <1>14. ASSUME NEW p \in Process, WriteThrows(p)
        PROVE  KeysetInv'
    BY <1>0, <1>14 DEF WriteThrows, Goto, Closed
  <1>15. ASSUME NEW p \in Process, Close(p)
        PROVE  KeysetInv'
    BY <1>0, <1>15 DEF Close, Goto, Closed
  <1>16. CASE Delete
    BY <1>0, <1>16 DEF Delete, DeleteRows
  <1>17. ASSUME NEW s \in ImportSigs, ImportMerge(s)
         PROVE  KeysetInv'
    <2>1. PICK id \in Id : /\ createObservation(id)
                           /\ \A j \in Id : vectors[j] # NoSig => vectors'[j] # NoSig
      BY <1>0, <1>17 DEF ImportMerge
    <2>2. /\ observations' = observations \cup {id}
          /\ nextId <= nextId'
          /\ nextId' \in 1 .. MaxId + 1
          /\ id \in observations \/ id = nextId
      BY <1>0, <2>1, CreatedId
    <2>3. \A q \in Process : /\ proc'[q].after = proc[q].after
                              /\ proc'[q].page = proc[q].page
                              /\ proc'[q].pc \in {proc[q].pc, "ready"}
      BY <1>0, <1>17 DEF ImportMerge
    <2>4. \A q \in Process : proc'[q].after < nextId'
      BY <1>0, <2>2, <2>3
    <2>5. \A q \in Process : proc[q].page \cap observations' = proc[q].page \cap observations
      BY <1>0, <2>2
    <2>6. QED
      BY <1>0, <2>1, <2>2, <2>3, <2>4, <2>5
  <1>18. ASSUME NEW s \in ImportSigs, ImportReplace(s)
         PROVE  KeysetInv'
    BY <1>0, <1>18 DEF ImportReplace
  <1>19. CASE ChangeConfig
    BY <1>0, <1>19 DEF ChangeConfig
  <1>20. CASE UNCHANGED vars
    BY <1>0, <1>20 DEF vars
  <1>21. QED
    BY <1>1, <1>2, <1>3, <1>4, <1>5, <1>6, <1>7, <1>8, <1>9, <1>10,
       <1>11, <1>12, <1>13, <1>14, <1>15, <1>16, <1>17, <1>18, <1>19, <1>20 DEF Next, Import

LEMMA CoversStep ==
  ASSUME CoverInv, [Next]_vars
  PROVE  RebuildCovers'
  <1> USE MemoryIndexAssumption DEF RebuildCovers, KeysetInv, Rebuilding, TypeOK, ProcState, Id, storeVars, vectorRows, IdsHandedOut
  <1>0. TypeOK /\ IdsHandedOut /\ PagesHeld /\ KeysetInv /\ RebuildCovers
    BY DEF CoverInv, IndexInv
  <1>1. ASSUME NEW p \in Process, openMemory(p)
        PROVE  RebuildCovers'
    BY <1>0, <1>1 DEF openMemory, Goto, Closed
  <1>2. ASSUME NEW p \in Process, EnsureCounts(p) \/ EnsureVerdict(p)
        PROVE  RebuildCovers'
    <2>1. PICK l \in Counts \cup {"page", "first", "clear"} :
             Goto(p, l) /\ UNCHANGED <<storeVars, config>>
      BY <1>2 DEF EnsureCounts, EnsureVerdict, counts, Counts
    <2>2. QED
      BY <1>0, <1>2, <2>1 DEF EnsureCounts, EnsureVerdict, Counts, Goto, Closed
  <1>3. ASSUME NEW p \in Process, EnsureStamp(p)
        PROVE  RebuildCovers'
    BY <1>0, <1>3 DEF EnsureStamp, Goto, Closed
  <1>4. ASSUME NEW p \in Process, RebuildPage(p)
        PROVE  RebuildCovers'
    <2>0. UNCHANGED storeVars /\ proc[p].pc = "page" /\ proc[p].page = {}
      BY <1>0, <1>4 DEF RebuildPage
    <2>1. CASE Goto(p, "prune")
      <3>1. /\ proc'[p].pc = "prune"
            /\ proc'[p].after = proc[p].after /\ proc'[p].page = proc[p].page
            /\ \A q \in Process \ {p} : proc'[q] = proc[q]
        BY <1>0, <2>1 DEF Goto
      <3>2. QED
        BY <1>0, <2>0, <3>1
    <2>2. ASSUME NEW last \in listObservations(proc[p].after),
                 proc' = [proc EXCEPT ![p] = [@ EXCEPT !.pc = "embed",
                                                !.page = listObservations(proc[p].after),
                                                !.after = last]]
          PROVE  RebuildCovers'
      <3>1. /\ proc'[p].pc = "embed" /\ proc'[p].after = last
            /\ proc'[p].page = listObservations(proc[p].after)
            /\ \A q \in Process \ {p} : proc'[q] = proc[q]
        BY <1>0, <2>2
      <3>2. ASSUME NEW i \in observations, i <= last,
                   i \notin listObservations(proc[p].after)
            PROVE  i \in vectorRows
        <4>1. ~ (proc[p].after < i)
          BY <1>0, <2>2, <3>2, PageHasNoHole
        <4>2. i <= proc[p].after
          BY <1>0, <4>1
        <4>3. QED
          BY <1>0, <2>0, <4>2
      <3>3. QED
        BY <1>0, <2>0, <3>1, <3>2
    <2>3. QED
      BY <1>4, <2>1, <2>2 DEF RebuildPage
  <1>5. ASSUME NEW p \in Process, RebuildEmbedded(p)
        PROVE  RebuildCovers'
    BY <1>0, <1>5 DEF RebuildEmbedded, Goto, Closed
  <1>6. ASSUME NEW p \in Process, RebuildThrows(p)
        PROVE  RebuildCovers'
    <2>1. /\ UNCHANGED <<observations, vectors>>
          /\ proc'[p].pc \in {"ready", "closed"}
          /\ \A q \in Process \ {p} : proc'[q] = proc[q]
      BY <1>0, <1>6 DEF RebuildThrows, Closed
    <2>2. QED
      BY <1>0, <2>1
  <1>7. ASSUME NEW p \in Process, RebuildVector(p)
        PROVE  RebuildCovers'
    <2>1. UNCHANGED observations /\ proc[p].pc = "vector" /\ proc[p].sig # NoSig
      BY <1>0, <1>7 DEF RebuildVector, PagesHeld
    <2>2. \A j \in Id : vectors[j] # NoSig => vectors'[j] # NoSig
      BY <1>0, <1>7, <2>1 DEF RebuildVector
    <2>3. /\ proc'[p].after = proc[p].after /\ proc'[p].page = proc[p].page
          /\ \A q \in Process \ {p} : proc'[q] = proc[q]
      BY <1>0, <1>7 DEF RebuildVector, Goto
    <2>4. QED
      BY <1>0, <2>1, <2>2, <2>3
  <1>8. ASSUME NEW p \in Process, RebuildFts(p)
        PROVE  RebuildCovers'
    <2>1. PICK i \in proc[p].page :
             /\ IsLowest(i, proc[p].page)
             /\ proc' = [proc EXCEPT ![p] = AfterRow(@, i)]
      BY <1>8 DEF RebuildFts
    <2>2. /\ proc'[p].after = proc[p].after /\ proc'[p].page = proc[p].page \ {i}
          /\ proc'[p].pc = IF proc[p].page = {i} THEN "page" ELSE "vector"
          /\ \A q \in Process \ {p} : proc'[q] = proc[q]
      BY <1>0, <2>1 DEF AfterRow
    <2>3. UNCHANGED <<observations, nextId, vectors>> /\ proc[p].pc = "fts"
      BY <1>8 DEF RebuildFts
    <2>4. i \in observations => i \in vectorRows
      BY <1>0, <2>1, <2>3
    <2>5. QED
      BY <1>0, <2>2, <2>3, <2>4
  <1>9. ASSUME NEW p \in Process, RebuildPrune(p)
        PROVE  RebuildCovers'
    BY <1>0, <1>9 DEF RebuildPrune, Goto, Closed
  <1>10. ASSUME NEW p \in Process, RebuildStamp(p)
        PROVE  RebuildCovers'
    BY <1>0, <1>10 DEF RebuildStamp, Goto, Closed
  <1>11. ASSUME NEW p \in Process, RebuildClear(p)
        PROVE  RebuildCovers'
    BY <1>0, <1>11 DEF RebuildClear, Goto, Closed
  <1>12. ASSUME NEW p \in Process, WriteBegin(p)
        PROVE  RebuildCovers'
    BY <1>0, <1>12 DEF WriteBegin, Goto, Closed
  <1>13. ASSUME NEW p \in Process, WriteCommit(p)
        PROVE  RebuildCovers'
    <2>1. PICK id \in Id : /\ createObservation(id)
                           /\ \A j \in Id : vectors[j] # NoSig => vectors'[j] # NoSig
      BY <1>0, <1>13 DEF WriteCommit, PagesHeld
    <2>2. /\ observations' = observations \cup {id}
          /\ nextId <= nextId'
          /\ nextId' \in 1 .. MaxId + 1
          /\ id \in observations \/ id = nextId
      BY <1>0, <2>1, CreatedId
    <2>3. \A q \in Process : /\ proc'[q].after = proc[q].after
                              /\ proc'[q].page = proc[q].page
                              /\ proc'[q].pc \in {proc[q].pc, "ready"}
      BY <1>0, <1>13 DEF WriteCommit, Goto
    <2>4. ASSUME NEW q \in Process, NEW i \in observations',
                 i <= proc[q].after
          PROVE  i \in observations
      BY <1>0, <2>2, <2>4
    <2>5. QED
      BY <1>0, <2>1, <2>2, <2>3, <2>4
  <1>14. ASSUME NEW p \in Process, WriteThrows(p)
        PROVE  RebuildCovers'
    BY <1>0, <1>14 DEF WriteThrows, Goto, Closed
  <1>15. ASSUME NEW p \in Process, Close(p)
        PROVE  RebuildCovers'
    BY <1>0, <1>15 DEF Close, Goto, Closed
  <1>16. CASE Delete
    BY <1>0, <1>16 DEF Delete, DeleteRows
  <1>17. ASSUME NEW s \in ImportSigs, ImportMerge(s)
         PROVE  RebuildCovers'
    <2>1. PICK id \in Id : /\ createObservation(id)
                           /\ \A j \in Id : vectors[j] # NoSig => vectors'[j] # NoSig
      BY <1>0, <1>17 DEF ImportMerge
    <2>2. /\ observations' = observations \cup {id}
          /\ nextId <= nextId'
          /\ nextId' \in 1 .. MaxId + 1
          /\ id \in observations \/ id = nextId
      BY <1>0, <2>1, CreatedId
    <2>3. \A q \in Process : /\ proc'[q].after = proc[q].after
                              /\ proc'[q].page = proc[q].page
                              /\ proc'[q].pc \in {proc[q].pc, "ready"}
      BY <1>0, <1>17 DEF ImportMerge
    <2>4. ASSUME NEW q \in Process, NEW i \in observations',
                 i <= proc[q].after
          PROVE  i \in observations
      BY <1>0, <2>2, <2>4
    <2>5. QED
      BY <1>0, <2>1, <2>2, <2>3, <2>4
  <1>18. ASSUME NEW s \in ImportSigs, ImportReplace(s)
         PROVE  RebuildCovers'
    BY <1>0, <1>18 DEF ImportReplace
  <1>19. CASE ChangeConfig
    BY <1>0, <1>19 DEF ChangeConfig
  <1>20. CASE UNCHANGED vars
    BY <1>0, <1>20 DEF vars
  <1>21. QED
    BY <1>1, <1>2, <1>3, <1>4, <1>5, <1>6, <1>7, <1>8, <1>9, <1>10,
       <1>11, <1>12, <1>13, <1>14, <1>15, <1>16, <1>17, <1>18, <1>19, <1>20 DEF Next, Import

(* Whatever happens to the rows while a rebuild awaits its provider, it       *)
(* leaves no observation behind its cursor without a vector.                  *)
THEOREM RebuildCoversAll == Spec => []RebuildCovers
  <1>1. Init => CoverInv
    BY IndexInvInit DEF Init, CoverInv, KeysetInv, RebuildCovers, Rebuilding, Closed
  <1>2. CoverInv /\ [Next]_vars => CoverInv'
    BY TypeOKStep, IdsStep, PagesStep, IndexedStep, KeysetStep, CoversStep DEF CoverInv, IndexInv
  <1>3. CoverInv => RebuildCovers
    BY DEF CoverInv
  <1>4. QED
    BY <1>1, <1>2, <1>3, PTL DEF Spec

================================================================================
