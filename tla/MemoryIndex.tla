------------------------------ MODULE MemoryIndex ------------------------------
(***************************************************************************)
(* The observations of the store and the index derived from them: one       *)
(* vector and one FTS row per observation, and the signature of the         *)
(* embedding provider stamped in kv_meta (src/indexer/indexer.ts,           *)
(* src/store/memory-store.ts, src/export/index.ts, src/mcp/server.ts).      *)
(*                                                                         *)
(* Any number of processes share the store.  Each is single-threaded: it    *)
(* runs until it awaits an embedding, but every SQLite transaction is a     *)
(* step of its own, because other processes commit in between.              *)
(*                                                                         *)
(* Abstractions.  An observation is its id (AUTOINCREMENT: never reused);   *)
(* a vector is the signature of the provider that produced it.  Sessions    *)
(* are left out: a write whose session is gone fails like any other.        *)
(* The three counts of counts() are one read.                              *)
(***************************************************************************)
EXTENDS Naturals, FiniteSets

CONSTANTS
  Process,     \* the processes that open the store
  Server,      \* those that are MCP servers: they survive a failed rebuild
  Sig,         \* signatures `provider:model:dimensions`, dimensions being equal
  NoSig,       \* no signature stamped, or no vector stored
  PageSize,    \* DEFAULT_BATCH_SIZE
  ImportSigs,  \* what artifacts hold: vectors of which signatures, NoSig for none
  MaxId        \* bound: observation ids run from 1 to MaxId

ASSUME MemoryIndexAssumption ==
  /\ Server \subseteq Process
  /\ NoSig \notin Sig
  /\ PageSize \in Nat \ {0}
  /\ ImportSigs \subseteq Sig \cup {NoSig}
  /\ MaxId \in Nat

Id == 1 .. MaxId

VARIABLES
  observations,  \* the rows of the observations table
  nextId,        \* its AUTOINCREMENT counter
  vectors,       \* vec_observations: the signature of each id's vector, or NoSig
  fts,           \* the row ids of fts_observations
  signature,     \* kv_meta embed_signature
  rebuildFailed, \* kv_meta index:rebuild_failed_at is set
  config,        \* the signature a process started now would use
  proc           \* what each process is doing

storeVars == <<observations, nextId, vectors, fts, signature, rebuildFailed>>
vars == <<observations, nextId, vectors, fts, signature, rebuildFailed, config, proc>>

\* What counts() has told: no observation, as many entries as rows, or not.
Counts == {"empty", "equal", "drift"}
Pc == {"closed", "ensure", "first", "page", "embed", "vector", "fts", "prune", "stamp",
       "clear", "ready", "write"} \cup Counts

(* after: the keyset cursor of rebuild(); page: its rows still to be indexed. *)
ProcState == [pc : Pc, sig : Sig \cup {NoSig}, after : Nat, page : SUBSET Id]

TypeOK ==
  /\ observations \subseteq Id
  /\ nextId \in 1 .. MaxId + 1
  /\ vectors \in [Id -> Sig \cup {NoSig}]
  /\ fts \subseteq Id
  /\ signature \in Sig \cup {NoSig}
  /\ rebuildFailed \in BOOLEAN
  /\ config \in Sig
  /\ proc \in [Process -> ProcState]

vectorRows == {i \in Id : vectors[i] # NoSig}

counts ==
  IF observations = {} THEN "empty"
  ELSE IF /\ Cardinality(vectorRows) = Cardinality(observations)
          /\ Cardinality(fts) = Cardinality(observations)
  THEN "equal" ELSE "drift"

(* Indexer.staleness, for a provider of signature s when `stamped` was read. *)
staleness(told, stamped, s) ==
  CASE told = "empty" -> "fresh"
    [] told # "empty" /\ stamped = NoSig -> "never-built"
    [] told # "empty" /\ stamped \notin {NoSig, s} -> "signature-change"
    [] told = "drift" /\ stamped = s -> "count-drift"
    [] OTHER -> "fresh"

(* listObservations({afterId, limit, order: 'asc'}): the next PageSize ids. *)
listObservations(afterId) ==
  {i \in observations :
     i > afterId /\ Cardinality({j \in observations : afterId < j /\ j < i}) < PageSize}

IsLowest(i, S) == \A j \in S : i <= j
IsHighest(i, S) == \A j \in S : j <= i

Closed == [pc |-> "closed", sig |-> NoSig, after |-> 0, page |-> {}]

Goto(p, l) == proc' = [proc EXCEPT ![p].pc = l]

Init ==
  /\ observations = {} /\ nextId = 1
  /\ vectors = [i \in Id |-> NoSig]
  /\ fts = {}
  /\ signature = NoSig
  /\ rebuildFailed = FALSE
  /\ config \in Sig
  /\ proc = [p \in Process |-> Closed]

---------------------------------------------------------------------------
(* openMemory: with the startup gate, or (ensure: false) without it.  An MCP *)
(* server always runs the gate, in the background, its tools waiting for it. *)
openMemory(p) ==
  /\ proc[p].pc = "closed"
  /\ \E l \in IF p \in Server THEN {"ensure"} ELSE {"ensure", "ready"} :
       proc' = [proc EXCEPT ![p] = [Closed EXCEPT !.pc = l, !.sig = config]]
  /\ UNCHANGED <<storeVars, config>>

(* ensureIndex: the counts, then the signature; fresh, or the start of a     *)
(* rebuild.                                                                  *)
EnsureCounts(p) ==
  /\ proc[p].pc = "ensure"
  /\ Goto(p, counts)
  /\ UNCHANGED <<storeVars, config>>

EnsureVerdict_KeepsFlag(p) ==   \* Mutant: only a rebuild clears the failure flag
  /\ proc[p].pc \in Counts
  /\ Goto(p, IF staleness(proc[p].pc, signature, proc[p].sig) # "fresh" THEN "page"
             ELSE IF signature = NoSig THEN "first" ELSE "ready")
  /\ UNCHANGED <<storeVars, config>>

EnsureVerdict(p) ==
  /\ proc[p].pc \in Counts
  /\ Goto(p, IF staleness(proc[p].pc, signature, proc[p].sig) # "fresh" THEN "page"
             ELSE IF signature = NoSig THEN "first" ELSE "clear")
  /\ UNCHANGED <<storeVars, config>>

(* The signature was missing when it was read: another process may have set   *)
(* one since.                                                                *)
EnsureStamp(p) ==
  /\ proc[p].pc = "first"
  /\ signature' = proc[p].sig
  /\ Goto(p, "clear")
  /\ UNCHANGED <<observations, nextId, vectors, fts, rebuildFailed, config>>

---------------------------------------------------------------------------
(* rebuild() *)

RebuildPage(p) ==
  /\ proc[p].pc = "page"
  /\ LET page == listObservations(proc[p].after)
     IN  \/ /\ page = {}
            /\ Goto(p, "prune")
         \/ \E last \in page :
              /\ IsHighest(last, page)
              /\ proc' = [proc EXCEPT ![p] = [@ EXCEPT !.pc = "embed", !.page = page,
                                                       !.after = last]]
  /\ UNCHANGED <<storeVars, config>>

RebuildEmbedded(p) ==
  /\ proc[p].pc = "embed"
  /\ Goto(p, "vector")
  /\ UNCHANGED <<storeVars, config>>

(* The provider, or a statement of the loop, throws.  backgroundEnsure        *)
(* records the failure and the server goes on with a degraded index; any     *)
(* other process propagates the error out of openMemory and exits.           *)
RebuildThrows(p) ==
  /\ proc[p].pc \in {"embed", "vector", "fts", "prune", "stamp"}
  /\ IF p \in Server
     THEN /\ rebuildFailed' = TRUE
          /\ proc' = [proc EXCEPT ![p].pc = "ready", ![p].page = {}]
     ELSE /\ proc' = [proc EXCEPT ![p] = Closed]
          /\ UNCHANGED rebuildFailed
  /\ UNCHANGED <<observations, nextId, vectors, fts, signature, config>>

(* upsertVector(entry.id, vector): the row may have been deleted meanwhile. *)
RebuildVector(p) ==
  /\ proc[p].pc = "vector"
  /\ \E i \in proc[p].page :
       /\ IsLowest(i, proc[p].page)
       /\ vectors' = [vectors EXCEPT ![i] = proc[p].sig]
  /\ Goto(p, "fts")
  /\ UNCHANGED <<observations, nextId, fts, signature, rebuildFailed, config>>

(* The entry i is done: on to the next one, or the next page. *)
AfterRow(r, i) ==
  [r EXCEPT !.page = r.page \ {i}, !.pc = IF r.page = {i} THEN "page" ELSE "vector"]

(* indexFts(entry.id, content), and on to the next row or page. *)
RebuildFts(p) ==
  /\ proc[p].pc = "fts"
  /\ \E i \in proc[p].page :
       /\ IsLowest(i, proc[p].page)
       /\ fts' = fts \cup {i}
       /\ proc' = [proc EXCEPT ![p] = AfterRow(@, i)]
  /\ UNCHANGED <<observations, nextId, vectors, signature, rebuildFailed, config>>

(* Mutant: the rebuild ends without dropping the rows of deleted observations. *)
RebuildPrune_Skipped(p) ==
  /\ proc[p].pc = "prune"
  /\ Goto(p, "stamp")
  /\ UNCHANGED <<storeVars, config>>

(* pruneIndexOrphans *)
RebuildPrune(p) ==
  /\ proc[p].pc = "prune"
  /\ vectors' = [i \in Id |-> IF i \in observations THEN vectors[i] ELSE NoSig]
  /\ fts' = fts \cap observations
  /\ Goto(p, "stamp")
  /\ UNCHANGED <<observations, nextId, signature, rebuildFailed, config>>

RebuildStamp(p) ==
  /\ proc[p].pc = "stamp"
  /\ signature' = proc[p].sig
  /\ Goto(p, "clear")
  /\ UNCHANGED <<observations, nextId, vectors, fts, rebuildFailed, config>>

(* deleteMeta of the failure flag, after a rebuild and when there was none. *)
RebuildClear(p) ==
  /\ proc[p].pc = "clear"
  /\ rebuildFailed' = FALSE
  /\ Goto(p, "ready")
  /\ UNCHANGED <<observations, nextId, vectors, fts, signature, config>>

---------------------------------------------------------------------------
(* write(): the session check and the embedding come before the transaction. *)

WriteBegin(p) ==
  /\ proc[p].pc = "ready"
  /\ Goto(p, "write")
  /\ UNCHANGED <<storeVars, config>>

(* Mutant: ids as SQLite hands them out without AUTOINCREMENT. *)
createObservation_Reuses(id) ==
  \/ /\ IsHighest(id - 1, observations)
     /\ id = 1 \/ id - 1 \in observations
     /\ observations' = observations \cup {id}
     /\ nextId' = IF nextId > id THEN nextId ELSE id + 1
  \/ /\ id \in observations
     /\ UNCHANGED <<observations, nextId>>

(* createObservation: a new id, or (same session, content and source) the id *)
(* of the existing row.                                                      *)
createObservation(id) ==
  \/ /\ id = nextId /\ nextId \in Id
     /\ observations' = observations \cup {id}
     /\ nextId' = nextId + 1
  \/ /\ id \in observations
     /\ UNCHANGED <<observations, nextId>>

(* Mutant: the write path forgets its FTS row. *)
WriteCommit_NoFts(p) ==
  /\ proc[p].pc = "write"
  /\ \E id \in Id :
       /\ createObservation(id)
       /\ vectors' = [vectors EXCEPT ![id] = proc[p].sig]
  /\ signature' = proc[p].sig
  /\ Goto(p, "ready")
  /\ UNCHANGED <<fts, rebuildFailed, config>>

(* Row, vector, FTS and signature commit as one transaction. *)
WriteCommit(p) ==
  /\ proc[p].pc = "write"
  /\ \E id \in Id :
       /\ createObservation(id)
       /\ vectors' = [vectors EXCEPT ![id] = proc[p].sig]
       /\ fts' = fts \cup {id}
  /\ signature' = proc[p].sig
  /\ Goto(p, "ready")
  /\ UNCHANGED <<rebuildFailed, config>>

(* The embedding or the transaction throws (the session was deleted): nothing *)
(* was written.                                                               *)
WriteThrows(p) ==
  /\ proc[p].pc = "write"
  /\ Goto(p, "ready")
  /\ UNCHANGED <<storeVars, config>>

---------------------------------------------------------------------------
(* Deletes and imports: one transaction each, from any connection. *)

(* deleteObservation, deleteSession: rows and their index entries. *)
DeleteRows(S) ==
  /\ observations' = observations \ S
  /\ vectors' = [i \in Id |-> IF i \in S THEN NoSig ELSE vectors[i]]
  /\ fts' = fts \ S
  /\ UNCHANGED <<nextId, signature, rebuildFailed, config, proc>>

Delete ==
  \E S \in SUBSET observations : S # {} /\ DeleteRows(S)

(* importStore of one observation that carries the vector of signature s, or  *)
(* none.  merge may find the row present; replace wipes first, prunes, and    *)
(* clears the failure flag.  Neither touches embed_signature.                 *)
ImportMerge(s) ==
  /\ \E id \in Id :
       /\ createObservation(id)
       /\ vectors' = IF s = NoSig THEN vectors ELSE [vectors EXCEPT ![id] = s]
       /\ fts' = fts \cup {id}
  /\ UNCHANGED <<signature, rebuildFailed, config, proc>>

ImportReplace(s) ==
  /\ nextId \in Id
  /\ observations' = {nextId}
  /\ nextId' = nextId + 1
  /\ vectors' = [i \in Id |-> IF i = nextId THEN s ELSE NoSig]
  /\ fts' = {nextId}
  /\ rebuildFailed' = FALSE
  /\ UNCHANGED <<signature, config, proc>>

Import ==
  \E s \in ImportSigs :
    ImportMerge(s) \/ ImportReplace(s)

---------------------------------------------------------------------------
(* The user switches the embedding provider; running processes keep theirs. *)
ChangeConfig ==
  /\ config' \in Sig \ {config}
  /\ UNCHANGED <<storeVars, proc>>

(* The process exits or is killed. *)
Close(p) ==
  /\ proc[p].pc # "closed"
  /\ proc' = [proc EXCEPT ![p] = Closed]
  /\ UNCHANGED <<storeVars, config>>

Next ==
  \/ \E p \in Process :
       \/ openMemory(p)
       \/ EnsureCounts(p) \/ EnsureVerdict(p) \/ EnsureStamp(p)
       \/ RebuildPage(p)  \/ RebuildEmbedded(p) \/ RebuildThrows(p)
       \/ RebuildVector(p) \/ RebuildFts(p)
       \/ RebuildPrune(p) \/ RebuildStamp(p)  \/ RebuildClear(p)
       \/ WriteBegin(p)   \/ WriteCommit(p)   \/ WriteThrows(p)
       \/ Close(p)
  \/ Delete
  \/ Import
  \/ ChangeConfig

Spec == Init /\ [][Next]_vars

(* Memory is opened with the startup gate again and again, short-lived         *)
(* processes end, and the steps of ensureIndex follow each other.              *)
Fairness ==
  \A p \in Process :
    /\ SF_vars(openMemory(p) /\ proc'[p].pc = "ensure")
    /\ SF_vars(Close(p) /\ proc[p].pc = "ready")
    /\ WF_vars(WriteCommit(p) \/ WriteThrows(p))
    /\ WF_vars(EnsureCounts(p) \/ EnsureVerdict(p) \/ EnsureStamp(p))
    /\ WF_vars(RebuildPage(p) \/ RebuildEmbedded(p))
    /\ WF_vars(RebuildVector(p) \/ RebuildFts(p))
    /\ WF_vars(RebuildPrune(p) \/ RebuildStamp(p) \/ RebuildClear(p))

FairSpec == Spec /\ Fairness

---------------------------------------------------------------------------
(* Properties *)

Fresh == staleness(counts, signature, config) = "fresh"
NullVectors == NoSig \in ImportSigs
Rebuilding(p) ==
  proc[p].pc \in {"page", "embed", "vector", "fts", "prune"}

(* No id is handed out twice, so the ids a rebuild holds across an await are   *)
(* those of the rows it read: what it re-creates after a delete is an orphan,  *)
(* never another observation's row.                                            *)
IdsHandedOut ==
  /\ \A i \in observations \cup fts \cup vectorRows : i < nextId
  /\ \A p \in Process : \A i \in proc[p].page : i < nextId

PagesHeld ==
  \A p \in Process :
    /\ proc[p].pc \in {"embed", "vector", "fts"} => proc[p].page # {}
    /\ proc[p].pc # "closed" => proc[p].sig \in Sig

(* Every observation is in the FTS index, and has a vector unless an artifact  *)
(* lacked it.                                                                  *)
Indexed ==
  /\ observations \subseteq fts
  /\ ~NullVectors => observations \subseteq vectorRows

IndexInv == TypeOK /\ IdsHandedOut /\ PagesHeld /\ Indexed

(* The strengthening under which RebuildCovers is inductive. *)
KeysetInv ==
  \A p \in Process :
    /\ proc[p].after < nextId
    /\ proc[p].pc \in Counts \cup {"ensure"} => proc[p].after = 0
    /\ proc[p].pc \in Counts \cup {"ensure", "page", "prune"} => proc[p].page = {}
    /\ proc[p].pc = "fts" =>
         \A i \in proc[p].page \cap observations :
           IsLowest(i, proc[p].page) => i \in vectorRows

(* The staleness verdict compares three counts.  When no artifact lacks        *)
(* vectors, "fresh" nevertheless means the right rows, not only the right      *)
(* number of them: exactly the stored observations are in both indexes, across *)
(* crashed, failed and concurrent rebuilds, deletes and imports                *)
(* (indexer.ts:39, 127).                                                       *)
FreshMeansExactRows ==
  ~NullVectors /\ Fresh /\ observations # {}
    => vectorRows = observations /\ fts = observations

(* Keyset pagination over ids that are never reused: whatever is inserted,     *)
(* deleted or imported while a rebuild awaits its provider, every observation  *)
(* at or below its cursor, and not in the page it holds, has a vector          *)
(* (indexer.ts:132-136).                                                       *)
RebuildCovers ==
  \A p \in Process : \A i \in observations :
    /\ Rebuilding(p)
    /\ i <= proc[p].after /\ i \notin proc[p].page
    => i \in vectorRows

(* Every vector of a store that reads as fresh comes from the provider the     *)
(* configuration names: recall compares a query only with vectors of its own   *)
(* model (indexer.ts:34, 39).                                                  *)
FreshMeansOwnVectors ==
  Fresh => \A i \in observations : vectors[i] \in {config, NoSig}

(* A stale index is eventually fresh, provided some process is neither killed  *)
(* nor failed by its provider while it rebuilds: a rebuild restarts from the   *)
(* first page, so a run of interrupted ones makes no progress                  *)
(* (indexer.ts:127-128).                                                       *)
Interrupted(p) == RebuildThrows(p) \/ (Close(p) /\ proc[p].pc # "ready")
StaleIsRepaired ==
  (\E p \in Process : <>[][~Interrupted(p)]_vars) => (~Fresh ~> Fresh)

(* The flag by which the session start calls the index degraded does not stick,  *)
(* under the same provision: a server may record its failure after another        *)
(* process has repaired the index, which is then found fresh and not rebuilt; so   *)
(* the gate clears it there, too (indexer.ts:207-209 and 214-217).                *)
DegradedIsCleared ==
  (\E p \in Process : <>[][~Interrupted(p)]_vars) => (rebuildFailed ~> ~rebuildFailed)

================================================================================
