------------------------------- MODULE Recall --------------------------------
(***************************************************************************)
(* Recall (src/recall): the candidates of the vector and of the keyword     *)
(* index, fused by reciprocal rank, led by curated kinds, cleared of noise,  *)
(* stale facts last; as the MCP tool memory_recall does it (hybrid), and the *)
(* prompt hook (keyword only).  Between its statements other processes       *)
(* delete rows and find anchors stale.                                      *)
(***************************************************************************)
EXTENDS Naturals, Sequences, FiniteSets, SequencesExt

CONSTANTS
  Id,         \* the observations in scope
  Rank,       \* the ranks of the candidates kept, the others being no match: an increasing sequence
  Scale,      \* a common multiple of RrfK + r and RrfK + r - 1, for r in Rank
  MaxLimit,   \* bound: results asked for
  MaxChange   \* bound: changes while a recall runs

RrfK == 60               \* DEFAULT_RRF_K
DurableWeight == 5       \* DURABLE_KIND_WEIGHT, 2.5, twice
Legs == {"vector", "fts"}

VARIABLES
  caller,     \* "mcp" or "hook"
  limit,
  vector, fts, \* what knn and searchFts return, best first
  curated,    \* the ids of a curated kind
  relevant,   \* those that pass the noise floor, by coverage or cosine
  exists, stale, \* the rows that are there; those with a stale anchor
  changes,
  pc, order,  \* the candidates still to be read, in their order
  out         \* the hits, then the result

vars == <<caller, limit, vector, fts, curated, relevant, exists, stale, changes, pc, order, out>>
input == <<caller, limit, vector, fts, curated, relevant>>

\* What the two searches may return.  By symmetry the vector leg is any prefix of
\* the ids in one order.
knn == {SubSeq(SetToSeq(Id), 1, n) : n \in 0..Cardinality(Id)}
searchFts == UNION {SetToAllKPermutations(I) : I \in SUBSET Id}

Init ==
  /\ caller \in {"mcp", "hook"} /\ limit \in 1..MaxLimit
  /\ vector \in (IF caller = "mcp" THEN knn ELSE {<<>>})   \* the hook does not embed
  /\ fts \in searchFts
  /\ curated \in SUBSET Id /\ relevant \in SUBSET Id /\ stale \in SUBSET Id
  /\ exists = Id /\ changes = 0
  /\ pc = "search" /\ order = <<>> /\ out = <<>>

Others ==
  /\ changes < MaxChange /\ changes' = changes + 1 /\ pc = "read"
  /\ UNCHANGED <<input, pc, order, out>>
Delete(id) == Others /\ id \in exists /\ exists' = exists \ {id} /\ UNCHANGED stale
GoesStale(id) == Others /\ id \notin stale /\ stale' = stale \cup {id} /\ UNCHANGED exists

(*------------------------------- the ranking -----------------------------*)

Position(id, leg) == CHOOSE i \in DOMAIN leg : leg[i] = id

\* Its share of one leg, 1 / (k + rank).
Share(id, leg) == IF id \in Range(leg) THEN Scale \div (RrfK + Rank[Position(id, leg)]) ELSE 0

FtsBase(id) == Scale \div (RrfK + Rank[Position(id, fts)] - 1)   \* positions from 0

\* reciprocalRankFusion, or the base of recallFts.
Fused(id) == IF caller = "mcp" THEN Share(id, vector) + Share(id, fts) ELSE FtsBase(id)

\* A vector-only candidate has its kind from kindsByIds.
Weight_FtsOnly(id) == IF id \in curated \cap Range(fts) THEN DurableWeight ELSE 2   \* Mutant: the lookup is left out
Weight(id) == IF id \in curated THEN DurableWeight ELSE 2
Weighted(id) == Weight(id) * Fused(id)

\* The order of arrival: the vector leg, then what only the keyword leg has.
Arrival == vector \o SelectSeq(fts, LAMBDA id : id \notin Range(vector))
Before(x, y) ==
  \/ Weighted(x) > Weighted(y)
  \/ Weighted(x) = Weighted(y) /\ Fused(x) > Fused(y)
  \/ Weighted(x) = Weighted(y) /\ Fused(x) = Fused(y) /\ Position(x, Arrival) < Position(y, Arrival)
Candidates == Range(vector) \cup Range(fts)

\* What a stable sort makes of distinct ids, the order being total on them.
Ordered(S, before(_, _)) ==
  {s \in SetToSeqs(S) : \A i, j \in DOMAIN s : i < j => before(s[i], s[j])}

(*------------------------------- one recall ------------------------------*)

\* After the await of the embedding: knn, searchFts and the kinds, at once.
Search ==
  /\ pc = "search" /\ caller = "mcp" /\ pc' = "read"
  /\ order' \in Ordered(Candidates, Before)
  /\ UNCHANGED <<input, exists, stale, changes, out>>
SearchFts ==
  /\ pc = "search" /\ caller = "hook" /\ pc' = "read"
  /\ order' \in Ordered(Candidates, Before)
  /\ UNCHANGED <<input, exists, stale, changes, out>>

\* The tool asks for the whole pool, to demote what is stale over all of it.
Want_Limit == limit                                          \* Mutant: only the window is demoted
Want == IF caller = "mcp" THEN 2 * Cardinality(Id) ELSE limit

PassesFloor(id) == id \in relevant   \* passesNoiseFloor

\* getObservation: a row that has gone is skipped, and a hit that clears
\* neither leg of the floor.
Read ==
  /\ pc = "read" /\ order # <<>> /\ Len(out) < Want
  /\ LET id == Head(order)
     IN out' = IF id \in exists /\ PassesFloor(id) THEN Append(out, id) ELSE out
  /\ order' = Tail(order)
  /\ UNCHANGED <<input, exists, stale, changes, pc>>

\* annotateFreshness sinks the stale ones; the tool then cuts to the limit.
Fresher(x, y) ==
  IF (x \in stale) = (y \in stale) THEN Position(x, out) < Position(y, out) ELSE y \in stale
Annotate ==
  /\ pc = "read" /\ (order = <<>> \/ Len(out) = Want) /\ pc' = "done"
  /\ \E demoted \in Ordered(Range(out), Fresher) :
       out' = SubSeq(demoted, 1, IF Len(demoted) < limit THEN Len(demoted) ELSE limit)
  /\ UNCHANGED <<input, exists, stale, changes, order>>

Next ==
  \/ \E id \in Id : Delete(id) \/ GoesStale(id)
  \/ Search \/ SearchFts \/ Read \/ Annotate

Spec == Init /\ [][Next]_vars

(*------------------------------- properties ------------------------------*)

Returned == IF pc = "done" THEN Range(out) ELSE {}

\* server.ts:176-178: "a fresh hit anywhere among the candidates beats stale
\* before the slice", however many stale curated facts rank before it.
FreshFirst ==
  caller = "mcp" /\ Returned \cap stale # {} =>
    \A id \in Candidates \cap relevant \cap exists : id \in Returned \cup stale

LegsOf(id) == {l \in Legs : id \in Range(IF l = "vector" THEN vector ELSE fts)}

\* A curated fact is returned before every raw turn of its freshness that is
\* found by no more of the two indexes, however deep in them the fact lies.
CuratedLeads ==
  pc = "done" =>
    \A i, j \in DOMAIN out :
      /\ out[i] \in curated /\ out[j] \notin curated
      /\ (out[i] \in stale) = (out[j] \in stale)
      /\ Cardinality(LegsOf(out[j])) <= Cardinality(LegsOf(out[i]))
      => i < j
=============================================================================
