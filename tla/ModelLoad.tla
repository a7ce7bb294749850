----------------------------- MODULE ModelLoad -------------------------------
(***************************************************************************)
(* The local embedding model in one process (src/embedding/local.ts): many  *)
(* callers, one memoized load.  A hook waits with a budget; when it has run  *)
(* out the load goes on and serves who comes after.                        *)
(***************************************************************************)
EXTENDS Naturals, FiniteSets

CONSTANTS
  Caller,   \* calls of ensureReady and embed
  MaxLoad   \* bound: loads begun

VARIABLES
  load,     \* the loads so far: "pending", "ok" or "failed"
  cache,    \* extractorCache: the load that is memoized, 0 for none
  caller,   \* what each call waits for, or its outcome
  slow      \* firstRunNoticeEmitted

vars == <<load, cache, caller, slow>>

Load == 1..MaxLoad
New == [at |-> "new", of |-> 0, budget |-> FALSE]

Init == /\ load = [l \in Load |-> "none"] /\ cache = 0
        /\ caller = [c \in Caller |-> New] /\ slow = FALSE

Becomes(c, at) == caller' = [caller EXCEPT ![c].at = at]

\* loadExtractorOnce: the memoized load, or a new one.
Call(c, budget) ==
  /\ caller[c].at = "new"
  /\ \/ cache # 0 /\ UNCHANGED <<load, cache>>
     \/ /\ cache = 0
        /\ \E l \in Load : /\ load[l] = "none" /\ \A k \in 1..(l - 1) : load[k] # "none"
                           /\ load' = [load EXCEPT ![l] = "pending"] /\ cache' = l
  /\ caller' = [caller EXCEPT ![c] = [at |-> "waits", of |-> cache', budget |-> budget]]
  /\ UNCHANGED slow

\* The notice of a first download, once in the process.
SlowLoad ==
  /\ ~slow /\ \E c \in Caller : caller[c].at \in {"waits", "timeout"} /\ load[caller[c].of] = "pending"
  /\ slow' = TRUE /\ UNCHANGED <<load, cache, caller>>

Succeeds(l) ==
  /\ load[l] = "pending" /\ load' = [load EXCEPT ![l] = "ok"]
  /\ UNCHANGED <<cache, caller, slow>>

FailsLoad_Kept(l) ==   \* Mutant: the rejected promise stays memoized
  /\ load[l] = "pending" /\ load' = [load EXCEPT ![l] = "failed"]
  /\ UNCHANGED <<cache, caller, slow>>

\* The eviction is the first reaction to the rejection: no caller runs between.
FailsLoad(l) ==
  /\ load[l] = "pending" /\ load' = [load EXCEPT ![l] = "failed"]
  /\ cache' = IF cache = l THEN 0 ELSE cache
  /\ UNCHANGED <<caller, slow>>

\* EmbeddingLoadTimeoutError, the load goes on.
Timeout_Forgets(c) ==   \* Mutant: the caller that gives up drops the load it began
  /\ caller[c].at = "waits" /\ caller[c].budget /\ load[caller[c].of] = "pending"
  /\ Becomes(c, "timeout") /\ cache' = 0 /\ UNCHANGED <<load, slow>>
Timeout(c) ==
  /\ caller[c].at = "waits" /\ caller[c].budget /\ load[caller[c].of] = "pending"
  /\ Becomes(c, "timeout") /\ UNCHANGED <<load, cache, slow>>

Settles(c) ==
  /\ caller[c].at = "waits" /\ load[caller[c].of] # "pending"
  /\ Becomes(c, IF load[caller[c].of] = "ok" THEN "ready" ELSE "error")
  /\ UNCHANGED <<load, cache, slow>>

\* The same caller asks again: the next hook, or embed after ensureReady.
Again(c) ==
  /\ caller[c].at \in {"ready", "error", "timeout"} /\ Becomes(c, "new")
  /\ UNCHANGED <<load, cache, slow>>

Next ==
  \/ \E c \in Caller : (\E b \in BOOLEAN : Call(c, b)) \/ Timeout(c) \/ Settles(c) \/ Again(c)
  \/ \E l \in Load : Succeeds(l) \/ FailsLoad(l)
  \/ SlowLoad

Spec == Init /\ [][Next]_vars

\* However calls, budgets and failures interleave: one download at a time, the
\* one a next call will share, no failed load that a next call would be given,
\* and no second load once one has succeeded.
OneLoad ==
  /\ \A l \in Load : load[l] = "pending" => cache = l
  /\ cache # 0 => load[cache] # "failed"
  /\ \A l \in Load : load[l] = "ok" => cache = l
=============================================================================
