------------------------------ MODULE CadenceLock ------------------------------
(***************************************************************************)
(* The cadence advisory lock of src/store/cadence-lock.ts, as the detached  *)
(* `abs maintain --auto` processes of src/maintain/run.ts use it.           *)
(*                                                                         *)
(* The lock is one file, .cadence.lock.  It carries the token of the        *)
(* process that created it, and its mtime tells a live holder (which        *)
(* heartbeats) from a dead one.  Every filesystem call is one step, because *)
(* other processes run between any two of them.                             *)
(*                                                                         *)
(* Abstractions.  A token is a fresh UUID, so a token no live process       *)
(* carries never matches again: all of them are the one value Ghost.  An    *)
(* mtime is "fresh" (age < TTL) or not.  The .dead-<token> scratch file is  *)
(* private to its creator and read by nobody: it is the pc "recreate" or    *)
(* "cleanup" of that process.                                               *)
(***************************************************************************)
CONSTANTS
  Proc,       \* the cadence processes
  Ghost,      \* any token that no live process carries
  NoFile,     \* there is no file at .cadence.lock
  MayFreeze   \* may a live holder miss heartbeats for a whole TTL (sleep, SIGSTOP)?

ASSUME CadenceLockAssumption ==
  /\ Ghost \notin Proc
  /\ MayFreeze \in BOOLEAN
  /\ NoFile \notin [owner : Proc \cup {Ghost}, fresh : BOOLEAN]

VARIABLES
  lockfile,    \* the file at .cadence.lock
  pc,          \* the next filesystem call of each process
  stolenLive   \* history: a steal has moved away the lock of a live holder

vars == <<lockfile, pc, stolenLive>>

File == [owner : Proc \cup {Ghost}, fresh : BOOLEAN]

(* "idle": not in a cadence.  "stat", "steal", "recreate", "cleanup": inside *)
(* acquireCadenceLock.  "held": the handle says acquired, the run spends LLM *)
(* tokens.  "beat": between ownsLock and utimes.  "remove": between ownsLock *)
(* and rm.                                                                   *)
Pc == {"idle", "stat", "steal", "recreate", "cleanup", "held", "beat", "remove"}

TypeOK ==
  /\ lockfile \in File \cup {NoFile}
  /\ pc \in [Proc -> Pc]
  /\ stolenLive \in BOOLEAN

Exists == lockfile # NoFile
ownsLock(p) == Exists /\ lockfile.owner = p
isStale == ~Exists \/ ~lockfile.fresh
Payload(p) == [owner |-> p, fresh |-> TRUE]

(* A file whose creator stops carrying the token belongs to nobody. *)
Disown(p) == IF ownsLock(p) THEN [lockfile EXCEPT !.owner = Ghost] ELSE lockfile

Goto(p, l) == pc' = [pc EXCEPT ![p] = l]

Init ==
  /\ lockfile \in {NoFile} \cup [owner : {Ghost}, fresh : BOOLEAN]
  /\ pc = [p \in Proc |-> "idle"]
  /\ stolenLive = FALSE

---------------------------------------------------------------------------
(* acquireCadenceLock *)

(* writeFileSync(path, payload, {flag: 'wx'}): the atomic create. *)
TryCreate(p) ==
  /\ pc[p] = "idle"
  /\ \/ /\ ~Exists
        /\ lockfile' = Payload(p)
        /\ Goto(p, "held")
     \/ /\ Exists
        /\ Goto(p, "stat")
        /\ UNCHANGED lockfile
  /\ UNCHANGED stolenLive

(* Mutant: an existing lock is never stolen. *)
CheckStale_Never(p) ==
  /\ pc[p] = "stat"
  /\ Goto(p, "idle")
  /\ UNCHANGED <<lockfile, stolenLive>>

(* EEXIST: isStale(path, TTL).  A file that vanished since counts as stale. *)
CheckStale(p) ==
  /\ pc[p] = "stat"
  /\ Goto(p, IF isStale THEN "steal" ELSE "idle")
  /\ UNCHANGED <<lockfile, stolenLive>>

(* renameSync(path, dead): moves whatever file is there now; throws when    *)
(* there is none, and the attempt ends unacquired.                          *)
Rename(p) ==
  /\ pc[p] = "steal"
  /\ \/ /\ Exists
        /\ lockfile' = NoFile
        /\ stolenLive' = (stolenLive \/ lockfile.owner \in Proc)
        /\ Goto(p, "recreate")
     \/ /\ ~Exists
        /\ Goto(p, "idle")
        /\ UNCHANGED <<lockfile, stolenLive>>

(* Mutant: the recreate overwrites, as the steal did before #138 RC-002. *)
Recreate_Overwrites(p) ==
  /\ pc[p] = "recreate"
  /\ lockfile' = Payload(p)
  /\ Goto(p, "cleanup")
  /\ UNCHANGED stolenLive

(* The second 'wx' create; a peer that created first makes it throw. *)
Recreate(p) ==
  /\ pc[p] = "recreate"
  /\ \/ /\ ~Exists
        /\ lockfile' = Payload(p)
        /\ Goto(p, "cleanup")
     \/ /\ Exists
        /\ Goto(p, "idle")
        /\ UNCHANGED lockfile
  /\ UNCHANGED stolenLive

(* rmSync(dead).  If it throws, the catch reports acquired = false although *)
(* the lockfile was recreated: the file is left behind, owned by nobody.    *)
Cleanup(p) ==
  /\ pc[p] = "cleanup"
  /\ \/ /\ Goto(p, "held")
        /\ UNCHANGED lockfile
     \/ /\ Goto(p, "idle")
        /\ lockfile' = Disown(p)
  /\ UNCHANGED stolenLive

---------------------------------------------------------------------------
(* The handle: heartbeat() and release() *)

HeartbeatCheck(p) ==
  /\ pc[p] = "held"
  /\ ownsLock(p)
  /\ Goto(p, "beat")
  /\ UNCHANGED <<lockfile, stolenLive>>

(* utimesSync(path): refreshes whatever file is there now. *)
HeartbeatTouch(p) ==
  /\ pc[p] = "beat"
  /\ lockfile' = IF Exists THEN [lockfile EXCEPT !.fresh = TRUE] ELSE NoFile
  /\ Goto(p, "held")
  /\ UNCHANGED stolenLive

(* The run is over: clearInterval(beat), then the check of release(). *)
ReleaseCheck(p) ==
  /\ pc[p] = "held"
  /\ Goto(p, IF ownsLock(p) THEN "remove" ELSE "idle")
  /\ UNCHANGED <<lockfile, stolenLive>>

(* rmSync(path): removes whatever file is there now, or fails and leaves it. *)
ReleaseRemove(p) ==
  /\ pc[p] = "remove"
  /\ lockfile' \in {NoFile, Disown(p)}
  /\ Goto(p, "idle")
  /\ UNCHANGED stolenLive

---------------------------------------------------------------------------
(* The environment *)

(* A process dies at any point: nothing of its finally runs. *)
Crash(p) ==
  /\ pc[p] # "idle"
  /\ lockfile' = Disown(p)
  /\ Goto(p, "idle")
  /\ UNCHANGED stolenLive

(* A TTL passes with no heartbeat.  A live holder beats five times in a TTL *)
(* (CADENCE_HEARTBEAT_MS against CADENCE_LOCK_TTL_MS), unless it is frozen. *)
Expire ==
  /\ Exists
  /\ lockfile.fresh
  /\ lockfile.owner = Ghost \/ MayFreeze
  /\ lockfile' = [lockfile EXCEPT !.fresh = FALSE]
  /\ UNCHANGED <<pc, stolenLive>>

Next ==
  \/ \E p \in Proc :
       \/ TryCreate(p)      \/ CheckStale(p)     \/ Rename(p)
       \/ Recreate(p)       \/ Cleanup(p)
       \/ HeartbeatCheck(p) \/ HeartbeatTouch(p)
       \/ ReleaseCheck(p)   \/ ReleaseRemove(p)
       \/ Crash(p)
  \/ Expire

Spec == Init /\ [][Next]_vars

(* Cadences keep being attempted, an attempt or a release that is not killed *)
(* goes on, a run ends, and time passes.  Strong fairness: no process is     *)
(* killed between the same two calls every time, and a run that heartbeats   *)
(* still comes to its finally.                                               *)
Fairness ==
  /\ WF_vars(Expire)
  /\ WF_vars(\E p \in Proc : TryCreate(p))
  /\ \A p \in Proc :
       /\ SF_vars(CheckStale(p))     /\ SF_vars(Rename(p))
       /\ WF_vars(Recreate(p))       /\ WF_vars(Cleanup(p))
       /\ WF_vars(HeartbeatTouch(p)) /\ SF_vars(ReleaseCheck(p))
       /\ WF_vars(ReleaseRemove(p))

FairSpec == Spec /\ Fairness

---------------------------------------------------------------------------
(* Properties *)

Running == {p \in Proc : pc[p] \in {"held", "beat", "remove"}}

(* One cadence at a time: no two processes are inside a run together, so no  *)
(* consolidate call is billed twice (cadence-lock.ts:74-79).                 *)
MutualExclusion == \A p, q \in Running : p = q

(* The only hole is the steal: as long as no rename has moved away the lock  *)
(* of a live holder, runs exclude each other, across crashes, expiry, failed *)
(* cleanups and any number of concurrent steals.                             *)
ExclusiveUnlessStolen == ~stolenLive => MutualExclusion

(* A token is on disk only while its process is between create and release,  *)
(* and, until the lock of a live holder is stolen, everyone who created one  *)
(* still owns the file: so release() and heartbeat() touch their own lock    *)
(* only (cadence-lock.ts:135).                                               *)
Creators == Running \cup {p \in Proc : pc[p] = "cleanup"}
LockInv ==
  /\ TypeOK
  /\ \A p \in Proc : ownsLock(p) => p \in Creators
  /\ ~stolenLive => \A p \in Creators : ownsLock(p)

(* The lock implements the abstract promise. *)
Abstract == INSTANCE ExclusiveRun WITH running <- Running, broken <- stolenLive
AbstractSpec == Abstract!Spec

(* A dead holder never wedges the cadence: its lockfile is eventually        *)
(* removed or replaced by a live one (cadence-lock.ts:19-20).                *)
DeadHolderCleared ==
  (Exists /\ lockfile.owner = Ghost) ~> (~Exists \/ lockfile.owner # Ghost)

================================================================================
