--------------------------- MODULE CadenceLockProofs ---------------------------
(***************************************************************************)
(* The cadence lock for every set of processes, with and without freezing:  *)
(* token discipline, exclusion up to the first stolen live lock, and the    *)
(* refinement of ExclusiveRun.                                              *)
(***************************************************************************)
EXTENDS CadenceLock, TLAPS

(* A lockfile exists exactly when the variable holds a File record. *)
LEMMA FileShape ==
  ASSUME TypeOK
  PROVE  Exists <=> lockfile \in File
  BY CadenceLockAssumption DEF TypeOK, Exists, File

(* A freshly created lockfile carries its creator's token. *)
LEMMA PayloadShape ==
  ASSUME NEW p \in Proc
  PROVE  Payload(p) \in File /\ Payload(p) # NoFile /\ Payload(p).owner = p
  <1>1. Payload(p) \in File /\ Payload(p).owner = p
    BY DEF Payload, File
  <1>2. QED
    BY <1>1, CadenceLockAssumption DEF File

(* Disowning keeps the shape of the file and never makes p's own token stay. *)
LEMMA DisownShape ==
  ASSUME TypeOK, NEW p \in Proc
  PROVE  /\ Disown(p) \in File \cup {NoFile}
         /\ ~Exists => Disown(p) = NoFile
         /\ Exists => /\ Disown(p) \in File
                      /\ Disown(p).owner = IF lockfile.owner = p THEN Ghost ELSE lockfile.owner
  <1>1. CASE ownsLock(p)
    <2>1. Exists /\ lockfile \in File
      BY <1>1, FileShape DEF ownsLock
    <2>2. Disown(p) = [lockfile EXCEPT !.owner = Ghost]
      BY <1>1 DEF Disown
    <2>3. Disown(p) \in File /\ Disown(p).owner = Ghost
      BY <2>1, <2>2 DEF File
    <2>4. QED
      BY <1>1, <2>1, <2>3 DEF ownsLock
  <1>2. CASE ~ownsLock(p)
    BY <1>2, FileShape DEF Disown, ownsLock, TypeOK, Exists
  <1>3. QED
    BY <1>1, <1>2

(* Every step of the protocol preserves the token discipline. *)
LEMMA LockInvStep ==
  ASSUME LockInv, [Next]_vars
  PROVE  LockInv'
  <1> USE CadenceLockAssumption
  <1>0. TypeOK /\ (Exists <=> lockfile \in File)
    BY FileShape DEF LockInv
  <1>1. ASSUME NEW p \in Proc, TryCreate(p)
        PROVE  LockInv'
    BY <1>0, <1>1, PayloadShape
       DEF LockInv, TypeOK, TryCreate, Exists, ownsLock, Creators, Running, Goto, Pc
  <1>2. ASSUME NEW p \in Proc, CheckStale(p)
        PROVE  LockInv'
    BY <1>0, <1>2 DEF LockInv, TypeOK, CheckStale, Exists, ownsLock, Creators, Running, Goto, Pc
  <1>3. ASSUME NEW p \in Proc, Rename(p)
        PROVE  LockInv'
    BY <1>0, <1>3 DEF LockInv, TypeOK, Rename, Exists, ownsLock, Creators, Running, Goto, Pc, File
  <1>4. ASSUME NEW p \in Proc, Recreate(p)
        PROVE  LockInv'
    BY <1>0, <1>4, PayloadShape
       DEF LockInv, TypeOK, Recreate, Exists, ownsLock, Creators, Running, Goto, Pc
  <1>5. ASSUME NEW p \in Proc, Cleanup(p)
        PROVE  LockInv'
    BY <1>0, <1>5, DisownShape
       DEF LockInv, TypeOK, Cleanup, Exists, ownsLock, Creators, Running, Goto, File, Pc
  <1>6. ASSUME NEW p \in Proc, HeartbeatCheck(p)
        PROVE  LockInv'
    BY <1>0, <1>6 DEF LockInv, TypeOK, HeartbeatCheck, Exists, ownsLock, Creators, Running, Goto, Pc
  <1>7. ASSUME NEW p \in Proc, HeartbeatTouch(p)
        PROVE  LockInv'
    BY <1>0, <1>7 DEF LockInv, TypeOK, HeartbeatTouch, Exists, ownsLock, Creators, Running, Goto,
       Pc, File
  <1>8. ASSUME NEW p \in Proc, ReleaseCheck(p)
        PROVE  LockInv'
    BY <1>0, <1>8 DEF LockInv, TypeOK, ReleaseCheck, Exists, ownsLock, Creators, Running, Goto, Pc
  <1>9. ASSUME NEW p \in Proc, ReleaseRemove(p)
        PROVE  LockInv'
    BY <1>0, <1>9, DisownShape
       DEF LockInv, TypeOK, ReleaseRemove, Exists, ownsLock, Creators, Running, Goto, File, Pc
  <1>10. ASSUME NEW p \in Proc, Crash(p)
         PROVE  LockInv'
    BY <1>0, <1>10, DisownShape
       DEF LockInv, TypeOK, Crash, Exists, ownsLock, Creators, Running, Goto, File, Pc
  <1>11. CASE Expire
    BY <1>0, <1>11 DEF LockInv, TypeOK, Expire, Exists, ownsLock, Creators, Running, File
  <1>12. CASE UNCHANGED vars
    BY <1>12 DEF LockInv, TypeOK, vars, Exists, ownsLock, Creators, Running
  <1>13. QED
    BY <1>1, <1>2, <1>3, <1>4, <1>5, <1>6, <1>7, <1>8, <1>9, <1>10, <1>11, <1>12 DEF Next

(* Token discipline: a token is on disk only while its process is between    *)
(* create and release, and until the lock of a live holder is stolen every   *)
(* creator still owns the file, so release and heartbeat touch their own.    *)
THEOREM LockInvariant == Spec => []LockInv
  <1>1. Init => LockInv
    BY CadenceLockAssumption
       DEF Init, LockInv, TypeOK, File, Pc, Exists, ownsLock, Creators, Running
  <1>2. LockInv /\ [Next]_vars => LockInv'
    BY LockInvStep
  <1>3. QED
    BY <1>1, <1>2, PTL DEF Spec

(* The token discipline implies exclusion: two runs would both own the file. *)
LEMMA ExclusionFromTokens == LockInv => ExclusiveUnlessStolen
  BY DEF LockInv, ExclusiveUnlessStolen, MutualExclusion, Creators, ownsLock

(* One cadence at a time until a rename moves away the lock of a live        *)
(* holder, whatever crashes, expires, freezes or fails to clean up.          *)
THEOREM ExclusiveRuns == Spec => []ExclusiveUnlessStolen
  BY LockInvariant, ExclusionFromTokens, PTL

(* Every step of the lock is a step of ExclusiveRun or a stutter. *)
LEMMA StepSimulation ==
  ASSUME LockInv, LockInv', [Next]_vars
  PROVE  [Abstract!Next]_<<Running, stolenLive>>
  <1> USE DEF TypeOK, Goto, Pc, Running
  <1>0. TypeOK /\ pc \in [Proc -> Pc]
    BY DEF LockInv
  <1>1. ASSUME NEW p \in Proc, p \notin Running, Running' = Running \cup {p},
               UNCHANGED stolenLive
        PROVE  Abstract!Begin(p)
    <2>1. stolenLive \/ Running = {}
      BY <1>1, ExclusionFromTokens DEF LockInv, Creators, ownsLock
    <2>2. QED
      BY <1>1, <2>1 DEF Abstract!Begin
  <1>2. ASSUME NEW p \in Proc, pc' = [pc EXCEPT ![p] = "idle"], UNCHANGED stolenLive
        PROVE  Abstract!End(p) \/ UNCHANGED <<Running, stolenLive>>
    BY <1>0, <1>2 DEF Abstract!End
  <1>3. ASSUME NEW p \in Proc, TryCreate(p)
        PROVE  [Abstract!Next]_<<Running, stolenLive>>
    <2>1. CASE Goto(p, "held")
      BY <1>0, <1>1, <1>3, <2>1 DEF TryCreate, Abstract!Next
    <2>2. CASE Goto(p, "stat")
      BY <1>0, <1>3, <2>2 DEF TryCreate
    <2>3. QED
      BY <1>3, <2>1, <2>2 DEF TryCreate
  <1>4. ASSUME NEW p \in Proc, CheckStale(p)
        PROVE  UNCHANGED <<Running, stolenLive>>
    BY <1>0, <1>4 DEF CheckStale
  <1>5. ASSUME NEW p \in Proc, Rename(p)
        PROVE  [Abstract!Next]_<<Running, stolenLive>>
    <2>1. UNCHANGED Running
      BY <1>0, <1>5 DEF Rename
    <2>2. stolenLive' = stolenLive \/ stolenLive' = TRUE
      BY <1>0, <1>5 DEF Rename
    <2>3. QED
      BY <2>1, <2>2 DEF Abstract!Next, Abstract!Break
  <1>6. ASSUME NEW p \in Proc, Recreate(p)
        PROVE  UNCHANGED <<Running, stolenLive>>
    BY <1>0, <1>6 DEF Recreate
  <1>7. ASSUME NEW p \in Proc, Cleanup(p)
        PROVE  [Abstract!Next]_<<Running, stolenLive>>
    <2>1. CASE Goto(p, "held")
      BY <1>0, <1>1, <1>7, <2>1 DEF Cleanup, Abstract!Next
    <2>2. CASE Goto(p, "idle")
      BY <1>0, <1>7, <2>2 DEF Cleanup
    <2>3. QED
      BY <1>7, <2>1, <2>2 DEF Cleanup
  <1>8. ASSUME NEW p \in Proc, HeartbeatCheck(p) \/ HeartbeatTouch(p)
        PROVE  UNCHANGED <<Running, stolenLive>>
    BY <1>0, <1>8 DEF HeartbeatCheck, HeartbeatTouch
  <1>9. ASSUME NEW p \in Proc, ReleaseCheck(p)
        PROVE  [Abstract!Next]_<<Running, stolenLive>>
    <2>1. CASE Goto(p, "remove")
      BY <1>0, <1>9, <2>1 DEF ReleaseCheck
    <2>2. CASE Goto(p, "idle")
      BY <1>2, <1>9, <2>2 DEF ReleaseCheck, Abstract!Next
    <2>3. QED
      BY <1>9, <2>1, <2>2 DEF ReleaseCheck
  <1>10. ASSUME NEW p \in Proc, ReleaseRemove(p) \/ Crash(p)
         PROVE  [Abstract!Next]_<<Running, stolenLive>>
    BY <1>2, <1>10 DEF ReleaseRemove, Crash, Abstract!Next
  <1>11. CASE Expire \/ UNCHANGED vars
    BY <1>11 DEF Expire, vars
  <1>12. QED
    BY <1>3, <1>4, <1>5, <1>6, <1>7, <1>8, <1>9, <1>10, <1>11 DEF Next

(* The lockfile protocol implements the abstract exclusive run. *)
THEOREM Refinement == Spec => AbstractSpec
  <1>1. Init => Abstract!Init
    BY DEF Init, Abstract!Init, Running
  <1>2. LockInv /\ LockInv' /\ [Next]_vars => [Abstract!Next]_<<Running, stolenLive>>
    BY StepSimulation
  <1>3. QED
    BY <1>1, <1>2, LockInvariant, PTL DEF Spec, AbstractSpec, Abstract!Spec, Abstract!vars
================================================================================
