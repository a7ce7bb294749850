---------------------------- MODULE CaptureProofs ----------------------------
(***************************************************************************)
(* For any number of ingestions, entries and decisions: nothing is lost       *)
(* behind the position of a transcript, and the user's decision about its      *)
(* session holds.                                                            *)
(***************************************************************************)
EXTENDS Capture, SequenceTheorems, WellFoundedInduction, TLAPS

(* Entries are written in the order of their ids; a position is one of the past. *)
FileInv ==
  /\ kind \in Kind /\ torn \in BOOLEAN /\ file \in Seq(Entry)
  /\ written \in 0 .. MaxEntry /\ mark \in Nat
  /\ torn => file # <<>>
  /\ \A i \in 1 .. Len(file) : file[i].id <= written
  /\ \A i, j \in 1 .. Len(file) : i < j => file[i].id < file[j].id

(* Entry i is behind the position m. *)
Past(m, i) ==
  IF kind \in ById
    THEN \E k \in 1 .. Len(file) : i <= k /\ file[k].id = m
    ELSE 2 * i <= m

(* Entries still to be written will not be behind m, but for Copilot's. *)
Reached(m) ==
  /\ kind = "append" => m <= Size
  /\ kind \in ById => m <= written

Settled(e) == Stored(e) \/ e.id \in excused \cup dropped

Safe == \A i \in 1 .. Len(file) : Past(mark, i) => Settled(file[i])

(* What an ingestion has read is of the past, and its entries are known by their ids. *)
Reads(r) ==
  /\ Reached(r.upto) /\ r.last <= written
  /\ \A e \in r.todo : /\ e.id <= written
                       /\ \A i \in 1 .. Len(file) : file[i].id = e.id => file[i] = e

(* What its position will be behind, when it is written, is settled or yet to be *)
(* stored, or an ingestion of Copilot's will find that it came later.           *)
Covers(r, i) ==
  Past(r.upto, i) \/ (kind \in ById /\ \E k \in 1 .. Len(file) : i <= k /\ file[k] \in r.todo)
Accounts(r) ==
  \A i \in 1 .. Len(file) : Covers(r, i) =>
    \/ Settled(file[i]) \/ file[i] \in r.todo \/ file[i].id \in r.halves
    \/ kind = "copilot" /\ file[i].id > r.last

RunInv(r) == Reads(r) /\ Accounts(r)

CaptureInv ==
  /\ FileInv /\ Reached(mark) /\ Safe
  /\ ing \in [Ingester -> Run]
  /\ \A p \in Ingester : RunInv(ing[p]) /\ (ing[p].pc = "idle" => ing[p] = Idle)

(* What an ingestion knows of the session while it has entries left. *)
Knows(r) ==
  /\ r.pc \in {"session", "write", "anchor"} => r.todo # {}
  /\ r.pc \in {"write", "anchor"} \/ (r.pc = "entry" /\ r.read \in {"none", "set"})
       => r.sid # NoSession

Binder == {"idle", "marked", "found", "deleted"}
SessionTypes ==
  /\ binding \in {"none", "set", "skip", "old"} /\ binder \in Binder
  /\ lastSession \in 0 .. MaxSession /\ session \in 0 .. lastSession /\ raced \in BOOLEAN /\ unfiled \in BOOLEAN

(* No ingestion works for a session that is gone; a decision is taken back by none *)
(* that did not act on an outdated binding, but may be half carried out when the    *)
(* process is killed.                                                          *)
SessionInv ==
  /\ SessionTypes
  /\ session = NoSession => rows = {}
  /\ \A p \in Ingester : Knows(ing[p])
  /\ raced \/ (binding = "skip" \/ binder = "deleted" => session = NoSession)
  /\ binder \in {"marked", "found"} => binding # "skip"
  /\ \/ raced \/ binder # "idle"
     \/ (binding = "set" /\ session # NoSession => project = "bound" \/ unfiled)

---------------------------------------------------------------------------
(* Positions by entry ids are found by looking for the entry. *)
LEMMA BehindIsPast ==
  ASSUME FileInv
  PROVE  Captured <=> Safe
<1>1. CASE kind \in ById
  <2>1. StartIndex \in 0 .. Len(file)
        /\ \A i \in 1 .. Len(file) : Past(mark, i) <=> i <= StartIndex
    <3>1. CASE \E i \in DOMAIN file : file[i].id = mark
      <4>1. StartIndex \in DOMAIN file /\ file[StartIndex].id = mark
        BY <3>1 DEF StartIndex
      <4>2. \A k \in 1 .. Len(file) : file[k].id = mark => k = StartIndex
        BY <4>1 DEF FileInv, Entry, EntryId, What
      <4> QED BY <1>1, <4>1, <4>2 DEF Past, FileInv
    <3>2. CASE ~\E i \in DOMAIN file : file[i].id = mark
      BY <1>1, <3>2 DEF StartIndex, Past, FileInv
    <3> QED BY <3>1, <3>2
  <2> QED BY <1>1, <2>1 DEF Captured, Behind, Safe, Settled, FileInv
<1>2. CASE kind \notin ById
  BY <1>2 DEF Captured, Behind, Safe, Settled, Past, FileInv
<1> QED BY <1>1, <1>2

(* Who does nothing has nothing to account for. *)
LEMMA IdleRun ==
  ASSUME FileInv
  PROVE  RunInv(Idle) /\ Idle \in Run /\ \A i \in 1 .. Len(file) : ~Covers(Idle, i)
<1>1. Idle \in Run
  BY DEF Idle, Run
<1>2. \A i \in 1 .. Len(file) : file[i].id > 0
  <2>1. \A e \in Entry : e.id > 0
    BY CaptureAssumption DEF Entry, EntryId, What
  <2> QED BY <2>1 DEF FileInv
<1>3. Size >= 0
  BY DEF Size, FileInv
<1>4. Reads(Idle)
  BY <1>3, CaptureAssumption DEF Reads, Reached, Idle, FileInv
<1>5. \A i \in 1 .. Len(file) : ~Covers(Idle, i)
  BY <1>2 DEF Covers, Past, Idle, FileInv
<1> QED BY <1>1, <1>4, <1>5 DEF RunInv, Accounts

(* Stored entries stay stored or become excused: everything that is accounted for *)
(* stays so.                                                                  *)
LEMMA Held ==
  ASSUME FileInv, Safe, UNCHANGED <<fileVars, mark>>,
         \A i \in 1 .. Len(file) : Settled(file[i]) => Settled(file[i])'
  PROVE  /\ FileInv' /\ (Reached(mark) => Reached(mark)') /\ Safe'
         /\ \A r \in Run : RunInv(r) => RunInv(r)'
<1>1. FileInv'
  BY DEF FileInv, fileVars
<1>2. Reached(mark) => Reached(mark)'
  BY DEF Reached, Size, fileVars
<1>3. Safe'
  BY DEF Safe, Past, fileVars
<1>4. ASSUME NEW r \in Run, RunInv(r) PROVE RunInv(r)'
  <2>1. Reads(r)'
    BY <1>4 DEF RunInv, Reads, Reached, Size, fileVars
  <2>2. Accounts(r)'
    BY <1>4 DEF RunInv, Accounts, Covers, Past, fileVars
  <2> QED BY <2>1, <2>2 DEF RunInv
<1> QED BY <1>1, <1>2, <1>3, <1>4

(* The harness appends: the new entry is behind no position, or it is Copilot's   *)
(* and came after every ingestion that goes on.                                *)
LEMMA WriteNextKeeps ==
  ASSUME CaptureInv, WriteNext
  PROVE  CaptureInv'
<1>1. PICK e \in Entry : file' = Append(file, e) /\ e.id = written + 1
  <2>1. PICK w \in What, t \in Text :
          file' = file \o <<[id |-> written + 1, what |-> w, text |-> IF w = "noise" THEN w ELSE t]>>
    BY CaptureAssumption DEF WriteNext, CaptureInv, FileInv
  <2> DEFINE e == [id |-> written + 1, what |-> w, text |-> IF w = "noise" THEN w ELSE t]
  <2>2. e \in Entry
    BY CaptureAssumption DEF WriteNext, CaptureInv, FileInv, Entry, EntryId, What
  <2>3. file' = Append(file, e)
    <3> HIDE DEF e
    <3>1. file \in Seq(Entry) /\ file' = file \o <<e>>
      BY <2>1 DEF CaptureInv, FileInv, e
    <3> QED BY <3>1, <2>2, AppendIsConcat
  <2> QED BY <2>2, <2>3
<1>2. /\ Len(file') = Len(file) + 1 /\ file'[Len(file')] = e /\ file' \in Seq(Entry)
      /\ \A i \in 1 .. Len(file) : file'[i] = file[i]
  BY <1>1 DEF CaptureInv, FileInv
<1>3. FileInv'
  <2>1. written' = written + 1 /\ written' \in 0 .. MaxEntry /\ UNCHANGED <<kind, mark>>
    BY CaptureAssumption DEF WriteNext, CaptureInv, FileInv
  <2>2. torn' \in BOOLEAN /\ file' # <<>>
    BY <1>2 DEF WriteNext, CaptureInv, FileInv
  <2>3. \A f \in Entry : f.id \in Nat
    BY CaptureAssumption DEF Entry, EntryId, What
  <2>4. \A i \in 1 .. Len(file) : file'[i] = file[i] /\ file[i].id \in Nat /\ file[i].id <= written
    BY <1>2, <2>3 DEF CaptureInv, FileInv
  <2>5. \A i \in 1 .. Len(file') : file'[i].id <= written'
    BY <1>1, <1>2, <2>1, <2>4 DEF CaptureInv, FileInv
  <2>6. \A i, j \in 1 .. Len(file') : i < j => file'[i].id < file'[j].id
    <3> SUFFICES ASSUME NEW i \in 1 .. Len(file'), NEW j \in 1 .. Len(file'), i < j
                 PROVE  file'[i].id < file'[j].id
      OBVIOUS
    <3>1. i \in 1 .. Len(file)
      BY <1>2 DEF CaptureInv, FileInv
    <3>2. CASE j \in 1 .. Len(file)
      BY <3>1, <3>2, <2>4 DEF CaptureInv, FileInv
    <3>3. CASE j = Len(file')
      BY <3>1, <3>3, <1>1, <1>2, <2>1, <2>4 DEF CaptureInv, FileInv
    <3> QED BY <3>2, <3>3, <1>2 DEF CaptureInv, FileInv
  <2> QED BY <1>2, <2>1, <2>2, <2>5, <2>6 DEF CaptureInv, FileInv
<1>4. \A m \in Nat : Reached(m) => Reached(m)'
  BY <1>2, CaptureAssumption DEF WriteNext, CaptureInv, FileInv, Reached, Size
<1>5. \A i \in 1 .. Len(file) : Settled(file[i]) => Settled(file[i])'
  BY DEF WriteNext, Settled, Stored, history, storeVars
<1>6. \A m \in Nat : \A i \in 1 .. Len(file) : Reached(m) /\ Past(m, i)' => Past(m, i)
  BY <1>1, <1>2, CaptureAssumption DEF WriteNext, CaptureInv, FileInv, Reached, Past
<1>7. Safe'
  <2> SUFFICES ASSUME NEW i \in 1 .. Len(file'), Past(mark, i)' PROVE Settled(file[i])'
    BY DEF Safe
  <2>1. CASE i \in 1 .. Len(file)
    BY <2>1, <1>2, <1>5, <1>6 DEF CaptureInv, FileInv, Safe, WriteNext
  <2>2. CASE i = Len(file')
    <3>1. kind = "copilot" /\ Size < mark
      BY <2>2, <1>1, <1>2, CaptureAssumption
         DEF WriteNext, CaptureInv, FileInv, Reached, Past, Size, Kind, ById
    <3> QED BY <3>1, <2>2, <1>1, <1>2 DEF WriteNext, Settled
  <2> QED BY <2>1, <2>2, <1>2 DEF CaptureInv, FileInv
<1>8. ASSUME NEW r \in Run, RunInv(r) PROVE RunInv(r)'
  <2>1. Reads(r)'
    <3>1. Reached(r.upto)' /\ written' = written + 1 /\ written \in Nat
      BY <1>4, <1>8, CaptureAssumption DEF WriteNext, RunInv, Reads, Run, CaptureInv, FileInv
    <3>2. \A e1 \in r.todo : e1 \in Entry /\ e1.id \in Nat
      BY CaptureAssumption DEF Run, Entry, EntryId, What
    <3>3. r.last <= written' /\ \A e1 \in r.todo : e1.id <= written'
      BY <1>8, <3>1, <3>2 DEF RunInv, Reads, Run
    <3>4. \A e1 \in r.todo, i \in 1 .. Len(file') : file'[i].id = e1.id => file'[i] = e1
      BY <1>1, <1>2, <1>8, <3>1, <3>2 DEF RunInv, Reads, CaptureInv, FileInv
    <3> QED BY <3>1, <3>3, <3>4 DEF Reads
  <2>2. Accounts(r)'
    <3> SUFFICES ASSUME NEW i \in 1 .. Len(file'), Covers(r, i)'
                 PROVE  \/ Settled(file[i])' \/ file'[i] \in r.todo \/ file'[i].id \in r.halves
                        \/ kind' = "copilot" /\ file'[i].id > r.last
      BY DEF Accounts
    <3>1. CASE i \in 1 .. Len(file)
      <4>1. Covers(r, i)
        BY <3>1, <1>1, <1>2, <1>6, <1>8, CaptureAssumption
           DEF Covers, RunInv, Reads, WriteNext, Run, CaptureInv, FileInv
      <4> QED BY <4>1, <3>1, <1>2, <1>5, <1>8 DEF RunInv, Accounts, WriteNext
    <3>2. CASE i = Len(file')
      <4>2. /\ kind' = kind /\ kind \in Kind /\ r.upto \in Nat /\ written \in Nat
            /\ Reached(r.upto) /\ \A f \in r.todo : f.id <= written
        <5>1. kind' = kind /\ kind \in Kind /\ written \in Nat
          BY CaptureAssumption DEF WriteNext, CaptureInv, FileInv
        <5>2. r.upto \in Nat /\ Reached(r.upto) /\ \A f \in r.todo : f.id <= written
          BY <1>8 DEF RunInv, Reads, Run
        <5> QED BY <5>1, <5>2
      <4>3. ASSUME kind = "append" PROVE FALSE
        <5>1. Size <= 2 * Len(file) /\ r.upto <= Size /\ Size \in Int
          BY <4>2, <4>3 DEF Reached, Size, CaptureInv, FileInv
        <5>2. 2 * i <= r.upto
          BY <4>2, <4>3 DEF Covers, Past, ById
        <5> QED BY <5>1, <5>2, <4>2, <3>2, <1>2 DEF CaptureInv, FileInv
      <4>4. ASSUME kind \in ById PROVE FALSE
        <5>1. r.upto <= written
          BY <4>2, <4>4 DEF Reached
        <5>2. \A k \in 1 .. Len(file') : i <= k => file'[k].id = written + 1
          BY <3>2, <1>1, <1>2 DEF CaptureInv, FileInv
        <5>3. \E k \in 1 .. Len(file') : i <= k /\ (file'[k].id = r.upto \/ file'[k] \in r.todo)
          BY <4>2, <4>4 DEF Covers, Past
        <5> QED BY <5>1, <5>2, <5>3, <4>2
      <4>1. kind = "copilot"
        BY <4>2, <4>3, <4>4 DEF Kind, ById
      <4> QED BY <4>1, <3>2, <1>1, <1>2, <1>8, CaptureAssumption
              DEF WriteNext, CaptureInv, FileInv, RunInv, Reads, Run
    <3> QED BY <3>1, <3>2, <1>2 DEF CaptureInv, FileInv
  <2> QED BY <2>1, <2>2 DEF RunInv
<1> QED BY <1>3, <1>4, <1>7, <1>8 DEF CaptureInv, WriteNext, FileInv, storeVars

LEMMA CompleteEntryKeeps ==
  ASSUME CaptureInv, CompleteEntry
  PROVE  CaptureInv'
<1>1. \A m \in Nat : Reached(m) => Reached(m)'
  BY DEF CompleteEntry, CaptureInv, FileInv, Reached, Size
<1>2. FileInv' /\ Safe'
  BY DEF CompleteEntry, CaptureInv, FileInv, Safe, Past, Settled, Stored, storeVars, history
<1>3. ASSUME NEW r \in Run, RunInv(r) PROVE RunInv(r)'
  BY <1>1, <1>3 DEF CompleteEntry, RunInv, Reads, Accounts, Covers, Past, Settled, Stored, storeVars, history, Run
<1> QED BY <1>1, <1>2, <1>3 DEF CaptureInv, CompleteEntry, FileInv

(* A prefix of the file has nothing in it that the file had not, at the same place. *)
LEMMA TruncateKeeps ==
  ASSUME CaptureInv, Truncate
  PROVE  CaptureInv'
<1>1. PICK n \in 0 .. Len(file) - 1 : file' = SubSeq(file, 1, n)
  BY DEF Truncate
<1>2. /\ Len(file') = n /\ file' \in Seq(Entry) /\ n <= Len(file)
      /\ \A i \in 1 .. n : file'[i] = file[i]
  BY <1>1 DEF CaptureInv, FileInv
<1>3. FileInv'
  BY <1>2 DEF Truncate, CaptureInv, FileInv
<1>4. \A m \in Nat : Reached(m) => Reached(m)'
  BY DEF Truncate, Reached
<1>5. \A m \in Nat : \A i \in 1 .. n : Past(m, i)' => Past(m, i)
  BY <1>2 DEF Truncate, CaptureInv, FileInv, Past
<1>6. \A e : Settled(e) => Settled(e)'
  BY DEF Truncate, Settled, Stored, storeVars, history
<1>7. Safe'
  BY <1>2, <1>5, <1>6 DEF Truncate, CaptureInv, FileInv, Safe
<1>8. ASSUME NEW r \in Run, RunInv(r) PROVE RunInv(r)'
  <2>1. Reads(r)'
    <3>1. Reached(r.upto)' /\ written' = written
      BY <1>4, <1>8 DEF Truncate, RunInv, Reads, Run
    <3>2. \A e \in r.todo, i \in 1 .. Len(file') : file'[i].id = e.id => file'[i] = e
      <4>1. \A e \in r.todo, i \in 1 .. Len(file) : file[i].id = e.id => file[i] = e
        BY <1>8 DEF RunInv, Reads
      <4>2. \A i \in 1 .. Len(file') : file'[i] = file[i] /\ i \in 1 .. Len(file)
        BY <1>2 DEF CaptureInv, FileInv
      <4> QED BY <4>1, <4>2
    <3> QED BY <3>1, <3>2, <1>8 DEF RunInv, Reads
  <2>2. \A i \in 1 .. n : Covers(r, i)' => Covers(r, i)
    BY <1>2, <1>5 DEF Truncate, Covers, Run, CaptureInv, FileInv
  <2>3. Accounts(r)'
    BY <1>2, <1>6, <1>8, <2>2 DEF Truncate, RunInv, Accounts, CaptureInv, FileInv
  <2> QED BY <2>1, <2>3 DEF RunInv
<1> QED BY <1>3, <1>4, <1>7, <1>8 DEF CaptureInv, Truncate, FileInv

---------------------------------------------------------------------------
(* A step of one ingestion, or of none. *)
LEMMA OneRun ==
  ASSUME CaptureInv, FileInv', Reached(mark)', Safe',
         \A r \in Run : RunInv(r) => RunInv(r)',
         NEW p \in Ingester, NEW r \in Run, ing' = [ing EXCEPT ![p] = r],
         RunInv(r)', r.pc = "idle" => r = Idle
  PROVE  CaptureInv'
BY DEF CaptureInv
LEMMA NoRun ==
  ASSUME CaptureInv, FileInv', Reached(mark)', Safe',
         \A r \in Run : RunInv(r) => RunInv(r)', ing' = ing
  PROVE  CaptureInv'
BY DEF CaptureInv

(* A run that has stored, or given up, some of its entries still accounts for all. *)
LEMMA Proceeds ==
  ASSUME FileInv', NEW r \in Run, NEW s \in Run, RunInv(r)',
         \/ s.upto = r.upto
         \/ kind' = "opencode" /\ \E e \in r.todo : s.upto = e.id,
         s.last = r.last, s.halves = r.halves, s.todo \subseteq r.todo,
         \A i \in 1 .. Len(file') : file'[i] \in r.todo \ s.todo => Settled(file[i])'
  PROVE  RunInv(s)'
<1>1. Reads(s)'
  BY DEF RunInv, Reads, Reached, ById
<1>2. \A i \in 1 .. Len(file') : Covers(s, i)' => Covers(r, i)'
  BY DEF RunInv, Reads, Covers, Past, ById, FileInv
<1>3. Accounts(s)'
  BY <1>2 DEF RunInv, Accounts
<1> QED BY <1>1, <1>3 DEF RunInv

LEMMA StopsKeeps ==
  ASSUME CaptureInv, NEW p \in Ingester, Aborts(p)
  PROVE  CaptureInv'
<1>1. /\ FileInv' /\ Reached(mark)' /\ Safe'
      /\ \A r \in Run : RunInv(r) => RunInv(r)'
  BY Held DEF Aborts, CaptureInv, Settled, Stored, storeVars, history, fileVars
<1>2. RunInv(Idle)' /\ Idle \in Run
  BY <1>1, IdleRun DEF CaptureInv
<1> QED BY <1>1, <1>2, OneRun DEF Aborts, Stops

(* A run that has nothing left writes its position: what it covers is settled by *)
(* now, or has been read by halves, or is found to have come later.            *)
LEMMA FinishKeeps ==
  ASSUME CaptureInv, NEW p \in Ingester, Finish(p)
  PROVE  CaptureInv'
<1> DEFINE r == ing[p]
<1>1. r \in Run /\ RunInv(r) /\ r.todo = {} /\ FileInv
  BY DEF CaptureInv, Finish
<1>2. \A e \in Entry : Settled(e) => Settled(e)'
  BY DEF Finish, Settled, Stored, storeVars
<1>3. FileInv' /\ Reached(mark)'
  BY <1>1 DEF Finish, FileInv, RunInv, Reads, Reached, Size, fileVars, Run
<1>4. Safe'
  <2> SUFFICES ASSUME NEW i \in 1 .. Len(file), Past(mark, i)' PROVE Settled(file[i])'
    BY DEF Safe, Finish, fileVars
  <2>1. Covers(r, i) /\ file[i] \in Entry
    BY <1>1 DEF Past, Covers, Finish, fileVars, FileInv
  <2>2. CASE file[i].id \in r.halves
    BY <2>2 DEF Finish, Settled, fileVars
  <2>3. CASE kind = "copilot" /\ file[i].id > r.last
    <3>1. 2 * i <= r.upto
      BY <2>1, <2>3, <1>1 DEF Covers, Past, ById
    <3>2. file[i].id \in Replaced(r)
      BY <2>3, <3>1, <1>1 DEF Replaced, FileInv
    <3> QED BY <3>2 DEF Finish, Settled, fileVars
  <2> QED BY <2>1, <2>2, <2>3, <1>1, <1>2 DEF RunInv, Accounts, Finish, fileVars
<1>5. ASSUME NEW q \in Run, RunInv(q) PROVE RunInv(q)'
  <2>1. Reads(q)'
    BY <1>5 DEF RunInv, Reads, Reached, Size, Finish, fileVars
  <2>2. Accounts(q)'
    BY <1>1, <1>2, <1>5 DEF RunInv, Accounts, Covers, Past, Finish, fileVars, FileInv
  <2> QED BY <2>1, <2>2 DEF RunInv
<1>6. RunInv(Idle)' /\ Idle \in Run
  BY <1>1, <1>5, IdleRun
<1> QED BY <1>3, <1>4, <1>5, <1>6, OneRun DEF Finish, Stops

(* A deleted session takes its rows with it, and all that was written is excused. *)
LEMMA DropSettles ==
  ASSUME FileInv, UNCHANGED fileVars, excused' = 1 .. written
  PROVE  \A i \in 1 .. Len(file) : Settled(file[i])'
<1>1. \A e \in Entry : e.id \in Nat /\ e.id > 0
  BY CaptureAssumption DEF Entry, EntryId, What
<1>2. \A i \in 1 .. Len(file) : file[i] \in Entry /\ file[i].id <= written
  BY DEF FileInv
<1>3. written \in Nat
  BY CaptureAssumption DEF FileInv
<1> QED BY <1>1, <1>2, <1>3 DEF Settled, fileVars

Setting == SetMarks \/ SetFinds \/ SetFiles
Decision ==
  Setting \/ SkipDeletes \/ SkipMarks \/ BinderDies \/ Include \/ Expires \/ DeleteSession

LEMMA UserKeeps ==
  ASSUME CaptureInv,
         Decision
  PROVE  CaptureInv'
<1>1. UNCHANGED <<fileVars, mark, ing>>
  BY DEF Decision, Setting, SetMarks, SetFinds, SetFiles, SkipDeletes, SkipMarks, BinderDies, Include,
     Expires, DeleteSession
<1>2. \A i \in 1 .. Len(file) : Settled(file[i]) => Settled(file[i])'
  <2>1. CASE SkipDeletes \/ DeleteSession
    BY <2>1, DropSettles, <1>1 DEF SkipDeletes, DeleteSession, CaptureInv
  <2>2. CASE Setting \/ SkipMarks \/ BinderDies \/ Include \/ Expires
    <3>1. UNCHANGED <<rows, anchored, excused, dropped>>
      BY <2>2 DEF Setting, SetMarks, SetFinds, SetFiles, Makes, SkipMarks, BinderDies, Include, Expires,
         storeVars, history
    <3> QED BY <1>1, <3>1 DEF Settled, Stored, fileVars
  <2> QED BY <2>1, <2>2 DEF Decision
<1> QED BY <1>1, <1>2, Held, NoRun DEF CaptureInv

(* Looking up the binding and the session leaves the entries as they are. *)
LEMMA ResolveKeeps ==
  ASSUME CaptureInv, SessionTypes, NEW p \in Ingester, ReadBinding(p) \/ ResolveSession(p)
  PROVE  CaptureInv'
<1>1. UNCHANGED <<fileVars, mark>>
  BY DEF ReadBinding, ResolveSession
<1>2. \A i \in 1 .. Len(file) : Settled(file[i]) => Settled(file[i])'
  <2>1. CASE session # NoSession /\ excused' = 1 .. written
    BY <2>1, <1>1, DropSettles DEF CaptureInv
  <2>2. CASE UNCHANGED <<rows, anchored, excused, dropped>>
    BY <2>2, <1>1 DEF Settled, Stored, fileVars
  <2> QED BY <2>1, <2>2 DEF ReadBinding, ResolveSession, storeVars, history, Makes, DropsSession
<1>4. PICK r \in Run : r = ing[p]
  BY DEF CaptureInv
<1>3. PICK s \in Run : /\ ing' = [ing EXCEPT ![p] = s]
                       /\ s.todo = ing[p].todo /\ s.upto = ing[p].upto
                       /\ s.last = ing[p].last /\ s.halves = ing[p].halves /\ s.pc # "idle"
  <2>1. CASE ReadBinding(p) /\ ing[p].read = "?" /\ ing' = [ing EXCEPT ![p].pc = "session", ![p].read = binding']
    <3> DEFINE s == [r EXCEPT !.pc = "session", !.read = binding']
    <3>1. binding' \in {"none", "set", "skip"}
      BY <2>1 DEF ReadBinding, SessionTypes
    <3>2. s \in Run /\ s.pc = "session" /\ s.todo = r.todo /\ s.upto = r.upto /\ s.last = r.last /\ s.halves = r.halves
      BY <3>1 DEF Run
    <3>3. ing' = [ing EXCEPT ![p] = s]
      BY <2>1, <1>4 DEF CaptureInv
    <3> QED BY <3>2, <3>3, <1>4
  <2>2. ASSUME NEW pc \in {"entry", "write"}, ing' = [ing EXCEPT ![p].pc = pc]
        PROVE  \E s \in Run : /\ ing' = [ing EXCEPT ![p] = s]
                       /\ s.todo = ing[p].todo /\ s.upto = ing[p].upto
                       /\ s.last = ing[p].last /\ s.halves = ing[p].halves /\ s.pc # "idle"
    <3> DEFINE s == [r EXCEPT !.pc = pc]
    <3>2. s \in Run /\ s.pc = pc /\ s.todo = r.todo /\ s.upto = r.upto /\ s.last = r.last /\ s.halves = r.halves
      BY DEF Run
    <3>3. ing' = [ing EXCEPT ![p] = s]
      BY <2>2, <1>4 DEF CaptureInv
    <3> QED BY <3>2, <3>3, <1>4
  <2>3. CASE ing' = [ing EXCEPT ![p].pc = "write", ![p].sid = session'] /\ session' \in {NoSession} \cup 1 .. MaxSession
    <3> DEFINE s == [r EXCEPT !.pc = "write", !.sid = session']
    <3>2. s \in Run /\ s.pc = "write" /\ s.todo = r.todo /\ s.upto = r.upto /\ s.last = r.last /\ s.halves = r.halves
      BY <2>3 DEF Run
    <3>3. ing' = [ing EXCEPT ![p] = s]
      BY <2>3, <1>4 DEF CaptureInv
    <3> QED BY <3>2, <3>3, <1>4
  <2>4. CASE ReadBinding(p)
    BY <2>4, <2>1, <2>2 DEF ReadBinding
  <2>5. CASE ResolveSession(p)
    <3>1. session' \in {NoSession} \cup 1 .. MaxSession \/ ing' = [ing EXCEPT ![p].pc = "entry"]
      BY <2>5, CaptureAssumption DEF ResolveSession, SessionTypes, Makes, storeVars, NoSession
    <3>2. \/ ing' = [ing EXCEPT ![p].pc = "entry"]
          \/ ing' = [ing EXCEPT ![p].pc = "write", ![p].sid = session']
      BY <2>5 DEF ResolveSession
    <3>3. CASE ing' = [ing EXCEPT ![p].pc = "entry"]
      BY <3>3, <2>2
    <3>4. CASE ing' # [ing EXCEPT ![p].pc = "entry"]
      BY <3>4, <3>1, <3>2, <2>3
    <3> QED BY <3>3, <3>4
  <2> QED BY <2>4, <2>5
<1>5. RunInv(s)'
  BY <1>1, <1>2, <1>3, <1>4, Held, Proceeds DEF CaptureInv, fileVars
<1> QED BY <1>1, <1>2, <1>3, <1>5, Held, OneRun DEF CaptureInv

---------------------------------------------------------------------------
LEMMA LeastExists ==
  ASSUME NEW S \in SUBSET Nat, S # {}
  PROVE  \E x \in S : \A y \in S : x <= y
<1> DEFINE R == OpToRel(<, Nat)
<1>1. IsWellFoundedOn(R, Nat)
  BY NatLessThanWellFounded
<1>2. ASSUME NEW x \in Nat, NEW y \in Nat, y < x PROVE <<y, x>> \in R
  BY <1>2 DEF OpToRel
<1> HIDE DEF R
<1>3. PICK x \in S : \A y \in S : ~ (<<y, x>> \in R)
  BY <1>1, WFMin
<1>4. ASSUME NEW y \in S PROVE x <= y
  <2>1. x \in Nat /\ y \in Nat /\ ~ (y < x)
    BY <1>2, <1>3
  <2> QED BY <2>1
<1> QED BY <1>4

(* The entry that is taken is one of those that are left. *)
LEMMA FirstIsLeft ==
  ASSUME NEW r \in Run, r.todo # {}
  PROVE  First(r) \in r.todo
<1> DEFINE S == {e.id : e \in r.todo}
<1>1. S \in SUBSET Nat /\ S # {}
  BY CaptureAssumption DEF Run, Entry, EntryId, What
<1>2. PICK x \in S : \A y \in S : x <= y
  <2> HIDE DEF S
  <2> QED BY <1>1, LeastExists
<1>3. \E e \in r.todo : \A f \in r.todo : e.id <= f.id
  BY <1>2
<1> QED BY <1>3 DEF First

(* What is left when the entry is done. *)
LEMMA RestIsRun ==
  ASSUME NEW r \in Run, r.todo # {}
  PROVE  /\ Rest(r) \in Run /\ Rest(r).pc = "entry" /\ Rest(r).todo = r.todo \ {First(r)}
         /\ Rest(r).upto = r.upto /\ Rest(r).last = r.last /\ Rest(r).halves = r.halves
         /\ Rest(r).read \in {"?", r.read} /\ Rest(r).sid \in {NoSession, r.sid}
         /\ Rest(r).sid = r.sid \/ Rest(r).read = "?"
BY DEF Rest, Run

LEMMA NewPosition ==
  ASSUME NEW t \in Run, NEW n \in Nat
  PROVE  LET u == [t EXCEPT !.upto = n]
         IN  /\ u \in Run /\ u.todo = t.todo /\ u.last = t.last /\ u.halves = t.halves
             /\ u.pc = t.pc /\ u.upto = n
BY DEF Run

(* An ingestion that has done with an entry, stored or skipped, goes on. *)
LEMMA EntryDone ==
  ASSUME CaptureInv, NEW p \in Ingester, NEW r \in Run, r = ing[p], r.todo # {},
         NEW e, e = First(r), Settled(e)', UNCHANGED <<fileVars, mark>>,
         \A i \in 1 .. Len(file) : Settled(file[i]) => Settled(file[i])',
         \/ ing' = [ing EXCEPT ![p] = Rest(r)]
         \/ kind = "opencode" /\ ing' = [ing EXCEPT ![p] = [Rest(r) EXCEPT !.upto = e.id]]
  PROVE  CaptureInv'
<1>1. FileInv /\ Safe /\ RunInv(r)
  BY DEF CaptureInv
<1>2. e \in r.todo /\ e.id \in Nat
  <2>1. e \in r.todo
    BY FirstIsLeft
  <2> QED BY <2>1, CaptureAssumption DEF Run, Entry, EntryId, What
<1>3. /\ FileInv' /\ Reached(mark)' /\ Safe'
      /\ \A q \in Run : RunInv(q) => RunInv(q)'
  BY Held DEF CaptureInv
<1>4. PICK s \in Run : /\ s.todo = r.todo \ {e} /\ s.last = r.last /\ s.halves = r.halves
                       /\ s.pc = "entry" /\ ing' = [ing EXCEPT ![p] = s]
                       /\ (s.upto = r.upto \/ (kind = "opencode" /\ s.upto = e.id))
  <2>1. /\ Rest(r) \in Run /\ Rest(r).todo = r.todo \ {e} /\ Rest(r).last = r.last
        /\ Rest(r).halves = r.halves /\ Rest(r).pc = "entry" /\ Rest(r).upto = r.upto
    BY RestIsRun
  <2>2. CASE ing' = [ing EXCEPT ![p] = Rest(r)]
    BY <2>1, <2>2
  <2>3. CASE kind = "opencode" /\ ing' = [ing EXCEPT ![p] = [Rest(r) EXCEPT !.upto = e.id]]
    <3>1. PICK t : t = Rest(r)
      OBVIOUS
    <3>2. /\ t \in Run /\ t.todo = r.todo \ {e} /\ t.last = r.last
          /\ t.halves = r.halves /\ t.pc = "entry"
      BY <2>1, <3>1
    <3> DEFINE u == [t EXCEPT !.upto = e.id]
    <3>3. /\ u \in Run /\ u.todo = t.todo /\ u.last = t.last /\ u.halves = t.halves /\ u.pc = t.pc
          /\ u.upto = e.id
      BY <1>2, <3>2, NewPosition
    <3>4. ing' = [ing EXCEPT ![p] = u]
      BY <2>3, <3>1
    <3> HIDE DEF u
    <3>5. /\ u.todo = r.todo \ {e} /\ u.last = r.last /\ u.halves = r.halves /\ u.pc = "entry"
          /\ (u.upto = r.upto \/ (kind = "opencode" /\ u.upto = e.id))
      BY <2>3, <3>2, <3>3
    <3> QED BY <3>3, <3>4, <3>5, Zenon
  <2> QED BY <2>2, <2>3
<1>5. RunInv(r)'
  BY <1>1, <1>3
<1>6. kind' = kind
  BY DEF fileVars
<1>7. \A i \in 1 .. Len(file') : file'[i] \in r.todo \ s.todo => Settled(file[i])'
  BY <1>4 DEF fileVars
<1>8. RunInv(s)'
  BY <1>2, <1>3, <1>4, <1>5, <1>6, <1>7, Proceeds
<1> QED BY <1>3, <1>4, <1>8, OneRun

LEMMA EntryKeeps ==
  ASSUME CaptureInv, SessionInv, NEW p \in Ingester,
         SkipEntry(p) \/ WriteEntry(p) \/ SeedAnchors(p)
  PROVE  CaptureInv'
<1>1. PICK r \in Run : r = ing[p]
  BY DEF CaptureInv
<1>2. r.todo # {}
  BY <1>1 DEF SkipEntry, WriteEntry, SeedAnchors, SessionInv, Knows
<1>3. PICK e : e = First(r)
  OBVIOUS
<1>4. UNCHANGED <<fileVars, mark>>
  BY DEF SkipEntry, WriteEntry, SeedAnchors
<1>5. \A i \in 1 .. Len(file) : Settled(file[i]) => Settled(file[i])'
  BY DEF SkipEntry, WriteEntry, SeedAnchors, Settled, Stored, fileVars, storeVars, history
<1>6. CASE SkipEntry(p)
  <2>1. Settled(e)'
    BY <1>1, <1>3, <1>6 DEF SkipEntry, Settled
  <2> QED BY <2>1, <1>1, <1>2, <1>3, <1>4, <1>5, <1>6, EntryDone DEF SkipEntry
<1>7. CASE SeedAnchors(p)
  <2>1. Settled(e)'
    BY <1>1, <1>3, <1>7 DEF SeedAnchors, Settled, Stored
  <2> QED BY <2>1, <1>1, <1>2, <1>3, <1>4, <1>5, <1>7, EntryDone DEF SeedAnchors, NextEntry
<1>8. CASE WriteEntry(p) /\ e.what # "edit"
  <2>1. Settled(e)'
    BY <1>1, <1>3, <1>8 DEF WriteEntry, Settled, Stored
  <2> QED BY <2>1, <1>1, <1>2, <1>3, <1>4, <1>5, <1>8, EntryDone DEF WriteEntry, NextEntry
<1>9. CASE WriteEntry(p) /\ e.what = "edit"
  <2>1. PICK s \in Run : /\ ing' = [ing EXCEPT ![p] = s] /\ s.todo = r.todo /\ s.upto = r.upto
                         /\ s.last = r.last /\ s.halves = r.halves /\ s.pc = "anchor"
    <3> DEFINE s == [r EXCEPT !.pc = "anchor"]
    <3>1. s \in Run /\ s.todo = r.todo /\ s.upto = r.upto /\ s.last = r.last
          /\ s.halves = r.halves /\ s.pc = "anchor"
      BY DEF Run
    <3>2. ing' = [ing EXCEPT ![p] = s]
      BY <1>1, <1>3, <1>9 DEF WriteEntry, CaptureInv
    <3> QED BY <3>1, <3>2
  <2>2. /\ FileInv' /\ Reached(mark)' /\ Safe'
        /\ \A q \in Run : RunInv(q) => RunInv(q)'
    BY <1>4, <1>5, Held DEF CaptureInv
  <2>3. RunInv(s)'
    BY <1>1, <2>1, <2>2, Proceeds DEF CaptureInv
  <2> QED BY <2>1, <2>2, <2>3, OneRun
<1> QED BY <1>6, <1>7, <1>8, <1>9

---------------------------------------------------------------------------
(* An ingestion begins: each entry of the file is behind the position, is read, is  *)
(* noise, or is only there by half.                                            *)
LEMMA Known ==
  ASSUME CaptureInv, NEW T \in SUBSET {file[i] : i \in 1 .. Len(file)}
  PROVE  \A e \in T : /\ e \in Entry /\ e.id <= written
                      /\ \A i \in 1 .. Len(file) : file[i].id = e.id => file[i] = e
<1>1. ASSUME NEW e \in T, NEW i \in 1 .. Len(file), file[i].id = e.id PROVE file[i] = e
  <2>1. PICK j \in 1 .. Len(file) : e = file[j]
    OBVIOUS
  <2>2. \A k \in 1 .. Len(file) : file[k].id \in Nat
    <3>1. \A f \in Entry : f.id \in Nat
      BY CaptureAssumption DEF Entry, EntryId, What
    <3> QED BY <3>1 DEF CaptureInv, FileInv
  <2>3. ~ (i < j) /\ ~ (j < i)
    BY <1>1, <2>1, <2>2 DEF CaptureInv, FileInv
  <2> QED BY <2>1, <2>3
<1> QED BY <1>1 DEF CaptureInv, FileInv

LEMMA IdsOfFile ==
  ASSUME CaptureInv
  PROVE  \A i \in 1 .. Len(file) : file[i] \in Entry /\ file[i].id \in EntryId /\ file[i].id \in Nat
<1>1. \A f \in Entry : f.id \in EntryId /\ f.id \in Nat
  BY CaptureAssumption DEF Entry, EntryId, What
<1> QED BY <1>1 DEF CaptureInv, FileInv

(* By offsets: what is behind the offset is settled, the rest is read or halved. *)
LEMMA BeginByOffset ==
  ASSUME CaptureInv, NEW p \in Ingester, Begin(p), kind \notin ById
  PROVE  CaptureInv'
<1>1. PICK o \in Nat : o = StartOffset /\ (o = 0 \/ o = mark)
  BY DEF StartOffset, CaptureInv, FileInv
<1>2. PICK r : r = [Idle EXCEPT !.pc = "entry", !.todo = Reading(o), !.halves = Halves(o),
                      !.upto = Size, !.last = IF kind = "copilot" THEN written ELSE 0]
  OBVIOUS
<1>3. /\ UNCHANGED <<kind, file, torn, written, rows, anchored, excused>>
      /\ ing' = [ing EXCEPT ![p] = r]
      /\ mark' = IF o = 0 THEN 0 ELSE mark
      /\ dropped' = IF o = 0 /\ \A q \in Ingester : ing[q].pc = "idle" THEN {} ELSE dropped
  BY <1>1, <1>2 DEF Begin, fileVars, storeVars
<1>4. /\ FileInv /\ Size \in Nat /\ written \in Nat /\ mark \in Nat
      /\ Reading(o) \in SUBSET {file[i] : i \in 1 .. Len(file)}
  BY CaptureAssumption DEF CaptureInv, FileInv, Size, Reading
<1>5. /\ r \in Run /\ r.pc = "entry" /\ r.todo = Reading(o) /\ r.halves = Halves(o)
      /\ r.upto = Size /\ r.last <= written
  <2>1. Reading(o) \in SUBSET Entry /\ Halves(o) \in SUBSET EntryId
    BY <1>4, IdsOfFile DEF Halves
  <2>2. r = [pc |-> "entry", todo |-> Reading(o), upto |-> Size, last |-> r.last,
             halves |-> Halves(o), read |-> "?", sid |-> NoSession]
        /\ r.last = IF kind = "copilot" THEN written ELSE 0
    BY <1>2 DEF Idle
  <2>3. r.last \in Nat /\ r.last <= written
    BY <1>4, <2>2
  <2> QED BY <1>4, <2>1, <2>2, <2>3 DEF Run
<1>6. \A i \in 1 .. Len(file) : Stored(file[i])' <=> Stored(file[i])
  BY <1>3 DEF Stored
<1>7. \A i \in 1 .. Len(file) : dropped' = dropped /\ Settled(file[i]) => Settled(file[i])'
  BY <1>3, <1>6 DEF Settled
<1>8. FileInv' /\ Reached(mark)' /\ Safe'
  <2>1. FileInv'
    BY <1>3, <1>4 DEF FileInv
  <2>4. Size' = Size /\ Size >= 0
    BY <1>3, <1>4 DEF Size
  <2>5. Reached(mark)'
    BY <1>3, <1>4, <2>4 DEF CaptureInv, Reached
  <2>2. ASSUME NEW i \in 1 .. Len(file'), Past(mark, i)' PROVE Settled(file[i])'
    <3>1. CASE o = 0
      <4>1. mark' = 0 /\ i \in Nat /\ i > 0
        BY <3>1, <1>3, <1>4 DEF FileInv
      <4>2. ~Past(mark, i)'
        BY <4>1, <1>3 DEF Past
      <4> QED BY <2>2, <4>2
    <3>2. CASE o # 0
      <4>1. mark' = mark /\ dropped' = dropped /\ UNCHANGED <<kind, file>>
        BY <3>2, <1>3
      <4>2. Past(mark, i) /\ i \in 1 .. Len(file)
        BY <4>1, <2>2 DEF Past
      <4>3. Settled(file[i])
        BY <4>2 DEF CaptureInv, Safe
      <4> QED BY <4>1, <4>2, <4>3, <1>7
    <3> QED BY <3>1, <3>2
  <2>3. Safe'
    BY <2>2 DEF Safe
  <2> QED BY <2>1, <2>3, <2>5
<1>9. RunInv(r)'
  <2>1. Reads(r)'
    <3>1. Reached(Size) /\ Reached(r.upto)'
      BY <1>3, <1>4, <1>5 DEF Reached, Size, ById
    <3> QED BY <3>1, <1>3, <1>4, <1>5, Known DEF Reads
  <2>2. Accounts(r)'
    <3> SUFFICES ASSUME NEW i \in 1 .. Len(file), 2 * i <= Size
                 PROVE  \/ Settled(file[i])' \/ file[i] \in r.todo \/ file[i].id \in r.halves
      BY <1>3, <1>5 DEF Accounts, Covers, Past
    <3>1. CASE o # 0 /\ 2 * i <= mark
      <4>1. Settled(file[i])
        BY <3>1 DEF CaptureInv, Safe, Past
      <4> QED BY <4>1, <3>1, <1>3, <1>7
    <3>2. CASE o < 2 * i
      <4>1. CASE file[i].what = "noise"
        BY <4>1, <1>3 DEF Settled, Stored
      <4>2. CASE Whole(i, o) /\ file[i].what # "noise"
        BY <4>2, <1>4, <1>5 DEF Reading, FileInv
      <4>3. CASE ~Whole(i, o)
        BY <4>3, <3>2, <1>4, <1>5 DEF Halves, FileInv
      <4> QED BY <4>1, <4>2, <4>3
    <3> QED BY <3>1, <3>2, <1>1, <1>4
  <2> QED BY <2>1, <2>2 DEF RunInv
<1>10. ASSUME NEW q \in Ingester, q # p PROVE RunInv(ing[q])'
  <2>1. PICK s \in Run : s = ing[q] /\ RunInv(s)
    BY DEF CaptureInv
  <2>2. s = ing'[q]
    BY <1>3, <1>10, <2>1 DEF CaptureInv
  <2>3. CASE dropped' = dropped
    <3>1. RunInv(s)'
      BY <2>1, <2>3, <1>3, <1>7 DEF RunInv, Reads, Accounts, Covers, Past, Reached, Size
    <3> QED BY <3>1, <2>2
  <2>4. CASE \A u \in Ingester : ing[u].pc = "idle"
    <3>1. s = Idle
      BY <2>1, <2>4 DEF CaptureInv
    <3>2. RunInv(Idle)'
      <4>1. Reads(Idle)'
        BY <1>3, <1>4, IdleRun DEF RunInv, Reads, Reached, Size
      <4>2. \A i \in 1 .. Len(file') : ~Covers(Idle, i)'
        BY <1>3, <1>4, IdleRun DEF Covers, Past
      <4> QED BY <4>1, <4>2 DEF RunInv, Accounts
    <3> QED BY <3>1, <3>2, <2>2
  <2> QED BY <2>3, <2>4, <1>3
<1>11. \A q \in Ingester : ing'[q] = IF q = p THEN r ELSE ing[q]
  BY <1>3 DEF CaptureInv
<1> QED BY <1>3, <1>5, <1>8, <1>9, <1>10, <1>11 DEF CaptureInv

(* By ids: what is at or before the id is settled, the rest is read. *)
LEMMA BeginById ==
  ASSUME CaptureInv, NEW p \in Ingester, Begin(p), kind \in ById
  PROVE  CaptureInv'
<1>1. /\ StartIndex \in 0 .. Len(file) /\ (StartIndex # 0 => file[StartIndex].id = mark)
      /\ Len(file) \in Nat
  BY DEF StartIndex, CaptureInv, FileInv
<1>2. PICK r : r = [Idle EXCEPT !.pc = "entry", !.todo = Telling(StartIndex + 1, Len(file)),
                      !.upto = IF kind = "gemini" THEN file[Len(file)].id ELSE mark]
  OBVIOUS
<1>3. /\ UNCHANGED <<fileVars, mark, rows, anchored, excused, dropped>>
      /\ ing' = [ing EXCEPT ![p] = r] /\ file # <<>>
  BY <1>2 DEF Begin, storeVars
<1>4. \A i \in 1 .. Len(file) : Settled(file[i]) => Settled(file[i])'
  BY <1>3 DEF Settled, Stored, fileVars
<1>5. /\ FileInv' /\ Reached(mark)' /\ Safe'
      /\ \A q \in Run : RunInv(q) => RunInv(q)'
  BY <1>3, <1>4, Held DEF CaptureInv
<1>6. /\ Telling(StartIndex + 1, Len(file)) \in SUBSET {file[i] : i \in 1 .. Len(file)}
      /\ Len(file) \in 1 .. Len(file) /\ written \in Nat
  BY <1>1, <1>3, CaptureAssumption DEF CaptureInv, FileInv, Telling
<1>7. PICK m \in Nat : /\ m = IF kind = "gemini" THEN file[Len(file)].id ELSE mark
                       /\ m <= written
  BY <1>6, IdsOfFile DEF CaptureInv, FileInv, Reached
<1>8. /\ r \in Run /\ r.pc = "entry" /\ r.todo = Telling(StartIndex + 1, Len(file))
      /\ r.upto = m /\ r.last = 0
  <2>1. Telling(StartIndex + 1, Len(file)) \in SUBSET Entry
    BY <1>6, IdsOfFile
  <2> QED BY <1>2, <1>7, <2>1 DEF Idle, Run
<1>9. RunInv(r)
  <2>1. Reads(r)
    <3>1. Reached(r.upto)
      BY <1>7, <1>8 DEF Reached, ById
    <3> QED BY <3>1, <1>6, <1>8, Known DEF Reads
  <2>2. ASSUME NEW i \in 1 .. Len(file) PROVE Settled(file[i]) \/ file[i] \in r.todo
    <3>1. CASE i <= StartIndex
      <4>1. Past(mark, i)
        BY <3>1, <1>1 DEF Past
      <4> QED BY <4>1 DEF CaptureInv, Safe
    <3>2. CASE i > StartIndex /\ file[i].what = "noise"
      BY <3>2 DEF Settled, Stored
    <3>3. CASE i > StartIndex /\ file[i].what # "noise"
      BY <3>3, <1>1, <1>8 DEF Telling
    <3> QED BY <3>1, <3>2, <3>3, <1>1
  <2> QED BY <2>1, <2>2 DEF RunInv, Accounts
<1>10. RunInv(r)'
  BY <1>5, <1>8, <1>9
<1> QED BY <1>3, <1>5, <1>8, <1>10, OneRun

LEMMA CaptureInit == Init => CaptureInv /\ SessionInv
<1> SUFFICES ASSUME Init PROVE CaptureInv /\ SessionInv
  OBVIOUS
<1>1. /\ kind \in Kind /\ file = <<>> /\ torn = FALSE /\ written = 0 /\ mark = 0
      /\ ing = [p \in Ingester |-> Idle] /\ MaxEntry \in Nat /\ MaxSession \in Nat
  BY CaptureAssumption DEF Init
<1>2. file \in Seq(Entry) /\ Len(file) = 0
  BY <1>1
<1>3. Size = 0
  BY <1>1, <1>2 DEF Size
<1>4. FileInv /\ Reached(mark) /\ Safe
  <2>1. FileInv
    <3>1. 1 .. Len(file) = {}
      BY <1>2
    <3>2. written \in 0 .. MaxEntry /\ mark \in Nat
      BY <1>1
    <3>5. torn \in BOOLEAN
      BY <1>1, Zenon
    <3>3. /\ \A i \in 1 .. Len(file) : file[i].id <= written
          /\ \A i, j \in 1 .. Len(file) : i < j => file[i].id < file[j].id
      BY <3>1
    <3>4. torn => file # <<>>
      BY <1>1
    <3> QED BY <1>1, <1>2, <3>2, <3>3, <3>4, <3>5, Zenon DEF FileInv
  <2>2. Reached(mark) /\ Safe
    BY <1>1, <1>2, <1>3 DEF Reached, Safe
  <2> QED BY <2>1, <2>2
<1>5. CaptureInv
  BY <1>1, <1>4, IdleRun DEF CaptureInv
<1>6. SessionInv
  <2>1. SessionTypes
    <3>1. /\ binding = "none" /\ binder = "idle" /\ lastSession = 0 /\ session = 0 /\ raced = FALSE
          /\ unfiled = FALSE
      BY DEF Init, NoSession
    <3>2. 0 \in 0 .. MaxSession /\ 0 \in 0 .. 0
      BY <1>1
    <3> QED BY <3>1, <3>2 DEF SessionTypes, Binder
  <2>2. \A p \in Ingester : Knows(ing[p])
    BY <1>1 DEF Knows, Idle
  <2> QED BY <2>1, <2>2 DEF Init, SessionInv
<1> QED BY <1>5, <1>6

LEMMA CaptureNext == CaptureInv /\ SessionInv /\ [Next]_vars => CaptureInv'
<1> SUFFICES ASSUME CaptureInv, SessionInv, [Next]_vars PROVE CaptureInv'
  OBVIOUS
<1>1. CASE WriteNext \/ CompleteEntry \/ Truncate
  BY <1>1, WriteNextKeeps, CompleteEntryKeeps, TruncateKeeps
<1>2. CASE Decision
  BY <1>2, UserKeeps
<1>3. ASSUME NEW p \in Ingester,
             \/ Begin(p) \/ ReadBinding(p) \/ ResolveSession(p) \/ SkipEntry(p)
             \/ WriteEntry(p) \/ SeedAnchors(p) \/ Finish(p) \/ Aborts(p)
      PROVE  CaptureInv'
  <2>1. CASE Begin(p)
    BY <2>1, BeginByOffset, BeginById
  <2>2. CASE ReadBinding(p) \/ ResolveSession(p)
    BY <2>2, ResolveKeeps DEF SessionInv
  <2>3. CASE SkipEntry(p) \/ WriteEntry(p) \/ SeedAnchors(p)
    BY <2>3, EntryKeeps
  <2>4. CASE Finish(p) \/ Aborts(p)
    BY <2>4, FinishKeeps, StopsKeeps
  <2> QED BY <1>3, <2>1, <2>2, <2>3, <2>4
<1>4. CASE UNCHANGED vars
  <2>1. \A i \in 1 .. Len(file) : Settled(file[i]) => Settled(file[i])'
    BY <1>4 DEF vars, Settled, Stored
  <2> QED BY <1>4, <2>1, Held, NoRun DEF vars, fileVars, CaptureInv
<1> QED BY <1>1, <1>2, <1>3, <1>4 DEF Next, Decision, Setting

---------------------------------------------------------------------------
(* What one ingestion comes to know leaves the others' as it is. *)
LEMMA KnowsOne ==
  ASSUME SessionInv, CaptureInv, NEW p \in Ingester, NEW r,
         ing' = [ing EXCEPT ![p] = r], Knows(r)
  PROVE  \A q \in Ingester : Knows(ing'[q])
<1>1. \A q \in Ingester : ing'[q] = IF q = p THEN r ELSE ing[q]
  BY DEF CaptureInv
<1> QED BY <1>1 DEF SessionInv

(* No ingestion writes for a session that it has not found or made. *)
LEMMA KnowsNext ==
  ASSUME SessionInv, CaptureInv, NEW p \in Ingester,
         \/ Begin(p) \/ ReadBinding(p) \/ ResolveSession(p) \/ SkipEntry(p)
         \/ WriteEntry(p) \/ SeedAnchors(p) \/ Finish(p) \/ Aborts(p)
  PROVE  \A q \in Ingester : Knows(ing'[q])
<1>1. PICK r \in Run : r = ing[p] /\ Knows(r)
  BY DEF CaptureInv, SessionInv
<1>2. CASE Begin(p)
  <2>1. PICK s : ing' = [ing EXCEPT ![p] = s] /\ s.pc = "entry" /\ s.read = "?"
    <3>1. CASE kind \notin ById
      <4> DEFINE s == [Idle EXCEPT !.pc = "entry",
                         !.todo = Reading(StartOffset), !.halves = Halves(StartOffset),
                         !.upto = Size, !.last = IF kind = "copilot" THEN written ELSE 0]
      <4>1. ing' = [ing EXCEPT ![p] = s]
        BY <3>1, <1>2 DEF Begin
      <4>2. s.pc = "entry" /\ s.read = "?"
        BY DEF Idle
      <4> HIDE DEF s
      <4> QED BY <4>1, <4>2
    <3>2. CASE kind \in ById
      <4> DEFINE s == [Idle EXCEPT !.pc = "entry",
                         !.todo = Telling(StartIndex + 1, Len(file)),
                         !.upto = IF kind = "gemini" THEN file[Len(file)].id ELSE mark]
      <4>1. ing' = [ing EXCEPT ![p] = s]
        BY <3>2, <1>2 DEF Begin
      <4>2. s.pc = "entry" /\ s.read = "?"
        BY DEF Idle
      <4> HIDE DEF s
      <4> QED BY <4>1, <4>2
    <3> QED BY <3>1, <3>2
  <2>2. Knows(s)
    BY <2>1 DEF Knows
  <2> QED BY <2>1, <2>2, KnowsOne
<1>3. CASE ReadBinding(p)
  <2>1. CASE ing' = [ing EXCEPT ![p].pc = "session", ![p].read = binding'] /\ r.todo # {}
    <3>1. PICK s : s = [r EXCEPT !.pc = "session", !.read = binding']
      OBVIOUS
    <3>2. s.pc = "session" /\ s.todo = r.todo /\ ing' = [ing EXCEPT ![p] = s]
      BY <1>1, <2>1, <3>1 DEF Run, CaptureInv
    <3>3. Knows(s)
      BY <2>1, <3>2 DEF Knows
    <3> QED BY <3>2, <3>3, KnowsOne
  <2>2. CASE ing' = [ing EXCEPT ![p].pc = "write"] /\ r.read \in {"none", "set"} /\ r.pc = "entry" /\ r.todo # {}
    <3>1. PICK s : s = [r EXCEPT !.pc = "write"]
      OBVIOUS
    <3>2. s.pc = "write" /\ s.todo = r.todo /\ s.sid = r.sid /\ ing' = [ing EXCEPT ![p] = s]
      BY <1>1, <2>2, <3>1 DEF Run, CaptureInv
    <3>3. Knows(s)
      BY <1>1, <2>2, <3>2 DEF Knows
    <3> QED BY <3>2, <3>3, KnowsOne
  <2> QED BY <1>1, <1>3, <2>1, <2>2 DEF ReadBinding, Run
<1>4. CASE ResolveSession(p)
  <2>1. CASE ing' = [ing EXCEPT ![p].pc = "entry"] /\ r.read = "skip"
    <3>1. PICK s : s = [r EXCEPT !.pc = "entry"]
      OBVIOUS
    <3>2. s.pc = "entry" /\ s.read = r.read /\ ing' = [ing EXCEPT ![p] = s]
      BY <1>1, <2>1, <3>1 DEF Run, CaptureInv
    <3>3. Knows(s)
      BY <2>1, <3>2 DEF Knows
    <3> QED BY <3>2, <3>3, KnowsOne
  <2>2. CASE ing' = [ing EXCEPT ![p].pc = "write", ![p].sid = session'] /\ session' # NoSession /\ r.todo # {}
    <3>1. PICK s : s = [r EXCEPT !.pc = "write", !.sid = session']
      OBVIOUS
    <3>2. s.pc = "write" /\ s.todo = r.todo /\ s.sid = session' /\ ing' = [ing EXCEPT ![p] = s]
      BY <1>1, <2>2, <3>1 DEF Run, CaptureInv
    <3>3. Knows(s)
      BY <2>2, <3>2 DEF Knows
    <3> QED BY <3>2, <3>3, KnowsOne
  <2>3. r.todo # {}
    BY <1>1, <1>4 DEF ResolveSession, Knows
  <2>4. session' # NoSession \/ r.read = "skip"
    BY <1>1, <1>4, CaptureAssumption DEF ResolveSession, Makes, storeVars, NoSession, SessionInv, SessionTypes
  <2> QED BY <1>1, <1>4, <2>1, <2>2, <2>3, <2>4 DEF ResolveSession
<1>5. CASE Finish(p) \/ Aborts(p)
  <2>1. Knows(Idle)
    BY DEF Knows, Idle
  <2> QED BY <1>5, <2>1, KnowsOne DEF Finish, Aborts, Stops
<1>6. CASE SkipEntry(p)
  <2>1. r.todo # {} /\ r.read = "skip" /\ ing' = [ing EXCEPT ![p] = Rest(r)]
    BY <1>1, <1>6 DEF SkipEntry
  <2>2. Knows(Rest(r))
    BY <2>1, RestIsRun DEF Knows
  <2> QED BY <2>1, <2>2, KnowsOne
<1>7. CASE WriteEntry(p) \/ SeedAnchors(p)
  <2>1. r.sid # NoSession /\ r.todo # {}
    BY <1>1, <1>7 DEF WriteEntry, SeedAnchors, Knows
  <2>2. CASE NextEntry(p)
    <3>1. PICK t : t = Rest(r)
      OBVIOUS
    <3>2. t \in Run /\ t.pc = "entry" /\ (t.sid = r.sid \/ t.read = "?")
      BY <2>1, <3>1, RestIsRun
    <3>3. PICK s : /\ ing' = [ing EXCEPT ![p] = s] /\ s.pc = "entry"
                   /\ s.sid = t.sid /\ s.read = t.read
      <4>1. CASE ing' = [ing EXCEPT ![p] = t]
        BY <3>2, <4>1
      <4>2. ASSUME NEW u, ing' = [ing EXCEPT ![p] = [t EXCEPT !.upto = u]]
            PROVE  \E s : /\ ing' = [ing EXCEPT ![p] = s] /\ s.pc = "entry"
                          /\ s.sid = t.sid /\ s.read = t.read
        <5> DEFINE s == [t EXCEPT !.upto = u]
        <5>1. s.pc = "entry" /\ s.sid = t.sid /\ s.read = t.read
          BY <3>2 DEF Run
        <5>2. ing' = [ing EXCEPT ![p] = s]
          BY <4>2
        <5> HIDE DEF s
        <5> QED BY <5>1, <5>2
      <4>3. CASE kind = "opencode"
        <5>1. ing' = [ing EXCEPT ![p] = [t EXCEPT !.upto = First(r).id]]
          BY <1>1, <2>2, <3>1, <4>3 DEF NextEntry
        <5> QED BY <5>1, <4>2
      <4>4. CASE kind # "opencode"
        BY <1>1, <2>2, <3>1, <4>1, <4>4 DEF NextEntry
      <4> QED BY <4>3, <4>4
    <3>4. Knows(s)
      BY <2>1, <3>2, <3>3 DEF Knows
    <3> QED BY <3>3, <3>4, KnowsOne
  <2>3. CASE ing' = [ing EXCEPT ![p].pc = "anchor"]
    <3>1. PICK s : s = [r EXCEPT !.pc = "anchor"]
      OBVIOUS
    <3>2. s.todo = r.todo /\ s.sid = r.sid /\ ing' = [ing EXCEPT ![p] = s]
      BY <1>1, <2>3, <3>1 DEF Run, CaptureInv
    <3>3. Knows(s)
      BY <2>1, <3>2 DEF Knows
    <3> QED BY <3>2, <3>3, KnowsOne
  <2> QED BY <1>7, <2>2, <2>3 DEF WriteEntry, SeedAnchors
<1> QED BY <1>2, <1>3, <1>4, <1>5, <1>6, <1>7

LEMMA SessionNext == SessionInv /\ CaptureInv /\ [Next]_vars => SessionInv'
<1> SUFFICES ASSUME SessionInv, CaptureInv, [Next]_vars PROVE SessionInv'
  OBVIOUS
<1> DEFINE Kept == /\ session = NoSession => rows = {}
                   /\ raced \/ (binding = "skip" \/ binder = "deleted" => session = NoSession)
                   /\ binder \in {"marked", "found"} => binding # "skip"
                   /\ \/ raced \/ binder # "idle"
                      \/ (binding = "set" /\ session # NoSession => project = "bound" \/ unfiled)
<1>1. \A q \in Ingester : Knows(ing'[q])
  <2>1. CASE UNCHANGED ing
    BY <2>1 DEF SessionInv
  <2>2. CASE ~UNCHANGED ing
    BY <2>2, KnowsNext DEF Next, vars, WriteNext, CompleteEntry, Truncate, SetMarks, SetFinds,
         SetFiles, SkipDeletes, SkipMarks, BinderDies, Include, Expires, DeleteSession
  <2> QED BY <2>1, <2>2
<1>2. SessionTypes' /\ Kept'
  <2>1. SessionTypes /\ Kept /\ MaxSession \in Nat
    BY CaptureAssumption DEF SessionInv
  <2>2. CASE WriteNext \/ CompleteEntry \/ Truncate \/ UNCHANGED vars
    BY <2>1, <2>2 DEF WriteNext, CompleteEntry, Truncate, vars, storeVars, history, SessionTypes
  <2>3. CASE Decision
    <3>1. CASE Setting \/ BinderDies
      <4>1. CASE SetMarks
        BY <2>1, <4>1 DEF SetMarks, storeVars, SessionTypes, Binder
      <4>2. CASE SetFinds
        BY <2>1, <4>2 DEF SetFinds, storeVars, history, SessionTypes, Binder
      <4>3. CASE SetFiles
        <5>1. /\ project' = "bound" /\ raced' = FALSE /\ binder' = "idle" /\ binder = "found"
              /\ UNCHANGED <<binding, rows, unfiled>>
              /\ Makes("bound") \/ (session # NoSession /\ UNCHANGED <<session, lastSession>>)
          BY <4>3 DEF SetFiles, Makes
        <5>2. session' \in 0 .. lastSession' /\ lastSession' \in 0 .. MaxSession /\ session' # NoSession
          BY <2>1, <5>1 DEF Makes, SessionTypes, NoSession
        <5> QED BY <2>1, <5>1, <5>2 DEF SessionTypes, Binder
      <4>4. CASE BinderDies
        <5>1. /\ unfiled' = (binder # "deleted" /\ session # NoSession /\ project # "bound")
              /\ binder' = "idle" /\ UNCHANGED <<session, project, lastSession, rows, binding, raced>>
          BY <4>4 DEF BinderDies, storeVars
        <5>2. unfiled' \in BOOLEAN
          BY <5>1, Zenon
        <5>3. SessionTypes'
          BY <2>1, <5>1, <5>2, Zenon DEF SessionTypes, Binder
        <5>4. binder = "deleted" \/ session = NoSession \/ project = "bound" \/ unfiled'
          BY <5>1
        <5> QED BY <2>1, <5>1, <5>3, <5>4
      <4> QED BY <3>1, <4>1, <4>2, <4>3, <4>4 DEF Setting
    <3>2. CASE SkipDeletes \/ DeleteSession
      <4>1. /\ session' = NoSession /\ rows' = {} /\ raced' = FALSE /\ unfiled' = FALSE
            /\ UNCHANGED <<binding, lastSession>>
            /\ binder' \in {binder, "deleted"}
        BY <3>2 DEF SkipDeletes, DeleteSession, DropsSession
      <4>2. SessionTypes'
        <5>1. raced' \in BOOLEAN /\ unfiled' \in BOOLEAN
          BY <4>1, Zenon
        <5>2. session' \in 0 .. lastSession' /\ lastSession' \in 0 .. MaxSession
              /\ binding' \in {"none", "set", "skip", "old"} /\ binder' \in Binder
          BY <2>1, <4>1 DEF SessionTypes, NoSession, Binder
        <5> QED BY <5>1, <5>2, Zenon DEF SessionTypes
      <4>3. Kept'
        BY <2>1, <4>1
      <4> QED BY <4>2, <4>3
    <3>3. CASE SkipMarks \/ Include \/ Expires
      BY <2>1, <3>3 DEF SkipMarks, Include, Expires, storeVars, history, SessionTypes, Binder
    <3> QED BY <2>3, <3>1, <3>2, <3>3 DEF Decision
  <2>4. ASSUME NEW p \in Ingester, Begin(p) \/ ReadBinding(p) \/ SkipEntry(p) \/ Finish(p) \/ Aborts(p)
        PROVE  SessionTypes' /\ Kept'
    BY <2>1, <2>4 DEF Begin, ReadBinding, SkipEntry, Finish, Aborts, storeVars, history, SessionTypes
  <2>5. ASSUME NEW p \in Ingester, WriteEntry(p) \/ SeedAnchors(p) PROVE SessionTypes' /\ Kept'
    <3>1. session # NoSession /\ UNCHANGED <<session, project, lastSession, binding, binder, raced, unfiled>>
      BY <2>5 DEF WriteEntry, SeedAnchors, SessionInv, Knows, history
    <3> QED BY <2>1, <3>1 DEF SessionTypes
  <2>6. ASSUME NEW p \in Ingester, ResolveSession(p) PROVE SessionTypes' /\ Kept'
    <3>1. UNCHANGED <<binding, binder>>
      BY <2>6 DEF ResolveSession
    <3>2. CASE session' = NoSession /\ rows' = {} /\ raced' = FALSE /\ unfiled' = FALSE /\ UNCHANGED lastSession
      <4>1. raced' \in BOOLEAN /\ unfiled' \in BOOLEAN
        BY <3>2, Zenon
      <4>2. session' \in 0 .. lastSession' /\ lastSession' \in 0 .. MaxSession
        BY <2>1, <3>2 DEF SessionTypes, NoSession
      <4> QED BY <2>1, <3>1, <3>2, <4>1, <4>2 DEF SessionTypes
    <3>3. CASE UNCHANGED <<storeVars, raced, unfiled>>
      BY <2>1, <3>1, <3>3 DEF storeVars, SessionTypes
    <3>4. ASSUME NEW B \in SUBSET {"set", "none", "old"}, "set" \in B => project' = "bound",
                 raced' = (raced \/ binding \notin B \/ binder # "idle"), unfiled' \in {unfiled, FALSE},
                 "set" \in B \/ unfiled' = unfiled,
                 Makes("bound") \/ Makes("auto") \/ (session # NoSession /\ UNCHANGED <<session, lastSession, rows>>)
          PROVE  SessionTypes' /\ Kept'
      <4>1. session' \in 0 .. lastSession' /\ lastSession' \in 0 .. MaxSession /\ session' # NoSession
        BY <2>1, <3>4 DEF Makes, SessionTypes, NoSession
      <4>2. raced' \in BOOLEAN /\ unfiled' \in BOOLEAN
        <5>1. raced' \in BOOLEAN
          BY <3>4, Zenon
        <5>2. unfiled' \in BOOLEAN
          BY <2>1, <3>4 DEF SessionTypes
        <5> QED BY <5>1, <5>2
      <4>3. SessionTypes'
        BY <2>1, <3>1, <4>1, <4>2, Zenon DEF SessionTypes
      <4>4. raced' \/ (binding \in B /\ binder = "idle")
        BY <3>4, Zenon
      <4>5. Kept'
        BY <2>1, <3>1, <3>4, <4>1, <4>4
      <4> QED BY <4>3, <4>5
    <3>5. CASE ing[p].read = "skip"
      BY <2>6, <3>2, <3>3, <3>5 DEF ResolveSession, DropsSession
    <3>6. CASE ing[p].read = "set"
      <4>1. /\ raced' = (raced \/ binding \notin {"set"} \/ binder # "idle") /\ project' = "bound"
            /\ unfiled' = FALSE
            /\ Makes("bound") \/ (session # NoSession /\ UNCHANGED <<session, lastSession, rows>>)
        BY <2>6, <3>6 DEF ResolveSession, Makes
      <4> QED BY <4>1, <3>4
    <3>7. CASE ing[p].read = "none"
      <4>1. /\ raced' = (raced \/ binding \notin {"none", "old"} \/ binder # "idle")
            /\ unfiled' = unfiled
            /\ Makes("auto") \/ (session # NoSession /\ UNCHANGED <<session, lastSession, rows>>)
        BY <2>6, <3>7 DEF ResolveSession, storeVars
      <4>2. {"none", "old"} \in SUBSET {"set", "none", "old"} /\ "set" \notin {"none", "old"}
        OBVIOUS
      <4> DEFINE B == {"none", "old"}
      <4>3. B \in SUBSET {"set", "none", "old"} /\ ("set" \in B => project' = "bound")
            /\ raced' = (raced \/ binding \notin B \/ binder # "idle")
            /\ unfiled' = unfiled
        BY <4>1, <4>2
      <4> HIDE DEF B
      <4> QED BY <4>1, <4>3, <3>4
    <3> QED BY <2>6, <3>5, <3>6, <3>7 DEF ResolveSession
  <2> QED BY <2>2, <2>3, <2>4, <2>5, <2>6 DEF Next, Decision, Setting
<1> QED BY <1>1, <1>2 DEF SessionInv

(* Captured and the user's decision, for all the constants: nothing is lost behind *)
(* the position of a transcript.                                              *)
THEOREM CaptureCorrect == Spec => [](CaptureInv /\ SessionInv)
<1>1. Init => CaptureInv /\ SessionInv
  BY CaptureInit
<1>2. CaptureInv /\ SessionInv /\ [Next]_vars => (CaptureInv /\ SessionInv)'
  BY CaptureNext, SessionNext
<1> QED BY <1>1, <1>2, PTL DEF Spec

(* Nothing is lost behind the position: an entry that no later ingestion will read is *)
(* in store with its anchors, or it was excused or dropped as Captured says            *)
(* (ingestOneTranscript, src/ingest/ingest.ts).                                *)
THEOREM CaptureCaptured == Spec => []Captured
<1>1. CaptureInv => Captured
  BY BehindIsPast DEF CaptureInv
<1> QED BY <1>1, CaptureCorrect, PTL

(* A skipped session has no row and one with a set project is filed there, unless an *)
(* ingestion raced with the decision, or its process was killed between the binding *)
(* and the session (src/ingest/session-binding.ts, src/cli/cli.ts).                *)
THEOREM CaptureBinding == Spec => []BindingHonoured
<1>1. SessionInv => BindingHonoured
  BY DEF SessionInv, SessionTypes, BindingHonoured
<1> QED BY <1>1, CaptureCorrect, PTL
=============================================================================
