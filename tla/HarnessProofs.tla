---------------------------- MODULE HarnessProofs ----------------------------
(***************************************************************************)
(* The components of the harness suite, for any sets of sessions, runs, texts  *)
(* and callers and any bounds: what the suite's run checks on a small          *)
(* instance.                                                               *)
(***************************************************************************)
EXTENDS HarnessSuite, SequenceTheorems, FiniteSetTheorems, WellFoundedInduction, TLAPS

(* A behaviour of the suite is one of a single component. *)
LEMMA SuiteInit ==
  Init => /\ part = "hooks" => Hooking!Init
          /\ part = "transcripts" => Parsing!Init
          /\ part = "installers" => Installing!Init
          /\ part = "setup" => SettingUp!Init
          /\ part = "recall" => Recalling!Init
          /\ part = "retry" => Retrying!Init
          /\ part = "load" => Loading!Init
BY DEF Init

LEMMA SuiteStep ==
  [Next]_vars => /\ part' = part
                 /\ part = "hooks" => [Hooking!Next]_hooksVars
                 /\ part = "transcripts" => [Parsing!Next]_transcriptsVars
                 /\ part = "installers" => [Installing!Next]_installersVars
                 /\ part = "setup" => [SettingUp!Next]_setupVars
                 /\ part = "recall" => [Recalling!Next]_recallVars
                 /\ part = "retry" => [Retrying!Next]_retryVars
                 /\ part = "load" => [Loading!Next]_loadVars
BY DEF Next, vars, Hooks, Transcripts, Installers, Setup, Recall, HttpRetry, ModelLoad

---------------------------------------------------------------------------
(* Hooks *)

HooksType ==
  /\ hook \in [Session -> Hooking!Process]
  /\ phase \in [Session -> {"new", "open", "ended"}]
  /\ llm \subseteq Session /\ captured \subseteq Session

(* The notice of automatic spend was printed, is about to be, or was lost. *)
Announcing == spendTold \/ spendLost \/ \E t \in Session : hook[t].pc = "out" /\ hook[t].spend

Starting(s) == hook[s].event = "start" /\ hook[s].pc \in {"stdin", "mark", "out"}

(* Who has set the flag prints; a session with an LLM whose start hook has      *)
(* looked at the flag finds it set, or sets it.                               *)
Spending ==
  /\ spendFlag => Announcing
  /\ \A s \in Session : Hooking!Runs(s, "start", "mark") => s \in llm
  /\ \A s \in llm \ missed :
       (/\ phase[s] # "new"
        /\ ~Hooking!Runs(s, "start", "stdin") /\ ~Hooking!Runs(s, "start", "mark")) => spendFlag

(* A hook runs in a session that has begun, its start hook while it is open; a  *)
(* session that is not left out gets the notice with its start hook.           *)
Capturing ==
  /\ \A s \in Session : hook[s].pc # "idle" => phase[s] # "new"
  /\ \A s \in Session : Starting(s) => phase[s] = "open"
  /\ \A s \in Session \ skipped :
       /\ Starting(s) /\ hook[s].pc # "stdin" => hook[s].notice
       /\ phase[s] # "new" /\ ~Starting(s) => s \in told \cup missed
  /\ captured \cap skipped = {}

HooksInv == HooksType /\ Spending /\ Capturing /\ Hooking!SpendAnnounced

---------------------------------------------------------------------------
LEMMA InitHooksInv == Hooking!Init => HooksInv
BY DEF Hooking!Init, HooksInv, HooksType, Hooking!Process, Hooking!NoHook, Spending, Capturing,
   Starting, Hooking!Runs, Hooking!SpendAnnounced

(* A hook that fires begins at its stdin, with nothing to print. *)
LEMMA Fires ==
  ASSUME HooksType, NEW s \in Session, NEW event \in {"start", "prompt", "end"},
         Hooking!Fire(s, event)
  PROVE  \E r \in Hooking!Process : /\ hook' = [hook EXCEPT ![s] = r]
                                    /\ r.event = event /\ r.pc = "stdin" /\ r.spend = FALSE
<1> DEFINE r == [Hooking!NoHook EXCEPT !.event = event, !.pc = "stdin"]
<1>1. r \in Hooking!Process /\ r.event = event /\ r.pc = "stdin" /\ r.spend = FALSE
  BY DEF Hooking!NoHook, Hooking!Process
<1>2. hook' = [hook EXCEPT ![s] = r]
  BY DEF Hooking!Fire
<1> QED BY <1>1, <1>2

(* What the harness announces, and the state it leaves. *)
Event(s) == Hooking!Open(s) \/ Hooking!Prompt(s) \/ Hooking!End(s)

Fired(s, r) ==
  /\ hook' = [hook EXCEPT ![s] = r] /\ r.pc = "stdin" /\ r.spend = FALSE
  /\ phase' \in [Session -> {"new", "open", "ended"}]
  /\ \A t \in Session \ {s} : phase'[t] = phase[t] /\ (t \in llm' <=> t \in llm)
  /\ phase'[s] # "new" /\ llm' \subseteq Session
  /\ phase[s] # "open" => r.event = "start" /\ phase'[s] = "open"
  /\ phase[s] = "open" => r.event # "start" /\ llm' = llm
  /\ UNCHANGED <<skipped, firstFlag, spendFlag, captured, spawned,
                 told, spendTold, missed, spendLost>>

LEMMA Begins ==
  ASSUME HooksType, NEW s \in Session, Event(s)
  PROVE  \E r \in Hooking!Process : Fired(s, r)
<1>1. CASE Hooking!Open(s)
  <2>1. /\ Hooking!Fire(s, "start") /\ phase[s] # "open"
        /\ phase' = [phase EXCEPT ![s] = "open"] /\ llm' \in {llm \cup {s}, llm \ {s}}
        /\ UNCHANGED <<skipped, firstFlag, spendFlag, captured, spawned,
                       told, spendTold, missed, spendLost>>
    BY <1>1 DEF Hooking!Open, Hooking!storeVars, Hooking!history
  <2> HIDE <1>1
  <2>2. PICK r \in Hooking!Process : /\ hook' = [hook EXCEPT ![s] = r]
                                    /\ r.event = "start" /\ r.pc = "stdin" /\ r.spend = FALSE
    BY <2>1, Fires
  <2>3. Fired(s, r)
    BY <2>1, <2>2 DEF Fired, HooksType
  <2> QED BY <2>3
<1>2. CASE Hooking!Prompt(s)
  <2>1. Hooking!Fire(s, "prompt") /\ phase[s] = "open"
    BY <1>2 DEF Hooking!Prompt
  <2>2. PICK r \in Hooking!Process : /\ hook' = [hook EXCEPT ![s] = r]
                                    /\ r.event = "prompt" /\ r.pc = "stdin" /\ r.spend = FALSE
    BY <2>1, Fires
  <2>3. Fired(s, r)
    BY <1>2, <2>2 DEF Fired, HooksType, Hooking!Prompt, Hooking!storeVars, Hooking!history
  <2> QED BY <2>3
<1>3. CASE Hooking!End(s)
  <2>1. Hooking!Fire(s, "end") /\ phase[s] = "open"
    BY <1>3 DEF Hooking!End
  <2>2. PICK r \in Hooking!Process : /\ hook' = [hook EXCEPT ![s] = r]
                                    /\ r.event = "end" /\ r.pc = "stdin" /\ r.spend = FALSE
    BY <2>1, Fires
  <2>3. Fired(s, r)
    BY <1>3, <2>2 DEF Fired, HooksType, Hooking!End, Hooking!storeVars, Hooking!history
  <2> QED BY <2>3
<1> QED BY <1>1, <1>2, <1>3 DEF Event

(* Who sets the flag has an LLM, so it sets it in order to print the notice. *)
LEMMA HooksTypeKept == ASSUME HooksInv, [Hooking!Next]_hooksVars PROVE HooksType'
<1> HooksType /\ Spending
  BY DEF HooksInv
<1>1. ASSUME NEW s \in Session, Event(s) PROVE HooksType'
  <2>1. PICK r \in Hooking!Process : Fired(s, r)
    BY <1>1, Begins
  <2> QED BY <2>1 DEF HooksType, Fired
<1>2. ASSUME NEW s \in Session,
             Hooking!TimesOut(s) \/ Hooking!Fails(s) \/ Hooking!Emit(s)
      PROVE  HooksType'
  <2>1. Hooking!NoHook \in Hooking!Process
    BY DEF Hooking!NoHook, Hooking!Process
  <2>2. CASE Hooking!Fails(s) \/ Hooking!Emit(s)
    BY <2>1, <2>2 DEF HooksType, Hooking!Fails, Hooking!Emit, Hooking!Ends, Hooking!storeVars
  <2>3. CASE Hooking!TimesOut(s)
    <3>1. [hook[s] EXCEPT !.late = TRUE] \in Hooking!Process
      BY DEF HooksType, Hooking!Process
    <3> QED BY <2>3, <3>1 DEF HooksType, Hooking!TimesOut, Hooking!storeVars
  <2> QED BY <1>2, <2>2, <2>3
<1>3. ASSUME NEW s \in Session,
             Hooking!GatherFacts(s) \/ Hooking!ConsumeSpendFlag(s)
             \/ Hooking!RecallFromStore(s) \/ Hooking!ConsumeFirstPromptFlag(s)
      PROVE  HooksType'
  <2>1. hook' \in [Session -> Hooking!Process]
    <3>1. \A place \in {"mark", "out"}, b \in BOOLEAN :
            /\ [hook[s] EXCEPT !.pc = place] \in Hooking!Process
            /\ [hook[s] EXCEPT !.pc = place, !.notice = b] \in Hooking!Process
            /\ [hook[s] EXCEPT !.pc = place, !.spend = b] \in Hooking!Process
      BY DEF HooksType, Hooking!Process
    <3>2. CASE Hooking!GatherFacts(s)
      BY <3>1, <3>2 DEF HooksType, Hooking!GatherFacts
    <3>3. CASE Hooking!ConsumeSpendFlag(s)
      <4>1. ASSUME s \in llm PROVE hook' = [hook EXCEPT ![s].pc = "out", ![s].spend = TRUE]
        BY <3>3, <4>1 DEF Hooking!ConsumeSpendFlag
      <4>2. s \in llm
        BY <3>3 DEF Hooking!ConsumeSpendFlag, Spending
      <4> QED BY <3>1, <4>1, <4>2 DEF HooksType
    <3>4. CASE Hooking!RecallFromStore(s) \/ Hooking!ConsumeFirstPromptFlag(s)
      BY <3>1, <3>4 DEF HooksType, Hooking!RecallFromStore, Hooking!ConsumeFirstPromptFlag,
         Hooking!Goto
    <3> QED BY <1>3, <3>2, <3>3, <3>4
  <2> QED BY <1>3, <2>1 DEF HooksType, Hooking!GatherFacts, Hooking!ConsumeSpendFlag,
     Hooking!RecallFromStore, Hooking!ConsumeFirstPromptFlag, Hooking!storeVars
<1>4. ASSUME NEW s \in Session,
             Hooking!CheckLock(s) \/ Hooking!EnsureReady(s) \/ Hooking!Ingest(s)
             \/ Hooking!SpawnCadence(s)
      PROVE  HooksType'
  <2>1. hook' \in [Session -> Hooking!Process]
    <3>1. /\ Hooking!NoHook \in Hooking!Process
          /\ \A place \in {"ready", "ingest", "due"} :
               [hook[s] EXCEPT !.pc = place] \in Hooking!Process
      BY DEF HooksType, Hooking!Process, Hooking!NoHook
    <3>2. \E r \in Hooking!Process : hook' = [hook EXCEPT ![s] = r]
      BY <1>4, <3>1 DEF Hooking!CheckLock, Hooking!EnsureReady, Hooking!Ingest,
         Hooking!SpawnCadence, Hooking!Goto, Hooking!Ends
    <3> QED BY <3>2 DEF HooksType
  <2> QED BY <1>4, <2>1 DEF HooksType, Hooking!CheckLock, Hooking!EnsureReady, Hooking!Ingest,
     Hooking!SpawnCadence, Hooking!storeVars
<1>5. ASSUME NEW s \in Session, Hooking!Skip(s) PROVE HooksType'
  BY <1>5 DEF HooksType, Hooking!Skip
<1>6. CASE Hooking!IngestAll \/ UNCHANGED hooksVars
  BY <1>6 DEF HooksType, Hooking!IngestAll, hooksVars
<1> QED BY <1>1, <1>2, <1>3, <1>4, <1>5, <1>6 DEF Hooking!Next, Hooking!Handler, Event

---------------------------------------------------------------------------
(* A notice that is about to be printed is printed or counted as lost. *)
LEMMA AnnouncingKept ==
  ASSUME HooksInv, Announcing, [Hooking!Next]_hooksVars
  PROVE  Announcing'
<1> USE DEF Announcing
<1>1. ASSUME NEW s \in Session, Event(s) PROVE Announcing'
  BY <1>1 DEF HooksInv, HooksType, Hooking!Process, Hooking!NoHook, Event, Hooking!Open,
     Hooking!Prompt, Hooking!End, Hooking!Fire, Hooking!history
<1>2. ASSUME NEW s \in Session, Hooking!TimesOut(s) \/ Hooking!Fails(s) PROVE Announcing'
  BY <1>2 DEF HooksInv, HooksType, Hooking!Process, Hooking!TimesOut, Hooking!Fails,
     Hooking!Ends, Hooking!Forgone, Hooking!history
<1>3. ASSUME NEW s \in Session, Hooking!Emit(s) PROVE Announcing'
  BY <1>3 DEF HooksInv, HooksType, Hooking!Process, Hooking!Emit, Hooking!Ends, Hooking!Forgone
<1>4. ASSUME NEW s \in Session,
             Hooking!GatherFacts(s) \/ Hooking!ConsumeSpendFlag(s)
             \/ Hooking!RecallFromStore(s) \/ Hooking!ConsumeFirstPromptFlag(s)
      PROVE  Announcing'
  BY <1>4 DEF HooksInv, HooksType, Hooking!Process, Hooking!Runs, Hooking!GatherFacts,
     Hooking!ConsumeSpendFlag, Hooking!RecallFromStore,
     Hooking!ConsumeFirstPromptFlag, Hooking!Goto, Hooking!history
<1>5. ASSUME NEW s \in Session,
             Hooking!CheckLock(s) \/ Hooking!EnsureReady(s) \/ Hooking!Ingest(s)
             \/ Hooking!SpawnCadence(s)
      PROVE  Announcing'
  BY <1>5 DEF HooksInv, HooksType, Hooking!Process, Hooking!Runs, Hooking!CheckLock,
     Hooking!EnsureReady, Hooking!Ingest, Hooking!SpawnCadence, Hooking!Goto, Hooking!Ends,
     Hooking!history
<1>6. ASSUME NEW s \in Session, Hooking!Skip(s) PROVE Announcing'
  BY <1>6 DEF Hooking!Skip, Hooking!history
<1>7. CASE Hooking!IngestAll \/ UNCHANGED hooksVars
  BY <1>7 DEF Hooking!IngestAll, hooksVars, Hooking!history
<1> QED BY <1>1, <1>2, <1>3, <1>4, <1>5, <1>6, <1>7 DEF Hooking!Next, Hooking!Handler, Event

(* The flag is set by the hook that will print; who finds it set need not. *)
LEMMA SpendingKept ==
  ASSUME HooksInv, [Hooking!Next]_hooksVars
  PROVE  Spending'
<1>1. ASSUME UNCHANGED spendFlag PROVE spendFlag' => Announcing'
  BY <1>1, AnnouncingKept DEF HooksInv, Spending
<1>2. ASSUME NEW s \in Session, Event(s) PROVE Spending'
  <2>1. PICK r \in Hooking!Process : Fired(s, r)
    BY <1>2, Begins DEF HooksInv
  <2>2. UNCHANGED spendFlag
    BY <2>1 DEF Fired
  <2>3. /\ hook'[s] = r /\ r.pc = "stdin"
        /\ phase[s] # "open" => r.event = "start"
        /\ phase[s] = "open" => llm' = llm /\ r.event # "start"
        /\ \A t \in Session \ {s} : /\ hook'[t] = hook[t] /\ phase'[t] = phase[t]
                                    /\ t \in llm' <=> t \in llm
        /\ llm' \subseteq Session /\ spendFlag' = spendFlag /\ missed' = missed
    BY <2>1 DEF HooksInv, HooksType, Fired
  <2>4. hook[s].pc = "idle"
    BY <1>2 DEF Event, Hooking!Open, Hooking!Prompt, Hooking!End, Hooking!Fire
  <2>5. \A t \in Session : Hooking!Runs(t, "start", "mark")' => t \in llm'
    BY <2>3 DEF HooksInv, Spending, Hooking!Runs
  <2>6. ASSUME NEW t \in llm' \ missed', phase'[t] # "new",
               ~Hooking!Runs(t, "start", "stdin")', ~Hooking!Runs(t, "start", "mark")'
        PROVE  spendFlag'
    <3>1. CASE t = s
      BY <2>3, <2>4, <2>6, <3>1 DEF HooksInv, Spending, Hooking!Runs
    <3>2. CASE t # s
      BY <2>3, <2>6, <3>2 DEF HooksInv, Spending, Hooking!Runs
    <3> QED BY <3>1, <3>2
  <2> QED BY <1>1, <2>2, <2>5, <2>6 DEF Spending
<1> USE DEF HooksInv, HooksType, Hooking!Process, Spending, Hooking!Runs
<1>3. ASSUME NEW s \in Session,
             Hooking!TimesOut(s) \/ Hooking!Fails(s) \/ Hooking!Emit(s)
      PROVE  Spending'
  <2>1. CASE Hooking!TimesOut(s)
    BY <1>1, <2>1 DEF Hooking!NoHook, Hooking!TimesOut, Hooking!Ends, Hooking!Forgone,
       Hooking!storeVars, Hooking!history
  <2>2. CASE Hooking!Fails(s)
    BY <1>1, <2>2 DEF Hooking!NoHook, Hooking!Fails, Hooking!Ends, Hooking!Forgone,
       Hooking!storeVars, Hooking!history
  <2>3. CASE Hooking!Emit(s)
    BY <1>1, <2>3 DEF Hooking!NoHook, Hooking!Emit, Hooking!Ends, Hooking!Forgone,
       Hooking!storeVars, Hooking!history
  <2> QED BY <1>3, <2>1, <2>2, <2>3
<1>4. ASSUME NEW s \in Session,
             Hooking!GatherFacts(s) \/ Hooking!RecallFromStore(s)
             \/ Hooking!ConsumeFirstPromptFlag(s)
      PROVE  Spending'
  BY <1>1, <1>4 DEF Hooking!GatherFacts, Hooking!RecallFromStore,
     Hooking!ConsumeFirstPromptFlag, Hooking!Goto, Hooking!storeVars, Hooking!history
<1>5. ASSUME NEW s \in Session, Hooking!ConsumeSpendFlag(s) PROVE Spending'
  <2>1. spendFlag' /\ hook'[s].pc = "out" /\ hook'[s].spend
    BY <1>5 DEF Hooking!ConsumeSpendFlag
  <2>2. Announcing'
    BY <2>1 DEF Announcing
  <2>3. \A t \in Session : Hooking!Runs(t, "start", "mark")' => t \in llm'
    BY <1>5 DEF Hooking!ConsumeSpendFlag
  <2> QED BY <2>1, <2>2, <2>3
<1>6. ASSUME NEW s \in Session,
             Hooking!CheckLock(s) \/ Hooking!EnsureReady(s) \/ Hooking!Ingest(s)
             \/ Hooking!SpawnCadence(s)
      PROVE  Spending'
  BY <1>1, <1>6 DEF Hooking!NoHook, Hooking!CheckLock, Hooking!EnsureReady, Hooking!Ingest,
     Hooking!SpawnCadence, Hooking!Goto, Hooking!Ends, Hooking!storeVars, Hooking!history
<1>7. ASSUME NEW s \in Session, Hooking!Skip(s) PROVE Spending'
  BY <1>1, <1>7 DEF Hooking!Skip, Hooking!history
<1>8. CASE Hooking!IngestAll \/ UNCHANGED hooksVars
  BY <1>1, <1>8 DEF Hooking!IngestAll, hooksVars, Hooking!history
<1> QED BY <1>2, <1>3, <1>4, <1>5, <1>6, <1>7, <1>8 DEF Hooking!Next, Hooking!Handler, Event

(* A cadence is started by the end hook of a session with an LLM only. *)
LEMMA SpendAnnouncedKept ==
  ASSUME HooksInv, [Hooking!Next]_hooksVars
  PROVE  Hooking!SpendAnnounced'
<1>1. SUFFICES ASSUME NEW s \in spawned', s \notin missed' PROVE Announcing'
  BY DEF Hooking!SpendAnnounced, Announcing
<1>2. missed \subseteq missed'
  BY DEF Hooking!Next, Hooking!Handler, Hooking!Open, Hooking!Prompt, Hooking!End,
     Hooking!TimesOut, Hooking!Fails, Hooking!GatherFacts, Hooking!ConsumeSpendFlag,
     Hooking!RecallFromStore,
     Hooking!ConsumeFirstPromptFlag, Hooking!Emit, Hooking!CheckLock, Hooking!EnsureReady,
        Hooking!Ingest, Hooking!SpawnCadence, Hooking!Skip, Hooking!IngestAll, Hooking!Forgone,
     hooksVars, Hooking!history
<1>3. CASE s \in spawned
  <2>1. Announcing
    BY <1>1, <1>2, <1>3 DEF HooksInv, Hooking!SpendAnnounced, Announcing
  <2> QED BY <2>1, AnnouncingKept
<1>4. CASE s \notin spawned
  <2>1. PICK t \in Session : Hooking!SpawnCadence(t) /\ s = t /\ t \in llm
    BY <1>1, <1>4 DEF Hooking!Next, Hooking!Handler, Hooking!Open, Hooking!Prompt, Hooking!End,
       Hooking!TimesOut, Hooking!Fails, Hooking!GatherFacts, Hooking!ConsumeSpendFlag,
       Hooking!RecallFromStore, Hooking!ConsumeFirstPromptFlag, Hooking!Emit, Hooking!CheckLock,
          Hooking!EnsureReady, Hooking!Ingest, Hooking!SpawnCadence, Hooking!Skip,
       Hooking!IngestAll, hooksVars
  <2>2. spendFlag
    BY <1>1, <1>2, <2>1 DEF Hooking!SpawnCadence, Hooking!Runs, HooksInv, Spending, Capturing
  <2> QED BY <2>2, AnnouncingKept DEF HooksInv, Spending
<1> QED BY <1>3, <1>4

---------------------------------------------------------------------------
(* The notice of a session that is not left out is printed or missed. *)
LEMMA CapturingKept ==
  ASSUME HooksInv, [Hooking!Next]_hooksVars
  PROVE  Capturing'
<1>1. ASSUME NEW s \in Session, Event(s) PROVE Capturing'
  <2>1. PICK r \in Hooking!Process : Fired(s, r)
    BY <1>1, Begins DEF HooksInv
  <2>2. /\ hook'[s] = r /\ r.pc = "stdin" /\ phase'[s] # "new"
        /\ phase[s] # "open" => r.event = "start" /\ phase'[s] = "open"
        /\ phase[s] = "open" => r.event # "start"
        /\ \A t \in Session \ {s} : hook'[t] = hook[t] /\ phase'[t] = phase[t]
        /\ UNCHANGED <<skipped, captured, told, missed>>
    BY <2>1 DEF HooksInv, HooksType, Fired
  <2>3. hook[s].pc = "idle"
    BY <1>1 DEF Event, Hooking!Open, Hooking!Prompt, Hooking!End, Hooking!Fire
  <2>4. \A t \in Session : /\ hook'[t].pc # "idle" => phase'[t] # "new"
                           /\ Starting(t)' => phase'[t] = "open"
    BY <2>2 DEF HooksInv, Capturing, Starting
  <2>5. ASSUME NEW t \in Session \ skipped'
        PROVE  /\ Starting(t)' /\ hook'[t].pc # "stdin" => hook'[t].notice
               /\ phase'[t] # "new" /\ ~Starting(t)' => t \in told' \cup missed'
    <3>1. CASE t = s
      BY <2>2, <2>3, <3>1 DEF HooksInv, Capturing, Starting
    <3>2. CASE t # s
      BY <2>2, <3>2 DEF HooksInv, Capturing, Starting
    <3> QED BY <3>1, <3>2
  <2> QED BY <2>2, <2>4, <2>5 DEF HooksInv, Capturing
<1> USE DEF HooksInv, HooksType, Hooking!Process, Capturing, Starting, Hooking!Runs
<1>2. ASSUME NEW s \in Session, Hooking!TimesOut(s) \/ Hooking!Fails(s) PROVE Capturing'
  BY <1>2 DEF Hooking!NoHook, Hooking!TimesOut, Hooking!Fails, Hooking!Ends, Hooking!Forgone,
     Hooking!storeVars, Hooking!history
<1>3. ASSUME NEW s \in Session, Hooking!Emit(s) PROVE Capturing'
  BY <1>3 DEF Hooking!NoHook, Hooking!Emit, Hooking!Ends, Hooking!Forgone, Hooking!storeVars
<1>4. ASSUME NEW s \in Session,
             Hooking!GatherFacts(s) \/ Hooking!RecallFromStore(s)
      PROVE  Capturing'
  BY <1>4 DEF Hooking!GatherFacts, Hooking!RecallFromStore, Hooking!Goto, Hooking!storeVars,
     Hooking!history
<1>5. ASSUME NEW s \in Session,
             Hooking!ConsumeSpendFlag(s) \/ Hooking!ConsumeFirstPromptFlag(s)
      PROVE  Capturing'
  BY <1>5 DEF Hooking!ConsumeSpendFlag, Hooking!ConsumeFirstPromptFlag, Hooking!history
<1>6. ASSUME NEW s \in Session,
             Hooking!CheckLock(s) \/ Hooking!EnsureReady(s) \/ Hooking!Ingest(s)
             \/ Hooking!SpawnCadence(s)
      PROVE  Capturing'
  BY <1>6 DEF Hooking!NoHook, Hooking!CheckLock, Hooking!EnsureReady, Hooking!Ingest,
     Hooking!SpawnCadence, Hooking!Goto, Hooking!Ends, Hooking!storeVars, Hooking!history
<1>7. ASSUME NEW s \in Session, Hooking!Skip(s) PROVE Capturing'
  BY <1>7 DEF Hooking!Skip, Hooking!history
<1>8. CASE Hooking!IngestAll \/ UNCHANGED hooksVars
  BY <1>8 DEF Hooking!IngestAll, hooksVars, Hooking!history
<1> QED BY <1>1, <1>2, <1>3, <1>4, <1>5, <1>6, <1>7, <1>8 DEF Hooking!Next, Hooking!Handler, Event

LEMMA StepKeepsHooksInv == HooksInv /\ [Hooking!Next]_hooksVars => HooksInv'
BY HooksTypeKept, SpendingKept, CapturingKept, SpendAnnouncedKept DEF HooksInv


(* "Automatic LLM spend must never be a silent surprise" (session-start.ts:243), *)
(* for any sessions and any number of resumptions: a cadence is spawned only for  *)
(* a session after the one-time notice, or when a hook's output was lost.         *)
THEOREM SpendIsAnnounced == Spec => []SpendAnnounced
<1> DEFINE Inv == part = "hooks" => HooksInv
<1>1. Init => Inv
  BY SuiteInit, InitHooksInv
<1>2. Inv /\ [Next]_vars => Inv'
  BY SuiteStep, StepKeepsHooksInv
<1>3. Inv => SpendAnnounced
  BY DEF HooksInv, SpendAnnounced
<1> QED BY <1>1, <1>2, <1>3, PTL DEF Spec

(* What is in store of a session that has ended was announced to the user while  *)
(* it ran, or its start hook printed nothing; a session that was left out has     *)
(* nothing in store (session-start.ts, user-prompt-submit.ts, session-end.ts).    *)
THEOREM CaptureIsAnnounced == Spec => []CaptureAnnounced
<1> DEFINE Inv == part = "hooks" => HooksInv
<1>1. Init => Inv
  BY SuiteInit, InitHooksInv
<1>2. Inv /\ [Next]_vars => Inv'
  BY SuiteStep, StepKeepsHooksInv
<1>3. HooksInv => Hooking!CaptureAnnounced
  BY DEF HooksInv, HooksType, Capturing, Starting, Hooking!CaptureAnnounced
<1>4. Inv => CaptureAnnounced
  BY <1>3 DEF CaptureAnnounced
<1> QED BY <1>1, <1>2, <1>4, PTL DEF Spec

---------------------------------------------------------------------------
(* HttpRetry *)

RetryType ==
  /\ at \in {"head", "flight", "sleep", "done"}
  /\ attempt \in 1 .. MaxAttempts /\ sent \in Nat /\ slept \in Nat
  /\ late = 0

(* What has been spent when the loop is where it is: AbortStops with the place. *)
Spent ==
  /\ sent <= (IF at = "head" THEN attempt - 1 ELSE attempt)
  /\ slept <= (IF at = "sleep" THEN attempt ELSE attempt - 1) * MaxDelay
  /\ at = "sleep" => attempt < MaxAttempts

RetryInv == RetryType /\ Spent

---------------------------------------------------------------------------
(* Whatever the header says and the jitter draws, one delay is within the cap. *)
LEMMA DelayCapped ==
  ASSUME attempt \in Nat, NEW h \in Retrying!Header, NEW d \in Retrying!Delay(h)
  PROVE  d \in 0 .. MaxDelay
<1>1. CASE h # Retrying!NoHeader
  BY <1>1, BoundAssumption DEF Retrying!Delay, Retrying!Header, Retrying!NoHeader
<1>2. CASE h = Retrying!NoHeader
  <2>1. d \in 0 .. Retrying!Capped
    BY <1>2 DEF Retrying!Delay
  <2> QED BY <2>1, BoundAssumption DEF Retrying!Capped
<1> QED BY <1>1, <1>2

(* The product that bounds the sleeps grows by one cap with each attempt. *)
LEMMA OneMoreDelay ==
  ASSUME NEW n \in Nat, NEW m \in Nat, NEW d \in 0 .. m, NEW s \in Nat, s <= (n - 1) * m, n >= 1
  PROVE  s + d <= n * m
<1>1. n * m = (n - 1) * m + m
  OBVIOUS
<1>2. (n - 1) * m \in Nat
  OBVIOUS
<1> QED BY <1>1, <1>2

LEMMA MoreAttempts ==
  ASSUME NEW n \in Nat, NEW k \in Nat, n <= k, NEW m \in Nat
  PROVE  n * m <= k * m
OBVIOUS

---------------------------------------------------------------------------
LEMMA InitRetryInv == Retrying!Init => RetryInv
BY BoundAssumption DEF Retrying!Init, RetryInv, RetryType, Spent

(* An attempt begins at the head of the loop only, when there is no abort. *)
LEMMA FetchKeeps ==
  ASSUME RetryInv, Retrying!Fetch
  PROVE  RetryInv'
<1>1. RetryType'
  BY BoundAssumption DEF RetryInv, RetryType, Retrying!Fetch
<1>2. Spent'
  BY BoundAssumption DEF RetryInv, RetryType, Spent, Retrying!Fetch
<1> QED BY <1>1, <1>2 DEF RetryInv

(* Sleeping costs at most one cap, and is followed by an attempt. *)
LEMMA SleepsKeeps ==
  ASSUME RetryInv, NEW h \in Retrying!Header, at = "flight", attempt < MaxAttempts,
     Retrying!Sleeps(h)
  PROVE  RetryInv'
<1>1. PICK d \in Retrying!Delay(h) : slept' = slept + d
  BY DEF Retrying!Sleeps
<1>2. d \in 0 .. MaxDelay
  BY <1>1, DelayCapped, BoundAssumption DEF RetryInv, RetryType
<1>3. slept + d <= attempt * MaxDelay
  BY <1>2, OneMoreDelay, BoundAssumption DEF RetryInv, RetryType, Spent
<1>4. at' = "sleep" /\ UNCHANGED <<attempt, sent, late>> /\ slept' \in Nat
  BY <1>1, <1>2, BoundAssumption DEF Retrying!Sleeps, RetryInv, RetryType
<1>5. RetryType'
  BY <1>4 DEF RetryInv, RetryType
<1>6. Spent'
  BY <1>1, <1>3, <1>4 DEF RetryInv, Spent
<1> QED BY <1>5, <1>6 DEF RetryInv

LEMMA WakesKeeps ==
  ASSUME RetryInv, Retrying!Wakes
  PROVE  RetryInv'
<1>1. RetryType'
  BY BoundAssumption DEF RetryInv, RetryType, Spent, Retrying!Wakes
<1>2. Spent'
  <2>1. attempt' - 1 = attempt
    BY BoundAssumption DEF RetryInv, RetryType, Retrying!Wakes
  <2> QED BY <2>1 DEF RetryInv, Spent, Retrying!Wakes
<1> QED BY <1>1, <1>2 DEF RetryInv

(* A call that ends spends nothing more. *)
LEMMA EndsKeeps ==
  ASSUME RetryInv, at \in {"head", "flight"}, NEW how, Retrying!Ends(how)
  PROVE  RetryInv'
<1>1. RetryType'
  BY DEF RetryInv, RetryType, Retrying!Ends
<1>2. Spent'
  BY BoundAssumption DEF RetryInv, RetryType, Spent, Retrying!Ends
<1> QED BY <1>1, <1>2 DEF RetryInv

LEMMA StepKeepsRetryInv ==
  RetryInv /\ [Retrying!Next]_retryVars => RetryInv'
<1> SUFFICES ASSUME RetryInv, [Retrying!Next]_retryVars PROVE RetryInv'
  OBVIOUS
<1>1. CASE Retrying!Abort \/ UNCHANGED retryVars
  BY <1>1 DEF Retrying!Abort, retryVars, RetryInv, RetryType, Spent
<1>2. CASE Retrying!Fetch
  BY <1>2, FetchKeeps
<1>3. CASE Retrying!Wakes
  BY <1>3, WakesKeeps
<1>4. ASSUME Retrying!Ends("error"), at \in {"head", "flight"} PROVE RetryInv'
  BY <1>4, EndsKeeps
<1>5. CASE Retrying!AbortedAtHead \/ Retrying!Rejected
  BY <1>4, <1>5 DEF Retrying!AbortedAtHead, Retrying!Rejected
<1>6. Retrying!NoHeader \in Retrying!Header
  BY BoundAssumption DEF Retrying!NoHeader, Retrying!Header
<1>7. CASE Retrying!Throws
  BY <1>4, <1>6, <1>7, SleepsKeeps DEF Retrying!Throws
<1>8. ASSUME NEW h \in Retrying!Header, Retrying!Busy(h) PROVE RetryInv'
  BY <1>4, <1>8, SleepsKeeps DEF Retrying!Busy
<1>9. CASE Retrying!Answers
  BY <1>9, EndsKeeps DEF Retrying!Answers
<1> QED BY <1>1, <1>2, <1>3, <1>5, <1>7, <1>8, <1>9 DEF Retrying!Next

(* An aborted request costs no further attempt, there are at most MaxAttempts,   *)
(* and all the waiting, a hostile Retry-After included, is within                *)
(* MaxAttempts - 1 caps (retry.ts:110-178).                                      *)
THEOREM AbortsStop == Spec => []AbortStops
<1> DEFINE Inv == part = "retry" => RetryInv
<1>1. Init => Inv
  BY SuiteInit, InitRetryInv
<1>2. Inv /\ [Next]_vars => Inv'
  BY SuiteStep, StepKeepsRetryInv
<1>3. RetryInv => Retrying!AbortStops
  <2> SUFFICES ASSUME RetryInv PROVE Retrying!AbortStops
    OBVIOUS
  <2>1. sent <= MaxAttempts /\ late = 0
    BY BoundAssumption DEF RetryInv, RetryType, Spent
  <2>2. PICK n \in Nat : n <= MaxAttempts - 1 /\ slept <= n * MaxDelay
    <3>1. CASE at = "sleep"
      BY <3>1, BoundAssumption DEF RetryInv, RetryType, Spent
    <3>2. CASE at # "sleep"
      <4>1. attempt - 1 \in Nat /\ attempt - 1 <= MaxAttempts - 1
        BY BoundAssumption DEF RetryInv, RetryType
      <4> QED BY <3>2, <4>1 DEF RetryInv, Spent
    <3> QED BY <3>1, <3>2
  <2>3. n * MaxDelay <= (MaxAttempts - 1) * MaxDelay
    BY <2>2, MoreAttempts, BoundAssumption
  <2>4. n * MaxDelay \in Nat /\ (MaxAttempts - 1) * MaxDelay \in Nat
    BY <2>2, BoundAssumption
  <2> QED BY <2>1, <2>2, <2>3, <2>4 DEF Retrying!AbortStops, RetryInv, RetryType
<1>4. Inv => AbortStops
  BY <1>3 DEF AbortStops
<1> QED BY <1>1, <1>2, <1>4, PTL DEF Spec

---------------------------------------------------------------------------
(* ModelLoad *)

LoadState == {"none", "pending", "ok", "failed"}

LoadInv ==
  /\ load \in [Loading!Load -> LoadState] /\ cache \in Loading!Load \cup {0}
  /\ Loading!OneLoad

USE DEF Loading!Load

(* Nothing is loaded at the start. *)
LEMMA InitLoadInv == Loading!Init => LoadInv
BY DEF Loading!Init, LoadInv, LoadState, Loading!OneLoad

(* A call begins a load only when none is memoized, hence none pending. *)
LEMMA CallKeeps ==
  ASSUME LoadInv, NEW c \in Caller, NEW b \in BOOLEAN, Loading!Call(c, b)
  PROVE  LoadInv'
<1>1. CASE UNCHANGED <<load, cache>>
  BY <1>1 DEF LoadInv, Loading!OneLoad
<1>2. ASSUME cache = 0, NEW l \in Loading!Load, load[l] = "none",
             load' = [load EXCEPT ![l] = "pending"], cache' = l
      PROVE  LoadInv'
  <2>1. \A k \in Loading!Load : load[k] \notin {"pending", "ok"}
    BY <1>2 DEF LoadInv, Loading!OneLoad
  <2> QED BY <1>2, <2>1 DEF LoadInv, LoadState, Loading!OneLoad
<1> QED BY <1>1, <1>2 DEF Loading!Call

(* A load that fails is the memoized one, and is evicted. *)
LEMMA FailsLoadKeeps ==
  ASSUME LoadInv, NEW l \in Loading!Load, Loading!FailsLoad(l)
  PROVE  LoadInv'
<1>1. cache = l /\ cache' = 0
  BY DEF LoadInv, Loading!OneLoad, Loading!FailsLoad
<1>2. \A k \in Loading!Load \ {l} : load[k] \notin {"pending", "ok"}
  BY <1>1 DEF LoadInv, Loading!OneLoad
<1> QED BY <1>1, <1>2 DEF LoadInv, LoadState, Loading!OneLoad, Loading!FailsLoad

LEMMA SucceedsKeeps ==
  ASSUME LoadInv, NEW l \in Loading!Load, Loading!Succeeds(l)
  PROVE  LoadInv'
<1>1. cache = l
  BY DEF LoadInv, Loading!OneLoad, Loading!Succeeds
<1> QED BY <1>1 DEF LoadInv, LoadState, Loading!OneLoad, Loading!Succeeds

LEMMA StepKeepsLoadInv ==
  LoadInv /\ [Loading!Next]_loadVars => LoadInv'
<1> SUFFICES ASSUME LoadInv, [Loading!Next]_loadVars PROVE LoadInv'
  OBVIOUS
<1>1. ASSUME NEW c \in Caller, NEW b \in BOOLEAN, Loading!Call(c, b) PROVE LoadInv'
  BY <1>1, CallKeeps
<1>2. ASSUME NEW l \in Loading!Load, Loading!Succeeds(l) \/ Loading!FailsLoad(l) PROVE LoadInv'
  BY <1>2, SucceedsKeeps, FailsLoadKeeps
<1>3. ASSUME NEW c \in Caller,
   Loading!Timeout(c) \/ Loading!Settles(c) \/ Loading!Again(c) PROVE LoadInv'
  BY <1>3 DEF Loading!Timeout, Loading!Settles, Loading!Again, LoadInv, Loading!OneLoad
<1>4. CASE Loading!SlowLoad \/ UNCHANGED loadVars
  BY <1>4 DEF Loading!SlowLoad, loadVars, LoadInv, Loading!OneLoad
<1> QED BY <1>1, <1>2, <1>3, <1>4 DEF Loading!Next

(* However calls, budgets that run out and failures interleave (local.ts:120-180), *)
(* at most one load is pending, a next call shares it, a failed one is never handed *)
(* out again, and a model once loaded is not loaded a second time.               *)
THEOREM LoadsAreShared == Spec => []OneLoad
<1> DEFINE Inv == part = "load" => LoadInv
<1>1. Init => Inv
  BY SuiteInit, InitLoadInv
<1>2. Inv /\ [Next]_vars => Inv'
  BY SuiteStep, StepKeepsLoadInv
<1>3. Inv => OneLoad
  BY DEF LoadInv, OneLoad
<1> QED BY <1>1, <1>2, <1>3, PTL DEF Spec

---------------------------------------------------------------------------
(* Installers *)

ConfigFile == [form : {"absent", "plain", "broken", "spliced"}, user : SUBSET Entry,
               ours : SUBSET (Hook \cup {"mcp"})]
InstallRun == [pc : {"idle", "plugin", "read", "backup", "write", "unlink"},
               op : {"install", "uninstall", "register", "heal"}, new : ConfigFile]
InstallersType == config \in ConfigFile /\ edit \in [Run -> InstallRun]

(* What a run is about to lose has been copied, or it is written again. *)
Copied ==
  \A r \in Run :
    edit[r].pc = "write" => mine \subseteq edit[r].new.user \cup saved \cup recent \cup excused

(* Without a second run under way, the one that writes hooks into the file has *)
(* the plugin there, and the one that removes the plugin finds none in it.     *)
Beside ==
  /\ \A q, r \in Run : edit[q].pc # "idle" /\ edit[r].pc # "idle" => q = r
  /\ target = "opencode" =>
       /\ config.ours \cap Hook # {} => plugin
       /\ \A r \in Run :
            /\ edit[r].op = "install" /\ edit[r].pc \in {"read", "backup", "write"} => plugin
            /\ edit[r].pc \in {"backup", "write"} =>
                 /\ edit[r].new.ours \cap Hook # {} => plugin
                 /\ edit[r].op = "uninstall" => edit[r].new.ours \cap Hook = {}
            /\ edit[r].pc = "unlink" => config.ours \cap Hook = {}

InstallersInv == InstallersType /\ Installing!UserConfigKept /\ Copied /\ (crossed \/ Beside)

(* What each installer makes of a file is a file; the self-heal leaves what the *)
(* user has in it.                                                         *)
LEMMA EditedFile ==
  ASSUME NEW f \in ConfigFile, NEW op, NEW exact \in BOOLEAN
  PROVE  /\ Installing!Edited(op, f, exact).file \in ConfigFile
         /\ op = "heal" /\ Installing!Edited(op, f, exact).how = "write" =>
              Installing!Edited(op, f, exact).file.user = f.user
<1> USE DEF ConfigFile, Installing!Result, Installing!Unless, Installing!With, Installing!Parsed
<1>1. /\ Installing!ClaudeInstall(f).file \in ConfigFile
      /\ Installing!ClaudeInstall(f).how = "write" => Installing!ClaudeInstall(f).file.user = f.user
      /\ Installing!ClaudeUninstall(f).file \in ConfigFile
  BY DEF Installing!ClaudeInstall, Installing!ClaudeUninstall
<1>2. /\ Installing!GeminiInstall(f, exact).file \in ConfigFile
      /\ Installing!GeminiUninstall(f, exact).file \in ConfigFile
      /\ Installing!CopilotInstall(f, exact).file \in ConfigFile
      /\ Installing!CopilotUninstall(f, exact).file \in ConfigFile
  BY DEF Installing!GeminiInstall, Installing!GeminiUninstall, Installing!CopilotInstall,
         Installing!CopilotUninstall
<1>3. /\ Installing!CodexInstall(f, exact).file \in ConfigFile
      /\ Installing!CodexUninstall(f).file \in ConfigFile
  BY DEF Installing!CodexInstall, Installing!CodexUninstall, Installing!CodexStripped
<1>4. /\ Installing!OpencodeInstall(f, exact).file \in ConfigFile
      /\ Installing!OpencodeUninstall(f, exact).file \in ConfigFile
      /\ Installing!OpencodeRegister(f, exact).file \in ConfigFile
  BY DEF Installing!OpencodeInstall, Installing!OpencodeUninstall, Installing!OpencodeRegister,
         Installing!OpencodeEdit, Installing!Server
<1>5. /\ Installing!Result("refuse", f).file \in ConfigFile
      /\ Installing!Result("refuse", f).how # "write"
  OBVIOUS
<1> QED
  <2> USE DEF Installing!Edited
  <2>1. Installing!Edited(op, f, exact).file \in ConfigFile
    BY <1>1, <1>2, <1>3, <1>4, <1>5
  <2>2. op = "heal" => \/ Installing!Edited(op, f, exact) = Installing!ClaudeInstall(f)
                       \/ Installing!Edited(op, f, exact) = Installing!Result("refuse", f)
    OBVIOUS
  <2> QED BY <1>1, <1>5, <2>1, <2>2

(* Of OpenCode's file only an installation adds hooks; an uninstallation leaves *)
(* none, or it leaves the file alone.                                       *)
LEMMA EditedHooks ==
  ASSUME NEW f \in ConfigFile, NEW op, NEW exact \in BOOLEAN, target = "opencode", op # "install"
  PROVE  /\ Installing!Edited(op, f, exact).file.ours \cap Hook # {} => f.ours \cap Hook # {}
         /\ op = "uninstall" /\ Installing!Edited(op, f, exact).how = "write" =>
              Installing!Edited(op, f, exact).file.ours = {}
         /\ op = "uninstall" /\ Installing!Edited(op, f, exact).how = "noop" =>
              f.ours = {} /\ f.form = "plain"
<1> USE DEF ConfigFile, Installing!Result, Installing!Unless, Installing!With,
            Installing!OpencodeEdit
<1>1. CASE op = "uninstall"
  <2>1. Installing!Edited(op, f, exact) = Installing!OpencodeUninstall(f, exact)
    BY <1>1 DEF Installing!Edited
  <2> QED BY <1>1, <2>1 DEF Installing!OpencodeUninstall
<1>2. CASE op = "register"
  <2>1. Installing!Edited(op, f, exact) = Installing!OpencodeRegister(f, exact)
    BY <1>2 DEF Installing!Edited
  <2> QED BY <1>2, <2>1, MarkerAssumption DEF Installing!OpencodeRegister, Installing!Server
<1>3. CASE op \notin {"uninstall", "register"}
  <2>1. Installing!Edited(op, f, exact) = Installing!Result("refuse", f)
    BY <1>3 DEF Installing!Edited
  <2> QED BY <1>3, <2>1
<1> QED BY <1>1, <1>2, <1>3

---------------------------------------------------------------------------
LEMMA InitInstallersInv == Installing!Init => InstallersInv
BY DEF Installing!Init, Installing!Absent, Installing!Idle, InstallersInv, InstallersType,
       ConfigFile, InstallRun, Installing!UserConfigKept, Copied, Beside

(* A run takes one step; Idle is where it begins and ends. *)
LEMMA IdleRun == Installing!Idle \in InstallRun /\ Installing!Idle.pc = "idle"
BY DEF Installing!Idle, Installing!Absent, InstallRun, ConfigFile

(* What is copied or excused stays so while a run moves on. *)
LEMMA KeptByRun ==
  ASSUME InstallersInv, NEW r \in Run, NEW q \in InstallRun, edit' = [edit EXCEPT ![r] = q],
         mine' = mine, config' \in ConfigFile,
         saved \cup recent \cup excused \subseteq saved' \cup recent' \cup excused',
         q.pc = "write" => mine \subseteq q.new.user \cup saved' \cup recent' \cup excused',
         mine \subseteq config'.user \cup saved' \cup recent' \cup excused'
  PROVE  InstallersType' /\ Installing!UserConfigKept' /\ Copied'
BY DEF InstallersInv, InstallersType, Installing!UserConfigKept, Copied

(* What a run that goes on alone may find and leave. *)
LEMMA BesideByRun ==
  ASSUME InstallersInv, NEW r \in Run, NEW q \in InstallRun, edit' = [edit EXCEPT ![r] = q],
         edit[r].pc # "idle" \/ ~Installing!Others(r), Beside, UNCHANGED target,
         target = "opencode" =>
           /\ config'.ours \cap Hook # {} => plugin'
           /\ q.op = "install" /\ q.pc \in {"read", "backup", "write"} => plugin'
           /\ q.pc \in {"backup", "write"} =>
                /\ q.new.ours \cap Hook # {} => plugin'
                /\ q.op = "uninstall" => q.new.ours \cap Hook = {}
           /\ q.pc = "unlink" => config'.ours \cap Hook = {}
  PROVE  Beside'
<1>1. \A p \in Run \ {r} : edit'[p] = edit[p] /\ edit[p].pc = "idle"
  BY DEF InstallersInv, InstallersType, Beside, Installing!Others
<1>2. edit'[r] = q
  BY DEF InstallersInv, InstallersType
<1> QED BY <1>1, <1>2 DEF Beside

LEMMA StartKeeps ==
  ASSUME InstallersInv, NEW r \in Run, NEW op \in Installing!Op, Installing!Start(r, op)
  PROVE  InstallersInv'
<1> DEFINE q == [Installing!Idle EXCEPT !.pc = IF target = "opencode" /\ op = "install"
                                              THEN "plugin" ELSE "read", !.op = op]
<1>1. /\ q \in InstallRun /\ q.op = op /\ q.pc \in {"plugin", "read"}
      /\ target = "opencode" /\ op = "install" => q.pc = "plugin"
  BY DEF Installing!Idle, Installing!Absent, Installing!Op, InstallRun, ConfigFile
<1>2. /\ edit' = [edit EXCEPT ![r] = q] /\ edit[r].pc = "idle"
      /\ crossed' = (crossed \/ Installing!Others(r)) /\ saved' = saved \cup recent
      /\ UNCHANGED <<target, config, plugin, mine, excused>>
  BY DEF Installing!Start, Installing!Begins
<1> HIDE DEF q
<1>3. InstallersType' /\ Installing!UserConfigKept' /\ Copied'
  BY <1>1, <1>2, KeptByRun DEF InstallersInv, InstallersType, Installing!UserConfigKept
<1>4. ASSUME ~crossed' PROVE Beside'
  <2>1. Beside /\ ~Installing!Others(r)
    BY <1>2, <1>4 DEF InstallersInv
  <2>2. config.ours \cap Hook # {} /\ target = "opencode" => plugin
    BY <2>1 DEF Beside
  <2> QED BY <1>1, <1>2, <2>1, <2>2, BesideByRun
<1> QED BY <1>3, <1>4 DEF InstallersInv

LEMMA WritePluginKeeps ==
  ASSUME InstallersInv, NEW r \in Run, Installing!WritePlugin(r)
  PROVE  InstallersInv'
<1> DEFINE q == [edit[r] EXCEPT !.pc = "read"]
<1>1. q \in InstallRun /\ q.pc = "read"
  BY DEF InstallersInv, InstallersType, InstallRun
<1>2. /\ edit' = [edit EXCEPT ![r] = q] /\ edit[r].pc = "plugin" /\ plugin'
      /\ UNCHANGED <<target, config, saved, recent, mine, excused, crossed>>
  BY DEF Installing!WritePlugin, Installing!backups
<1> HIDE DEF q
<1>3. InstallersType' /\ Installing!UserConfigKept' /\ Copied'
  BY <1>1, <1>2, KeptByRun DEF InstallersInv, InstallersType, Installing!UserConfigKept
<1>4. ASSUME ~crossed' PROVE Beside'
  <2>1. Beside
    BY <1>2, <1>4 DEF InstallersInv
  <2> QED BY <1>1, <1>2, <2>1, BesideByRun
<1> QED BY <1>3, <1>4 DEF InstallersInv

LEMMA ReadKeeps ==
  ASSUME InstallersInv, NEW r \in Run, Installing!Read(r)
  PROVE  InstallersInv'
<1>0. PICK got \in {config, Installing!Absent}, exact \in BOOLEAN, copied \in BOOLEAN :
        LET res == Installing!Edited(edit[r].op, got, exact)
        IN /\ edit' = [edit EXCEPT ![r].new = IF res.how = "write" THEN res.file ELSE Installing!Absent,
                     ![r].pc = CASE res.how = "write" -> (IF edit[r].op = "heal" THEN "write" ELSE "backup")
                                 [] res.how = "noop" -> Installing!After(r)
                                 [] OTHER -> "idle"]
           /\ saved' = IF res.how = "manual" /\ copied THEN saved \cup config.user ELSE saved
           /\ excused' = IF edit[r].op = "heal" /\ got # config THEN excused \cup config.user
                                                                ELSE excused
  BY DEF Installing!Read
<1> DEFINE res == Installing!Edited(edit[r].op, got, exact)
           place == CASE res.how = "write" -> (IF edit[r].op = "heal" THEN "write" ELSE "backup")
                   [] res.how = "noop" -> Installing!After(r)
                   [] OTHER -> "idle"
           made == IF res.how = "write" THEN res.file ELSE Installing!Absent
           q == [edit[r] EXCEPT !.new = made, !.pc = place]
<1> config \in ConfigFile /\ edit[r] \in InstallRun
  BY DEF InstallersInv, InstallersType
<1> got \in ConfigFile /\ (got = config \/ got = Installing!Absent)
  BY DEF ConfigFile, Installing!Absent
<1>1. /\ made \in ConfigFile /\ (res.how = "write" => made = res.file)
      /\ edit[r].op = "heal" /\ res.how = "write" => res.file.user = got.user
  BY EditedFile DEF ConfigFile, Installing!Absent
<1>2. /\ place \in {"idle", "unlink", "backup", "write"}
      /\ place = "write" => edit[r].op = "heal" /\ res.how = "write"
      /\ place = "backup" => res.how = "write"
      /\ place = "unlink" => res.how = "noop" /\ edit[r].op = "uninstall"
  BY DEF Installing!After
<1>3. /\ edit' = [edit EXCEPT ![r].new = made, ![r].pc = place] /\ edit[r].pc = "read"
      /\ saved \subseteq saved' /\ excused \subseteq excused'
      /\ edit[r].op = "heal" /\ got # config => config.user \subseteq excused'
      /\ UNCHANGED <<target, config, plugin, recent, mine, crossed>>
  BY <1>0 DEF Installing!Read
<1>4. /\ q \in InstallRun /\ q.pc = place /\ q.op = edit[r].op /\ q.new = made
      /\ edit' = [edit EXCEPT ![r] = q]
  BY <1>1, <1>2, <1>3 DEF InstallRun, InstallersInv, InstallersType
<1>5. target = "opencode" /\ edit[r].op # "install" =>
        /\ res.file.ours \cap Hook # {} => config.ours \cap Hook # {}
        /\ edit[r].op = "uninstall" /\ res.how = "write" => res.file.ours = {}
        /\ edit[r].op = "uninstall" /\ res.how = "noop" => config.ours = {}
  <2> SUFFICES ASSUME target = "opencode", edit[r].op # "install"
               PROVE  /\ res.file.ours \cap Hook # {} => config.ours \cap Hook # {}
                      /\ edit[r].op = "uninstall" /\ res.how = "write" => res.file.ours = {}
                      /\ edit[r].op = "uninstall" /\ res.how = "noop" => config.ours = {}
    OBVIOUS
  <2>1. /\ res.file.ours \cap Hook # {} => got.ours \cap Hook # {}
        /\ edit[r].op = "uninstall" /\ res.how = "write" => res.file.ours = {}
        /\ edit[r].op = "uninstall" /\ res.how = "noop" => got.ours = {} /\ got.form = "plain"
    BY EditedHooks
  <2>2. got.ours \cap Hook # {} \/ got.form = "plain" => got = config
    BY DEF Installing!Absent
  <2> QED BY <2>1, <2>2
<1> HIDE DEF res, place, made, q
<1>6. InstallersType' /\ Installing!UserConfigKept' /\ Copied'
  <2>1. place = "write" => mine \subseteq q.new.user \cup saved' \cup recent' \cup excused'
    <3>1. place = "write" => config.user \subseteq q.new.user \cup excused'
      BY <1>1, <1>2, <1>3, <1>4
    <3> QED BY <1>3, <3>1 DEF InstallersInv, Installing!UserConfigKept
  <2> QED BY <1>3, <1>4, <2>1, KeptByRun DEF InstallersInv, Installing!UserConfigKept
<1>7. ASSUME ~crossed' PROVE Beside'
  <2>1. Beside
    BY <1>3, <1>7 DEF InstallersInv
  <2>2. target = "opencode" =>
          /\ config.ours \cap Hook # {} => plugin
          /\ edit[r].op = "install" => plugin
    BY <1>3, <2>1 DEF Beside
  <2>3. target = "opencode" =>
          /\ place \in {"backup", "write"} =>
               /\ made.ours \cap Hook # {} => plugin
               /\ edit[r].op = "uninstall" => made.ours \cap Hook = {}
          /\ place = "unlink" => config.ours \cap Hook = {}
    BY <1>1, <1>2, <1>5, <2>2
  <2> QED BY <1>3, <1>4, <2>1, <2>2, <2>3, BesideByRun
<1> QED BY <1>6, <1>7 DEF InstallersInv

LEMMA BackupKeeps ==
  ASSUME InstallersInv, NEW r \in Run, Installing!Backup(r)
  PROVE  InstallersInv'
<1> DEFINE q == [edit[r] EXCEPT !.pc = "write"]
<1>1. /\ q \in InstallRun /\ q.pc = "write" /\ q.op = edit[r].op /\ q.new = edit[r].new
      /\ config \in ConfigFile
  BY DEF InstallersInv, InstallersType, InstallRun
<1>2. /\ edit' = [edit EXCEPT ![r] = q] /\ edit[r].pc = "backup"
      /\ UNCHANGED <<target, config, plugin, mine, crossed>>
  BY DEF Installing!Backup
<1>0. /\ saved \cup recent \cup excused \subseteq saved' \cup recent' \cup excused'
      /\ config.user \subseteq q.new.user \cup saved' \cup recent' \cup excused'
  BY <1>1 DEF Installing!Backup, Installing!backups
<1> HIDE DEF q
<1>3. InstallersType' /\ Installing!UserConfigKept' /\ Copied'
  BY <1>0, <1>1, <1>2, KeptByRun DEF InstallersInv, Installing!UserConfigKept
<1>4. ASSUME ~crossed' PROVE Beside'
  <2>1. Beside
    BY <1>2, <1>4 DEF InstallersInv
  <2>2. target = "opencode" =>
          /\ config.ours \cap Hook # {} => plugin
          /\ edit[r].op = "install" => plugin
          /\ edit[r].new.ours \cap Hook # {} => plugin
          /\ edit[r].op = "uninstall" => edit[r].new.ours \cap Hook = {}
    BY <1>2, <2>1 DEF Beside
  <2> QED BY <1>1, <1>2, <2>1, <2>2, BesideByRun
<1> QED BY <1>3, <1>4 DEF InstallersInv

LEMMA WriteKeeps ==
  ASSUME InstallersInv, NEW r \in Run, Installing!Write(r)
  PROVE  InstallersInv'
<1> DEFINE q == IF Installing!After(r) = "idle" THEN Installing!Idle
                ELSE [edit[r] EXCEPT !.pc = Installing!After(r), !.new = Installing!Absent]
<1>1. /\ q \in InstallRun /\ q.pc \in {"idle", "unlink"}
      /\ q.pc = "unlink" => edit[r].op = "uninstall"
      /\ edit[r].new \in ConfigFile
  BY IdleRun DEF InstallersInv, InstallersType, InstallRun, ConfigFile, Installing!After, Installing!Absent
<1>2. /\ edit' = [edit EXCEPT ![r] = q] /\ edit[r].pc = "write" /\ config' = edit[r].new
      /\ UNCHANGED <<target, plugin, saved, recent, mine, excused, crossed>>
  BY DEF Installing!Write, Installing!backups
<1> HIDE DEF q
<1>3. InstallersType' /\ Installing!UserConfigKept' /\ Copied'
  BY <1>1, <1>2, KeptByRun DEF InstallersInv, Copied
<1>4. ASSUME ~crossed' PROVE Beside'
  <2>1. Beside
    BY <1>2, <1>4 DEF InstallersInv
  <2>2. target = "opencode" =>
          /\ edit[r].new.ours \cap Hook # {} => plugin
          /\ edit[r].op = "uninstall" => edit[r].new.ours \cap Hook = {}
    BY <1>2, <2>1 DEF Beside
  <2> QED BY <1>1, <1>2, <2>1, <2>2, BesideByRun
<1> QED BY <1>3, <1>4 DEF InstallersInv

LEMMA UnlinkKeeps ==
  ASSUME InstallersInv, NEW r \in Run, Installing!Unlink(r) \/ Installing!Stops(r)
  PROVE  InstallersInv'
<1>1. /\ edit' = [edit EXCEPT ![r] = Installing!Idle] /\ edit[r].pc # "idle"
      /\ edit[r].pc = "unlink" \/ UNCHANGED plugin
      /\ UNCHANGED <<target, config, saved, recent, mine, excused, crossed>>
  BY DEF Installing!Unlink, Installing!Stops, Installing!backups
<1>2. InstallersType' /\ Installing!UserConfigKept' /\ Copied'
  BY <1>1, IdleRun, KeptByRun DEF InstallersInv, InstallersType, Installing!UserConfigKept
<1>3. ASSUME ~crossed' PROVE Beside'
  <2>1. Beside
    BY <1>1, <1>3 DEF InstallersInv
  <2>2. target = "opencode" /\ config.ours \cap Hook # {} => plugin'
    BY <1>1, <2>1 DEF Beside
  <2> QED BY <1>1, <2>1, <2>2, IdleRun, BesideByRun
<1> QED BY <1>2, <1>3 DEF InstallersInv

(* The user and the other programs add no hook of ours; what he saves before a *)
(* rename that will not hold it is excused.                                 *)
LEMMA EditKeeps ==
  ASSUME InstallersInv, config' \in ConfigFile, config'.ours \subseteq config.ours,
         UNCHANGED <<target, plugin, saved, recent, edit, crossed>>,
         mine' \subseteq config'.user \cup saved \cup recent \cup excused',
         (\E r \in Run : edit[r].pc = "write") =>
           excused \cap mine' \subseteq excused' /\ mine' \subseteq mine \cup excused'
  PROVE  InstallersInv'
<1>1. InstallersType' /\ Installing!UserConfigKept' /\ Copied'
  BY DEF InstallersInv, InstallersType, Installing!UserConfigKept, Copied
<1>2. crossed' \/ Beside'
  BY DEF InstallersInv, Beside
<1> QED BY <1>1, <1>2 DEF InstallersInv

LEMMA InstallersKept == InstallersInv /\ [Installing!Next]_installersVars => InstallersInv'
<1> SUFFICES ASSUME InstallersInv, [Installing!Next]_installersVars PROVE InstallersInv'
  OBVIOUS
<1> USE DEF InstallersInv, InstallersType, ConfigFile, Installing!UserConfigKept
<1>1. ASSUME NEW r \in Run,
             \/ \E op \in Installing!Op : Installing!Start(r, op)
             \/ Installing!WritePlugin(r) \/ Installing!Read(r) \/ Installing!Backup(r)
             \/ Installing!Write(r) \/ Installing!Unlink(r) \/ Installing!Stops(r)
      PROVE  InstallersInv'
  BY <1>1, StartKeeps, WritePluginKeeps, ReadKeeps, BackupKeeps, WriteKeeps, UnlinkKeeps
<1>2. ASSUME NEW e \in Entry, Installing!Add(e) PROVE InstallersInv'
  <2>1. /\ config'.user = config.user \cup {e} /\ config'.ours \subseteq config.ours
        /\ config' \in ConfigFile /\ mine' = mine \cup {e}
    BY <1>2 DEF Installing!Add, Installing!Unwritten
  <2>2. /\ excused \subseteq excused' \cup {e}
        /\ UNCHANGED <<target, plugin, saved, recent, edit, crossed>>
        /\ (\E r \in Run : edit[r].pc = "write") => excused' = excused \cup {e}
    BY <1>2 DEF Installing!Add, Installing!backups
  <2> QED BY <2>1, <2>2, EditKeeps
<1>3. ASSUME NEW e \in Entry, Installing!Remove(e) PROVE InstallersInv'
  <2>1. /\ config'.user = config.user \ {e} /\ config'.ours = config.ours
        /\ config' \in ConfigFile /\ mine' = mine \ {e} /\ excused' = excused \ {e}
        /\ UNCHANGED <<target, plugin, saved, recent, edit, crossed>>
    BY <1>3 DEF Installing!Remove, Installing!backups
  <2> QED BY <2>1, EditKeeps
<1>4. CASE Installing!Break \/ Installing!Repair
  <2>1. /\ config'.user = config.user /\ config'.ours = config.ours /\ config' \in ConfigFile
        /\ UNCHANGED <<target, plugin, saved, recent, edit, crossed, excused, mine>>
    BY <1>4 DEF Installing!Break, Installing!Repair, Installing!backups
  <2> QED BY <2>1, EditKeeps
<1>5. CASE Installing!Evict
  <2>1. /\ config'.user = config.user /\ config'.ours \subseteq config.ours /\ config' \in ConfigFile
        /\ UNCHANGED <<target, plugin, saved, recent, edit, crossed, excused, mine>>
    BY <1>5 DEF Installing!Evict, Installing!backups
  <2> QED BY <2>1, EditKeeps
<1>6. CASE UNCHANGED installersVars
  BY <1>6 DEF installersVars, Copied, Beside
<1> QED BY <1>1, <1>2, <1>3, <1>4, <1>5, <1>6 DEF Installing!Next

(* Whatever the user has written into a configuration is in the file or in a      *)
(* backup of it, for any runs of any installer, stopped anywhere; except what he  *)
(* saves between a run's last copy of the file and its rename over it, what no    *)
(* backup could read, and what was in a backup that one of the same millisecond   *)
(* overwrote (src/hooks/installer.ts, src/harness/capabilities).                  *)
THEOREM ConfigurationIsKept == Spec => []UserConfigKept
<1> DEFINE Inv == part = "installers" => InstallersInv
<1>1. Init => Inv
  BY SuiteInit, InitInstallersInv
<1>2. Inv /\ [Next]_vars => Inv'
  BY SuiteStep, InstallersKept
<1>3. Inv => UserConfigKept
  BY DEF InstallersInv, UserConfigKept
<1> QED BY <1>1, <1>2, <1>3, PTL DEF Spec

(* A run that has the configuration of OpenCode to itself never leaves it naming  *)
(* a plugin file that is not there, wherever it stops (opencode-installer.ts).    *)
THEOREM PluginStaysThere == Spec => []PluginThere
<1> DEFINE Inv == part = "installers" => InstallersInv
<1>1. Init => Inv
  BY SuiteInit, InitInstallersInv
<1>2. Inv /\ [Next]_vars => Inv'
  BY SuiteStep, InstallersKept
<1>3. Inv => PluginThere
  BY DEF InstallersInv, Beside, PluginThere, Installing!PluginThere
<1> QED BY <1>1, <1>2, <1>3, PTL DEF Spec

---------------------------------------------------------------------------
(* Setup *)

SetupRun == [pc : {"idle", "probe", "list", "change", "hook", "told", "marker", "unhook"},
             op : {"setup", "uninstall"}, tty : BOOLEAN, live : BOOLEAN,
             prior : {"none", "local", "hosted", "declined", "configured"},
             said : {"none", "unavailable", "already", "not-registered", "registered", "error", "removed"}]
SetupType ==
  /\ command \in [Run -> SetupRun]
  /\ choice \in {"none", "local", "hosted", "declined", "configured"}
  /\ person \in {"none", "local", "hosted", "declined"}

(* A marker that says what the person chose, in spite of later runs. *)
Stands(c) == c = person \/ (person = "declined" /\ c = "configured")
Standing ==
  person # "none" /\ ~behind =>
    Stands(choice) /\ \A r \in Run : SettingUp!At(r, "setup", "marker") => Stands(command[r].prior)

(* The server is only ever filed in the scope from which it is removed. *)
SetupInv == SetupType /\ Standing /\ listed \subseteq {SettingUp!AddScope}

LEMMA InitSetupInv == SettingUp!Init => SetupInv
BY DEF SettingUp!Init, SettingUp!Idle, SetupInv, SetupType, SetupRun, Standing

(* A run that does not touch the marker, nor begins to wait for the person. *)
LEMMA SetupRunKeeps ==
  ASSUME SetupInv, NEW r \in Run, NEW q \in SetupRun, command' = [command EXCEPT ![r] = q],
         UNCHANGED <<positional, choice, person, behind>>,
         q.op = "setup" /\ q.pc = "marker" => q.prior = choice,
         listed' \subseteq {SettingUp!AddScope}
  PROVE  SetupInv'
<1>1. SetupType'
  BY DEF SetupInv, SetupType
<1>2. Standing'
  BY DEF SetupInv, SetupType, Standing, Stands, SettingUp!At
<1> QED BY <1>1, <1>2 DEF SetupInv, SettingUp!AddScope

LEMMA IdleCommand == SettingUp!Idle \in SetupRun /\ SettingUp!Idle.pc = "idle"
BY DEF SettingUp!Idle, SetupRun

LEMMA BeginKeepsSetup ==
  ASSUME SetupInv, NEW r \in Run, NEW op \in {"setup", "uninstall"},
         NEW tty \in BOOLEAN, NEW live \in BOOLEAN, SettingUp!Begin(r, op, tty, live)
  PROVE  SetupInv'
<1> DEFINE q == [SettingUp!Idle EXCEPT !.pc = IF op = "setup" THEN "probe" ELSE "unhook",
                                       !.op = op, !.tty = tty, !.live = live]
<1>1. q \in SetupRun /\ q.pc # "marker"
  BY DEF SettingUp!Idle, SetupRun
<1>2. /\ command' = [command EXCEPT ![r] = q]
      /\ UNCHANGED <<positional, choice, person, behind, listed>>
  BY DEF SettingUp!Begin, SettingUp!world
<1> HIDE DEF q
<1> QED BY <1>1, <1>2, SetupRunKeeps DEF SetupInv

(* The steps that ask the command line of the harness, or the installers. *)
LEMMA ToolKeepsSetup ==
  ASSUME SetupInv, NEW r \in Run,
         \/ SettingUp!Stops(r) \/ SettingUp!Probe(r) \/ SettingUp!List(r) \/ SettingUp!Register(r)
         \/ SettingUp!Unregister(r) \/ SettingUp!InstallHooks(r) \/ SettingUp!RemoveHooks(r)
         \/ SettingUp!Done(r) \/ SettingUp!ReadChoice(r)
  PROVE  SetupInv'
<1>1. command[r] \in SetupRun /\ command \in [Run -> SetupRun]
  BY DEF SetupInv, SetupType
<1>2. /\ UNCHANGED <<positional, choice, person, behind>>
      /\ listed' \subseteq {SettingUp!AddScope}
  BY DEF SetupInv, SettingUp!Stops, SettingUp!Probe, SettingUp!List, SettingUp!Register,
         SettingUp!Unregister, SettingUp!InstallHooks, SettingUp!RemoveHooks, SettingUp!Done,
         SettingUp!ReadChoice, SettingUp!world
<1>3. \/ command' = [command EXCEPT ![r] = SettingUp!Idle]
      \/ \E place \in {"list", "change", "told", "probe"} : command' = [command EXCEPT ![r].pc = place]
      \/ \E place \in {"hook", "idle", "told"} :
         \E s \in {"unavailable", "already", "not-registered", "registered", "error", "removed"} :
           command' = [command EXCEPT ![r].pc = place, ![r].said = s]
      \/ command' = [command EXCEPT ![r].pc = "marker", ![r].prior = choice]
  BY DEF SettingUp!Stops, SettingUp!Probe, SettingUp!List, SettingUp!Register,
         SettingUp!Unregister, SettingUp!InstallHooks, SettingUp!RemoveHooks, SettingUp!Done,
         SettingUp!ReadChoice, SettingUp!Says, SettingUp!Goto
<1>4. \E q \in SetupRun : /\ command' = [command EXCEPT ![r] = q]
                          /\ q.pc = "marker" => q.prior = choice
  <2>1. CASE command' = [command EXCEPT ![r] = SettingUp!Idle]
    BY <2>1, IdleCommand
  <2>2. ASSUME NEW place \in {"list", "change", "told", "probe"},
               command' = [command EXCEPT ![r].pc = place]
        PROVE  \E q \in SetupRun : /\ command' = [command EXCEPT ![r] = q]
                                   /\ q.pc = "marker" => q.prior = choice
    <3>1. [command[r] EXCEPT !.pc = place] \in SetupRun /\ [command[r] EXCEPT !.pc = place].pc # "marker"
      BY <1>1 DEF SetupRun
    <3>2. command' = [command EXCEPT ![r] = [command[r] EXCEPT !.pc = place]]
      BY <2>2
    <3> QED BY <3>1, <3>2
  <2>3. ASSUME NEW place \in {"hook", "idle", "told"},
               NEW s \in {"unavailable", "already", "not-registered", "registered", "error", "removed"},
               command' = [command EXCEPT ![r].pc = place, ![r].said = s]
        PROVE  \E q \in SetupRun : /\ command' = [command EXCEPT ![r] = q]
                                   /\ q.pc = "marker" => q.prior = choice
    <3>1. /\ [command[r] EXCEPT !.pc = place, !.said = s] \in SetupRun
          /\ [command[r] EXCEPT !.pc = place, !.said = s].pc # "marker"
      BY <1>1 DEF SetupRun
    <3>2. command' = [command EXCEPT ![r] = [command[r] EXCEPT !.pc = place, !.said = s]]
      BY <1>1, <2>3
    <3> QED BY <3>1, <3>2
  <2>4. CASE command' = [command EXCEPT ![r].pc = "marker", ![r].prior = choice]
    <3>1. /\ [command[r] EXCEPT !.pc = "marker", !.prior = choice] \in SetupRun
          /\ [command[r] EXCEPT !.pc = "marker", !.prior = choice].prior = choice
      BY <1>1 DEF SetupInv, SetupType, SetupRun
    <3>2. command' = [command EXCEPT ![r] = [command[r] EXCEPT !.pc = "marker", !.prior = choice]]
      BY <1>1, <2>4
    <3> QED BY <3>1, <3>2
  <2> QED BY <1>3, <2>1, <2>2, <2>3, <2>4
<1> QED BY <1>2, <1>4, SetupRunKeeps

(* The marker is written from the one that was read, which still stands. *)
LEMMA RecordKeepsSetup ==
  ASSUME SetupInv, NEW r \in Run, SettingUp!RecordWithoutPrompt(r)
  PROVE  SetupInv'
<1>1. /\ command' = [command EXCEPT ![r] = SettingUp!Idle] /\ SettingUp!At(r, "setup", "marker")
      /\ UNCHANGED <<positional, person, behind, listed>>
  BY DEF SettingUp!RecordWithoutPrompt, SettingUp!world
<1>2. /\ choice' \in {"none", "local", "hosted", "declined", "configured"}
      /\ command[r].prior \in {"none", "local", "hosted", "declined", "configured"}
  BY DEF SetupInv, SetupType, SetupRun, SettingUp!RecordWithoutPrompt
<1>3. SetupType'
  BY <1>1, <1>2, IdleCommand DEF SetupInv, SetupType
<1>4. Standing'
  <2>1. SUFFICES ASSUME person # "none", ~behind PROVE Standing'
    BY <1>1 DEF Standing
  <2>2. Stands(choice) /\ Stands(command[r].prior)
    BY <1>1, <2>1 DEF SetupInv, Standing
  <2>3. \/ choice' = command[r].prior \/ choice' = choice
        \/ choice' = "configured" /\ command[r].prior \notin {"local", "hosted"}
        \/ command[r].prior = "none"
    BY DEF SettingUp!RecordWithoutPrompt
  <2>4. Stands(choice')
    BY <1>2, <2>1, <2>2, <2>3 DEF SetupInv, SetupType, Stands
  <2>5. \A q \in Run : SettingUp!At(q, "setup", "marker")' => Stands(command[q].prior)'
    BY <1>1, <2>1, IdleCommand DEF SetupInv, SetupType, Standing, Stands, SettingUp!At
  <2> QED BY <1>1, <2>4, <2>5 DEF Standing, Stands
<1> QED BY <1>1, <1>3, <1>4 DEF SetupInv, SettingUp!AddScope

LEMMA InterviewKeepsSetup ==
  ASSUME SetupInv, NEW r \in Run, NEW pick, SettingUp!Interview(r, pick)
  PROVE  SetupInv'
<1>1. /\ command' = [command EXCEPT ![r] = SettingUp!Idle]
      /\ pick \in {"local", "hosted", "declined"} /\ choice' = pick /\ person' = pick
      /\ behind' = \E q \in Run \ {r} : SettingUp!At(q, "setup", "marker")
      /\ UNCHANGED <<positional, listed>>
  BY DEF SettingUp!Interview, SettingUp!world
<1>2. SetupType'
  BY <1>1, IdleCommand DEF SetupInv, SetupType
<1>3. ~behind' => \A q \in Run : ~SettingUp!At(q, "setup", "marker")'
  BY <1>1, IdleCommand DEF SetupInv, SetupType, SettingUp!At
<1> QED BY <1>1, <1>2, <1>3 DEF SetupInv, Standing, Stands, SettingUp!AddScope

LEMMA SetupKept == SetupInv /\ [SettingUp!Next]_setupVars => SetupInv'
<1> SUFFICES ASSUME SetupInv, [SettingUp!Next]_setupVars PROVE SetupInv'
  OBVIOUS
<1>1. ASSUME NEW r \in Run,
             \E op \in {"setup", "uninstall"}, tty, live \in BOOLEAN : SettingUp!Begin(r, op, tty, live)
      PROVE  SetupInv'
  BY <1>1, BeginKeepsSetup
<1>2. ASSUME NEW r \in Run, NEW pick, SettingUp!Interview(r, pick) PROVE SetupInv'
  BY <1>2, InterviewKeepsSetup
<1>3. CASE SettingUp!InstallsCli \/ UNCHANGED setupVars
  <2>1. UNCHANGED <<positional, listed, choice, command, person, behind>>
    BY <1>3 DEF SettingUp!InstallsCli, SettingUp!world, setupVars
  <2> QED BY <2>1 DEF SetupInv, SetupType, Standing, Stands, SettingUp!At, SettingUp!AddScope
<1> QED BY <1>1, <1>2, <1>3, ToolKeepsSetup, RecordKeepsSetup DEF SettingUp!Next

(* The step in which a run tells of the registration. *)
LEMMA TellsTruth ==
  ASSUME SetupInv, [SettingUp!Next]_setupVars
  PROVE  SettingUp!Truthful
<1> SUFFICES ASSUME NEW r \in Run, ~similar
             PROVE  /\ SettingUp!Told(r) \in {"registered", "already"} => listed' # {}
                    /\ SettingUp!Told(r) \in {"removed", "not-registered"} => listed' = {}
  BY DEF SettingUp!Truthful
<1> command \in [Run -> SetupRun]
  BY DEF SetupInv, SetupType
<1>1. CASE SettingUp!Told(r) = "none"
  BY <1>1
<1>2. CASE SettingUp!Told(r) # "none"
  <2>1. /\ command'[r].pc # "idle" /\ command'[r].said # command[r].said
        /\ SettingUp!Told(r) = command'[r].said /\ command'[r].said # "none"
    BY <1>2 DEF SettingUp!Told
  <2>2. \/ SettingUp!Probe(r) \/ SettingUp!List(r) \/ SettingUp!Register(r)
        \/ SettingUp!Unregister(r)
    <3>1. command' # command
      BY <2>1
    <3>2. ASSUME NEW q \in Run, command' = [command EXCEPT ![q] = SettingUp!Idle] PROVE FALSE
      BY <2>1, <3>2 DEF SettingUp!Idle
    <3>3. ASSUME NEW q \in Run, NEW p \in SetupRun, p.said = "none",
                 command' = [command EXCEPT ![q] = p]
          PROVE  FALSE
      BY <2>1, <3>3
    <3>4. ASSUME NEW q \in Run, NEW op \in {"setup", "uninstall"}, NEW tty \in BOOLEAN,
                 NEW live \in BOOLEAN, SettingUp!Begin(q, op, tty, live)
          PROVE  FALSE
      BY <2>1, <3>4 DEF SettingUp!Begin, SettingUp!Idle, SetupRun
    <3>5. ASSUME NEW q \in Run,
                 SettingUp!InstallHooks(q) \/ SettingUp!RemoveHooks(q) \/ SettingUp!ReadChoice(q)
          PROVE  FALSE
      BY <2>1, <3>2, <3>5 DEF SettingUp!InstallHooks, SettingUp!RemoveHooks,
                              SettingUp!ReadChoice, SettingUp!Goto, SetupRun
    <3>6. ASSUME NEW q \in Run, q # r,
                 SettingUp!Probe(q) \/ SettingUp!List(q) \/ SettingUp!Register(q) \/ SettingUp!Unregister(q)
          PROVE  FALSE
      BY <2>1, <3>6 DEF SettingUp!Probe, SettingUp!List, SettingUp!Register,
                        SettingUp!Unregister, SettingUp!Goto, SettingUp!Says
    <3>7. \A q \in Run : ~SettingUp!Stops(q) /\ ~SettingUp!Done(q) /\ ~SettingUp!RecordWithoutPrompt(q)
                         /\ \A pick : ~SettingUp!Interview(q, pick)
      BY <3>2 DEF SettingUp!Stops, SettingUp!Done, SettingUp!RecordWithoutPrompt, SettingUp!Interview
    <3>8. ~SettingUp!InstallsCli /\ ~UNCHANGED setupVars
      BY <3>1 DEF SettingUp!InstallsCli, setupVars
    <3> QED BY <3>4, <3>5, <3>6, <3>7, <3>8 DEF SettingUp!Next
  <2>3. CASE SettingUp!Probe(r)
    BY <2>1, <2>3 DEF SettingUp!Probe, SettingUp!Goto, SettingUp!Says, SetupRun
  <2>4. CASE SettingUp!List(r)
    BY <2>1, <2>4 DEF SettingUp!List, SettingUp!Shows, SettingUp!Goto,
                           SettingUp!Says, SetupRun
  <2>5. CASE SettingUp!Register(r)
    BY <2>1, <2>5 DEF SettingUp!Register, SettingUp!Says, SetupRun
  <2>6. CASE SettingUp!Unregister(r)
    BY <2>1, <2>6 DEF SetupInv, SettingUp!Unregister, SettingUp!Says, SettingUp!AddScope,
                           SettingUp!RemoveScope, SetupRun
  <2> QED BY <2>2, <2>3, <2>4, <2>5, <2>6
<1> QED BY <1>1, <1>2

(* "A scripted re-run never clobbers a real choice" (setup.ts:447-450): after an   *)
(* interview the marker is what the person chose in it, for any number of runs,    *)
(* unless a run had read the marker before the interview ended.                   *)
THEOREM ChoicesStand == Spec => []ChoiceStands
<1> DEFINE Inv == part = "setup" => SetupInv
<1>1. Init => Inv
  BY SuiteInit, InitSetupInv
<1>2. Inv /\ [Next]_vars => Inv'
  BY SuiteStep, SetupKept
<1>3. Inv => ChoiceStands
  BY DEF SetupInv, Standing, Stands, ChoiceStands, SettingUp!ChoiceStands
<1> QED BY <1>1, <1>2, <1>3, PTL DEF Spec

(* What `abs setup` and `abs uninstall` tell of the MCP server is so when they     *)
(* tell it (src/cli/setup.ts, src/cli/cli.ts): the scope it is removed from is     *)
(* the one it was filed in.                                                     *)
THEOREM ToldTruly == Spec => SaidSo
<1> DEFINE Inv == part = "setup" => SetupInv
<1>1. Init => Inv
  BY SuiteInit, InitSetupInv
<1>2. Inv /\ [Next]_vars => Inv'
  BY SuiteStep, SetupKept
<1>3. Inv /\ [Next]_vars => [part = "setup" => SettingUp!Truthful]_vars
  BY SuiteStep, TellsTruth
<1> QED BY <1>1, <1>2, <1>3, PTL DEF Spec, SaidSo

---------------------------------------------------------------------------
(* Transcripts *)

LineShape == [type : {"cwd", "item", "event", "other"}, text : Text \cup {"empty"},
              cwd : Cwd \cup {"dir"}]
ParserRun == [pc : {"idle", "reading", "cursor"}, at : Nat, cwd : Cwd \cup {"dir"},
              observed : Cwd \cup {"dir"}, armed : Text \cup {"empty"},
              seen : SUBSET (Text \cup {"empty"})]
TranscriptsType ==
  /\ harness \in {"claude-code", "codex", "copilot"}
  /\ lines \in Seq(LineShape) /\ run \in ParserRun
  /\ cursor \in Nat /\ hint \in Cwd \cup {"dir"} /\ born \in Nat /\ deletes \in Nat
  /\ cursor <= Len(lines) /\ run.at <= Len(lines) /\ born <= Len(lines)
  /\ run.pc # "idle" => cursor <= run.at
  /\ label # "none" => 1 <= born

(* What the harnesses write: a directory line is no turn and names one; Claude *)
(* Code has it on every line, Codex on a line of its own that leads.           *)
Written ==
  \A i \in 1..Len(lines) :
    /\ lines[i].type = "cwd" => lines[i].text = "empty" /\ lines[i].cwd \in Cwd
    /\ harness # "claude-code" /\ lines[i].type # "cwd" => lines[i].cwd = "dir"
    /\ harness = "codex" /\ lines[i].type = "cwd" => i = 1

(* The parser knows of the lines it has read the last item, with no turn since, *)
(* and the texts it has seen.                                               *)
Remembers ==
  /\ run.armed # "empty" =>
       \E j \in 1..run.at : /\ lines[j].type = "item" /\ lines[j].text = run.armed
                            /\ \A k \in (j + 1)..run.at : ~Parsing!Says(k)
  /\ \A t \in run.seen : \E j \in 1..run.at : lines[j].text = t

(* No turn is lost before the cursor, nor among the lines of the present run.  *)
Complete ==
  deletes = 0 =>
    \A i \in 1..Len(lines) : (i <= cursor \/ i <= run.at) /\ Parsing!Turn(i) => i \in stored

(* The directory in force after n lines of a transcript that names it seldom. *)
Named(n) == {j \in 1..n : lines[j].type = "cwd"}
Last(S) == CHOOSE j \in S : \A k \in S : k <= j
Ruling(n) == IF Named(n) = {} THEN "dir" ELSE lines[Last(Named(n))].cwd

(* d is that directory, or no turn is filed under d, or it is one that was read *)
(* by a run that ended before it kept its cursor.                            *)
Right(d, n) ==
  \/ d = Ruling(n)
  \/ harness = "codex" /\ n = 0 /\ lines # <<>> /\ lines[1].type = "cwd"
  \/ harness = "copilot" /\ replayed /\ d \in Cwd

Directed ==
  harness # "claude-code" =>
    /\ run.pc # "cursor" => Right(hint, cursor)
    /\ run.pc = "reading" => /\ Right(run.cwd, run.at)
                             /\ run.cwd = IF run.observed = "dir" THEN hint ELSE run.observed
    /\ run.pc = "cursor" => Right(hint, run.at)

TranscriptsInv ==
  TranscriptsType /\ Written /\ Remembers /\ Complete /\ Directed /\ Parsing!FiledRight

---------------------------------------------------------------------------
(* A set of numbers up to n that is not empty has a greatest. *)
LEMMA GreatestExists ==
  ASSUME NEW n \in Nat, NEW S \in SUBSET (1..n), S # {}
  PROVE  \E x \in S : \A y \in S : y <= x
<1> DEFINE R == OpToRel(<, Nat)
           T == {m \in Nat : \E x \in S : m = n - x}
<1>1. IsWellFoundedOn(R, Nat)
  BY NatLessThanWellFounded
<1>2. ASSUME NEW x \in Nat, NEW y \in Nat, y < x PROVE <<y, x>> \in R
  BY <1>2 DEF OpToRel
<1>4. \A x \in S : n - x \in T
  OBVIOUS
<1>3. T \in SUBSET Nat /\ T # {}
  <2>1. PICK x \in S : TRUE
    OBVIOUS
  <2> QED BY <1>4, <2>1
<1> HIDE DEF R
<1>5. PICK m \in T : \A k \in T : ~ (<<k, m>> \in R)
  <2> HIDE DEF T
  <2> QED BY <1>1, <1>3, WFMin
<1>6. PICK x \in S : m = n - x
  OBVIOUS
<1>7. ASSUME NEW y \in S PROVE y <= x
  <2>1. n - y \in T /\ n - y \in Nat /\ m \in Nat
    BY <1>4
  <2>2. ~(n - y < m)
    BY <1>2, <1>5, <2>1
  <2>3. x \in Nat /\ y \in Nat
    OBVIOUS
  <2> QED BY <1>6, <2>1, <2>2, <2>3
<1> QED BY <1>7

(* The directory in force, from one line to the next. *)
LEMMA RulingNext ==
  ASSUME TranscriptsType, NEW n \in Nat, n < Len(lines)
  PROVE  Ruling(n + 1) = IF lines[n + 1].type = "cwd" THEN lines[n + 1].cwd ELSE Ruling(n)
<1>1. CASE lines[n + 1].type # "cwd"
  <2>1. Named(n + 1) = Named(n)
    BY <1>1 DEF Named
  <2> QED BY <1>1, <2>1 DEF Ruling
<1>2. CASE lines[n + 1].type = "cwd"
  <2>1. n + 1 \in Named(n + 1) /\ Named(n + 1) \subseteq 1..(n + 1)
    BY <1>2 DEF Named
  <2>2. \A j \in Named(n + 1) : (\A k \in Named(n + 1) : k <= j) <=> j = n + 1
    BY <2>1
  <2>3. Last(Named(n + 1)) = n + 1
    BY <2>1, <2>2 DEF Last
  <2> QED BY <1>2, <2>1, <2>3 DEF Ruling
<1> QED BY <1>1, <1>2

(* Storage is no directory of a line, so that no line names one. *)
LEMMA RulingNone ==
  ASSUME TranscriptsType, Written, NEW n \in Nat, n <= Len(lines)
  PROVE  /\ Ruling(n) = "dir" <=> Named(n) = {}
         /\ Ruling(n) \in Cwd \cup {"dir"}
<1>1. CASE Named(n) = {}
  BY <1>1 DEF Ruling
<1>2. CASE Named(n) # {}
  <2>1. Named(n) \in SUBSET (1..n)
    BY DEF Named
  <2>2. \E j \in Named(n) : \A k \in Named(n) : k <= j
    BY <1>2, <2>1, GreatestExists
  <2> DEFINE g == Last(Named(n))
  <2>3. g \in Named(n)
    BY <2>2 DEF Last
  <2>4. Ruling(n) = lines[g].cwd
    BY <1>2 DEF Ruling
  <2> HIDE DEF g
  <2>5. lines[g].cwd \in Cwd
    BY <2>3 DEF Named, Written, TranscriptsType
  <2> QED BY <1>2, <2>4, <2>5, MarkerAssumption
<1> QED BY <1>1, <1>2

(* Codex has one directory line at most, its first. *)
LEMMA RulingCodex ==
  ASSUME TranscriptsType, Written, harness = "codex", NEW m \in Nat, NEW n \in Nat,
         m <= n, n <= Len(lines)
  PROVE  \/ Ruling(m) = Ruling(n)
         \/ m = 0 /\ lines # <<>> /\ lines[1].type = "cwd"
<1>1. \A j \in Named(n) : j = 1 /\ lines[1].type = "cwd" /\ lines # <<>>
  BY DEF Named, Written, TranscriptsType
<1>2. CASE m = 0
  <2>1. Named(m) = {}
    BY <1>2 DEF Named
  <2>2. CASE Named(n) = {}
    BY <2>1, <2>2 DEF Ruling
  <2>3. CASE Named(n) # {}
    BY <1>1, <1>2, <2>3
  <2> QED BY <2>2, <2>3
<1>3. CASE m # 0
  <2>1. Named(m) = Named(n)
    BY <1>1, <1>3 DEF Named
  <2> QED BY <2>1 DEF Ruling
<1> QED BY <1>2, <1>3

(* A transcript only grows. *)
LEMMA Grows ==
  ASSUME TranscriptsType, NEW l \in LineShape, lines' = Append(lines, l), UNCHANGED harness
  PROVE  /\ lines' \in Seq(LineShape) /\ Len(lines') = Len(lines) + 1 /\ lines' # <<>>
         /\ \A i \in 1..Len(lines) : lines'[i] = lines[i]
         /\ lines'[Len(lines) + 1] = l
         /\ \A n \in Nat : n <= Len(lines) => Ruling(n)' = Ruling(n)
         /\ \A i \in 1..Len(lines) : /\ Parsing!Says(i)' = Parsing!Says(i)
                                     /\ Parsing!Turn(i)' = Parsing!Turn(i)
                                     /\ Parsing!InForce(i)' = Parsing!InForce(i)
<1>1. /\ lines' \in Seq(LineShape) /\ Len(lines') = Len(lines) + 1 /\ lines' # <<>>
      /\ \A i \in 1..Len(lines) : lines'[i] = lines[i]
      /\ lines'[Len(lines) + 1] = l
  BY DEF TranscriptsType
<1>2. \A n \in Nat : n <= Len(lines) => Ruling(n)' = Ruling(n)
  <2>1. SUFFICES ASSUME NEW n \in Nat, n <= Len(lines) PROVE Ruling(n)' = Ruling(n)
    OBVIOUS
  <2>2. Named(n)' = Named(n)
    BY <1>1, <2>1 DEF Named, TranscriptsType
  <2>3. CASE Named(n) = {}
    BY <2>2, <2>3 DEF Ruling
  <2>4. CASE Named(n) # {}
    <3>1. Named(n) \in SUBSET (1..n)
      BY DEF Named
    <3>2. \E j \in Named(n) : \A k \in Named(n) : k <= j
      BY <2>4, <3>1, GreatestExists
    <3> DEFINE g == Last(Named(n))
    <3>3. g \in 1..Len(lines)
      BY <2>1, <3>1, <3>2 DEF TranscriptsType, Last
    <3>4. Ruling(n) = lines[g].cwd /\ Ruling(n)' = lines'[g].cwd
      BY <2>2, <2>4 DEF Ruling
    <3> HIDE DEF g
    <3> QED BY <1>1, <3>3, <3>4
  <2> QED BY <2>3, <2>4
<1>3. ASSUME NEW i \in 1..Len(lines)
      PROVE  /\ Parsing!Says(i)' = Parsing!Says(i) /\ Parsing!Turn(i)' = Parsing!Turn(i)
             /\ Parsing!InForce(i)' = Parsing!InForce(i)
  <2>1. /\ i \in Nat /\ i <= Len(lines) /\ lines'[i] = lines[i]
        /\ \A j \in 1..(i - 1) : lines'[j] = lines[j]
    <3>1. Len(lines) \in Nat /\ \A j \in 1..Len(lines) : lines'[j] = lines[j]
      BY <1>1
    <3>2. i \in Nat /\ i <= Len(lines) /\ \A j \in 1..(i - 1) : j \in 1..Len(lines)
      BY <1>3, <3>1
    <3> QED BY <1>3, <3>1, <3>2
  <2>2. Parsing!Says(i)' = Parsing!Says(i)
    BY <2>1 DEF Parsing!Says
  <2>3. Parsing!Mirror(i)' = Parsing!Mirror(i)
    BY <2>1, SMTT(30) DEF Parsing!Mirror, Parsing!Says
  <2>4. Parsing!Repeat(i)' = Parsing!Repeat(i)
    BY <2>1 DEF Parsing!Repeat
  <2>5. Parsing!InForce(i)' = Parsing!InForce(i)
    <3>1. harness # "claude-code" =>
            Parsing!InForce(i) = Ruling(i) /\ Parsing!InForce(i)' = Ruling(i)'
      BY DEF Parsing!InForce, Ruling, Named, Last, Parsing!Storage
    <3>2. harness = "claude-code" =>
            Parsing!InForce(i) = lines[i].cwd /\ Parsing!InForce(i)' = lines'[i].cwd
      BY DEF Parsing!InForce
    <3> QED BY <1>2, <2>1, <3>1, <3>2
  <2> QED BY <2>2, <2>3, <2>4, <2>5 DEF Parsing!Turn
<1> QED BY <1>1, <1>2, <1>3

---------------------------------------------------------------------------
LEMMA InitTranscriptsInv == Parsing!Init => TranscriptsInv
<1> SUFFICES ASSUME Parsing!Init PROVE TranscriptsInv
  OBVIOUS
<1> USE DEF Parsing!Init, Parsing!Idle, Parsing!Storage, Parsing!Nothing
<1>1. TranscriptsType
  BY DEF TranscriptsType, ParserRun, Parsing!Harness
<1>2. Written /\ Remembers /\ Complete
  BY DEF Written, Remembers, Complete
<1>3. Directed
  <2>1. Named(0) = {}
    BY DEF Named
  <2> QED BY <2>1 DEF Directed, Right, Ruling
<1> QED BY <1>1, <1>2, <1>3 DEF TranscriptsInv, Parsing!FiledRight

LEMMA WriteLineKeeps ==
  ASSUME TranscriptsInv, NEW l \in Parsing!Line \cup Parsing!ClaudeLine, Parsing!Write(l)
  PROVE  TranscriptsInv'
<1> TranscriptsType /\ Written
  BY DEF TranscriptsInv
<1>1. /\ l \in LineShape
      /\ l.type = "cwd" => l.text = "empty" /\ l.cwd \in Cwd
      /\ harness # "claude-code" /\ l.type # "cwd" => l.cwd = "dir"
      /\ harness = "codex" /\ l.type = "cwd" => Len(lines) = 0
  BY DEF Parsing!Write, Parsing!Line, Parsing!ClaudeLine, Parsing!Storage, Parsing!Nothing,
         LineShape, TranscriptsType
<1>2. /\ lines' = Append(lines, l)
      /\ UNCHANGED <<harness, cursor, hint, label, born, stored, run, deletes, replayed>>
  BY DEF Parsing!Write, Parsing!session
<1>3. /\ lines' \in Seq(LineShape) /\ Len(lines') = Len(lines) + 1 /\ lines' # <<>>
      /\ \A i \in 1..Len(lines) : lines'[i] = lines[i]
      /\ lines'[Len(lines) + 1] = l
      /\ \A n \in Nat : n <= Len(lines) => Ruling(n)' = Ruling(n)
      /\ \A i \in 1..Len(lines) : /\ Parsing!Says(i)' = Parsing!Says(i)
                                  /\ Parsing!Turn(i)' = Parsing!Turn(i)
                                  /\ Parsing!InForce(i)' = Parsing!InForce(i)
  BY <1>1, <1>2, Grows
<1>4. /\ Len(lines) \in Nat /\ run.at \in Nat /\ run.at <= Len(lines)
      /\ cursor \in Nat /\ cursor <= Len(lines) /\ born \in Nat /\ born <= Len(lines)
      /\ label # "none" => 1 <= born
  BY DEF TranscriptsType, ParserRun
<1>5. TranscriptsType'
  BY <1>2, <1>3, <1>4 DEF TranscriptsType
<1>6. Written'
  <2>1. ASSUME NEW i \in 1..Len(lines')
        PROVE  /\ lines'[i].type = "cwd" => lines'[i].text = "empty" /\ lines'[i].cwd \in Cwd
               /\ harness' # "claude-code" /\ lines'[i].type # "cwd" => lines'[i].cwd = "dir"
               /\ harness' = "codex" /\ lines'[i].type = "cwd" => i = 1
    <3>1. CASE i \in 1..Len(lines)
      BY <1>2, <1>3, <3>1 DEF Written
    <3>2. CASE i = Len(lines) + 1
      BY <1>1, <1>2, <1>3, <1>4, <3>2
    <3> QED BY <1>3, <1>4, <3>1, <3>2
  <2> QED BY <2>1 DEF Written
<1>7. Remembers'
  <2>1. \A j \in 1..run.at : lines'[j] = lines[j] /\ Parsing!Says(j)' = Parsing!Says(j)
    BY <1>3, <1>4
  <2>2. ASSUME run.armed # "empty"
        PROVE  \E j \in 1..run.at : /\ lines'[j].type = "item" /\ lines'[j].text = run.armed
                                    /\ \A k \in (j + 1)..run.at : ~Parsing!Says(k)'
    <3>1. PICK j \in 1..run.at : /\ lines[j].type = "item" /\ lines[j].text = run.armed
                                 /\ \A k \in (j + 1)..run.at : ~Parsing!Says(k)
      BY <2>2 DEF TranscriptsInv, Remembers
    <3>2. \A k \in (j + 1)..run.at : k \in 1..run.at
      BY <1>4, <3>1
    <3> QED BY <2>1, <3>1, <3>2
  <2>3. \A t \in run.seen : \E j \in 1..run.at : lines'[j].text = t
    BY <2>1 DEF TranscriptsInv, Remembers
  <2> QED BY <1>2, <2>2, <2>3 DEF Remembers
<1>8. Complete'
  <2>1. ASSUME deletes = 0, NEW i \in 1..Len(lines'), i <= cursor \/ i <= run.at, Parsing!Turn(i)'
        PROVE  i \in stored
    <3>1. i \in 1..Len(lines)
      BY <1>3, <1>4, <2>1
    <3> QED BY <1>3, <2>1, <3>1 DEF TranscriptsInv, Complete
  <2> QED BY <1>2, <2>1 DEF Complete
<1>9. Directed'
  <2>1. ASSUME NEW d, NEW n \in Nat, n <= Len(lines), Right(d, n) PROVE Right(d, n)'
    <3>1. CASE d = Ruling(n)
      BY <1>3, <2>1, <3>1 DEF Right
    <3>2. CASE harness = "codex" /\ n = 0 /\ lines # <<>> /\ lines[1].type = "cwd"
      <4>1. 1 \in 1..Len(lines)
        BY <3>2 DEF TranscriptsType
      <4> QED BY <1>2, <1>3, <3>2, <4>1 DEF Right
    <3>3. CASE harness = "copilot" /\ replayed /\ d \in Cwd
      BY <1>2, <3>3 DEF Right
    <3> QED BY <2>1, <3>1, <3>2, <3>3 DEF Right
  <2>2. \A d : /\ Right(d, cursor) => Right(d, cursor)'
               /\ Right(d, run.at) => Right(d, run.at)'
    <3>1. \A d, n : n \in Nat /\ n <= Len(lines) /\ Right(d, n) => Right(d, n)'
      BY <2>1
    <3> QED BY <1>2, <1>3, <1>4, <3>1 DEF Right
  <2> QED BY <1>2, <2>2 DEF TranscriptsInv, Directed
<1>10. Parsing!FiledRight'
  <2>1. label # "none" => born \in 1..Len(lines)
    BY <1>4
  <2> QED BY <1>2, <1>3, <2>1 DEF TranscriptsInv, Parsing!FiledRight
<1> QED BY <1>5, <1>6, <1>7, <1>8, <1>9, <1>10 DEF TranscriptsInv

(* The steps of the user and of an ingestion that read no line. *)
LEMMA BetweenLinesKeeps ==
  ASSUME TranscriptsInv,
         \/ Parsing!DeleteSession \/ Parsing!Begin \/ Parsing!KeepCwd
         \/ Parsing!KeepCursor \/ Parsing!Stops
  PROVE  TranscriptsInv'
<1> TranscriptsType /\ Written
  BY DEF TranscriptsInv
<1>1. UNCHANGED <<harness, lines>>
  BY DEF Parsing!DeleteSession, Parsing!Begin, Parsing!KeepCwd, Parsing!KeepCursor, Parsing!Stops
<1>2. /\ Written'
      /\ \A n : Ruling(n)' = Ruling(n)
      /\ \A i : Parsing!Says(i)' = Parsing!Says(i) /\ Parsing!Turn(i)' = Parsing!Turn(i)
                /\ Parsing!InForce(i)' = Parsing!InForce(i)
  BY <1>1 DEF Written, Ruling, Named, Parsing!Says, Parsing!Turn, Parsing!Mirror,
              Parsing!Repeat, Parsing!InForce
<1> USE DEF TranscriptsType, ParserRun, Parsing!Idle, Parsing!Storage, Parsing!Nothing
<1>3. CASE Parsing!DeleteSession
  <2>1. /\ UNCHANGED <<harness, lines, cursor, hint, run, replayed>>
        /\ label' = "none" /\ born' = 0 /\ stored' = {} /\ deletes' = deletes + 1
    BY <1>3 DEF Parsing!DeleteSession
  <2>2. TranscriptsType' /\ Complete'
    BY <2>1 DEF Complete
  <2>3. Remembers' /\ Directed' /\ Parsing!FiledRight'
    BY <1>2, <2>1 DEF TranscriptsInv, Remembers, Directed, Right, Parsing!FiledRight
  <2> QED BY <1>2, <2>2, <2>3 DEF TranscriptsInv
<1>4. CASE Parsing!Begin
  <2>1. /\ UNCHANGED <<harness, lines, cursor, hint, label, born, stored, deletes, replayed>>
        /\ run.pc = "idle" /\ run' = [Parsing!Idle EXCEPT !.pc = "reading", !.at = cursor, !.cwd = hint]
    BY <1>4 DEF Parsing!Begin, Parsing!session
  <2>2. /\ run' \in ParserRun /\ run'.pc = "reading" /\ run'.at = cursor /\ run'.cwd = hint
        /\ run'.observed = "dir" /\ run'.armed = "empty" /\ run'.seen = {}
    BY <2>1
  <2>3. TranscriptsType' /\ Complete' /\ Remembers'
    BY <1>2, <2>1, <2>2 DEF TranscriptsInv, Complete, Remembers
  <2>4. Directed' /\ Parsing!FiledRight'
    BY <1>2, <2>1, <2>2 DEF TranscriptsInv, Directed, Right, Parsing!FiledRight
  <2> QED BY <1>2, <2>3, <2>4 DEF TranscriptsInv
<1>5. CASE Parsing!KeepCwd
  <2>1. /\ UNCHANGED <<harness, lines, cursor, label, born, stored, deletes, replayed>>
        /\ run.pc = "reading" /\ run' = [run EXCEPT !.pc = "cursor"]
        /\ hint' = IF run.observed = "dir" THEN hint ELSE run.observed
    BY <1>5 DEF Parsing!KeepCwd, Parsing!session
  <2>2. /\ run' \in ParserRun /\ run'.pc = "cursor" /\ run'.at = run.at
        /\ run'.armed = run.armed /\ run'.seen = run.seen
    BY <2>1
  <2>3. TranscriptsType' /\ Complete' /\ Remembers'
    BY <1>2, <2>1, <2>2 DEF TranscriptsInv, Complete, Remembers
  <2>4. Directed' /\ Parsing!FiledRight'
    BY <1>2, <2>1, <2>2 DEF TranscriptsInv, Directed, Right, Parsing!FiledRight
  <2> QED BY <1>2, <2>3, <2>4 DEF TranscriptsInv
<1>6. CASE Parsing!KeepCursor
  <2>1. /\ UNCHANGED <<harness, lines, hint, label, born, stored, deletes, replayed>>
        /\ run.pc = "cursor" /\ run' = Parsing!Idle /\ cursor' = run.at
    BY <1>6 DEF Parsing!KeepCursor, Parsing!session
  <2>2. /\ run' \in ParserRun /\ run'.pc = "idle" /\ run'.at = 0
        /\ run'.armed = "empty" /\ run'.seen = {}
    BY <2>1
  <2>3. TranscriptsType' /\ Complete' /\ Remembers'
    BY <1>2, <2>1, <2>2 DEF TranscriptsInv, Complete, Remembers
  <2>4. Directed' /\ Parsing!FiledRight'
    BY <1>2, <2>1, <2>2 DEF TranscriptsInv, Directed, Right, Parsing!FiledRight
  <2> QED BY <1>2, <2>3, <2>4 DEF TranscriptsInv
<1>7. CASE Parsing!Stops
  <2>1. /\ UNCHANGED <<harness, lines, cursor, hint, label, born, stored, deletes>>
        /\ run' = Parsing!Idle /\ replayed' = (replayed \/ run.pc = "cursor")
    BY <1>7 DEF Parsing!Stops, Parsing!session
  <2>2. /\ run' \in ParserRun /\ run'.pc = "idle" /\ run'.at = 0
        /\ run'.armed = "empty" /\ run'.seen = {}
    BY <2>1
  <2>3. TranscriptsType' /\ Complete' /\ Remembers'
    BY <1>2, <2>1, <2>2 DEF TranscriptsInv, Complete, Remembers
  <2>4. Parsing!FiledRight'
    BY <1>2, <2>1 DEF TranscriptsInv, Parsing!FiledRight
  <2>5. ASSUME harness # "claude-code" PROVE Right(hint, cursor)'
    <3>1. CASE run.pc # "cursor"
      BY <1>2, <2>1, <2>5, <3>1 DEF TranscriptsInv, Directed, Right
    <3>2. CASE run.pc = "cursor"
      <4>1. Right(hint, run.at) /\ run.at \in Nat /\ cursor <= run.at /\ run.at <= Len(lines)
        BY <2>5, <3>2 DEF TranscriptsInv, Directed
      <4>2. CASE harness = "copilot" /\ hint \in Cwd
        BY <2>1, <3>2, <4>2 DEF Right
      <4>3. CASE harness # "codex" /\ hint = "dir"
        <5>1. Ruling(run.at) = "dir"
          BY <4>1, <4>3, MarkerAssumption DEF Right
        <5>2. Named(cursor) \subseteq Named(run.at)
          BY <4>1 DEF Named
        <5>3. Ruling(cursor) = "dir"
          BY <4>1, <5>1, <5>2, RulingNone DEF Ruling
        <5> QED BY <1>2, <2>1, <4>3, <5>3 DEF Right
      <4>4. CASE harness = "codex"
        <5>1. \/ Ruling(cursor) = Ruling(run.at)
              \/ cursor = 0 /\ lines # <<>> /\ lines[1].type = "cwd"
          BY <4>1, <4>4, RulingCodex
        <5> QED BY <1>2, <2>1, <4>1, <4>4, <5>1 DEF Right
      <4> QED BY <2>5, <4>2, <4>3, <4>4 DEF Parsing!Harness
    <3> QED BY <3>1, <3>2
  <2>6. Directed'
    BY <2>1, <2>2, <2>5 DEF Directed
  <2> QED BY <1>2, <2>3, <2>4, <2>6 DEF TranscriptsInv
<1> QED BY <1>3, <1>4, <1>5, <1>6, <1>7

(* A turn that is not stored mirrors or repeats an earlier line. *)
LEMMA TurnIsEmitted ==
  ASSUME TranscriptsInv, run.at < Len(lines), Parsing!Turn(run.at + 1)
  PROVE  Parsing!Emits(lines[run.at + 1])
<1> DEFINE n == run.at + 1
           l == lines[n]
<1> TranscriptsType /\ Written
  BY DEF TranscriptsInv
<1>1. /\ run.at \in Nat /\ n \in 1..Len(lines) /\ l \in LineShape
      /\ n - 1 = run.at
  BY DEF TranscriptsType, ParserRun
<1>2. l.text # "empty" /\ ~Parsing!Mirror(n) /\ ~Parsing!Repeat(n)
  BY DEF Parsing!Turn, Parsing!Says, Parsing!Nothing
<1> HIDE DEF n
<1>3. ASSUME harness = "codex", l.type = "event", l.text = run.armed PROVE FALSE
  <2>1. PICK j \in 1..run.at : /\ lines[j].type = "item" /\ lines[j].text = run.armed
                               /\ \A k \in (j + 1)..run.at : ~Parsing!Says(k)
    BY <1>2, <1>3 DEF TranscriptsInv, Remembers
  <2>2. j \in 1..Len(lines) /\ lines[j] \in LineShape
    BY <1>1, <2>1 DEF TranscriptsType
  <2>3. lines[j].cwd = "dir" /\ l.cwd = "dir"
    BY <1>1, <1>3, <2>1, <2>2 DEF Written
  <2>4. lines[j] = [lines[n] EXCEPT !.type = "item"]
    BY <1>1, <1>3, <2>1, <2>2, <2>3 DEF LineShape
  <2> QED BY <1>1, <1>2, <1>3, <2>1, <2>4 DEF Parsing!Mirror
<1>4. ASSUME harness = "copilot", l.text \in run.seen PROVE FALSE
  <2>1. \E j \in 1..run.at : lines[j].text = l.text
    BY <1>4 DEF TranscriptsInv, Remembers
  <2> QED BY <1>1, <1>2, <1>4, <2>1 DEF Parsing!Repeat
<1> QED BY <1>2, <1>3, <1>4 DEF Parsing!Emits, Parsing!Nothing, n

(* The parser after a line. *)
LEMMA ParserGoesOn ==
  ASSUME TranscriptsType, run.at < Len(lines), NEW l, l = lines[run.at + 1]
  PROVE  LET r == Parsing!Parsed(l)
         IN /\ r \in ParserRun /\ r.pc = run.pc /\ r.at = run.at + 1
            /\ r.cwd = IF l.type = "cwd" THEN l.cwd ELSE run.cwd
            /\ r.observed = IF l.type = "cwd" THEN l.cwd ELSE run.observed
            /\ \/ l.text = "empty" /\ r.armed = run.armed
               \/ l.type = "item" /\ r.armed = l.text
               \/ r.armed = "empty"
            /\ r.seen \subseteq run.seen \cup {l.text}
<1>1. l \in LineShape
  BY DEF TranscriptsType, ParserRun
<1> DEFINE cwd == IF l.type = "cwd" THEN l.cwd ELSE run.cwd
           observed == IF l.type = "cwd" THEN l.cwd ELSE run.observed
           armed == IF l.text = "empty" THEN run.armed
                    ELSE IF l.type = "item" THEN l.text ELSE "empty"
           seen == IF harness = "copilot" /\ l.type = "item" THEN run.seen \cup {l.text}
                   ELSE run.seen
<1>2. /\ run \in ParserRun /\ run.at + 1 \in Nat
      /\ cwd \in Cwd \cup {"dir"} /\ observed \in Cwd \cup {"dir"}
      /\ armed \in Text \cup {"empty"} /\ seen \in SUBSET (Text \cup {"empty"})
  BY <1>1 DEF TranscriptsType, ParserRun, LineShape
<1>3. Parsing!Parsed(l) = [run EXCEPT !.at = run.at + 1, !.cwd = cwd, !.observed = observed,
                                      !.armed = armed, !.seen = seen]
  BY <1>2 DEF ParserRun, Parsing!Parsed, Parsing!Nothing
<1>4. /\ \/ l.text = "empty" /\ armed = run.armed
         \/ l.type = "item" /\ armed = l.text
         \/ armed = "empty"
      /\ seen \subseteq run.seen \cup {l.text}
  OBVIOUS
<1> HIDE DEF cwd, observed, armed, seen
<1>5. LET r == Parsing!Parsed(l)
      IN /\ r \in ParserRun /\ r.pc = run.pc /\ r.at = run.at + 1 /\ r.cwd = cwd
         /\ r.observed = observed /\ r.armed = armed /\ r.seen = seen
  BY <1>2, <1>3 DEF ParserRun
<1> QED BY <1>4, <1>5 DEF cwd, observed

LEMMA PushKeeps ==
  ASSUME TranscriptsInv, Parsing!Push
  PROVE  TranscriptsInv'
<1> DEFINE n == run.at + 1
           l == lines[n]
           r == Parsing!Parsed(l)
           dir == IF harness = "claude-code" THEN l.cwd ELSE run.cwd
<1> TranscriptsType /\ Written
  BY DEF TranscriptsInv
<1>1. /\ run.pc = "reading" /\ run.at < Len(lines) /\ run' = r
      /\ \/ ~Parsing!Emits(l) /\ UNCHANGED <<label, born, stored>>
         \/ /\ Parsing!Emits(l) /\ stored' = stored \cup {n}
            /\ label' = IF label = "none" THEN dir ELSE label
            /\ born' = IF label = "none" THEN n ELSE born
      /\ UNCHANGED <<harness, lines, cursor, hint, deletes, replayed>>
  BY DEF Parsing!Push, Parsing!session
<1>2. /\ run.at \in Nat /\ n \in 1..Len(lines) /\ l \in LineShape /\ cursor <= run.at
      /\ 1..n = 1..run.at \cup {n} /\ n > run.at
  BY <1>1 DEF TranscriptsType, ParserRun
<1>3. /\ r \in ParserRun /\ r.pc = "reading" /\ r.at = n
      /\ r.cwd = IF l.type = "cwd" THEN l.cwd ELSE run.cwd
      /\ r.observed = IF l.type = "cwd" THEN l.cwd ELSE run.observed
      /\ \/ l.text = "empty" /\ r.armed = run.armed
         \/ l.type = "item" /\ r.armed = l.text
         \/ r.armed = "empty"
      /\ r.seen \subseteq run.seen \cup {l.text}
  BY <1>1, ParserGoesOn
<1>4. /\ \A m : Ruling(m)' = Ruling(m)
      /\ \A i : /\ Parsing!Says(i)' = Parsing!Says(i) /\ Parsing!Turn(i)' = Parsing!Turn(i)
                /\ Parsing!InForce(i)' = Parsing!InForce(i)
      /\ Written'
  BY <1>1 DEF Written, Ruling, Named, Parsing!Says, Parsing!Turn, Parsing!Mirror,
              Parsing!Repeat, Parsing!InForce
<1>5. Parsing!Turn(n) => Parsing!Emits(l)
  BY <1>1, TurnIsEmitted
<1>6. Ruling(n) = IF l.type = "cwd" THEN l.cwd ELSE Ruling(run.at)
  BY <1>1, <1>2, RulingNext
<1>7. /\ l.type = "cwd" => l.text = "empty" /\ l.cwd \in Cwd
      /\ Parsing!Emits(l) => l.text # "empty"
      /\ Parsing!Says(n) <=> l.text # "empty"
  BY <1>2 DEF Written, Parsing!Emits, Parsing!Says, Parsing!Nothing
<1>8. harness # "claude-code" => Parsing!InForce(n) = Ruling(n)
  BY DEF Parsing!InForce, Ruling, Named, Last, Parsing!Storage
<1>9. harness = "claude-code" => Parsing!InForce(n) = l.cwd
  BY DEF Parsing!InForce
<1> HIDE DEF r, n
<1>10. TranscriptsType'
  BY <1>1, <1>2, <1>3 DEF TranscriptsType
<1>11. Remembers'
  <2>1. ASSUME r.armed # "empty"
        PROVE  \E j \in 1..n : /\ lines[j].type = "item" /\ lines[j].text = r.armed
                               /\ \A k \in (j + 1)..n : ~Parsing!Says(k)
    <3>1. CASE l.text = "empty" /\ r.armed = run.armed
      <4>1. PICK j \in 1..run.at : /\ lines[j].type = "item" /\ lines[j].text = run.armed
                                   /\ \A k \in (j + 1)..run.at : ~Parsing!Says(k)
        BY <2>1, <3>1 DEF TranscriptsInv, Remembers
      <4>2. \A k \in (j + 1)..n : k \in (j + 1)..run.at \/ k = n
        BY <1>2 DEF n
      <4> QED BY <1>2, <1>7, <3>1, <4>1, <4>2
    <3>2. CASE l.type = "item" /\ r.armed = l.text
      <4>1. (n + 1)..n = {} /\ n \in 1..n
        BY <1>2
      <4> QED BY <3>2, <4>1
    <3> QED BY <1>3, <2>1, <3>1, <3>2
  <2>2. \A t \in r.seen : \E j \in 1..n : lines[j].text = t
    BY <1>2, <1>3 DEF TranscriptsInv, Remembers
  <2> QED BY <1>1, <1>3, <1>4, <2>1, <2>2 DEF Remembers
<1>12. Complete'
  <2>1. ASSUME deletes = 0, NEW i \in 1..Len(lines), i <= cursor \/ i <= n, Parsing!Turn(i)
        PROVE  i \in stored'
    <3>1. CASE i = n
      BY <1>1, <1>5, <2>1, <3>1
    <3>2. CASE i # n
      <4>1. i <= run.at
        BY <1>2, <2>1, <3>2 DEF n, TranscriptsType
      <4>2. i \in stored
        BY <2>1, <4>1 DEF TranscriptsInv, Complete
      <4> QED BY <1>1, <4>2
    <3> QED BY <3>1, <3>2
  <2> QED BY <1>1, <1>3, <1>4, <2>1 DEF Complete
<1>13. ASSUME harness # "claude-code"
       PROVE  /\ Right(hint, cursor)' /\ Right(run.cwd, run.at)'
              /\ r.cwd = IF r.observed = "dir" THEN hint ELSE r.observed
  <2>1. /\ Right(hint, cursor) /\ Right(run.cwd, run.at)
        /\ run.cwd = IF run.observed = "dir" THEN hint ELSE run.observed
    BY <1>1, <1>13 DEF TranscriptsInv, Directed
  <2>2. Right(hint, cursor)'
    BY <1>1, <1>4, <2>1 DEF Right
  <2>3. Right(run.cwd, run.at)'
    <3>1. \/ r.cwd = Ruling(n)
          \/ harness = "copilot" /\ replayed /\ r.cwd \in Cwd
      BY <1>2, <1>3, <1>6, <2>1 DEF Right, n
    <3> QED BY <1>1, <1>3, <1>4, <3>1 DEF Right
  <2> QED BY <1>3, <1>7, <2>1, <2>2, <2>3, MarkerAssumption
<1>14. Directed'
  BY <1>1, <1>3, <1>13 DEF Directed
<1>15. Parsing!FiledRight'
  <2>1. CASE UNCHANGED <<label, born>>
    BY <1>1, <1>4, <2>1 DEF TranscriptsInv, Parsing!FiledRight
  <2>2. CASE Parsing!Emits(l) /\ label' = dir /\ born' = n
    <3>1. l.type # "cwd"
      BY <1>7, <2>2
    <3>2. CASE harness = "claude-code"
      BY <1>1, <1>4, <1>9, <2>2, <3>2 DEF Parsing!FiledRight
    <3>3. CASE harness # "claude-code"
      <4>1. dir = Ruling(n) \/ (harness = "copilot" /\ replayed /\ dir \in Cwd)
        BY <1>1, <1>2, <1>6, <3>1, <3>3 DEF TranscriptsInv, Directed, Right, n
      <4> QED BY <1>1, <1>4, <1>8, <2>2, <3>3, <4>1 DEF Parsing!FiledRight
    <3> QED BY <3>2, <3>3
  <2> QED BY <1>1, <2>1, <2>2
<1> QED BY <1>4, <1>10, <1>11, <1>12, <1>14, <1>15 DEF TranscriptsInv

LEMMA TranscriptsKept == TranscriptsInv /\ [Parsing!Next]_transcriptsVars => TranscriptsInv'
<1> SUFFICES ASSUME TranscriptsInv, [Parsing!Next]_transcriptsVars PROVE TranscriptsInv'
  OBVIOUS
<1>1. CASE UNCHANGED transcriptsVars
  <2>1. TranscriptsType' /\ Written'
    BY <1>1 DEF transcriptsVars, TranscriptsInv, TranscriptsType, Written
  <2>2. Remembers'
    BY <1>1 DEF transcriptsVars, TranscriptsInv, Remembers, Parsing!Says
  <2>3. Complete'
    BY <1>1 DEF transcriptsVars, TranscriptsInv, Complete, Parsing!Turn, Parsing!Says,
       Parsing!Mirror, Parsing!Repeat
  <2>4. Directed'
    BY <1>1 DEF transcriptsVars, TranscriptsInv, Directed, Right, Ruling, Named
  <2>5. Parsing!FiledRight'
    BY <1>1 DEF transcriptsVars, TranscriptsInv, Parsing!FiledRight, Parsing!InForce
  <2> QED BY <2>1, <2>2, <2>3, <2>4, <2>5 DEF TranscriptsInv
<1> QED BY <1>1, WriteLineKeeps, BetweenLinesKeeps, PushKeeps DEF Parsing!Next

(* However a transcript is cut into runs, every turn before the cursor is stored, *)
(* two equal ones, too: a line is dropped only if it mirrors the item before it   *)
(* or its event was read before (codex-jsonl.ts:98, copilot-jsonl.ts).            *)
THEOREM NoTurnIsLost == Spec => []NoTurnLost
<1> DEFINE Inv == part = "transcripts" => TranscriptsInv
<1>1. Init => Inv
  BY SuiteInit, InitTranscriptsInv
<1>2. Inv /\ [Next]_vars => Inv'
  BY SuiteStep, TranscriptsKept
<1>3. Inv => NoTurnLost
  <2>1. TranscriptsType => \A i \in 1..cursor : i \in 1..Len(lines) /\ i <= cursor
    BY DEF TranscriptsType
  <2> QED BY <2>1 DEF TranscriptsInv, Complete, NoTurnLost, Parsing!NoTurnLost
<1> QED BY <1>1, <1>2, <1>3, PTL DEF Spec

(* A session is filed under the directory in force at the line that made it, for  *)
(* a transcript of any length read in any runs; a Copilot session that changed    *)
(* its directory may not be, if a run ended between its two keys (ingest.ts).     *)
THEOREM SessionsFiledRight == Spec => []FiledRight
<1> DEFINE Inv == part = "transcripts" => TranscriptsInv
<1>1. Init => Inv
  BY SuiteInit, InitTranscriptsInv
<1>2. Inv /\ [Next]_vars => Inv'
  BY SuiteStep, TranscriptsKept
<1>3. Inv => FiledRight
  BY DEF TranscriptsInv, FiledRight
<1> QED BY <1>1, <1>2, <1>3, PTL DEF Spec

---------------------------------------------------------------------------
(* Recall *)

Elements(s) == {s[i] : i \in 1..Len(s)}

RecallType ==
  /\ caller \in {"mcp", "hook"} /\ limit \in Nat /\ pc \in {"search", "read", "done"}
  /\ vector \in Seq(Id) /\ fts \in Seq(Id) /\ order \in Seq(Id) /\ out \in Seq(Id)
  /\ Len(vector) <= Cardinality(Id) /\ Len(fts) <= Cardinality(Id)
  /\ caller = "hook" => vector = <<>>

(* While the rows are read no candidate gets lost that is there and relevant. *)
Pool ==
  /\ pc = "search" => out = <<>>
  /\ pc = "read" =>
       /\ Len(out) + Len(order) <= Cardinality(Id)
       /\ Elements(out) \cup Elements(order) \subseteq Recalling!Candidates
       /\ Recalling!Candidates \cap relevant \cap exists \subseteq Elements(out) \cup Elements(order)

Heavier(x, y) ==
  Recalling!Weighted(x) > Recalling!Weighted(y) \/ Recalling!Weighted(x) = Recalling!Weighted(y)

(* They are read, and kept, in the order of their weights. *)
Sorted ==
  pc = "read" =>
    /\ \A i, j \in 1..Len(out) : i < j => Heavier(out[i], out[j])
    /\ \A i \in 1..Len(out), j \in 1..Len(order) : Heavier(out[i], order[j])
    /\ \A i, j \in 1..Len(order) : i < j => Heavier(order[i], order[j])

RecallInv ==
  RecallType /\ Pool /\ Sorted /\ Recalling!FreshFirst /\ Recalling!CuratedLeads

---------------------------------------------------------------------------
LEMMA SameCardinality == \A S : Recalling!Cardinality(S) = Cardinality(S)
BY Zenon DEF Recalling!Cardinality, Cardinality

LEMMA RangeIsElements == ASSUME NEW s \in Seq(Id) PROVE Recalling!Range(s) = Elements(s)
BY DEF Recalling!Range, Elements

(* An arrangement of a set of ids has each of them once. *)
LEMMA Arrangement ==
  ASSUME NEW S \in SUBSET Id, NEW s \in Recalling!SetToSeqs(S)
  PROVE  /\ s \in Seq(Id) /\ Len(s) = Cardinality(S) /\ Len(s) <= Cardinality(Id)
         /\ Elements(s) = S
<1> DEFINE c == Cardinality(S)
<1>1. IsFiniteSet(S) /\ c \in Nat /\ c <= Cardinality(Id)
  BY DepthAssumption, FS_Subset, FS_CardinalityType
<1>2. s \in [1..c -> S] /\ \A i, j \in 1..c : i # j => s[i] # s[j]
  BY SameCardinality DEF Recalling!SetToSeqs
<1> HIDE DEF c
<1>3. s \in Injection(1..c, S)
  BY <1>2 DEF Injection, IsInjective
<1>4. Cardinality(1..c) = c
  BY <1>1, FS_Interval
<1>5. s \in Surjection(1..c, S)
  BY <1>1, <1>3, <1>4, FS_Injection DEF c
<1>6. s \in Seq(Id) /\ Len(s) = c
  BY <1>1, <1>2
<1> QED BY <1>1, <1>2, <1>5, <1>6 DEF Elements, Surjection, c

LEMMA InitRecallInv == Recalling!Init => RecallInv
<1> SUFFICES ASSUME Recalling!Init PROVE RecallInv
  OBVIOUS
<1> USE DEF Recalling!Init
<1>1. fts \in Seq(Id) /\ Len(fts) <= Cardinality(Id)
  <2>1. PICK S \in SUBSET Id : fts \in Recalling!SetToSeqs(S)
    BY DEF Recalling!searchFts, Recalling!SetToAllKPermutations
  <2> QED BY <2>1, Arrangement
<1>2. vector \in Seq(Id) /\ Len(vector) <= Cardinality(Id)
  <2> DEFINE c == Cardinality(Id)
             all == Recalling!SetToSeq(Id)
  <2>1. c \in Nat /\ ExistsBijection(1..c, Id)
    BY DepthAssumption, FS_CardinalityType
  <2>2. \E f \in [1..c -> Id] : Recalling!IsInjective(f)
    BY <2>1 DEF ExistsBijection, Bijection, Injection, IsInjective, Recalling!IsInjective
  <2>3. all = CHOOSE f \in [1..c -> Id] : Recalling!IsInjective(f)
    BY SameCardinality DEF Recalling!SetToSeq
  <2>4. all \in [1..c -> Id]
    BY <2>2, <2>3
  <2>5. all \in Seq(Id) /\ Len(all) = c
    BY <2>1, <2>4
  <2>6. vector = <<>> \/ \E n \in 0..c : vector = SubSeq(all, 1, n)
    BY SameCardinality DEF Recalling!knn
  <2> HIDE DEF c, all
  <2>7. ASSUME NEW n \in 0..c PROVE SubSeq(all, 1, n) \in Seq(Id) /\ Len(SubSeq(all, 1, n)) = n
    BY <2>1, <2>5
  <2>8. CASE vector = <<>>
    BY <2>1, <2>8 DEF c
  <2>9. CASE \E n \in 0..c : vector = SubSeq(all, 1, n)
    BY <2>1, <2>7, <2>9 DEF c
  <2> QED BY <2>6, <2>8, <2>9
<1>3. RecallType
  BY <1>1, <1>2, DepthAssumption DEF RecallType
<1> QED BY <1>3 DEF RecallInv, Pool, Sorted, Recalling!FreshFirst, Recalling!CuratedLeads,
                    Recalling!Returned

---------------------------------------------------------------------------
(* The weights *)

LEMMA ShareBounds ==
  ASSUME NEW r \in 1..90, NEW k \in {59, 60}, Scale % (k + r) = 0
  PROVE  LET q == Scale \div (k + r)
         IN q \in Nat /\ (k + 90) * q >= Scale /\ (k + 1) * q <= Scale /\ q > 0
<1> DEFINE q == Scale \div (k + r)
<1>1. Scale \in Nat /\ Scale > 0 /\ k + r \in Nat /\ k + r > 0
  BY DepthAssumption
<1>2. q \in Nat /\ Scale = (k + r) * q + (Scale % (k + r))
  BY <1>1
<1>3. Scale = (k + r) * q
  BY <1>1, <1>2
<1> HIDE DEF q
<1>4. Scale = k * q + r * q /\ r * q <= 90 * q /\ q <= r * q
  BY <1>2, <1>3
<1> QED BY <1>1, <1>2, <1>4 DEF q

(* A candidate has one share of each leg that found it. *)
LEMMA LegCount ==
  ASSUME NEW x
  PROVE  Cardinality(Recalling!LegsOf(x)) =
           (IF x \in Recalling!Range(vector) THEN 1 ELSE 0)
             + (IF x \in Recalling!Range(fts) THEN 1 ELSE 0)
<1>1. /\ Cardinality({}) = 0 /\ Cardinality({"vector"}) = 1 /\ Cardinality({"fts"}) = 1
      /\ Cardinality({"vector", "fts"}) = 2
  <2>1. IsFiniteSet({"vector"}) /\ "fts" \notin {"vector"} /\ Cardinality({"vector"}) = 1
    BY FS_Singleton
  <2>2. Cardinality({"vector"} \cup {"fts"}) = Cardinality({"vector"}) + 1
    BY <2>1, FS_AddElement
  <2>3. {"vector"} \cup {"fts"} = {"vector", "fts"}
    OBVIOUS
  <2> QED BY <2>1, <2>2, <2>3, FS_EmptySet, FS_Singleton
<1>2. Recalling!LegsOf(x) =
        CASE x \in Recalling!Range(vector) /\ x \in Recalling!Range(fts) -> {"vector", "fts"}
          [] x \in Recalling!Range(vector) /\ x \notin Recalling!Range(fts) -> {"vector"}
          [] x \notin Recalling!Range(vector) /\ x \in Recalling!Range(fts) -> {"fts"}
          [] OTHER -> {}
  BY DEF Recalling!LegsOf, Recalling!Legs
<1> QED BY <1>1, <1>2

LEMMA LegShare ==
  ASSUME NEW leg \in Seq(Id), Len(leg) <= Cardinality(Id), NEW x
  PROVE  /\ x \notin Recalling!Range(leg) => Recalling!Share(x, leg) = 0
         /\ x \in Recalling!Range(leg) =>
              /\ Recalling!Share(x, leg) \in Nat
              /\ 150 * Recalling!Share(x, leg) >= Scale /\ 61 * Recalling!Share(x, leg) <= Scale
<1>1. SUFFICES ASSUME x \in Recalling!Range(leg)
               PROVE  /\ Recalling!Share(x, leg) \in Nat
                      /\ 150 * Recalling!Share(x, leg) >= Scale
                      /\ 61 * Recalling!Share(x, leg) <= Scale
  BY DEF Recalling!Share
<1> DEFINE p == Recalling!Position(x, leg)
<1>2. p \in 1..Len(leg)
  BY <1>1 DEF Recalling!Range, Recalling!Position
<1> HIDE DEF p
<1>3. p \in DOMAIN Rank /\ Rank[p] \in 1..90
  <2>1. Cardinality(Id) \in Nat
    BY DepthAssumption, FS_CardinalityType
  <2> QED BY <1>2, <2>1, DepthAssumption
<1>4. Recalling!Share(x, leg) = Scale \div (60 + Rank[p])
  BY <1>1 DEF Recalling!Share, Recalling!RrfK, p
<1>5. Scale % (60 + Rank[p]) = 0 /\ 60 \in {59, 60}
  BY <1>3, DepthAssumption
<1>6. LET q == Scale \div (60 + Rank[p])
      IN q \in Nat /\ (60 + 90) * q >= Scale /\ (60 + 1) * q <= Scale /\ q > 0
  BY <1>3, <1>5, ShareBounds
<1> QED BY <1>4, <1>6

LEMMA BaseShare ==
  ASSUME RecallType, NEW x \in Recalling!Range(fts)
  PROVE  /\ Recalling!FtsBase(x) \in Nat
         /\ 149 * Recalling!FtsBase(x) >= Scale /\ 60 * Recalling!FtsBase(x) <= Scale
<1> DEFINE p == Recalling!Position(x, fts)
<1>1. p \in 1..Len(fts) /\ fts \in Seq(Id) /\ Len(fts) <= Cardinality(Id)
  BY DEF RecallType, Recalling!Range, Recalling!Position
<1> HIDE DEF p
<1>2. p \in DOMAIN Rank /\ Rank[p] \in 1..90
  <2>1. Cardinality(Id) \in Nat
    BY DepthAssumption, FS_CardinalityType
  <2> QED BY <1>1, <2>1, DepthAssumption
<1>3. Recalling!FtsBase(x) = Scale \div (59 + Rank[p])
  <2>1. 60 + Rank[p] - 1 = 59 + Rank[p]
    BY <1>2
  <2> QED BY <2>1 DEF Recalling!FtsBase, Recalling!RrfK, p
<1>4. Scale % (59 + Rank[p]) = 0 /\ 59 \in {59, 60}
  BY <1>2, DepthAssumption
<1> QED BY <1>2, <1>3, <1>4, ShareBounds

(* Between candidates of as many legs the kind decides, at any of these depths. *)
LEMMA CuratedIsHeavier ==
  ASSUME RecallType, NEW x \in Recalling!Candidates, NEW y \in Recalling!Candidates,
         x \in curated, y \notin curated,
         Cardinality(Recalling!LegsOf(y)) <= Cardinality(Recalling!LegsOf(x))
  PROVE  ~Heavier(y, x)
<1> DEFINE n(z) == (IF z \in Recalling!Range(vector) THEN 1 ELSE 0)
                     + (IF z \in Recalling!Range(fts) THEN 1 ELSE 0)
           f(z) == Recalling!Fused(z)
<1>1. n(y) <= n(x) /\ n(x) \in 1..2 /\ n(y) \in 1..2
  BY LegCount DEF Recalling!Candidates
<1>2. Recalling!Weighted(x) = 5 * f(x) /\ Recalling!Weighted(y) = 2 * f(y)
  BY DEF Recalling!Weighted, Recalling!Weight, Recalling!DurableWeight
<1>3. Scale \in Nat /\ Scale > 0
  BY DepthAssumption
<1>4. CASE caller = "mcp"
  <2>1. ASSUME NEW z \in Recalling!Candidates
        PROVE  f(z) \in Nat /\ 150 * f(z) >= n(z) * Scale /\ 61 * f(z) <= n(z) * Scale
    <3> DEFINE v == Recalling!Share(z, vector)
               w == Recalling!Share(z, fts)
    <3>1. f(z) = v + w
      BY <1>4 DEF Recalling!Fused
    <3>2. /\ z \notin Recalling!Range(vector) => v = 0
          /\ z \in Recalling!Range(vector) => v \in Nat /\ 150 * v >= Scale /\ 61 * v <= Scale
          /\ z \notin Recalling!Range(fts) => w = 0
          /\ z \in Recalling!Range(fts) => w \in Nat /\ 150 * w >= Scale /\ 61 * w <= Scale
      BY LegShare DEF RecallType
    <3> HIDE DEF v, w
    <3> QED BY <1>3, <2>1, <3>1, <3>2
  <2> HIDE DEF f, n
  <2>2. 150 * f(x) >= n(x) * Scale /\ 61 * f(y) <= n(y) * Scale /\ f(x) \in Nat /\ f(y) \in Nat
    BY <2>1
  <2>3. (n(x) = 1 /\ n(y) = 1) \/ (n(x) = 2 /\ n(y) \in 1..2)
    BY <1>1
  <2>4. 5 * f(x) > 2 * f(y)
    BY <1>3, <2>2, <2>3
  <2> QED BY <1>2, <2>2, <2>4 DEF Heavier
<1>5. CASE caller = "hook"
  <2>1. x \in Recalling!Range(fts) /\ y \in Recalling!Range(fts)
    <3>1. Recalling!Range(vector) = {}
      BY <1>5 DEF RecallType, Recalling!Range
    <3> QED BY <3>1 DEF Recalling!Candidates
  <2>2. f(x) = Recalling!FtsBase(x) /\ f(y) = Recalling!FtsBase(y)
    BY <1>5 DEF Recalling!Fused
  <2>3. 149 * f(x) >= Scale /\ 60 * f(y) <= Scale /\ f(x) \in Nat /\ f(y) \in Nat
    BY <2>1, <2>2, BaseShare
  <2> HIDE DEF f, n
  <2>4. 5 * f(x) > 2 * f(y)
    BY <1>3, <2>3
  <2> QED BY <1>2, <2>3, <2>4 DEF Heavier
<1> QED BY <1>4, <1>5 DEF RecallType

LEMMA InputKept ==
  ASSUME UNCHANGED Recalling!input
  PROVE  /\ Recalling!Candidates' = Recalling!Candidates
         /\ \A x, y : Heavier(x, y)' <=> Heavier(x, y)
         /\ \A x : Recalling!LegsOf(x)' = Recalling!LegsOf(x)
<1> USE DEF Recalling!input
<1>1. \A x : /\ Recalling!Share(x, vector)' = Recalling!Share(x, vector)
             /\ Recalling!Share(x, fts)' = Recalling!Share(x, fts)
             /\ Recalling!FtsBase(x)' = Recalling!FtsBase(x)
             /\ Recalling!Weight(x)' = Recalling!Weight(x)
  BY DEF Recalling!Share, Recalling!FtsBase, Recalling!Weight, Recalling!Position, Recalling!Range
<1>2. \A x : Recalling!Weighted(x)' = Recalling!Weighted(x)
  BY <1>1 DEF Recalling!Weighted, Recalling!Fused
<1>3. \A x, y : Heavier(x, y)' <=> Heavier(x, y)
  BY <1>2 DEF Heavier
<1>4. /\ Recalling!Candidates' = Recalling!Candidates
      /\ \A x : Recalling!LegsOf(x)' = Recalling!LegsOf(x)
  BY DEF Recalling!Candidates, Recalling!LegsOf, Recalling!Legs, Recalling!Range
<1> QED BY <1>3, <1>4

LEMMA CandidatesAreIds == RecallType => Recalling!Candidates \in SUBSET Id
BY DEF RecallType, Recalling!Candidates, Recalling!Range

---------------------------------------------------------------------------
(* The steps of a recall *)

LEMMA OthersKeepRecall ==
  ASSUME RecallInv, NEW id \in Id, Recalling!Delete(id) \/ Recalling!GoesStale(id)
  PROVE  RecallInv'
<1>1. /\ pc = "read" /\ pc' = "read" /\ exists' \subseteq exists /\ order' = order /\ out' = out
      /\ UNCHANGED Recalling!input
  BY DEF Recalling!Delete, Recalling!GoesStale, Recalling!Others
<1>2. RecallType'
  BY <1>1 DEF RecallInv, RecallType, Recalling!input
<1>3. Recalling!Candidates' = Recalling!Candidates /\ \A x, y : Heavier(x, y)' <=> Heavier(x, y)
  BY <1>1, InputKept
<1>4. relevant' = relevant
  BY <1>1 DEF Recalling!input
<1>5. Pool'
  <2>1. Recalling!Candidates \cap relevant \cap exists \subseteq Elements(out) \cup Elements(order)
    BY <1>1 DEF RecallInv, Pool
  <2>2. /\ Len(out) + Len(order) <= Cardinality(Id)
        /\ Elements(out) \cup Elements(order) \subseteq Recalling!Candidates
    BY <1>1 DEF RecallInv, Pool
  <2>3. Elements(out)' = Elements(out) /\ Elements(order)' = Elements(order)
    BY <1>1 DEF Elements
  <2> QED BY <1>1, <1>3, <1>4, <2>1, <2>2, <2>3 DEF Pool
<1>6. Sorted'
  BY <1>1, <1>3 DEF RecallInv, Sorted
<1>7. Recalling!FreshFirst' /\ Recalling!CuratedLeads'
  BY <1>1 DEF Recalling!FreshFirst, Recalling!CuratedLeads, Recalling!Returned
<1> QED BY <1>2, <1>5, <1>6, <1>7 DEF RecallInv

LEMMA SearchKeepsRecall ==
  ASSUME RecallInv, Recalling!Search \/ Recalling!SearchFts
  PROVE  RecallInv'
<1>1. /\ pc = "search" /\ pc' = "read" /\ out' = out /\ exists' = exists
      /\ UNCHANGED Recalling!input
      /\ order' \in Recalling!Ordered(Recalling!Candidates, Recalling!Before)
  BY DEF Recalling!Search, Recalling!SearchFts
<1>2. /\ order' \in Recalling!SetToSeqs(Recalling!Candidates)
      /\ \A i, j \in DOMAIN order' : i < j => Recalling!Before(order'[i], order'[j])
  BY <1>1 DEF Recalling!Ordered
<1>3. /\ order' \in Seq(Id) /\ Len(order') <= Cardinality(Id)
      /\ Elements(order') = Recalling!Candidates
  <2>1. Recalling!Candidates \in SUBSET Id
    BY CandidatesAreIds DEF RecallInv
  <2> QED BY <1>2, <2>1, Arrangement
<1>4. out = <<>>
  BY <1>1 DEF RecallInv, Pool
<1>5. RecallType'
  BY <1>1, <1>3 DEF RecallInv, RecallType, Recalling!input
<1>6. Recalling!Candidates' = Recalling!Candidates /\ \A x, y : Heavier(x, y)' <=> Heavier(x, y)
  BY <1>1, InputKept
<1>7. Pool'
  <2>1. Len(out') = 0 /\ Elements(out)' = {}
    BY <1>1, <1>4 DEF Elements
  <2>2. Elements(order)' = Elements(order')
    BY DEF Elements
  <2>3. Len(order') \in Nat
    BY <1>3
  <2> QED BY <1>1, <1>3, <1>6, <2>1, <2>2, <2>3 DEF Pool
<1>8. Sorted'
  <2>1. \A x, y : Recalling!Before(x, y) => Heavier(x, y)
    BY DEF Recalling!Before, Heavier
  <2>2. \A i, j \in 1..Len(order') : i < j => Heavier(order'[i], order'[j])
    BY <1>2, <1>3, <2>1
  <2>3. 1..Len(out') = {}
    BY <1>1, <1>4
  <2> QED BY <1>1, <1>6, <2>2, <2>3 DEF Sorted
<1>9. Recalling!FreshFirst' /\ Recalling!CuratedLeads'
  BY <1>1 DEF Recalling!FreshFirst, Recalling!CuratedLeads, Recalling!Returned
<1> QED BY <1>5, <1>7, <1>8, <1>9 DEF RecallInv

LEMMA ReadKeepsRecall == RecallInv /\ Recalling!Read => RecallInv'
<1> SUFFICES ASSUME RecallInv, Recalling!Read PROVE RecallInv'
  OBVIOUS
<1> DEFINE id == Head(order)
<1>1. /\ pc = "read" /\ pc' = "read" /\ order # <<>> /\ exists' = exists /\ order' = Tail(order)
      /\ out' = IF id \in exists /\ Recalling!PassesFloor(id) THEN Append(out, id) ELSE out
      /\ UNCHANGED Recalling!input
  BY DEF Recalling!Read
<1>2. out \in Seq(Id) /\ order \in Seq(Id)
  BY DEF RecallInv, RecallType
<1>3. /\ id \in Id /\ id = order[1] /\ order' \in Seq(Id) /\ Len(order') = Len(order) - 1
      /\ Len(order) \in Nat /\ Len(order) >= 1
      /\ \A i \in 1..Len(order') : i + 1 \in 1..Len(order) /\ order'[i] = order[i + 1]
  BY <1>1, <1>2
<1> HIDE DEF id
<1>4. \/ out' = out /\ ~(id \in exists /\ id \in relevant)
      \/ out' = Append(out, id)
  BY <1>1 DEF Recalling!PassesFloor
<1>5. Recalling!Candidates' = Recalling!Candidates /\ \A x, y : Heavier(x, y)' <=> Heavier(x, y)
  BY <1>1, InputKept
<1>6. RecallType'
  <2>1. Append(out, id) \in Seq(Id)
    BY <1>2, <1>3
  <2>2. out' \in Seq(Id)
    BY <1>2, <1>4, <2>1
  <2> QED BY <1>1, <1>3, <2>2 DEF RecallInv, RecallType, Recalling!input
<1>7. Elements(order) = {id} \cup Elements(order')
  <2>1. ASSUME NEW i \in 1..Len(order) PROVE order[i] \in {id} \cup Elements(order')
    <3>1. CASE i = 1
      BY <1>3, <3>1
    <3>2. CASE i # 1
      <4>1. i - 1 \in 1..Len(order') /\ order'[i - 1] = order[i]
        BY <1>3, <2>1, <3>2
      <4> QED BY <4>1 DEF Elements
    <3> QED BY <3>1, <3>2
  <2>2. id \in Elements(order) /\ Elements(order') \subseteq Elements(order)
    BY <1>3 DEF Elements
  <2> QED BY <2>1, <2>2 DEF Elements
<1>8. \/ out' = out /\ ~(id \in exists /\ id \in relevant) /\ Elements(out') = Elements(out)
      \/ /\ out' = Append(out, id) /\ Elements(out') = Elements(out) \cup {id}
         /\ Len(out') = Len(out) + 1
  <2>1. CASE out' = Append(out, id)
    <3>1. /\ Len(out') = Len(out) + 1 /\ Len(out) \in Nat /\ out'[Len(out')] = id
          /\ \A i \in 1..Len(out) : out'[i] = out[i]
      BY <1>2, <1>3, <2>1
    <3>2. 1..Len(out') = 1..Len(out) \cup {Len(out')}
      BY <3>1
    <3>3. Elements(out') = Elements(out) \cup {id}
      BY <3>1, <3>2 DEF Elements
    <3> QED BY <2>1, <3>1, <3>3
  <2> QED BY <1>4, <2>1
<1>9. Pool'
  <2>1. /\ Len(out) + Len(order) <= Cardinality(Id)
        /\ Elements(out) \cup Elements(order) \subseteq Recalling!Candidates
        /\ Recalling!Candidates \cap relevant \cap exists \subseteq Elements(out) \cup Elements(order)
    BY <1>1 DEF RecallInv, Pool
  <2>2. relevant' = relevant
    BY <1>1 DEF Recalling!input
  <2>3. Len(out') + Len(order') <= Cardinality(Id)
    <3>1. Len(out) \in Nat /\ Cardinality(Id) \in Nat
      BY <1>2, DepthAssumption, FS_CardinalityType
    <3> QED BY <1>3, <1>8, <2>1, <3>1
  <2>4. Elements(out') \cup Elements(order') \subseteq Recalling!Candidates
    BY <1>7, <1>8, <2>1
  <2>5. Recalling!Candidates \cap relevant \cap exists \subseteq Elements(out') \cup Elements(order')
    BY <1>7, <1>8, <2>1
  <2>6. Elements(out)' = Elements(out') /\ Elements(order)' = Elements(order')
    BY DEF Elements
  <2> QED BY <1>1, <1>5, <2>2, <2>3, <2>4, <2>5, <2>6 DEF Pool
<1>10. Sorted'
  <2>1. /\ \A i, j \in 1..Len(out) : i < j => Heavier(out[i], out[j])
        /\ \A i \in 1..Len(out), j \in 1..Len(order) : Heavier(out[i], order[j])
        /\ \A i, j \in 1..Len(order) : i < j => Heavier(order[i], order[j])
    BY <1>1 DEF RecallInv, Sorted
  <2>2. \A j \in 1..Len(order') : Heavier(id, order'[j])
    <3> TAKE j \in 1..Len(order')
    <3>1. 1 \in 1..Len(order) /\ j + 1 \in 1..Len(order) /\ 1 < j + 1
      BY <1>3
    <3> QED BY <1>3, <2>1, <3>1
  <2>3. \A i, j \in 1..Len(order') : i < j => Heavier(order'[i], order'[j])
    <3> TAKE i, j \in 1..Len(order')
    <3>1. i + 1 \in 1..Len(order) /\ j + 1 \in 1..Len(order) /\ (i < j => i + 1 < j + 1)
      BY <1>3
    <3> QED BY <1>3, <2>1, <3>1
  <2>4. \A i \in 1..Len(out), j \in 1..Len(order') : Heavier(out[i], order'[j])
    BY <1>3, <2>1
  <2>5. /\ \A i, j \in 1..Len(out') : i < j => Heavier(out'[i], out'[j])
        /\ \A i \in 1..Len(out'), j \in 1..Len(order') : Heavier(out'[i], order'[j])
    <3>1. CASE out' = out
      BY <2>1, <2>4, <3>1
    <3>2. CASE out' = Append(out, id)
      <4>1. /\ Len(out') = Len(out) + 1 /\ Len(out) \in Nat /\ out'[Len(out')] = id
            /\ \A i \in 1..Len(out) : out'[i] = out[i]
        BY <1>2, <3>2
      <4>2. \A i \in 1..Len(out) : Heavier(out[i], id)
        <5>1. 1 \in 1..Len(order)
          BY <1>3
        <5> QED BY <1>3, <2>1, <5>1
      <4>3. ASSUME NEW i \in 1..Len(out'), NEW j \in 1..Len(out'), i < j
            PROVE  Heavier(out'[i], out'[j])
        <5>1. i \in 1..Len(out) /\ (j = Len(out') \/ j \in 1..Len(out))
          BY <4>1, <4>3
        <5> QED BY <2>1, <4>1, <4>2, <4>3, <5>1
      <4>4. ASSUME NEW i \in 1..Len(out'), NEW j \in 1..Len(order')
            PROVE  Heavier(out'[i], order'[j])
        <5>1. i = Len(out') \/ i \in 1..Len(out)
          BY <4>1
        <5> QED BY <2>2, <2>4, <4>1, <5>1
      <4> QED BY <4>3, <4>4
    <3> QED BY <1>4, <3>1, <3>2
  <2> QED BY <1>1, <1>5, <2>3, <2>5 DEF Sorted
<1>11. Recalling!FreshFirst' /\ Recalling!CuratedLeads'
  BY <1>1 DEF Recalling!FreshFirst, Recalling!CuratedLeads, Recalling!Returned
<1> QED BY <1>6, <1>9, <1>10, <1>11 DEF RecallInv

LEMMA AnnotateKeepsRecall == RecallInv /\ Recalling!Annotate => RecallInv'
<1> SUFFICES ASSUME RecallInv, Recalling!Annotate PROVE RecallInv'
  OBVIOUS
<1>1. /\ pc = "read" /\ pc' = "done" /\ (order = <<>> \/ Len(out) = Recalling!Want)
      /\ exists' = exists /\ stale' = stale /\ order' = order /\ UNCHANGED Recalling!input
  BY DEF Recalling!Annotate
<1>2. PICK d \in Recalling!Ordered(Recalling!Range(out), Recalling!Fresher) :
        out' = SubSeq(d, 1, IF Len(d) < limit THEN Len(d) ELSE limit)
  BY DEF Recalling!Annotate
<1> DEFINE m == IF Len(d) < limit THEN Len(d) ELSE limit
<1>3. /\ out \in Seq(Id) /\ limit \in Nat /\ Recalling!Range(out) = Elements(out)
      /\ Elements(out) \in SUBSET Id
  <2>1. out \in Seq(Id) /\ limit \in Nat
    BY DEF RecallInv, RecallType
  <2> QED BY <2>1, RangeIsElements DEF Elements
<1>4. /\ d \in Recalling!SetToSeqs(Elements(out))
      /\ \A i, j \in DOMAIN d : i < j => Recalling!Fresher(d[i], d[j])
  BY <1>2, <1>3 DEF Recalling!Ordered
<1>5. d \in Seq(Id) /\ Elements(d) = Elements(out)
  BY <1>3, <1>4, Arrangement
<1>6. m \in 0..Len(d) /\ Len(d) \in Nat
  BY <1>3, <1>5
<1> HIDE DEF m
<1>7. /\ out' \in Seq(Id) /\ Len(out') = m
      /\ \A i \in 1..m : i \in 1..Len(d) /\ out'[i] = d[i]
  <2>1. out' = SubSeq(d, 1, m)
    BY <1>2 DEF m
  <2> QED BY <1>5, <1>6, <2>1
<1>8. /\ Recalling!Candidates' = Recalling!Candidates
      /\ \A x, y : Heavier(x, y)' <=> Heavier(x, y)
      /\ \A x : Recalling!LegsOf(x)' = Recalling!LegsOf(x)
  BY <1>1, InputKept
<1>9. /\ Elements(out) \cup Elements(order) \subseteq Recalling!Candidates
      /\ Recalling!Candidates \cap relevant \cap exists \subseteq Elements(out) \cup Elements(order)
      /\ Len(out) + Len(order) <= Cardinality(Id)
      /\ \A i, j \in 1..Len(out) : i < j => Heavier(out[i], out[j])
  BY <1>1 DEF RecallInv, Pool, Sorted
<1>10. relevant' = relevant /\ curated' = curated /\ caller' = caller
  BY <1>1 DEF Recalling!input
<1>11. Recalling!FreshFirst'
  <2>1. SUFFICES ASSUME caller = "mcp", NEW s \in Elements(out') \cap stale,
                        NEW id \in Recalling!Candidates \cap relevant \cap exists, id \notin stale
                 PROVE  id \in Elements(out')
    <3>1. Recalling!Returned' = Elements(out')
      <4>1. Recalling!Range(out') = Elements(out')
        BY <1>7, RangeIsElements
      <4>2. Recalling!Returned' = Recalling!Range(out')
        BY <1>1 DEF Recalling!Returned, Recalling!Range
      <4> QED BY <4>1, <4>2
    <3> QED BY <1>1, <1>8, <1>10, <3>1 DEF Recalling!FreshFirst
  <2>2. id \in Elements(out)
    <3>1. CASE order = <<>>
      BY <1>9, <3>1 DEF Elements
    <3>2. ASSUME Len(out) = Recalling!Want PROVE FALSE
      <4>1. Len(out) = 2 * Cardinality(Id)
        BY <2>1, <3>2, SameCardinality DEF Recalling!Want
      <4>2. Len(out) \in Nat /\ Len(order) \in Nat /\ Cardinality(Id) \in Nat
        BY <1>3, DepthAssumption, FS_CardinalityType DEF RecallInv, RecallType
      <4>3. Cardinality(Id) = 0
        BY <1>9, <4>1, <4>2
      <4>4. id \in Id
        BY CandidatesAreIds DEF RecallInv
      <4> QED BY <4>3, <4>4, DepthAssumption, FS_EmptySet
    <3> QED BY <1>1, <3>1, <3>2
  <2>3. PICK k \in 1..Len(d) : d[k] = id
    BY <1>5, <2>2 DEF Elements
  <2>4. PICK p \in 1..m : d[p] = s
    BY <1>7 DEF Elements
  <2>5. CASE k <= m
    <3>1. k \in 1..m /\ out'[k] = id
      BY <1>6, <1>7, <2>3, <2>5
    <3> QED BY <1>7, <3>1 DEF Elements
  <2>6. ASSUME ~(k <= m) PROVE FALSE
    <3>1. p < k /\ p \in 1..Len(d)
      BY <1>6, <2>6
    <3>2. Recalling!Fresher(s, id)
      BY <1>4, <1>5, <2>3, <2>4, <3>1
    <3> QED BY <2>1, <3>2 DEF Recalling!Fresher
  <2> QED BY <2>5, <2>6
<1>12. Recalling!CuratedLeads'
  <2>1. SUFFICES ASSUME NEW i \in 1..m, NEW j \in 1..m, d[i] \in curated, d[j] \notin curated,
                        (d[i] \in stale) = (d[j] \in stale),
                        Cardinality(Recalling!LegsOf(d[j])) <= Cardinality(Recalling!LegsOf(d[i])),
                        ~(i < j)
                 PROVE  FALSE
    BY <1>1, <1>7, <1>8, <1>10, SameCardinality DEF Recalling!CuratedLeads
  <2> DEFINE x == d[i]
             y == d[j]
  <2>2. j < i
    BY <1>6, <2>1
  <2>3. Recalling!Fresher(y, x)
    BY <1>4, <1>5, <1>7, <2>2
  <2>4. x \in Elements(out) /\ y \in Elements(out)
    BY <1>5, <1>7 DEF Elements
  <2>5. Recalling!Position(y, out) < Recalling!Position(x, out)
    BY <2>1, <2>3 DEF Recalling!Fresher
  <2>6. \A z \in Elements(out) :
          Recalling!Position(z, out) \in 1..Len(out) /\ out[Recalling!Position(z, out)] = z
    BY <1>3 DEF Elements, Recalling!Position
  <2>7. Heavier(y, x)
    BY <1>9, <2>4, <2>5, <2>6
  <2>8. x \in Recalling!Candidates /\ y \in Recalling!Candidates
    BY <1>9, <2>4
  <2> QED BY <2>1, <2>7, <2>8, CuratedIsHeavier DEF RecallInv
<1>13. RecallType'
  BY <1>1, <1>7 DEF RecallInv, RecallType, Recalling!input
<1>14. Pool' /\ Sorted'
  BY <1>1 DEF Pool, Sorted
<1> QED BY <1>11, <1>12, <1>13, <1>14 DEF RecallInv

LEMMA RecallKept == RecallInv /\ [Recalling!Next]_recallVars => RecallInv'
<1> SUFFICES ASSUME RecallInv, [Recalling!Next]_recallVars PROVE RecallInv'
  OBVIOUS
<1>1. CASE UNCHANGED recallVars
  <2>1. UNCHANGED Recalling!input /\ out' = out /\ order' = order /\ pc' = pc /\ stale' = stale
        /\ exists' = exists
    BY <1>1 DEF recallVars, Recalling!input
  <2>2. /\ Recalling!Candidates' = Recalling!Candidates
        /\ \A x, y : Heavier(x, y)' <=> Heavier(x, y)
        /\ \A x : Recalling!LegsOf(x)' = Recalling!LegsOf(x)
    BY <2>1, InputKept
  <2>3. RecallType'
    BY <2>1 DEF RecallInv, RecallType, Recalling!input
  <2>4. Pool'
    BY <2>1, <2>2 DEF RecallInv, Pool, Elements, Recalling!input
  <2>5. Sorted'
    BY <2>1, <2>2 DEF RecallInv, Sorted
  <2>6. Recalling!FreshFirst' /\ Recalling!CuratedLeads'
    BY <2>1, <2>2 DEF RecallInv, Recalling!FreshFirst, Recalling!CuratedLeads, Recalling!Returned,
       Recalling!Range, Recalling!input
  <2> QED BY <2>3, <2>4, <2>5, <2>6 DEF RecallInv
<1>2. CASE Recalling!Next
  BY <1>2, OthersKeepRecall, SearchKeepsRecall, ReadKeepsRecall, AnnotateKeepsRecall
     DEF Recalling!Next
<1> QED BY <1>1, <1>2

(* No stale hit is returned in the place of a fresh candidate, wherever that one    *)
(* ranks: the tool reads the whole pool before it demotes and cuts (server.ts:176). *)
THEOREM FreshComesFirst == Spec => []FreshFirst
<1> DEFINE Inv == part = "recall" => RecallInv
<1>1. Init => Inv
  BY SuiteInit, InitRecallInv
<1>2. Inv /\ [Next]_vars => Inv'
  BY SuiteStep, RecallKept
<1>3. Inv => FreshFirst
  BY DEF RecallInv, FreshFirst
<1> QED BY <1>1, <1>2, <1>3, PTL DEF Spec

(* A curated fact leads the raw turns of its freshness that no more indexes found,  *)
(* for every set of ids, ranking and limit up to a depth of 90: the weight 2.5 is   *)
(* more than the fused ranks can make up for (hybrid.ts, fts-recall.ts).            *)
THEOREM CuratedFactsLead == Spec => []CuratedLeads
<1> DEFINE Inv == part = "recall" => RecallInv
<1>1. Init => Inv
  BY SuiteInit, InitRecallInv
<1>2. Inv /\ [Next]_vars => Inv'
  BY SuiteStep, RecallKept
<1>3. Inv => CuratedLeads
  BY DEF RecallInv, CuratedLeads
<1> QED BY <1>1, <1>2, <1>3, PTL DEF Spec
=============================================================================
