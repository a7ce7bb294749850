-------------------------------- MODULE Hooks --------------------------------
(***************************************************************************)
(* The lifecycle hooks (src/hooks): at the start of a session, at each prompt  *)
(* and at its end the harness starts a process that reads its payload from     *)
(* stdin, does its work and prints at most one line.  The runner gives up      *)
(* after 8 s, but the handler it waited for goes on (runner.ts); the harness   *)
(* may kill the process at any time.                                         *)
(*                                                                         *)
(* Two notices are owed to the user: that a session is captured, and, once per *)
(* installation, that the cadence spends tokens.  Each is marked as shown      *)
(* before it is printed.  The session-end hook defers its capture while an     *)
(* index rebuild holds its lock, or while the embedding model is still being   *)
(* downloaded (session-end.ts).                                              *)
(***************************************************************************)
EXTENDS Naturals, FiniteSets

CONSTANTS
  Session,   \* the sessions of the harness, each with a process of its own
  MaxResume, \* bound: sessions resumed after their end
  MaxMixed   \* bound: sessions begun, when one of them is resumed

VARIABLES
  phase,      \* of each session
  resumes,    \* how many were resumed
  hook,       \* the hook that runs for it
  llm,        \* the sessions whose environment has an LLM and auto-distill on
  skipped,    \* those the user has left out
  firstFlag,  \* kv_meta notice-shown:<session>
  spendFlag,  \* kv_meta autoDistill:noticeShown
  cached,     \* the embedding model has been downloaded
  captured,   \* the sessions whose transcript is in store
  spawned,    \* those whose end has started a cadence
  told, spendTold,  \* history: the notices the user has seen
  missed, spendLost, \* history: the sessions whose start hook printed nothing; a
                    \* spend notice that was marked and not printed
  deferred          \* history: the sessions whose capture was put off

storeVars == <<skipped, firstFlag, spendFlag, captured>>
history == <<told, spendTold, missed, spendLost, deferred>>
vars == <<phase, resumes, hook, llm, skipped, firstFlag, spendFlag, cached, captured,
          spawned, told, spendTold, missed, spendLost, deferred>>

(* late: the runner has given up; notice, spend: what it is about to print. *)
Process == [event : {"start", "prompt", "end"}, pc : {"idle", "stdin", "mark", "out", "ready", "ingest", "due"},
            late : BOOLEAN, notice : BOOLEAN, spend : BOOLEAN]
NoHook == [event |-> "start", pc |-> "idle", late |-> FALSE, notice |-> FALSE, spend |-> FALSE]

Init ==
  /\ phase = [s \in Session |-> "new"] /\ hook = [s \in Session |-> NoHook] /\ resumes = 0
  /\ llm = {} /\ skipped = {} /\ firstFlag = {} /\ spendFlag = FALSE
  /\ cached = FALSE
  /\ captured = {} /\ spawned = {}
  /\ told = {} /\ spendTold = FALSE /\ missed = {} /\ spendLost = FALSE /\ deferred = {}

Runs(s, event, pc) == hook[s].pc = pc /\ hook[s].event = event
Goto(s, pc) == hook' = [hook EXCEPT ![s].pc = pc]
Ends(s) == hook' = [hook EXCEPT ![s] = NoHook]

---------------------------------------------------------------------------
(* The harness: one hook at a time for a session. *)

Fire(s, event) == hook[s].pc = "idle" /\ hook' = [hook EXCEPT ![s] = [NoHook EXCEPT !.event = event, !.pc = "stdin"]]

Open(s) ==   \* a session begins, or is resumed
  /\ \/ phase[s] = "new" /\ UNCHANGED resumes
     \/ phase[s] = "ended" /\ resumes < MaxResume /\ resumes' = resumes + 1
  /\ Fire(s, "start") /\ phase' = [phase EXCEPT ![s] = "open"]
  /\ resumes' > 0 => Cardinality({t \in Session : phase'[t] # "new"}) <= MaxMixed
  /\ llm' \in {llm \cup {s}, llm \ {s}}
  /\ UNCHANGED <<storeVars, cached, spawned, history>>
Prompt(s) ==
  /\ phase[s] = "open" /\ Fire(s, "prompt")
  /\ UNCHANGED <<phase, resumes, llm, storeVars, cached, spawned, history>>
End(s) ==
  /\ phase[s] = "open" /\ Fire(s, "end") /\ phase' = [phase EXCEPT ![s] = "ended"]
  /\ UNCHANGED <<resumes, llm, storeVars, cached, spawned, history>>

(* A process that ends without printing what it had to. *)
Forgone(s) ==
  /\ missed' = IF hook[s].event = "start" THEN missed \cup {s} ELSE missed
  /\ spendLost' = (spendLost \/ hook[s].spend)

(* runHookSafely: the 8 s end while the handler awaits its stdin; nothing is    *)
(* printed any more, the handler goes on.  (At the end nothing is printed.)     *)
TimesOut(s) ==
  /\ hook[s].pc = "stdin" /\ hook[s].event # "end" /\ ~hook[s].late
  /\ hook' = [hook EXCEPT ![s].late = TRUE]
  /\ UNCHANGED <<phase, resumes, llm, storeVars, cached, spawned, history>>

(* The handler throws before it has changed anything, or the process is killed. *)
Fails(s) ==
  /\ hook[s].pc # "idle" /\ Ends(s) /\ Forgone(s)
  /\ UNCHANGED <<phase, resumes, llm, storeVars, cached, spawned, told, spendTold, deferred>>

---------------------------------------------------------------------------
(* session-start *)

GatherFacts_Burns(s) ==   \* Mutant: the flag is taken by a session without an LLM, too
  /\ Runs(s, "start", "stdin")
  /\ hook' = [hook EXCEPT ![s].pc = IF ~spendFlag THEN "mark" ELSE "out", ![s].notice = s \notin skipped]
  /\ UNCHANGED <<phase, resumes, llm, storeVars, cached, spawned, history>>

(* gatherFactsFromStore: is the one-time notice due?  Is there a decision? *)
GatherFacts(s) ==
  /\ Runs(s, "start", "stdin")
  /\ hook' = [hook EXCEPT ![s].pc = IF s \in llm /\ ~spendFlag THEN "mark" ELSE "out",
                          ![s].notice = s \notin skipped]
  /\ UNCHANGED <<phase, resumes, llm, storeVars, cached, spawned, history>>

(* consumeAutoDistillNoticeFlag: read by GatherFacts, set here. *)
ConsumeSpendFlag(s) ==
  /\ Runs(s, "start", "mark")
  /\ spendFlag' = TRUE
  /\ hook' = [hook EXCEPT ![s].pc = "out", ![s].spend = s \in llm]
  /\ UNCHANGED <<phase, resumes, llm, skipped, firstFlag, captured, cached, spawned, history>>

---------------------------------------------------------------------------
(* user-prompt-submit *)

RecallFromStore(s) ==
  /\ Runs(s, "prompt", "stdin")
  /\ Goto(s, IF s \notin skipped \cup firstFlag THEN "mark" ELSE "out")
  /\ UNCHANGED <<phase, resumes, llm, storeVars, cached, spawned, history>>

ConsumeFirstPromptFlag(s) ==
  /\ Runs(s, "prompt", "mark")
  /\ firstFlag' = firstFlag \cup {s}
  /\ hook' = [hook EXCEPT ![s].pc = "out", ![s].notice = TRUE]
  /\ UNCHANGED <<phase, resumes, llm, skipped, spendFlag, captured, cached, spawned, history>>

Emit_IfStored(s) ==   \* Mutant: the notice is part of the baseline, which an empty store has not
  /\ hook[s].pc = "out" /\ Ends(s)
  /\ IF hook[s].late THEN Forgone(s) /\ UNCHANGED <<told, spendTold>>
     ELSE /\ told' = IF hook[s].notice /\ captured # {} THEN told \cup {s} ELSE told
          /\ spendTold' = (spendTold \/ hook[s].spend) /\ UNCHANGED <<missed, spendLost>>
  /\ UNCHANGED <<phase, resumes, llm, storeVars, cached, spawned, deferred>>

(* The one line on stdout, of either hook. *)
Emit(s) ==
  /\ hook[s].pc = "out" /\ Ends(s)
  /\ IF hook[s].late THEN Forgone(s) /\ UNCHANGED <<told, spendTold>>
     ELSE /\ told' = IF hook[s].notice THEN told \cup {s} ELSE told
          /\ spendTold' = (spendTold \/ hook[s].spend) /\ UNCHANGED <<missed, spendLost>>
  /\ UNCHANGED <<phase, resumes, llm, storeVars, cached, spawned, deferred>>

---------------------------------------------------------------------------
(* session-end *)

(* While a rebuild holds its lock (RebuildLock) the session is left for later. *)
CheckLock(s) ==
  /\ Runs(s, "end", "stdin")
  /\ \/ Ends(s) /\ deferred' = deferred \cup {s}
     \/ Goto(s, "ready") /\ UNCHANGED deferred
  /\ UNCHANGED <<phase, resumes, llm, storeVars, cached, spawned, told, spendTold, missed, spendLost>>

(* ensureReady within 6 s: the model is there, or arrives in time, or later. *)
EnsureReady(s) ==
  /\ Runs(s, "end", "ready")
  /\ \/ Goto(s, "ingest") /\ cached' = TRUE /\ UNCHANGED deferred
     \/ ~cached /\ Ends(s) /\ cached' \in BOOLEAN /\ deferred' = deferred \cup {s}
  /\ UNCHANGED <<phase, resumes, llm, storeVars, spawned, told, spendTold, missed, spendLost>>

(* ingestSingleSession, of its own transcript only. *)
Ingest(s) ==
  /\ Runs(s, "end", "ingest") /\ Goto(s, "due")
  /\ captured' = IF s \in skipped THEN captured \ {s} ELSE captured \cup {s}
  /\ UNCHANGED <<phase, resumes, llm, skipped, firstFlag, spendFlag, cached, spawned, history>>

(* A session with an LLM and enough observations spawns a cadence. *)
SpawnCadence(s) ==
  /\ Runs(s, "end", "due") /\ Ends(s)
  /\ spawned' \in {spawned} \cup {spawned \cup {s} : t \in llm \cap captured \cap {s}}
  /\ UNCHANGED <<phase, resumes, llm, storeVars, cached, history>>

---------------------------------------------------------------------------
(* The rest of the program *)

Skip(s) ==   \* the tool set_session_project, or `abs project --skip`
  /\ phase[s] = "open" /\ skipped' = skipped \cup {s} /\ captured' = captured \ {s}
  /\ UNCHANGED <<phase, resumes, hook, llm, firstFlag, spendFlag, cached, spawned, history>>
IngestAll ==   \* `abs ingest --apply`
  /\ captured' = captured \cup {s \in Session \ skipped : phase[s] # "new"} /\ cached' = TRUE
  /\ UNCHANGED <<phase, resumes, hook, llm, skipped, firstFlag, spendFlag, spawned, history>>
Handler(s) ==
  \/ GatherFacts(s) \/ ConsumeSpendFlag(s) \/ RecallFromStore(s) \/ ConsumeFirstPromptFlag(s)
  \/ Emit(s) \/ CheckLock(s) \/ EnsureReady(s) \/ Ingest(s) \/ SpawnCadence(s)

Next ==
  \/ \E s \in Session : \/ Open(s) \/ Prompt(s) \/ End(s) \/ TimesOut(s) \/ Fails(s)
                        \/ Handler(s) \/ Skip(s)
  \/ IngestAll

Spec == Init /\ [][Next]_vars

(* Every session begins and ends, and its hooks run. *)
FairSpec ==
  /\ Spec
  /\ \A s \in Session : WF_vars(Handler(s)) /\ WF_vars(End(s)) /\ WF_vars(phase[s] = "new" /\ Open(s))

---------------------------------------------------------------------------
(* "Automatic LLM spend must never be a silent surprise" (session-start.ts:243):  *)
(* a session whose start hook printed something spawns a cadence only if the      *)
(* one-time notice was printed before, here or in another session, is about to    *)
(* be, or was lost after it had been marked.                                    *)
SpendAnnounced ==
  \A s \in spawned \ missed :
    spendTold \/ spendLost \/ \E t \in Session : hook[t].pc = "out" /\ hook[t].spend

(* What a session-end hook captures, the user was told of while the session ran,  *)
(* in a store with rows or in an empty one, unless no hook of its start printed.  *)
CaptureAnnounced ==
  \A s \in captured : phase[s] = "ended" => s \in told \cup missed

(* session-end.ts:107-109: a deferred session is re-pulled by "a later `abs      *)
(* ingest` (or the next unlocked SessionEnd)"; its message (l.114) promises that  *)
(* it "will be re-ingested later (no data lost)".                               *)
DeferredIsCaptured ==
  \A s \in Session : \A t \in Session :
    (s \in deferred /\ Runs(t, "end", "due")) ~> (s \in captured \cup skipped)
=============================================================================
