----------------------------- MODULE HarnessSuite -----------------------------
(***************************************************************************)
(* The components around the harnesses, the models and the user's files that   *)
(* share no state in this abstraction, side by side: each behaviour is one of   *)
(* a single component, which `part` names, and the variables of the others      *)
(* keep the value Off.                                                       *)
(***************************************************************************)
EXTENDS Naturals, Sequences, FiniteSets

CONSTANTS
  Session, MaxResume, MaxMixed,            \* Hooks
  Text, Cwd, MaxLine, MaxDelete,           \* Transcripts
  Entry, Foreign, Hook, MaxEdit,           \* Installers
  Run, MaxRun,                             \* Setup; Run of Installers, too
  Id, Rank, Scale, MaxLimit, MaxChange,    \* Recall
  MaxAttempts, MaxDelay,                   \* HttpRetry
  Caller, MaxLoad                          \* ModelLoad

\* At least one attempt is made, and no marker is a text, a directory or a hook.
ASSUME BoundAssumption == MaxAttempts \in Nat \ {0} /\ {MaxDelay, MaxLoad} \subseteq Nat
ASSUME MarkerAssumption == "empty" \notin Text /\ Cwd \cap {"dir", "none"} = {} /\ "mcp" \notin Hook

\* Recall: the weight of a curated kind, 2.5, makes up for a depth of 90 in a leg,
\* no more (1 / 60 is 2.5 / 150); the pools are that deep for up to 18 results.
ASSUME DepthAssumption ==
  /\ IsFiniteSet(Id) /\ Rank \in Seq(1..90) /\ Cardinality(Id) <= Len(Rank) /\ MaxLimit \in Nat
  /\ Scale \in Nat \ {0}
  /\ \A i \in DOMAIN Rank : Scale % (60 + Rank[i]) = 0 /\ Scale % (59 + Rank[i]) = 0

VARIABLES
  part,
  phase, resumes, hook, llm, skipped, firstFlag, spendFlag,
  cached, captured, spawned, told, spendTold, missed, spendLost, deferred, \* Hooks
  harness, lines, cursor, hint, label, born, stored, run, deletes, replayed, \* Transcripts
  target, config, plugin, saved, recent, edit, edits, mine, excused, crossed, \* Installers
  positional, cli, listed, similar, hooks, choice, command, begun, person, behind, \* Setup
  caller, limit, vector, fts, curated, relevant,
  exists, stale, changes, pc, order, out,                   \* Recall
  client, at, attempt, aborted, result, sent, late, slept,  \* HttpRetry
  load, cache, waiting, slow                                \* ModelLoad

Hooking == INSTANCE Hooks
Parsing == INSTANCE Transcripts
Installing == INSTANCE Installers WITH harness <- target, file <- config, run <- edit
SettingUp == INSTANCE Setup WITH run <- command
Recalling == INSTANCE Recall
Retrying == INSTANCE HttpRetry WITH pc <- at, out <- result
Loading == INSTANCE ModelLoad WITH caller <- waiting

Off == 0
HookingOff ==
  /\ phase = Off /\ resumes = Off /\ hook = Off /\ llm = Off /\ skipped = Off /\ firstFlag = Off
  /\ spendFlag = Off /\ cached = Off /\ captured = Off /\ spawned = Off /\ told = Off /\ spendTold = Off
  /\ missed = Off /\ spendLost = Off /\ deferred = Off
ParsingOff ==
  /\ harness = Off /\ lines = Off /\ cursor = Off /\ hint = Off /\ label = Off /\ born = Off
  /\ stored = Off /\ run = Off /\ deletes = Off /\ replayed = Off
InstallingOff ==
  /\ target = Off /\ config = Off /\ plugin = Off /\ saved = Off /\ recent = Off /\ edit = Off
  /\ edits = Off /\ mine = Off /\ excused = Off /\ crossed = Off
SettingUpOff ==
  /\ positional = Off /\ cli = Off /\ listed = Off /\ similar = Off /\ hooks = Off /\ choice = Off
  /\ command = Off /\ begun = Off /\ person = Off /\ behind = Off
RecallingOff ==
  /\ caller = Off /\ limit = Off /\ vector = Off /\ fts = Off /\ curated = Off /\ relevant = Off
  /\ exists = Off /\ stale = Off /\ changes = Off /\ pc = Off /\ order = Off /\ out = Off
RetryingOff ==
  /\ client = Off /\ at = Off /\ attempt = Off /\ aborted = Off
  /\ result = Off /\ sent = Off /\ late = Off /\ slept = Off
LoadingOff ==
  /\ load = Off /\ cache = Off /\ waiting = Off /\ slow = Off

Init ==
  \/ /\ part = "hooks" /\ Hooking!Init
     /\ ParsingOff /\ InstallingOff /\ SettingUpOff /\ RecallingOff
     /\ RetryingOff /\ LoadingOff
  \/ /\ part = "transcripts" /\ Parsing!Init
     /\ HookingOff /\ InstallingOff /\ SettingUpOff /\ RecallingOff
     /\ RetryingOff /\ LoadingOff
  \/ /\ part = "installers" /\ Installing!Init
     /\ HookingOff /\ ParsingOff /\ SettingUpOff /\ RecallingOff
     /\ RetryingOff /\ LoadingOff
  \/ /\ part = "setup" /\ SettingUp!Init
     /\ HookingOff /\ ParsingOff /\ InstallingOff /\ RecallingOff
     /\ RetryingOff /\ LoadingOff
  \/ /\ part = "recall" /\ Recalling!Init
     /\ HookingOff /\ ParsingOff /\ InstallingOff /\ SettingUpOff
     /\ RetryingOff /\ LoadingOff
  \/ /\ part = "retry" /\ Retrying!Init
     /\ HookingOff /\ ParsingOff /\ InstallingOff /\ SettingUpOff
     /\ RecallingOff /\ LoadingOff
  \/ /\ part = "load" /\ Loading!Init
     /\ HookingOff /\ ParsingOff /\ InstallingOff /\ SettingUpOff
     /\ RecallingOff /\ RetryingOff

hooksVars ==
  <<phase, resumes, hook, llm, skipped, firstFlag, spendFlag,
    cached, captured, spawned, told, spendTold, missed, spendLost, deferred>>
transcriptsVars ==
  <<harness, lines, cursor, hint, label,
    born, stored, run, deletes, replayed>>
installersVars == <<target, config, plugin, saved, recent, edit, edits, mine, excused, crossed>>
setupVars ==
  <<positional, cli, listed, similar, hooks,
    choice, command, begun, person, behind>>
recallVars ==
  <<caller, limit, vector, fts, curated, relevant,
    exists, stale, changes, pc, order, out>>
retryVars == <<client, at, attempt, aborted, result, sent, late, slept>>
loadVars == <<load, cache, waiting, slow>>
vars == <<part, hooksVars, transcriptsVars, installersVars, setupVars,
          recallVars, retryVars, loadVars>>

Hooks ==
  /\ part = "hooks" /\ Hooking!Next
  /\ UNCHANGED <<part, transcriptsVars, installersVars, setupVars, recallVars, retryVars, loadVars>>
Transcripts ==
  /\ part = "transcripts" /\ Parsing!Next
  /\ UNCHANGED <<part, hooksVars, installersVars, setupVars, recallVars, retryVars, loadVars>>
Installers ==
  /\ part = "installers" /\ Installing!Next
  /\ UNCHANGED <<part, hooksVars, transcriptsVars, setupVars, recallVars, retryVars, loadVars>>
Setup ==
  /\ part = "setup" /\ SettingUp!Next
  /\ UNCHANGED <<part, hooksVars, transcriptsVars, installersVars, recallVars, retryVars, loadVars>>
Recall ==
  /\ part = "recall" /\ Recalling!Next
  /\ UNCHANGED <<part, hooksVars, transcriptsVars, installersVars, setupVars, retryVars, loadVars>>
HttpRetry ==
  /\ part = "retry" /\ Retrying!Next
  /\ UNCHANGED <<part, hooksVars, transcriptsVars, installersVars, setupVars, recallVars, loadVars>>
ModelLoad ==
  /\ part = "load" /\ Loading!Next
  /\ UNCHANGED <<part, hooksVars, transcriptsVars, installersVars, setupVars, recallVars, retryVars>>

Next == Hooks \/ Transcripts \/ Installers \/ Setup \/ Recall \/ HttpRetry \/ ModelLoad

Spec == Init /\ [][Next]_vars

\* Hooks: no automatic spend that the user was not told of.
SpendAnnounced == part = "hooks" => Hooking!SpendAnnounced
\* Hooks: what is captured was announced while the session ran.
CaptureAnnounced == part = "hooks" => Hooking!CaptureAnnounced
\* Transcripts: a file cut into runs in any way loses no turn.
NoTurnLost == part = "transcripts" => Parsing!NoTurnLost
\* Transcripts: a session is filed under the directory in force at its first turn.
FiledRight == part = "transcripts" => Parsing!FiledRight
\* Installers: what the user wrote is in the file or in a backup of it.
UserConfigKept == part = "installers" => Installing!UserConfigKept
\* Installers: an OpenCode configuration never names a plugin file that is missing.
PluginThere == part = "installers" => Installing!PluginThere
\* Setup: what a run says of the registration is so.
SaidSo == [][part = "setup" => SettingUp!Truthful]_vars
\* Setup: no later run overwrites what the person chose.
ChoiceStands == part = "setup" => SettingUp!ChoiceStands
\* Recall: a fresh candidate is returned before any stale one.
FreshFirst == part = "recall" => Recalling!FreshFirst
\* Recall: a curated fact leads the raw turns of its freshness.
CuratedLeads == part = "recall" => Recalling!CuratedLeads
\* HttpRetry: an abort ends the attempts, and the waiting is bounded.
AbortStops == part = "retry" => Retrying!AbortStops
\* ModelLoad: one load at a time, shared, and no failed one kept.
OneLoad == part = "load" => Loading!OneLoad
=============================================================================
