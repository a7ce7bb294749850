-------------------------------- MODULE Setup --------------------------------
(***************************************************************************)
(* `abs setup` and `abs uninstall` (src/cli/cli.ts, src/cli/setup.ts): the  *)
(* MCP server is registered with the command line of the harness, which we  *)
(* only see through what it prints; the hooks are installed (Installers);    *)
(* and the person at the terminal is asked for an LLM, of which a marker is  *)
(* kept in the store.  A file-managed harness registers in Installers.      *)
(***************************************************************************)
EXTENDS Naturals, FiniteSets

CONSTANTS
  Run,      \* the runs of the two commands
  MaxRun    \* bound: runs begun

Scope == {"default", "user"}                   \* where a harness files a server
Choice == {"none", "local", "hosted", "declined", "configured"}

VARIABLES
  positional,  \* the harness takes positional arguments and a scope (Gemini)
  cli,         \* its command line is installed
  listed,      \* the scopes in which our server is registered
  similar,     \* another server's line of `mcp list` has our name in it
  hooks,       \* they are installed
  choice,      \* kv_meta setup:llmChoice
  run,         \* each run
  begun,
  person,      \* history: what the person did in the last interview
  behind       \* history: it ended while a run had already read the marker

vars == <<positional, cli, listed, similar, hooks, choice, run, begun, person, behind>>
world == <<positional, similar>>

Idle == [pc |-> "idle", op |-> "setup", tty |-> FALSE, live |-> FALSE, prior |-> "none", said |-> "none"]

Init ==
  /\ positional \in BOOLEAN /\ cli \in BOOLEAN /\ listed = {} /\ similar \in BOOLEAN
  /\ hooks = FALSE /\ choice = "none" /\ run = [r \in Run |-> Idle] /\ begun = 0
  /\ person = "none" /\ behind = FALSE

At(r, op, pc) == run[r].op = op /\ run[r].pc = pc
Goto(r, pc) == run' = [run EXCEPT ![r].pc = pc]
Says(r, what, pc) == run' = [run EXCEPT ![r].pc = pc, ![r].said = what]

\* tty: both ends are a terminal and there is no --harness; live: an LLM is
\* configured in its environment.
Begin(r, op, tty, live) ==
  /\ run[r].pc = "idle" /\ begun < MaxRun /\ begun' = begun + 1
  /\ run' = [run EXCEPT ![r] = [Idle EXCEPT !.pc = IF op = "setup" THEN "probe" ELSE "unhook",
                                            !.op = op, !.tty = tty, !.live = live]]
  /\ UNCHANGED <<world, cli, listed, hooks, choice, person, behind>>

\* An interrupt, a throw of the installer; the run ends where it is.
Stops(r) ==
  /\ run[r].pc # "idle" /\ run' = [run EXCEPT ![r] = Idle]
  /\ UNCHANGED <<world, cli, listed, hooks, choice, begun, person, behind>>

(*--------------------- the command line of the harness -------------------*)

InstallsCli ==
  /\ ~cli /\ cli' = TRUE
  /\ UNCHANGED <<world, listed, hooks, choice, run, begun, person, behind>>

\* `--version`: without it, the command to type is printed.
Probe(r) ==
  /\ run[r].pc = "probe"
  /\ IF cli THEN Goto(r, "list") ELSE Says(r, "unavailable", IF run[r].op = "setup" THEN "hook" ELSE "idle")
  /\ UNCHANGED <<world, cli, listed, hooks, choice, begun, person, behind>>

\* `mcp list`, searched for our name; when it fails the command is tried anyway.
Shows == listed # {} \/ similar
List(r) ==
  /\ run[r].pc = "list"
  /\ \/ run[r].op = "setup" /\ Shows /\ Says(r, "already", "hook")
     \/ run[r].op = "uninstall" /\ ~Shows /\ Says(r, "not-registered", "told")
     \/ Goto(r, "change")
  /\ UNCHANGED <<world, cli, listed, hooks, choice, begun, person, behind>>

\* `mcp add` fails on a name it has; `mcp remove` may succeed without it.
AddScope == IF positional THEN "user" ELSE "default"
Register(r) ==
  /\ At(r, "setup", "change")
  /\ \/ AddScope \notin listed /\ listed' = listed \cup {AddScope} /\ Says(r, "registered", "hook")
     \/ UNCHANGED listed /\ Says(r, "error", "hook")
  /\ UNCHANGED <<world, cli, hooks, choice, begun, person, behind>>

\* `mcp remove`, in the scope it was added to.
RemoveScope_Default == "default"   \* Mutant: no scope is passed (#87)
RemoveScope == IF positional THEN "user" ELSE "default"
Unregister(r) ==
  /\ At(r, "uninstall", "change")
  /\ \/ listed' = listed \ {RemoveScope} /\ Says(r, "removed", "told")
     \/ UNCHANGED listed /\ Says(r, "error", "told")
  /\ UNCHANGED <<world, cli, hooks, choice, begun, person, behind>>

(*----------------------------- the two commands --------------------------*)

InstallHooks(r) ==   \* the registration first, then the hooks
  /\ At(r, "setup", "hook") /\ hooks' = TRUE /\ Goto(r, "told")
  /\ UNCHANGED <<world, cli, listed, choice, begun, person, behind>>
RemoveHooks(r) ==
  /\ At(r, "uninstall", "unhook") /\ hooks' = FALSE /\ Goto(r, "probe")
  /\ UNCHANGED <<world, cli, listed, choice, begun, person, behind>>
Done(r) ==           \* the end of an uninstall; Purge has its last step
  /\ At(r, "uninstall", "told") /\ run' = [run EXCEPT ![r] = Idle]
  /\ UNCHANGED <<world, cli, listed, hooks, choice, begun, person, behind>>

(*------------------------------- the LLM step ----------------------------*)

\* runLlmSetupStep: the marker is read; the store may not open, and the step is left out.
ReadChoice(r) ==
  /\ At(r, "setup", "told")
  /\ \/ run' = [run EXCEPT ![r].pc = "marker", ![r].prior = choice]
     \/ run' = [run EXCEPT ![r] = Idle]
  /\ UNCHANGED <<world, cli, listed, hooks, choice, begun, person, behind>>

shouldPromptForLlm(r) == run[r].tty /\ ~run[r].live

\* An LLM is live, or a run without a person found no marker.
RecordWithoutPrompt_Always(r) ==   \* Mutant: a scripted run has declined
  /\ At(r, "setup", "marker") /\ ~shouldPromptForLlm(r)
  /\ choice' = IF ~run[r].live THEN "declined"
               ELSE IF run[r].prior \in {"local", "hosted"} THEN run[r].prior ELSE "configured"
  /\ run' = [run EXCEPT ![r] = Idle]
  /\ UNCHANGED <<world, cli, listed, hooks, begun, person, behind>>
RecordWithoutPrompt(r) ==
  /\ At(r, "setup", "marker") /\ ~shouldPromptForLlm(r)
  /\ choice' = CASE run[r].live /\ run[r].prior \in {"local", "hosted"} -> run[r].prior
                 [] run[r].live /\ run[r].prior \notin {"local", "hosted"} -> "configured"
                 [] ~run[r].live /\ run[r].prior = "none" -> "declined"
                 [] OTHER -> choice
  /\ run' = [run EXCEPT ![r] = Idle]
  /\ UNCHANGED <<world, cli, listed, hooks, begun, person, behind>>

\* conductInterview: local; hosted with a URL and a model; anything else, a half
\* answer and Ctrl-C included, declines.  What the probe answers changes nothing.
Interview(r, pick) ==
  /\ At(r, "setup", "marker") /\ shouldPromptForLlm(r)
  /\ pick \in {"local", "hosted", "declined"}
  /\ choice' = pick /\ person' = pick
  /\ behind' = \E q \in Run \ {r} : At(q, "setup", "marker")
  /\ run' = [run EXCEPT ![r] = Idle]
  /\ UNCHANGED <<world, cli, listed, hooks, begun>>

Next ==
  \/ \E r \in Run :
       \/ \E op \in {"setup", "uninstall"}, tty, live \in BOOLEAN : Begin(r, op, tty, live)
       \/ Stops(r) \/ Probe(r) \/ List(r) \/ Register(r) \/ Unregister(r)
       \/ InstallHooks(r) \/ RemoveHooks(r) \/ Done(r) \/ ReadChoice(r) \/ RecordWithoutPrompt(r)
       \/ \E pick \in Choice : Interview(r, pick)
  \/ InstallsCli

Spec == Init /\ [][Next]_vars

(*------------------------------- properties ------------------------------*)

\* Whatever runs came before, by a person or a script, stopped or not: what a
\* run tells of the MCP server is so when it tells it, unless a server of the
\* user's is mistaken for ours.
Told(r) == IF run'[r].pc # "idle" /\ run'[r].said # run[r].said THEN run'[r].said ELSE "none"
Truthful ==
  \A r \in Run : ~similar =>
    /\ Told(r) \in {"registered", "already"} => listed' # {}
    /\ Told(r) \in {"removed", "not-registered"} => listed' = {}
SaidSo == [][Truthful]_vars

\* setup.ts:447-450, "a scripted re-run never clobbers a real choice": however
\* many runs follow an interview, the marker is what the person chose in it, or
\* "configured" for one who declined and has an LLM since.  A run that had read
\* the marker before the interview ended may write over it.
ChoiceStands ==
  person # "none" /\ ~behind =>
    choice = person \/ (person = "declined" /\ choice = "configured")
=============================================================================
