----------------------------- MODULE Installers ------------------------------
(***************************************************************************)
(* The installers of the harnesses (src/hooks/installer.ts, self-heal.ts,  *)
(* src/harness/capabilities/*-installer.ts): each edits a configuration    *)
(* file that belongs to the user and to the harness, by reading it, backing *)
(* it up and renaming a new file over it, with no lock.  A file that cannot  *)
(* be read counts as one that is not there.                                *)
(*                                                                         *)
(* A file is what the user has in it and which of our hooks.  "broken" is  *)
(* a form the installer cannot edit: text that is no JSON, an OpenCode     *)
(* config with comments, a Codex file whose managed block has lost its END *)
(* marker.  Installing the Codex block over that one leaves it "spliced":  *)
(* the user's tables lie between the orphan BEGIN and the END of the new   *)
(* block.                                                                  *)
(***************************************************************************)
EXTENDS Naturals, FiniteSets

CONSTANTS
  Entry,     \* what a user writes into a configuration
  Foreign,   \* the one of them that is an MCP server with our name
  Hook,      \* the hooks of the registry
  Run,       \* runs of `abs setup`, `abs uninstall` and `abs start`
  MaxEdit    \* bound: edits by the user and by other tools

Harness == {"claude-code", "gemini", "copilot", "codex", "opencode"}
Op == {"install", "uninstall", "register", "heal"}
Server == "mcp"       \* our MCP server, in an OpenCode configuration
Absent == [form |-> "absent", user |-> {}, ours |-> {}]

VARIABLES
  harness,   \* the one whose file this is
  file,
  plugin,    \* the plugin file of OpenCode, to which its configuration refers
  saved,     \* the user's entries in the backups whose names will not come again
  recent,    \* those that only the last backup has, named by a millisecond that may still last
  run,       \* what each run is doing, with the file it will write
  edits,
  mine,      \* history: the entries the user has put in and not taken out
  excused,   \* history: those of them that may be lost, for the reasons UserConfigKept gives
  crossed    \* history: a run began while another was under way

vars == <<harness, file, plugin, saved, recent, run, edits, mine, excused, crossed>>
backups == <<saved, recent>>

Idle == [pc |-> "idle", op |-> "install", new |-> Absent]

Init ==
  /\ harness \in Harness
  /\ file = Absent /\ plugin = FALSE /\ saved = {} /\ recent = {} /\ run = [r \in Run |-> Idle]
  /\ edits = 0 /\ mine = {} /\ excused = {} /\ crossed = FALSE

(*------------- what an installer makes of the file it has read -----------*)

Result(how, f) == [how |-> how, file |-> f]
Unless(same, f) == Result(IF same THEN "noop" ELSE "write", f)
\* All but Claude Code's compare texts: `exact` when layout, order and place of the
\* entries are as the installer writes them.
With(f, user, ours) == [form |-> "plain", user |-> user, ours |-> ours]
Parsed(f) == IF f.form = "broken" THEN {} ELSE f.user   \* readSettings of Gemini: start fresh

ClaudeInstall_Fresh(f) ==   \* Mutant: as Gemini's, it starts fresh
  Unless(f.form = "plain" /\ Hook \subseteq f.ours, With(f, Parsed(f), Hook))
\* readSettings throws on what is no JSON.
ClaudeInstall(f) ==
  IF f.form = "broken" THEN Result("refuse", f) ELSE Unless(Hook \subseteq f.ours, With(f, f.user, Hook))
ClaudeUninstall(f) ==
  IF f.form = "broken" THEN Result("refuse", f) ELSE Unless(f.ours = {}, With(f, f.user, {}))

GeminiInstall(f, exact) ==
  Unless(exact /\ f.form = "plain" /\ Hook \subseteq f.ours, With(f, Parsed(f), Hook))
GeminiUninstall(f, exact) == Unless(f.form # "plain" \/ (exact /\ f.ours = {}), With(f, f.user, {}))
CopilotInstall(f, exact) ==
  Unless(exact /\ f.form = "plain" /\ Hook \subseteq f.ours, With(f, Parsed(f), Hook))
CopilotUninstall(f, exact) == Unless(f.form # "plain" \/ (exact /\ f.ours = {}), With(f, f.user, {}))

\* stripManaged: from the first BEGIN to the first END, nothing when that is missing.
CodexStripped(f) ==
  IF f.form = "broken" THEN f ELSE With(f, IF f.form = "spliced" THEN {} ELSE f.user, {})
CodexInstall(f, exact) ==   \* the block goes to the end of what is left
  Unless(exact /\ f.form = "plain" /\ Hook \subseteq f.ours,
         [CodexStripped(f) EXCEPT !.form = IF f.form = "broken" THEN "spliced" ELSE "plain", !.ours = Hook])
CodexUninstall(f) == Unless(f.ours = {}, CodexStripped(f))

\* editOpencodeConfig: comments in the JSON, and it prints what to paste.
OpencodeEdit(f, exact, user, ours) ==
  IF f.form = "broken" THEN Result("manual", f)
                       ELSE Unless(exact /\ With(f, user, ours) = f, With(f, user, ours))
OpencodeInstall(f, exact) == OpencodeEdit(f, exact, f.user, f.ours \cup Hook)
OpencodeUninstall(f, exact) == OpencodeEdit(f, exact, f.user \ {Foreign}, {})   \* whoever has our name
OpencodeRegister(f, exact) ==
  OpencodeEdit(f, exact, f.user, IF Foreign \in f.user THEN f.ours ELSE f.ours \cup {Server})

Edited(op, f, exact) ==
  CASE harness = "claude-code" /\ op \in {"install", "heal"} -> ClaudeInstall(f)
    [] harness = "claude-code" /\ op = "uninstall" -> ClaudeUninstall(f)
    [] harness = "gemini" /\ op = "install" -> GeminiInstall(f, exact)
    [] harness = "gemini" /\ op = "uninstall" -> GeminiUninstall(f, exact)
    [] harness = "copilot" /\ op = "install" -> CopilotInstall(f, exact)
    [] harness = "copilot" /\ op = "uninstall" -> CopilotUninstall(f, exact)
    [] harness = "codex" /\ op = "install" -> CodexInstall(f, exact)
    [] harness = "codex" /\ op = "uninstall" -> CodexUninstall(f)
    [] harness = "opencode" /\ op = "install" -> OpencodeInstall(f, exact)
    [] harness = "opencode" /\ op = "uninstall" -> OpencodeUninstall(f, exact)
    [] harness = "opencode" /\ op = "register" -> OpencodeRegister(f, exact)
    [] OTHER -> Result("refuse", f)

(*------------------------------- the runs --------------------------------*)

Others(r) == \E q \in Run \ {r} : run[q].pc # "idle"
Begins(r, pc, op) ==
  /\ run[r].pc = "idle" /\ crossed' = (crossed \/ Others(r))
  /\ run' = [run EXCEPT ![r] = [Idle EXCEPT !.pc = pc, !.op = op]]

\* `abs setup`, `abs uninstall`, `abs start` with its self-heal.  A process is longer
\* in starting than a millisecond: what was backed up before keeps its name.
Start(r, op) ==
  /\ Begins(r, IF harness = "opencode" /\ op = "install" THEN "plugin" ELSE "read", op)
  /\ op = "heal" => harness = "claude-code"
  /\ op = "register" => harness = "opencode"
  /\ saved' = saved \cup recent /\ recent' = {}
  /\ UNCHANGED <<harness, file, plugin, edits, mine, excused>>

WritePlugin(r) ==
  /\ run[r].pc = "plugin" /\ plugin' = TRUE
  /\ run' = [run EXCEPT ![r].pc = "read"]
  /\ UNCHANGED <<harness, file, backups, edits, mine, excused, crossed>>

\* After the configuration: the plugin file goes, unless it could not be edited.
After(r) == IF harness = "opencode" /\ run[r].op = "uninstall" THEN "unlink" ELSE "idle"

\* What cannot be read counts as absent.  The self-heal, which runs at every start
\* of the server, makes no backup.
Read(r) ==
  /\ run[r].pc = "read"
  /\ \E got \in {file, Absent}, exact \in BOOLEAN, copied \in BOOLEAN :
       LET res == Edited(run[r].op, got, exact)
       IN /\ run' = [run EXCEPT ![r].new = IF res.how = "write" THEN res.file ELSE Absent,
                     ![r].pc = CASE res.how = "write" -> (IF run[r].op = "heal" THEN "write" ELSE "backup")
                                 [] res.how = "noop" -> After(r)
                                 [] OTHER -> "idle"]
          /\ saved' = IF res.how = "manual" /\ copied THEN saved \cup file.user ELSE saved
          /\ excused' = IF run[r].op = "heal" /\ got # file THEN excused \cup file.user ELSE excused
  /\ UNCHANGED <<harness, file, plugin, recent, edits, mine, crossed>>

\* A copy of the file as it is now, under a name of its own; or under that of the
\* last one, taken in the same millisecond (OpenCode's names carry the process and a
\* count); or none, when the file cannot be read.
Backup(r) ==
  /\ run[r].pc = "backup"
  /\ \/ saved' = saved \cup recent /\ recent' = file.user \ saved' /\ UNCHANGED excused
     \/ /\ harness # "opencode" /\ recent # {}
        /\ recent' = file.user \ saved /\ excused' = excused \cup (recent \ file.user) /\ UNCHANGED saved
     \/ excused' = excused \cup (file.user \ run[r].new.user) /\ UNCHANGED backups
  /\ run' = [run EXCEPT ![r].pc = "write"]
  /\ UNCHANGED <<harness, file, plugin, edits, mine, crossed>>

Write_UnlinksFirst(r) ==   \* Mutant: the plugin file goes before the configuration that names it
  LET first == After(r) = "unlink" /\ plugin
  IN /\ run[r].pc = "write"
     /\ plugin' = (plugin /\ ~first) /\ file' = IF first THEN file ELSE run[r].new
     /\ run' = IF first THEN run ELSE [run EXCEPT ![r] = Idle]
     /\ UNCHANGED <<harness, backups, edits, mine, excused, crossed>>
\* The rename over the file, whatever it holds now.
Write(r) ==
  /\ run[r].pc = "write" /\ file' = run[r].new
  /\ run' = [run EXCEPT ![r] = IF After(r) = "idle" THEN Idle ELSE [run[r] EXCEPT !.pc = After(r), !.new = Absent]]
  /\ UNCHANGED <<harness, plugin, backups, edits, mine, excused, crossed>>

Unlink(r) ==
  /\ run[r].pc = "unlink" /\ plugin' = FALSE
  /\ run' = [run EXCEPT ![r] = Idle]
  /\ UNCHANGED <<harness, file, backups, edits, mine, excused, crossed>>

\* A failed write, or the end of the process: the temporary file is left.
Stops(r) ==
  /\ run[r].pc # "idle"
  /\ run' = [run EXCEPT ![r] = Idle]
  /\ UNCHANGED <<harness, file, plugin, backups, edits, mine, excused, crossed>>

(*---------------------- the user and other programs ----------------------*)

Edits == edits < MaxEdit /\ edits' = edits + 1
Unwritten(f) == IF f.form = "absent" THEN "plain" ELSE f.form

Add(e) ==
  /\ Edits /\ e \notin file.user
  /\ file' = [file EXCEPT !.user = @ \cup {e}, !.form = Unwritten(file),
                           !.ours = IF e = Foreign THEN @ \ {Server} ELSE @]
  /\ mine' = mine \cup {e}
  /\ excused' = IF \E r \in Run : run[r].pc = "write" THEN excused \cup {e} ELSE excused \ {e}
  /\ UNCHANGED <<harness, plugin, backups, run, crossed>>

Remove(e) ==
  /\ Edits /\ e \in file.user
  /\ file' = [file EXCEPT !.user = @ \ {e}]
  /\ mine' = mine \ {e} /\ excused' = excused \ {e}
  /\ UNCHANGED <<harness, plugin, backups, run, crossed>>

\* A typing error, a comment in JSON, a lost marker; a Codex file without our
\* block cannot break.
Break ==
  /\ Edits /\ file.form = "plain" /\ (harness = "codex" => file.ours # {})
  /\ file' = [file EXCEPT !.form = "broken"]
  /\ UNCHANGED <<harness, plugin, backups, run, mine, excused, crossed>>

Repair ==
  /\ Edits /\ file.form = "broken"
  /\ file' = [file EXCEPT !.form = "plain"]
  /\ UNCHANGED <<harness, plugin, backups, run, mine, excused, crossed>>

\* Another tool rewrites the file and drops hooks that are not its own.
Evict ==
  /\ Edits /\ file.form = "plain"
  /\ file' \in {[file EXCEPT !.ours = @ \ H] : H \in SUBSET Hook \ {{}}}
  /\ UNCHANGED <<harness, plugin, backups, run, mine, excused, crossed>>

Next ==
  \/ \E r \in Run : \/ \E op \in Op : Start(r, op)
                   \/ WritePlugin(r) \/ Read(r) \/ Backup(r) \/ Write(r) \/ Unlink(r) \/ Stops(r)
  \/ \E e \in Entry : Add(e) \/ Remove(e)
  \/ Break \/ Repair \/ Evict

Spec == Init /\ [][Next]_vars

(*------------------------------- properties ------------------------------*)

\* What the user has put into a configuration is in the file or in a backup
\* of it, with two runs at once, stops, and a file that cannot be parsed.  It may be
\* lost in three ways only: saved between a run's last copy and its rename; not
\* readable for a run's backup, or for a self-heal, which then replaces the file all
\* the same (hooks/installer.ts:111-115 and 168-178; "the user's bytes are preserved
\* via backup" is said of what is malformed); or in a backup that another run's of
\* the same millisecond overwrites.
UserConfigKept ==
  mine \subseteq file.user \cup saved \cup recent \cup excused

\* A configuration of OpenCode that refers to our plugin has its file beside it,
\* wherever a run stops; two runs at once may break that.
PluginThere ==
  harness = "opencode" /\ file.ours \cap Hook # {} => plugin \/ crossed
=============================================================================
