----------------------------- MODULE Transcripts -----------------------------
(***************************************************************************)
(* The line parsers of the transcripts (src/ingest/claude-jsonl.ts,         *)
(* codex-jsonl.ts, copilot-jsonl.ts) as an ingestion drives them: from its  *)
(* byte cursor, with what earlier runs left of the lines before it, which   *)
(* is the working directory they named and nothing else.  Capture has the   *)
(* rest of an ingestion.                                                   *)
(***************************************************************************)
EXTENDS Naturals, Sequences, FiniteSets

CONSTANTS
  Text,      \* what a turn says, injected wrappers removed; a Copilot event id, too
  Cwd,       \* working directories
  MaxLine,   \* bound: lines of the transcript
  MaxDelete  \* bound: deletions of the session by the user

Harness == {"claude-code", "codex", "copilot"}
Storage == "dir"      \* the label of the directory the transcript is in
Nothing == "empty"    \* a turn of tools only, of injected text, an event that is none

\* cwd: session_meta and session.context_changed, which are no turns; item: a
\* message; event: an event_msg of Codex, mostly the mirror of the item before
\* it; other: a line that is skipped, malformed JSON included.
Line ==
  [type : {"cwd"}, text : {Nothing}, cwd : Cwd] \cup [type : {"item", "event"}, text : Text \cup {Nothing}, cwd : {Storage}]
  \cup [type : {"other"}, text : {Nothing}, cwd : {Storage}]
ClaudeLine == [type : {"item"}, text : Text \cup {Nothing}, cwd : Cwd \cup {Storage}]

VARIABLES
  harness, lines,
  cursor, hint,     \* ingest:cursor and the cached cwd of the transcript
  label, born,      \* the project of the stored session, the line that made it
  stored,           \* the lines stored as observations since
  run,              \* the ingestion: how far it is, and the state of its parser
  deletes,
  replayed          \* history: a run ended between the two keys

vars == <<harness, lines, cursor, hint, label, born, stored, run, deletes, replayed>>
session == <<label, born, stored>>

Idle == [pc |-> "idle", at |-> 0, cwd |-> Storage, observed |-> Storage, armed |-> Nothing, seen |-> {}]

Init ==
  /\ harness \in Harness /\ lines = <<>> /\ cursor = 0 /\ hint = Storage
  /\ label = "none" /\ born = 0 /\ stored = {} /\ run = Idle /\ deletes = 0 /\ replayed = FALSE

Write(l) ==
  /\ Len(lines) < MaxLine /\ l \in (IF harness = "claude-code" THEN ClaudeLine ELSE Line)
  /\ harness = "copilot" => l.type # "event"
  /\ harness = "codex" /\ l.type = "cwd" => lines = <<>>   \* session_meta leads
  /\ lines' = Append(lines, l)
  /\ UNCHANGED <<harness, cursor, hint, session, run, deletes, replayed>>

DeleteSession ==
  /\ label # "none" /\ deletes < MaxDelete /\ deletes' = deletes + 1
  /\ label' = "none" /\ born' = 0 /\ stored' = {}
  /\ UNCHANGED <<harness, lines, cursor, hint, run, replayed>>

(*------------------------------- the parsers -----------------------------*)

Begin_NoHint ==   \* Mutant: a header-less tail has no directory
  /\ run.pc = "idle" /\ cursor < Len(lines)
  /\ run' = [Idle EXCEPT !.pc = "reading", !.at = cursor]
  /\ UNCHANGED <<harness, lines, cursor, hint, session, deletes, replayed>>
Begin ==
  /\ run.pc = "idle" /\ cursor < Len(lines)
  /\ run' = [Idle EXCEPT !.pc = "reading", !.at = cursor, !.cwd = hint]
  /\ UNCHANGED <<harness, lines, cursor, hint, session, deletes, replayed>>

\* The parser's state after line l: the directory, the item a mirror may follow
\* directly, the event ids of this run.
Parsed(l) ==
  [run EXCEPT !.at = @ + 1,
              !.cwd = IF l.type = "cwd" THEN l.cwd ELSE @,
              !.observed = IF l.type = "cwd" THEN l.cwd ELSE @,
              !.armed = IF l.text = Nothing THEN @ ELSE IF l.type = "item" THEN l.text ELSE Nothing,
              !.seen = IF harness = "copilot" /\ l.type = "item" THEN @ \cup {l.text} ELSE @]

Emits_Global(l) ==   \* Mutant: a text is kept once, as it was before #85
  l.text # Nothing /\ \A i \in 1..run.at : lines[i].text # l.text
\* A turn, unless it mirrors the item before it or its event was seen.
Emits(l) ==
  /\ l.text # Nothing
  /\ harness = "codex" => ~(l.type = "event" /\ l.text = run.armed)
  /\ harness = "copilot" => l.text \notin run.seen

\* pushLine, and writeEntry of a turn: the first makes the session, under the
\* directory of its line, or of the parser.
Push ==
  /\ run.pc = "reading" /\ run.at < Len(lines)
  /\ LET l == lines[run.at + 1]
         dir == IF harness = "claude-code" THEN l.cwd ELSE run.cwd
     IN /\ run' = Parsed(l)
        /\ IF ~Emits(l) THEN UNCHANGED session
           ELSE /\ stored' = stored \cup {run.at + 1}
                /\ label' = IF label = "none" THEN dir ELSE label
                /\ born' = IF label = "none" THEN run.at + 1 ELSE born
  /\ UNCHANGED <<harness, lines, cursor, hint, deletes, replayed>>

\* At the end of the file the directory is kept, then the cursor.
KeepCwd ==
  /\ run.pc = "reading" /\ run.at = Len(lines)
  /\ hint' = IF run.observed = Storage THEN hint ELSE run.observed
  /\ run' = [run EXCEPT !.pc = "cursor"]
  /\ UNCHANGED <<harness, lines, cursor, session, deletes, replayed>>
KeepCursor ==
  /\ run.pc = "cursor" /\ cursor' = run.at /\ run' = Idle
  /\ UNCHANGED <<harness, lines, hint, session, deletes, replayed>>

\* A failed embedding or the end of the process.
Stops ==
  /\ run.pc # "idle" /\ run' = Idle
  /\ replayed' = (replayed \/ run.pc = "cursor")
  /\ UNCHANGED <<harness, lines, cursor, hint, session, deletes>>

Next ==
  \/ \E l \in Line \cup ClaudeLine : Write(l)
  \/ DeleteSession \/ Begin \/ Push \/ KeepCwd \/ KeepCursor \/ Stops

Spec == Init /\ [][Next]_vars

(*------------------------------- properties ------------------------------*)

\* What a reader of the whole transcript would call its turns.
Says(i) == lines[i].text # Nothing
Mirror(i) ==
  harness = "codex" /\ lines[i].type = "event"
  /\ \E j \in 1..(i - 1) : /\ lines[j] = [lines[i] EXCEPT !.type = "item"]
                           /\ \A k \in (j + 1)..(i - 1) : ~Says(k)
Repeat(i) == harness = "copilot" /\ \E j \in 1..(i - 1) : lines[j].text = lines[i].text
Turn(i) == Says(i) /\ ~Mirror(i) /\ ~Repeat(i)

InForce(i) ==
  LET named == {j \in 1..i : lines[j].type = "cwd"}
  IN IF harness = "claude-code" THEN lines[i].cwd
     ELSE IF named = {} THEN Storage ELSE lines[CHOOSE j \in named : \A k \in named : k <= j].cwd

\* However the file is cut into runs, every turn of it that a cursor has passed
\* is stored, two equal ones, too (codex-jsonl.ts:98, #85).
NoTurnLost ==
  deletes = 0 => \A i \in 1..cursor : Turn(i) => i \in stored

\* A session is filed under the directory in force at the line that made it,
\* also when that line is read by a later run than the one that named it, after
\* the session was deleted; a Copilot session that changed its directory may
\* not be, if a run ended between its two keys.
FiledRight ==
  label # "none" => label = InForce(born) \/ (replayed /\ harness = "copilot" /\ label \in Cwd)
=============================================================================
