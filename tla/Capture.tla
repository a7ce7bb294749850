------------------------------- MODULE Capture -------------------------------
(***************************************************************************)
(* Capture: the lines of a harness's transcript become observations          *)
(* (src/ingest/ingest.ts, src/harness/capabilities/sqlite-transcript-        *)
(* source.ts), called by the session-end hook (src/hooks/session-end.ts) or   *)
(* by `abs ingest`, while the harness goes on writing and the user decides    *)
(* whether, and under which project, the session is kept                      *)
(* (src/ingest/session-binding.ts).                                          *)
(*                                                                         *)
(* One transcript of one session.  Its position is a byte offset, or, for     *)
(* "gemini" and "opencode", the id of the last entry.  Offsets count half     *)
(* entries: entry i is the halves 2i-1 and 2i, and `torn` says that the       *)
(* harness has written only the first half of the last one.  The text of an   *)
(* entry is a model value; the store keeps a text once per session (its       *)
(* content hash), so its rows are a set.  An ingestion reads the file when    *)
(* it begins.                                                                *)
(***************************************************************************)
EXTENDS Naturals, Sequences, FiniteSets

CONSTANTS
  Ingester,    \* the processes that ingest
  Text,        \* what entries may say
  Torn,        \* bound: the kinds of transcript that are seen half written
  Yield,       \* bound: what is seen in each kind of transcript
  MaxEntry,    \* bound: entries ever written
  MaxSession,  \* bound: session rows ever created
  MaxDecision  \* bound: decisions and deletions by the user

Kind == {"append", "copilot", "gemini", "opencode"}
What == {"prose", "edit", "noise"}   \* a turn, an edit of files, nothing to keep

ASSUME CaptureAssumption ==
  /\ MaxEntry \in Nat /\ MaxSession \in Nat \ {0} /\ MaxDecision \in Nat
  /\ Yield \in [Kind -> SUBSET What]

ById == {"gemini", "opencode"}
EntryId == 1 .. MaxEntry
Entry == [id : EntryId, what : What, text : Text \cup {"noise"}]
NoSession == 0

VARIABLES
  kind,       \* whose transcript it is: "append" is Claude Code or Codex
  file,       \* its entries
  torn,       \* the last one is being written
  written,    \* entries ever written
  mark,       \* the position kept in kv_meta
  binding,    \* the user's decision; "old" is one set more than 30 days ago
  session,    \* the session's row, or NoSession
  project,    \* the project of that row: derived, or the one that was set
  lastSession, \* AUTOINCREMENT of sessions
  rows,       \* the texts in store
  anchored,   \* those with anchors
  binder,     \* the decision in progress: its steps are transactions of their own
  decisions,  \* how many the user has made
  ing,        \* what each ingester is doing
  dropped, excused, raced, unfiled \* history: entries written below the mark, entries
             \* skipped, deleted or read by halves; an outdated binding was acted on; a
             \* process was killed with the binding set and the session not yet filed

fileVars == <<kind, file, torn, written>>
storeVars == <<session, project, lastSession, rows, anchored>>
history == <<dropped, excused, raced, unfiled>>
vars == <<kind, file, torn, written, mark, binding, session, project, lastSession, rows,
          anchored, binder, decisions, ing, dropped, excused, raced, unfiled>>

(* todo: the entries still to be stored; upto: the mark at the end; last: the *)
(* last entry written when it began (Copilot); halves: the entries of which only a half   *)
(* was read; read, sid: the cached binding and session.                        *)
Run == [pc : {"idle", "entry", "session", "write", "anchor"}, todo : SUBSET Entry,
        upto : Nat, last : Nat, halves : SUBSET EntryId, read : {"?", "none", "set", "skip"},
        sid : {NoSession} \cup 1 .. MaxSession]
Idle == [pc |-> "idle", todo |-> {}, upto |-> 0, last |-> 0, halves |-> {}, read |-> "?",
         sid |-> NoSession]

Init ==
  /\ kind \in Kind /\ file = <<>> /\ torn = FALSE /\ written = 0 /\ mark = 0
  /\ binding = "none" /\ binder = "idle" /\ decisions = 0
  /\ session = NoSession /\ project = "auto" /\ lastSession = 0 /\ rows = {} /\ anchored = {}
  /\ ing = [p \in Ingester |-> Idle]
  /\ dropped = {} /\ excused = {} /\ raced = FALSE /\ unfiled = FALSE

Size == 2 * Len(file) - (IF torn THEN 1 ELSE 0)
Ids(s) == {s[i].id : i \in DOMAIN s}

---------------------------------------------------------------------------
(* The harness *)

WriteNext ==
  /\ ~torn /\ written < MaxEntry
  /\ \E w \in Yield[kind], t \in Text, half \in BOOLEAN :
       /\ half => kind \in Torn \ ById
       /\ kind = "opencode" => w # "edit"
       /\ file' = file \o <<[id |-> written + 1, what |-> w,
                           text |-> IF w = "noise" THEN w ELSE t]>>
       /\ torn' = half
  /\ written' = written + 1
  /\ dropped' = IF kind = "copilot" /\ Size < mark THEN dropped \cup {written'} ELSE dropped
  /\ UNCHANGED <<kind, mark, binding, storeVars, binder, decisions, ing,
                 excused, raced, unfiled>>

CompleteEntry ==
  /\ torn /\ torn' = FALSE
  /\ UNCHANGED <<kind, file, written, mark, binding, storeVars, binder, decisions, ing, history>>

(* A compaction or a fork (Copilot), a rewind (Gemini, OpenCode). *)
Truncate ==
  /\ kind # "append" /\ ~torn
  /\ \E n \in 0 .. Len(file) - 1 : file' = SubSeq(file, 1, n)
  /\ UNCHANGED <<kind, torn, written, mark, binding, storeVars, binder, decisions, ing, history>>

---------------------------------------------------------------------------
(* ingestOneTranscript *)

(* Where reading starts: a shorter Copilot file is read again from its start. *)
StartOffset == IF kind = "copilot" /\ mark > Size THEN 0 ELSE mark
(* And by entry ids: behind the last one stored, if it is still there. *)
StartIndex ==
  IF \E i \in DOMAIN file : file[i].id = mark
    THEN CHOOSE i \in DOMAIN file : file[i].id = mark
    ELSE 0

Whole(i, from) == from <= 2 * (i - 1) /\ 2 * i <= Size

(* Entries without a text to keep ("noise") are passed over by the parser. *)
Telling(from, to) == {e \in {file[i] : i \in from .. to} : e.what # "noise"}

(* What is read: whole entries are parsed, a half one is skipped as unparsable. *)
Reading(from) ==
  {file[i] : i \in {j \in DOMAIN file : Whole(j, from) /\ file[j].what # "noise"}}
Halves(from) ==
  {file[i].id : i \in {j \in DOMAIN file : from < 2 * j /\ ~Whole(j, from)}}

(* `abs ingest`, or a session-end hook that saw no rebuild lock and whose       *)
(* embedding model was ready; otherwise the hook returns and nothing changes.  *)
Begin(p) ==
  /\ ing[p].pc = "idle"
  /\ binding' = IF binding = "old" /\ kind # "opencode" THEN "none" ELSE binding
  /\ \/ /\ kind \notin ById /\ Size > StartOffset
        /\ ing' = [ing EXCEPT ![p] = [Idle EXCEPT !.pc = "entry",
                     !.todo = Reading(StartOffset), !.halves = Halves(StartOffset),
                     !.upto = Size, !.last = IF kind = "copilot" THEN written ELSE 0]]
        /\ mark' = IF StartOffset = 0 THEN 0 ELSE mark
        /\ dropped' = IF StartOffset = 0 /\ \A q \in Ingester : ing[q].pc = "idle"
                         THEN {} ELSE dropped
     \/ /\ kind \in ById /\ file # <<>>
        /\ ing' = [ing EXCEPT ![p] = [Idle EXCEPT !.pc = "entry",
                     !.todo = Telling(StartIndex + 1, Len(file)),
                     !.upto = IF kind = "gemini" THEN file[Len(file)].id ELSE mark]]
        /\ UNCHANGED <<mark, dropped>>
  /\ UNCHANGED <<fileVars, storeVars, binder, decisions, excused, raced, unfiled>>

Stops(p) == ing' = [ing EXCEPT ![p] = Idle]

(* deleteSession: the rows go with it. *)
DropsSession ==
  /\ session' = NoSession /\ rows' = {} /\ anchored' = {} /\ raced' = FALSE /\ unfiled' = FALSE
  /\ project' = "auto" /\ UNCHANGED lastSession

Makes(pr) ==   \* createSession
  /\ lastSession < MaxSession
  /\ lastSession' = lastSession + 1 /\ session' = lastSession + 1 /\ project' = pr
  /\ UNCHANGED <<rows, anchored>>

(* The next entry: the binding is read once per ingestion. *)
ReadBinding(p) ==
  /\ ing[p].pc = "entry" /\ ing[p].todo # {}
  /\ \/ /\ ing[p].read = "?"
        /\ binding' = IF binding = "old" THEN "none" ELSE binding
        /\ ing' = [ing EXCEPT ![p].pc = "session", ![p].read = binding']
     \/ /\ ing[p].read \notin {"?", "skip"} /\ UNCHANGED binding
        /\ ing' = [ing EXCEPT ![p].pc = "write"]
  /\ UNCHANGED <<fileVars, mark, storeVars, binder, decisions, history>>

(* The session it belongs to is looked up, made or, when skipped, deleted. *)
ResolveSession(p) ==
  /\ ing[p].pc = "session"
  /\ \/ /\ ing[p].read = "skip"
        /\ IF session # NoSession THEN DropsSession ELSE UNCHANGED <<storeVars, raced, unfiled>>
        /\ excused' = IF session # NoSession THEN 1 .. written ELSE excused
        /\ ing' = [ing EXCEPT ![p].pc = "entry"]
     \/ /\ ing[p].read = "set"
        /\ IF session = NoSession THEN Makes("bound")
             ELSE project' = "bound" /\ UNCHANGED <<session, lastSession, rows, anchored>>
        /\ ing' = [ing EXCEPT ![p].pc = "write", ![p].sid = session']
        /\ raced' = (raced \/ binding # "set" \/ binder # "idle")
        /\ unfiled' = FALSE /\ UNCHANGED excused
     \/ /\ ing[p].read = "none"
        /\ IF session = NoSession THEN Makes("auto") ELSE UNCHANGED storeVars
        /\ ing' = [ing EXCEPT ![p].pc = "write", ![p].sid = session']
        /\ raced' = (raced \/ binding \notin {"none", "old"} \/ binder # "idle")
        /\ UNCHANGED <<excused, unfiled>>
  /\ UNCHANGED <<fileVars, mark, binding, binder, decisions, dropped>>

(* The entries are taken in the order of the file, which is that of their ids. *)
First(r) == CHOOSE e \in r.todo : \A f \in r.todo : e.id <= f.id
(* On to the next entry; after the last one nothing that was cached is used. *)
Rest(r) == [r EXCEPT !.pc = "entry", !.todo = @ \ {First(r)},
                     !.read = IF r.todo = {First(r)} THEN "?" ELSE @,
                     !.sid = IF r.todo = {First(r)} THEN NoSession ELSE @]

(* An entry of a skipped session is not stored. *)
SkipEntry(p) ==
  /\ ing[p].pc = "entry" /\ ing[p].todo # {}
  /\ ing[p].read = "skip"
  /\ ing' = [ing EXCEPT ![p] = Rest(ing[p])]
  /\ excused' = excused \cup {First(ing[p]).id}
  /\ UNCHANGED <<fileVars, mark, binding, storeVars, binder, decisions, dropped, raced, unfiled>>

NextEntry(p) ==
  LET e == First(ing[p])
      r == Rest(ing[p])
  IN ing' = [ing EXCEPT ![p] = IF kind = "opencode" THEN [r EXCEPT !.upto = e.id] ELSE r]

(* Mutant: anchors are seeded for a new row only. *)
WriteEntry_AnchorsNewOnly(p) ==
  LET e == First(ing[p]) IN
  /\ ing[p].pc = "write" /\ ing[p].sid = session
  /\ rows' = rows \cup {e.text}
  /\ IF e.what = "edit" /\ e.text \notin rows THEN ing' = [ing EXCEPT ![p].pc = "anchor"]
       ELSE NextEntry(p)
  /\ UNCHANGED <<fileVars, mark, binding, session, project, lastSession, anchored, binder, decisions, history>>

(* The observation, after its embedding was awaited; the session must still be *)
(* there (a foreign key), or the write throws and ends the ingestion.          *)
WriteEntry(p) ==
  LET e == First(ing[p]) IN
  /\ ing[p].pc = "write" /\ ing[p].sid = session
  /\ rows' = rows \cup {e.text}
  /\ IF e.what = "edit" THEN ing' = [ing EXCEPT ![p].pc = "anchor"] ELSE NextEntry(p)
  /\ UNCHANGED <<fileVars, mark, binding, session, project, lastSession, anchored, binder, decisions, history>>

(* seedAnchors, transactions of their own. *)
SeedAnchors(p) ==
  LET e == First(ing[p]) IN
  /\ ing[p].pc = "anchor" /\ ing[p].sid = session
  /\ e.text \in rows
  /\ anchored' = anchored \cup {e.text} /\ NextEntry(p)
  /\ UNCHANGED <<fileVars, mark, binding, session, project, lastSession, rows, binder, decisions, history>>

(* Entries that were written, below the mark, while it read the older ones. *)
Replaced(r) ==
  IF kind # "copilot" THEN {}
  ELSE {file[i].id : i \in {j \in DOMAIN file : 2 * j <= r.upto /\ file[j].id > r.last}}

Finish_Early(p) ==   \* Mutant: the position is written when the first entry is stored
  /\ ing[p].pc = "entry" /\ mark' = ing[p].upto
  /\ IF ing[p].todo = {} THEN Stops(p) ELSE UNCHANGED ing
  /\ excused' = excused \cup ing[p].halves
  /\ dropped' = dropped \cup Replaced(ing[p])
  /\ UNCHANGED <<fileVars, binding, storeVars, binder, decisions, raced, unfiled>>

(* All entries are stored: only now is the position written. *)
Finish(p) ==
  /\ ing[p].pc = "entry" /\ ing[p].todo = {}
  /\ mark' = ing[p].upto /\ Stops(p)
  /\ excused' = excused \cup ing[p].halves
  /\ dropped' = dropped \cup Replaced(ing[p])
  /\ UNCHANGED <<fileVars, binding, storeVars, binder, decisions, raced, unfiled>>

(* A write that throws (no such session, no embedding), or the end of the process. *)
Aborts(p) ==
  /\ ing[p].pc # "idle" /\ Stops(p)
  /\ UNCHANGED <<fileVars, mark, binding, storeVars, binder, decisions, history>>

---------------------------------------------------------------------------
(* The user's decisions *)

Decides == decisions < MaxDecision /\ decisions' = decisions + 1

(* Mutant: the session that is already stored waits for the next ingestion. *)
SetMarks_Only ==
  /\ Decides /\ binder = "idle" /\ binder' = "idle" /\ binding' = "set"
  /\ raced' = FALSE /\ unfiled' = FALSE
  /\ UNCHANGED <<fileVars, mark, storeVars, ing, dropped, excused>>

(* set: first the binding; then the session that is already stored, if there is one, *)
(* is filed.  It is looked for twice, and one that is deleted in between is made again. *)
SetMarks ==
  /\ Decides /\ binder = "idle" /\ binder' = "marked" /\ binding' = "set"
  /\ raced' = FALSE /\ unfiled' = FALSE
  /\ UNCHANGED <<fileVars, mark, storeVars, ing, dropped, excused>>
SetFinds ==
  /\ binder = "marked" /\ binder' = IF session = NoSession THEN "idle" ELSE "found"
  /\ UNCHANGED <<fileVars, mark, binding, storeVars, decisions, ing, history>>
SetFiles ==
  /\ binder = "found" /\ binder' = "idle"
  /\ IF session = NoSession THEN Makes("bound")
       ELSE project' = "bound" /\ UNCHANGED <<session, lastSession, rows, anchored>>
  /\ raced' = FALSE
  /\ UNCHANGED <<fileVars, mark, binding, decisions, ing, dropped, excused, unfiled>>

(* Mutant: a session that is already stored is left as it is. *)
SkipDeletes_Keeps ==
  /\ Decides /\ binder = "idle" /\ binder' = "deleted" /\ excused' = 1 .. written
  /\ UNCHANGED <<fileVars, mark, binding, storeVars, ing, dropped, raced, unfiled>>

(* skip: first the session is deleted, then the binding written. *)
SkipDeletes ==
  /\ Decides /\ binder = "idle" /\ binder' = "deleted"
  /\ DropsSession /\ excused' = 1 .. written
  /\ UNCHANGED <<fileVars, mark, binding, ing, dropped>>
SkipMarks ==
  /\ UNCHANGED decisions /\ binder = "deleted" /\ binder' = "idle" /\ binding' = "skip"
  /\ UNCHANGED <<fileVars, mark, storeVars, ing, history>>

(* The process is killed between the two halves of a decision. *)
BinderDies ==
  /\ UNCHANGED decisions /\ binder # "idle" /\ binder' = "idle"
  /\ unfiled' = (binder # "deleted" /\ session # NoSession /\ project # "bound")
  /\ UNCHANGED <<fileVars, mark, binding, storeVars, ing, dropped, excused, raced>>

Include ==   \* clearBinding
  /\ UNCHANGED decisions /\ binder = "idle" /\ binding # "none" /\ binding' = "none"
  /\ UNCHANGED <<fileVars, mark, storeVars, binder, ing, history>>

Expires ==   \* 30 days pass
  /\ UNCHANGED decisions /\ binding = "set" /\ binding' = "old"
  /\ UNCHANGED <<fileVars, mark, storeVars, binder, ing, history>>

DeleteSession ==   \* forget, by session
  /\ Decides /\ session # NoSession /\ DropsSession /\ excused' = 1 .. written
  /\ UNCHANGED <<fileVars, mark, binding, binder, ing, dropped>>

Next ==
  \/ WriteNext \/ CompleteEntry \/ Truncate
  \/ SetMarks \/ SetFinds \/ SetFiles \/ SkipDeletes \/ SkipMarks \/ BinderDies \/ Include \/ Expires \/ DeleteSession
  \/ \E p \in Ingester :
       \/ Begin(p) \/ ReadBinding(p) \/ ResolveSession(p) \/ SkipEntry(p) \/ WriteEntry(p)
       \/ SeedAnchors(p) \/ Finish(p) \/ Aborts(p)

Spec == Init /\ [][Next]_vars

---------------------------------------------------------------------------
(* The entries the position says are stored. *)
Behind ==
  IF kind \in ById THEN {file[i] : i \in 1 .. StartIndex}
  ELSE {file[i] : i \in {j \in DOMAIN file : 2 * j <= mark}}

Stored(e) ==
  e.what # "noise" => e.text \in rows /\ (e.what = "edit" => e.text \in anchored)

(* Nothing is lost behind the position: whatever crashes, throws or runs at   *)
(* the same time, an entry the next ingestion will not read is in store, with  *)
(* its anchors if it is an edit, unless the user skipped or deleted it, or      *)
(* only a half of it could be read; and, for Copilot, unless it was written in  *)
(* the place of entries that a compaction removed: a file that has grown back to  *)
(* its mark before the next ingestion is read on from there (ingest.ts:565-569). *)
Captured == \A e \in Behind : e.id \in excused \cup dropped \/ Stored(e)

(* The decision of the user holds: a skipped session has no row and one with a *)
(* set project is filed there, unless an ingestion acted on a binding that      *)
(* changed under it (raced), or the process that set it was killed before it     *)
(* had filed the session (unfiled): the next entry that is ingested files it, but *)
(* a transcript that has ended is not read again.                              *)
BindingHonoured ==
  \/ raced \/ binder # "idle"
  \/ /\ binding = "skip" => session = NoSession /\ rows = {}
     /\ binding = "set" /\ session # NoSession => project = "bound" \/ unfiled
=============================================================================
