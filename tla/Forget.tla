------------------------------- MODULE Forget -------------------------------
(***************************************************************************)
(* Forgetting rows (src/delete/delete.ts) from the browser                  *)
(* (src/ui/client/delete-client.ts) through the local server                *)
(* (src/ui/server.ts): a preview resolves a selector, pins the ids it found   *)
(* under a handle and shows them; the confirmed handle deletes what was       *)
(* pinned, and nothing else, however the store has changed meanwhile.         *)
(*                                                                         *)
(* The handles live in the server's memory, for five minutes, the last        *)
(* MaxCache of them.  The token of the page is that of the server process     *)
(* that served it.  A search finds any rows: what it matches is left open.    *)
(***************************************************************************)
EXTENDS Naturals, FiniteSets

CONSTANTS
  Tab,         \* the browser tabs
  Session,     \* the session ids
  Project,     \* the projects a session may have; one of them may stand for none
  MaxId,       \* bound: observation ids run from 1 to MaxId
  MaxHandle,   \* bound: previews
  MaxCache,    \* MAX_CACHE_ENTRIES
  MaxRestart,  \* bound: restarts of the server
  NoRow        \* there is no such row

Id == 1 .. MaxId
Selector == [by : {"ids", "search"}, ids : SUBSET Id]
            \cup [by : {"session"}, session : Session] \cup [by : {"project"}, project : Project]

VARIABLES
  rows,      \* the session of each observation, or NoRow
  nextId,    \* AUTOINCREMENT of observations
  sessions,  \* the sessions that exist
  project,   \* their projects
  cache,     \* deleteCache: entries [h, ids, sel], in the order of h
  handles,   \* how many were minted
  server,    \* which server process this is: its CSRF token
  tab        \* what each tab shows

storeVars == <<rows, nextId, sessions, project>>
vars == <<rows, nextId, sessions, project, cache, handles, server, tab>>

(* token: that of the page; shown: the ids previewed; pc "done": it has been   *)
(* told that they are deleted.                                                *)
View == [pc : {"idle", "dialog", "confirmed", "done"}, token : 0 .. MaxRestart,
         handle : 0 .. MaxHandle, shown : SUBSET Id]
Page(tok) == [pc |-> "idle", token |-> tok, handle |-> 0, shown |-> {}]

Init ==
  /\ rows = [i \in Id |-> NoRow] /\ nextId = 1
  /\ sessions = {} /\ project \in [Session -> Project]
  /\ cache = {} /\ handles = 0 /\ server = 0
  /\ tab = [t \in Tab |-> Page(0)]

Live == {i \in Id : rows[i] # NoRow}
idsForSession(s) == {i \in Live : rows[i] = s}
idsForProject(p) == UNION {idsForSession(s) : s \in {q \in sessions : project[q] = p}}

---------------------------------------------------------------------------
(* The rest of the program *)

Capture(s) ==   \* a new row, in a session old or new
  /\ nextId <= MaxId
  /\ rows' = [rows EXCEPT ![nextId] = s] /\ nextId' = nextId + 1
  /\ sessions' = sessions \cup {s}
  /\ UNCHANGED <<project, cache, handles, server, tab>>

Relabel(s) ==   \* setSessionProject
  /\ s \in sessions
  /\ \E p \in Project : project' = [project EXCEPT ![s] = p]
  /\ UNCHANGED <<rows, nextId, sessions, cache, handles, server, tab>>

Promote(i, s) ==   \* moveObservationToSession
  /\ i \in Live /\ s \in sessions
  /\ rows' = [rows EXCEPT ![i] = s]
  /\ UNCHANGED <<nextId, sessions, project, cache, handles, server, tab>>

Restart ==   \* the server ends and starts: no handles, another token
  /\ server < MaxRestart /\ server' = server + 1 /\ cache' = {}
  /\ UNCHANGED <<storeVars, handles, tab>>

Expire ==   \* five minutes pass for the oldest handles
  /\ \E e \in cache : cache' = {f \in cache : f.h > e.h}
  /\ UNCHANGED <<storeVars, handles, server, tab>>

---------------------------------------------------------------------------
(* Preview *)

resolve(sel) ==
  CASE sel.by = "ids"     -> sel.ids \cap Live
    [] sel.by = "session" -> idsForSession(sel.session)
    [] sel.by = "project" -> idsForProject(sel.project)
    [] sel.by = "search"  -> sel.ids \cap Live

evictOverflow(c) ==
  IF Cardinality(c) > MaxCache THEN {e \in c : \E f \in c : f.h < e.h} ELSE c

(* A page of another server process is refused, and reloads itself. *)
Reload(t) == tab[t].token # server /\ tab' = [tab EXCEPT ![t] = Page(server)]

(* A closed or finished dialog, and a request for a preview. *)
Preview(t) ==
  /\ tab[t].pc \in {"idle", "done"}
  /\ \/ Reload(t) /\ UNCHANGED <<cache, handles>>
     \/ /\ tab[t].token = server /\ handles < MaxHandle
        /\ handles' = handles + 1
        /\ \E sel \in Selector :
             /\ cache' = evictOverflow(cache \cup {[h |-> handles', ids |-> resolve(sel), sel |-> sel]})
             /\ tab' = [tab EXCEPT ![t] = [@ EXCEPT !.pc = "dialog", !.handle = handles',
                                             !.shown = resolve(sel)]]
  /\ UNCHANGED <<storeVars, server>>

(* confirmDelete: the button, or Escape, Cancel and the backdrop. *)
Confirm(t) ==
  /\ tab[t].pc = "dialog" /\ tab' = [tab EXCEPT ![t].pc = "confirmed"]
  /\ UNCHANGED <<storeVars, cache, handles, server>>
Cancel(t) ==
  /\ tab[t].pc = "dialog" /\ tab' = [tab EXCEPT ![t] = Page(@.token)]
  /\ UNCHANGED <<storeVars, cache, handles, server>>

---------------------------------------------------------------------------
(* Execution *)

(* The sessions that may go, as the rows are now; empty ones do. *)
cleanupCandidateSessions(e) ==
  CASE e.sel.by = "session" -> {e.sel.session}
    [] e.sel.by = "project" -> {rows[i] : i \in e.ids \cap Live}
    [] OTHER -> {}

(* Mutant: a session is deleted with what it has got since. *)
deletePinned_Cascade(e) ==
  LET gone == cleanupCandidateSessions(e) IN
  /\ rows' = [i \in Id |-> IF i \in e.ids \/ rows[i] \in gone THEN NoRow ELSE rows[i]]
  /\ sessions' = sessions \ gone

(* Mutant: the selector is resolved again. *)
deletePinned_Resolves(e) ==
  /\ rows' = [i \in Id |-> IF i \in resolve(e.sel) THEN NoRow ELSE rows[i]]
  /\ UNCHANGED sessions

(* One transaction: the ids that still exist, then the sessions left empty. *)
deletePinned(e) ==
  /\ rows' = [i \in Id |-> IF i \in e.ids THEN NoRow ELSE rows[i]]
  /\ sessions' = sessions \ {s \in cleanupCandidateSessions(e) : \A i \in Id : rows'[i] # s}

(* The handle is used up, whatever follows. *)
Execute(t) ==
  /\ tab[t].pc = "confirmed" /\ tab[t].token = server
  /\ \E e \in cache :
       /\ e.h = tab[t].handle
       /\ cache' = cache \ {e}
       /\ \/ deletePinned(e) /\ tab' = [tab EXCEPT ![t].pc = "done"]
          \/ UNCHANGED <<rows, sessions>> /\ tab' = [tab EXCEPT ![t] = Page(@.token)]  \* it throws
  /\ UNCHANGED <<nextId, project, handles, server>>

(* 403: reload; 409, the handle is unknown, expired or evicted: an error. *)
Refused(t) ==
  /\ tab[t].pc = "confirmed"
  /\ \/ Reload(t)
     \/ /\ tab[t].token = server /\ \A e \in cache : e.h # tab[t].handle
        /\ tab' = [tab EXCEPT ![t] = Page(@.token)]
  /\ UNCHANGED <<storeVars, cache, handles, server>>

Next ==
  \/ Restart \/ Expire
  \/ \E s \in Session : Capture(s) \/ Relabel(s) \/ \E i \in Id : Promote(i, s)
  \/ \E t \in Tab : Preview(t) \/ Confirm(t) \/ Cancel(t) \/ Execute(t) \/ Refused(t)

Spec == Init /\ [][Next]_vars

---------------------------------------------------------------------------
(* A row disappears only if a tab showed it and its user confirmed: not one    *)
(* that came into the session or project since, nor one that went with its     *)
(* session (delete.ts:243-272).                                              *)
TakesOnlyShown ==
  \A i \in Live : rows'[i] = NoRow =>
    \E t \in Tab : tab[t].pc = "confirmed" /\ i \in tab[t].shown /\ tab'[t].pc = "done"
OnlyShown == [][TakesOnlyShown]_vars

(* A tab that reports success is right for good: no row it showed is left,      *)
(* moved to another session or deleted by another tab in between or not.        *)
AllShownGone == \A t \in Tab : tab[t].pc = "done" => tab[t].shown \cap Live = {}
=============================================================================
