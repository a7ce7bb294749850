----------------------------- MODULE RebuildLock -----------------------------
(***************************************************************************)
(* The rebuild lock (src/store/write-lock.ts): a file beside the database   *)
(* with which an MCP server that rebuilds its index in the background        *)
(* (src/mcp/server.ts, backgroundEnsure) asks the session-end hooks to wait. *)
(* It is advisory: a server that does not get it rebuilds all the same.      *)
(*                                                                         *)
(* The file holds its writer's token; its mtime is renewed every 3 s and it  *)
(* counts as held for 15 s.  Time is not modelled: the action GoesStale is   *)
(* the passing of 15 s without a heartbeat, which a busy event loop, a       *)
(* suspended machine or a dead holder can cause at any time.                 *)
(***************************************************************************)
EXTENDS Naturals, FiniteSets

CONSTANTS
  Server,   \* the servers that may rebuild
  Nobody    \* the lock file does not exist

VARIABLES
  holder,   \* whose token the lock file holds
  fresh,    \* its mtime is less than 15 s ago
  srv,      \* what each server is doing
  owns,     \* the servers whose handle says that they own the lock
  overtaken \* history: the owners that were late, or whose file another may take or has removed

vars == <<holder, fresh, srv, owns, overtaken>>

TypeOK ==
  /\ holder \in Server \cup {Nobody} /\ fresh \in BOOLEAN
  /\ srv \in [Server -> {"idle", "create", "check", "steal", "rebuild", "beat", "release"}]
  /\ owns \subseteq Server /\ overtaken \subseteq Server

Init ==
  /\ holder = Nobody /\ fresh = FALSE
  /\ srv = [s \in Server |-> "idle"] /\ owns = {} /\ overtaken = {}

isRebuildLocked == holder # Nobody /\ fresh

Goto(s, pc) == srv' = [srv EXCEPT ![s] = pc]

(* The file now carries the token of s.  A server that stands between its    *)
(* check and its overwrite will take it away again, whoever holds it then.    *)
WritesToken(s) ==
  /\ holder' = s /\ fresh' = TRUE /\ owns' = owns \cup {s}
  /\ overtaken' = IF \E t \in Server \ {s} : srv[t] = "steal" THEN overtaken \cup {s}
                                                            ELSE overtaken \ {s}

(* backgroundEnsure asks for the lock when the index is stale. *)
Start(s) == srv[s] = "idle" /\ Goto(s, "create") /\ UNCHANGED <<holder, fresh, owns, overtaken>>

(* The exclusive create: it succeeds, or the file exists, or it cannot be written. *)
Create(s) ==
  /\ srv[s] = "create"
  /\ \/ holder = Nobody /\ WritesToken(s) /\ Goto(s, "rebuild")
     \/ Goto(s, "check") /\ UNCHANGED <<holder, fresh, owns, overtaken>>

(* Only then is the file looked at: by now it may be another one, or gone.   *)
CheckStale_StealsFresh(s) ==   \* Mutant: whatever it finds is overwritten
  srv[s] = "check" /\ Goto(s, "steal") /\ UNCHANGED <<holder, fresh, owns, overtaken>>

CheckStale(s) ==
  /\ srv[s] = "check"
  /\ Goto(s, IF isRebuildLocked THEN "rebuild" ELSE "steal")
  /\ UNCHANGED <<holder, fresh, owns, overtaken>>

(* The file is overwritten, whoever has taken it since it was looked at; or the *)
(* write fails, and the server rebuilds without the lock.                      *)
Steal(s) ==
  /\ srv[s] = "steal" /\ Goto(s, "rebuild")
  /\ WritesToken(s) \/ UNCHANGED <<holder, fresh, owns, overtaken>>

(* heartbeat(): the token is read, then the mtime is set. *)
HeartbeatReads(s) ==
  /\ srv[s] = "rebuild" /\ s \in owns /\ holder = s
  /\ Goto(s, "beat") /\ UNCHANGED <<holder, fresh, owns, overtaken>>
HeartbeatTouches(s) ==
  /\ srv[s] = "beat"
  /\ fresh' = (holder # Nobody) /\ Goto(s, "rebuild")
  /\ UNCHANGED <<holder, owns, overtaken>>

Release_Any(s) ==   \* Mutant: release() does not look whose file it is
  /\ srv[s] = "rebuild" /\ Goto(s, "release")
  /\ UNCHANGED <<holder, fresh, owns, overtaken>>

(* release(): the token is read, and the file removed if it was its own. *)
ReleaseReads(s) ==
  /\ srv[s] = "rebuild"
  /\ IF s \in owns /\ holder = s
       THEN Goto(s, "release") /\ UNCHANGED owns
       ELSE Goto(s, "idle") /\ owns' = owns \ {s}
  /\ UNCHANGED <<holder, fresh, overtaken>>
ReleaseRemoves(s) ==
  /\ srv[s] = "release"
  /\ holder' = Nobody /\ fresh' = FALSE
  /\ overtaken' = (overtaken \cup {h \in {holder} : s \in overtaken}) \ {s, Nobody}
  /\ Goto(s, "idle") /\ owns' = owns \ {s}

(* 15 s without a heartbeat. *)
GoesStale ==
  /\ isRebuildLocked /\ fresh' = FALSE
  /\ overtaken' = overtaken \cup {holder}
  /\ UNCHANGED <<holder, srv, owns>>

Killed(s) ==
  /\ srv[s] # "idle" /\ Goto(s, "idle") /\ owns' = owns \ {s}
  /\ UNCHANGED <<holder, fresh, overtaken>>

Next ==
  \/ GoesStale
  \/ \E s \in Server : \/ Start(s) \/ Create(s) \/ CheckStale(s) \/ Steal(s)
                       \/ HeartbeatReads(s) \/ HeartbeatTouches(s)
                       \/ ReleaseReads(s) \/ ReleaseRemoves(s) \/ Killed(s)

Spec == Init /\ [][Next]_vars

---------------------------------------------------------------------------
(* A server that owns the lock keeps it until it releases it: the hooks wait   *)
(* for as long as it rebuilds, whatever others create, check, steal or release *)
(* (write-lock.ts:81-88 and 112-120).  "EXCLUSIVE ... two processes can't both  *)
(* believe they hold it" (64-68) is too much to say, and three owners are       *)
(* excepted: one that was late by 15 s; one that wrote the file while another   *)
(* stood between its check (86) and its overwrite (88), which may be a second   *)
(* thief, or have seen no file at all; and one whose file was removed by an      *)
(* owner of these two kinds.                                                  *)
Announced ==
  \A s \in owns \ overtaken : srv[s] \in {"rebuild", "beat", "release"} /\ holder = s /\ fresh
=============================================================================
