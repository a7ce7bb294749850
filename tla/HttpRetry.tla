----------------------------- MODULE HttpRetry -------------------------------
(***************************************************************************)
(* A request to a hosted backend: fetchWithRetry (src/embedding/retry.ts)  *)
(* under the Gemini and Voyage embeddings (hosted.ts), and under the LLM    *)
(* client, whose signal aborts (src/llm/client.ts).                        *)
(***************************************************************************)
EXTENDS Naturals

CONSTANTS
  MaxAttempts,  \* DEFAULT_MAX_ATTEMPTS
  MaxDelay      \* DEFAULT_MAX_DELAY_MS, in units of DEFAULT_BASE_DELAY_MS

Client == {"embed", "llm"}
NoHeader == MaxDelay + 2         \* no Retry-After, or one that cannot be parsed
Header == 0..NoHeader

VARIABLES
  client,           \* who asks
  pc, attempt,      \* fetchWithRetry
  aborted,          \* init.signal.aborted
  out,              \* how the call ended
  sent, late, slept \* history: requests, those begun after the abort, units slept

vars == <<client, pc, attempt, aborted, out, sent, late, slept>>

Init ==
  /\ client \in Client
  /\ pc = "head" /\ attempt = 1 /\ aborted = FALSE /\ out = "none"
  /\ sent = 0 /\ late = 0 /\ slept = 0

\* AbortSignal.timeout, or the caller's: the embeddings have no signal.
Abort ==
  /\ client = "llm" /\ pc # "done" /\ ~aborted /\ aborted' = TRUE
  /\ UNCHANGED <<client, pc, attempt, out, sent, late, slept>>

Ends(how) == pc' = "done" /\ out' = how /\ UNCHANGED <<client, aborted, attempt, sent, late, slept>>

AbortedAtHead == pc = "head" /\ aborted /\ Ends("error")

Fetch_Unchecked ==   \* Mutant: the signal is not looked at between attempts
  /\ pc = "head" /\ pc' = "flight" /\ sent' = sent + 1 /\ late' = late + (IF aborted THEN 1 ELSE 0)
  /\ UNCHANGED <<client, attempt, aborted, out, slept>>
Fetch ==
  /\ pc = "head" /\ ~aborted /\ pc' = "flight" /\ sent' = sent + 1 /\ late' = late + (IF aborted THEN 1 ELSE 0)
  /\ UNCHANGED <<client, attempt, aborted, out, slept>>

\* The exponential backoff, capped; the jitter draws from 0 to it.
Capped == LET exp == 2 ^ (attempt - 1) IN IF exp < MaxDelay THEN exp ELSE MaxDelay

\* A Retry-After that can be read wins over the backoff, and is capped too.
Delay_Uncapped(h) == IF h # NoHeader THEN {h} ELSE 0..Capped   \* Mutant: the header is taken as it is
Delay(h) == IF h # NoHeader THEN {IF h < MaxDelay THEN h ELSE MaxDelay} ELSE 0..Capped

\* Asleep, then at the head of the loop with the next attempt.  A sleep is not
\* cut short by an abort.
Sleeps(h) ==
  /\ pc' = "sleep" /\ \E d \in Delay(h) : slept' = slept + d
  /\ UNCHANGED <<client, attempt, aborted, out, sent, late>>
Wakes ==
  /\ pc = "sleep" /\ pc' = "head" /\ attempt' = attempt + 1
  /\ UNCHANGED <<client, aborted, out, sent, late, slept>>

\* 429 or 503: again, unless this was the last attempt, whose response is the
\* caller's error.
Busy(h) ==
  /\ pc = "flight"
  /\ IF attempt < MaxAttempts THEN Sleeps(h) ELSE Ends("error")

\* fetch throws: an abort ends it, another failure is tried again.
Throws ==
  /\ pc = "flight"
  /\ IF ~aborted /\ attempt < MaxAttempts THEN Sleeps(NoHeader) ELSE Ends("error")

\* Any other status: requireEnv and the request were wrong, no retry.
Rejected == pc = "flight" /\ Ends("error")

\* A completion, or the vectors; extractVectors and assertDimensions turn a short
\* or misshapen batch into an error.
Answers == pc = "flight" /\ \E how \in {"answer"} \cup (IF client = "embed" THEN {"error"} ELSE {}) : Ends(how)

Next ==
  \/ Abort \/ AbortedAtHead \/ Fetch \/ Wakes \/ Throws \/ Rejected \/ Answers
  \/ \E h \in Header : Busy(h)

Spec == Init /\ [][Next]_vars

\* A cancelled request costs no further attempt, whatever it was doing when the
\* abort came; and a backend cannot park the caller with its Retry-After.
AbortStops ==
  /\ late = 0 /\ sent <= MaxAttempts
  /\ slept <= (MaxAttempts - 1) * MaxDelay
=============================================================================
