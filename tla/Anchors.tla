------------------------------- MODULE Anchors -------------------------------
(***************************************************************************)
(* Fact anchors over the symbol index (src/anchoring, src/ground-truth):   *)
(* an anchor claims that a fact is about a file, or about the symbol in    *)
(* it.  The sweep after a capture promotes claimed anchors that resolve;   *)
(* recall re-resolves the verified and stale anchors of the facts it shows *)
(* and keeps, moves or demotes them.                                       *)
(***************************************************************************)
EXTENDS SymbolIndex

CONSTANTS
  Anchor,      \* anchor ids, in the order they are created
  SweepLimit   \* SWEEP_LIMIT: claimed anchors one sweep looks at

VARIABLES
  anchors      \* anchor id -> [kind, file, state], for those created

anchorVars == <<anchors>>
vars == <<symbolVars, anchorVars>>

Existing == DOMAIN anchors
InState(s) == {a \in Existing : anchors[a].state = s}

(*---------------------------- ground truth ------------------------------*)

\* A store that was never stamped cannot verify anything.
Available == indexed # 0

\* The file the symbol resolves to within file f: a parsed file must have the
\* row; a file that cannot be parsed resolves while it exists.
ResolvesIn(f) == f \in rows \/ (f \in Unsupported /\ tree[f] # "absent")
\* Anywhere, on condition that the name is unambiguous.
ResolvesUniquely == Cardinality(rows) = 1
ResolveFile(f) == tree[f] # "absent"

Resolves(a) == IF anchors[a].kind = "symbol" THEN ResolvesIn(anchors[a].file)
               ELSE ResolveFile(anchors[a].file)

(*------------------------------ operations ------------------------------*)

\* seedAnchors of an ingest: claims about the files a tool wrote to.
Seed(a, kind, f) ==
  /\ a \notin Existing /\ \A b \in Anchor : b < a => b \in Existing
  /\ tree[f] # "absent"
  /\ anchors' = [b \in Existing \cup {a} |->
       IF b = a THEN [kind |-> kind, file |-> f, state |-> "claimed"] ELSE anchors[b]]

Verified(a) == [anchors[a] EXCEPT !.state = "verified"]

\* listAnchorsByState('claimed', SWEEP_LIMIT), ordered by id.
Batch == {a \in InState("claimed") :
            Cardinality({b \in InState("claimed") : b < a}) < SweepLimit}

\* runPostCaptureMaintenance: refreshIndex has answered, then sweepAnchors.
Sweep ==
  /\ Available /\ job = NoJob
  /\ anchors' = [a \in Existing |->
       IF a \in Batch /\ Resolves(a) THEN Verified(a) ELSE anchors[a]]

\* A heal that looks the name up without the file the anchor names.
Healed_Anywhere(a) ==
  IF ResolvesUniquely
  THEN [anchors[a] EXCEPT !.state = "verified", !.file = CHOOSE f \in rows : TRUE]
  ELSE [anchors[a] EXCEPT !.state = "stale"]

\* healOne: same file first, then the unambiguous other place, else stale.
Healed(a) ==
  IF Resolves(a) THEN Verified(a)
  ELSE IF anchors[a].kind = "symbol" /\ ResolvesUniquely
  THEN [anchors[a] EXCEPT !.state = "verified", !.file = CHOOSE f \in rows : TRUE]
  ELSE [anchors[a] EXCEPT !.state = "stale"]

\* verifyOnRecall on the anchors of the recalled facts; the claimed are left.
Heal(shown) ==
  /\ Available
  /\ anchors' = [a \in Existing |->
       IF a \in shown \cap (InState("verified") \cup InState("stale"))
       THEN Healed(a) ELSE anchors[a]]

Init == SymbolInit /\ anchors = <<>>

Next ==
  \/ (User \/ Refresh) /\ UNCHANGED anchors
  \/ /\ \/ \E a \in Anchor, k \in {"file", "symbol"}, f \in File : Seed(a, k, f)
        \/ Sweep
        \/ \E shown \in SUBSET Existing : Heal(shown)
     /\ UNCHANGED symbolVars

Spec == Init /\ [][Next]_vars

(*------------------------------ properties -------------------------------*)

\* Golden rule of the provider, never a false stale: an anchor goes stale only
\* when its file is gone or, in a parsed file, when the symbol is gone, the
\* index has not read the file since it changed, or a race or a failed parse
\* hid it.
NoFalseStale ==
  [][\A a \in Existing :
       (anchors'[a].state = "stale" /\ anchors[a].state # "stale")
         => LET f == anchors[a].file IN
              IF anchors[a].kind = "file" \/ f \in Unsupported
              THEN tree[f] = "absent"
              ELSE tree[f] # "with" \/ f \in behind \cup excused]_vars
=============================================================================
