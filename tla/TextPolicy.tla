----------------------------- MODULE TextPolicy -----------------------------
(***************************************************************************)
(* What a guardrail provider owes the stream that inspects a body: each    *)
(* text has a verdict, the texts are taken in any order, one that may not  *)
(* pass refuses the body, and the body passes only when every text has been *)
(* kept or rewritten as its verdict says.  A failed call refuses, too.     *)
(***************************************************************************)
EXTENDS FiniteSets

CONSTANT Text

VARIABLES
  policy,      \* text -> "allow", "mask" or "block"
  remaining,   \* texts without an answer
  rewritten,   \* texts that were masked
  verdict      \* "open", "passed" or "refused"

policyVars == <<policy, remaining, rewritten, verdict>>

PolicyInit ==
  /\ remaining \subseteq Text
  /\ rewritten = {}
  /\ verdict = "open"

Keep(t) ==
  /\ policy[t] = "allow"
  /\ remaining' = remaining \ {t}
  /\ UNCHANGED <<policy, rewritten, verdict>>

Mask(t) ==
  /\ policy[t] = "mask"
  /\ remaining' = remaining \ {t}
  /\ rewritten' = rewritten \cup {t}
  /\ UNCHANGED <<policy, verdict>>

Refuse ==
  /\ remaining # {}
  /\ verdict' = "refused"
  /\ UNCHANGED <<policy, remaining, rewritten>>

Pass ==
  /\ remaining = {}
  /\ verdict' = "passed"
  /\ UNCHANGED <<policy, remaining, rewritten>>

PolicyNext ==
  /\ verdict = "open"
  /\ \/ \E t \in remaining : Keep(t) \/ Mask(t)
     \/ Refuse
     \/ Pass

PolicySpec == PolicyInit /\ [][PolicyNext]_policyVars
=============================================================================
