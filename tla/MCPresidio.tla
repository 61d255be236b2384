----------------------------- MODULE MCPresidio -----------------------------
(***************************************************************************)
(* Two kinds of entity, two texts and two scores for TLC.                  *)
(***************************************************************************)
EXTENDS Presidio

MCEntityTypes == {"EMAIL", "CARD"}

Found(entity, score) == [entity |-> entity, score |-> score]

MCTextContents == {{}, {Found("EMAIL", 1)}, {Found("CARD", 2)}, {Found("EMAIL", 2), Found("CARD", 1)}}

MCBodies == [{"t1", "t2"} -> MCTextContents] \cup [{} -> MCTextContents]

MCActionMaps ==
  UNION {[S -> {"ALLOW", "MASK", "BLOCK"}] : S \in SUBSET (MCEntityTypes \cup {"ALL"})}
    \cup [{"EMAIL"} -> {"other"}]

(* Those in which ALL stands alone, or not at all.                         *)
MCAloneMaps == {map \in MCActionMaps : "ALL" \in DOMAIN map => DOMAIN map = {"ALL"}}

MCThresholdMaps ==
  UNION {[S -> {2}] : S \in SUBSET (MCEntityTypes \cup {"ALL"})}
    \cup [{"CARD"} -> {1, Unparsable, NaN}]
=============================================================================
