------------------------------ MODULE Presidio ------------------------------
(***************************************************************************)
(* The Presidio provider at work on the texts of one body                  *)
(* (internal/provider/presidio/presidio.go, called in the loops of         *)
(* inspectAndEmitRequest and inspectAndEmitResponse,                       *)
(* internal/extproc/server.go).  Each text is sent to the analyzer, what   *)
(* it detects is filtered by score and judged by the configured actions,   *)
(* and a text with something to mask is sent to the anonymizer.  Either    *)
(* call may fail.                                                          *)
(***************************************************************************)
EXTENDS Integers, FiniteSets

CONSTANTS
  EntityTypes,      \* kinds of entity the analyzer knows
  Scores,           \* scores and thresholds
  Text,             \* texts a body may hold
  Bodies,           \* text -> what the analyzer can find in it
  ActionMaps,       \* entity_actions of a configuration
  ThresholdMaps,    \* score_thresholds of a configuration
  Unparsable,       \* a threshold that strconv.ParseFloat refuses
  NaN,              \* one that it takes and no score reaches
  NoText

Detections == [entity : EntityTypes, score : Scores]
Actions == {"ALLOW", "MASK", "BLOCK", "other"}

ASSUME EntityAssumption ==
  /\ "ALL" \notin EntityTypes
  /\ Scores \subseteq Int
  /\ {Unparsable, NaN} \cap Scores = {}
  /\ Unparsable # NaN
  /\ NoText \notin Text

ASSUME BodyAssumption == Bodies \subseteq UNION {[S -> SUBSET Detections] : S \in SUBSET Text}

ASSUME MapAssumption ==
  /\ ActionMaps \subseteq UNION {[S -> Actions] : S \in SUBSET (EntityTypes \cup {"ALL"})}
  /\ ThresholdMaps \subseteq
       UNION {[S -> Scores \cup {Unparsable, NaN}] : S \in SUBSET (EntityTypes \cup {"ALL"})}

VARIABLES
  actions, thresholds,   \* the configuration
  body,                  \* the texts of the body, with what they hold
  remaining,             \* texts that are not done
  current,               \* the text whose call is under way
  maskEntities,          \* what the anonymizer is asked to replace in it
  rewritten,             \* texts it answered for
  phase,                 \* "pick", "analyze", "anonymize"
  verdict

vars == <<actions, thresholds, body, remaining, current, maskEntities, rewritten,
          phase, verdict>>
configVars == <<actions, thresholds, body>>

TypeOK ==
  /\ actions \in ActionMaps
  /\ thresholds \in ThresholdMaps
  /\ body \in Bodies
  /\ remaining \subseteq DOMAIN body
  /\ IF phase = "pick" THEN current = NoText ELSE current \in remaining
  /\ maskEntities \in SUBSET Detections
  /\ rewritten \subseteq DOMAIN body
  /\ phase \in {"pick", "analyze", "anonymize"}
  /\ verdict \in {"open", "passed", "refused"}

Init ==
  /\ actions \in ActionMaps
  /\ thresholds \in ThresholdMaps
  /\ body \in Bodies
  /\ remaining = DOMAIN body
  /\ current = NoText
  /\ maskEntities = {}
  /\ rewritten = {}
  /\ phase = "pick"
  /\ verdict = "open"
-----------------------------------------------------------------------------
(* getAction and getThreshold: the entity's own entry, else ALL.           *)
Action(entity) ==
  CASE entity \in DOMAIN actions -> actions[entity]
    [] entity \notin DOMAIN actions /\ "ALL" \in DOMAIN actions -> actions["ALL"]
    [] OTHER -> "ALLOW"

Threshold(entity) ==
  CASE entity \in DOMAIN thresholds -> thresholds[entity]
    [] entity \notin DOMAIN thresholds /\ "ALL" \in DOMAIN thresholds -> thresholds["ALL"]
    [] OTHER -> Unparsable

(* No threshold, or one that does not parse, filters nothing; NaN, which   *)
(* parses, filters everything.                                             *)
FilterByThreshold(found) ==
  {d \in found : \/ Threshold(d.entity) = Unparsable
                 \/ Threshold(d.entity) \in Scores /\ d.score >= Threshold(d.entity)}

(* The analyzer is asked for the entities with an action, or for all.      *)
Asked == DOMAIN actions \ {"ALL"}

AnalyzerFinds(t) == {d \in body[t] : Asked = {} \/ d.entity \in Asked}

Kept(t) == FilterByThreshold(AnalyzerFinds(t))
Blocked(t) == {d \in Kept(t) : Action(d.entity) = "BLOCK"}
ToMask(t) == {d \in Kept(t) : Action(d.entity) = "MASK"}

-----------------------------------------------------------------------------
PickText(t) ==
  /\ verdict = "open" /\ phase = "pick"
  /\ t \in remaining
  /\ current' = t
  /\ phase' = "analyze"
  /\ UNCHANGED <<configVars, remaining, maskEntities, rewritten, verdict>>

(* BLOCK takes precedence.                                                 *)
AnalyzedBlock ==
  /\ verdict = "open" /\ phase = "analyze"
  /\ Blocked(current) # {}
  /\ verdict' = "refused"
  /\ UNCHANGED <<configVars, remaining, current, maskEntities, rewritten, phase>>

(* Altered: a text that holds both is masked.                              *)
Altered_AnalyzedMask ==
  /\ verdict = "open" /\ phase = "analyze"
  /\ ToMask(current) # {}
  /\ maskEntities' = ToMask(current)
  /\ phase' = "anonymize"
  /\ UNCHANGED <<configVars, remaining, current, rewritten, verdict>>

AnalyzedMask ==
  /\ verdict = "open" /\ phase = "analyze"
  /\ Blocked(current) = {}
  /\ ToMask(current) # {}
  /\ maskEntities' = ToMask(current)
  /\ phase' = "anonymize"
  /\ UNCHANGED <<configVars, remaining, current, rewritten, verdict>>

(* Nothing detected, or only entities that are allowed.                    *)
AnalyzedAllow ==
  /\ verdict = "open" /\ phase = "analyze"
  /\ Blocked(current) = {}
  /\ ToMask(current) = {}
  /\ remaining' = remaining \ {current}
  /\ current' = NoText
  /\ phase' = "pick"
  /\ UNCHANGED <<configVars, maskEntities, rewritten, verdict>>

Anonymized ==
  /\ verdict = "open" /\ phase = "anonymize"
  /\ remaining' = remaining \ {current}
  /\ rewritten' = rewritten \cup {current}
  /\ current' = NoText
  /\ maskEntities' = {}
  /\ phase' = "pick"
  /\ UNCHANGED <<configVars, verdict>>

(* Altered: a text the anonymizer fails on is let through.                 *)
Altered_CallFails ==
  /\ verdict = "open"
  /\ \/ phase = "analyze" /\ verdict' = "refused" /\ UNCHANGED <<remaining, current, phase>>
     \/ /\ phase = "anonymize"
        /\ remaining' = remaining \ {current} /\ current' = NoText /\ phase' = "pick"
        /\ UNCHANGED verdict
  /\ UNCHANGED <<configVars, maskEntities, rewritten>>

(* No connection, a status other than 200, or an answer that does not      *)
(* parse, from the analyzer or the anonymizer.                             *)
CallFails ==
  /\ verdict = "open" /\ phase \in {"analyze", "anonymize"}
  /\ verdict' = "refused"
  /\ UNCHANGED <<configVars, remaining, current, maskEntities, rewritten, phase>>

BodyPasses ==
  /\ verdict = "open" /\ phase = "pick"
  /\ remaining = {}
  /\ verdict' = "passed"
  /\ UNCHANGED <<configVars, remaining, current, maskEntities, rewritten, phase>>

Next ==
  \/ \E t \in remaining : PickText(t)
  \/ AnalyzedBlock
  \/ AnalyzedMask
  \/ AnalyzedAllow
  \/ Anonymized
  \/ CallFails
  \/ BodyPasses

Spec == Init /\ [][Next]_vars
-----------------------------------------------------------------------------
(* What the configuration says of a text, from what it holds: an entity    *)
(* counts if it has no threshold or reaches it.                            *)
Judged(t, action) ==
  \E d \in body[t] :
    /\ Action(d.entity) = action
    /\ Threshold(d.entity) # Unparsable =>
         \E threshold \in Scores : threshold = Threshold(d.entity) /\ d.score >= threshold

Verdict(t) ==
  CASE Judged(t, "BLOCK") -> "block"
    [] ~Judged(t, "BLOCK") /\ Judged(t, "MASK") -> "mask"
    [] OTHER -> "allow"

(* The configurations for which the analyzer is asked for all that the     *)
(* actions judge: ALL stands alone, or not at all.                         *)
CatchAllAlone == \A map \in ActionMaps : "ALL" \in DOMAIN map => DOMAIN map = {"ALL"}

(* A body passes only if no text of it holds an entity to be blocked, and  *)
(* every text with one to be masked was anonymized, whatever the order of  *)
(* the texts and whichever calls fail (determineAction,                    *)
(* presidio.go:229-276); with "ALL as a catch-all default for entity types *)
(* not explicitly configured" (presidio.go:30).                            *)
PassedIsClean ==
  verdict = "passed" =>
    \A t \in DOMAIN body :
      /\ Verdict(t) # "block"
      /\ Verdict(t) = "mask" => t \in rewritten

Policy == INSTANCE TextPolicy WITH policy <- [t \in DOMAIN body |-> Verdict(t)]

(* The two calls per text implement one verdict per text, so that the      *)
(* stream's model may take the provider for a policy (ProcessRequest,      *)
(* presidio.go:126-192; the loops at server.go:421-433 and 600-620).       *)
ImplementsPolicy == Policy!PolicySpec
=============================================================================
