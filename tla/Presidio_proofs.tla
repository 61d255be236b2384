--------------------------- MODULE Presidio_proofs ---------------------------
(***************************************************************************)
(* The provider's two calls per text implement one verdict per text, for   *)
(* every body, every threshold and all actions in which ALL stands alone.  *)
(***************************************************************************)
EXTENDS Presidio, TLAPS

(* What has an answer has the right one, and the text at the anonymizer is *)
(* one to be masked.                                                       *)
ProviderInv ==
  /\ TypeOK
  /\ \A t \in DOMAIN body \ remaining :
       /\ Verdict(t) # "block"
       /\ Verdict(t) = "mask" => t \in rewritten
  /\ phase = "anonymize" => Verdict(current) = "mask"
  /\ verdict = "passed" => remaining = {}

(* A threshold is a score, NaN, or does not parse (getThreshold,           *)
(* presidio.go:210-227).                                                   *)
LEMMA ThresholdType ==
  ASSUME TypeOK, NEW entity \in EntityTypes
  PROVE  Threshold(entity) \in Scores \cup {Unparsable, NaN}
<1>1. PICK S \in SUBSET (EntityTypes \cup {"ALL"}) :
        thresholds \in [S -> Scores \cup {Unparsable, NaN}]
  BY MapAssumption DEF TypeOK
<1> QED  BY <1>1 DEF Threshold

(* An entity some action judges is one the analyzer is asked for           *)
(* (presidio.go:134-145 and 281-289).                                      *)
LEMMA JudgedIsAsked ==
  ASSUME TypeOK, CatchAllAlone, NEW entity \in EntityTypes, Action(entity) # "ALLOW"
  PROVE  Asked = {} \/ entity \in Asked
<1>1. CASE entity \in DOMAIN actions
  BY <1>1, EntityAssumption DEF Asked
<1>2. CASE entity \notin DOMAIN actions
  <2>1. "ALL" \in DOMAIN actions
    BY <1>2 DEF Action
  <2>2. DOMAIN actions = {"ALL"}
    BY <2>1 DEF CatchAllAlone, TypeOK
  <2> QED  BY <2>2 DEF Asked
<1> QED  BY <1>1, <1>2

(* What determineAction finds in the analyzer's filtered answer is what    *)
(* the configuration says of the text (presidio.go:195-252).               *)
LEMMA KeptAsJudged ==
  ASSUME TypeOK, CatchAllAlone, NEW t \in DOMAIN body
  PROVE  /\ Blocked(t) # {} <=> Judged(t, "BLOCK")
         /\ ToMask(t) # {} <=> Judged(t, "MASK")
<1>1. body[t] \subseteq Detections
  BY BodyAssumption DEF TypeOK
<1>2. ASSUME NEW d \in body[t], Action(d.entity) # "ALLOW"
      PROVE  d \in Kept(t) <=>
                (Threshold(d.entity) # Unparsable =>
                   \E threshold \in Scores :
                     threshold = Threshold(d.entity) /\ d.score >= threshold)
  <2>1. d.entity \in EntityTypes
    BY <1>1 DEF Detections
  <2>2. d \in AnalyzerFinds(t)
    BY <1>2, <2>1, JudgedIsAsked DEF AnalyzerFinds
  <2>3. Threshold(d.entity) \in Scores \cup {Unparsable, NaN}
    BY <2>1, ThresholdType
  <2> QED  BY <2>2, <2>3, EntityAssumption DEF Kept, FilterByThreshold
<1>3. Kept(t) \subseteq body[t]
  BY DEF Kept, FilterByThreshold, AnalyzerFinds
<1> QED  BY <1>2, <1>3 DEF Blocked, ToMask, Judged

(* The three outcomes of determineAction are the three verdicts.           *)
LEMMA OutcomeIsVerdict ==
  ASSUME TypeOK, CatchAllAlone, NEW t \in DOMAIN body
  PROVE  /\ Blocked(t) # {} <=> Verdict(t) = "block"
         /\ Blocked(t) = {} /\ ToMask(t) # {} <=> Verdict(t) = "mask"
         /\ Blocked(t) = {} /\ ToMask(t) = {} <=> Verdict(t) = "allow"
<1> HIDE DEF Blocked, ToMask, Judged
<1> QED  BY KeptAsJudged DEF Verdict

(* The verdicts do not change while a body is inspected.                   *)
LEMMA VerdictKept ==
  ASSUME UNCHANGED configVars
  PROVE  /\ [t \in DOMAIN body |-> Verdict(t)]' = [t \in DOMAIN body |-> Verdict(t)]
         /\ \A t \in DOMAIN body : Verdict(t)' = Verdict(t)
  BY DEF configVars, Verdict, Judged, Action, Threshold

(* A stream's loop starts with every text to be answered.                  *)
LEMMA InitProviderInv == Init => ProviderInv
  BY DEF Init, ProviderInv, TypeOK

(* Every step of the inspection keeps the invariant: a text leaves         *)
(* remaining only with the answer its verdict calls for.                   *)
LEMMA StepKeepsProviderInv ==
  ASSUME ProviderInv, CatchAllAlone, [Next]_vars
  PROVE  ProviderInv'
<1> USE DEF ProviderInv
<1>1. UNCHANGED configVars
  BY DEF vars, configVars, Next, PickText, AnalyzedBlock, AnalyzedMask, AnalyzedAllow,
         Anonymized, CallFails, BodyPasses
<1>2. \A t \in DOMAIN body : Verdict(t)' = Verdict(t)
  BY <1>1, VerdictKept
<1>3. body' = body /\ actions' = actions /\ thresholds' = thresholds
  BY <1>1 DEF configVars
<1>4. ASSUME NEW t \in remaining, PickText(t)
      PROVE  ProviderInv'
  BY <1>2, <1>3, <1>4 DEF PickText, TypeOK
<1>5. CASE AnalyzedBlock
  BY <1>2, <1>3, <1>5 DEF AnalyzedBlock, TypeOK
<1>6. CASE AnalyzedMask
  <2>1. current \in DOMAIN body /\ Verdict(current) = "mask"
    BY <1>6, OutcomeIsVerdict DEF AnalyzedMask, TypeOK
  <2>2. ToMask(current) \in SUBSET Detections
    BY <2>1, BodyAssumption DEF ToMask, Kept, FilterByThreshold, AnalyzerFinds, TypeOK
  <2> HIDE DEF ToMask
  <2>3. TypeOK'
    BY <1>3, <1>6, <2>2 DEF AnalyzedMask, TypeOK
  <2> QED  BY <1>2, <1>3, <1>6, <2>1, <2>3 DEF AnalyzedMask
<1>7. CASE AnalyzedAllow
  <2>1. current \in DOMAIN body /\ Verdict(current) = "allow"
    BY <1>7, OutcomeIsVerdict DEF AnalyzedAllow, TypeOK
  <2>2. TypeOK'
    BY <1>3, <1>7 DEF AnalyzedAllow, TypeOK
  <2> QED  BY <1>2, <1>3, <1>7, <2>1, <2>2 DEF AnalyzedAllow
<1>8. CASE Anonymized
  <2>1. TypeOK'
    BY <1>3, <1>8 DEF Anonymized, TypeOK
  <2>2. current \in DOMAIN body /\ Verdict(current) = "mask"
    BY <1>8 DEF Anonymized, TypeOK
  <2> QED  BY <1>2, <1>3, <1>8, <2>1, <2>2 DEF Anonymized
<1>9. CASE CallFails
  BY <1>2, <1>3, <1>9 DEF CallFails, TypeOK
<1>10. CASE BodyPasses
  BY <1>2, <1>3, <1>10 DEF BodyPasses, TypeOK
<1>11. CASE UNCHANGED vars
  BY <1>2, <1>3, <1>11 DEF vars, configVars, TypeOK
<1> QED  BY <1>4, <1>5, <1>6, <1>7, <1>8, <1>9, <1>10, <1>11 DEF Next

(* The invariant holds throughout every inspection of a body's texts       *)
(* (server.go:421-433, presidio.go:127-276).                               *)
THEOREM ProviderInvHolds ==
  ASSUME CatchAllAlone
  PROVE  Spec => []ProviderInv
<1>1. Init => ProviderInv
  BY InitProviderInv
<1>2. ProviderInv /\ [Next]_vars => ProviderInv'
  BY StepKeepsProviderInv
<1> QED  BY <1>1, <1>2, PTL DEF Spec

(* A body that passes holds nothing to be blocked, and what is to be masked *)
(* was anonymized, when the ALL entry stands alone (determineAction,       *)
(* presidio.go:229-276).                                                   *)
THEOREM PassedBodiesAreClean ==
  ASSUME CatchAllAlone
  PROVE  Spec => []PassedIsClean
<1>1. ProviderInv => PassedIsClean
  BY DEF ProviderInv, PassedIsClean
<1> QED  BY <1>1, ProviderInvHolds, PTL

(* The provider implements the policy that the stream takes it for         *)
(* (ProcessRequest, presidio.go:126-192).                                  *)
THEOREM ProviderImplementsPolicy ==
  ASSUME CatchAllAlone
  PROVE  Spec => ImplementsPolicy
<1> DEFINE Map == [t \in DOMAIN body |-> Verdict(t)]
<1>1. Init => Policy!PolicyInit
  BY BodyAssumption DEF Init, Policy!PolicyInit
<1>2. ASSUME ProviderInv, [Next]_vars
      PROVE  [Policy!PolicyNext]_Policy!policyVars
  <2>1. UNCHANGED configVars
    BY <1>2 DEF vars, configVars, Next, PickText, AnalyzedBlock, AnalyzedMask,
                AnalyzedAllow, Anonymized, CallFails, BodyPasses
  <2>2. Map' = Map
    BY <2>1, VerdictKept
  <2>3. phase # "pick" => current \in remaining /\ current \in DOMAIN body
    BY <1>2 DEF ProviderInv, TypeOK
  <2>4. ASSUME NEW t \in remaining, PickText(t)
        PROVE  UNCHANGED Policy!policyVars
    BY <2>2, <2>4 DEF PickText, Policy!policyVars
  <2>5. CASE AnalyzedBlock \/ CallFails
    BY <2>2, <2>3, <2>5
       DEF AnalyzedBlock, CallFails, Policy!PolicyNext, Policy!Refuse
  <2>6. CASE AnalyzedMask
    BY <2>2, <2>6 DEF AnalyzedMask, Policy!policyVars
  <2>7. CASE AnalyzedAllow
    <3>1. Map[current] = "allow"
      BY <1>2, <2>3, <2>7, OutcomeIsVerdict DEF AnalyzedAllow, ProviderInv
    <3>2. Policy!Keep(current)
      BY <2>2, <2>7, <3>1 DEF AnalyzedAllow, Policy!Keep
    <3> QED  BY <2>3, <2>7, <3>2 DEF AnalyzedAllow, Policy!PolicyNext
  <2>8. CASE Anonymized
    <3>1. Map[current] = "mask"
      BY <1>2, <2>3, <2>8 DEF Anonymized, ProviderInv
    <3>2. Policy!Mask(current)
      BY <2>2, <2>8, <3>1 DEF Anonymized, Policy!Mask
    <3> QED  BY <2>3, <2>8, <3>2 DEF Anonymized, Policy!PolicyNext
  <2>9. CASE BodyPasses
    BY <2>2, <2>9 DEF BodyPasses, Policy!PolicyNext, Policy!Pass
  <2>10. CASE UNCHANGED vars
    BY <2>2, <2>10 DEF vars, Policy!policyVars
  <2> QED
    BY <1>2, <2>4, <2>5, <2>6, <2>7, <2>8, <2>9, <2>10 DEF Next
<1> QED
  BY <1>1, <1>2, ProviderInvHolds, PTL DEF Spec, ImplementsPolicy, Policy!PolicySpec
=============================================================================
