---------------------------- MODULE Classifiers ----------------------------
(* How a row gets its verdict: AuditGraph, RuleClassifiers, MerchantResolver *)
(* and LlmReasoner.  They share a specification and not a state: each        *)
(* behaviour has work for one of them and leaves the others where they start. *)
EXTENDS LlmReasoner, TLC

LlmIdle == rows = << >> /\ client = FALSE /\ Init
-----------------------------------------------------------------------------
(* Rules.                                                                   *)

CONSTANTS Order, BaseCodes, BasePropensity, RuleOverrides, BusinessCodes, PersonalCodes,
          RuleRows

VARIABLES row, taxonomy, node, route, verdicts
rule_vars == <<row, taxonomy, node, route, verdicts>>

Rules == INSTANCE RuleClassifiers WITH Overrides <- RuleOverrides, Rows <- RuleRows

ASSUME RulesAssumption == Rules!ConstantsAssumption

RulesIdle == row = (CHOOSE r \in RuleRows : TRUE) /\ Rules!Init
-----------------------------------------------------------------------------
(* Merchants.                                                               *)

CONSTANTS Gazetteer, Texts, Words, PayRest, Glue, Within, Scores, Thresholds, TopKs

VARIABLES text, threshold, top_k, ratio, jaccard, answered, answer
merchant_vars == <<text, threshold, top_k, ratio, jaccard, answered, answer>>

Merchants == INSTANCE MerchantResolver

ASSUME MerchantsAssumption == Merchants!ConstantsAssumption

MerchantsIdle ==
  LET any == CHOOSE s \in Scores : TRUE IN
    /\ text = (CHOOSE t \in Texts : TRUE) /\ threshold = (CHOOSE t \in Thresholds : TRUE)
    /\ top_k = (CHOOSE k \in TopKs : TRUE)
    /\ ratio = [n \in Merchants!Names |-> any] /\ jaccard = [n \in Merchants!Names |-> any]
    /\ answered = FALSE /\ answer = << >>
-----------------------------------------------------------------------------
(* The cascade.                                                             *)

CONSTANTS TxIds, MaxRows, MlOutcomes, SlmOutcomes, LlmOutcomes, MccConfidence,
          SlmEscalation, ReviewDefault, ReviewHighRisk, MlMinConfidence

VARIABLES fast, llm, ml, cascade_node, state
cascade_vars == <<fast, llm, ml, cascade_node, state>>

Cascade == INSTANCE AuditGraph WITH node <- cascade_node, Ids <- TxIds

ASSUME CascadeAssumption == Cascade!ConstantsAssumption

CascadeIdle == fast = FALSE /\ llm = FALSE /\ ml = FALSE /\ Cascade!Init
-----------------------------------------------------------------------------
VARIABLE component  \* the one that has work

ClassifiersInit ==
  \/ component = "cascade" /\ RulesIdle /\ MerchantsIdle /\ LlmIdle /\ Cascade!Init
  \/ component = "llm" /\ CascadeIdle /\ RulesIdle /\ MerchantsIdle /\ Init
  \/ component = "rules" /\ CascadeIdle /\ LlmIdle /\ MerchantsIdle /\ Rules!Init
  \/ component = "merchants" /\ CascadeIdle /\ LlmIdle /\ RulesIdle /\ Merchants!Init

ClassifiersNext ==
  \/ /\ component = "cascade" /\ Cascade!Next
     /\ UNCHANGED <<component, vars, rule_vars, merchant_vars>>
  \/ /\ component = "llm" /\ (Next \/ Terminated)
     /\ UNCHANGED <<component, cascade_vars, rule_vars, merchant_vars>>
  \/ /\ component = "rules" /\ Rules!Next
     /\ UNCHANGED <<component, cascade_vars, vars, merchant_vars>>
  \/ /\ component = "merchants" /\ Merchants!Next
     /\ UNCHANGED <<component, cascade_vars, vars, rule_vars>>

ClassifiersSpec ==
  /\ ClassifiersInit
  /\ [][ClassifiersNext]_<<component, cascade_vars, vars, rule_vars, merchant_vars>>
  /\ WF_vars(Next)

\* The type invariants of the four modules.
ClassifiersTypeOK == TypeOK /\ Cascade!TypeOK /\ Rules!TypeOK /\ Merchants!TypeOK

\* The cascade loses no verdict and no trace of one.
VerdictsAreKept == Cascade!VerdictsAreKept

\* Nothing unsure gets past the thresholds of the cascade.
ThresholdsHold == Cascade!ThresholdsHold

\* The rules weigh evidence and nothing else.
EvidenceDecides == Rules!EvidenceDecides

\* The merchant resolver's stages come in their order.
ResolvedInOrder == Merchants!ResolvedInOrder
=============================================================================
