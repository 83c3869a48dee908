----------------------------- MODULE AuditGraph -----------------------------
(***************************************************************************)
(* The classification cascade of one audit in Sentinel-Fi (AuditGraph-     *)
(* Factory): MCC codes, the ML model, the router, the rule-based SLM and   *)
(* the LLM each give verdicts on the rows the stage before left over, and  *)
(* finalize_classification merges the verdicts by tx_id.  tx_id comes from *)
(* the statement: nothing in the code makes it unique.                     *)
(*                                                                         *)
(* What the classifiers look at is abstracted to the outcomes they may     *)
(* have; confidences are in percent.                                       *)
(***************************************************************************)
EXTENDS Integers, Sequences, Lists

CONSTANTS Ids,               \* tx_ids in statements
          MaxRows,           \* bound on the rows of a statement
          MlOutcomes,        \* sets of records [by, unknown, confidence]
          SlmOutcomes,
          LlmOutcomes,       \* of the LLM and of its rule fallback
          MccConfidence,
          SlmEscalation,     \* slm_escalation_threshold
          ReviewDefault,     \* review_threshold_default
          ReviewHighRisk,    \* review_threshold_high_risk
          MlMinConfidence    \* ml_min_confidence

Percent == 0 .. 100

\* What the constants have to be.
ConstantsAssumption ==
  /\ MaxRows \in Nat
  /\ MlOutcomes \subseteq [by: {"ml"}, unknown: BOOLEAN, confidence: Percent]
  /\ SlmOutcomes \subseteq [by: {"slm"}, unknown: BOOLEAN, confidence: Percent]
  /\ LlmOutcomes \subseteq [by: {"llm", "rule"}, unknown: BOOLEAN, confidence: Percent]
  /\ MccConfidence \in Percent
  /\ {SlmEscalation, ReviewDefault, ReviewHighRisk, MlMinConfidence} \subseteq Int

VARIABLES
  fast, llm, ml,  \* fast_mode_enabled; is there an LLM client, an ML model
  node,           \* the node of the graph that runs next
  state           \* AuditState

vars == <<fast, llm, ml, node, state>>
flags == <<fast, llm, ml>>

Row == [n: 1 .. MaxRows, id: Ids, high: BOOLEAN]

Verdict == [row: Row, by: {"mcc", "ml", "slm", "llm", "rule"}, unknown: BOOLEAN,
            confidence: Percent, review: BOOLEAN]

Init ==
  /\ fast \in BOOLEAN /\ llm \in BOOLEAN /\ ml \in BOOLEAN
  /\ node = "data_ingestor"
  /\ state = [normalized |-> << >>, remaining |-> << >>,
              mcc_classified |-> << >>, ml_classified |-> << >>, ml_escalated |-> << >>,
              routed_to_slm |-> << >>, routed_to_llm |-> << >>,
              slm_classified |-> << >>, slm_escalated |-> << >>, llm_classified |-> << >>,
              classified |-> << >>, decisions |-> << >>]

IdsOf(list) == {list[i].id : i \in DOMAIN list}
NumbersOf(list) == {list[i].n : i \in DOMAIN list}

\* The last of a list of rows, and of verdicts, that has the id.
LastRow(list, id) == list[CHOOSE i \in DOMAIN list :
  list[i].id = id /\ \A j \in DOMAIN list : list[j].id = id => j <= i]
LastVerdict(list, id) == list[CHOOSE i \in DOMAIN list :
  list[i].row.id = id /\ \A j \in DOMAIN list : list[j].row.id = id => j <= i]

\* What a dict keyed by tx_id keeps of a list of rows, each id at the place
\* where it comes first: the first row of the id with setdefault, else the last.
FirstById(list) ==
  AtPlaces(list, {i \in DOMAIN list : \A j \in DOMAIN list : list[j].id = list[i].id => i <= j})
LastById(list) == [k \in DOMAIN FirstById(list) |-> LastRow(list, FirstById(list)[k].id)]
-----------------------------------------------------------------------------
(* ClassificationPolicy.                                                   *)

review_threshold(row) == IF row.high THEN ReviewHighRisk ELSE ReviewDefault

\* Variant: the review threshold is not looked at.
EscalateBelowOwnThreshold(v) == v.unknown \/ v.confidence < SlmEscalation

should_escalate_from_slm(v) ==
  v.unknown \/ v.confidence < SlmEscalation \/ v.confidence < review_threshold(v.row)

\* The verdict of a stage on a row, with apply_review_flag applied.
Judged(row, o) ==
  [row |-> row, by |-> o.by, unknown |-> o.unknown, confidence |-> o.confidence,
   review |-> o.confidence < review_threshold(row)]

\* The verdicts on a list of rows, given the outcome for each.
JudgedAll(list, outcome) == [i \in DOMAIN list |-> Judged(list[i], outcome[list[i].n])]

\* The rows to escalate for some verdicts: each is looked up by its id, which
\* finds the last row of the list that has it.
Originals(verdicts, list) ==
  [i \in DOMAIN verdicts |-> LastRow(list, verdicts[i].row.id)]
-----------------------------------------------------------------------------
(* The nodes.                                                              *)

Visit(from, to) == node = from /\ node' = to /\ UNCHANGED flags

\* The rows that normalize_transactions keeps of the statement.
data_ingestor ==
  /\ Visit("data_ingestor", "mcc_classifier")
  /\ \E len \in 0 .. MaxRows : \E id \in [1 .. len -> Ids], high \in [1 .. len -> BOOLEAN] :
       LET rows == [i \in 1 .. len |-> [n |-> i, id |-> id[i], high |-> high[i]]]
       IN  state' = [state EXCEPT !.normalized = rows, !.remaining = rows]

mcc_classifier ==
  /\ Visit("mcc_classifier", "ml_classifier")
  /\ \E hits \in SUBSET NumbersOf(state.remaining) :
       LET hit == {i \in DOMAIN state.remaining : state.remaining[i].n \in hits}
           outcome == [n \in hits |->
             [by |-> "mcc", unknown |-> FALSE, confidence |-> MccConfidence]]
       IN  state' = [state EXCEPT
             !.mcc_classified = JudgedAll(AtPlaces(state.remaining, hit), outcome),
             !.remaining = AtPlaces(state.remaining, DOMAIN state.remaining \ hit)]

\* Without a model every row is escalated.
ml_classifier ==
  /\ Visit("ml_classifier", "routing_supervisor")
  /\ IF ~ml
     THEN state' = [state EXCEPT !.ml_escalated = state.remaining]
     ELSE \E outcome \in [NumbersOf(state.remaining) -> MlOutcomes] :
            LET Low(v) == v.confidence < review_threshold(v.row) \/ v.confidence < MlMinConfidence
                verdicts == JudgedAll(state.remaining, outcome)
                low == {i \in DOMAIN verdicts : Low(verdicts[i])}
                left == Originals(AtPlaces(verdicts, low), state.remaining)
            IN  state' = [state EXCEPT
                  !.ml_classified = verdicts,
                  !.ml_escalated = left,
                  !.remaining = left]

\* The successors the conditional edges choose.
AfterRouting(slm, to_llm) ==
  IF slm # << >> THEN "slm_classifier"
  ELSE IF to_llm # << >> THEN "llm_reasoner" ELSE "finalize_classification"

\* The rows that go one way: those with a UPI or taxonomy signal first, then
\* the ones routed by their embedding or by heuristics.
Routed(list, numbers, signal) ==
  AtPlaces(list, {i \in DOMAIN list : list[i].n \in numbers \cap signal})
    \o AtPlaces(list, {i \in DOMAIN list : list[i].n \in numbers \ signal})

\* Without a client the rows for the LLM go to the SLM as well.
routing_supervisor ==
  /\ node = "routing_supervisor" /\ UNCHANGED flags
  /\ \E signal \in SUBSET NumbersOf(state.remaining) : \E easy \in SUBSET NumbersOf(state.remaining) :
       LET slm == Routed(state.remaining, easy, signal)
           hard == Routed(state.remaining, NumbersOf(state.remaining) \ easy, signal)
           added == {i \in DOMAIN hard : hard[i].id \notin IdsOf(slm)}
           rerouted == hard # << >> /\ ~llm
           to_slm == IF rerouted THEN LastById(slm) \o FirstById(AtPlaces(hard, added)) ELSE slm
           to_llm == IF rerouted THEN << >> ELSE hard
       IN  /\ state' = [state EXCEPT !.routed_to_slm = to_slm, !.routed_to_llm = to_llm]
           /\ node' = AfterRouting(to_slm, to_llm)

\* Variant: only what the SLM escalates counts.
AfterSlmEscalatedOnly(to_llm, escalated) ==
  IF escalated # << >> THEN "llm_reasoner" ELSE "finalize_classification"

AfterSlm(to_llm, escalated) ==
  IF to_llm # << >> \/ escalated # << >> THEN "llm_reasoner" ELSE "finalize_classification"

\* An uncertain verdict is escalated or, without a client, left to a human.
slm_classifier ==
  /\ node = "slm_classifier" /\ UNCHANGED flags
  /\ \E outcome \in [NumbersOf(state.routed_to_slm) -> SlmOutcomes] :
       LET verdicts == JudgedAll(state.routed_to_slm, outcome)
           uncertain == {i \in DOMAIN verdicts : fast /\ should_escalate_from_slm(verdicts[i])}
           flagged == [i \in DOMAIN verdicts |->
             [verdicts[i] EXCEPT !.review = @ \/ (i \in uncertain /\ ~llm)]]
           left == IF llm THEN AtPlaces(verdicts, uncertain) ELSE << >>
           escalated == Originals(left, state.routed_to_slm)
       IN  /\ state' = [state EXCEPT !.slm_classified = flagged, !.slm_escalated = escalated]
           /\ node' = AfterSlm(state.routed_to_llm, escalated)

\* One verdict for each id: the LLM's, or the fallback's when the calls
\* failed or the answer leaves the id out.
llm_reasoner ==
  /\ Visit("llm_reasoner", "finalize_classification")
  /\ LET input == LastById(state.routed_to_llm \o state.slm_escalated) IN
       \E outcome \in [NumbersOf(input) -> LlmOutcomes] :
         state' = [state EXCEPT !.llm_classified = JudgedAll(input, outcome)]
-----------------------------------------------------------------------------
(* finalize_classification.                                                *)

Judgements == state.mcc_classified \o state.ml_classified
                \o state.slm_classified \o state.llm_classified

\* _collect_votes_by_tx_id: the classifiers with a verdict on an id.
Voters(id) ==
  {Judgements[i].by : i \in {i \in DOMAIN Judgements : Judgements[i].row.id = id}}

\* build_classification_decisions.
Route(v, escalated_ids) ==
  CASE v.by = "mcc" -> "mcc"
    [] v.by # "mcc" /\ (v.row.id \in escalated_ids \/ Voters(v.row.id) \ {v.by} # {}) -> "mixed"
    [] OTHER -> IF v.by = "rule" THEN "llm" ELSE v.by

\* The verdicts on other ids than these.
Without(ids, list) == AtPlaces(list, {i \in DOMAIN list : list[i].row.id \notin ids})

finalize_classification ==
  /\ Visit("finalize_classification", "leak_detector")
  /\ LET ml_ids == IdsOf(state.ml_escalated)
         slm_ids == IdsOf(state.slm_escalated)
         merged == state.mcc_classified
                     \o Without(ml_ids, state.ml_classified)
                     \o Without(slm_ids, state.slm_classified)
                     \o state.llm_classified
         final == [id \in {merged[i].row.id : i \in DOMAIN merged} |-> LastVerdict(merged, id)]
     IN  state' = [state EXCEPT
           !.classified = final,
           !.decisions = [id \in DOMAIN final |-> Route(final[id], ml_ids \cup slm_ids)]]

Final == node = "leak_detector"

\* The cascade is over; the nodes behind it are not modelled.
Terminated == Final /\ UNCHANGED vars

Next ==
  \/ data_ingestor
  \/ mcc_classifier
  \/ ml_classifier
  \/ routing_supervisor
  \/ slm_classifier
  \/ llm_reasoner
  \/ finalize_classification
  \/ Terminated

Spec == Init /\ [][Next]_vars
-----------------------------------------------------------------------------
(* Properties.                                                             *)

\* Type invariant: verdicts carry the stages that give them, and the lists
\* between the nodes hold only rows of the statement.
TypeOK ==
  /\ {fast, llm, ml} \subseteq BOOLEAN
  /\ node \in {"data_ingestor", "mcc_classifier", "ml_classifier", "routing_supervisor",
               "slm_classifier", "llm_reasoner", "finalize_classification", "leak_detector"}
  /\ \A key \in {"normalized", "remaining", "ml_escalated", "routed_to_slm",
                 "routed_to_llm", "slm_escalated"} : state[key] \in Seq(Row)
  /\ \A key \in {"mcc_classified", "ml_classified", "slm_classified", "llm_classified"} :
       state[key] \in Seq(Verdict)
  /\ DOMAIN state.classified \subseteq Ids
  /\ \A id \in DOMAIN state.classified :
       /\ state.classified[id] \in Verdict
       /\ state.decisions[id] \in {"mcc", "ml", "slm", "llm", "mixed"}

\* No id of the statement is lost between the stages and none is made up,
\* whichever of them are missing: the leak and GST checks see them all.
EveryIdIsClassified ==
  Final => DOMAIN state.classified = IdsOf(state.normalized)

\* docs/REFERENCE_INTEGRATION "risk-sensitive review thresholds": what is
\* accepted without a review had the confidence its risk asks for, whichever
\* stage gave the verdict.
AcceptedIsConfident ==
  Final => \A id \in DOMAIN state.classified :
    LET v == state.classified[id] IN
      ~v.review => v.confidence >= IF v.row.high THEN ReviewHighRisk ELSE ReviewDefault

\* In fast mode no uncertain verdict of the SLM stands: with a client the
\* LLM has the last word on the id, without one a human does.  No verdict of
\* the model below its own threshold stands in any mode.
UncertainGoesOn ==
  Final => \A id \in DOMAIN state.classified :
    LET v == state.classified[id]
        weak == \/ v.unknown
                \/ v.confidence < SlmEscalation
                \/ v.confidence < IF v.row.high THEN ReviewHighRisk ELSE ReviewDefault
    IN  /\ v.by = "slm" /\ fast /\ weak => v.review /\ ~llm
        /\ v.by = "ml" => v.confidence >= MlMinConfidence

\* The route a decision reports is the whole story unless it says "mixed":
\* no other stage has given a verdict on the id.
RouteTellsAll ==
  Final => \A id \in DOMAIN state.decisions :
    state.decisions[id] # "mixed" => Voters(id) = {state.classified[id].by}

\* No verdict is lost: neither a row's nor the trace of one that was replaced.
VerdictsAreKept == EveryIdIsClassified /\ RouteTellsAll

\* The thresholds hold together: nothing unsure gets past the stages that
\* look at one of them each.
ThresholdsHold == AcceptedIsConfident /\ UncertainGoesOn
=============================================================================
