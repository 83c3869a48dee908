--------------------------- MODULE RuleClassifiers ---------------------------
(***************************************************************************)
(* The deterministic classifiers of Sentinel-Fi and the taxonomy they      *)
(* share: the MCC table, the router, the rule-based classifier (SLM) and   *)
(* the rules that stand in for the LLM.  AuditGraph says how their verdicts *)
(* are combined; this module says what each verdict is, for one row.       *)
(*                                                                         *)
(* A row is what they see of it: how many words it has, how many keywords  *)
(* of each category and of each side's list it contains, its UPI token,    *)
(* the MCC of its metadata, a word of four digits in its text and the vote *)
(* of the embedding, if there are any.  Propensities are in percent,       *)
(* scores in 1/840 and confidences in 1/84000, units in which the code's   *)
(* constants are whole numbers.                                            *)
(***************************************************************************)
EXTENDS Integers, Sequences, FiniteSetsExt

CONSTANTS Order,          \* the category ids, in the order of the base file
          BaseCodes,      \* [code -> category]: mcc_codes of the base file
          BasePropensity, \* _DEFAULT_BUSINESS_PROPENSITY
          Overrides,      \* what the override file may hold: records of the
                          \* partial functions codes and propensity
          BusinessCodes, PersonalCodes,  \* _BUSINESS_MCC, _PERSONAL_MCC
          Rows,           \* the rows
          None

Sides == {"business", "personal"}
Other(side) == IF side = "business" THEN "personal" ELSE "business"
Categories == {Order[i] : i \in DOMAIN Order}

One == 84000
Hundredths(n) == 840 * n

Verdict(side, confidence) == [side |-> side, confidence |-> confidence]

\* What the constants have to be.
ConstantsAssumption ==
  /\ Order \in Seq(Categories)
  /\ BasePropensity \in [Categories -> 0 .. 100]
  /\ None \notin Categories \cup Sides \cup {"slm", "llm"}
                 \cup [side: Sides, confidence: 0 .. One]
  /\ BusinessCodes \cap PersonalCodes = {}
  /\ \A file \in Overrides : \A c \in DOMAIN file.propensity :
       file.propensity[c] = None \/ file.propensity[c] \in Int
  /\ \A r \in Rows :
       /\ DOMAIN r = {"tokens", "matches", "words", "rules", "upi", "fast", "vote", "mcc", "digits"}
       /\ r.tokens \in Nat /\ r.matches \in [Categories -> Nat]
       /\ r.words \in [Sides -> Nat] /\ r.rules \in [Sides -> BOOLEAN]
       /\ r.vote = None \/ r.vote \in [side: Sides, confidence: 0 .. One]

VARIABLES row, taxonomy, node, route, verdicts

vars == <<row, taxonomy, node, route, verdicts>>

Init ==
  /\ row \in Rows
  /\ taxonomy = [codes |-> << >>, propensity |-> BasePropensity]
  /\ node = "base"
  /\ route = None
  /\ verdicts = [mcc |-> None, slm |-> None, rule |-> None]
-----------------------------------------------------------------------------
(* TaxonomyService.                                                        *)

Load_base ==
  /\ node = "base"
  /\ taxonomy' = [taxonomy EXCEPT !.codes = BaseCodes]
  /\ node' = "overrides"
  /\ UNCHANGED <<row, route, verdicts>>

\* A function with another one laid over it.
Over(f, g) == [x \in DOMAIN f \cup DOMAIN g |-> IF x \in DOMAIN g THEN g[x] ELSE f[x]]

\* Variant: the override is taken as it is.
AsWritten(score) == score

Clamped(score) == Max({0, Min({100, score})})

\* Scores that are no numbers are passed over.
Load_overrides ==
  /\ node = "overrides"
  /\ \E file \in Overrides :
       LET numbers == {c \in DOMAIN file.propensity : file.propensity[c] # None} IN
         taxonomy' = [codes |-> Over(taxonomy.codes, file.codes),
                      propensity |-> Over(taxonomy.propensity,
                                          [c \in numbers |-> Clamped(file.propensity[c])])]
  /\ node' = "mcc"
  /\ UNCHANGED <<row, route, verdicts>>

\* business_score_for_category
PropensityIn(propensity, category) ==
  IF category \in DOMAIN propensity THEN propensity[category] ELSE 50

Score(hits, tokens) == Min({840, 210 + ((840 * hits) \div Max({1, Min({8, tokens})}))})

\* match_category: the first of the categories with the best score.
BestMatch(r, order) ==
  LET hit == {i \in DOMAIN order : r.matches[order[i]] > 0}
      score(i) == Score(r.matches[order[i]], r.tokens)
      best == {i \in hit : \A j \in hit : score(i) >= score(j)}
  IN  IF hit = {} THEN None ELSE order[Min(best)]

Match_category(r) == BestMatch(r, Order)
MatchScore(r) == Score(r.matches[Match_category(r)], r.tokens)
-----------------------------------------------------------------------------
(* MCCClassifier.  A code of the metadata comes before one in the text, and *)
(* any word of four digits in the text is one.                             *)

Extract_mcc(r) ==
  IF r.mcc # None THEN r.mcc ELSE IF r.digits # None THEN r.digits ELSE None

MccVerdict(r) ==
  LET code == Extract_mcc(r)
      category == IF code \in DOMAIN taxonomy.codes THEN taxonomy.codes[code] ELSE None
      propensity == PropensityIn(taxonomy.propensity, category)
  IN  CASE code = None -> None
        [] code \in BusinessCodes -> Verdict("business", Hundredths(92))
        [] code \in PersonalCodes -> Verdict("personal", Hundredths(90))
        [] OTHER ->
             IF category = None THEN None
             ELSE IF propensity >= 65 THEN Verdict("business", Hundredths(88))
             ELSE IF propensity <= 35 THEN Verdict("personal", Hundredths(86))
             ELSE None

Mcc_classify ==
  /\ node = "mcc"
  /\ verdicts' = [verdicts EXCEPT !.mcc = MccVerdict(row)]
  /\ node' = IF MccVerdict(row) = None THEN "route" ELSE "done"
  /\ UNCHANGED <<row, taxonomy, route>>
-----------------------------------------------------------------------------
(* EmbeddingRouter.                                                        *)

\* The UPI rows that name a merchant, who may be a hint for a side; "fast" if he is
\* one of upi_fast_path_merchants, which is another list.
Tokens == Sides \cup {"merchant"}

Route_by_upi_signals(r) ==
  CASE r.upi = "none" -> None
    [] r.upi = "p2p" \/ (r.upi \in Tokens /\ r.fast) -> "slm"
    [] OTHER -> "llm"

Route_by_taxonomy_signals(r, propensity) ==
  LET category == Match_category(r) IN
    IF category = None THEN None
    ELSE IF \/ MatchScore(r) >= 378 /\ r.tokens <= 10
            \/ PropensityIn(propensity, category) >= 85 /\ MatchScore(r) >= 294
    THEN "slm" ELSE None

\* Rows with neither signal go by their embedding or by heuristics.  A row
\* for the LLM meets the SLM first when there is no client (AuditGraph).
Route ==
  /\ node = "route"
  /\ LET upi == Route_by_upi_signals(row)
         signal == Route_by_taxonomy_signals(row, taxonomy.propensity)
     IN  route' \in IF upi # None THEN {upi}
                    ELSE IF signal # None THEN {signal} ELSE {"slm", "llm"}
  /\ node' \in IF route' = "slm" THEN {"slm"} ELSE {"slm", "llm"}
  /\ UNCHANGED <<row, taxonomy, verdicts>>
-----------------------------------------------------------------------------
(* RuleBasedTransactionClassifier.                                         *)

\* The side a propensity stands for, if it stands for one.
Leaning(propensity, distance) ==
  CASE propensity >= 50 + distance -> "business"
    [] propensity <= 50 - distance -> "personal"
    [] OTHER -> None

Distance(propensity) == IF propensity >= 50 THEN propensity - 50 ELSE 50 - propensity

TaxonomyConfidence(score, propensity) ==
  Min({Hundredths(95), Hundredths(55) + 35 * score + 252 * Distance(propensity)})

\* round() of a tenth of the distance.  Distances that end in 5 are rounded
\* as the floats happen to fall and are kept out of the model values.
Boost(propensity) == Max({2, (Distance(propensity) + 5) \div 10})

UpiHits(r, side) ==
  CASE r.upi = side -> 2
    [] r.upi = "p2p" /\ side = "personal" -> 1
    [] OTHER -> 0

\* The votes for a side: keywords, UPI, taxonomy and embedding.
Hits(r, side, leaning, boost) ==
  r.words[side] + UpiHits(r, side) + (IF leaning = side THEN boost ELSE 0)
    + (IF r.vote # None /\ r.vote.side = side THEN 2 ELSE 0)

MajorityConfidence(hits) == Min({Hundredths(95), Hundredths(60) + Hundredths(6) * hits})

\* Variant: a majority forgets what the vote and the match are worth.
DecideByMajority(strong, strength, business, personal, vote) ==
  CASE strong # None /\ strength >= Hundredths(70) -> Verdict(strong, strength)
    [] OTHER ->
         IF business > personal THEN Verdict("business", MajorityConfidence(business))
         ELSE IF personal > business THEN Verdict("personal", MajorityConfidence(personal))
         ELSE IF strong # None THEN Verdict(strong, Max({strength, Hundredths(55)}))
         ELSE IF vote # None THEN Verdict(vote.side, vote.confidence)
         ELSE Verdict("unknown", Hundredths(45))

\* A strong taxonomy match, or the majority, or what breaks a tie.
Decide(strong, strength, business, personal, vote) ==
  LET Won(side, hits) ==
        Verdict(side, Max({MajorityConfidence(hits)}
          \cup (IF vote # None /\ vote.side = side THEN {vote.confidence} ELSE {})
          \cup (IF strong = side THEN {strength} ELSE {})))
  IN  CASE strong # None /\ strength >= Hundredths(70) -> Verdict(strong, strength)
        [] OTHER ->
             IF business > personal THEN Won("business", business)
             ELSE IF personal > business THEN Won("personal", personal)
             ELSE IF strong # None THEN Verdict(strong, Max({strength, Hundredths(55)}))
             ELSE IF vote # None THEN Verdict(vote.side, vote.confidence)
             ELSE Verdict("unknown", Hundredths(45))

SlmVerdict(r, propensities) ==
  LET category == Match_category(r)
      propensity == PropensityIn(propensities, category)
      matched == category # None
      strong == IF matched THEN Leaning(propensity, 15) ELSE None
      strength == IF strong = None THEN 0 ELSE TaxonomyConfidence(MatchScore(r), propensity)
      leaning == IF matched THEN Leaning(propensity, 5) ELSE None
      hits(side) == Hits(r, side, leaning, Boost(propensity))
  IN  Decide(strong, strength, hits("business"), hits("personal"), r.vote)

\* What it is not sure of may be escalated (AuditGraph).
Slm_classify ==
  /\ node = "slm"
  /\ verdicts' = [verdicts EXCEPT !.slm = SlmVerdict(row, taxonomy.propensity)]
  /\ node' \in {"llm", "done"}
  /\ UNCHANGED <<row, taxonomy, route>>
-----------------------------------------------------------------------------
(* LLMReasoner._fallback, for the rows the LLM has no answer on.           *)

RuleVerdict(r, propensities) ==
  LET category == Match_category(r)
      leaning == IF category = None \/ MatchScore(r) < 210 THEN None
                 ELSE Leaning(PropensityIn(propensities, category), 10)
  IN  CASE leaning = "business" ->
             Verdict("business", Min({Hundredths(78), Hundredths(55) + 25 * MatchScore(r)}))
        [] leaning = "personal" ->
             Verdict("personal", Min({Hundredths(75), Hundredths(55) + 25 * MatchScore(r)}))
        [] OTHER ->
             IF r.rules["business"] THEN Verdict("business", Hundredths(68))
             ELSE IF r.rules["personal"] THEN Verdict("personal", Hundredths(65))
             ELSE Verdict("unknown", Hundredths(50))

Llm_fallback ==
  /\ node = "llm"
  /\ verdicts' = [verdicts EXCEPT !.rule = RuleVerdict(row, taxonomy.propensity)]
  /\ node' = "done"
  /\ UNCHANGED <<row, taxonomy, route>>

Terminated == node = "done" /\ UNCHANGED vars

Next ==
  \/ Load_base \/ Load_overrides
  \/ Mcc_classify \/ Route \/ Slm_classify \/ Llm_fallback
  \/ Terminated

Spec == Init /\ [][Next]_vars
-----------------------------------------------------------------------------
(* Properties.                                                             *)

\* Type invariant: propensities and confidences stay within 0 and 1, whatever
\* the override file says.
TypeOK ==
  /\ row \in Rows
  /\ node \in {"base", "overrides", "mcc", "route", "slm", "llm", "done"}
  /\ route \in {None, "slm", "llm"}
  /\ \A c \in DOMAIN taxonomy.propensity : taxonomy.propensity[c] \in 0 .. 100
  /\ \A stage \in DOMAIN verdicts :
       verdicts[stage] \in {None} \cup [side: Sides \cup {"unknown"}, confidence: 0 .. One]

\* slm_classifier "Taxonomy match (primary)": a match in a category with a
\* marked propensity decides the side, however many keywords, UPI hints and
\* votes speak for the other one, and decides it above the threshold of
\* escalation, so that such a row never costs a call of the LLM.  It hangs on
\* the least score of a match, the weights and the thresholds together.
StrongPropensityDecides ==
  LET category == Match_category(row)
      side == Leaning(PropensityIn(taxonomy.propensity, category), 15)
  IN  verdicts.slm # None /\ category # None /\ side # None =>
        /\ verdicts.slm.side = side
        /\ verdicts.slm.confidence >= Hundredths(72)

\* The SLM has no bias: with the roles of the two sides exchanged, in the
\* keywords, the hints, the vote and the propensities, the verdict is the
\* other side's with the same confidence.  Payments between persons are the
\* one signal that has no counterpart.
SidesAreSymmetric ==
  LET mirrored == [row EXCEPT
        !.words = [s \in Sides |-> row.words[Other(s)]],
        !.upi = IF @ \in Sides THEN Other(@) ELSE @,
        !.vote = IF @ = None THEN None ELSE [@ EXCEPT !.side = Other(row.vote.side)]]
      propensities == [c \in DOMAIN taxonomy.propensity |-> 100 - taxonomy.propensity[c]]
      there == SlmVerdict(mirrored, propensities)
  IN  verdicts.slm # None /\ row.upi # "p2p" =>
        /\ there.confidence = verdicts.slm.confidence
        /\ there.side = IF verdicts.slm.side \in Sides
                        THEN Other(verdicts.slm.side) ELSE "unknown"

\* One more keyword for a side never moves the SLM's verdict away from it,
\* nor does it make a verdict for that side less confident.
EvidenceIsMonotone ==
  verdicts.slm # None => \A side \in Sides :
    LET more == SlmVerdict([row EXCEPT !.words[side] = @ + 1], taxonomy.propensity) IN
      /\ verdicts.slm.side = side =>
           more.side = side /\ more.confidence >= verdicts.slm.confidence
      /\ verdicts.slm.side = "unknown" => more.side # Other(side)

\* A row the SLM hands on, or that skips the SLM, is judged by other rules
\* with other weights when the LLM does not answer: where the taxonomy has a
\* marked opinion the side is the same on both paths.
PathsAgree ==
  LET category == Match_category(row)
      side == Leaning(PropensityIn(taxonomy.propensity, category), 15)
  IN  verdicts.rule # None /\ category # None /\ side # None =>
        verdicts.rule.side = SlmVerdict(row, taxonomy.propensity).side

\* Which category a row matches does not depend on the order of the taxonomy
\* file, unless two of them match with the same score.
MatchIgnoresOrder ==
  LET turned == [i \in DOMAIN Order |-> Order[Len(Order) + 1 - i]]
      score(c) == Score(row.matches[c], row.tokens)
      hit == {c \in Categories : row.matches[c] > 0}
  IN  (\A c \in hit : \A d \in hit : score(c) = score(d) => c = d)
        => BestMatch(row, turned) = Match_category(row)

\* mcc_classifier "Deterministic classifier for transactions carrying MCC
\* code": a row without one is left to the other classifiers.
CodeIsCarried == verdicts.mcc # None => row.mcc # None

\* The rules weigh evidence and nothing else: not the side it is for, the order
\* of a file, or the path the row took.
EvidenceDecides ==
  /\ StrongPropensityDecides /\ SidesAreSymmetric /\ EvidenceIsMonotone
  /\ PathsAgree /\ MatchIgnoresOrder
=============================================================================
