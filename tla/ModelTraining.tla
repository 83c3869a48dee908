---------------------------- MODULE ModelTraining ----------------------------
(***************************************************************************)
(* One training run of the transaction classifier and the model it leaves  *)
(* behind (src/src/sentinelfi/services/ml_training_service.py), with the   *)
(* reading of that model by the audit (agents/ml_classifier.py).           *)
(*                                                                         *)
(* Rows come from the data files, the pinned datasets and the corrections  *)
(* of users.  Each gets a side (business or personal), rows that say the   *)
(* same are kept once, and every row gets the label the model is trained   *)
(* on: a category of the taxonomy where one fits, else one of two fallback *)
(* labels.  A label stands for the side most of its rows have.  What       *)
(* scikit-learn does is external: the split takes any rows, the fitted     *)
(* pipeline gives any distribution over the labels of the rows it was      *)
(* fitted on (Split, Fit), and the fitted calibration is any of the        *)
(* constant Curves.  Probabilities are numbers 0..Unit; the clipping to    *)
(* [1e-6, 1 - 1e-6] is below that resolution.                              *)
(*                                                                         *)
(* One text stands for the rows of the test: every statement about them is *)
(* made of each row by itself, so the drift baseline is that row's side    *)
(* and confidence, of which the code keeps mean, deviation and histogram.  *)
(***************************************************************************)
EXTENDS Integers, Sequences, FiniteSets, SequencesExt, FiniteSetsExt, Functions, Lists

CONSTANTS
    RawRows,            \* rows the sources may hold: [source, text, category, label]
    MaxRows,            \* bound: rows over all sources together
    MinRows,            \* train_ml_classifier refuses to train with fewer rows
    Categories,         \* ids of the taxonomy
    PersonalCategories, \* PERSONAL_CATEGORIES
    BusinessHints, PersonalHints,   \* category names that decide a side
    MatchOf,            \* what match_category finds: [category name -> [text -> id or NoMatch]]
    Leaning,            \* side a category's business propensity decides, or "neither"
    NoMatch,
    LabelOrder,         \* every label, in the order of classes_
    Unit,               \* the number that stands for probability one
    Curves              \* Platt curves: [0..Unit -> 0..Unit]

FallbackBusiness == "__fallback_business__"
FallbackPersonal == "__fallback_personal__"
Sides            == {"business", "personal"}

\* train_ml_classifier reads the sources in this order.
Sources == << "transaction_ai", "bootstrap", "upi_seed", "andyrasika", "alok",
              "rajesh", "feedback" >>

\* The categories rows have once they are loaded, and what they are made of.
RowCategories == { r.category : r \in RawRows } \cup {"upi_seed"}
Texts         == { r.text : r \in RawRows }

\* What the constants have to be.
TrainingAssumption ==
    /\ \A r \in RawRows : r.source \in Range(Sources)
    /\ MatchOf \in [RowCategories -> [Texts -> Categories \cup {NoMatch}]]
    /\ LabelOrder \in Seq(Categories \cup {FallbackBusiness, FallbackPersonal})
    /\ Range(LabelOrder) = Categories \cup {FallbackBusiness, FallbackPersonal}
    /\ MaxRows \in Nat /\ MinRows \in Nat \ 0..2 /\ Unit \in Nat \ {0}
    /\ Curves \subseteq [0..Unit -> 0..Unit]

NoModel == [labels |-> << >>]

VARIABLES
    stage,      \* how far the run is
    raw,        \* the rows the sources hold, source by source
    records,    \* the run's rows: [text, label, category, model_label]
    side_of,    \* label_to_tx_category
    part,       \* which part of the split each of the rows is in
    sample,     \* a text of the test and its probabilities: [text, probs]
    calibrator, \* [method, curve]
    baseline,   \* [side, confidence] of the sample, as the drift profile counts it
    model       \* the artifact on disk: [labels, side_of, calibrator], or NoModel

vars == << stage, raw, records, side_of, part, sample, calibrator, baseline, model >>

Turn(source) == CHOOSE i \in DOMAIN Sources : Sources[i] = source

Init ==
    /\ raw \in { s \in SeqOf(RawRows, MaxRows) :
                   \A i, j \in DOMAIN s : i < j => Turn(s[i].source) <= Turn(s[j].source) }
    /\ stage      = "reading"
    /\ records    = << >>
    /\ side_of    = << >>
    /\ part       = << >>
    /\ sample     = << >>
    /\ calibrator = << >>
    /\ baseline   = << >>
    /\ model      = NoModel

----------------------------------------------------------------------------
(* Reading and labelling *)

\* _infer_label_from_category_text: a hint, else the propensity of the category
\* that matches, else personal.
InferLabel(category, text) ==
    LET matched == MatchOf[category][text]
    IN  IF category \in BusinessHints THEN "business"
        ELSE IF category \in PersonalHints THEN "personal"
        ELSE IF matched # NoMatch /\ Leaning[matched] = "business" THEN "business"
        ELSE "personal"

Row(text, label, category) ==
    [text |-> text, label |-> label, category |-> category, model_label |-> "none"]

\* What the loader of its source makes of one row.
Load_transaction_ai_data(r) ==
    Row(r.text, IF r.category \in PersonalCategories THEN "personal" ELSE "business",
        r.category)

Load_local_bootstrap_data(r) == Row(r.text, r.label, r.category)

Load_upi_seed_data(r) == Row(r.text, r.label, "upi_seed")

Load_internet_andyrasika_data(r) == Row(r.text, "business", r.category)

Load_internet_alok_data(r) == Row(r.text, InferLabel(r.category, r.text), r.category)

\* Numbers stand for the categories here; the model has their names.
Load_internet_rajesh_data(r) == Row(r.text, InferLabel(r.category, r.text), r.category)

Loaded(r) ==
    CASE r.source = "transaction_ai" -> Load_transaction_ai_data(r)
      [] r.source = "bootstrap"      -> Load_local_bootstrap_data(r)
      [] r.source = "upi_seed"       -> Load_upi_seed_data(r)
      [] r.source = "andyrasika"     -> Load_internet_andyrasika_data(r)
      [] r.source = "alok"           -> Load_internet_alok_data(r)
      [] r.source = "rajesh"         -> Load_internet_rajesh_data(r)
      [] r.source = "feedback"       -> Row(r.text, r.label, r.category)

\* Where the label is the source's own, a row with any other is dropped.
Labelled(r) == r.source \in {"bootstrap", "upi_seed", "feedback"} => r.label \in Sides

\* VARIANT: the key of _dedupe_records forgets the label.
SaysText(row) == << row.text >>

\* What makes two rows the same for _dedupe_records.
Says(row) == << row.text, row.label >>

\* _dedupe_records keeps the first of the rows with one text and one label.
Dedupe(rows) ==
    LET repeats(i) == \E j \in 1..(i - 1) : Says(rows[j]) = Says(rows[i])
    IN  AtPlaces(rows, { i \in DOMAIN rows : ~repeats(i) })

\* The rows of the sources, one after the other.
AllRows ==
    AtPlaces([i \in DOMAIN raw |-> Loaded(raw[i])], { i \in DOMAIN raw : Labelled(raw[i]) })

\* train_ml_classifier, up to the check of the number of rows.
Merge ==
    /\ stage = "reading"
    /\ records' = Dedupe(AllRows)
    /\ stage'   = IF Len(records') < MinRows THEN "refused" ELSE "merged"
    /\ UNCHANGED << raw, side_of, part, sample, calibrator, baseline, model >>

----------------------------------------------------------------------------
(* Labels of the model and what they stand for *)

\* _resolve_model_label
ModelLabel(row) ==
    LET matched == MatchOf[row.category][row.text]
    IN  IF row.category \in Categories THEN row.category
        ELSE IF matched # NoMatch THEN matched
        ELSE IF row.label = "business" THEN FallbackBusiness
        ELSE FallbackPersonal

CountOf(rows, model_label, side) ==
    Cardinality({ i \in DOMAIN rows :
                    rows[i].model_label = model_label /\ rows[i].label = side })

Majority(business, personal) ==
    CASE business > personal -> "business"
      [] personal > business -> "personal"
      [] OTHER -> "unknown"

\* _build_label_to_tx_category
SideOf(rows) ==
    [m \in { rows[i].model_label : i \in DOMAIN rows } |->
        Majority(CountOf(rows, m, "business"), CountOf(rows, m, "personal"))]

Resolve ==
    /\ stage    = "merged"
    /\ records' = [i \in DOMAIN records |->
                     [records[i] EXCEPT !.model_label = ModelLabel(records[i])]]
    /\ side_of' = SideOf(records')
    /\ stage'   = "resolved"
    /\ UNCHANGED << raw, part, sample, calibrator, baseline, model >>

----------------------------------------------------------------------------
(* The split, fitting, calibration, baseline and the artifact *)

Parts == {"fit", "calib", "test"}

In(name) == { i \in DOMAIN records : part[i] = name }

\* The two train_test_split that matter: each row is fitted on, calibrated with or
\* tested on, and each part has rows.
Split ==
    /\ stage = "resolved"
    /\ part' \in { f \in [DOMAIN records -> Parts] : Range(f) = Parts }
    /\ stage' = "split"
    /\ UNCHANGED << raw, records, side_of, sample, calibrator, baseline, model >>

\* A split or a fit that raises, as with too few rows of a side, ends the run.
Raise ==
    /\ stage \in {"resolved", "split"}
    /\ stage' = "refused"
    /\ UNCHANGED << raw, records, side_of, part, sample, calibrator, baseline, model >>

\* classes_: the labels of the rows that the pipeline was fitted on, in order.
Labels ==
    AtPlaces(LabelOrder, { k \in DOMAIN LabelOrder :
                              \E i \in In("fit") : records[i].model_label = LabelOrder[k] })

\* The probabilities a pipeline may give: one number per label, together Unit.
Distributions(n) == { p \in [1..n -> 0..Unit] : FoldFunction(+, 0, p) = Unit }

\* What the fitted pipeline makes of a row of the test is external.
Fit ==
    /\ stage = "split"
    /\ \E i \in In("test"), p \in Distributions(Len(Labels)) :
          sample' = [text |-> records[i].text, probs |-> p]
    /\ stage' = "fitted"
    /\ UNCHANGED << raw, records, side_of, part, calibrator, baseline, model >>

\* The sum of the probabilities of the labels in B.
Mass(labels, probs, B) ==
    MapThenSumSet(LAMBDA k : probs[k], { k \in DOMAIN labels : labels[k] \in B })

\* _aggregate_business_probability of the training service
Aggregate(labels, probs, map) ==
    LET business == { m \in Range(labels) : m \in DOMAIN map /\ map[m] = "business" }
    IN  IF business = {} THEN Unit \div 2 ELSE Mass(labels, probs, business)

\* _fit_probability_calibrator: a curve, unless the calibration rows are all of
\* one side.
Calibrate ==
    /\ stage = "fitted"
    /\ LET sides == { records[i].label : i \in In("calib") }
       IN
       \/ /\ sides # Sides
          /\ calibrator' = [method |-> "identity", business_labels |-> {}]
       \/ /\ sides = Sides
          /\ \E c \in Curves :
                calibrator' = [method |-> "platt_business_aggregate", curve |-> c,
                               business_labels |-> { m \in Range(Labels) :
                                                       side_of[m] = "business" }]
    /\ stage' = "calibrated"
    /\ UNCHANGED << raw, records, side_of, part, sample, baseline, model >>

Calibrated(c, p) == IF c.method = "identity" THEN p ELSE c.curve[p]

\* _apply_business_probability_calibrator: the labels the calibrator names, or,
\* when it names none, the label map.
Apply(labels, probs, c, map) ==
    LET side(m) == IF c.business_labels = {} THEN map[m]
                   ELSE IF m \in c.business_labels THEN "business" ELSE "personal"
    IN  Calibrated(c, Aggregate(labels, probs, [m \in Range(labels) |-> side(m)]))

\* argmax: the first of the largest.
Top(probs) ==
    CHOOSE k \in DOMAIN probs :
        /\ \A j \in DOMAIN probs : probs[j] <= probs[k]
        /\ \A j \in 1..(k - 1) : probs[j] < probs[k]

\* VARIANT: the baseline is taken before calibration.
ProfileRaw(labels, probs, c, map) ==
    LET pred == map[labels[Top(probs)]]
        p    == Aggregate(labels, probs, map)
    IN  [side |-> pred, confidence |-> IF pred = "business" THEN p ELSE Unit - p]

\* The held-out part of train_ml_classifier and _drift_baseline.
Profile(labels, probs, c, map) ==
    LET pred == map[labels[Top(probs)]]
        p    == Apply(labels, probs, c, map)
    IN  [side |-> pred, confidence |-> IF pred = "business" THEN p ELSE Unit - p]

\* The run writes the artifact: the labels, the map, the calibrator, the baseline.
Dump ==
    /\ stage     = "calibrated"
    /\ baseline' = Profile(Labels, sample.probs, calibrator, side_of)
    /\ model'    = [labels |-> Labels, side_of |-> side_of, calibrator |-> calibrator]
    /\ stage'    = "written"
    /\ UNCHANGED << raw, records, side_of, part, sample, calibrator >>

Terminated == stage \in {"refused", "written"} /\ UNCHANGED vars

Next == Merge \/ Resolve \/ Split \/ Raise \/ Fit \/ Calibrate \/ Dump \/ Terminated

Spec == Init /\ [][Next]_vars

----------------------------------------------------------------------------
(* The audit's side: MLTransactionClassifier *)

BusinessLabels(m) == { x \in Range(m.labels) : m.side_of[x] = "business" }

\* _calibrated_business_probability of the classifier
ServedBusiness(m, probs) ==
    LET p == IF BusinessLabels(m) = {} THEN Unit \div 2
             ELSE Mass(m.labels, probs, BusinessLabels(m))
    IN  Calibrated(m.calibrator, p)

\* MLTransactionClassifier.classify
Classify(m, probs) ==
    LET top == Top(probs)
        p   == ServedBusiness(m, probs)
    IN  CASE m.side_of[m.labels[top]] = "business" -> [side |-> "business", confidence |-> p]
          [] m.side_of[m.labels[top]] = "personal" -> [side |-> "personal", confidence |-> Unit - p]
          [] OTHER -> [side |-> "unknown", confidence |-> probs[top]]

----------------------------------------------------------------------------
(* Properties *)

\* Type invariant of the run's state.
TypeOK ==
    /\ stage \in {"reading", "refused", "merged", "resolved", "split", "fitted", "calibrated",
                 "written"}
    /\ \A i \in DOMAIN records :
          /\ records[i].label \in Sides
          /\ records[i].model_label \in Range(LabelOrder) \cup {"none"}
    /\ Range(side_of) \subseteq Sides \cup {"unknown"}
    /\ stage \in {"fitted", "calibrated", "written"} => Len(sample.probs) = Len(Labels)

\* A correction reaches the run it is given to: whatever the other sources hold, a
\* row with its text and its label is among the rows that the run splits, even when
\* another source says the opposite of the same text (_dedupe_records).  It may
\* then be one of those that the run calibrates with or tests on.
CorrectionsReachTheRun ==
    stage # "reading" =>
        \A i \in DOMAIN raw :
            (raw[i].source = "feedback" /\ raw[i].label \in Sides) =>
                \E j \in DOMAIN records : records[j].text = raw[i].text
                                         /\ records[j].label = raw[i].label

\* Training and the audit compute P(business) in two pieces of code: the first
\* through the calibrator's labels, the second through the label map.  For every
\* model a run writes, and whatever the pipeline answers, the two agree.
ServedAsCalibrated ==
    stage = "written" =>
        ServedBusiness(model, sample.probs)
            = Apply(Labels, sample.probs, calibrator, side_of)

\* The drift baseline holds for a row with a decided label exactly what the audit
\* answers for that row, so that a difference the monitor sees is one of the data.
BaselineIsServed ==
    (stage = "written" /\ baseline.side # "unknown") =>
        Classify(model, sample.probs) = baseline

\* The same of every row, as the documentation of the drift monitor has it.
DriftComparesLikeWithLike ==
    stage = "written" => Classify(model, sample.probs) = baseline

\* A correction teaches the model the side the user gave: the label its row is
\* trained under does not stand for the opposite side.
CorrectionTeachesItsLabel ==
    stage \in {"resolved", "split", "fitted", "calibrated", "written"} =>
        \A i \in DOMAIN raw, j \in DOMAIN records :
            (/\ raw[i].source = "feedback"
             /\ records[j].text = raw[i].text
             /\ records[j].label = raw[i].label)
                => side_of[records[j].model_label] \in {raw[i].label, "unknown"}

\* A correction is learned: the pipeline is fitted on a row with its text and label.
CorrectionsAreFitted ==
    stage \in {"fitted", "calibrated", "written"} =>
        \A i \in DOMAIN raw :
            (raw[i].source = "feedback" /\ raw[i].label \in Sides) =>
                \E j \in In("fit") : records[j].text = raw[i].text
                                     /\ records[j].label = raw[i].label

\* What training measured is what the audit serves.
ServedAsTrained == ServedAsCalibrated /\ BaselineIsServed
=============================================================================
