---------------------------- MODULE ModelsProofs ----------------------------
(***************************************************************************)
(* Training, the cache of datasets and the serving of models, for any      *)
(* rows, taxonomy, labels and probabilities, any audits, retrainings and   *)
(* deaths, and a window of any size.                                       *)
(*                                                                         *)
(* One trainer reads and caches the pinned dataset only.  With a second    *)
(* one that is not so (both download to one path), which is why that       *)
(* theorem needs its assumption.                                           *)
(***************************************************************************)
EXTENDS Models, ListsProofs, SequenceTheorems

-----------------------------------------------------------------------------
(* Serving.                                                                 *)

Steps == {"idle", "running", "marked", "done"}

\* The audits that are a success and not measured yet.
Marked == { a \in Auditors : audit[a].pc = "marked" }

ServingTyped ==
    /\ newest \in Nat /\ file \in {newest, Torn}
    /\ served \in 0..newest /\ baseline \in 0..newest /\ succeeded \subseteq 0..newest
    /\ up \in BOOLEAN
    /\ run \in {"none", "queued", "running", "success", "failed"}
    /\ trainer \in {"idle", "fitting", "dumping", "dumped", "committed"}
    /\ audit \in [Auditors -> [pc: Steps, model: Nat]]
    /\ window \in Seq(Nat) /\ Len(window) <= Window
    /\ total \in Nat /\ finished \in Nat

\* Only a process that is up trains; from the end of a dump to the end of the
\* run the artifact is whole, and only the last step of a run that succeeded, which
\* wrote the newest model, is ahead of the baseline.
TrainingInStep ==
    /\ ~up => trainer = "idle" /\ served = 0
    /\ trainer \in {"dumped", "committed"} => file = newest
    /\ up => \A v \in succeeded : baseline >= v \/ (trainer = "committed" /\ v = newest)

Measured == total + Cardinality(Marked) <= finished

ServingInv == ServingTyped /\ TrainingInStep /\ Measured

----------------------------------------------------------------------------

LEMMA MarkedFinite == IsFiniteSet(Marked) /\ Cardinality(Marked) \in Nat
<1>1. Marked \subseteq Auditors /\ IsFiniteSet(Auditors)
  BY ServingAssumption DEF Marked
<1> QED
  BY <1>1, FS_Subset, FS_CardinalityType

\* Nothing of what the statistics depend on changes.
LEMMA MeasuredUnchanged ==
  ASSUME Measured, total' = total, finished' = finished, Marked' = Marked
  PROVE  Measured'
BY DEF Measured

\* A window gets one sample at most and is as long as it may be.
LEMMA SampledTyped ==
  ASSUME window \in Seq(Nat), Len(window) <= Window, NEW v \in Nat
  PROVE  Sampled(window, v) \in Seq(Nat) /\ Len(Sampled(window, v)) <= Window
<1> DEFINE all == IF v = 0 THEN window ELSE Append(window, v)
<1>1. all \in Seq(Nat) /\ Len(all) \in Nat /\ Len(all) <= Window + 1
  BY AppendProperties, LenProperties, ServingAssumption
<1>2. Window \in Nat \ {0}
  BY ServingAssumption
<1>3. Sampled(window, v) = IF Len(all) > Window THEN Tail(all) ELSE all
  BY DEF Sampled
<1> HIDE DEF all
<1>4. CASE Len(all) > Window
  <2>1. all # << >>
    BY <1>1, <1>2, <1>4, EmptySeq
  <2>2. Tail(all) \in Seq(Nat) /\ Len(Tail(all)) = Len(all) - 1
    BY <1>1, <2>1, HeadTailProperties
  <2> QED
    BY <1>1, <1>2, <1>3, <1>4, <2>2
<1>5. CASE ~(Len(all) > Window)
  BY <1>1, <1>2, <1>3, <1>5
<1> QED
  BY <1>4, <1>5

LEMMA ServingStarts == Init => ServingInv
<1> SUFFICES ASSUME Init PROVE ServingInv
  OBVIOUS
<1>1. file \in Nat /\ newest = file
  BY DEF Init
<1>2. Idle \in [pc: Steps, model: Nat] /\ Idle.pc # "marked"
  BY DEF Idle, Steps
<1>3. audit \in [Auditors -> [pc: Steps, model: Nat]] /\ Marked = {}
  BY <1>2 DEF Init, Marked
<1>4. window \in Seq(Nat) /\ Len(window) = 0
  BY EmptySeq DEF Init
<1>5. ServingTyped
  BY <1>1, <1>3, <1>4, ServingAssumption DEF Init, ServingTyped
<1>6. TrainingInStep
  BY <1>1 DEF Init, TrainingInStep
<1>7. Measured
  BY <1>3, FS_EmptySet DEF Init, Measured
<1> QED
  BY <1>5, <1>6, <1>7 DEF ServingInv

\* Steps of a training and of the settings leave audits and statistics alone.
LEMMA TrainerKeeps ==
  ServingInv /\ (Retrain \/ Trainer \/ UpdateSettings) => ServingInv'
<1> SUFFICES ASSUME ServingInv, Retrain \/ Trainer \/ UpdateSettings PROVE ServingInv'
  OBVIOUS
<1>1. up /\ up' = up /\ UNCHANGED << audit, stats >>
  BY DEF ServingInv, TrainingInStep, ServingTyped, Retrain, Trainer, UpdateSettings, BeginTraining, OpenArtifact,
         CloseArtifact, FailTraining, CommitRun, Refresh_baseline
<1>2. Measured'
  BY <1>1, MeasuredUnchanged DEF ServingInv, Marked, stats
<1>3. Torn \notin Nat
  BY ServingAssumption
<1>4. CASE Retrain \/ BeginTraining \/ FailTraining
  BY <1>1, <1>2, <1>4 DEF ServingInv, ServingTyped, TrainingInStep, Retrain, BeginTraining, FailTraining, disk, stats
<1>5. CASE OpenArtifact
  BY <1>1, <1>2, <1>5 DEF ServingInv, ServingTyped, TrainingInStep, OpenArtifact, stats
<1>6. CASE CloseArtifact
  BY <1>1, <1>2, <1>6 DEF ServingInv, ServingTyped, TrainingInStep, CloseArtifact, stats
<1>7. CASE CommitRun
  BY <1>1, <1>2, <1>7 DEF ServingInv, ServingTyped, TrainingInStep, CommitRun, disk, stats
<1>8. CASE Refresh_baseline
  BY <1>1, <1>2, <1>8 DEF ServingInv, ServingTyped, TrainingInStep, Refresh_baseline, disk, stats
<1>9. CASE UpdateSettings
  BY <1>1, <1>2, <1>3, <1>9 DEF ServingInv, ServingTyped, TrainingInStep, UpdateSettings, Loads, disk, training, stats
<1> QED
  BY <1>4, <1>5, <1>6, <1>7, <1>8, <1>9 DEF Trainer

LEMMA ProcessKeeps == ServingInv /\ (Crash \/ Boot) => ServingInv'
<1> SUFFICES ASSUME ServingInv, Crash \/ Boot PROVE ServingInv'
  OBVIOUS
<1>1. CASE Crash
  <2>1. Idle \in [pc: Steps, model: Nat] /\ Idle.pc # "marked"
    BY DEF Idle, Steps
  <2>2. audit' \in [Auditors -> [pc: Steps, model: Nat]] /\ Marked' = {}
    BY <1>1, <2>1 DEF Crash, Marked
  <2>3. window' \in Seq(Nat) /\ Len(window') = 0
    BY <1>1, EmptySeq DEF Crash
  <2>4. ServingTyped'
    <3>1. 0 \in 0..newest /\ newest \in Nat /\ 0 <= Window
      BY ServingAssumption DEF ServingInv, ServingTyped
    <3>2. /\ file' = file /\ newest' = newest /\ run' = run /\ succeeded' = succeeded
          /\ served' = 0 /\ baseline' = 0 /\ up' = FALSE /\ trainer' = "idle"
          /\ total' = 0 /\ finished' = 0
      BY <1>1 DEF Crash, disk
    <3> QED
      BY <2>2, <2>3, <3>1, <3>2 DEF ServingInv, ServingTyped
  <2>5. TrainingInStep'
    BY <1>1 DEF TrainingInStep, Crash
  <2>6. Measured'
    BY <1>1, <2>2, FS_EmptySet DEF Measured, Crash
  <2> QED
    BY <2>4, <2>5, <2>6 DEF ServingInv
<1>2. CASE Boot
  <2>1. file = newest
    BY <1>2 DEF ServingInv, ServingTyped, Boot, Loads
  <2>2. Measured'
    BY <1>2, MeasuredUnchanged DEF ServingInv, Marked, Boot, stats
  <2>3. ServingTyped' /\ TrainingInStep'
    BY <1>2, <2>1 DEF ServingInv, ServingTyped, TrainingInStep, Boot, Incomplete, disk, stats
  <2> QED
    BY <2>2, <2>3 DEF ServingInv
<1> QED
  BY <1>1, <1>2

LEMMA AuditKeeps ==
  ASSUME ServingInv, NEW a \in Auditors, BeginAudit(a) \/ FailAudit(a) \/ Mark_success(a) \/ Record(a)
  PROVE  ServingInv'
<1>1. audit \in [Auditors -> [pc: Steps, model: Nat]] /\ served \in Nat
  BY DEF ServingInv, ServingTyped
<1>2. UNCHANGED << disk, up, served, baseline, training, crashes >>
  BY DEF BeginAudit, FailAudit, Mark_success, Record, stats
<1>3. TrainingInStep'
  BY <1>2 DEF ServingInv, TrainingInStep, disk, training
<1>4. IsFiniteSet(Marked) /\ Cardinality(Marked) \in Nat
  BY MarkedFinite
<1>5. CASE BeginAudit(a) \/ FailAudit(a)
  <2>1. /\ audit[a].pc \notin {"marked"} /\ UNCHANGED stats
        /\ audit' \in [Auditors -> [pc: Steps, model: Nat]]
        /\ audit'[a].pc # "marked" /\ \A b \in Auditors \ {a} : audit'[b] = audit[b]
    BY <1>1, <1>5 DEF BeginAudit, FailAudit, Idle, Steps
  <2>2. Marked' = Marked
    BY <2>1 DEF Marked
  <2>3. Measured'
    BY <2>1, <2>2, MeasuredUnchanged DEF ServingInv, stats
  <2>4. ServingTyped'
    BY <1>2, <2>1 DEF ServingInv, ServingTyped, disk, training, stats
  <2> QED
    BY <1>3, <2>3, <2>4 DEF ServingInv
<1>6. CASE Mark_success(a)
  <2>1. /\ audit[a].pc = "running" /\ finished' = finished + 1
        /\ window' = window /\ total' = total
        /\ audit' \in [Auditors -> [pc: Steps, model: Nat]]
        /\ \A b \in Auditors \ {a} : audit'[b] = audit[b]
    BY <1>1, <1>6 DEF Mark_success, Steps
  <2>2. Marked' \in {Marked, Marked \cup {a}} /\ a \notin Marked
    BY <2>1 DEF Marked
  <2>3. Cardinality(Marked') <= Cardinality(Marked) + 1
    <3>1. Cardinality(Marked \cup {a}) = Cardinality(Marked) + 1
      BY <1>4, <2>2, FS_AddElement
    <3>2. Cardinality(Marked') \in {Cardinality(Marked), Cardinality(Marked) + 1}
      BY <2>2, <3>1
    <3> QED
      BY <1>4, <3>2
  <2>4. Cardinality(Marked') \in Nat
    <3>1. Cardinality(Marked \cup {a}) = Cardinality(Marked) + 1
      BY <1>4, <2>2, FS_AddElement
    <3>2. Cardinality(Marked) + 1 \in Nat
      BY <1>4
    <3>3. Cardinality(Marked') = Cardinality(Marked)
             \/ Cardinality(Marked') = Cardinality(Marked) + 1
      BY <2>2, <3>1
    <3> QED
      BY <1>4, <3>2, <3>3
  <2>5. Measured'
    BY <1>4, <2>1, <2>3, <2>4 DEF ServingInv, ServingTyped, Measured
  <2>6. ServingTyped'
    BY <1>2, <2>1 DEF ServingInv, ServingTyped, disk, training
  <2> QED
    BY <1>3, <2>5, <2>6 DEF ServingInv
<1>7. CASE Record(a)
  <2>1. /\ audit[a].pc = "marked" /\ finished' = finished /\ total' = total + 1
        /\ window' = Sampled(window, audit[a].model)
        /\ audit' \in [Auditors -> [pc: Steps, model: Nat]]
        /\ audit'[a].pc # "marked" /\ \A b \in Auditors \ {a} : audit'[b] = audit[b]
    BY <1>1, <1>7 DEF Record, Steps
  <2>2. Marked' = Marked \ {a} /\ a \in Marked
    BY <2>1 DEF Marked
  <2>3. Cardinality(Marked') = Cardinality(Marked) - 1
    BY <1>4, <2>2, FS_RemoveElement
  <2>4. Measured'
    BY <1>4, <2>1, <2>3 DEF ServingInv, ServingTyped, Measured
  <2>5. window' \in Seq(Nat) /\ Len(window') <= Window
    BY <1>1, <2>1, SampledTyped DEF ServingInv, ServingTyped
  <2>6. ServingTyped'
    BY <1>2, <2>1, <2>5 DEF ServingInv, ServingTyped, disk, training
  <2> QED
    BY <1>3, <2>4, <2>6 DEF ServingInv
<1> QED
  BY <1>5, <1>6, <1>7

LEMMA ServingKeeps == ServingInv /\ [Next]_vars => ServingInv'
<1>1. ServingInv /\ UNCHANGED vars => ServingInv'
  BY DEF vars, ServingInv, ServingTyped, TrainingInStep, Measured, Marked
<1> QED
  BY <1>1, TrainerKeeps, ProcessKeeps, AuditKeeps DEF Next

LEMMA ServingInvariant == Spec => []ServingInv
BY ServingStarts, ServingKeeps, PTL DEF Spec

LEMMA ServingInvTyped == ServingInv => TypeOK
<1> SUFFICES ASSUME ServingInv PROVE TypeOK
  OBVIOUS
<1>1. \A a \in Auditors : audit[a].pc \in Steps
  BY DEF ServingInv, ServingTyped
<1> QED
  BY <1>1 DEF ServingInv, ServingTyped, TypeOK, Steps

\* Nothing torn and nothing that no training wrote is served or compared with.
THEOREM ServingTypeCorrect == Spec => []TypeOK
BY ServingInvTyped, ServingInvariant, PTL

\* While nothing is trained, the monitor's baseline is not older than any run that
\* is recorded a success, and the statistics count no audit that is not.
THEOREM MonitorFollows == Spec => []MonitorFollowsSuccess
<1>1. ServingInv => MonitorFollowsSuccess
  BY DEF ServingInv, TrainingInStep, Measured, Marked, MonitorFollowsSuccess, BaselineFollowsSuccess,
         OnlySuccessIsMeasured
<1> QED
  BY <1>1, ServingInvariant, PTL

\* A model that is served is followed by no older one while the process runs,
\* and a restart does not bring one back.
THEOREM NeverOlder == Spec => ServedNeverOlder
<1>1. ServingInv /\ [Next]_vars => (up' => served' >= served) \/ UNCHANGED vars
  <2> SUFFICES ASSUME ServingInv, Next, up' PROVE served' >= served
    BY DEF vars
  <2>1. served \in Nat /\ newest \in Nat /\ served <= newest /\ file \in {newest, Torn}
    BY DEF ServingInv, ServingTyped
  <2>2. CASE UpdateSettings \/ Boot
    <3>1. served' = served \/ served' = newest
      BY <2>1, <2>2 DEF UpdateSettings, Boot, Loads
    <3> QED
      BY <2>1, <3>1
  <2>3. CASE Crash
    BY <2>3 DEF Crash
  <2>4. CASE Retrain \/ Trainer
    <3>1. served' = served
      BY <2>4 DEF Retrain, Trainer, BeginTraining, OpenArtifact, CloseArtifact, FailTraining,
                  CommitRun, Refresh_baseline
    <3> QED
      BY <2>1, <3>1
  <2>5. CASE \E a \in Auditors : BeginAudit(a) \/ FailAudit(a) \/ Mark_success(a) \/ Record(a)
    <3>1. served' = served
      BY <2>5 DEF BeginAudit, FailAudit, Mark_success, Record
    <3> QED
      BY <2>1, <3>1
  <2> QED
    BY <2>2, <2>3, <2>4, <2>5 DEF Next
<1> QED
  BY <1>1, ServingInvariant, PTL DEF Spec, ServedNeverOlder

-----------------------------------------------------------------------------
(* Training.                                                                *)

\* The stages in which rows have the label the model is trained on.
LabelledStages == {"resolved", "split", "fitted", "calibrated", "written"}
FittedStages   == {"fitted", "calibrated", "written"}

\* A row of the run.
TrainingRow ==
  [text : Training!Texts, label : Training!Sides, category : Training!RowCategories,
   model_label : Training!Range(LabelOrder) \cup {"none"}]

TrainingTyped ==
  /\ stage \in LabelledStages \cup {"reading", "refused", "merged"}
  /\ raw \in Seq(RawRows)
  /\ records \in Seq(TrainingRow)
  /\ Training!Range(side_of) \subseteq Training!Sides \cup {"unknown"}

\* From the labels of the rows the map of the labels comes; there are rows to fit on,
\* and a probability for each of their labels.
LabelsFollow ==
  /\ stage \in LabelledStages =>
       /\ DOMAIN side_of = {records[i].model_label : i \in DOMAIN records}
       /\ \A i \in DOMAIN records : records[i].model_label \in Training!Range(LabelOrder)
  /\ stage \in LabelledStages \ {"resolved"} => Training!In("fit") # {}
  /\ stage \in FittedStages => sample.probs \in [1 .. Len(Training!Labels) -> 0 .. Unit]

\* The calibrator names no label, or those the map calls business.
CalibratorFollows ==
  stage \in {"calibrated", "written"} =>
    \/ calibrator.business_labels = {}
    \/ calibrator.business_labels = {m \in Training!Range(Training!Labels) : side_of[m] = "business"}

\* What is written is what the run has computed.
ArtifactFollows ==
  stage = "written" =>
    /\ model = [labels |-> Training!Labels, side_of |-> side_of, calibrator |-> calibrator]
    /\ profile = Training!Profile(Training!Labels, sample.probs, calibrator, side_of)

TrainingInv ==
  /\ TrainingTyped /\ LabelsFollow /\ CalibratorFollows /\ ArtifactFollows
  /\ Training!CorrectionsReachTheRun

-----------------------------------------------------------------------------
LEMMA TrainingLists ==
  /\ \A S : Training!Cardinality(S) = Cardinality(S)
  /\ \A list, S : Training!AtPlaces(list, S) = AtPlaces(list, S)
<1>1. ASSUME NEW S PROVE Training!Cardinality(S) = Cardinality(S)
  BY DEF Training!Cardinality, Cardinality
<1>2. ASSUME NEW list, NEW S PROVE Training!AtPlaces(list, S) = AtPlaces(list, S)
  BY DEF Training!AtPlaces, AtPlaces, Training!Place, Place, Training!Rank, Rank,
    Training!Cardinality, Cardinality
<1>3. QED
  BY <1>1, <1>2

\* What a loader makes of a row of its source.
LEMMA LoadedTyped ==
  ASSUME NEW r \in RawRows
  PROVE  /\ Training!Labelled(r) => Training!Loaded(r) \in TrainingRow
         /\ r.source = "feedback" =>
              Training!Loaded(r).text = r.text /\ Training!Loaded(r).label = r.label
<1>1. /\ r.source \in Training!Range(Training!Sources)
      /\ MatchOf \in [Training!RowCategories -> [Training!Texts -> Categories \cup {NoMatch}]]
  BY TrainingsAssumption DEF Training!TrainingAssumption
<1>2. r.source \in {"transaction_ai", "bootstrap", "upi_seed", "andyrasika", "alok", "rajesh",
                    "feedback"}
  BY <1>1 DEF Training!Range, Training!Sources
<1>3. /\ r.text \in Training!Texts
      /\ r.category \in Training!RowCategories /\ "upi_seed" \in Training!RowCategories
  BY DEF Training!Texts, Training!RowCategories
<1>4. Training!InferLabel(r.category, r.text) \in Training!Sides
  BY DEF Training!InferLabel, Training!Sides
<1>5. ASSUME NEW label \in Training!Sides, NEW category \in Training!RowCategories
      PROVE  Training!Row(r.text, label, category) \in TrainingRow
  BY <1>3 DEF Training!Row, TrainingRow
<1>6. ASSUME Training!Labelled(r) PROVE Training!Loaded(r) \in TrainingRow
  <2>1. CASE r.source = "transaction_ai"
    BY <2>1, <1>3, <1>5 DEF Training!Loaded, Training!Load_transaction_ai_data, Training!Sides
  <2>2. CASE r.source = "bootstrap"
    BY <2>2, <1>3, <1>5, <1>6 DEF Training!Loaded, Training!Load_local_bootstrap_data, Training!Labelled
  <2>3. CASE r.source = "upi_seed"
    BY <2>3, <1>3, <1>5, <1>6 DEF Training!Loaded, Training!Load_upi_seed_data, Training!Labelled
  <2>4. CASE r.source = "andyrasika"
    BY <2>4, <1>3, <1>5 DEF Training!Loaded, Training!Load_internet_andyrasika_data, Training!Sides
  <2>5. CASE r.source = "alok"
    BY <2>5, <1>3, <1>4, <1>5 DEF Training!Loaded, Training!Load_internet_alok_data
  <2>6. CASE r.source = "rajesh"
    BY <2>6, <1>3, <1>4, <1>5 DEF Training!Loaded, Training!Load_internet_rajesh_data
  <2>7. CASE r.source = "feedback"
    BY <2>7, <1>3, <1>5, <1>6 DEF Training!Loaded, Training!Labelled
  <2>8. QED
    BY <1>2, <2>1, <2>2, <2>3, <2>4, <2>5, <2>6, <2>7
<1>7. r.source = "feedback" =>
        Training!Loaded(r).text = r.text /\ Training!Loaded(r).label = r.label
  BY DEF Training!Loaded, Training!Row
<1>8. QED
  BY <1>6, <1>7

\* All rows that are not dropped are there.
LEMMA AllRowsThere ==
  ASSUME raw \in Seq(RawRows)
  PROVE  /\ Training!AllRows \in Seq(TrainingRow)
         /\ \A i \in DOMAIN raw : Training!Labelled(raw[i]) =>
              \E k \in DOMAIN Training!AllRows : Training!AllRows[k] = Training!Loaded(raw[i])
<1> DEFINE loaded == [i \in DOMAIN raw |-> Training!Loaded(raw[i])]
           S == {i \in DOMAIN raw : Training!Labelled(raw[i])}
           T == {loaded[i] : i \in DOMAIN raw}
<1>1. loaded \in Seq(T) /\ DOMAIN loaded = DOMAIN raw /\ Len(loaded) = Len(raw)
  <2>1. loaded \in [1 .. Len(raw) -> T] /\ Len(raw) \in Nat
    OBVIOUS
  <2>2. QED
    BY <2>1
<1>2. Training!AllRows = AtPlaces(loaded, S)
  BY TrainingLists DEF Training!AllRows
<1>3. S \in SUBSET DOMAIN loaded
  BY <1>1
<1>4. \A i \in S : loaded[i] \in TrainingRow
  <2>1. \A i \in DOMAIN raw : raw[i] \in RawRows
    OBVIOUS
  <2>2. QED
    BY <2>1, LoadedTyped
<1>5. \A i \in DOMAIN raw : loaded[i] = Training!Loaded(raw[i])
  OBVIOUS
<1> HIDE DEF loaded, T
<1>6. /\ Cardinality(S) \in Nat
      /\ AtPlaces(loaded, S) \in Seq(T) /\ Len(AtPlaces(loaded, S)) = Cardinality(S)
      /\ \A k \in 1 .. Cardinality(S) : Place(S, k) \in S /\ AtPlaces(loaded, S)[k] = loaded[Place(S, k)]
      /\ \A i \in S : \E k \in 1 .. Cardinality(S) : Place(S, k) = i
  <2> HIDE DEF S
  <2> QED
    BY <1>1, <1>3, AtPlacesProperties
<1> HIDE DEF S
<1>7. AtPlaces(loaded, S) \in Seq(TrainingRow)
  <2>1. AtPlaces(loaded, S) \in [1 .. Cardinality(S) -> TrainingRow]
    BY <1>4, <1>6
  <2>2. QED
    BY <1>6, <2>1
<1>8. \A i \in S : \E k \in DOMAIN AtPlaces(loaded, S) : AtPlaces(loaded, S)[k] = loaded[i]
  BY <1>6
<1>9. \A i \in DOMAIN raw : Training!Labelled(raw[i]) => i \in S
  BY DEF S
<1>10. QED
  BY <1>2, <1>5, <1>7, <1>8, <1>9

\* Deduplication keeps rows as they are, and of every text and label one.
LEMMA DedupeKeeps ==
  ASSUME NEW rows \in Seq(TrainingRow)
  PROVE  /\ Training!Dedupe(rows) \in Seq(TrainingRow)
         /\ \A i \in DOMAIN rows : \E k \in DOMAIN Training!Dedupe(rows) :
              /\ Training!Dedupe(rows)[k].text = rows[i].text
              /\ Training!Dedupe(rows)[k].label = rows[i].label
<1> DEFINE S == {i \in DOMAIN rows : ~ \E j \in 1 .. (i - 1) : Training!Says(rows[j]) = Training!Says(rows[i])}
           key == [i \in DOMAIN rows |-> Training!Says(rows[i])]
<1>1. Training!Dedupe(rows) = AtPlaces(rows, S)
  BY TrainingLists DEF Training!Dedupe
<1>2. S \in SUBSET DOMAIN rows
  OBVIOUS
<1>3. /\ Cardinality(S) \in Nat
      /\ AtPlaces(rows, S) \in Seq(TrainingRow) /\ Len(AtPlaces(rows, S)) = Cardinality(S)
      /\ \A k \in 1 .. Cardinality(S) : Place(S, k) \in S /\ AtPlaces(rows, S)[k] = rows[Place(S, k)]
      /\ \A i \in S : \E k \in 1 .. Cardinality(S) : Place(S, k) = i
  <2> HIDE DEF S
  <2> QED
    BY <1>2, AtPlacesProperties
<1>4. ASSUME NEW i \in DOMAIN rows PROVE \E j \in S : Training!Says(rows[j]) = Training!Says(rows[i])
  <2>1. DOMAIN rows = 1 .. Len(rows) /\ Len(rows) \in Nat
    OBVIOUS
  <2>2. PICK j \in 1 .. i : key[j] = key[i] /\ \A k \in DOMAIN rows : k < j => key[k] # key[j]
    <3>1. PICK n \in Nat : n = Len(rows)
      BY <2>1
    <3>2. i \in 1 .. n
      BY <2>1, <3>1
    <3>3. PICK m \in 1 .. n : m = i
      BY <3>2
    <3>4. PICK f : f = key
      OBVIOUS
    <3> HIDE DEF key
    <3>5. \E j \in 1 .. m : f[j] = f[m] /\ \A k \in 1 .. n : k < j => f[k] # f[j]
      BY FirstOfEquals
    <3> QED
      BY <2>1, <3>1, <3>3, <3>4, <3>5
  <2>3. j \in DOMAIN rows /\ \A k \in 1 .. (j - 1) : k \in DOMAIN rows /\ k < j
    BY <2>1
  <2>4. QED
    BY <2>2, <2>3
<1> HIDE DEF S
<1>5. ASSUME NEW i \in DOMAIN rows
      PROVE  \E k \in DOMAIN AtPlaces(rows, S) :
               AtPlaces(rows, S)[k].text = rows[i].text /\ AtPlaces(rows, S)[k].label = rows[i].label
  <2>1. PICK j \in S : Training!Says(rows[j]) = Training!Says(rows[i])
    BY <1>4
  <2>2. rows[j].text = rows[i].text /\ rows[j].label = rows[i].label
    BY <2>1 DEF Training!Says
  <2>3. PICK k \in 1 .. Cardinality(S) : Place(S, k) = j
    BY <1>3
  <2>4. AtPlaces(rows, S)[k] = rows[j] /\ k \in DOMAIN AtPlaces(rows, S)
    BY <1>3, <2>3
  <2>5. QED
    BY <2>2, <2>4
<1>6. QED
  BY <1>1, <1>3, <1>5

-----------------------------------------------------------------------------
LEMMA TrainingStarts == Training!Init => TrainingInv
<1> SUFFICES ASSUME Training!Init PROVE TrainingInv
  OBVIOUS
<1>1. raw \in Seq(RawRows)
  <2>1. PICK m \in Nat : raw \in [1 .. m -> RawRows]
    BY TrainingsAssumption DEF Training!Init, Training!SeqOf, Training!TrainingAssumption
  <2>2. QED
    BY <2>1
<1>2. /\ stage = "reading" /\ records = << >> /\ side_of = << >>
  BY DEF Training!Init
<1>3. TrainingTyped
  BY <1>1, <1>2 DEF TrainingTyped, LabelledStages, Training!Range
<1>4. QED
  BY <1>2, <1>3 DEF TrainingInv, LabelsFollow, CalibratorFollows, ArtifactFollows,
    Training!CorrectionsReachTheRun, LabelledStages, FittedStages

LEMMA MergeKeeps ==
  ASSUME TrainingInv, Training!Merge
  PROVE  TrainingInv'
<1>1. /\ records' = Training!Dedupe(Training!AllRows)
      /\ stage' \in {"refused", "merged"} /\ raw' = raw /\ side_of' = side_of
  BY DEF Training!Merge
<1>2. raw \in Seq(RawRows) /\ Training!Range(side_of) \subseteq Training!Sides \cup {"unknown"}
  BY DEF TrainingInv, TrainingTyped
<1>3. PICK rows \in Seq(TrainingRow) :
        /\ rows = Training!AllRows
        /\ \A i \in DOMAIN raw : Training!Labelled(raw[i]) =>
             \E k \in DOMAIN rows : rows[k] = Training!Loaded(raw[i])
  BY <1>2, AllRowsThere
<1>4. /\ records' \in Seq(TrainingRow)
      /\ \A i \in DOMAIN rows : \E k \in DOMAIN records' :
           records'[k].text = rows[i].text /\ records'[k].label = rows[i].label
  BY <1>1, <1>3, DedupeKeeps
<1>5. TrainingTyped'
  <2>1. Training!Range(side_of)' = Training!Range(side_of)
    BY <1>1 DEF Training!Range
  <2>2. QED
    BY <1>1, <1>2, <1>4, <2>1 DEF TrainingTyped, LabelledStages
<1>6. Training!CorrectionsReachTheRun'
  <2> SUFFICES ASSUME NEW i \in DOMAIN raw, raw[i].source = "feedback", raw[i].label \in Training!Sides
               PROVE  \E j \in DOMAIN records' : /\ records'[j].text = raw[i].text
                                                /\ records'[j].label = raw[i].label
    BY <1>1 DEF Training!CorrectionsReachTheRun
  <2>1. raw[i] \in RawRows
    BY <1>2
  <2>2. Training!Labelled(raw[i])
    BY DEF Training!Labelled
  <2>3. Training!Loaded(raw[i]).text = raw[i].text /\ Training!Loaded(raw[i]).label = raw[i].label
    BY <2>1, LoadedTyped
  <2>4. PICK k \in DOMAIN rows : rows[k] = Training!Loaded(raw[i])
    BY <1>3, <2>2
  <2>5. QED
    BY <1>4, <2>3, <2>4
<1>7. QED
  BY <1>1, <1>5, <1>6
    DEF TrainingInv, LabelsFollow, CalibratorFollows, ArtifactFollows, LabelledStages, FittedStages

LEMMA ModelLabelTyped ==
  ASSUME NEW row \in TrainingRow
  PROVE  Training!ModelLabel(row) \in Training!Range(LabelOrder)
<1>1. /\ MatchOf \in [Training!RowCategories -> [Training!Texts -> Categories \cup {NoMatch}]]
      /\ Training!Range(LabelOrder)
            = Categories \cup {Training!FallbackBusiness, Training!FallbackPersonal}
  BY TrainingsAssumption DEF Training!TrainingAssumption
<1>2. row.category \in Training!RowCategories /\ row.text \in Training!Texts
  BY DEF TrainingRow
<1>3. MatchOf[row.category][row.text] \in Categories \cup {NoMatch}
  BY <1>1, <1>2
<1>4. QED
  BY <1>1, <1>3 DEF Training!ModelLabel

LEMMA ResolveKeeps ==
  ASSUME TrainingInv, Training!Resolve
  PROVE  TrainingInv'
<1>1. /\ stage = "merged" /\ stage' = "resolved" /\ raw' = raw
      /\ records' = [i \in DOMAIN records |->
                       [records[i] EXCEPT !.model_label = Training!ModelLabel(records[i])]]
      /\ side_of' = Training!SideOf(records')
  BY DEF Training!Resolve
<1>2. raw \in Seq(RawRows) /\ records \in Seq(TrainingRow) /\ Training!CorrectionsReachTheRun
  BY DEF TrainingInv, TrainingTyped
<1>3. \A i \in DOMAIN records : records[i] \in TrainingRow
  BY <1>2
<1>4. ASSUME NEW i \in DOMAIN records
      PROVE  /\ records'[i] \in TrainingRow
             /\ records'[i].model_label \in Training!Range(LabelOrder)
             /\ records'[i].text = records[i].text /\ records'[i].label = records[i].label
  <2>1. records[i] \in TrainingRow /\ Training!ModelLabel(records[i]) \in Training!Range(LabelOrder)
    BY <1>3, ModelLabelTyped
  <2>2. records'[i] = [records[i] EXCEPT !.model_label = Training!ModelLabel(records[i])]
    BY <1>1
  <2>3. QED
    BY <2>1, <2>2 DEF TrainingRow
<1>5. DOMAIN records' = DOMAIN records /\ DOMAIN records = 1 .. Len(records) /\ Len(records) \in Nat
  BY <1>1, <1>2
<1>6. records' \in Seq(TrainingRow)
  <2>1. records' \in [1 .. Len(records) -> TrainingRow]
    BY <1>1, <1>4, <1>5
  <2>2. QED
    BY <1>5, <2>1
<1>7. /\ DOMAIN side_of' = {records'[i].model_label : i \in DOMAIN records'}
      /\ \A m \in DOMAIN side_of' : side_of'[m] \in Training!Sides \cup {"unknown"}
  BY <1>1 DEF Training!SideOf, Training!Majority, Training!Sides
<1>8. TrainingTyped'
  BY <1>1, <1>2, <1>6, <1>7 DEF TrainingTyped, LabelledStages, Training!Range
<1>9. LabelsFollow'
  BY <1>1, <1>4, <1>5, <1>7 DEF LabelsFollow, LabelledStages, FittedStages
<1>10. Training!CorrectionsReachTheRun'
  <2> SUFFICES ASSUME NEW i \in DOMAIN raw, raw[i].source = "feedback", raw[i].label \in Training!Sides
               PROVE  \E j \in DOMAIN records' : /\ records'[j].text = raw[i].text
                                                /\ records'[j].label = raw[i].label
    BY <1>1 DEF Training!CorrectionsReachTheRun
  <2>1. PICK j \in DOMAIN records : records[j].text = raw[i].text /\ records[j].label = raw[i].label
    BY <1>1, <1>2 DEF Training!CorrectionsReachTheRun
  <2>2. QED
    BY <1>4, <1>5, <2>1
<1>11. QED
  BY <1>1, <1>8, <1>9, <1>10 DEF TrainingInv, CalibratorFollows, ArtifactFollows

\* Without a change of the rows, their parts and the map everything of before stays.
LEMMA LabelsUnchanged ==
  ASSUME UNCHANGED <<raw, records, side_of, part>>
  PROVE  /\ Training!Labels' = Training!Labels /\ Training!Range(side_of)' = Training!Range(side_of)
         /\ Training!CorrectionsReachTheRun /\ stage # "reading"
              => Training!CorrectionsReachTheRun'
<1>1. Training!Labels' = Training!Labels
  BY DEF Training!Labels, Training!In
<1>2. Training!Range(side_of)' = Training!Range(side_of)
  BY DEF Training!Range
<1>3. QED
  BY <1>1, <1>2 DEF Training!CorrectionsReachTheRun

LEMMA SplitKeeps ==
  ASSUME TrainingInv, Training!Split
  PROVE  TrainingInv'
<1>1. /\ stage = "resolved" /\ stage' = "split" /\ UNCHANGED <<raw, records, side_of>>
      /\ part' \in [DOMAIN records -> Training!Parts]
      /\ Training!Range(part') = Training!Parts
  BY DEF Training!Split
<1>2. Training!In("fit")' # {}
  <2>1. PICK i \in DOMAIN records : part'[i] = "fit"
    BY <1>1 DEF Training!Range, Training!Parts
  <2> QED
    BY <1>1, <2>1 DEF Training!In
<1>3. Training!Range(side_of)' = Training!Range(side_of)
  BY <1>1 DEF Training!Range
<1>4. TrainingTyped' /\ LabelsFollow'
  BY <1>1, <1>2, <1>3 DEF TrainingInv, TrainingTyped, LabelsFollow, LabelledStages, FittedStages
<1>5. Training!CorrectionsReachTheRun'
  BY <1>1 DEF TrainingInv, Training!CorrectionsReachTheRun
<1>6. QED
  BY <1>1, <1>4, <1>5 DEF TrainingInv, CalibratorFollows, ArtifactFollows

LEMMA RaiseKeeps ==
  ASSUME TrainingInv, Training!Raise
  PROVE  TrainingInv'
<1>1. /\ stage \in {"resolved", "split"} /\ stage' = "refused"
      /\ UNCHANGED <<raw, records, side_of, part>>
  BY DEF Training!Raise
<1>2. TrainingTyped' /\ LabelsFollow'
  BY <1>1, LabelsUnchanged DEF TrainingInv, TrainingTyped, LabelsFollow, LabelledStages, FittedStages
<1>3. QED
  BY <1>1, <1>2, LabelsUnchanged DEF TrainingInv, CalibratorFollows, ArtifactFollows

LEMMA FitKeeps ==
  ASSUME TrainingInv, Training!Fit
  PROVE  TrainingInv'
<1>1. /\ stage = "split" /\ stage' = "fitted" /\ UNCHANGED <<raw, records, side_of, part>>
  BY DEF Training!Fit
<1>2. PICK i \in Training!In("test"), p \in Training!Distributions(Len(Training!Labels)) :
        sample' = [text |-> records[i].text, probs |-> p]
  BY DEF Training!Fit
<1>3. sample'.probs \in [1 .. Len(Training!Labels) -> 0 .. Unit]
  BY <1>2 DEF Training!Distributions
<1>4. Training!In("fit")' = Training!In("fit")
  BY <1>1 DEF Training!In
<1>5. TrainingTyped' /\ LabelsFollow'
  BY <1>1, <1>3, <1>4, LabelsUnchanged
    DEF TrainingInv, TrainingTyped, LabelsFollow, LabelledStages, FittedStages
<1>6. QED
  BY <1>1, <1>5, LabelsUnchanged DEF TrainingInv, CalibratorFollows, ArtifactFollows

LEMMA CalibrateKeeps ==
  ASSUME TrainingInv, Training!Calibrate
  PROVE  TrainingInv'
<1>1. /\ stage = "fitted" /\ stage' = "calibrated"
      /\ UNCHANGED <<raw, records, side_of, part, sample>>
  BY DEF Training!Calibrate
<1>2. \/ calibrator'.business_labels = {}
      \/ calibrator'.business_labels
           = {m \in Training!Range(Training!Labels) : side_of[m] = "business"}
  BY DEF Training!Calibrate
<1>3. TrainingTyped' /\ LabelsFollow'
  BY <1>1, LabelsUnchanged
    DEF TrainingInv, TrainingTyped, LabelsFollow, LabelledStages, FittedStages, Training!In
<1>4. CalibratorFollows'
  <2>1. Training!Range(Training!Labels)' = Training!Range(Training!Labels)
    BY <1>1, LabelsUnchanged DEF Training!Range
  <2>2. QED
    BY <1>1, <1>2, <2>1 DEF CalibratorFollows
<1>5. QED
  BY <1>1, <1>3, <1>4, LabelsUnchanged DEF TrainingInv, ArtifactFollows

LEMMA DumpKeeps ==
  ASSUME TrainingInv, Training!Dump
  PROVE  TrainingInv'
<1>1. /\ stage = "calibrated" /\ stage' = "written"
      /\ UNCHANGED <<raw, records, side_of, part, sample, calibrator>>
      /\ profile' = Training!Profile(Training!Labels, sample.probs, calibrator, side_of)
      /\ model' = [labels |-> Training!Labels, side_of |-> side_of, calibrator |-> calibrator]
  BY DEF Training!Dump
<1>2. TrainingTyped' /\ LabelsFollow'
  BY <1>1, LabelsUnchanged
    DEF TrainingInv, TrainingTyped, LabelsFollow, LabelledStages, FittedStages, Training!In
<1>3. CalibratorFollows'
  <2>1. Training!Range(Training!Labels)' = Training!Range(Training!Labels)
    BY <1>1, LabelsUnchanged DEF Training!Range
  <2>2. QED
    BY <1>1, <2>1 DEF TrainingInv, CalibratorFollows
<1>4. ArtifactFollows'
  BY <1>1, LabelsUnchanged DEF ArtifactFollows
<1>5. QED
  BY <1>1, <1>2, <1>3, <1>4, LabelsUnchanged DEF TrainingInv

LEMMA TrainingKeeps == TrainingInv /\ [Training!Next]_training_vars => TrainingInv'
<1> SUFFICES ASSUME TrainingInv, [Training!Next]_training_vars PROVE TrainingInv'
  OBVIOUS
<1>1. CASE UNCHANGED training_vars
  <2>1. UNCHANGED <<stage, raw, records, side_of, part, sample, calibrator, profile, model>>
    BY <1>1 DEF training_vars
  <2>2. TrainingTyped' /\ LabelsFollow'
    BY <2>1, LabelsUnchanged DEF TrainingInv, TrainingTyped, LabelsFollow, Training!In
  <2>3. CalibratorFollows' /\ ArtifactFollows'
    BY <2>1, LabelsUnchanged DEF TrainingInv, CalibratorFollows, ArtifactFollows, Training!Range
  <2>4. Training!CorrectionsReachTheRun'
    BY <2>1 DEF TrainingInv, Training!CorrectionsReachTheRun
  <2>5. QED
    BY <2>2, <2>3, <2>4 DEF TrainingInv
<1>2. CASE Training!Terminated
  <2>1. UNCHANGED training_vars
    BY <1>2 DEF Training!Terminated, Training!vars, training_vars
  <2>2. QED
    BY <2>1, <1>1
<1>3. QED
  BY <1>1, <1>2, MergeKeeps, ResolveKeeps, SplitKeeps, RaiseKeeps, FitKeeps, CalibrateKeeps, DumpKeeps DEF Training!Next

-----------------------------------------------------------------------------
\* A nonempty list of numbers with a bound has a first greatest one.
LEMMA TopIsOne ==
  ASSUME NEW n \in Nat \ {0}, NEW probs \in [1 .. n -> 0 .. Unit]
  PROVE  Training!Top(probs) \in 1 .. n
<1> DEFINE greatest == {k \in 1 .. n : \A j \in 1 .. n : probs[j] <= probs[k]}
<1>1. Unit \in Nat
  BY TrainingsAssumption DEF Training!TrainingAssumption
<1>2. greatest # {}
  <2> DEFINE V == {probs[k] : k \in 1 .. n}
  <2>1. V \in SUBSET Nat /\ V # {} /\ \A v \in V : v <= Unit
    BY <1>1
  <2>2. PICK v \in V : \A u \in V : u <= v
    <3> HIDE DEF V
    <3> QED
      BY <1>1, <2>1, GreatestOf
  <2>3. PICK k \in 1 .. n : probs[k] = v
    OBVIOUS
  <2>4. QED
    BY <2>2, <2>3
<1>3. greatest \in SUBSET Nat
  OBVIOUS
<1>4. PICK k \in greatest : \A j \in greatest : k <= j
  <2> HIDE DEF greatest
  <2> QED
    BY <1>2, <1>3, LeastOf
<1>5. ASSUME NEW j \in 1 .. (k - 1) PROVE probs[j] < probs[k]
  <2>1. j \in 1 .. n /\ j \notin greatest
    BY <1>4
  <2>2. PICK i \in 1 .. n : ~ (probs[i] <= probs[j])
    BY <2>1
  <2>3. probs[i] <= probs[k] /\ probs[j] <= probs[k]
    BY <1>4, <2>1
  <2>4. QED
    BY <1>1, <2>1, <2>2, <2>3
<1>6. \E m \in DOMAIN probs : /\ \A j \in DOMAIN probs : probs[j] <= probs[m]
                             /\ \A j \in 1 .. (m - 1) : probs[j] < probs[m]
  BY <1>4, <1>5
<1>7. QED
  BY <1>6 DEF Training!Top

\* The labels the pipeline knows are in the map, and there is one.
LEMMA LabelsThere ==
  ASSUME TrainingInv, stage \in LabelledStages \ {"resolved"}
  PROVE  /\ Len(Training!Labels) \in Nat \ {0} /\ DOMAIN Training!Labels = 1 .. Len(Training!Labels)
         /\ \A k \in DOMAIN Training!Labels : Training!Labels[k] \in DOMAIN side_of
<1> DEFINE S == {k \in DOMAIN LabelOrder :
                   \E i \in Training!In("fit") : records[i].model_label = LabelOrder[k]}
<1>1. LabelOrder \in Seq(Training!Range(LabelOrder))
  <2>1. LabelOrder \in Seq(Categories \cup {Training!FallbackBusiness, Training!FallbackPersonal})
    BY TrainingsAssumption DEF Training!TrainingAssumption
  <2>2. \A k \in DOMAIN LabelOrder : LabelOrder[k] \in Training!Range(LabelOrder)
    BY DEF Training!Range
  <2>3. QED
    BY <2>1, <2>2
<1>2. S \in SUBSET DOMAIN LabelOrder /\ Training!Labels = AtPlaces(LabelOrder, S)
  BY TrainingLists DEF Training!Labels
<1>3. S # {}
  <2>1. /\ DOMAIN side_of = {records[i].model_label : i \in DOMAIN records}
        /\ \A i \in DOMAIN records : records[i].model_label \in Training!Range(LabelOrder)
        /\ Training!In("fit") # {}
    BY DEF TrainingInv, LabelsFollow
  <2>2. PICK i \in Training!In("fit") : i \in DOMAIN records
    BY <2>1 DEF Training!In
  <2>3. PICK k \in DOMAIN LabelOrder : LabelOrder[k] = records[i].model_label
    BY <2>1, <2>2 DEF Training!Range
  <2>4. QED
    BY <2>2, <2>3
<1>4. \A k \in S : LabelOrder[k] \in DOMAIN side_of
  <2>1. DOMAIN side_of = {records[i].model_label : i \in DOMAIN records}
    BY DEF TrainingInv, LabelsFollow
  <2> QED
    BY <2>1 DEF Training!In
<1> HIDE DEF S
<1>5. /\ IsFiniteSet(S) /\ Cardinality(S) \in Nat
      /\ AtPlaces(LabelOrder, S) \in Seq(Training!Range(LabelOrder))
      /\ Len(AtPlaces(LabelOrder, S)) = Cardinality(S)
      /\ \A k \in 1 .. Cardinality(S) :
           Place(S, k) \in S /\ AtPlaces(LabelOrder, S)[k] = LabelOrder[Place(S, k)]
  BY <1>1, <1>2, AtPlacesProperties
<1>6. Cardinality(S) # 0
  BY <1>3, <1>5, FS_EmptySet
<1>7. QED
  BY <1>2, <1>4, <1>5, <1>6

\* The two ways to the probability of business lead to one number.
LEMMA ServedLikeApplied ==
  ASSUME TrainingInv, stage = "written"
  PROVE  /\ model.labels = Training!Labels /\ model.side_of = side_of
         /\ model.calibrator = calibrator
         /\ Training!ServedBusiness(model, sample.probs)
              = Training!Apply(Training!Labels, sample.probs, calibrator, side_of)
<1>1. /\ model = [labels |-> Training!Labels, side_of |-> side_of, calibrator |-> calibrator]
      /\ \/ calibrator.business_labels = {}
         \/ calibrator.business_labels
              = {m \in Training!Range(Training!Labels) : side_of[m] = "business"}
  BY DEF TrainingInv, ArtifactFollows, CalibratorFollows
<1>2. model.labels = Training!Labels /\ model.side_of = side_of /\ model.calibrator = calibrator
  BY <1>1
<1> DEFINE L == Training!Labels
           side(m) == IF calibrator.business_labels = {} THEN side_of[m]
                      ELSE IF m \in calibrator.business_labels THEN "business" ELSE "personal"
           sides == [m \in Training!Range(L) |-> side(m)]
<1>3. {m \in Training!Range(L) : m \in DOMAIN sides /\ sides[m] = "business"}
        = Training!BusinessLabels(model)
  <2>1. ASSUME NEW m \in Training!Range(L) PROVE side(m) = "business" <=> side_of[m] = "business"
    BY <1>1
  <2>2. QED
    BY <1>2, <2>1 DEF Training!BusinessLabels
<1>4. Training!Aggregate(L, sample.probs, sides)
        = IF Training!BusinessLabels(model) = {} THEN Unit \div 2
          ELSE Training!Mass(L, sample.probs, Training!BusinessLabels(model))
  <2> HIDE DEF L, sides
  <2> QED
    BY <1>3 DEF Training!Aggregate
<1>5. Training!Apply(L, sample.probs, calibrator, side_of)
        = Training!Calibrated(calibrator, Training!Aggregate(L, sample.probs, sides))
  BY DEF Training!Apply
<1>6. Training!ServedBusiness(model, sample.probs)
        = Training!Calibrated(calibrator,
            IF Training!BusinessLabels(model) = {} THEN Unit \div 2
            ELSE Training!Mass(L, sample.probs, Training!BusinessLabels(model)))
  BY <1>2 DEF Training!ServedBusiness
<1>7. QED
  BY <1>2, <1>4, <1>5, <1>6

LEMMA TrainingInvServes == TrainingInv => ServedAsTrained
<1> SUFFICES ASSUME TrainingInv, stage = "written"
             PROVE  /\ Training!ServedBusiness(model, sample.probs)
                         = Training!Apply(Training!Labels, sample.probs, calibrator, side_of)
                    /\ profile.side # "unknown" => Training!Classify(model, sample.probs) = profile
  BY DEF ServedAsTrained, Training!ServedAsTrained, Training!ServedAsCalibrated,
    Training!BaselineIsServed
<1> DEFINE side == side_of[Training!Labels[Training!Top(sample.probs)]]
           p == Training!Apply(Training!Labels, sample.probs, calibrator, side_of)
<1>1. profile = [side |-> side, confidence |-> IF side = "business" THEN p ELSE Unit - p]
  BY DEF TrainingInv, ArtifactFollows, Training!Profile
<1>2. side \in {"business", "personal", "unknown"}
  <2>1. stage \in LabelledStages \ {"resolved"} /\ stage \in FittedStages
    BY DEF LabelledStages, FittedStages
  <2>2. sample.probs \in [1 .. Len(Training!Labels) -> 0 .. Unit]
    BY <2>1 DEF TrainingInv, LabelsFollow
  <2>3. PICK n \in Nat \ {0} : n = Len(Training!Labels) /\ DOMAIN Training!Labels = 1 .. n
    BY <2>1, LabelsThere
  <2>4. Training!Top(sample.probs) \in DOMAIN Training!Labels
    BY <2>2, <2>3, TopIsOne
  <2>5. Training!Labels[Training!Top(sample.probs)] \in DOMAIN side_of
    BY <2>1, <2>4, LabelsThere
  <2>6. QED
    BY <2>5 DEF TrainingInv, TrainingTyped, Training!Range, Training!Sides
<1>3. /\ model.labels = Training!Labels /\ model.side_of = side_of
      /\ Training!ServedBusiness(model, sample.probs) = p
  BY ServedLikeApplied
<1>4. side # "unknown" => Training!Classify(model, sample.probs)
        = [side |-> side, confidence |-> IF side = "business" THEN p ELSE Unit - p]
  <2>1. CASE side = "business"
    BY <2>1, <1>3 DEF Training!Classify
  <2>2. CASE side = "personal"
    BY <2>2, <1>3 DEF Training!Classify
  <2>3. QED
    BY <1>2, <2>1, <2>2
<1> HIDE DEF side, p
<1>5. profile.side = side
  BY <1>1
<1>6. QED
  BY <1>1, <1>3, <1>4, <1>5 DEF p

LEMMA TrainingInvTyped == TrainingInv => Training!TypeOK
<1> SUFFICES ASSUME TrainingInv PROVE Training!TypeOK
  OBVIOUS
<1>1. \A i \in DOMAIN records : records[i] \in TrainingRow
  BY DEF TrainingInv, TrainingTyped
<1>2. stage \in {"fitted", "calibrated", "written"} => Len(sample.probs) = Len(Training!Labels)
  <2> SUFFICES ASSUME stage \in {"fitted", "calibrated", "written"}
               PROVE  Len(sample.probs) = Len(Training!Labels)
    OBVIOUS
  <2>1. stage \in LabelledStages \ {"resolved"} /\ stage \in FittedStages
    BY DEF LabelledStages, FittedStages
  <2>2. PICK n \in Nat : n = Len(Training!Labels)
    BY <2>1, LabelsThere
  <2>3. sample.probs \in [1 .. n -> 0 .. Unit]
    BY <2>1, <2>2 DEF TrainingInv, LabelsFollow
  <2>4. QED
    BY <2>2, <2>3
<1>3. QED
  BY <1>1, <1>2 DEF TrainingInv, TrainingTyped, LabelledStages, TrainingRow, Training!TypeOK

LEMMA TrainingInvariant == Training!Spec => []TrainingInv
<1>1. TrainingInv /\ [Training!Next]_(Training!vars) => TrainingInv'
  BY TrainingKeeps DEF Training!vars, training_vars
<1> QED
  BY <1>1, TrainingStarts, PTL DEF Training!Spec

\* The state of a training run has its types.
THEOREM TrainingTypeCorrect == Training!Spec => []Training!TypeOK
BY TrainingInvariant, TrainingInvTyped, PTL

\* Whatever the sources hold and in whatever they contradict it, a correction is
\* among the rows that a run splits, with its text and its label.
THEOREM CorrectionsReachTraining == Training!Spec => []CorrectionsReachTheRun
<1>1. TrainingInv => CorrectionsReachTheRun
  BY DEF TrainingInv, CorrectionsReachTheRun
<1> QED
  BY <1>1, TrainingInvariant, PTL

\* For any labels, probabilities and calibration curve, what training measured of
\* its artifact is what the audit answers with it.
THEOREM ServedLikeTrained == Training!Spec => []ServedAsTrained
BY TrainingInvariant, TrainingInvServes, PTL

-----------------------------------------------------------------------------
(* The cache of datasets.                                                   *)

CachePlaces   == {"idle", "looking", "writing", "verifying", "replacing", "reading"}
CacheOutcomes == Cache!Contents \cup {"none", "nothing", "refused"}

\* The variables are typed, a run that began is counted, and one that writes
\* has a file to write to.
CacheTyped ==
  /\ content \in [Cache!Files \cup {Cache!Old} -> Cache!Contents]
  /\ tmp \in Cache!Files \cup {Cache!NoFile}
  /\ cache \in Cache!Files \cup {Cache!Old, Cache!NoFile}
  /\ pc \in [Trainers -> CachePlaces]
  /\ handle \in [Trainers -> Cache!Files \cup {Cache!NoFile}]
  /\ runs \in [Trainers -> 0 .. MaxTrainings]
  /\ got \in [Trainers -> CacheOutcomes]
  /\ \A t \in Trainers :
       /\ pc[t] # "idle" => runs[t] > 0
       /\ pc[t] = "writing" => handle[t] \in Cache!Files
       /\ pc[t] = "reading" => cache # Cache!NoFile

LEMMA NoFileIsNone ==
  Cache!NoFile \notin Cache!Files /\ Cache!NoFile # Cache!Old /\ Cache!Old \notin Cache!Files
BY DEF Cache!NoFile, Cache!Files, Cache!Old

LEMMA CacheTypedIsTyped == ASSUME CacheTyped PROVE Cache!TypeOK
BY DEF CacheTyped, Cache!TypeOK, CachePlaces, CacheOutcomes

LEMMA CacheTypedInit == ASSUME Cache!Init PROVE CacheTyped
BY CachesAssumption DEF Cache!CacheAssumption, Cache!Init, CacheTyped, Cache!Contents, CachePlaces, CacheOutcomes

\* A run ends in one of the outcomes, and leaves nothing open.
LEMMA CacheEndsTyped ==
  ASSUME CacheTyped, NEW t \in Trainers, NEW what \in CacheOutcomes, Cache!Ends(t, what)
  PROVE  /\ pc' \in [Trainers -> CachePlaces]
         /\ handle' \in [Trainers -> Cache!Files \cup {Cache!NoFile}]
         /\ got' \in [Trainers -> CacheOutcomes]
         /\ pc'[t] = "idle" /\ got'[t] = what
         /\ \A u \in Trainers \ {t} :
              pc'[u] = pc[u] /\ handle'[u] = handle[u] /\ got'[u] = got[u]
BY DEF CacheTyped, Cache!Ends, CachePlaces

LEMMA CacheTypedStep ==
  ASSUME CacheTyped, NEW t \in Trainers,
         Cache!Begin(t) \/ Cache!Step(t) \/ Cache!Crash(t)
  PROVE  CacheTyped'
<1> USE DEF CacheTyped
<1>1. CASE Cache!Begin(t)
  <2>1. runs' \in [Trainers -> 0 .. MaxTrainings] /\ runs'[t] > 0
    BY <1>1, CachesAssumption DEF Cache!Begin, Cache!CacheAssumption
  <2>2. \A u \in Trainers \ {t} : runs'[u] = runs[u]
    BY <1>1 DEF Cache!Begin
  <2>3. CASE Cache!Ends(t, "refused")
    BY <1>1, <2>1, <2>2, <2>3, CacheEndsTyped DEF Cache!Begin, Cache!paths, CacheOutcomes
  <2>4. CASE manifest
    BY <1>1, <2>1, <2>2, <2>4 DEF Cache!Begin, Cache!paths, CachePlaces
  <2> QED
    BY <1>1, <2>3, <2>4 DEF Cache!Begin
<1>2. CASE Cache!CheckCache(t)
  <2>1. CASE Cache!Ends(t, "refused")
    BY <1>2, <2>1, CacheEndsTyped DEF Cache!CheckCache, Cache!paths, CacheOutcomes
  <2>2. CASE content[cache] = "pinned"
    BY <1>2, <2>2 DEF Cache!CheckCache, Cache!paths, CachePlaces
  <2> QED
    BY <1>2, <2>1, <2>2 DEF Cache!CheckCache
<1>3. CASE Cache!DownloadFails(t)
  BY <1>3, CacheEndsTyped DEF Cache!DownloadFails, Cache!paths, CacheOutcomes
<1>4. CASE Cache!Open(t)
  <2> DEFINE f == IF tmp = Cache!NoFile THEN <<t, runs[t]>> ELSE tmp
  <2>1. runs[t] \in 1 .. MaxTrainings
    BY <1>4, CachesAssumption DEF Cache!Open, Cache!CacheAssumption
  <2>2. f \in Cache!Files
    BY <2>1 DEF Cache!Files
  <2>3. /\ tmp' = f /\ content' = [content EXCEPT ![f] = "partial"]
        /\ handle' = [handle EXCEPT ![t] = f] /\ pc' = [pc EXCEPT ![t] = "writing"]
        /\ UNCHANGED <<cache, runs, got>> /\ pc[t] = "looking"
    BY <1>4 DEF Cache!Open
  <2> HIDE DEF f
  <2> QED
    BY <2>2, <2>3 DEF CachePlaces, Cache!Contents
<1>5. CASE Cache!WriteTmp(t)
  BY <1>5 DEF Cache!WriteTmp, Cache!paths, CachePlaces, Cache!Contents
<1>6. CASE Cache!Verify(t)
  <2>1. CASE tmp = Cache!NoFile
    BY <1>6, <2>1, CacheEndsTyped DEF Cache!Verify, CacheOutcomes
  <2>2. CASE tmp # Cache!NoFile /\ content[tmp] = "pinned"
    BY <1>6, <2>2 DEF Cache!Verify, CachePlaces
  <2>3. CASE tmp # Cache!NoFile /\ content[tmp] # "pinned"
    BY <1>6, <2>3, CacheEndsTyped DEF Cache!Verify, CacheOutcomes
  <2> QED
    BY <2>1, <2>2, <2>3
<1>7. CASE Cache!Replace(t)
  <2>1. CASE tmp = Cache!NoFile
    BY <1>7, <2>1, CacheEndsTyped DEF Cache!Replace, Cache!paths, CacheOutcomes
  <2>2. CASE tmp # Cache!NoFile
    BY <1>7, <2>2, NoFileIsNone DEF Cache!Replace, CachePlaces
  <2> QED
    BY <2>1, <2>2
<1>8. CASE Cache!Read(t)
  <2>1. content[cache] \in CacheOutcomes
    BY <1>8 DEF Cache!Read, CacheOutcomes
  <2> QED
    BY <1>8, <2>1, CacheEndsTyped DEF Cache!Read, Cache!paths
<1>9. CASE Cache!Crash(t)
  BY <1>9, CacheEndsTyped DEF Cache!Crash, Cache!paths, CacheOutcomes
<1> QED
  BY <1>1, <1>2, <1>3, <1>4, <1>5, <1>6, <1>7, <1>8, <1>9 DEF Cache!Step

LEMMA CacheTypedNext == ASSUME CacheTyped, [Cache!Next]_(Cache!vars) PROVE CacheTyped'
<1>1. CASE UNCHANGED Cache!vars
  BY <1>1 DEF CacheTyped, Cache!vars, Cache!paths
<1> QED
  BY <1>1, CacheTypedStep DEF Cache!Next

LEMMA CacheTypedAlways == Cache!Spec => []CacheTyped
<1> QED
  BY CacheTypedInit, CacheTypedNext, PTL DEF Cache!Spec

\* Every variable of DatasetCache keeps its type, for any number of trainers.
THEOREM CacheTypeCorrect == Cache!Spec => []Cache!TypeOK
<1> QED
  BY CacheTypedAlways, CacheTypedIsTyped, PTL
-----------------------------------------------------------------------------
OneTrainer == \A t, u \in Trainers : t = u

\* Between opening the temporary file and renaming it, nobody else gives the
\* path another file or the cache a file; what was verified stays as it was.
CachePinned ==
  /\ \A t \in Trainers :
       /\ pc[t] \in {"writing", "verifying", "replacing"} =>
            cache = Cache!NoFile /\ tmp # Cache!NoFile /\ handle[t] = tmp
       /\ pc[t] = "replacing" => content[tmp] = "pinned"
       /\ pc[t] = "reading" => content[cache] = "pinned"
  /\ Cache!CachedIsPinned
  /\ Cache!ReadIsPinned

LEMMA PinnedStart == ASSUME Cache!Init PROVE CachePinned
BY NoFileIsNone DEF Cache!Init, CachePinned, Cache!CachedIsPinned, Cache!ReadIsPinned

LEMMA PinnedStep ==
  ASSUME OneTrainer, CacheTyped, CachePinned, NEW t \in Trainers,
         Cache!Begin(t) \/ Cache!Step(t) \/ Cache!Crash(t)
  PROVE  CachePinned'
<1>1. Trainers = {t}
  BY DEF OneTrainer
<1> USE <1>1 DEF CacheTyped, CachePinned, Cache!CachedIsPinned, Cache!ReadIsPinned
<1>2. ASSUME NEW what \in {"none", "nothing", "refused", "pinned"}, Cache!Ends(t, what)
      PROVE  pc'[t] = "idle" /\ got'[t] \notin {"changed", "partial"}
  BY <1>2 DEF Cache!Ends
<1>3. CASE Cache!Begin(t)
  <2>1. pc'[t] \in {"idle", "looking"} /\ got'[t] \notin {"changed", "partial"}
    BY <1>2, <1>3 DEF Cache!Begin, Cache!Ends
  <2> QED
    BY <1>3, <2>1 DEF Cache!Begin, Cache!paths
<1>4. CASE Cache!CheckCache(t)
  <2>1. CASE Cache!Ends(t, "refused")
    BY <1>2, <1>4, <2>1 DEF Cache!CheckCache, Cache!paths
  <2>2. CASE content[cache] = "pinned" /\ pc' = [pc EXCEPT ![t] = "reading"] /\ UNCHANGED got
    BY <1>4, <2>2 DEF Cache!CheckCache, Cache!paths
  <2> QED
    BY <1>4, <2>1, <2>2 DEF Cache!CheckCache
<1>5. CASE Cache!DownloadFails(t)
  BY <1>2, <1>5 DEF Cache!DownloadFails, Cache!paths
<1>6. CASE Cache!Open(t)
  <2>1. tmp' # Cache!NoFile
    BY <1>6, NoFileIsNone DEF Cache!Open, Cache!NoFile
  <2>2. /\ cache' = Cache!NoFile /\ pc'[t] = "writing" /\ handle'[t] = tmp' /\ got' = got
    BY <1>6 DEF Cache!Open
  <2> QED
    BY <2>1, <2>2, NoFileIsNone
<1>7. CASE Cache!WriteTmp(t)
  <2>1. /\ cache = Cache!NoFile /\ tmp # Cache!NoFile /\ handle[t] = tmp
        /\ pc'[t] = "verifying" /\ UNCHANGED <<tmp, cache, handle, got>>
    BY <1>7 DEF Cache!WriteTmp, Cache!paths
  <2> QED
    BY <2>1, NoFileIsNone
<1>8. CASE Cache!Verify(t)
  <2>1. tmp # Cache!NoFile /\ cache = Cache!NoFile /\ UNCHANGED <<content, cache>>
    BY <1>8 DEF Cache!Verify
  <2>2. CASE content[tmp] = "pinned"
    BY <1>8, <2>1, <2>2, NoFileIsNone DEF Cache!Verify
  <2>3. CASE content[tmp] # "pinned"
    BY <1>2, <1>8, <2>1, <2>3, NoFileIsNone DEF Cache!Verify
  <2> QED
    BY <2>2, <2>3
<1>9. CASE Cache!Replace(t)
  <2>1. /\ tmp # Cache!NoFile /\ content[tmp] = "pinned"
        /\ cache' = tmp /\ pc'[t] = "reading" /\ UNCHANGED <<content, got>>
    BY <1>9 DEF Cache!Replace
  <2> QED
    BY <2>1
<1>10. CASE Cache!Read(t)
  BY <1>2, <1>10 DEF Cache!Read, Cache!paths
<1>11. CASE Cache!Crash(t)
  BY <1>2, <1>11 DEF Cache!Crash, Cache!paths
<1> QED
  BY <1>3, <1>4, <1>5, <1>6, <1>7, <1>8, <1>9, <1>10, <1>11 DEF Cache!Step

LEMMA PinnedNext ==
  ASSUME OneTrainer, CacheTyped, CachePinned, [Cache!Next]_(Cache!vars)
  PROVE  CachePinned'
<1>1. CASE UNCHANGED Cache!vars
  BY <1>1 DEF CachePinned, Cache!CachedIsPinned, Cache!ReadIsPinned, Cache!vars, Cache!paths
<1> QED
  BY <1>1, PinnedStep DEF Cache!Next

\* ensure_dataset_artifact of a single trainer: what it leaves in the cache and
\* what it trains on is the pinned dataset, wherever it dies and whatever it is
\* served.
THEOREM OneTrainerIsPinned ==
  ASSUME OneTrainer
  PROVE  Cache!Spec => []OnlyPinned
<1>1. Cache!Init => CachePinned
  BY PinnedStart
<1>2. CacheTyped /\ CachePinned /\ [Cache!Next]_(Cache!vars) => CachePinned'
  BY PinnedNext
<1>3. CachePinned => OnlyPinned
  BY DEF CachePinned, OnlyPinned, Cache!OnlyPinned
<1> QED
  BY <1>1, <1>2, <1>3, CacheTypedAlways, PTL DEF Cache!Spec

-----------------------------------------------------------------------------
(* The three together.                                                      *)

ModelsInv == ServingInv /\ TrainingInv /\ CacheTyped

LEMMA ModelsStart == ModelsInit => ModelsInv
BY ServingStarts, TrainingStarts, CacheTypedInit
   DEF ModelsInit, ServingIdle, TrainingIdle, CacheIdle, ModelsInv

LEMMA ModelsKeep ==
  ModelsInv /\ [ModelsNext]_<<component, vars, training_vars, cache_vars>> => ModelsInv'
<1> SUFFICES ASSUME ModelsInv, [ModelsNext]_<<component, vars, training_vars, cache_vars>>
             PROVE  ModelsInv'
  OBVIOUS
<1>1. [Next]_vars /\ [Training!Next]_training_vars /\ [Cache!Next]_cache_vars
  BY DEF ModelsNext
<1>2. [Cache!Next]_(Cache!vars)
  BY <1>1 DEF cache_vars, Cache!vars
<1>3. QED
  BY <1>1, <1>2, ServingKeeps, TrainingKeeps, CacheTypedNext DEF ModelsInv

\* The three as they run side by side are typed.
THEOREM ModelsTypeCorrect == ModelsSpec => []ModelsTypeOK
<1>1. ModelsInv => ModelsTypeOK
  BY ServingInvTyped, TrainingInvTyped, CacheTypedIsTyped DEF ModelsInv, ModelsTypeOK
<1>2. ModelsSpec => []ModelsInv
  BY ModelsStart, ModelsKeep, PTL DEF ModelsSpec
<1> QED
  BY <1>1, <1>2, PTL
=============================================================================
