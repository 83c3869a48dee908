------------------------------- MODULE Models -------------------------------
(* Where models come from and who uses them: ModelTraining, DatasetCache and *)
(* ModelServing.  They share a specification and not a state: each behaviour *)
(* has work for one of them and leaves the other two where they start.       *)
EXTENDS ModelServing

ServingIdle == file = 0 /\ Init
-----------------------------------------------------------------------------
(* Training.                                                                *)

CONSTANTS RawRows, MaxRows, MinRows, Categories, PersonalCategories, BusinessHints,
          PersonalHints, MatchOf, Leaning, NoMatch, LabelOrder, Unit, Curves

VARIABLES stage, raw, records, side_of, part, sample, calibrator, profile, model
training_vars == <<stage, raw, records, side_of, part, sample, calibrator, profile, model>>

Training == INSTANCE ModelTraining WITH baseline <- profile

ASSUME TrainingsAssumption == Training!TrainingAssumption

TrainingIdle == raw = << >> /\ Training!Init
-----------------------------------------------------------------------------
(* The cache of datasets.                                                   *)

CONSTANTS Trainers, MaxTrainings, MaxDeaths, CanFail

VARIABLES manifest, content, tmp, cache, pc, handle, runs, got, deaths
cache_vars == <<manifest, content, tmp, cache, pc, handle, runs, got, deaths>>

Cache == INSTANCE DatasetCache WITH
  crashes <- deaths, MaxRuns <- MaxTrainings, MaxCrashes <- MaxDeaths

ASSUME CachesAssumption == Cache!CacheAssumption

CacheIdle == manifest = TRUE /\ cache = Cache!NoFile /\ Cache!Init
-----------------------------------------------------------------------------
VARIABLE component  \* the one that has work

ModelsInit ==
  \/ component = "serving" /\ TrainingIdle /\ CacheIdle /\ Init
  \/ component = "training" /\ ServingIdle /\ CacheIdle /\ Training!Init
  \/ component = "cache" /\ ServingIdle /\ TrainingIdle /\ Cache!Init

ModelsNext ==
  \/ component = "serving" /\ Next /\ UNCHANGED <<component, training_vars, cache_vars>>
  \/ component = "training" /\ Training!Next /\ UNCHANGED <<component, vars, cache_vars>>
  \/ component = "cache" /\ Cache!Next /\ UNCHANGED <<component, vars, training_vars>>

ModelsSpec ==
  ModelsInit /\ [][ModelsNext]_<<component, vars, training_vars, cache_vars>>

\* The type invariants of the three modules.
ModelsTypeOK == TypeOK /\ Training!TypeOK /\ Cache!TypeOK

\* Deduplication keeps every correction and its label.
CorrectionsReachTheRun == Training!CorrectionsReachTheRun

\* Training and audit compute the same probability from one artifact, and the
\* drift profile holds what the audit answers.
ServedAsTrained == Training!ServedAsTrained

\* No run trains on, or leaves in the cache, anything but the pinned dataset.
OnlyPinned == Cache!OnlyPinned
=============================================================================
