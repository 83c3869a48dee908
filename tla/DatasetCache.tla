---------------------------- MODULE DatasetCache ----------------------------
(***************************************************************************)
(* How a training run gets a pinned dataset: ensure_dataset_artifact of    *)
(* src/src/sentinelfi/services/dataset_manifest.py, called through         *)
(* _safe_read_cached_csv of ml_training_service.py, by trainers that share *)
(* one data directory (the server's training thread and                    *)
(* scripts/train_ml_classifier.py).                                        *)
(*                                                                         *)
(* A file's content is Pinned (what the manifest's digest and size say),   *)
(* Changed (what the address serves after its owner replaced it), or       *)
(* Partial.  A path names a file and an open handle keeps its file when    *)
(* the path goes on to name another, so files have identities of their     *)
(* own: one per download.  Names, addresses and the digest itself are      *)
(* abstracted; the manifest is as it should be or it is not.               *)
(***************************************************************************)
EXTENDS Integers, FiniteSets

CONSTANTS
    Trainers,      \* processes that train
    MaxRuns,       \* bound: training runs of each
    MaxCrashes,    \* bound: deaths of a trainer
    CanFail        \* whether a download may fail or be answered with a server error

\* What the constants have to be.
CacheAssumption ==
    MaxRuns \in Nat /\ MaxCrashes \in Nat /\ CanFail \in BOOLEAN

Contents == {"pinned", "changed", "partial"}
Files    == Trainers \X (1..MaxRuns)
Old      == << "old", 0 >>    \* a cache from before the manifest was renewed
NoFile   == << >>

VARIABLES
    manifest,   \* its entry for the dataset is sound
    content,    \* [Files and Old -> contents]
    tmp,        \* the file the path `<cache>.tmp` names, or NoFile
    cache,      \* the file the cache path names, or NoFile
    pc,         \* [Trainers -> where its run is]
    handle,     \* [Trainers -> the file it has open to write, or NoFile]
    runs,       \* [Trainers -> runs begun]
    got,        \* [Trainers -> what the run trains on: contents, "nothing", "refused"]
    crashes

vars  == << manifest, content, tmp, cache, pc, handle, runs, got, crashes >>
paths == << tmp, cache >>

Init ==
    /\ manifest \in BOOLEAN
    /\ content = [f \in Files \cup {Old} |-> IF f = Old THEN "changed" ELSE "partial"]
    /\ tmp     = NoFile
    /\ cache   \in {NoFile, Old}
    /\ pc      = [t \in Trainers |-> "idle"]
    /\ handle  = [t \in Trainers |-> NoFile]
    /\ runs    = [t \in Trainers |-> 0]
    /\ got     = [t \in Trainers |-> "none"]
    /\ crashes = 0

\* The run ends: with data, without the dataset, or not at all.
Ends(t, what) ==
    /\ got'    = [got EXCEPT ![t] = what]
    /\ pc'     = [pc EXCEPT ![t] = "idle"]
    /\ handle' = [handle EXCEPT ![t] = NoFile]

\* load_manifest and the checks of the entry: DatasetManifestError passes through
\* _safe_read_cached_csv and ends the run.
Begin(t) ==
    /\ pc[t] = "idle" /\ runs[t] < MaxRuns
    /\ runs' = [runs EXCEPT ![t] = @ + 1]
    /\ IF manifest
       THEN /\ pc' = [pc EXCEPT ![t] = "looking"]
            /\ UNCHANGED << handle, got >>
       ELSE Ends(t, "refused")
    /\ UNCHANGED << manifest, content, paths, crashes >>

\* A cached file is digested again on every run, and one that is not the pinned
\* one ends the run; nothing removes it.
CheckCache(t) ==
    /\ pc[t] = "looking" /\ cache # NoFile
    /\ IF content[cache] = "pinned"
       THEN /\ pc' = [pc EXCEPT ![t] = "reading"]
            /\ UNCHANGED << handle, got >>
       ELSE Ends(t, "refused")
    /\ UNCHANGED << manifest, content, paths, runs, crashes >>

\* requests.get fails, or its status does: _safe_read_cached_csv answers None and
\* the run goes on without the dataset.
DownloadFails(t) ==
    /\ CanFail
    /\ pc[t] = "looking" /\ cache = NoFile
    /\ Ends(t, "nothing")
    /\ UNCHANGED << manifest, content, paths, runs, crashes >>

\* VARIANT: the download goes straight to the cache path.
OpenCache(t) ==
    LET f == << t, runs[t] >>
    IN  /\ pc[t] = "looking" /\ cache = NoFile
        /\ cache'   = f
        /\ content' = [content EXCEPT ![f] = "partial"]
        /\ handle'  = [handle EXCEPT ![t] = f]
        /\ pc'      = [pc EXCEPT ![t] = "writing"]
        /\ UNCHANGED << manifest, tmp, runs, got, crashes >>

\* write_bytes opens the path: the file it names is emptied, or a new one made.
Open(t) ==
    LET f == IF tmp = NoFile THEN << t, runs[t] >> ELSE tmp
    IN  /\ pc[t] = "looking" /\ cache = NoFile
        /\ tmp'     = f
        /\ content' = [content EXCEPT ![f] = "partial"]
        /\ handle'  = [handle EXCEPT ![t] = f]
        /\ pc'      = [pc EXCEPT ![t] = "writing"]
        /\ UNCHANGED << manifest, cache, runs, got, crashes >>

WriteTmp(t) ==
    /\ pc[t] = "writing"
    /\ \E c \in {"pinned", "changed"} : content' = [content EXCEPT ![handle[t]] = c]
    /\ pc' = [pc EXCEPT ![t] = "verifying"]
    /\ UNCHANGED << manifest, paths, handle, runs, got, crashes >>

\* compute_sha256 opens the path anew: when another run has taken the file away
\* that raises FileNotFoundError, which is no DatasetManifestError.  Every way out
\* unlinks the path, whatever file it names.
Verify(t) ==
    /\ pc[t] = "verifying"
    /\ \/ /\ tmp = NoFile
          /\ Ends(t, "nothing")
          /\ UNCHANGED tmp
       \/ /\ tmp # NoFile /\ content[tmp] = "pinned"
          /\ pc' = [pc EXCEPT ![t] = "replacing"]
          /\ UNCHANGED << tmp, handle, got >>
       \/ /\ tmp # NoFile /\ content[tmp] # "pinned"
          /\ Ends(t, "refused")
          /\ tmp' = NoFile
    /\ UNCHANGED << manifest, content, cache, runs, crashes >>

Replace(t) ==
    /\ pc[t] = "replacing"
    /\ IF tmp = NoFile
       THEN Ends(t, "nothing") /\ UNCHANGED paths
       ELSE /\ cache' = tmp
            /\ tmp'   = NoFile
            /\ pc'    = [pc EXCEPT ![t] = "reading"]
            /\ UNCHANGED << handle, got >>
    /\ UNCHANGED << manifest, content, runs, crashes >>

\* pandas reads what the cache path names by now.
Read(t) ==
    /\ pc[t] = "reading"
    /\ Ends(t, content[cache])
    /\ UNCHANGED << manifest, content, paths, runs, crashes >>

\* A trainer dies; its files stay as they are.
Crash(t) ==
    /\ pc[t] # "idle" /\ crashes < MaxCrashes
    /\ crashes' = crashes + 1
    /\ Ends(t, "none")
    /\ UNCHANGED << manifest, content, paths, runs >>

Step(t) == \/ CheckCache(t) \/ DownloadFails(t) \/ Open(t) \/ WriteTmp(t)
           \/ Verify(t) \/ Replace(t) \/ Read(t)

Next == \E t \in Trainers : Begin(t) \/ Step(t) \/ Crash(t)

Spec == Init /\ [][Next]_vars

----------------------------------------------------------------------------
(* Properties *)

\* Type invariant.
TypeOK ==
    /\ content \in [Files \cup {Old} -> Contents]
    /\ tmp \in Files \cup {NoFile} /\ cache \in Files \cup {Old, NoFile}
    /\ \A t \in Trainers :
          /\ pc[t] \in {"idle", "looking", "writing", "verifying", "replacing", "reading"}
          /\ handle[t] \in Files \cup {NoFile}
          /\ pc[t] = "reading" => cache # NoFile
          /\ got[t] \in Contents \cup {"none", "nothing", "refused"}

\* What a run puts into the cache is the pinned dataset, through crashes in any
\* place, so that nobody has to delete a half-written cache by hand.
CachedIsPinned == cache \in Files => content[cache] = "pinned"

\* A run never trains on anything but the pinned dataset: digest and size are
\* enforced between the download and the reading of it.
ReadIsPinned == \A t \in Trainers : got[t] \notin {"changed", "partial"}

\* Runs are reproducible: one that completes has had its pinned dataset.
TrainedOnPinnedData ==
    \A t \in Trainers : got[t] \in {"none", "refused", "pinned"}

\* From the address to the training, nothing but the pinned dataset.
OnlyPinned == CachedIsPinned /\ ReadIsPinned
=============================================================================
