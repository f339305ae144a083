---------------------------- MODULE ModelTraining ----------------------------
(***************************************************************************)
(* How models come into being and into use.  A trainer process (production *)
(* on a verified dataset, or synthetic) writes its artifacts one after the *)
(* other, without a temporary file or a rename; a service process loads    *)
(* whatever it finds, at any moment, and falls back branch by branch.      *)
(* Either may stop at any time.  One trainer runs at a time, and files are *)
(* replaced by hand only between runs.                                     *)
(***************************************************************************)
EXTENDS DatasetSplit

CONSTANTS
    Contracts,     \* manifest and file: how to split, rows (none if unreadable), columns
    LabColumns,    \* the columns of extract_features, used by synthetic training
    Width,         \* number of columns
    DefaultWidth,  \* 43: input_dim when lstm.json cannot be read
    Trained,       \* branches in the order train_production takes them
    TrainedInLab,  \* and train, which makes the synthetic models
    PackageSets,   \* what may be installed
    MaxRuns        \* bound on training runs

VARIABLES
    data,      \* the dataset file
    disk,      \* the artifacts: which run wrote them, and whether to the end
    runs,      \* history of training runs
    trainer,   \* the run in progress
    service,   \* the loading process
    adapters,  \* the models it has in memory
    manager    \* the MLModelManager of its detection engine

vars == <<data, disk, runs, trainer, service, adapters, manager>>

Names == {"xgboost", "lstm", "fft", "kitsune", "isolation_forest"}
Branches == {Trained[i] : i \in DOMAIN Trained}

ASSUME TrainingAssumption ==
    /\ Trained \in Seq(Names) /\ "xgboost" \in Branches
    /\ \A i, j \in DOMAIN Trained : Trained[i] = Trained[j] => i = j
    /\ TrainedInLab \in Seq(Branches) /\ TrainedInLab # <<>>
    /\ MaxRuns \in Nat

ASSUME ContractAssumption == \A c \in Contracts : c.rows \in Seq(Rows)

Report == "production_training_report.json"
Provenance == "provenance.json"
Forest == {"isolation_forest.joblib", "isolation_forest.json"}

\* What the training of each branch writes, in this order.
XgboostFiles == <<"xgboost.json", "xgboost_artifact.json">>
LstmFiles == <<"lstm.pt", "lstm.json">>
ForestFiles == <<"isolation_forest.joblib", "isolation_forest.json">>
CalibratedFiles(b) == IF b = "fft" THEN <<"fft.json">> ELSE <<"kitsune.json">>

FilesOf(b) ==
    CASE b = "xgboost"          -> XgboostFiles
      [] b = "lstm"             -> LstmFiles
      [] b = "isolation_forest" -> ForestFiles
      [] OTHER                  -> CalibratedFiles(b)

\* The synthetic trainings of these two are other functions with the same files.
XgboostInLab == <<"xgboost.json", "xgboost_artifact.json">>
LstmInLab == <<"lstm.pt", "lstm.json">>
LabFilesOf(b) ==
    CASE b = "xgboost" -> XgboostInLab
      [] b = "lstm"    -> LstmInLab
      [] OTHER         -> FilesOf(b)

\* FFT and Kitsune need numpy only; the other branches are skipped without
\* their library ("not_trained", "skipped", or a swallowed ImportError).
Installed(b, packages) == b \in packages \cup {"fft", "kitsune"}

ArtifactsOf(packages) ==
    UNION {{FilesOf(b)[i] : i \in DOMAIN FilesOf(b)} : b \in {c \in Branches : Installed(c, packages)}}
Files == ArtifactsOf(Branches) \cup {Provenance, Report}

Absent == [run |-> 0, whole |-> FALSE]
\* The trainer writes file number file of branch number branch.
Idle == [pc |-> "idle", contract |-> <<>>, branch |-> 1, file |-> 1, open |-> FALSE]
Fallback == [backend |-> "deterministic", run |-> 0, named |-> 0]
Native(r, n) == [backend |-> "native", run |-> r, named |-> n]
Artifact(r) == [backend |-> "artifact", run |-> r, named |-> r]
NoManager == [ready |-> FALSE, booster |-> 0]
\* next is the place in enabled_adapters.
Down == [pc |-> "down", next |-> 0, packages |-> {}, quiet |-> TRUE, named |-> 0]

ColumnsOf(r) == runs[r].columns
Last == Len(runs)

Init ==
    /\ data = "absent"
    /\ disk = [f \in Files |-> Absent]
    /\ runs = <<>>
    /\ trainer = Idle
    /\ service = Down
    /\ adapters = [b \in Branches |-> Fallback]
    /\ manager = NoManager

-----------------------------------------------------------------------------
(* Gates of a production run.                                              *)

\* A run is done, or it stops: refused, failed or killed.
Ends(how) ==
    /\ runs' = [runs EXCEPT ![Last].end = how]
    /\ trainer' = Idle

Begin(kind, packages, columns) ==
    /\ trainer = Idle
    /\ Last < MaxRuns
    /\ runs' = Append(runs, [kind |-> kind, packages |-> packages, columns |-> columns,
                             learnt |-> "lab", end |-> "running"])
    /\ UNCHANGED <<data, disk, service, adapters, manager>>

StartProduction(packages) ==
    /\ Begin("production", packages, LabColumns)
    /\ trainer' = [Idle EXCEPT !.pc = "obtain"]

\* It reads no dataset.  Bound: it is explored with none in place.
StartSynthetic(packages) ==
    /\ data = "absent"
    /\ Begin("synthetic", packages, LabColumns)
    /\ trainer' = [Idle EXCEPT !.pc = "write"]

\* DatasetContract.from_file rejects the manifest, or there is no file to read
\* and no --download.
ObtainRefused ==
    /\ trainer.pc = "obtain"
    /\ Ends("stopped")
    /\ UNCHANGED <<data, disk, service, adapters, manager>>

\* With --download urlretrieve creates the file and fills it.
DownloadOpens ==
    /\ trainer.pc = "obtain" /\ data = "absent"
    /\ data' = "partial"
    /\ trainer' = [trainer EXCEPT !.pc = "download"]
    /\ UNCHANGED <<disk, runs, service, adapters, manager>>

DownloadEnds ==
    /\ trainer.pc = "download"
    /\ data' \in {"right", "wrong"}
    /\ trainer' = [trainer EXCEPT !.pc = "hash"]
    /\ UNCHANGED <<disk, runs, service, adapters, manager>>

\* The partial file stays, and a later run finds it.
DownloadFails ==
    /\ trainer.pc = "download"
    /\ Ends("stopped")
    /\ UNCHANGED <<data, disk, service, adapters, manager>>

\* Mutant of Obtained: only what was just downloaded is verified.
ObtainedBefore ==
    /\ trainer.pc = "obtain" /\ data # "absent"
    /\ trainer' = [trainer EXCEPT !.pc = "read"]
    /\ UNCHANGED <<data, disk, runs, service, adapters, manager>>

Obtained ==
    /\ trainer.pc = "obtain" /\ data # "absent"
    /\ trainer' = [trainer EXCEPT !.pc = "hash"]
    /\ UNCHANGED <<data, disk, runs, service, adapters, manager>>

HashMatches ==
    /\ trainer.pc = "hash"
    /\ data = "right"
    /\ trainer' = [trainer EXCEPT !.pc = "read"]
    /\ UNCHANGED <<data, disk, runs, service, adapters, manager>>

HashDiffers ==
    /\ trainer.pc = "hash"
    /\ data # "right"
    /\ Ends("stopped")
    /\ UNCHANGED <<data, disk, service, adapters, manager>>

\* Reading and splitting happen in memory.  What is in the file shows here.
Terminates(c) == c.by = "none" => Interleaves(c.rows)

ReadAndSplit(c) ==
    /\ trainer.pc = "read"
    /\ Usable(c.rows) /\ Terminates(c)
    /\ trainer' = [trainer EXCEPT !.pc = "train", !.contract = c]
    /\ runs' = [runs EXCEPT ![Last].learnt = data, ![Last].columns = c.columns]
    /\ UNCHANGED <<data, disk, service, adapters, manager>>

\* The interleaving never ends; only a signal ends the process (Crash).
ReadAndLoop(c) ==
    /\ trainer.pc = "read"
    /\ Usable(c.rows) /\ ~Terminates(c)
    /\ trainer' = [trainer EXCEPT !.pc = "looping"]
    /\ UNCHANGED <<data, disk, runs, service, adapters, manager>>

ReadRefused(c) ==
    /\ trainer.pc = "read"
    /\ ~Usable(c.rows)
    /\ Ends("stopped")
    /\ UNCHANGED <<data, disk, service, adapters, manager>>

Train ==
    /\ trainer.pc = "train"
    /\ trainer' = [Idle EXCEPT !.pc = "write"]
    /\ UNCHANGED <<data, disk, runs, service, adapters, manager>>

-----------------------------------------------------------------------------
(* Writing: the artifacts of each branch, provenance.json and the report,   *)
(* which for synthetic training goes to another directory.  The file is     *)
(* truncated when it is opened and complete when it is closed; nothing is   *)
(* renamed into place.                                                      *)

Production == runs[Last].kind = "production"
Order == IF Production THEN Trained ELSE TrainedInLab
Branch == Order[trainer.branch]
BranchFiles == IF Production THEN FilesOf(Branch) ELSE LabFilesOf(Branch)

\* A file is written now or next.
Writing ==
    \/ trainer.pc = "write" /\ Installed(Branch, runs[Last].packages)
    \/ trainer.pc \in {"provenance", "report"}

File ==
    CASE trainer.pc = "provenance" -> Provenance
      [] trainer.pc = "report"     -> Report
      [] OTHER                     -> BranchFiles[trainer.file]

NextBranch ==
    IF trainer.branch < Len(Order)
    THEN [trainer EXCEPT !.branch = @ + 1, !.file = 1, !.open = FALSE]
    ELSE [trainer EXCEPT !.pc = "provenance", !.open = FALSE]

\* What follows when File is given up, with its branch.
NextPart ==
    CASE trainer.pc = "write"                    -> NextBranch
      [] trainer.pc = "provenance" /\ Production -> [trainer EXCEPT !.pc = "report", !.open = FALSE]
      [] OTHER                                   -> [trainer EXCEPT !.pc = "written", !.open = FALSE]

\* The trainer may have a file to write before it ends.
Active == trainer.pc \in {"write", "provenance", "report"}

\* Models loaded before no longer are what the disk holds.
Disturbed == [service EXCEPT !.quiet = service.pc = "down"]

\* provenance.json says nothing of the run that wrote it.
Written(f, whole) == [disk EXCEPT ![f] = [run |-> IF f = Provenance THEN 0 ELSE Last, whole |-> whole]]

\* A branch without its library is left out.
SkipBranch ==
    /\ trainer.pc = "write" /\ ~Installed(Branch, runs[Last].packages)
    /\ trainer' = NextBranch
    /\ UNCHANGED <<data, disk, runs, service, adapters, manager>>

\* Mutant of OpenFile: an artifact that is there is not trained again.
OpenMissingFile ==
    /\ Writing /\ ~trainer.open
    /\ IF disk[File].whole
       THEN /\ trainer' = NextPart
            /\ UNCHANGED disk
       ELSE /\ disk' = Written(File, FALSE)
            /\ trainer' = [trainer EXCEPT !.open = TRUE]
    /\ service' = Disturbed
    /\ UNCHANGED <<data, runs, adapters, manager>>

OpenFile ==
    /\ Writing /\ ~trainer.open
    /\ disk' = Written(File, FALSE)
    /\ trainer' = [trainer EXCEPT !.open = TRUE]
    /\ service' = Disturbed
    /\ UNCHANGED <<data, runs, adapters, manager>>

CloseFile ==
    /\ Writing /\ trainer.open
    /\ disk' = Written(File, TRUE)
    /\ trainer' = IF trainer.pc = "write" /\ trainer.file < Len(BranchFiles)
                  THEN [trainer EXCEPT !.file = @ + 1, !.open = FALSE] ELSE NextPart
    /\ UNCHANGED <<data, runs, service, adapters, manager>>

\* Mutant of Swallowed: an error costs a branch, never the run.
SwallowedAlways == File # Report

\* Errors with File that are passed over: save_provenance and its callers do so,
\* and train() for whatever the isolation forest raises.
Swallowed == File = Provenance \/ (~Production /\ File \in Forest)

\* Mutant of WriteSwallowed: the file it failed on is not given up.
WriteSwallowedOpen ==
    /\ Writing /\ Swallowed
    /\ trainer' = [NextPart EXCEPT !.open = trainer.open]
    /\ UNCHANGED <<data, disk, runs, service, adapters, manager>>

WriteSwallowed ==
    /\ Writing /\ Swallowed
    /\ trainer' = NextPart
    /\ UNCHANGED <<data, disk, runs, service, adapters, manager>>

WriteRaises ==
    /\ Writing /\ ~Swallowed
    /\ Ends("stopped")
    /\ UNCHANGED <<data, disk, service, adapters, manager>>

Finished ==
    /\ trainer.pc = "written"
    /\ Ends("done")
    /\ UNCHANGED <<data, disk, service, adapters, manager>>

\* The process ends anywhere: killed, out of memory, or by an exception of a library.
Crash ==
    /\ trainer # Idle
    /\ Ends("stopped")
    /\ UNCHANGED <<data, disk, service, adapters, manager>>

\* Someone puts another file in the place of the dataset, or removes it.
PlaceData ==
    /\ trainer = Idle /\ Last < MaxRuns
    /\ data' \in {"absent", "right", "wrong"} \ {data}
    /\ UNCHANGED <<disk, runs, trainer, service, adapters, manager>>

-----------------------------------------------------------------------------
(* The service: save_provenance when it is started by StartupManager, then *)
(* enabled_adapters, one branch after the other, from the paths of         *)
(* configs/default.yaml, then MLModelManager.                              *)

\* Bound: no service before the last run (an earlier run may be refused at once,
\* so a service that meets a single run is among these).
ServiceStarts(packages) ==
    /\ service.pc = "down" /\ Last = MaxRuns
    /\ service' = [Down EXCEPT !.pc = "load", !.next = 1, !.packages = packages,
                               !.quiet = ~Active]
    /\ UNCHANGED <<data, runs, trainer, adapters, manager>>

\* The API and the CLI build the pipeline without StartupManager.
StartsBare(packages) == ServiceStarts(packages) /\ UNCHANGED disk

\* check_models tests adapters that load nothing, so all are ready; what was
\* recorded before is read, and dropped if it is unreadable.
StartsChecked(packages) ==
    /\ ServiceStarts(packages)
    /\ disk' = [disk EXCEPT ![Provenance] = [run |-> 0, whole |-> TRUE]]

\* A model file is loaded by its library; _read_artifact accepts a complete
\* JSON artifact, which the model files of xgboost and the forest are not.
FromModel(f) ==
    IF disk[f].whole THEN Native(disk[f].run, disk[f].run) ELSE Fallback
FromArtifact(f) == IF disk[f].whole THEN Artifact(disk[f].run) ELSE Fallback

XgboostLoaded ==
    IF Installed("xgboost", service.packages) THEN FromModel("xgboost.json") ELSE Fallback
ForestLoaded ==
    IF Installed("isolation_forest", service.packages)
    THEN FromModel("isolation_forest.joblib") ELSE Fallback
FftLoaded == FromArtifact("fft.json")
KitsuneLoaded == FromArtifact("kitsune.json")

Loaded(b) ==
    CASE b = "xgboost"          -> XgboostLoaded
      [] b = "isolation_forest" -> ForestLoaded
      [] b = "fft"              -> FftLoaded
      [] OTHER                  -> KitsuneLoaded

Turn(b) ==
    /\ service.pc = "load"
    /\ service.next \in DOMAIN Trained /\ Trained[service.next] = b

Advanced == [service EXCEPT !.pc = "load", !.next = @ + 1, !.named = 0]

Load(b) ==
    /\ Turn(b) /\ b # "lstm"
    /\ adapters' = [adapters EXCEPT ![b] = Loaded(b)]
    /\ service' = Advanced
    /\ UNCHANGED <<data, disk, runs, trainer, manager>>

\* lstm.pt is there: the names of the columns come from lstm.json, read first.
LoadNames ==
    /\ Turn("lstm")
    /\ Installed("lstm", service.packages) /\ disk["lstm.pt"] # Absent
    /\ service' = [service EXCEPT !.pc = "weights",
                       !.named = IF disk["lstm.json"].whole THEN disk["lstm.json"].run ELSE 0]
    /\ UNCHANGED <<data, disk, runs, trainer, adapters, manager>>

\* The net is built as wide as the names say; other weights do not fit.
Fits(r, named) ==
    Width[ColumnsOf(r)] = IF named = 0 THEN DefaultWidth ELSE Width[ColumnsOf(named)]

LoadWeights ==
    /\ service.pc = "weights"
    /\ adapters' = [adapters EXCEPT !["lstm"] =
           IF disk["lstm.pt"].whole /\ Fits(disk["lstm.pt"].run, service.named)
           THEN Native(disk["lstm.pt"].run, service.named)
           ELSE FromArtifact("lstm.json")]
    /\ service' = Advanced
    /\ UNCHANGED <<data, disk, runs, trainer, manager>>

LoadWithoutNet ==
    /\ Turn("lstm")
    /\ ~Installed("lstm", service.packages) \/ disk["lstm.pt"] = Absent
    /\ adapters' = [adapters EXCEPT !["lstm"] = FromArtifact("lstm.json")]
    /\ service' = Advanced
    /\ UNCHANGED <<data, disk, runs, trainer, manager>>

\* Ready means that provenance.json could be read, whatever was trained.
LoadManager ==
    /\ service.pc = "load" /\ service.next = Len(Trained) + 1
    /\ manager' = [ready   |-> disk[Provenance].whole,
                   booster |-> IF disk[Provenance].whole THEN XgboostLoaded.run ELSE 0]
    /\ service' = [service EXCEPT !.pc = "up"]
    /\ UNCHANGED <<data, disk, runs, trainer, adapters>>

ServiceStops ==
    /\ service.pc # "down"
    /\ service' = Down
    /\ adapters' = [b \in Branches |-> Fallback]
    /\ manager' = NoManager
    /\ UNCHANGED <<data, disk, runs, trainer>>

-----------------------------------------------------------------------------
Gates ==
    \/ ObtainRefused \/ DownloadOpens \/ DownloadEnds \/ DownloadFails \/ Obtained
    \/ HashMatches \/ HashDiffers
    \/ \E c \in Contracts : ReadAndSplit(c) \/ ReadAndLoop(c) \/ ReadRefused(c)
    \/ Train

Next ==
    \/ \E p \in PackageSets :
           \/ StartProduction(p)
           \/ StartSynthetic(p)
           \/ StartsBare(p) \/ StartsChecked(p)
    \/ Gates
    \/ SkipBranch \/ OpenFile \/ CloseFile \/ WriteSwallowed \/ WriteRaises \/ Finished
    \/ Crash \/ PlaceData
    \/ LoadNames \/ LoadWeights \/ LoadWithoutNet \/ LoadManager
    \/ \E b \in Branches : Load(b)
    \/ ServiceStops

Spec == Init /\ [][Next]_vars

-----------------------------------------------------------------------------
Runs == [kind : {"production", "synthetic"}, packages : PackageSets,
         columns : {LabColumns} \cup {c.columns : c \in Contracts},
         learnt : {"lab", "right", "wrong"}, end : {"running", "done", "stopped"}]

TypeOK ==
    /\ data \in {"absent", "partial", "right", "wrong"}
    /\ runs \in Seq(Runs) /\ Last <= MaxRuns
    /\ \A r \in 1..Last : runs[r].end = "running" => r = Last /\ trainer # Idle
    /\ disk \in [Files -> [run : 0..Last, whole : BOOLEAN]]
    /\ trainer \in [pc : {"idle", "obtain", "download", "hash", "read", "looping", "train",
                          "write", "provenance", "report", "written"},
                    contract : Contracts \cup {<<>>}, branch : Nat, file : Nat, open : BOOLEAN]
    /\ trainer.pc = "write" => trainer.branch \in DOMAIN Order /\ trainer.file \in DOMAIN BranchFiles
    /\ trainer.open => Writing /\ (File = Provenance \/ disk[File] = [run |-> Last, whole |-> FALSE])
    /\ service \in [pc : {"down", "load", "weights", "up"}, next : 0..(Len(Trained) + 1),
                    packages : PackageSets \cup {{}}, quiet : BOOLEAN, named : 0..Last]
    /\ adapters \in [Branches -> [backend : {"deterministic", "native", "artifact"},
                                  run : 0..Last, named : 0..Last]]
    /\ manager \in [ready : BOOLEAN, booster : 0..Last]

\* What a split has to be; a value of the constants, which TLC computes once.
SoundSplit ==
    [c \in Contracts |-> Usable(c.rows) /\ Terminates(c) =>
        LET rows     == c.rows
            splits   == SplitRows(rows, c.by)
            In(p)    == {splits[p][i] : i \in DOMAIN splits[p]}
            Groups(p) == {rows[i].group : i \in In(p)}
            parts    == {"train", "calibration", "test"}
            before   == {<<"train", "calibration">>, <<"calibration", "test">>, <<"train", "test">>}
            share(p) == Cardinality(In(p)) * Cardinality(OfLabel(rows, 1))
            got(p)   == Len(rows) * Cardinality(In(p) \cap OfLabel(rows, 1))
        IN  /\ UNION {In(p) : p \in parts} = DOMAIN rows
            /\ Len(splits.train) + Len(splits.calibration) + Len(splits.test) = Len(rows)
            /\ \A p \in parts : In(p) # {}
            /\ CASE c.by = "timestamp" ->
                        \A pq \in before : \A i \in In(pq[1]), j \in In(pq[2]) : rows[i].time <= rows[j].time
                 [] c.by = "group" ->
                        \A pq \in before : Cardinality(Groups(pq[1]) \cap Groups(pq[2])) <= 1
                 [] OTHER ->
                        \A p \in parts : got(p) - share(p) \in (-2 * Len(rows))..(2 * Len(rows))]

\* Every row is in exactly one split.  No split is without its share of both
\* classes (stratified, off by two rows at most), none of the past is tested
\* with rows learnt from the future (temporal, by the text of the timestamps),
\* and of all groups at most one is on both sides of a cut: what remains of
\* GroupsIntact.
SplitSound == trainer.pc = "train" => SoundSplit[trainer.contract]

\* The rows of a group stay together: no model is tested on rows of a group
\* it has learnt from.  So says the comment in split_rows; its cuts are made by
\* the number of rows alone.
GroupsIntact ==
    trainer.pc = "train" /\ trainer.contract.by = "group" =>
        LET rows   == trainer.contract.rows
            splits == SplitRows(rows, "group")
            In(p)  == {splits[p][i] : i \in DOMAIN splits[p]}
        IN  \A p, q \in {"train", "calibration", "test"} : \A i \in In(p), j \in In(q) :
               rows[i].group = rows[j].group => p = q

\* Nothing on the disk was learnt by a production run from a file whose digest
\* is not the manifest's, in particular not from what is left of a download that
\* a crash or an error cut off.
OnlyVerifiedData ==
    /\ \A f \in Files : LET r == disk[f].run IN
           r > 0 /\ runs[r].kind = "production" => runs[r].learnt = "right"
    /\ trainer.pc \in {"looping", "train"} => data = "right"

\* A complete production report is never older than the models it reports:
\* wherever the run that wrote it or a later one stopped, each model of the
\* report is on the disk in full, unless a later run has begun to replace it.
ReportBehindArtifacts ==
    LET r == disk[Report].run IN
    disk[Report].whole =>
        \A f \in ArtifactsOf(runs[r].packages) :
            disk[f].run >= r /\ (disk[f].run = r => disk[f].whole)

\* A service that started after the last production run was done serves every
\* model of its report from that run, with its library where it is installed,
\* and feeds the LSTM the columns it was trained on - whatever earlier runs left
\* behind, crashed or not.  Both copies of the xgboost model are the same.
ReportedModelsServed ==
    /\ service.pc = "up" /\ service.quiet
    /\ Last > 0 /\ runs[Last].kind = "production" /\ runs[Last].end = "done"
    => /\ \A b \in Branches : Installed(b, runs[Last].packages) =>
           LET a      == adapters[b]
               native == Installed(b, service.packages)
           IN  IF b \in {"fft", "kitsune"} THEN a = Artifact(Last)
               ELSE IF native
               THEN a.backend = "native" /\ a.run = Last /\ ColumnsOf(a.named) = ColumnsOf(Last)
               ELSE a \in {Artifact(Last), Fallback}
       /\ manager.ready => manager.booster = adapters["xgboost"].run
=============================================================================
