------------------------ MODULE RunPipelineProperties ------------------------
(***************************************************************************)
(* What a reader of outputs/runs may rely on.                              *)
(***************************************************************************)
EXTENDS RunPipeline

Ended(j) == status[j] \in {"ok", "failed", "crashed"}

(* The jobs are never in flight together.                                  *)
Apart(j, k) == j \in The(k).after \/ k \in The(j).after

(* No job shares the directory of j while j runs.                          *)
Undisturbed(j) == \A k \in Job \ {j} : Dir(k) = Dir(j) => Apart(j, k)

(* What is on disk under j's directory is what j, and nobody since, wrote. *)
LastInItsDirectory(j) ==
  \A k \in Job \ {j} : Dir(k) = Dir(j) => k \in The(j).after \/ status[k] = "idle"

(* Every variable has its type: (metadata_writer.py, run_layout.py) what   *)
(* is recorded are artifacts with their directory, what is on disk was     *)
(* written by some job.                                                    *)
TypeOK ==
  /\ plan \in PlanType
  /\ status \in [Job -> {"idle", "running", "ok", "failed", "crashed"}]
  /\ open \subseteq Job
  /\ loaded \in [Job -> [simulation : Job \cup {None}, analysis : Job \cup {None}]]
  /\ \A j \in Job : recorded[j] \subseteq Artifact
  /\ \A d \in RunId : \A f \in File : files[d][f] # None =>
       /\ files[d][f].by \in Job
       /\ files[d][f].names \subseteq Artifact
       /\ files[d][f].of \subseteq Job
  /\ made \subseteq RunId
  /\ latest \in RunId \cup {None}

(* The artifact comes before the reference to it: at every moment, also    *)
(* when a job was killed, every artifact that a manifest or index on disk  *)
(* names exists, and is complete unless another job has taken over the     *)
(* file or it is the manifest, which the job itself writes a second time   *)
(* (write_run_manifest_bundle and write_artifact_index come last).         *)
NothingNamedIsMissing ==
  \A d \in RunId, m \in MetadataFile :
    (files[d][m] # None /\ files[d][m].whole) =>
      \A a \in files[d][m].names : a[1] # None =>
        LET named == files[a[1]][a[2]]
        IN  /\ named # None
            /\ \/ named.whole
               \/ named.by # files[d][m].by
               \/ a[2] \in {"run_manifest", "run_metadata"}

(* A job that ended well with metadata on, and was not disturbed, leaves   *)
(* a manifest, a copy of it and an index that are its own, that name       *)
(* everything it wrote before them, and nothing of an earlier job in the   *)
(* directory but, at most, a left-over expected_wcrt_comparison.csv.       *)
MetadataTellsTheRun ==
  \A j \in Job :
    (/\ status[j] = "ok" /\ The(j).output.json /\ The(j).output.metadata
     /\ Undisturbed(j) /\ LastInItsDirectory(j)) =>
      LET disk == files[Dir(j)]
          written == {f \in File : disk[f] # None /\ disk[f].by = j} \ {"trace_csv"}
          inputs == {<<InputDir(j, side), ResultOf(side)>> :
                       side \in {"simulation", "analysis"}}
          names == disk["run_manifest"].names
      IN  /\ {"run_manifest", "run_metadata", "artifact_index"} \subseteq written
          /\ disk["run_manifest"] = disk["run_metadata"]
          /\ Own(j, written) \subseteq names
          /\ disk["artifact_index"].names = names \ Own(j, {"artifact_index"})
          /\ names \subseteq inputs \cup
               Own(j, written \cup {"expected_wcrt_comparison"})

(* A comparison that was written compares the results of its own run when  *)
(* run-case writes JSON, and otherwise results of one directory when it    *)
(* was given one and no job moved the link or the results in between:      *)
(* execute_compare reads both back from disk (pipeline_run_case.py:201).   *)
ComparisonIsOfOneRun ==
  \A d \in RunId : \A f \in {"comparison_result", "comparison_csv"} :
    (files[d][f] # None /\ files[d][f].whole) =>
      LET j == files[d][f].by
      IN  /\ The(j).kind = "run-case" /\ The(j).output.json /\ Undisturbed(j) =>
               files[d][f].of = {j}
          /\ /\ The(j).kind = "compare"
             /\ The(j).inputs.simulation = The(j).inputs.analysis
             /\ \A k \in Job \ {j} : Apart(j, k)
             => Cardinality({Dir(k) : k \in files[d][f].of}) = 1

(* outputs/runs/latest leads to a directory that exists; after a run that  *)
(* ended well it leads to that run until another one starts; and once some *)
(* run has left it, it is absent only while a job is about to put it back, *)
(* or because one died just there (run_layout.py:83-91).                   *)
LatestLeadsToTheLastRun ==
  /\ latest \in made \cup {None}
  /\ \A j \in Job :
       status[j] = "ok" /\ The(j).output.latest =>
         /\ (\A k \in Job \ {j} : k \in The(j).after \/ status[k] = "idle") =>
              latest = Dir(j)
         /\ latest = None =>
              \E k \in Job : /\ status[k] \in {"running", "crashed"}
                             /\ todo[k] # <<>> /\ Head(todo[k]) = "relink"

(* Nothing stands in the way of job j: the case is ready for what the      *)
(* command needs, the engines do not raise, run-case writes the JSON it    *)
(* reads back, nobody shares its directory, nobody races it for the link.  *)
Sound(j) ==
  /\ The(j).kind # "compare"
  /\ RequiredStages(j) \subseteq Facts(j).ready
  /\ Facts(j).raises = {}
  /\ The(j).kind = "run-case" => The(j).output.json
  /\ Undisturbed(j)
  /\ \A k \in Job \ {j} :
       The(j).output.latest /\ The(k).output.latest => Apart(j, k)

(* Every job of a sound case ends well unless it is killed: no order of    *)
(* steps of the others makes it fail or wait (FairSpec: a process that is  *)
(* neither killed nor finished takes its next step).                       *)
SoundJobsEndWell ==
  \A j \in Job : <>(Ended(j) /\ (Sound(j) => status[j] \in {"ok", "crashed"}))

(* "Run preparation, analysis, simulation, and comparison in one run       *)
(* directory" (pipeline_run_case.py:155): a run-case that ends well has    *)
(* compared the results it computed.                                       *)
RunCaseComparesItsOwnResults ==
  \A j \in Job :
    The(j).kind = "run-case" /\ status[j] = "ok" /\ Undisturbed(j) =>
      loaded[j] = [simulation |-> j, analysis |-> j]
=============================================================================
