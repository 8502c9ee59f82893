----------------------------- MODULE RunPipeline -----------------------------
(***************************************************************************)
(* The four commands that write into outputs/runs/: analyze, simulate,     *)
(* compare and run-case.  A job is one command in one process; jobs may    *)
(* follow one another or overlap, share a run directory, be killed, and    *)
(* all share the link outputs/runs/latest.  A file is opened (which        *)
(* empties it) and later complete, so a reader or a crash can catch it in  *)
(* between.  What a file says is abstracted to the job that wrote it, the  *)
(* artifacts it names and the results it compares.                         *)
(***************************************************************************)
EXTENDS Naturals, Sequences, FiniteSets

CONSTANTS
  Job,        \* the commands
  RunId,      \* the directories under outputs/runs
  Case,       \* the ids of the cases, strings (they name the normalized export)
  None,       \* no file, no link; as an input path: outputs/runs/latest
  Plans       \* what is run: the jobs and the facts of the cases

VARIABLES
  plan,       \* the member of Plans that is run
  status,     \* of each job: idle, running, ok, failed or crashed
  todo,       \* the steps each job has still to take
  open,       \* the jobs with a file opened and not complete
  loaded,     \* the jobs whose results each job has read back
  recorded,   \* the artifact records each job has collected
  files,      \* the content of each file of each run directory
  made,       \* the run directories that exist
  latest      \* where outputs/runs/latest points

vars == <<plan, status, todo, open, loaded, recorded, files, made, latest>>
diskVars == <<files, made, latest>>

-----------------------------------------------------------------------------
Kind == {"analyze", "simulate", "compare", "run-case"}
Stage == {"baseline", "simulation", "analysis"}
Output == [json : BOOLEAN, csv : BOOLEAN, metadata : BOOLEAN,
           trace : BOOLEAN, latest : BOOLEAN]

(* strict: strict_validation of the analysis configuration; inputs: the    *)
(* directories compare reads from; after: the jobs the user waits for.     *)
JobType ==
  [kind : Kind, dir : RunId, case : Case, strict : BOOLEAN, output : Output,
   inputs : [simulation : RunId \cup {None}, analysis : RunId \cup {None}],
   after : SUBSET Job]

(* ready: the stages the case passes; raises: the engines that raise on    *)
(* it; expected: it comes with expected worst cases.                       *)
CaseFacts == [ready : SUBSET Stage, raises : SUBSET {"analysis", "simulation"},
              expected : BOOLEAN]

(* crashes: the bound on the number of jobs that are killed.               *)
PlanType == [jobs : [Job -> JobType], cases : [Case -> CaseFacts], crashes : Nat]

(* The CSV files of one result are written in a row and stand for one.     *)
ResultFile ==
  {"analysis_result", "analysis_csv", "simulation_result", "simulation_csv",
   "comparison_result", "comparison_csv", "expected_wcrt_comparison"}
MetadataFile ==
  {"analysis_manifest", "simulation_manifest", "comparison_manifest",
   "run_manifest", "run_metadata", "artifact_index"}
File == Case \cup ResultFile \cup MetadataFile \cup {"trace_csv"}

(* The steps that write no file.                                           *)
Command ==
  {"prepare", "directories", "see_latest", "unlink", "relink", "run_analysis",
   "run_simulation", "load_simulation", "load_analysis"}

Artifact == (RunId \cup {None}) \X File

Content == [by : Job, whole : BOOLEAN, names : SUBSET Artifact, of : SUBSET Job]

(* What is not there is told from what is; and a normalized export, which  *)
(* lies in a directory of its own, is no other file and no other step.     *)
ASSUME NoneAssumption == None \notin RunId \cup Job \cup Content
ASSUME PlansAssumption == Plans \subseteq PlanType
ASSUME CaseAssumption ==
  Case \cap (ResultFile \cup MetadataFile \cup Command \cup {"trace_csv"}) = {}

The(j) == plan.jobs[j]
Dir(j) == The(j).dir
Facts(j) == plan.cases[The(j).case]
Own(j, fs) == {<<Dir(j), f>> : f \in fs}

-----------------------------------------------------------------------------
(* The steps of the commands, in the order of the code.                    *)

When(b, steps) == IF b THEN steps ELSE <<>>

Json(j, f) == When(The(j).output.json, <<f>>)
Csv(j, fs) == When(The(j).output.csv, fs)
Trace(j) == When(The(j).output.trace, <<"trace_csv">>)

(* Mutant: an existing link is not removed first.                          *)
LayoutKeepingLink(j) ==
  <<"directories">> \o When(The(j).output.latest, <<"relink">>)

Layout(j) ==
  <<"directories">>
    \o When(The(j).output.latest, <<"see_latest", "unlink", "relink">>)

Bundle == <<"run_manifest", "run_metadata">>

(* Mutant: the manifest is not written again after the index.              *)
MetadataOnce(j, manifests) ==
  When(The(j).output.json /\ The(j).output.metadata,
       manifests \o Bundle \o <<"artifact_index">>)

Metadata(j, manifests) ==
  When(The(j).output.json /\ The(j).output.metadata,
       manifests \o Bundle \o <<"artifact_index">> \o Bundle)

Prepared(j) == <<"prepare">> \o Layout(j) \o <<The(j).case>>

AnalysisBundle(j) == Json(j, "analysis_result") \o Csv(j, <<"analysis_csv">>)
SimulationBundle(j) ==
  Json(j, "simulation_result") \o Csv(j, <<"simulation_csv">>)

Comparison(j) ==
  <<"load_simulation", "load_analysis">> \o Layout(j)
    \o Json(j, "comparison_result")
    \o Csv(j, <<"comparison_csv", "expected_wcrt_comparison">>)

Analyze(j) ==
  Prepared(j) \o <<"run_analysis">> \o AnalysisBundle(j)
    \o Metadata(j, <<"analysis_manifest">>) \o Trace(j)

Simulate(j) ==
  Prepared(j) \o <<"run_simulation">> \o SimulationBundle(j)
    \o Metadata(j, <<"simulation_manifest">>) \o Trace(j)

Compare(j) == Comparison(j) \o Metadata(j, <<"comparison_manifest">>)

(* Mutant: the simulation result is written after the comparison.          *)
RunCaseComparingEarly(j) ==
  Prepared(j) \o <<"run_analysis", "run_simulation">>
    \o AnalysisBundle(j) \o Comparison(j) \o SimulationBundle(j)
    \o Metadata(j, <<>>)

RunCase(j) ==
  Prepared(j) \o <<"run_analysis", "run_simulation">>
    \o AnalysisBundle(j) \o SimulationBundle(j)
    \o Comparison(j) \o Metadata(j, <<>>)

Steps(j) ==
  CASE The(j).kind = "analyze" -> Analyze(j)
    [] The(j).kind = "simulate" -> Simulate(j)
    [] The(j).kind = "compare" -> Compare(j)
    [] The(j).kind = "run-case" -> RunCase(j)

AnalysisStage(j) == IF The(j).strict THEN "analysis" ELSE "baseline"

RequiredStages(j) ==
  CASE The(j).kind = "analyze" -> {AnalysisStage(j)}
    [] The(j).kind = "simulate" -> {"simulation"}
    [] The(j).kind = "run-case" -> {"simulation", AnalysisStage(j)}
    [] OTHER -> {}

-----------------------------------------------------------------------------
At(j, step) == status[j] = "running" /\ todo[j] # <<>> /\ Head(todo[j]) = step

Advance(j) == /\ todo' = [todo EXCEPT ![j] = Tail(@)]
              /\ UNCHANGED <<plan, status>>

Fail(j) == /\ status' = [status EXCEPT ![j] = "failed"]
           /\ UNCHANGED <<plan, todo>>

Proceed(j, ok) == IF ok THEN Advance(j) ELSE Fail(j)

Start(j) ==
  /\ status[j] = "idle"
  /\ \A k \in The(j).after : status[k] \in {"ok", "failed", "crashed"}
  /\ status' = [status EXCEPT ![j] = "running"]
  /\ todo' = [todo EXCEPT ![j] = Steps(j)]
  /\ UNCHANGED <<plan, open, loaded, recorded, diskVars>>

(* Load, map, normalize and validate; an unready case stops the command    *)
(* before anything is written.                                             *)
Prepare(j) ==
  /\ At(j, "prepare")
  /\ Proceed(j, RequiredStages(j) \subseteq Facts(j).ready)
  /\ UNCHANGED <<open, loaded, recorded, diskVars>>

RunEngine(j) ==
  /\ \/ At(j, "run_analysis") /\ Proceed(j, "analysis" \notin Facts(j).raises)
     \/ At(j, "run_simulation") /\ Proceed(j, "simulation" \notin Facts(j).raises)
  /\ UNCHANGED <<open, loaded, recorded, diskVars>>

MakeDirectories(j) ==
  /\ At(j, "directories")
  /\ Advance(j)
  /\ made' = made \cup {Dir(j)}
  /\ UNCHANGED <<open, loaded, recorded, files, latest>>

(* Mutant: the link is removed without asking whether there is one.        *)
SeeLatestBlindly(j) ==
  /\ At(j, "see_latest")
  /\ Advance(j)
  /\ UNCHANGED <<open, loaded, recorded, diskVars>>

(* Whether there is a link is asked before it is removed ...               *)
SeeLatest(j) ==
  /\ At(j, "see_latest")
  /\ todo' = [todo EXCEPT ![j] = IF latest = None THEN Tail(Tail(@)) ELSE Tail(@)]
  /\ UNCHANGED <<plan, status, open, loaded, recorded, diskVars>>

(* ... and removing a link that is gone by then raises.                    *)
Unlink(j) ==
  /\ At(j, "unlink")
  /\ Proceed(j, latest # None)
  /\ latest' = None
  /\ UNCHANGED <<open, loaded, recorded, files, made>>

(* A link that another job has put there in the meantime is left alone.    *)
Relink(j) ==
  /\ At(j, "relink")
  /\ Advance(j)
  /\ latest' = IF latest = None THEN Dir(j) ELSE latest
  /\ UNCHANGED <<open, loaded, recorded, files, made>>

(* The directory a result is read from: run-case reads back its own.       *)
InputDir(j, side) == IF The(j).kind = "run-case" THEN Dir(j)
                     ELSE The(j).inputs[side]
Resolved(j, side) == IF InputDir(j, side) = None THEN latest
                     ELSE InputDir(j, side)

ResultOf(side) == IF side = "simulation" THEN "simulation_result"
                  ELSE "analysis_result"

Readable(d, f) == d # None /\ files[d][f] # None /\ files[d][f].whole

Load(j, side) ==
  /\ At(j, IF side = "simulation" THEN "load_simulation" ELSE "load_analysis")
  /\ LET d == Resolved(j, side)
         f == ResultOf(side)
     IN  /\ Proceed(j, Readable(d, f))
         /\ IF Readable(d, f)
            THEN /\ loaded' = [loaded EXCEPT ![j][side] = files[d][f].by]
                 /\ recorded' = [recorded EXCEPT ![j] =
                                   @ \cup {<<InputDir(j, side), f>>}]
            ELSE UNCHANGED <<loaded, recorded>>
  /\ UNCHANGED <<open, diskVars>>

(* Whether the analysis result that was read has expected worst cases.     *)
HasExpected(j) == plan.cases[The(loaded[j].analysis).case].expected

Writes(j, f) == /\ At(j, f)
                /\ f = "expected_wcrt_comparison" => HasExpected(j)

OpenFile(j) ==
  /\ j \notin open
  /\ \E f \in File :
       /\ Writes(j, f)
       /\ files' = [files EXCEPT ![Dir(j)][f] =
            [by |-> j, whole |-> FALSE, names |-> {}, of |-> {}]]
  /\ open' = open \cup {j}
  /\ UNCHANGED <<plan, status, todo, loaded, recorded, made, latest>>

(* run_manifest and run_metadata carry one payload, so what names them is  *)
(* collected after the second.                                             *)
Records(j, f) ==
  CASE f = "run_manifest" -> {}
    [] f = "run_metadata" -> Own(j, {"run_manifest", "run_metadata"})
    [] f = "trace_csv" -> {}
    [] OTHER -> Own(j, {f})

(* Mutant: every file is credited to the results that were read back.      *)
PayloadOfLoaded(j, f) ==
  [by |-> j, whole |-> TRUE,
   names |-> IF f \in MetadataFile THEN recorded[j] ELSE {},
   of |-> {loaded[j].simulation, loaded[j].analysis}]

Payload(j, f) ==
  [by |-> j, whole |-> TRUE,
   names |-> IF f \in MetadataFile THEN recorded[j] ELSE {},
   of |-> IF f \in {"comparison_result", "comparison_csv", "expected_wcrt_comparison"}
          THEN {loaded[j].simulation, loaded[j].analysis} ELSE {j}]

CloseFile(j) ==
  /\ j \in open
  /\ \E f \in File :
       /\ At(j, f)
       /\ files' = [files EXCEPT ![Dir(j)][f] = Payload(j, f)]
       /\ recorded' = [recorded EXCEPT ![j] = @ \cup Records(j, f)]
  /\ open' = open \ {j}
  /\ Advance(j)
  /\ UNCHANGED <<loaded, made, latest>>

(* Mutant: the record is added without looking for the file.               *)
SkipExpectedUnseen(j) ==
  /\ At(j, "expected_wcrt_comparison") /\ ~HasExpected(j)
  /\ recorded' = [recorded EXCEPT ![j] = @ \cup Own(j, {"expected_wcrt_comparison"})]
  /\ Advance(j)
  /\ UNCHANGED <<open, loaded, diskVars>>

(* Without expected worst cases nothing is written; run-case still records *)
(* the file of that name it finds in the directory.                        *)
SkipExpected(j) ==
  /\ At(j, "expected_wcrt_comparison") /\ ~HasExpected(j)
  /\ recorded' = [recorded EXCEPT ![j] = @ \cup
       {a \in Own(j, {"expected_wcrt_comparison"}) :
          The(j).kind = "run-case" /\ files[a[1]][a[2]] # None}]
  /\ Advance(j)
  /\ UNCHANGED <<open, loaded, diskVars>>

Finish(j) ==
  /\ status[j] = "running" /\ todo[j] = <<>>
  /\ status' = [status EXCEPT ![j] = "ok"]
  /\ UNCHANGED <<plan, todo, open, loaded, recorded, diskVars>>

(* A killed process, or a write that raises: the file it was writing stays *)
(* as it is.                                                               *)
Crash(j) ==
  /\ status[j] = "running"
  /\ Cardinality({k \in Job : status[k] = "crashed"}) < plan.crashes
  /\ status' = [status EXCEPT ![j] = "crashed"]
  /\ open' = open \ {j}
  /\ UNCHANGED <<plan, todo, loaded, recorded, diskVars>>

-----------------------------------------------------------------------------
Init ==
  /\ plan \in Plans
  /\ status = [j \in Job |-> "idle"]
  /\ todo = [j \in Job |-> <<>>]
  /\ open = {}
  /\ loaded = [j \in Job |-> [simulation |-> None, analysis |-> None]]
  /\ recorded = [j \in Job |-> {}]
  /\ files = [d \in RunId |-> [f \in File |-> None]]
  /\ made = {}
  /\ latest = None

Work(j) ==
  \/ Prepare(j) \/ RunEngine(j)
  \/ MakeDirectories(j) \/ SeeLatest(j) \/ Unlink(j) \/ Relink(j)
  \/ \E side \in {"simulation", "analysis"} : Load(j, side)
  \/ OpenFile(j) \/ CloseFile(j) \/ SkipExpected(j) \/ Finish(j)

Next == \E j \in Job : Start(j) \/ Work(j) \/ Crash(j)

Spec == Init /\ [][Next]_vars
FairSpec == Spec /\ \A j \in Job : WF_vars(Start(j) \/ Work(j))
=============================================================================
