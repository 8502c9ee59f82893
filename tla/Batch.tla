-------------------------------- MODULE Batch --------------------------------
(***************************************************************************)
(* batch-run: one pipeline over every case directory below a root, a row   *)
(* per case, then the catalogs, the batch manifest and its index.  Batches *)
(* follow one another, with the same id or another, over a root that the   *)
(* user changes in between; one may be killed at any step.  What a case    *)
(* does inside its pipeline is the subject of RunPipeline: here it is an   *)
(* outcome and the metadata it leaves in its run directory.                *)
(***************************************************************************)
EXTENDS Naturals, FiniteSets

CONSTANTS
  N,          \* the directories below the root are 1..N in sorted order
  BatchId,    \* the ids batches are given
  Slug,       \* of each id: the form in which it enters the run ids
  Name,       \* of each directory: its name, which others may share
  MaxRounds,  \* bound: the number of batches started
  Commands,   \* of each round: the commands that may be given
  None

Place == 1 .. N

ASSUME PlacesAssumption == N \in Nat /\ MaxRounds \in Nat
ASSUME NamesAssumption == Slug \in [BatchId -> STRING] /\ Name \in [Place -> STRING]

(* tree: what lies below the root; broken: a manifest.yaml that cannot be  *)
(* read; metadata: write_metadata and write_json.                          *)
Command == [id : BatchId, tree : [Place -> {"other", "case", "broken"}],
            metadata : BOOLEAN]

ASSUME CommandsAssumption == Commands \in [1 .. MaxRounds -> SUBSET Command]

VARIABLES
  tree, batch, metadata,  \* the command of the batch
  round,        \* the number of batches started so far
  phase,        \* how far the batch is
  rows,         \* the row of each case, by its directory
  step,         \* the number of batch files written
  torn,         \* a batch file is opened and not complete
  runs,         \* the metadata files of each run directory: who wrote them last
  diagnostics,  \* of each batch directory: the failure diagnostics
  files,        \* of each batch directory: the batch files
  exit          \* the exit code of the command

roundVars == <<tree, batch, metadata, round>>
diskVars == <<runs, diagnostics, files>>
vars == <<roundVars, phase, rows, step, torn, diskVars, exit>>

-----------------------------------------------------------------------------
Metadata == {"run_manifest", "artifact_index"}
BatchFile == {"catalog_csv", "catalog_json", "failures_csv", "failures_json",
              "batch_manifest", "batch_index"}

(* The files in the order in which they are written; the manifest twice.   *)
Order == <<"catalog_csv", "catalog_json", "failures_csv", "failures_json",
           "batch_manifest", "batch_index", "batch_manifest">>

Cases == {p \in Place : tree[p] = "case"}

(* Mutant: the case directories are not numbered.                          *)
IndexDropped(p) == 1

(* The number of the case in the enumeration of the discovered cases.      *)
Index(p) == Cardinality({q \in Cases : q <= p})

(* compose_identifier(batch_id, index, name), and the diagnostic's name.   *)
RunId(p) == <<Slug[batch], Index(p), Name[p]>>
Diagnostic(p) == <<Index(p), Name[p]>>

Names == {Name[p] : p \in Place}
RunIds == {Slug[b] : b \in BatchId} \X Place \X Names
DiagnosticIds == Place \X Names

(* Who wrote a file: the batch by its number, and the directory.           *)
Stamp == [round : 1 .. MaxRounds, place : Place]
Mine(p) == [round |-> round, place |-> p]

Row == [status : {"success", "failed"},
        pipeline : {"ok", "issues_detected", "failed"},
        run : RunIds, cites : SUBSET Metadata,
        diagnostic : DiagnosticIds \cup {None}]

Rows == [Place -> Row \cup {None}]
Recorded == {p \in Place : rows[p] # None}
Failures(rs) == {p \in Place : rs[p] # None /\ rs[p].status = "failed"}

Only(rs, ps) == [p \in Place |-> IF p \in ps THEN rs[p] ELSE None]

(* What a batch file holds: the rows it lists, the verdict, the names of   *)
(* batch files and of diagnostics.                                         *)
Content == [round : 1 .. MaxRounds, whole : BOOLEAN, rows : Rows,
            verdict : {"none", "success", "partial_failure"},
            names : SUBSET BatchFile, diagnosed : SUBSET DiagnosticIds]

ASSUME NoneAssumption ==
  None \notin BatchId \cup Nat \cup Stamp \cup Row \cup Content \cup DiagnosticIds

-----------------------------------------------------------------------------
(* The batch directory is made, or found.                                  *)
StartBatch ==
  /\ phase \in {"idle", "done", "failed", "killed"}
  /\ round < MaxRounds
  /\ round' = round + 1
  /\ \E c \in Commands[round + 1] :
       batch' = c.id /\ tree' = c.tree /\ metadata' = c.metadata
  /\ phase' = "discover"
  /\ rows' = [p \in Place |-> None]
  /\ step' = 0 /\ torn' = FALSE /\ exit' = None
  /\ UNCHANGED diskVars

(* Every manifest.yaml below the root is read; one that cannot be read     *)
(* raises, outside of the loop that catches the failures of a case.        *)
Discover ==
  /\ phase = "discover"
  /\ IF \E p \in Place : tree[p] = "broken"
     THEN phase' = "failed" /\ exit' = 4
     ELSE phase' = "cases" /\ exit' = exit
  /\ UNCHANGED <<roundVars, rows, step, torn, diskVars>>

(* Mutant: the next case is any that has no row.                           *)
IsTurnOfAny(p) == p \in Cases

IsTurnOf(p) == /\ p \in Cases \ Recorded
               /\ \A q \in Cases : q < p => q \in Recorded

Stamped(p, fs) ==
  [runs EXCEPT ![RunId(p)] = [f \in Metadata |-> IF f \in fs THEN Mine(p) ELSE @[f]]]

(* The metadata files that are there when the pipeline has returned.       *)
Cited(p) == {f \in Metadata : runs'[RunId(p)][f] # None}

SuccessRow(p, pipeline) ==
  [status |-> "success", pipeline |-> pipeline, run |-> RunId(p),
   cites |-> Cited(p), diagnostic |-> None]

FailureRow(p) ==
  [status |-> "failed", pipeline |-> "failed", run |-> RunId(p),
   cites |-> {}, diagnostic |-> Diagnostic(p)]

(* The pipeline returns; a comparison with issues is a success.            *)
Succeed(p) ==
  /\ phase = "cases" /\ IsTurnOf(p)
  /\ runs' = Stamped(p, IF metadata THEN Metadata ELSE {})
  /\ \E pipeline \in {"ok", "issues_detected"} :
       rows' = [rows EXCEPT ![p] = SuccessRow(p, pipeline)]
  /\ UNCHANGED <<roundVars, phase, step, torn, diagnostics, files, exit>>

(* What a pipeline may have written when it raises or is killed.           *)
Progress == IF metadata THEN {{}, {"run_manifest"}, Metadata} ELSE {{}}

Diagnosed(p) ==
  diagnostics' = [diagnostics EXCEPT ![batch][Diagnostic(p)] = Mine(p)]

(* The pipeline raises anywhere: the case is refused, an engine raises or  *)
(* a file cannot be written.                                               *)
FailCase(p) ==
  /\ phase = "cases" /\ IsTurnOf(p)
  /\ \E fs \in Progress : runs' = Stamped(p, fs)
  /\ Diagnosed(p)
  /\ rows' = [rows EXCEPT ![p] = FailureRow(p)]
  /\ UNCHANGED <<roundVars, phase, step, torn, files, exit>>

(* Mutant: the batch stops at the first failure.                           *)
AllTurnsTakenOrFailed == Cases \subseteq Recorded \/ Failures(rows) # {}

AllTurnsTaken == Cases \subseteq Recorded

CasesDone ==
  /\ phase = "cases" /\ AllTurnsTaken
  /\ phase' = "write"
  /\ UNCHANGED <<roundVars, rows, step, torn, diskVars, exit>>

Verdict(rs) == IF Failures(rs) = {} THEN "success" ELSE "partial_failure"

(* Mutant: the failure catalog lists every row.                            *)
ListedEverywhere(f) == rows

Listed(f) == IF f \in {"failures_csv", "failures_json"} THEN Only(rows, Failures(rows))
             ELSE IF f = "batch_index" THEN Only(rows, {}) ELSE rows

(* The catalogs name nothing; the index and the manifest name the files    *)
(* before them and the diagnostics of the failed cases.                    *)
Payload ==
  LET f == Order[step + 1]
      names == f \in {"batch_manifest", "batch_index"}
  IN  [round |-> round, whole |-> TRUE, rows |-> Listed(f),
       verdict |-> IF f = "batch_manifest" THEN Verdict(rows) ELSE "none",
       names |-> IF names THEN {Order[i] : i \in 1 .. step} ELSE {},
       diagnosed |-> IF names THEN {rows[p].diagnostic : p \in Failures(rows)} ELSE {}]

OpenFile ==
  /\ phase = "write" /\ step < 7 /\ ~torn
  /\ torn' = TRUE
  /\ files' = [files EXCEPT ![batch][Order[step + 1]] = [Payload EXCEPT !.whole = FALSE]]
  /\ UNCHANGED <<roundVars, phase, rows, step, runs, diagnostics, exit>>

CloseFile ==
  /\ phase = "write" /\ torn
  /\ torn' = FALSE
  /\ files' = [files EXCEPT ![batch][Order[step + 1]] = Payload]
  /\ step' = step + 1
  /\ UNCHANGED <<roundVars, phase, rows, runs, diagnostics, exit>>

(* Mutant: the number of failures is the exit code.                        *)
ExitCodeCounting == Cardinality(Failures(rows))

(* Mutant: the command fails only if every case failed.                    *)
ExitCodeOfAll == IF Cases # {} /\ Cases \subseteq Failures(rows) THEN 4 ELSE 0

ExitCode == IF Failures(rows) = {} THEN 0 ELSE 4

Return ==
  /\ phase = "write" /\ step = 7
  /\ phase' = "done"
  /\ exit' = ExitCode
  /\ UNCHANGED <<roundVars, rows, step, torn, diskVars>>

(* The process is killed, or gives up with exit code 4 because a file of   *)
(* the batch itself cannot be written; the case it was at leaves what it   *)
(* had written.                                                            *)
Kill ==
  /\ phase \in {"discover", "cases", "write"}
  /\ phase' = "killed"
  /\ exit' = exit \/ (phase # "discover" /\ exit' = 4)
  /\ \/ UNCHANGED runs
     \/ /\ phase = "cases"
        /\ \E p \in Place : /\ IsTurnOf(p)
                            /\ \E fs \in Progress : runs' = Stamped(p, fs)
  /\ UNCHANGED <<roundVars, rows, step, torn, diagnostics, files>>

-----------------------------------------------------------------------------
Init ==
  /\ tree = [p \in Place |-> "other"]
  /\ batch = None /\ metadata = FALSE /\ round = 0
  /\ phase = "idle"
  /\ rows = [p \in Place |-> None]
  /\ step = 0 /\ torn = FALSE /\ exit = None
  /\ runs = [i \in RunIds |-> [f \in Metadata |-> None]]
  /\ diagnostics = [b \in BatchId |-> [i \in DiagnosticIds |-> None]]
  /\ files = [b \in BatchId |-> [f \in BatchFile |-> None]]

Work ==
  \/ Discover \/ CasesDone \/ OpenFile \/ CloseFile \/ Return
  \/ \E p \in Place : Succeed(p) \/ FailCase(p)

Next == StartBatch \/ Work \/ Kill

Spec == Init /\ [][Next]_vars
FairSpec == Spec /\ WF_vars(Work)

-----------------------------------------------------------------------------
(* The batch as the promise of CaseOutcomes sees it.                       *)
Running == phase \in {"cases", "write", "done"}
Due == IF Running THEN Cases ELSE {}
Outcome == [p \in Place |-> IF Running /\ rows[p] # None THEN rows[p].status
                            ELSE "pending"]
GivenVerdict == IF phase # "done" THEN "none"
                ELSE IF exit = 0 THEN "success" ELSE "partial_failure"

Promise == INSTANCE CaseOutcomes
  WITH Case <- Place, due <- Due, outcome <- Outcome, verdict <- GivenVerdict
=============================================================================
