--------------------------- MODULE BatchProperties ---------------------------
(***************************************************************************)
(* What the user of batch-run may rely on.                                 *)
(***************************************************************************)
EXTENDS Batch

(* Every variable has its type: (batch_manager.py) a row names a run       *)
(* directory and a diagnostic of the batch, every file was written by one  *)
(* of the batches started so far.                                          *)
TypeOK ==
  /\ tree \in [Place -> {"other", "case", "broken"}]
  /\ batch \in BatchId \cup {None}
  /\ metadata \in BOOLEAN
  /\ round \in 0 .. MaxRounds
  /\ phase \in {"idle", "discover", "cases", "write", "done", "failed", "killed"}
  /\ phase # "idle" => batch \in BatchId /\ round > 0
  /\ rows \in Rows
  /\ step \in 0 .. 7 /\ torn \in BOOLEAN
  /\ runs \in [RunIds -> [Metadata -> Stamp \cup {None}]]
  /\ diagnostics \in [BatchId -> [DiagnosticIds -> Stamp \cup {None}]]
  /\ files \in [BatchId -> [BatchFile -> Content \cup {None}]]
  /\ exit \in {None, 0, 4}

(* What a row says is on disk, until the next batch begins: a success      *)
(* cites every metadata file there is in its run directory, and they are   *)
(* of its own run if metadata is on; a failure has its own diagnostic.     *)
(* Directories may share a name and ids a slug: no later case of the batch *)
(* takes over the run directory or the diagnostic (batch_manager.py:265).  *)
RowsTellTheRuns ==
  \A p \in Recorded :
    /\ p \in Cases
    /\ rows[p].status = "success" =>
         \A f \in Metadata :
           /\ f \in rows[p].cites <=> runs[rows[p].run][f] # None
           /\ metadata => runs[rows[p].run][f] = Mine(p)
    /\ rows[p].status = "failed" =>
         /\ rows[p].cites = {}
         /\ diagnostics[batch][rows[p].diagnostic] = Mine(p)

On(b, f) == files[b][f] # None /\ files[b][f].whole

(* At every moment, also after a batch was killed while it wrote over the  *)
(* files of an earlier one: complete files of one batch tell one story,    *)
(* the failure catalogs list exactly the failed rows of the catalogs, the  *)
(* manifest's verdict is that of its rows; and what a manifest or an index *)
(* names is on disk, catalogs and diagnostics (batch_manager.py:313-387).  *)
CatalogsAgree ==
  \A b \in BatchId, f, g \in BatchFile :
    On(b, f) =>
      /\ On(b, g) /\ files[b][f].round = files[b][g].round =>
           /\ {f, g} \subseteq {"catalog_csv", "catalog_json", "batch_manifest"} =>
                files[b][f].rows = files[b][g].rows
           /\ f \in {"failures_csv", "failures_json"} /\ g = "catalog_json" =>
                files[b][f].rows = Only(files[b][g].rows, Failures(files[b][g].rows))
      /\ f = "batch_manifest" => files[b][f].verdict = Verdict(files[b][f].rows)
      /\ g \in files[b][f].names =>
           files[b][g] # None /\ files[b][g].round >= files[b][f].round
      /\ \A d \in files[b][f].diagnosed : diagnostics[b][d] # None

(* A batch that has begun to write has a row for every case, whatever      *)
(* failed; when the command returns, every batch file is complete and of   *)
(* this batch, and the exit code is 0 exactly if each case succeeded:      *)
(* "Batch execution continues after per-case failures and writes aggregate *)
(* catalogs plus per-failure diagnostics.  The overall command returns a   *)
(* non-zero status if any case fails" (README.md:304).                     *)
DoneMeansTold ==
  /\ phase \in {"write", "done"} => Recorded = Cases
  /\ phase = "done" =>
       /\ \A f \in BatchFile : On(batch, f) /\ files[batch][f].round = round
       /\ files[batch]["batch_manifest"].rows = rows
       /\ exit = 0 <=> \A p \in Cases : rows[p].status = "success"

(* A batch that nobody kills comes to its end, whatever its cases do       *)
(* (FairSpec: the process takes its next step).                            *)
BatchEnds == phase = "discover" ~> phase \in {"done", "failed", "killed"}

(* The batch keeps the promise of CaseOutcomes: one outcome for each case, *)
(* decided once and left alone, and a verdict only when all are decided.   *)
KeepsThePromise == Promise!Spec

(* "Batch execution continues after per-case failures" (README.md:304): a  *)
(* batch that was not killed has a row for each of its cases.              *)
EveryCaseGetsItsRow ==
  phase \in {"done", "failed"} => Recorded = Cases
=============================================================================
