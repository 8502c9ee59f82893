----------------------------- MODULE BatchProofs -----------------------------
(***************************************************************************)
(* The batch, for any number of directories, batch ids and rounds: rows    *)
(* and run directories are never mixed up, and it implements CaseOutcomes. *)
(***************************************************************************)
EXTENDS BatchProperties, Integers, FiniteSetTheorems, TLAPS

-----------------------------------------------------------------------------
(* The number of a case is a place. *)
LEMMA IndexInPlace ==
  ASSUME NEW C \in SUBSET Place, NEW p \in C
  PROVE  Cardinality({q \in C : q <= p}) \in Place
<1> DEFINE L == {q \in C : q <= p}
<1>1. N \in Nat /\ p \in 1 .. N
  BY PlacesAssumption DEF Place
<1>2. IsFiniteSet(1 .. N) /\ Cardinality(1 .. N) = N
  BY <1>1, FS_Interval
<1>3. L \in SUBSET (1 .. N)
  BY DEF Place
<1>4. IsFiniteSet(L) /\ Cardinality(L) <= N
  BY <1>2, <1>3, FS_Subset
<1>5. p \in L
  BY <1>1
<1>6. Cardinality(L) \in Nat /\ Cardinality(L) # 0
  BY <1>4, <1>5, FS_CardinalityType, FS_EmptySet
<1> HIDE DEF L
<1>7. Cardinality(L) \in 1 .. N
  BY <1>1, <1>4, <1>6
<1> QED
  BY <1>7 DEF Place, L

(* A later case has a greater number. *)
LEMMA IndexGrows ==
  ASSUME NEW C \in SUBSET Place, NEW p \in C, NEW r \in C, p < r
  PROVE  Cardinality({q \in C : q <= p}) # Cardinality({q \in C : q <= r})
<1> DEFINE L == {q \in C : q <= p}
           M == {q \in C : q <= r}
<1>1. N \in Nat /\ p \in 1 .. N /\ r \in 1 .. N
  BY PlacesAssumption DEF Place
<1>2. IsFiniteSet(1 .. N)
  BY <1>1, FS_Interval
<1>3. M \in SUBSET (1 .. N)
  BY DEF Place
<1>4. IsFiniteSet(M)
  BY <1>2, <1>3, FS_Subset
<1>5. \A q \in C : q \in Int
  BY <1>1 DEF Place
<1>6. p \in Int /\ r \in Int /\ p < r
  BY <1>1
<1>7. \A q \in C : q <= p => q <= r
  BY <1>5, <1>6
<1>8. L \in SUBSET M
  BY <1>7
<1>9. r \in M /\ r \notin L
  BY <1>6
<1>10. L # M
  BY <1>9
<1> HIDE DEF L, M
<1>11. Cardinality(M) # Cardinality(L)
  BY <1>4, <1>8, <1>10, FS_Subset
<1> QED
  BY <1>11 DEF L, M

(* The run directory of a case is its own within the batch. *)
LEMMA NumberedApart ==
  ASSUME NEW p \in Cases, NEW q \in Cases, p # q
  PROVE  Index(p) # Index(q) /\ RunId(p) # RunId(q) /\ Diagnostic(p) # Diagnostic(q)
<1>1. Cases \in SUBSET Place /\ Place \subseteq Int
  BY PlacesAssumption DEF Cases, Place
<1>2. p < q \/ q < p
  BY <1>1
<1>3. Index(p) # Index(q)
  BY <1>1, <1>2, IndexGrows DEF Index
<1> QED
  BY <1>3 DEF RunId, Diagnostic

(* Run directories and diagnostics are named within the expected range. *)
LEMMA NamesInRange ==
  ASSUME batch \in BatchId, NEW p \in Cases
  PROVE  /\ p \in Place
         /\ RunId(p) \in RunIds
         /\ Diagnostic(p) \in DiagnosticIds
<1>1. p \in Place /\ Cases \in SUBSET Place
  BY DEF Cases
<1>2. Index(p) \in Place
  BY <1>1, IndexInPlace DEF Index
<1>3. Name[p] \in Names /\ Slug[batch] \in {Slug[b] : b \in BatchId}
  BY <1>1 DEF Names
<1> QED
  BY <1>1, <1>2, <1>3 DEF RunId, Diagnostic, RunIds, DiagnosticIds

(* An assignment of one entry of a table of tables. *)
LEMMA EntrySet ==
  ASSUME NEW A, NEW B, NEW X, NEW F \in [A -> [B -> X]], NEW a \in A, NEW b \in B, NEW v \in X
  PROVE  LET G == [F EXCEPT ![a][b] = v]
         IN  /\ G \in [A -> [B -> X]]
             /\ \A c \in A, d \in B : G[c][d] = IF c = a /\ d = b THEN v ELSE F[c][d]
OBVIOUS

-----------------------------------------------------------------------------
(* A row names the directory and the diagnostic of its case; rows appear   *)
(* with the cases' turns, and all are there when the batch's files are;    *)
(* the batch returns when its last file is complete.                       *)
RowsNamed ==
  \A p \in Recorded :
    /\ p \in Cases
    /\ rows[p].run = RunId(p)
    /\ rows[p].status = "failed" => rows[p].diagnostic = Diagnostic(p)

Told ==
  /\ torn => step < 7
  /\ phase = "done" => step = 7 /\ exit = ExitCode

Turns ==
  /\ Told
  /\ phase \in {"idle", "discover", "failed"} => Recorded = {}
  /\ phase \in {"write", "done"} => Recorded = Cases
  /\ phase \in {"discover", "cases"} => step = 0 /\ torn = FALSE

(* The files of a batch are the current ones only from its writing on,     *)
(* list its rows, and are there as far as it has come.                     *)
Current(b, f) == files[b][f] # None /\ files[b][f].round = round

FilesOfTheBatch ==
  /\ \A b \in BatchId, f \in BatchFile : files[b][f] # None => files[b][f].round <= round
  /\ \A b \in BatchId, f \in BatchFile : Current(b, f) =>
       b = batch /\ phase \in {"write", "done", "killed"} /\ files[b][f].rows = Listed(f)
  /\ phase \in {"write", "done"} => \A i \in 1 .. step :
       /\ Current(batch, Order[i])
       /\ files[batch][Order[i]].whole \/ (torn /\ step < 7 /\ Order[step + 1] = Order[i])

(* The inductive invariant of a batch. *)
BatchInv == TypeOK /\ RowsNamed /\ Turns /\ RowsTellTheRuns /\ FilesOfTheBatch /\ CatalogsAgree

-----------------------------------------------------------------------------
(* The order of the files lists every batch file. *)
LEMMA OrderFacts ==
  /\ \A i \in 1 .. 7 : Order[i] \in BatchFile
  /\ \A f \in BatchFile : \E i \in 1 .. 7 : Order[i] = f
<1>1. \A i \in 1 .. 7 : Order[i] \in BatchFile
  BY DEF Order, BatchFile
<1>2. /\ Order[1] = "catalog_csv" /\ Order[2] = "catalog_json"
      /\ Order[3] = "failures_csv" /\ Order[4] = "failures_json"
      /\ Order[5] = "batch_manifest" /\ Order[6] = "batch_index"
  BY DEF Order
<1>3. ASSUME NEW f \in BatchFile
      PROVE  \E i \in 1 .. 7 : Order[i] = f
  BY <1>2 DEF BatchFile
<1> QED
  BY <1>1, <1>3

(* What a run stamps in its directory, and nowhere else. *)
LEMMA StampedFacts ==
  ASSUME TypeOK, batch \in BatchId, round > 0, NEW p \in Cases, NEW fs \in SUBSET Metadata
  PROVE  /\ Stamped(p, fs) \in [RunIds -> [Metadata -> Stamp \cup {None}]]
         /\ \A i \in RunIds, f \in Metadata :
              Stamped(p, fs)[i][f] = IF i = RunId(p) /\ f \in fs THEN Mine(p) ELSE runs[i][f]
         /\ Mine(p) \in Stamp /\ Mine(p) # None
<1>1. RunId(p) \in RunIds /\ p \in Place
  BY NamesInRange
<1>2. Mine(p) \in Stamp
  BY <1>1, PlacesAssumption DEF Mine, Stamp, TypeOK
<1>3. Mine(p) # None
  BY <1>2, NoneAssumption
<1>4. runs \in [RunIds -> [Metadata -> Stamp \cup {None}]]
  BY DEF TypeOK
<1> QED
  BY <1>1, <1>2, <1>3, <1>4 DEF Stamped

(* While a batch goes on its cases keep their names. *)
LEMMA SameNames ==
  ASSUME UNCHANGED roundVars
  PROVE  /\ Cases' = Cases
         /\ \A p \in Place : /\ RunId(p)' = RunId(p)
                             /\ Diagnostic(p)' = Diagnostic(p)
                             /\ Mine(p)' = Mine(p)
BY DEF roundVars, Cases, RunId, Diagnostic, Mine, Index

(* Catalogs that agree do so as long as nobody writes one. *)
LEMMA CatalogsKept ==
  ASSUME TypeOK, CatalogsAgree, UNCHANGED files,
         \A b \in BatchId, d \in DiagnosticIds :
           diagnostics[b][d] # None => diagnostics'[b][d] # None
  PROVE  CatalogsAgree'
<1>1. \A b \in BatchId, f \in BatchFile : files[b][f] # None => files[b][f].diagnosed \subseteq DiagnosticIds
  BY NoneAssumption DEF TypeOK, Content
<1> QED
  BY <1>1 DEF CatalogsAgree, On, Failures, Only, Verdict

(* A batch that only changes its phase keeps everything. *)
LEMMA QuietStep ==
  ASSUME BatchInv, Discover \/ CasesDone \/ Return
  PROVE  BatchInv'
<1> USE DEF BatchInv
<1>1. UNCHANGED <<roundVars, rows, step, torn, diskVars>>
  BY DEF Discover, CasesDone, Return
<1>2. /\ phase' \in {"failed", "cases", "write", "done"}
      /\ phase # "idle" /\ batch \in BatchId /\ round > 0
      /\ exit' \in {None, 0, 4}
  BY DEF Discover, CasesDone, Return, TypeOK, ExitCode
<1>3. Cases' = Cases /\ Recorded' = Recorded
  BY <1>1, SameNames DEF Recorded
<1>4. TypeOK'
  BY <1>1, <1>2 DEF TypeOK, roundVars, diskVars
<1>5. RowsNamed'
  BY <1>1, <1>3, SameNames DEF RowsNamed, Recorded
<1>6. Turns'
  BY <1>1, <1>3 DEF Turns, Told, ExitCode, Failures, Discover, CasesDone, Return, AllTurnsTaken, RowsNamed
<1>7. RowsTellTheRuns'
  BY <1>1, <1>3, SameNames DEF RowsTellTheRuns, Recorded, roundVars, diskVars
<1>8. FilesOfTheBatch'
  <2>1. \A b \in BatchId, f \in BatchFile : Current(b, f)' = Current(b, f) /\ Listed(f)' = Listed(f)
    BY <1>1 DEF Current, Listed, Only, Failures, roundVars, diskVars
  <2>2. CASE Discover \/ CasesDone
    <3>1. phase \in {"discover", "cases"} /\ step' = 0
      BY <2>2, <1>1 DEF Discover, CasesDone, Turns
    <3>2. \A b \in BatchId, f \in BatchFile : ~Current(b, f)
      BY <3>1 DEF FilesOfTheBatch
    <3> QED
      BY <1>1, <2>1, <3>1, <3>2 DEF FilesOfTheBatch, roundVars, diskVars
  <2>3. CASE Return
    BY <1>1, <2>1, <2>3 DEF FilesOfTheBatch, Return, roundVars, diskVars, Current
  <2> QED
    BY <2>2, <2>3
<1>9. CatalogsAgree'
  BY <1>1, CatalogsKept DEF diskVars
<1> QED
  BY <1>4, <1>5, <1>6, <1>7, <1>8, <1>9

(* A new batch finds the files of the others and has no rows. *)
LEMMA StartStep ==
  ASSUME BatchInv, StartBatch
  PROVE  BatchInv'
<1> USE DEF BatchInv
<1>1. PICK c \in Commands[round + 1] :
        batch' = c.id /\ tree' = c.tree /\ metadata' = c.metadata
  BY DEF StartBatch
<1>2. round \in Nat /\ round + 1 \in 1 .. MaxRounds /\ round' = round + 1
  BY PlacesAssumption DEF StartBatch, TypeOK
<1>3. c \in Command
  BY <1>1, <1>2, CommandsAssumption
<1>4. /\ phase' = "discover" /\ step' = 0 /\ torn' = FALSE /\ exit' = None
      /\ rows' = [p \in Place |-> None] /\ UNCHANGED <<runs, diagnostics, files>>
  BY DEF StartBatch, diskVars
<1>5. Recorded' = {}
  BY <1>4 DEF Recorded
<1>6. TypeOK'
  <2>1. batch' \in BatchId /\ tree' \in [Place -> {"other", "case", "broken"}] /\ metadata' \in BOOLEAN
    BY <1>1, <1>3 DEF Command
  <2>2. rows' \in Rows
    BY <1>4 DEF Rows
  <2>3. round' \in 0 .. MaxRounds /\ round' > 0
    BY <1>2, PlacesAssumption
  <2>4. /\ runs' \in [RunIds -> [Metadata -> Stamp \cup {None}]]
        /\ diagnostics' \in [BatchId -> [DiagnosticIds -> Stamp \cup {None}]]
        /\ files' \in [BatchId -> [BatchFile -> Content \cup {None}]]
    BY <1>4 DEF TypeOK
  <2>5. torn' \in BOOLEAN
    BY <1>4
  <2>6. phase' = "discover" /\ step' \in 0 .. 7 /\ exit' \in {None, 0, 4}
    BY <1>4
  <2> QED
    BY <2>1, <2>2, <2>3, <2>4, <2>5, <2>6 DEF TypeOK
<1>7. RowsNamed' /\ RowsTellTheRuns'
  BY <1>5 DEF RowsNamed, RowsTellTheRuns
<1>8. Turns'
  BY <1>4, <1>5 DEF Turns, Told
<1>9. FilesOfTheBatch'
  <2>1. \A b \in BatchId, f \in BatchFile :
          files[b][f] # None => files[b][f].round \in Nat /\ files[b][f].round <= round
    BY NoneAssumption, PlacesAssumption DEF TypeOK, Content, FilesOfTheBatch
  <2>2. \A b \in BatchId, f \in BatchFile : ~Current(b, f)'
    BY <1>2, <1>4, <2>1 DEF Current
  <2>3. \A b \in BatchId, f \in BatchFile : files'[b][f] # None => files'[b][f].round <= round'
    BY <1>2, <1>4, <2>1
  <2> QED
    BY <1>4, <2>2, <2>3 DEF FilesOfTheBatch
<1>10. CatalogsAgree'
  BY <1>4, CatalogsKept
<1> QED
  BY <1>6, <1>7, <1>8, <1>9, <1>10

(* A run of case p leaves the directories of the recorded cases alone. *)
LEMMA OthersUntouched ==
  ASSUME BatchInv, phase = "cases", NEW p \in Place, IsTurnOf(p),
         NEW fs \in SUBSET Metadata, runs' = Stamped(p, fs)
  PROVE  /\ p \in Cases /\ p \notin Recorded /\ batch \in BatchId /\ round > 0
         /\ runs' \in [RunIds -> [Metadata -> Stamp \cup {None}]]
         /\ RunId(p) \in RunIds
         /\ \A f \in Metadata : runs'[RunId(p)][f] = IF f \in fs THEN Mine(p) ELSE runs[RunId(p)][f]
         /\ \A q \in Recorded, f \in Metadata : runs'[rows[q].run][f] = runs[rows[q].run][f]
<1>1. p \in Cases /\ p \notin Recorded
  BY DEF IsTurnOf
<1>2. TypeOK /\ RowsNamed /\ batch \in BatchId /\ round > 0
  BY DEF BatchInv, TypeOK
<1>3. /\ runs' \in [RunIds -> [Metadata -> Stamp \cup {None}]]
      /\ \A i \in RunIds, f \in Metadata :
           runs'[i][f] = IF i = RunId(p) /\ f \in fs THEN Mine(p) ELSE runs[i][f]
  BY <1>1, <1>2, StampedFacts
<1>4. RunId(p) \in RunIds
  BY <1>1, <1>2, NamesInRange
<1>5. \A q \in Recorded : q \in Cases /\ rows[q].run = RunId(q) /\ RunId(q) \in RunIds /\ RunId(q) # RunId(p)
  BY <1>1, <1>2, NamesInRange, NumberedApart DEF RowsNamed
<1> QED
  BY <1>1, <1>2, <1>3, <1>4, <1>5

(* A batch that is killed leaves at most files of the case it was at. *)
LEMMA KillStep ==
  ASSUME BatchInv, Kill
  PROVE  BatchInv'
<1> USE DEF BatchInv
<1>1. /\ phase' = "killed" /\ UNCHANGED <<roundVars, rows, step, torn, diagnostics, files>>
      /\ phase \in {"discover", "cases", "write"} /\ exit' \in {None, 0, 4}
  BY DEF Kill, TypeOK
<1>2. batch \in BatchId /\ round > 0
  BY <1>1 DEF TypeOK
<1>3. /\ runs' \in [RunIds -> [Metadata -> Stamp \cup {None}]]
      /\ \A q \in Recorded, f \in Metadata : runs'[rows[q].run][f] = runs[rows[q].run][f]
  <2>1. CASE UNCHANGED runs
    BY <2>1 DEF TypeOK
  <2>2. CASE phase = "cases" /\ \E p \in Place : IsTurnOf(p) /\ \E fs \in Progress : runs' = Stamped(p, fs)
    <3>1. PICK p \in Place, fs \in Progress : IsTurnOf(p) /\ runs' = Stamped(p, fs)
      BY <2>2
    <3>2. fs \in SUBSET Metadata
      BY DEF Progress, Metadata
    <3> QED
      BY <2>2, <3>1, <3>2, OthersUntouched
  <2> QED
    BY <2>1, <2>2 DEF Kill
<1>4. Cases' = Cases /\ Recorded' = Recorded
  BY <1>1, SameNames DEF Recorded
<1>5. TypeOK'
  BY <1>1, <1>2, <1>3 DEF TypeOK, roundVars
<1>6. RowsNamed'
  BY <1>1, <1>4, SameNames DEF RowsNamed, Recorded
<1>7. Turns'
  BY <1>1 DEF Turns, Told
<1>8. RowsTellTheRuns'
  BY <1>1, <1>3, <1>4, SameNames DEF RowsTellTheRuns, Recorded, roundVars
<1>9. FilesOfTheBatch'
  <2>1. \A b \in BatchId, f \in BatchFile : Current(b, f)' = Current(b, f) /\ Listed(f)' = Listed(f)
    BY <1>1 DEF Current, Listed, Only, Failures, roundVars
  <2> QED
    BY <1>1, <2>1 DEF FilesOfTheBatch, roundVars
<1>10. CatalogsAgree'
  BY <1>1, CatalogsKept
<1> QED
  BY <1>5, <1>6, <1>7, <1>8, <1>9, <1>10

(* The row and the files of one case. *)
LEMMA OwnRow ==
  ASSUME BatchInv, NEW p \in Place, Succeed(p) \/ FailCase(p)
  PROVE  /\ phase = "cases" /\ IsTurnOf(p)
         /\ UNCHANGED <<roundVars, phase, step, torn, files, exit>>
         /\ \E fs \in SUBSET Metadata : runs' = Stamped(p, fs)
         /\ diagnostics' \in [BatchId -> [DiagnosticIds -> Stamp \cup {None}]]
         /\ \A b \in BatchId, d \in DiagnosticIds :
              /\ diagnostics[b][d] # None => diagnostics'[b][d] # None
              /\ d # Diagnostic(p) => diagnostics'[b][d] = diagnostics[b][d]
         /\ \E r \in Row :
              /\ rows' = [rows EXCEPT ![p] = r]
              /\ r.run = RunId(p)
              /\ r.status = "success" => \A f \in Metadata :
                   /\ f \in r.cites <=> runs'[RunId(p)][f] # None
                   /\ metadata => runs'[RunId(p)][f] = Mine(p)
              /\ r.status = "failed" =>
                   /\ r.cites = {} /\ r.diagnostic = Diagnostic(p)
                   /\ diagnostics'[batch][Diagnostic(p)] = Mine(p)
<1>1. phase = "cases" /\ IsTurnOf(p) /\ UNCHANGED <<roundVars, phase, step, torn, files, exit>>
  BY DEF Succeed, FailCase
<1>2. TypeOK /\ batch \in BatchId /\ round > 0 /\ p \in Cases
  BY <1>1 DEF BatchInv, TypeOK, IsTurnOf
<1>3. RunId(p) \in RunIds /\ Diagnostic(p) \in DiagnosticIds
  BY <1>2, NamesInRange
<1>4. Mine(p) \in Stamp /\ Mine(p) # None
  BY <1>2, StampedFacts
<1>5. diagnostics \in [BatchId -> [DiagnosticIds -> Stamp \cup {None}]]
  BY <1>2 DEF TypeOK
<1>6. CASE Succeed(p)
  <2> DEFINE fs == IF metadata THEN Metadata ELSE {}
  <2>1. fs \in SUBSET Metadata /\ runs' = Stamped(p, fs) /\ diagnostics' = diagnostics
    BY <1>6 DEF Succeed
  <2>2. \A f \in Metadata : runs'[RunId(p)][f] = IF f \in fs THEN Mine(p) ELSE runs[RunId(p)][f]
    BY <1>1, <2>1, OthersUntouched
  <2>3. PICK pipeline \in {"ok", "issues_detected"} : rows' = [rows EXCEPT ![p] = SuccessRow(p, pipeline)]
    BY <1>6 DEF Succeed
  <2>4. SuccessRow(p, pipeline) \in Row
    BY <1>3 DEF SuccessRow, Row, Cited
  <2>5. metadata => fs = Metadata
    OBVIOUS
  <2> HIDE DEF fs
  <2>6. /\ SuccessRow(p, pipeline).run = RunId(p) /\ SuccessRow(p, pipeline).status = "success"
        /\ SuccessRow(p, pipeline).cites = {f \in Metadata : runs'[RunId(p)][f] # None}
    BY DEF SuccessRow, Cited
  <2>7. \A f \in Metadata : metadata => runs'[RunId(p)][f] = Mine(p)
    BY <2>2, <2>5
  <2>8. \A f \in Metadata : f \in SuccessRow(p, pipeline).cites <=> runs'[RunId(p)][f] # None
    BY <2>6
  <2>9. \E r \in Row :
              /\ rows' = [rows EXCEPT ![p] = r]
              /\ r.run = RunId(p) /\ r.status = "success"
              /\ \A f \in Metadata :
                   /\ f \in r.cites <=> runs'[RunId(p)][f] # None
                   /\ metadata => runs'[RunId(p)][f] = Mine(p)
    BY <2>3, <2>4, <2>6, <2>7, <2>8
  <2> QED
    BY <1>1, <1>5, <2>1, <2>9
<1>7. CASE FailCase(p)
  <2>1. PICK fs \in Progress : runs' = Stamped(p, fs)
    BY <1>7 DEF FailCase
  <2>2. fs \in SUBSET Metadata
    BY DEF Progress, Metadata
  <2>3. diagnostics' = [diagnostics EXCEPT ![batch][Diagnostic(p)] = Mine(p)]
    BY <1>7 DEF FailCase, Diagnosed
  <2>4. /\ diagnostics' \in [BatchId -> [DiagnosticIds -> Stamp \cup {None}]]
        /\ \A b \in BatchId, d \in DiagnosticIds :
             diagnostics'[b][d] = IF b = batch /\ d = Diagnostic(p) THEN Mine(p) ELSE diagnostics[b][d]
    BY <1>2, <1>3, <1>4, <1>5, <2>3, EntrySet
  <2>5. rows' = [rows EXCEPT ![p] = FailureRow(p)] /\ FailureRow(p) \in Row
    BY <1>3, <1>7 DEF FailCase, FailureRow, Row
  <2>6. /\ FailureRow(p).run = RunId(p) /\ FailureRow(p).status = "failed"
        /\ FailureRow(p).cites = {} /\ FailureRow(p).diagnostic = Diagnostic(p)
    BY DEF FailureRow
  <2>7. diagnostics'[batch][Diagnostic(p)] = Mine(p)
    BY <1>2, <1>3, <2>4
  <2>8. \E r \in Row :
              /\ rows' = [rows EXCEPT ![p] = r]
              /\ r.run = RunId(p) /\ r.status = "failed"
              /\ r.cites = {} /\ r.diagnostic = Diagnostic(p)
    BY <2>5, <2>6
  <2> QED
    BY <1>1, <1>4, <2>1, <2>2, <2>4, <2>7, <2>8
<1> QED
  BY <1>6, <1>7

(* A case that ends, either way, has its own row and files. *)
LEMMA CaseStep ==
  ASSUME BatchInv, NEW p \in Place, Succeed(p) \/ FailCase(p)
  PROVE  BatchInv'
<1> USE DEF BatchInv
<1>1. /\ phase = "cases" /\ IsTurnOf(p)
      /\ UNCHANGED <<roundVars, phase, step, torn, files, exit>>
      /\ diagnostics' \in [BatchId -> [DiagnosticIds -> Stamp \cup {None}]]
      /\ \A b \in BatchId, d \in DiagnosticIds :
           /\ diagnostics[b][d] # None => diagnostics'[b][d] # None
           /\ d # Diagnostic(p) => diagnostics'[b][d] = diagnostics[b][d]
  BY OwnRow
<1>2. PICK fs \in SUBSET Metadata : runs' = Stamped(p, fs)
  BY OwnRow
<1>3. PICK r \in Row :
              /\ rows' = [rows EXCEPT ![p] = r]
              /\ r.run = RunId(p)
              /\ r.status = "success" => \A f \in Metadata :
                   /\ f \in r.cites <=> runs'[RunId(p)][f] # None
                   /\ metadata => runs'[RunId(p)][f] = Mine(p)
              /\ r.status = "failed" =>
                   /\ r.cites = {} /\ r.diagnostic = Diagnostic(p)
                   /\ diagnostics'[batch][Diagnostic(p)] = Mine(p)
  BY OwnRow
<1>4. /\ p \in Cases /\ p \notin Recorded /\ batch \in BatchId /\ round > 0
      /\ runs' \in [RunIds -> [Metadata -> Stamp \cup {None}]]
      /\ \A q \in Recorded, f \in Metadata : runs'[rows[q].run][f] = runs[rows[q].run][f]
  BY <1>1, <1>2, OthersUntouched
<1>5. rows \in [Place -> Row \cup {None}] /\ r # None
  BY NoneAssumption DEF TypeOK, Rows
<1>6. /\ rows' \in Rows /\ rows'[p] = r /\ \A q \in Place \ {p} : rows'[q] = rows[q]
      /\ Recorded' = Recorded \cup {p}
  BY <1>3, <1>5 DEF Rows, Recorded
<1>7. Cases' = Cases
  BY <1>1, SameNames
<1>8. TypeOK'
  BY <1>1, <1>4, <1>6 DEF TypeOK, roundVars
<1>9. RowsNamed'
  <2>1. ASSUME NEW q \in Recorded'
        PROVE  /\ q \in Cases /\ q \in Place /\ rows'[q].run = RunId(q)
               /\ rows'[q].status = "failed" => rows'[q].diagnostic = Diagnostic(q)
    <3>1. CASE q = p
      BY <1>3, <1>4, <1>6, <3>1
    <3>2. CASE q # p
      BY <1>6, <2>1, <3>2 DEF RowsNamed, Recorded
    <3> QED
      BY <3>1, <3>2
  <2> QED
    BY <1>1, <1>7, <2>1, SameNames DEF RowsNamed
<1>10. Turns'
  BY <1>1 DEF Turns, Told
<1>11. RowsTellTheRuns'
  <2>1. ASSUME NEW q \in Recorded'
        PROVE  /\ q \in Cases
               /\ rows'[q].status = "success" =>
                    \A f \in Metadata :
                      /\ f \in rows'[q].cites <=> runs'[rows'[q].run][f] # None
                      /\ metadata => runs'[rows'[q].run][f] = Mine(q)
               /\ rows'[q].status = "failed" =>
                    /\ rows'[q].cites = {}
                    /\ diagnostics'[batch][rows'[q].diagnostic] = Mine(q)
    <3>1. CASE q = p
      BY <1>3, <1>4, <1>6, <3>1
    <3>2. CASE q # p
      <4>1. q \in Recorded /\ rows'[q] = rows[q] /\ q \in Cases
        BY <1>6, <2>1, <3>2 DEF RowsNamed, Recorded
      <4>2. rows[q].status = "failed" =>
              /\ rows[q].diagnostic = Diagnostic(q) /\ Diagnostic(q) # Diagnostic(p)
              /\ Diagnostic(q) \in DiagnosticIds
        BY <1>4, <3>2, <4>1, NumberedApart, NamesInRange DEF RowsNamed
      <4>3. rows[q].status = "failed" =>
              diagnostics'[batch][rows[q].diagnostic] = diagnostics[batch][rows[q].diagnostic]
        BY <1>1, <1>4, <4>2
      <4> QED
        BY <1>4, <4>1, <4>3 DEF RowsTellTheRuns
    <3> QED
      BY <3>1, <3>2
  <2>2. \A q \in Recorded' : q \in Place
    BY DEF Recorded
  <2>3. metadata' = metadata /\ batch' = batch
    BY <1>1 DEF roundVars
  <2> QED
    BY <1>1, <1>7, <2>1, <2>2, <2>3, SameNames DEF RowsTellTheRuns
<1>12. FilesOfTheBatch'
  <2>1. \A b \in BatchId, f \in BatchFile : ~Current(b, f)
    BY <1>1 DEF FilesOfTheBatch
  <2>2. \A b \in BatchId, f \in BatchFile : ~Current(b, f)'
    BY <1>1, <2>1 DEF Current, roundVars
  <2> QED
    BY <1>1, <2>2 DEF FilesOfTheBatch, roundVars
<1>13. CatalogsAgree'
  BY <1>1, CatalogsKept
<1> QED
  BY <1>8, <1>9, <1>10, <1>11, <1>12, <1>13

(* What the writer puts into its next file: the batch's rows as that file  *)
(* lists them, files it has written and diagnostics that are there.        *)
IsPayload(c, f) ==
  /\ c \in Content /\ c.round = round /\ c.rows = Listed(f)
  /\ f = "batch_manifest" => c.verdict = Verdict(rows)
  /\ c.names \subseteq {Order[i] : i \in 1 .. step}
  /\ \A d \in c.diagnosed : diagnostics[batch][d] # None

LEMMA ListedRows ==
  ASSUME rows \in Rows
  PROVE  /\ \A f \in {"catalog_csv", "catalog_json", "batch_manifest"} : Listed(f) = rows
         /\ \A f \in {"failures_csv", "failures_json"} : Listed(f) = Only(rows, Failures(rows))
         /\ \A f \in BatchFile : Listed(f) \in Rows
BY DEF Listed, Only, Rows

LEMMA PayloadFacts ==
  ASSUME BatchInv, phase = "write", step < 7
  PROVE  /\ IsPayload(Payload, Order[step + 1]) /\ Payload.whole = TRUE
         /\ IsPayload([Payload EXCEPT !.whole = FALSE], Order[step + 1])
         /\ [Payload EXCEPT !.whole = FALSE].whole = FALSE
<1> DEFINE f == Order[step + 1]
           written == {Order[i] : i \in 1 .. step}
           named == f \in {"batch_manifest", "batch_index"}
           failed == {rows[p].diagnostic : p \in Failures(rows)}
           names == IF named THEN written ELSE {}
           diagnosed == IF named THEN failed ELSE {}
           verdict == IF f = "batch_manifest" THEN Verdict(rows) ELSE "none"
           P(w) == [round |-> round, whole |-> w, rows |-> Listed(f), verdict |-> verdict,
                    names |-> names, diagnosed |-> diagnosed]
<1>1. TypeOK /\ RowsNamed /\ RowsTellTheRuns /\ batch \in BatchId
  BY DEF BatchInv, TypeOK
<1>2. step \in 0 .. 6 /\ round \in 1 .. MaxRounds /\ rows \in Rows
  BY <1>1, PlacesAssumption DEF TypeOK
<1>3. f \in BatchFile /\ written \in SUBSET BatchFile
  BY <1>2, OrderFacts
<1>4. Listed(f) \in Rows
  BY <1>2, <1>3, ListedRows
<1>5. \A p \in Failures(rows) : p \in Recorded /\ p \in Cases /\ rows[p].status = "failed"
  BY <1>1 DEF Failures, Recorded, RowsNamed
<1>6. \A p \in Failures(rows) :
        /\ rows[p].diagnostic \in DiagnosticIds
        /\ diagnostics[batch][rows[p].diagnostic] # None
  <2>1. TAKE p \in Failures(rows)
  <2>2. p \in Recorded /\ p \in Cases /\ rows[p].status = "failed" /\ p \in Place
    BY <1>5 DEF Cases
  <2>3. rows[p].diagnostic = Diagnostic(p) /\ Diagnostic(p) \in DiagnosticIds
    BY <1>1, <2>2, NamesInRange DEF RowsNamed
  <2>4. diagnostics[batch][rows[p].diagnostic] = Mine(p)
    BY <1>1, <2>2 DEF RowsTellTheRuns
  <2>5. Mine(p) \in Stamp
    BY <1>2, <2>2 DEF Mine, Stamp
  <2> QED
    BY <2>3, <2>4, <2>5, NoneAssumption
<1>7. failed \in SUBSET DiagnosticIds /\ \A d \in failed : diagnostics[batch][d] # None
  BY <1>6
<1>8. Verdict(rows) \in {"success", "partial_failure"}
  BY DEF Verdict
<1>9. Payload = P(TRUE)
  BY DEF Payload
<1>10. /\ names \in SUBSET BatchFile /\ names \subseteq written
       /\ diagnosed \in SUBSET DiagnosticIds /\ \A d \in diagnosed : diagnostics[batch][d] # None
       /\ verdict \in {"none", "success", "partial_failure"}
       /\ f = "batch_manifest" => verdict = Verdict(rows)
  BY <1>3, <1>7, <1>8
<1> HIDE DEF f, written, named, failed, names, diagnosed, verdict
<1>11. /\ P(TRUE) \in Content /\ P(TRUE).round = round /\ P(TRUE).rows = Listed(f)
       /\ P(TRUE).whole = TRUE /\ P(TRUE).verdict = verdict
       /\ P(TRUE).names = names /\ P(TRUE).diagnosed = diagnosed
  BY <1>2, <1>4, <1>10 DEF Content
<1> HIDE DEF P
<1> DEFINE q == [P(TRUE) EXCEPT !.whole = FALSE]
<1>12. /\ q \in Content /\ q.round = round /\ q.rows = Listed(f) /\ q.verdict = verdict
       /\ q.names = names /\ q.diagnosed = diagnosed
  BY <1>11 DEF Content
<1>13. q.whole = FALSE
  BY <1>11 DEF Content
<1>14. IsPayload(P(TRUE), f)
  BY <1>10, <1>11 DEF IsPayload, written
<1> HIDE DEF q
<1>15. IsPayload(q, f)
  BY <1>10, <1>12 DEF IsPayload, written
<1> QED
  BY <1>9, <1>11, <1>13, <1>14, <1>15 DEF f, q

(* A file opened or completed keeps all catalogs in agreement. *)
LEMMA WriteStep ==
  ASSUME BatchInv, phase = "write", step < 7, NEW c, IsPayload(c, Order[step + 1]),
         files' = [files EXCEPT ![batch][Order[step + 1]] = c],
         UNCHANGED <<roundVars, phase, rows, runs, diagnostics, exit>>,
         \/ ~torn /\ torn' = TRUE /\ step' = step /\ c.whole = FALSE
         \/ torn' = FALSE /\ step' = step + 1 /\ c.whole = TRUE
  PROVE  BatchInv'
<1> DEFINE f0 == Order[step + 1]
<1> USE DEF BatchInv
<1>1. step \in 0 .. 6 /\ batch \in BatchId /\ round \in 1 .. MaxRounds /\ rows \in Rows
  BY PlacesAssumption DEF TypeOK
<1>2. f0 \in BatchFile
  BY <1>1, OrderFacts
<1>3. /\ c \in Content /\ c # None /\ c.round = round /\ c.rows = Listed(f0)
      /\ f0 = "batch_manifest" => c.verdict = Verdict(rows)
      /\ c.names \subseteq {Order[i] : i \in 1 .. step}
      /\ \A d \in c.diagnosed : diagnostics[batch][d] # None
  BY NoneAssumption DEF IsPayload
<1>4. /\ files' \in [BatchId -> [BatchFile -> Content \cup {None}]]
      /\ \A b \in BatchId, f \in BatchFile :
           files'[b][f] = IF b = batch /\ f = f0 THEN c ELSE files[b][f]
  BY <1>1, <1>2, <1>3, EntrySet DEF TypeOK
<1>5. Cases' = Cases /\ Recorded' = Recorded /\ batch' = batch /\ round' = round
  BY SameNames DEF Recorded, roundVars
<1>6. \A f \in BatchFile : Listed(f)' = Listed(f)
  BY DEF Listed, Only, Failures
<1>7. step' \in 0 .. 7
  BY <1>1
<1>8. torn' \in BOOLEAN
  OBVIOUS
<1>9. TypeOK'
  BY <1>4, <1>7, <1>8 DEF TypeOK, roundVars
<1>10. RowsNamed' /\ Turns'
  BY <1>1, <1>5, SameNames DEF RowsNamed, Turns, Told, Recorded
<1>11. RowsTellTheRuns'
  BY <1>5, SameNames DEF RowsTellTheRuns, Recorded, roundVars
<1>12. FilesOfTheBatch'
  <2>1. \A b \in BatchId, f \in BatchFile : files'[b][f] # None => files'[b][f].round <= round
    BY <1>1, <1>3, <1>4 DEF FilesOfTheBatch
  <2>2. \A b \in BatchId, f \in BatchFile : Current(b, f)' => b = batch /\ files'[b][f].rows = Listed(f)
    BY <1>3, <1>4, <1>5 DEF FilesOfTheBatch, Current
  <2>3. ASSUME NEW i \in 1 .. step'
        PROVE  /\ Current(batch, Order[i])'
               /\ files'[batch][Order[i]].whole
                    \/ (torn' /\ step' < 7 /\ Order[step' + 1] = Order[i])
    <3>1. i \in 1 .. 7 /\ Order[i] \in BatchFile
      BY <1>7, OrderFacts
    <3>2. CASE Order[i] = f0
      <4>1. files'[batch][Order[i]] = c
        BY <1>1, <1>4, <3>1, <3>2
      <4> QED
        BY <1>1, <1>3, <1>5, <3>1, <3>2, <4>1 DEF Current
    <3>3. CASE Order[i] # f0
      <4>1. files'[batch][Order[i]] = files[batch][Order[i]] /\ i \in 1 .. step
        BY <1>1, <1>4, <3>1, <3>3
      <4>2. Current(batch, Order[i]) /\ files[batch][Order[i]].whole
        BY <3>3, <4>1 DEF FilesOfTheBatch
      <4> QED
        BY <1>5, <4>1, <4>2 DEF Current
    <3> QED
      BY <3>2, <3>3
  <2> QED
    BY <1>5, <1>6, <2>1, <2>2, <2>3 DEF FilesOfTheBatch
<1>13. CatalogsAgree'
  <2>1. ASSUME NEW b \in BatchId, NEW f \in BatchFile, NEW g \in BatchFile, On(b, f)'
        PROVE  /\ On(b, g)' /\ files'[b][f].round = files'[b][g].round =>
                    /\ {f, g} \subseteq {"catalog_csv", "catalog_json", "batch_manifest"} =>
                         files'[b][f].rows = files'[b][g].rows
                    /\ f \in {"failures_csv", "failures_json"} /\ g = "catalog_json" =>
                         files'[b][f].rows = Only(files'[b][g].rows, Failures(files'[b][g].rows))
               /\ f = "batch_manifest" => files'[b][f].verdict = Verdict(files'[b][f].rows)
               /\ g \in files'[b][f].names =>
                    files'[b][g] # None /\ files'[b][g].round >= files'[b][f].round
               /\ \A d \in files'[b][f].diagnosed : diagnostics[b][d] # None
    <3>1. CASE b = batch /\ f = f0
      <4>1. files'[b][f] = c
        BY <1>4, <3>1
      <4>2. On(b, g)' /\ c.round = files'[b][g].round => files'[b][g].rows = Listed(g)
        BY <1>3, <1>4, <3>1 DEF FilesOfTheBatch, Current, On
      <4>3. /\ \A h \in {"catalog_csv", "catalog_json", "batch_manifest"} : Listed(h) = rows
            /\ \A h \in {"failures_csv", "failures_json"} : Listed(h) = Only(rows, Failures(rows))
        BY <1>1, ListedRows
      <4>4. g \in c.names => files'[b][g] # None /\ files'[b][g].round = round
        <5>1. SUFFICES ASSUME g \in c.names PROVE files'[b][g] # None /\ files'[b][g].round = round
          OBVIOUS
        <5>2. PICK i \in 1 .. step : g = Order[i]
          BY <1>3, <5>1
        <5>3. Current(batch, g)
          BY <5>2 DEF FilesOfTheBatch
        <5> QED
          BY <1>3, <1>4, <3>1, <5>3 DEF Current
      <4> QED
        BY <1>1, <1>3, <3>1, <4>1, <4>2, <4>3, <4>4
    <3>2. CASE ~(b = batch /\ f = f0)
      <4>1. files'[b][f] = files[b][f] /\ On(b, f)
        BY <1>4, <2>1, <3>2 DEF On
      <4>2. CASE b = batch /\ g = f0
        <5>1. files'[b][g] = c
          BY <1>4, <4>2
        <5>2. c.round = files[b][f].round => files[b][f].rows = Listed(f)
          BY <1>3, <4>1, <4>2 DEF FilesOfTheBatch, Current, On
        <5>3. /\ \A h \in {"catalog_csv", "catalog_json", "batch_manifest"} : Listed(h) = rows
              /\ \A h \in {"failures_csv", "failures_json"} : Listed(h) = Only(rows, Failures(rows))
          BY <1>1, ListedRows
        <5>4. c # None /\ c.round >= files[b][f].round
          <6>1. files[b][f] # None /\ files[b][f] \in Content
            BY <4>1 DEF On, TypeOK
          <6>2. files[b][f].round \in 1 .. MaxRounds /\ files[b][f].round <= round
            BY <6>1 DEF FilesOfTheBatch, Content
          <6> QED
            BY <1>1, <1>3, <6>2, PlacesAssumption
        <5>5. /\ f = "batch_manifest" => files[b][f].verdict = Verdict(files[b][f].rows)
              /\ \A d \in files[b][f].diagnosed : diagnostics[b][d] # None
          BY <4>1 DEF CatalogsAgree
        <5> QED
          BY <1>3, <4>1, <4>2, <5>1, <5>2, <5>3, <5>4, <5>5
      <4>3. CASE ~(b = batch /\ g = f0)
        <5>1. files'[b][g] = files[b][g]
          BY <1>4, <4>3
        <5>2. On(b, g)' => On(b, g)
          BY <5>1 DEF On
        <5> QED
          BY <4>1, <5>1, <5>2 DEF CatalogsAgree
      <4> QED
        BY <4>2, <4>3
    <3> QED
      BY <3>1, <3>2
  <2> QED
    BY <2>1 DEF CatalogsAgree, Only, Failures, Verdict
<1> QED
  BY <1>9, <1>10, <1>11, <1>12, <1>13

LEMMA FileStep ==
  ASSUME BatchInv, OpenFile \/ CloseFile
  PROVE  BatchInv'
<1>1. batch \in BatchId /\ step < 7 /\ phase = "write"
  <2>1. phase = "write" /\ step \in 0 .. 7 /\ batch \in BatchId
    BY DEF BatchInv, TypeOK, OpenFile, CloseFile
  <2>2. step < 7
    BY <2>1 DEF BatchInv, Turns, Told, OpenFile, CloseFile
  <2> QED
    BY <2>1, <2>2
<1>2. /\ IsPayload(Payload, Order[step + 1]) /\ Payload.whole = TRUE
      /\ IsPayload([Payload EXCEPT !.whole = FALSE], Order[step + 1])
      /\ [Payload EXCEPT !.whole = FALSE].whole = FALSE
  BY <1>1, PayloadFacts
<1>3. CASE OpenFile
  <2> DEFINE c == [Payload EXCEPT !.whole = FALSE]
  <2>1. /\ IsPayload(c, Order[step + 1]) /\ c.whole = FALSE
    BY <1>2
  <2>2. files' = [files EXCEPT ![batch][Order[step + 1]] = c]
    BY <1>3 DEF OpenFile
  <2> HIDE DEF c
  <2>3. /\ UNCHANGED <<roundVars, phase, rows, runs, diagnostics, exit>>
        /\ ~torn /\ torn' = TRUE /\ step' = step
    BY <1>3 DEF OpenFile
  <2> QED
    BY <1>1, <2>1, <2>2, <2>3, WriteStep
<1>4. CASE CloseFile
  <2>1. files' = [files EXCEPT ![batch][Order[step + 1]] = Payload]
    BY <1>4 DEF CloseFile
  <2>2. /\ UNCHANGED <<roundVars, phase, rows, runs, diagnostics, exit>>
        /\ torn' = FALSE /\ step' = step + 1
    BY <1>4 DEF CloseFile
  <2> QED
    BY <1>1, <1>2, <2>1, <2>2, WriteStep
<1> QED
  BY <1>3, <1>4

(* No batch has begun: nothing is on disk. *)
LEMMA InitInv == Init => BatchInv
<1> SUFFICES ASSUME Init PROVE BatchInv
  OBVIOUS
<1>1. Recorded = {} /\ rows \in Rows
  BY DEF Init, Recorded, Rows
<1>2. /\ runs \in [RunIds -> [Metadata -> Stamp \cup {None}]]
      /\ diagnostics \in [BatchId -> [DiagnosticIds -> Stamp \cup {None}]]
      /\ files \in [BatchId -> [BatchFile -> Content \cup {None}]]
      /\ \A b \in BatchId, f \in BatchFile : files[b][f] = None
  BY DEF Init
<1>3. torn \in BOOLEAN /\ metadata \in BOOLEAN
  BY DEF Init
<1>4. /\ tree \in [Place -> {"other", "case", "broken"}] /\ batch \in BatchId \cup {None}
      /\ round \in 0 .. MaxRounds /\ phase = "idle" /\ step \in 0 .. 7
      /\ exit \in {None, 0, 4}
  BY PlacesAssumption DEF Init
<1>5. TypeOK
  BY <1>1, <1>2, <1>3, <1>4 DEF TypeOK
<1>6. RowsNamed /\ Turns /\ RowsTellTheRuns
  BY <1>1, <1>4 DEF RowsNamed, Turns, Told, RowsTellTheRuns, Init
<1>7. FilesOfTheBatch
  BY <1>2, <1>4 DEF FilesOfTheBatch, Current
<1>8. CatalogsAgree
  BY <1>2 DEF CatalogsAgree, On
<1> QED
  BY <1>5, <1>6, <1>7, <1>8 DEF BatchInv

LEMMA NextInv == BatchInv /\ [Next]_vars => BatchInv'
<1> SUFFICES ASSUME BatchInv, [Next]_vars PROVE BatchInv'
  OBVIOUS
<1>1. CASE StartBatch
  BY <1>1, StartStep
<1>2. CASE Discover \/ CasesDone \/ Return
  BY <1>2, QuietStep
<1>3. CASE OpenFile \/ CloseFile
  BY <1>3, FileStep
<1>4. CASE \E p \in Place : Succeed(p) \/ FailCase(p)
  BY <1>4, CaseStep
<1>5. CASE Kill
  BY <1>5, KillStep
<1>6. CASE UNCHANGED vars
  <2>1. UNCHANGED <<roundVars, phase, rows, step, torn, diskVars, exit>>
    BY <1>6 DEF vars
  <2>2. Cases' = Cases /\ Recorded' = Recorded
    BY <2>1, SameNames DEF Recorded
  <2>3. TypeOK'
    BY <2>1 DEF BatchInv, TypeOK, roundVars, diskVars
  <2>4. RowsNamed' /\ RowsTellTheRuns'
    BY <2>1, <2>2, SameNames DEF BatchInv, RowsNamed, RowsTellTheRuns, Recorded, roundVars, diskVars
  <2>5. Turns'
    BY <2>1, <2>2 DEF BatchInv, Turns, Told, ExitCode, Failures
  <2>6. \A b \in BatchId, f \in BatchFile : Current(b, f)' = Current(b, f) /\ Listed(f)' = Listed(f)
    BY <2>1 DEF Current, Listed, Only, Failures, roundVars, diskVars
  <2>7. FilesOfTheBatch'
    <3>1. /\ files' = files /\ round' = round /\ batch' = batch
          /\ phase' = phase /\ step' = step /\ torn' = torn
      BY <2>1 DEF roundVars, diskVars
    <3>2. FilesOfTheBatch
      BY DEF BatchInv
    <3>3. (\A b \in BatchId, f \in BatchFile : files[b][f] # None => files[b][f].round <= round)'
      BY <3>1, <3>2 DEF FilesOfTheBatch
    <3>4. (\A b \in BatchId, f \in BatchFile : Current(b, f) =>
             b = batch /\ phase \in {"write", "done", "killed"} /\ files[b][f].rows = Listed(f))'
      BY <2>6, <3>1, <3>2 DEF FilesOfTheBatch
    <3>5. \A b, f : Current(b, f)' <=> Current(b, f)
      BY <3>1 DEF Current
    <3>6. (phase \in {"write", "done"} => \A i \in 1 .. step :
             /\ Current(batch, Order[i])
             /\ files[batch][Order[i]].whole \/ (torn /\ step < 7 /\ Order[step + 1] = Order[i]))'
      BY <3>1, <3>2, <3>5 DEF FilesOfTheBatch, Current
    <3> QED
      BY <3>3, <3>4, <3>6 DEF FilesOfTheBatch
  <2>8. CatalogsAgree'
    BY <2>1, CatalogsKept DEF BatchInv, diskVars
  <2> QED
    BY <2>3, <2>4, <2>5, <2>7, <2>8 DEF BatchInv
<1> QED
  BY <1>1, <1>2, <1>3, <1>4, <1>5, <1>6 DEF Next, Work

-----------------------------------------------------------------------------
(* In every batch, rows, files, catalogs and phases are consistent.        *)
THEOREM BatchIsConsistent == Spec => []BatchInv
  BY InitInv, NextInv, PTL DEF Spec

(* Every variable keeps its type, whatever the batches are given.          *)
THEOREM BatchTypes == Spec => []TypeOK
<1>1. BatchInv => TypeOK
  BY DEF BatchInv
<1> QED
  BY <1>1, BatchIsConsistent, PTL

(* What a row says of its run directory and diagnostic stays true until    *)
(* the next batch: no case takes over what belongs to another, although    *)
(* names and slugs may coincide (batch_manager.py:265).                    *)
THEOREM RowsAreTrue == Spec => []RowsTellTheRuns
<1>1. BatchInv => RowsTellTheRuns
  BY DEF BatchInv
<1> QED
  BY <1>1, BatchIsConsistent, PTL

(* Complete catalogs, manifests and indexes of one batch tell one story    *)
(* and name what is there, also after a batch was killed and its id used   *)
(* again (batch_manager.py:313-387).                                       *)
THEOREM CatalogsAreTrue == Spec => []CatalogsAgree
<1>1. BatchInv => CatalogsAgree
  BY DEF BatchInv
<1> QED
  BY <1>1, BatchIsConsistent, PTL

(* A batch that returns has told the outcome of every case, in complete    *)
(* files of its own and in its exit code.                                  *)
THEOREM DoneIsTold == Spec => []DoneMeansTold
<1>1. ASSUME BatchInv PROVE DoneMeansTold
  <2> USE <1>1 DEF BatchInv
  <2>1. phase \in {"write", "done"} => Recorded = Cases
    BY DEF Turns
  <2>2. ASSUME phase = "done"
        PROVE  /\ \A f \in BatchFile : On(batch, f) /\ files[batch][f].round = round
               /\ files[batch]["batch_manifest"].rows = rows
               /\ exit = 0 <=> \A p \in Cases : rows[p].status = "success"
    <3>1. step = 7 /\ ~torn /\ exit = ExitCode /\ batch \in BatchId /\ rows \in Rows
      BY <2>2 DEF Turns, Told, TypeOK
    <3>2. ASSUME NEW f \in BatchFile
          PROVE  On(batch, f) /\ Current(batch, f)
      <4>1. PICK i \in 1 .. 7 : Order[i] = f
        BY OrderFacts
      <4>2. Current(batch, Order[i]) /\ files[batch][Order[i]].whole
        BY <2>2, <3>1, <4>1 DEF FilesOfTheBatch
      <4> QED
        BY <4>1, <4>2 DEF On, Current
    <3>3. "batch_manifest" \in BatchFile
      BY DEF BatchFile
    <3>4. files[batch]["batch_manifest"].rows = rows
      BY <3>1, <3>2, <3>3, ListedRows DEF FilesOfTheBatch
    <3>5. exit = 0 <=> Failures(rows) = {}
      BY <3>1 DEF ExitCode
    <3>6. \A p \in Cases : p \in Recorded /\ p \in Place /\ rows[p] \in Row
      BY <2>1, <2>2, <3>1 DEF Recorded, Rows
    <3>7. \A p \in Cases : rows[p] # None /\ rows[p].status \in {"success", "failed"}
      BY <3>6, NoneAssumption DEF Row
    <3>8. Failures(rows) = {} <=> \A p \in Cases : rows[p].status = "success"
      BY <2>1, <2>2, <3>6, <3>7 DEF Failures, Recorded
    <3> QED
      BY <3>2, <3>4, <3>5, <3>8 DEF Current
  <2> QED
    BY <2>1, <2>2 DEF DoneMeansTold
<1> QED
  BY <1>1, BatchIsConsistent, PTL
-----------------------------------------------------------------------------
(* Where no batch is at its cases, nothing is due, decided or told. *)
LEMMA NotRunning ==
  ASSUME phase' \notin {"cases", "write", "done"}
  PROVE  Promise!Begin
<1>1. ~Running'
  BY DEF Running
<1>2. Due' = {} /\ GivenVerdict' = "none" /\ Outcome' = [p \in Place |-> "pending"]
  BY <1>1 DEF Due, GivenVerdict, Outcome, Running
<1> QED
  BY <1>2 DEF Promise!Begin

(* A row decides the outcome of its case. *)
LEMMA RowDecides ==
  ASSUME BatchInv, NEW p \in Place, phase = "cases", IsTurnOf(p),
         UNCHANGED <<roundVars, phase, exit>>,
         NEW row, row # None, row.status \in {"success", "failed"},
         rows' = [rows EXCEPT ![p] = row]
  PROVE  Promise!Decide(p)
<1>1. rows \in [Place -> Row \cup {None}]
  BY DEF BatchInv, TypeOK, Rows
<1>2. Running /\ Running' /\ Due' = Due /\ p \in Due
  BY DEF Running, Due, Cases, roundVars, IsTurnOf
<1>3. GivenVerdict = "none" /\ GivenVerdict' = "none"
  BY DEF GivenVerdict
<1>4. Outcome[p] = "pending"
  BY <1>2 DEF Outcome, IsTurnOf, Recorded
<1>5. rows'[p] = row /\ \A q \in Place : q # p => rows'[q] = rows[q]
  BY <1>1
<1>6. Outcome' = [Outcome EXCEPT ![p] = row.status]
  <2>1. Outcome'[p] = row.status
    BY <1>2, <1>5 DEF Outcome
  <2>2. \A q \in Place : q # p => Outcome'[q] = Outcome[q]
    BY <1>2, <1>5 DEF Outcome
  <2>3. Outcome = [q \in Place |-> Outcome[q]] /\ Outcome' = [q \in Place |-> Outcome'[q]]
    BY DEF Outcome
  <2> QED
    BY <2>1, <2>2, <2>3
<1> QED
  BY <1>2, <1>3, <1>4, <1>6 DEF Promise!Decide

(* The exit code is the verdict on the outcomes of all cases. *)
LEMMA ReturnTells ==
  ASSUME BatchInv, Return
  PROVE  Promise!GiveVerdict
<1>1. /\ phase = "write" /\ phase' = "done" /\ exit' = ExitCode
      /\ rows' = rows /\ tree' = tree
  BY DEF Return, roundVars
<1>2. Recorded = Cases /\ rows \in [Place -> Row \cup {None}]
  BY <1>1 DEF BatchInv, Turns, TypeOK, Rows
<1>3. Running /\ Running' /\ Due = Cases /\ Due' = Due /\ Outcome' = Outcome
  BY <1>1 DEF Running, Due, Cases, Outcome
<1>4. \A p \in Cases : /\ p \in Place /\ rows[p] # None
                       /\ rows[p].status \in {"success", "failed"}
                       /\ Outcome[p] = rows[p].status
  BY <1>2, <1>3, NoneAssumption DEF Recorded, Outcome, Row
<1>5. Failures(rows) = {} <=> \A p \in Cases : Outcome[p] = "success"
  BY <1>2, <1>4 DEF Failures, Recorded
<1>6. GivenVerdict = "none"
      /\ GivenVerdict' = IF Failures(rows) = {} THEN "success" ELSE "partial_failure"
  BY <1>1 DEF GivenVerdict, ExitCode
<1> QED
  BY <1>3, <1>4, <1>5, <1>6 DEF Promise!GiveVerdict

(* Whatever a batch does is a step of the promise, or nothing to it. *)
LEMMA StepKeepsThePromise ==
  ASSUME BatchInv, [Next]_vars
  PROVE  [Promise!Next]_(Promise!vars)
<1>1. CASE StartBatch \/ Kill
  <2>1. phase' \notin {"cases", "write", "done"}
    BY <1>1 DEF StartBatch, Kill
  <2> QED
    BY <2>1, NotRunning DEF Promise!Next
<1>2. CASE Discover
  <2>1. CASE phase' = "failed"
    BY <2>1, NotRunning DEF Promise!Next
  <2>2. CASE phase' = "cases"
    <3>1. Recorded = {} /\ rows' = rows /\ tree' = tree
      BY <1>2 DEF Discover, BatchInv, Turns, roundVars
    <3>2. Due' \in SUBSET Place /\ GivenVerdict' = "none"
      BY <2>2 DEF Due, Running, Cases, GivenVerdict
    <3>3. Outcome' = [p \in Place |-> "pending"]
      BY <3>1 DEF Outcome, Recorded
    <3> QED
      BY <3>2, <3>3 DEF Promise!Next, Promise!Begin
  <2> QED
    BY <1>2, <2>1, <2>2 DEF Discover
<1>3. CASE CasesDone \/ OpenFile \/ CloseFile \/ UNCHANGED vars
  <2>1. rows' = rows /\ tree' = tree /\ exit' = exit
    BY <1>3 DEF CasesDone, OpenFile, CloseFile, vars, roundVars
  <2>2. Running' = Running /\ GivenVerdict' = GivenVerdict
    BY <1>3, <2>1 DEF CasesDone, OpenFile, CloseFile, vars, Running, GivenVerdict
  <2>3. Due' = Due /\ Outcome' = Outcome
    BY <2>1, <2>2 DEF Due, Outcome, Cases
  <2> QED
    BY <2>2, <2>3 DEF Promise!vars
<1>4. CASE Return
  BY <1>4, ReturnTells DEF Promise!Next
<1>5. ASSUME NEW p \in Place, Succeed(p) \/ FailCase(p)
      PROVE  Promise!Next
  <2>1. phase = "cases" /\ IsTurnOf(p) /\ UNCHANGED <<roundVars, phase, exit>>
    BY <1>5, OwnRow
  <2>2. PICK row \in Row : rows' = [rows EXCEPT ![p] = row]
    BY <1>5, OwnRow
  <2>3. row # None /\ row.status \in {"success", "failed"}
    BY NoneAssumption DEF Row
  <2>4. Promise!Decide(p)
    BY <2>1, <2>2, <2>3, RowDecides
  <2> QED
    BY <2>4 DEF Promise!Next
<1> QED
  BY <1>1, <1>2, <1>3, <1>4, <1>5 DEF Next, Work

(* A batch over any directories, killed and started again at any moment,   *)
(* gives each of its cases one outcome, changes none that was given, and   *)
(* tells a verdict only on all of them (batch_manager.py:212-387).         *)
THEOREM BatchKeepsThePromise == Spec => KeepsThePromise
<1>1. Init => Promise!Init
  BY DEF Init, Promise!Init, Due, Running, Outcome, GivenVerdict
<1>2. BatchInv /\ [Next]_vars => [Promise!Next]_(Promise!vars)
  BY StepKeepsThePromise
<1> QED
  BY <1>1, <1>2, BatchIsConsistent, PTL DEF Spec, KeepsThePromise, Promise!Spec
=============================================================================
