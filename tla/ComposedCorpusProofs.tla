------------------------ MODULE ComposedCorpusProofs ------------------------
(***************************************************************************)
(* Proofs about the composed corpus, for every content of the siblings'    *)
(* files, every table of the builder and any number of scripts and edits:  *)
(* a run.sh that passes has earned it, and results whose checksums match   *)
(* are one.                                                                *)
(*                                                                         *)
(* What the scripts compute stays an operator of what they read; it is     *)
(* unfolded only where a property looks into the rows.                     *)
(***************************************************************************)
EXTENDS ComposedCorpus, FiniteSetTheorems, TLAPS

-----------------------------------------------------------------------------
(* The layers.                                                             *)

LEMMA LayersAreFive ==
  LayerNames = {"policy", "evidence", "state", "authority", "measurement"}
<1>1. /\ DOMAIN EvaluationOrder = 1..5 /\ EvaluationOrder[1] = "policy"
      /\ EvaluationOrder[2] = "evidence" /\ EvaluationOrder[3] = "state"
      /\ EvaluationOrder[4] = "authority" /\ EvaluationOrder[5] = "measurement"
  BY DEF EvaluationOrder
<1> QED
  BY <1>1 DEF LayerNames

LEMMA LayersCounted == IsFiniteSet(LayerNames) /\ Cardinality(LayerNames) = 5
<1> DEFINE one == {"policy"}
           two == one \cup {"evidence"}
           three == two \cup {"state"}
           four == three \cup {"authority"}
<1>1. IsFiniteSet(one) /\ Cardinality(one) = 1
  BY FS_Singleton
<1>2. IsFiniteSet(two) /\ Cardinality(two) = 2
  BY <1>1, FS_AddElement
<1>3. IsFiniteSet(three) /\ Cardinality(three) = 3
  BY <1>2, FS_AddElement
<1>4. IsFiniteSet(four) /\ Cardinality(four) = 4
  BY <1>3, FS_AddElement
<1>5. LayerNames = four \cup {"measurement"} /\ "measurement" \notin four
  BY LayersAreFive
<1> HIDE DEF four
<1> QED
  BY <1>4, <1>5, FS_AddElement

(* Four of five pass exactly when at most one fails. *)
LEMMA MajorityForgivesOne ==
  ASSUME NEW r
  PROVE  Majority(r) <=> FailedLayers(r) = {} \/ Cardinality(FailedLayers(r)) = 1
<1> DEFINE F == FailedLayers(r)
<1>1. F \subseteq LayerNames
  BY DEF FailedLayers
<1> HIDE DEF F
<1>2. IsFiniteSet(F) /\ Cardinality(F) \in Nat
  BY <1>1, LayersCounted, FS_Subset, FS_CardinalityType
<1>3. Cardinality(LayerNames \ F) = 5 - Cardinality(F)
  <2>1. LayerNames \cap F = F
    BY <1>1
  <2> QED
    BY <2>1, LayersCounted, FS_Difference
<1>4. Cardinality(F) = 0 <=> F = {}
  BY <1>2, FS_EmptySet
<1> QED
  BY <1>2, <1>3, <1>4 DEF Majority, F

-----------------------------------------------------------------------------
(* The rows of the verifier.                                               *)

(* They are the corpus's, with its expectations, and each fits.            *)
LEMMA RowsOfFit ==
  ASSUME NEW src, NEW corpus
  PROVE  RowsFit(RowsOf(src, corpus), corpus)
<1> DEFINE rows == RowsOf(src, corpus)
<1>1. DOMAIN rows = DOMAIN corpus.transactions
  BY DEF RowsOf
<1>2. ASSUME NEW c \in DOMAIN rows
      PROVE  rows[c].expected = corpus.transactions[c].expected /\ RowFits(rows[c])
  <2>1. rows[c] = RowOf(c, src, corpus)
    BY <1>1, <1>2 DEF RowsOf
  <2> DEFINE stored == corpus.transactions[c]
             subjects == SubjectsOf(c, src, corpus.measurement_variants)
             found == Evaluated(c, src, stored.attestation_result, corpus.measurement_variants)
             gate == src.authority_corpus[c.authority_case].gate
             row == RowOf(c, src, corpus)
  <2>2. /\ row.composed = Compose(found, gate, subjects)
        /\ row.four_of_five_majority = Verdict(Majority(found))
        /\ row.expected = stored.expected
    BY DEF RowOf
  <2> HIDE DEF row, found, gate, subjects
  <2>3. /\ row.composed.layer_results = found
        /\ row.composed.failed_layers = FailedLayers(found)
        /\ row.composed.binding_result = Bind(subjects)
        /\ row.composed.verdict = Verdict(FailedLayers(found) = {} /\ Bind(subjects) = "PASS")
    BY <2>2 DEF Compose
  <2>4. RowFits(row)
    BY <2>2, <2>3 DEF RowFits
  <2> QED
    BY <2>1, <2>2, <2>4 DEF row
<1> HIDE DEF rows
<1> QED
  BY <1>1, <1>2 DEF RowsFit, rows

LEMMA SummaryFields ==
  ASSUME NEW rows, NEW b
  PROVE  LET s == SummaryOf(rows, b)
         IN  /\ s.transactions = DOMAIN rows
             /\ s.expected_matches = {i \in DOMAIN rows : rows[i].composed = rows[i].expected}
             /\ s.per_layer_expected_matches =
                  {i \in DOMAIN rows :
                     rows[i].composed.layer_results = rows[i].expected.layer_results}
             /\ s.source_hashes_match_corpus = b
             /\ s.cross_layer_denials = CrossLayer(rows)
             /\ s.four_of_five_equals_single_fault_denies =
                  (FalseAllows(rows) = SingleFaults(rows))
             /\ s.four_of_five_equals_single_fault_or_cross_layer =
                  (FalseAllows(rows) = SingleFaults(rows) \cup CrossLayer(rows))
BY DEF SummaryOf

(* When all is as expected the majority's false allows are the single      *)
(* faults and the cross-layer denials, which no single fault is.           *)
LEMMA RefinedIdentity ==
  ASSUME NEW rows,
         \A i \in DOMAIN rows : RowFits(rows[i]) /\ rows[i].composed = rows[i].expected
  PROVE  /\ FalseAllows(rows) = SingleFaults(rows) \cup CrossLayer(rows)
         /\ SingleFaults(rows) \cap CrossLayer(rows) = {}
<1>1. Cardinality({}) = 0
  BY FS_EmptySet
<1>2. ASSUME NEW i \in DOMAIN rows
      PROVE  /\ i \in FalseAllows(rows) <=> i \in SingleFaults(rows) \/ i \in CrossLayer(rows)
             /\ ~ (i \in SingleFaults(rows) /\ i \in CrossLayer(rows))
  <2> DEFINE row == rows[i]
             r == row.composed.layer_results
  <2>1. row.composed = row.expected /\ row.composed.verdict = row.expected.verdict
    BY <1>2
  <2>2. /\ row.composed.failed_layers = FailedLayers(r)
        /\ row.four_of_five_majority = Verdict(Majority(r))
    BY <1>2 DEF RowFits
  <2>3. row.four_of_five_majority = "ALLOW" <=>
          FailedLayers(r) = {} \/ Cardinality(FailedLayers(r)) = 1
    BY <2>2, MajorityForgivesOne DEF Verdict
  <2>4. /\ i \in FalseAllows(rows) <=>
             row.four_of_five_majority = "ALLOW" /\ row.expected.verdict = "DENY"
        /\ i \in SingleFaults(rows) <=>
             row.expected.verdict = "DENY" /\ Cardinality(row.composed.failed_layers) = 1
        /\ i \in CrossLayer(rows) <=>
             row.composed.verdict = "DENY" /\ row.composed.failed_layers = {}
    BY DEF FalseAllows, SingleFaults, CrossLayer
  <2> HIDE DEF row, r
  <2> QED
    BY <1>1, <2>1, <2>2, <2>3, <2>4
<1>3. /\ FalseAllows(rows) \subseteq DOMAIN rows
      /\ SingleFaults(rows) \subseteq DOMAIN rows
      /\ CrossLayer(rows) \subseteq DOMAIN rows
  BY DEF FalseAllows, SingleFaults, CrossLayer
<1> QED
  BY <1>2, <1>3

-----------------------------------------------------------------------------
(* The inductive invariant.                                                *)

LEMMA InitInv == Init => CorpusRunInv
<1> SUFFICES ASSUME Init PROVE CorpusRunInv
  OBVIOUS
<1>1. /\ DOMAIN files = Files /\ pc = "idle" /\ chain = "none"
      /\ files.sums = None /\ files.oracle_sums = None
  BY DEF Init, Files
<1>2. FilesInv /\ ChainInv
  BY <1>1 DEF FilesInv, ChainInv
<1>3. ScriptInv
  BY <1>1 DEF ScriptInv
<1>4. SumsInv
  BY <1>1 DEF SumsInv
<1>5. UndisturbedInv /\ PassedInv
  BY <1>1 DEF UndisturbedInv, PassedInv
<1> QED
  BY <1>2, <1>3, <1>4, <1>5 DEF CorpusRunInv

(* A write changes one file. *)
LEMMA SaveChanges ==
  ASSUME FilesInv, NEW f \in Files, NEW value, Save(f, value)
  PROVE  FilesInv' /\ files'[f] = value /\ \A g \in Files \ {f} : files'[g] = files[g]
BY DEF FilesInv, Save

(* What is said of the files of a run does not change with other files.    *)
LEMMA CorpusFrame ==
  ASSUME files'["corpus"] = files["corpus"], CorpusInv
  PROVE  CorpusInv'
BY DEF CorpusInv

LEMMA VerdictsFrame ==
  ASSUME files'["corpus"] = files["corpus"], files'["verdicts"] = files["verdicts"],
         UNCHANGED sources, VerdictsInv
  PROVE  VerdictsInv'
BY DEF VerdictsInv

LEMMA OracleFrame ==
  ASSUME files'["verdicts"] = files["verdicts"],
         files'["oracle_verdicts"] = files["oracle_verdicts"], OracleInv
  PROVE  OracleInv'
BY DEF OracleInv

LEMMA SumsFrame ==
  ASSUME files'["sums"] = files["sums"], files'["oracle_sums"] = files["oracle_sums"], SumsInv
  PROVE  SumsInv'
BY DEF SumsInv

(* While a script runs nothing has passed. *)
LEMMA NothingPassed == ChainInv /\ pc # "idle" => chain \notin {"passed", "failed"}
BY DEF ChainInv

(* The run that an edit disturbs is not one that nobody did. *)
LEMMA EditInv ==
  ASSUME CorpusRunInv, NEW n \in Sources, Edit(n)
  PROVE  CorpusRunInv'
<1> USE DEF CorpusRunInv
<1>1. /\ UNCHANGED <<files, pc, held, chain>>
      /\ ~ touched' => ~ touched /\ pc \in {"build", "verify"}
  BY DEF Edit
<1>2. FilesInv' /\ ChainInv' /\ ScriptInv' /\ SumsInv'
  BY <1>1 DEF FilesInv, ChainInv, ScriptInv, SumsInv
<1>3. UndisturbedInv'
  <2> SUFFICES ASSUME chain' = "running", ~ touched' PROVE pc = "verify" => CorpusInv'
    BY <1>1 DEF UndisturbedInv, OracleStatements
  <2> QED
    BY <1>1, CorpusFrame DEF UndisturbedInv
<1>4. PassedInv'
  BY <1>1 DEF PassedInv, ChainInv
<1> QED
  BY <1>2, <1>3, <1>4

LEMMA StartInv == CorpusRunInv /\ (StartRun \/ StartByHand) => CorpusRunInv'
<1> SUFFICES ASSUME CorpusRunInv, StartRun \/ StartByHand PROVE CorpusRunInv'
  OBVIOUS
<1> USE DEF CorpusRunInv
<1>1. /\ UNCHANGED <<files, held>>
      /\ pc' \in {"build", "verify", "oracle"}
      /\ (chain' = "running" /\ pc' = "build") \/ chain' = "none"
  BY DEF StartRun, StartByHand, Start
<1>2. FilesInv' /\ ChainInv' /\ SumsInv'
  BY <1>1 DEF FilesInv, ChainInv, SumsInv
<1>3. ScriptInv'
  BY <1>1 DEF ScriptInv
<1>4. UndisturbedInv' /\ PassedInv'
  BY <1>1 DEF UndisturbedInv, PassedInv, OracleStatements
<1> QED
  BY <1>2, <1>3, <1>4

(* A script that raises leaves one file empty at most, and no run.sh runs. *)
LEMMA FailInv == CorpusRunInv /\ Fail => CorpusRunInv'
<1> SUFFICES ASSUME CorpusRunInv, Fail PROVE CorpusRunInv'
  OBVIOUS
<1> USE DEF CorpusRunInv
<1>1. pc # "idle" /\ pc' = "idle" /\ chain' \notin {"running", "passed"}
  BY NothingPassed DEF Fail, Exit
<1>2. /\ FilesInv'
      /\ files'["sums"] \in {None, files["sums"]}
      /\ files'["oracle_sums"] \in {None, files["oracle_sums"]}
  <2>1. CASE UNCHANGED files
    BY <2>1 DEF FilesInv
  <2>2. CASE \E f \in Written : Save(f, Emptied(f))
    <3>1. PICK f \in Written : Save(f, Emptied(f))
      BY <2>2
    <3>2. f \in Files
      BY <3>1 DEF Written, Files
    <3>3. /\ FilesInv' /\ files'[f] = Emptied(f)
          /\ \A g \in Files \ {f} : files'[g] = files[g]
      BY <3>1, <3>2, SaveChanges
    <3>4. f \in {"sums", "oracle_sums"} => Emptied(f) = None
      BY DEF Emptied
    <3> QED
      BY <3>3, <3>4 DEF Files
  <2> QED
    BY <2>1, <2>2 DEF Fail
<1>3. ChainInv' /\ ScriptInv'
  BY <1>1 DEF ChainInv, ScriptInv
<1>4. SumsInv'
  BY <1>2 DEF SumsInv
<1>5. UndisturbedInv' /\ PassedInv'
  BY <1>1 DEF UndisturbedInv, PassedInv
<1> QED
  BY <1>2, <1>3, <1>4, <1>5

(* build_corpus.py *)
LEMMA BuildReadInv == CorpusRunInv /\ BuildRead => CorpusRunInv'
<1> SUFFICES ASSUME CorpusRunInv, BuildRead PROVE CorpusRunInv'
  OBVIOUS
<1> USE DEF CorpusRunInv
<1>1. /\ pc = "build" /\ pc' = "built"
      /\ UNCHANGED <<files, sources, chain, touched>>
      /\ held'.read = sources /\ held'.transactions = TransactionsOf(sources)
  BY DEF BuildRead, Continue
<1>2. FilesInv' /\ ChainInv' /\ SumsInv'
  BY <1>1 DEF FilesInv, ChainInv, SumsInv
<1>3. ScriptInv'
  BY <1>1 DEF ScriptInv
<1>4. UndisturbedInv'
  BY <1>1 DEF UndisturbedInv, OracleStatements
<1>5. PassedInv'
  BY <1>1, NothingPassed DEF PassedInv
<1> QED
  BY <1>2, <1>3, <1>4, <1>5

LEMMA BuildWriteInv == CorpusRunInv /\ BuildWrite => CorpusRunInv'
<1> SUFFICES ASSUME CorpusRunInv, BuildWrite PROVE CorpusRunInv'
  OBVIOUS
<1> USE DEF CorpusRunInv
<1> DEFINE corpus == [transactions |-> held.transactions,
                      measurement_variants |-> VariantsOf(held.read.safe_corpus),
                      source_artifacts |-> sources]
<1>1. /\ pc = "built" /\ Save("corpus", corpus)
      /\ UNCHANGED <<sources, touched>>
      /\ (chain = "running" /\ pc' = "verify" /\ chain' = chain)
           \/ (pc' = "idle" /\ chain' \in {"failed", chain} /\ chain' # "running")
  BY DEF BuildWrite, Exit
<1>2. FilesInv' /\ files'["corpus"] = corpus
      /\ \A g \in Files \ {"corpus"} : files'[g] = files[g]
  BY <1>1, SaveChanges DEF Files
<1>3. ChainInv'
  BY <1>1 DEF ChainInv
<1>4. ScriptInv'
  BY <1>1 DEF ScriptInv
<1>5. SumsInv'
  BY <1>2, SumsFrame DEF Files
<1>6. UndisturbedInv'
  <2> SUFFICES ASSUME chain' = "running", ~ touched' PROVE CorpusInv'
    BY <1>1 DEF UndisturbedInv, OracleStatements
  <2>1. held.read = sources /\ held.transactions = TransactionsOf(sources)
    BY <1>1 DEF UndisturbedInv
  <2>2. /\ corpus.transactions = TransactionsOf(sources)
        /\ corpus.measurement_variants = VariantsOf(sources.safe_corpus)
        /\ corpus.source_artifacts = sources
    BY <2>1
  <2> HIDE DEF corpus
  <2> QED
    BY <1>2, <2>2 DEF CorpusInv
<1>7. PassedInv'
  BY <1>1, NothingPassed DEF PassedInv
<1> QED
  BY <1>2, <1>3, <1>4, <1>5, <1>6, <1>7

(* verify_transactions.py *)
LEMMA VerifyReadInv == CorpusRunInv /\ VerifyRead => CorpusRunInv'
<1> SUFFICES ASSUME CorpusRunInv, VerifyRead PROVE CorpusRunInv'
  OBVIOUS
<1> USE DEF CorpusRunInv
<1>1. /\ pc = "verify" /\ pc' = "summarise"
      /\ UNCHANGED <<files, sources, chain, touched>>
      /\ held'.rows = RowsOf(sources, files.corpus)
  BY DEF VerifyRead, Continue
<1>2. FilesInv' /\ ChainInv' /\ SumsInv'
  BY <1>1 DEF FilesInv, ChainInv, SumsInv
<1>3. ScriptInv'
  BY <1>1, RowsOfFit DEF ScriptInv
<1>4. UndisturbedInv'
  BY <1>1, CorpusFrame DEF UndisturbedInv, OracleStatements
<1>5. PassedInv'
  BY <1>1, NothingPassed DEF PassedInv
<1> QED
  BY <1>2, <1>3, <1>4, <1>5

LEMMA SummariseInv == CorpusRunInv /\ Summarise => CorpusRunInv'
<1> SUFFICES ASSUME CorpusRunInv, Summarise PROVE CorpusRunInv'
  OBVIOUS
<1> USE DEF CorpusRunInv
<1> DEFINE same == sources = files.corpus.source_artifacts
<1>1. /\ pc = "summarise" /\ pc' = "verdicts"
      /\ UNCHANGED <<files, sources, chain, touched>>
      /\ held'.rows = held.rows
      /\ held'.summary = SummaryOf(held.rows, same)
  BY DEF Summarise, Continue
<1>2. FilesInv' /\ ChainInv' /\ SumsInv'
  BY <1>1 DEF FilesInv, ChainInv, SumsInv
<1>3. ScriptInv'
  <2>1. RowsFit(held.rows, files.corpus)
    BY <1>1 DEF ScriptInv
  <2>2. same \in BOOLEAN
    OBVIOUS
  <2> HIDE DEF same
  <2>3. ResultsFit(held.rows, SummaryOf(held.rows, same), files.corpus)
    BY <2>1, <2>2 DEF ResultsFit
  <2> QED
    BY <1>1, <2>3 DEF ScriptInv
<1>4. UndisturbedInv'
  BY <1>1, CorpusFrame DEF UndisturbedInv, OracleStatements
<1>5. PassedInv'
  BY <1>1, NothingPassed DEF PassedInv
<1> QED
  BY <1>2, <1>3, <1>4, <1>5

LEMMA WriteVerdictsInv == CorpusRunInv /\ WriteVerdicts => CorpusRunInv'
<1> SUFFICES ASSUME CorpusRunInv, WriteVerdicts PROVE CorpusRunInv'
  OBVIOUS
<1> USE DEF CorpusRunInv
<1>1. /\ pc = "verdicts" /\ pc' = "summary" /\ Save("verdicts", held.rows)
      /\ UNCHANGED <<sources, held, chain, touched>>
  BY DEF WriteVerdicts, Continue
<1>2. FilesInv' /\ files'["verdicts"] = held.rows
      /\ \A g \in Files \ {"verdicts"} : files'[g] = files[g]
  BY <1>1, SaveChanges DEF Files
<1>3. files'["corpus"] = files["corpus"]
  BY <1>2 DEF Files
<1>4. ChainInv'
  BY <1>1 DEF ChainInv
<1>5. ScriptInv'
  BY <1>1, <1>2, <1>3 DEF ScriptInv
<1>6. SumsInv'
  BY <1>2, SumsFrame DEF Files
<1>7. UndisturbedInv'
  BY <1>1, <1>3, CorpusFrame DEF UndisturbedInv, OracleStatements
<1>8. PassedInv'
  BY <1>1, NothingPassed DEF PassedInv
<1> QED
  BY <1>2, <1>4, <1>5, <1>6, <1>7, <1>8

LEMMA WriteSummaryInv == CorpusRunInv /\ WriteSummary => CorpusRunInv'
<1> SUFFICES ASSUME CorpusRunInv, WriteSummary PROVE CorpusRunInv'
  OBVIOUS
<1> USE DEF CorpusRunInv
<1>1. /\ pc = "summary" /\ pc' = "sums" /\ Save("summary", held.summary)
      /\ UNCHANGED <<sources, held, chain, touched>>
  BY DEF WriteSummary, Continue
<1>2. FilesInv' /\ files'["summary"] = held.summary
      /\ \A g \in Files \ {"summary"} : files'[g] = files[g]
  BY <1>1, SaveChanges DEF Files
<1>3. files'["corpus"] = files["corpus"] /\ files'["verdicts"] = files["verdicts"]
  BY <1>2 DEF Files
<1>4. ChainInv'
  BY <1>1 DEF ChainInv
<1>5. ScriptInv'
  BY <1>1, <1>2, <1>3 DEF ScriptInv
<1>6. SumsInv'
  BY <1>2, SumsFrame DEF Files
<1>7. UndisturbedInv'
  BY <1>1, <1>3, CorpusFrame DEF UndisturbedInv, OracleStatements
<1>8. PassedInv'
  BY <1>1, NothingPassed DEF PassedInv
<1> QED
  BY <1>2, <1>4, <1>5, <1>6, <1>7, <1>8

(* The checksums are those of files that fit, and run.sh only goes on if   *)
(* the summary is accepted.                                                *)
LEMMA WriteSumsInv == CorpusRunInv /\ WriteSums => CorpusRunInv'
<1> SUFFICES ASSUME CorpusRunInv, WriteSums PROVE CorpusRunInv'
  OBVIOUS
<1> USE DEF CorpusRunInv
<1>1. /\ pc = "sums" /\ Save("sums", ResultSums)
      /\ UNCHANGED <<sources, touched>>
      /\ (/\ chain = "running" /\ Accepted(held.summary)
          /\ pc' = "oracle" /\ chain' = chain)
           \/ (pc' = "idle" /\ chain' \in {"failed", chain} /\ chain' # "running")
  BY DEF WriteSums, Exit
<1>2. FilesInv' /\ files'["sums"] = ResultSums
      /\ \A g \in Files \ {"sums"} : files'[g] = files[g]
  BY <1>1, SaveChanges DEF Files
<1>3. /\ files'["corpus"] = files["corpus"] /\ files'["verdicts"] = files["verdicts"]
      /\ files'["oracle_sums"] = files["oracle_sums"]
  BY <1>2 DEF Files
<1>4. ChainInv'
  BY <1>1 DEF ChainInv
<1>5. ScriptInv'
  BY <1>1 DEF ScriptInv
<1>6. SumsInv'
  <2>1. ResultsFit(files.verdicts, files.summary, files.corpus)
    BY <1>1 DEF ScriptInv
  <2>2. /\ ResultSums.verdicts = files.verdicts /\ ResultSums.summary = files.summary
        /\ ResultSums.corpus = files.corpus
    BY DEF ResultSums
  <2> QED
    BY <1>2, <1>3, <2>1, <2>2 DEF SumsInv
<1>7. UndisturbedInv'
  <2> SUFFICES ASSUME chain' = "running", ~ touched' PROVE CorpusInv' /\ VerdictsInv'
    BY <1>1 DEF UndisturbedInv, OracleStatements
  <2>1. /\ CorpusInv
        /\ held.rows = RowsOf(sources, files.corpus)
        /\ held.summary = SummaryOf(held.rows, sources = files.corpus.source_artifacts)
        /\ files.verdicts = held.rows
    BY <1>1 DEF UndisturbedInv, ScriptInv
  <2>2. VerdictsInv
    BY <1>1, <2>1 DEF VerdictsInv
  <2> QED
    BY <1>1, <1>3, <2>1, <2>2, CorpusFrame, VerdictsFrame
<1>8. PassedInv'
  BY <1>1, NothingPassed DEF PassedInv
<1> QED
  BY <1>2, <1>4, <1>5, <1>6, <1>7, <1>8

(* run_sql_oracle.py *)
LEMMA OracleReadInv == CorpusRunInv /\ OracleRead => CorpusRunInv'
<1> SUFFICES ASSUME CorpusRunInv, OracleRead PROVE CorpusRunInv'
  OBVIOUS
<1> USE DEF CorpusRunInv
<1>1. /\ pc = "oracle" /\ pc' = "oracle_verdicts"
      /\ UNCHANGED <<files, sources, chain, touched>>
      /\ held'.rows = OracleRowsOf(files.verdicts)
      /\ held'.summary = OracleSummaryOf(held'.rows)
  BY DEF OracleRead, Continue
<1>2. FilesInv' /\ ChainInv' /\ SumsInv'
  BY <1>1 DEF FilesInv, ChainInv, SumsInv
<1>3. ScriptInv'
  BY <1>1 DEF ScriptInv, OracleFits
<1>4. UndisturbedInv'
  BY <1>1, CorpusFrame, VerdictsFrame DEF UndisturbedInv, OracleStatements
<1>5. PassedInv'
  BY <1>1, NothingPassed DEF PassedInv
<1> QED
  BY <1>2, <1>3, <1>4, <1>5

LEMMA WriteOracleVerdictsInv == CorpusRunInv /\ WriteOracleVerdicts => CorpusRunInv'
<1> SUFFICES ASSUME CorpusRunInv, WriteOracleVerdicts PROVE CorpusRunInv'
  OBVIOUS
<1> USE DEF CorpusRunInv
<1>1. /\ pc = "oracle_verdicts" /\ pc' = "oracle_summary"
      /\ Save("oracle_verdicts", held.rows)
      /\ UNCHANGED <<sources, held, chain, touched>>
  BY DEF WriteOracleVerdicts, Continue
<1>2. FilesInv' /\ files'["oracle_verdicts"] = held.rows
      /\ \A g \in Files \ {"oracle_verdicts"} : files'[g] = files[g]
  BY <1>1, SaveChanges DEF Files
<1>3. files'["corpus"] = files["corpus"] /\ files'["verdicts"] = files["verdicts"]
  BY <1>2 DEF Files
<1>4. ChainInv'
  BY <1>1 DEF ChainInv
<1>5. ScriptInv'
  BY <1>1, <1>2, <1>3 DEF ScriptInv
<1>6. SumsInv'
  BY <1>2, SumsFrame DEF Files
<1>7. UndisturbedInv'
  BY <1>1, <1>3, CorpusFrame, VerdictsFrame DEF UndisturbedInv, OracleStatements
<1>8. PassedInv'
  BY <1>1, NothingPassed DEF PassedInv
<1> QED
  BY <1>2, <1>4, <1>5, <1>6, <1>7, <1>8

LEMMA WriteOracleSummaryInv == CorpusRunInv /\ WriteOracleSummary => CorpusRunInv'
<1> SUFFICES ASSUME CorpusRunInv, WriteOracleSummary PROVE CorpusRunInv'
  OBVIOUS
<1> USE DEF CorpusRunInv
<1>1. /\ pc = "oracle_summary" /\ pc' = "oracle_sums"
      /\ Save("oracle_summary", held.summary)
      /\ UNCHANGED <<sources, held, chain, touched>>
  BY DEF WriteOracleSummary, Continue
<1>2. FilesInv' /\ files'["oracle_summary"] = held.summary
      /\ \A g \in Files \ {"oracle_summary"} : files'[g] = files[g]
  BY <1>1, SaveChanges DEF Files
<1>3. /\ files'["corpus"] = files["corpus"] /\ files'["verdicts"] = files["verdicts"]
      /\ files'["oracle_verdicts"] = files["oracle_verdicts"]
  BY <1>2 DEF Files
<1>4. ChainInv'
  BY <1>1 DEF ChainInv
<1>5. ScriptInv'
  BY <1>1, <1>2, <1>3 DEF ScriptInv
<1>6. SumsInv'
  BY <1>2, SumsFrame DEF Files
<1>7. UndisturbedInv'
  BY <1>1, <1>3, CorpusFrame, VerdictsFrame DEF UndisturbedInv, OracleStatements
<1>8. PassedInv'
  BY <1>1, NothingPassed DEF PassedInv
<1> QED
  BY <1>2, <1>4, <1>5, <1>6, <1>7, <1>8

LEMMA WriteOracleSumsInv == CorpusRunInv /\ WriteOracleSums => CorpusRunInv'
<1> SUFFICES ASSUME CorpusRunInv, WriteOracleSums PROVE CorpusRunInv'
  OBVIOUS
<1> USE DEF CorpusRunInv
<1>1. /\ pc = "oracle_sums" /\ Save("oracle_sums", OracleSums)
      /\ UNCHANGED <<sources, touched>>
      /\ (/\ chain = "running" /\ OracleAccepted(held.summary)
          /\ pc' = "check" /\ chain' = chain)
           \/ (pc' = "idle" /\ chain' \in {"failed", chain} /\ chain' # "running")
  BY DEF WriteOracleSums, Exit
<1>2. FilesInv' /\ files'["oracle_sums"] = OracleSums
      /\ \A g \in Files \ {"oracle_sums"} : files'[g] = files[g]
  BY <1>1, SaveChanges DEF Files
<1>3. /\ files'["corpus"] = files["corpus"] /\ files'["verdicts"] = files["verdicts"]
      /\ files'["oracle_verdicts"] = files["oracle_verdicts"]
      /\ files'["sums"] = files["sums"]
  BY <1>2 DEF Files
<1>4. /\ OracleFits(held.rows, held.summary, files.verdicts)
      /\ files.oracle_verdicts = held.rows /\ files.oracle_summary = held.summary
  BY <1>1 DEF ScriptInv
<1>5. ChainInv'
  BY <1>1 DEF ChainInv
<1>6. ScriptInv'
  BY <1>1 DEF ScriptInv
<1>7. SumsInv'
  <2>1. /\ OracleSums.oracle_verdicts = files.oracle_verdicts
        /\ OracleSums.oracle_summary = files.oracle_summary
        /\ OracleSums.verdicts = files.verdicts
    BY DEF OracleSums
  <2> QED
    BY <1>2, <1>3, <1>4, <2>1 DEF SumsInv
<1>8. UndisturbedInv'
  <2> SUFFICES ASSUME chain' = "running", ~ touched'
               PROVE  CorpusInv' /\ VerdictsInv' /\ OracleInv'
    BY <1>1 DEF UndisturbedInv, OracleStatements
  <2>1. CorpusInv /\ VerdictsInv
    BY <1>1 DEF UndisturbedInv, OracleStatements
  <2>2. OracleInv
    BY <1>1, <1>4 DEF OracleInv, OracleFits
  <2> QED
    BY <1>1, <1>3, <2>1, <2>2, CorpusFrame, VerdictsFrame, OracleFrame
<1>9. PassedInv'
  BY <1>1, NothingPassed DEF PassedInv
<1> QED
  BY <1>2, <1>5, <1>6, <1>7, <1>8, <1>9

LEMMA CheckSumsInv == CorpusRunInv /\ CheckSums => CorpusRunInv'
<1> SUFFICES ASSUME CorpusRunInv, CheckSums PROVE CorpusRunInv'
  OBVIOUS
<1> USE DEF CorpusRunInv
<1>1. /\ pc = "check" /\ pc' = "idle" /\ chain = "running" /\ chain' = "passed"
      /\ UNCHANGED <<sources, files, held, touched>>
  BY DEF CheckSums, ChainInv
<1>2. FilesInv' /\ ChainInv' /\ SumsInv'
  BY <1>1 DEF FilesInv, ChainInv, SumsInv
<1>3. ScriptInv'
  BY <1>1 DEF ScriptInv
<1>4. UndisturbedInv'
  BY <1>1 DEF UndisturbedInv
<1>5. PassedInv'
  <2> SUFFICES ASSUME ~ touched PROVE CorpusInv' /\ VerdictsInv' /\ OracleInv'
    BY <1>1 DEF PassedInv
  <2>1. CorpusInv /\ VerdictsInv /\ OracleInv
    BY <1>1 DEF UndisturbedInv
  <2> QED
    BY <1>1, <2>1, CorpusFrame, VerdictsFrame, OracleFrame
<1> QED
  BY <1>2, <1>3, <1>4, <1>5

LEMMA NextInv == CorpusRunInv /\ [Next]_vars => CorpusRunInv'
<1> SUFFICES ASSUME CorpusRunInv, [Next]_vars PROVE CorpusRunInv'
  OBVIOUS
<1>1. ASSUME NEW n \in Sources, Edit(n) PROVE CorpusRunInv'
  BY <1>1, EditInv
<1>2. CASE StartRun \/ StartByHand
  BY <1>2, StartInv
<1>3. CASE BuildRead \/ BuildWrite
  BY <1>3, BuildReadInv, BuildWriteInv
<1>4. CASE VerifyRead \/ Summarise
  BY <1>4, VerifyReadInv, SummariseInv
<1>5. CASE WriteVerdicts \/ WriteSummary \/ WriteSums
  BY <1>5, WriteVerdictsInv, WriteSummaryInv, WriteSumsInv
<1>6. CASE OracleRead \/ WriteOracleVerdicts
  BY <1>6, OracleReadInv, WriteOracleVerdictsInv
<1>7. CASE WriteOracleSummary \/ WriteOracleSums
  BY <1>7, WriteOracleSummaryInv, WriteOracleSumsInv
<1>8. CASE CheckSums \/ Fail
  BY <1>8, CheckSumsInv, FailInv
<1>9. CASE UNCHANGED vars
  <2>1. UNCHANGED <<sources, files, pc, held, chain, touched>>
    BY <1>9 DEF vars
  <2>2. FilesInv' /\ ChainInv' /\ SumsInv'
    BY <2>1 DEF CorpusRunInv, FilesInv, ChainInv, SumsInv
  <2>3. ScriptInv'
    BY <2>1 DEF CorpusRunInv, ScriptInv
  <2>4. UndisturbedInv' /\ PassedInv'
    BY <2>1, CorpusFrame, VerdictsFrame, OracleFrame
       DEF CorpusRunInv, UndisturbedInv, PassedInv
  <2> QED
    BY <2>2, <2>3, <2>4 DEF CorpusRunInv
<1> QED
  BY <1>1, <1>2, <1>3, <1>4, <1>5, <1>6, <1>7, <1>8, <1>9 DEF Next

(* A script holds and has written what it made of the files it read,       *)
(* checksums were taken of files that fit, and a run of run.sh that nobody *)
(* disturbed has the corpus and the rows of the sources as they are        *)
(* (run.sh:1-20).                                                          *)
THEOREM CorpusRunInvariant == Spec => []CorpusRunInv
<1>1. Init => CorpusRunInv
  BY InitInv
<1>2. CorpusRunInv /\ [Next]_vars => CorpusRunInv'
  BY NextInv
<1> QED
  BY <1>1, <1>2, PTL DEF Spec

-----------------------------------------------------------------------------
(* The properties.                                                         *)

LEMMA InvEarned == CorpusRunInv => PassedRunIsEarned
<1> SUFFICES ASSUME CorpusRunInv, chain = "passed", ~ touched PROVE PassedRunIsEarned
  BY DEF PassedRunIsEarned
<1> DEFINE transactions == files.corpus.transactions
           variants == VariantsOf(sources.safe_corpus)
           same == sources = files.corpus.source_artifacts
           verdicts == files.verdicts
           summary == SummaryOf(verdicts, same)
           rows == files.oracle_verdicts
<1>1. CorpusInv /\ VerdictsInv /\ OracleInv
  BY DEF CorpusRunInv, PassedInv
<1>2. /\ verdicts = RowsOf(sources, files.corpus)
      /\ Accepted(summary)
      /\ rows = OracleRowsOf(verdicts)
      /\ OracleAccepted(OracleSummaryOf(rows))
  BY <1>1 DEF VerdictsInv, OracleInv
<1>3. same
  BY <1>2, SummaryFields DEF Accepted
<1>4. /\ transactions = TransactionsOf(sources)
      /\ files.corpus.measurement_variants = variants
  BY <1>1, <1>3 DEF CorpusInv
<1>5. /\ summary.expected_matches = DOMAIN verdicts
      /\ summary.per_layer_expected_matches = DOMAIN verdicts
  BY <1>2, SummaryFields DEF Accepted
<1>6. \A c \in DOMAIN verdicts :
        /\ verdicts[c].composed = verdicts[c].expected
        /\ verdicts[c].composed.layer_results = verdicts[c].expected.layer_results
  BY <1>5, SummaryFields
<1>7. \A c \in DOMAIN rows : rows[c].implementation_match
  BY <1>2 DEF OracleAccepted, OracleSummaryOf
<1>8. /\ Choices(sources) = DOMAIN transactions
      /\ Choices(sources) = DOMAIN verdicts
      /\ Choices(sources) = DOMAIN rows
  BY <1>2, <1>4 DEF TransactionsOf, RowsOf, OracleRowsOf
<1>9. ASSUME NEW c \in Choices(sources)
      PROVE  /\ Labels(c, sources) = Found(c)
             /\ transactions[c].expected = OwnResult(c)
             /\ verdicts[c].composed = OwnResult(c)
             /\ rows[c].oracle = Answers(OwnResult(c))
  <2>1. transactions[c] = MakeTransaction(c, sources)
    BY <1>4 DEF TransactionsOf
  <2>2. /\ transactions[c].attestation_result =
             sources.state_fixtures[c.state_fixture].attestation_result
        /\ transactions[c].expected.layer_results = Labels(c, sources)
    BY <2>1 DEF MakeTransaction, Compose
  <2>3. verdicts[c] = RowOf(c, sources, files.corpus)
    BY <1>2, <1>8 DEF RowsOf
  <2>4. /\ verdicts[c].composed = OwnResult(c)
        /\ verdicts[c].expected = transactions[c].expected
    BY <1>4, <2>2, <2>3 DEF RowOf, OwnResult, Found
  <2>5. OwnResult(c).layer_results = Found(c)
    BY DEF OwnResult, Compose
  <2>6. /\ transactions[c].expected = OwnResult(c)
        /\ Labels(c, sources) = Found(c)
    BY <1>6, <1>8, <2>2, <2>4, <2>5
  <2>7. rows[c].implementation_match =
          (rows[c].oracle = Answers(verdicts[c].composed))
    BY <1>2, <1>8 DEF OracleRowsOf
  <2> QED
    BY <1>7, <1>8, <2>4, <2>6, <2>7
<1> QED
  BY <1>8, <1>9 DEF PassedRunIsEarned

LEMMA InvSummaries == CorpusRunInv => SavedSummariesAreTrue
<1> SUFFICES ASSUME CorpusRunInv, ResultsMatch PROVE SavedSummariesAreTrue
  BY DEF SavedSummariesAreTrue
<1> DEFINE verdicts == files.verdicts
           summary == files.summary
<1>1. ResultsFit(verdicts, summary, files.corpus)
  <2>1. files.sums # None /\ files.sums = ResultSums
    BY DEF ResultsMatch
  <2>2. /\ ResultSums.verdicts = verdicts /\ ResultSums.summary = summary
        /\ ResultSums.corpus = files.corpus
    BY DEF ResultSums
  <2> QED
    BY <2>1, <2>2 DEF CorpusRunInv, SumsInv
<1>2. /\ DOMAIN verdicts = DOMAIN files.corpus.transactions
      /\ \A c \in DOMAIN verdicts :
           /\ verdicts[c].expected = files.corpus.transactions[c].expected
           /\ RowFits(verdicts[c])
  BY <1>1 DEF ResultsFit, RowsFit
<1>3. PICK b \in BOOLEAN : summary = SummaryOf(verdicts, b)
  BY <1>1 DEF ResultsFit
<1>4. ASSUME summary.expected_matches = summary.transactions
      PROVE  /\ summary.four_of_five_equals_single_fault_or_cross_layer
             /\ summary.cross_layer_denials # {} =>
                  ~ summary.four_of_five_equals_single_fault_denies
  <2>1. \A c \in DOMAIN verdicts : verdicts[c].composed = verdicts[c].expected
    BY <1>3, <1>4, SummaryFields
  <2>2. /\ FalseAllows(verdicts) = SingleFaults(verdicts) \cup CrossLayer(verdicts)
        /\ SingleFaults(verdicts) \cap CrossLayer(verdicts) = {}
    BY <1>2, <2>1, RefinedIdentity
  <2>3. /\ summary.cross_layer_denials = CrossLayer(verdicts)
        /\ summary.four_of_five_equals_single_fault_denies =
             (FalseAllows(verdicts) = SingleFaults(verdicts))
        /\ summary.four_of_five_equals_single_fault_or_cross_layer =
             (FalseAllows(verdicts) = SingleFaults(verdicts) \cup CrossLayer(verdicts))
    BY <1>3, SummaryFields
  <2>4. CrossLayer(verdicts) # {} => FalseAllows(verdicts) # SingleFaults(verdicts)
    BY <2>2
  <2> QED
    BY <2>2, <2>3, <2>4
<1>5. ASSUME OracleMatches
      PROVE  /\ files.oracle_verdicts = OracleRowsOf(verdicts)
             /\ files.oracle_summary = OracleSummaryOf(files.oracle_verdicts)
  <2>1. files.oracle_sums # None /\ files.oracle_sums = OracleSums
    BY <1>5 DEF OracleMatches
  <2>2. /\ OracleSums.oracle_verdicts = files.oracle_verdicts
        /\ OracleSums.oracle_summary = files.oracle_summary
        /\ OracleSums.verdicts = verdicts
    BY DEF OracleSums
  <2> QED
    BY <2>1, <2>2 DEF CorpusRunInv, SumsInv, OracleFits
<1> QED
  BY <1>2, <1>3, <1>4, <1>5 DEF SavedSummariesAreTrue

(* A run.sh that passes, nobody having touched the siblings' files but     *)
(* between its scripts, has earned it on them as they are: every label is  *)
(* what its evaluator finds and corpus, verdicts and query agree           *)
(* (run.sh:11-18, verify_transactions.py:696-703).                         *)
THEOREM EveryPassedRunIsEarned == Spec => []PassedRunIsEarned
BY CorpusRunInvariant, InvEarned, PTL

(* Results whose checksums match are one, whatever failed before, and the  *)
(* refined identity of the majority's false allows holds of them while the *)
(* plain one fails (verify_transactions.py:573-609, 657-694).              *)
THEOREM EverySavedSummaryIsTrue == Spec => []SavedSummariesAreTrue
BY CorpusRunInvariant, InvSummaries, PTL

=============================================================================
