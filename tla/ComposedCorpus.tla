--------------------------- MODULE ComposedCorpus ---------------------------
(***************************************************************************)
(* The composed corpus and the scripts that run.sh starts over it:         *)
(* build_corpus.py assembles transactions from the artefacts of the        *)
(* sibling laboratories and labels them, verify_transactions.py evaluates  *)
(* them anew and summarises its rows, run_sql_oracle.py recomposes those   *)
(* rows, and the checksums of both are checked at the end.  The scripts    *)
(* only meet in files, each can also be started by hand, each can raise    *)
(* anywhere, and the siblings' files can be edited meanwhile.              *)
(*                                                                         *)
(* An artefact is what its own evaluator makes of it, its author's label   *)
(* and the fields the binding reads; evaluators and binding are those of   *)
(* ComposedTransaction.  A hash of a file is what the file holds, and a    *)
(* count of rows is the set of them.                                       *)
(***************************************************************************)
EXTENDS CompositionRule

CONSTANTS
  Contents,             \* what each of the siblings' files may hold, by file
  Committed,            \* and what they hold at first
  CrossLayerJoins,      \* the tables of build_corpus.py: rows
  CrossLayerBinding,    \* identifier -> row
  EvidenceVariants,     \* identifier -> the effect reported
  MeasurementVariants,  \* identifier -> profile
  NewPolicyVectors, NewDelegationCases,
  MaxEvents             \* bound: scripts started and edits of the siblings' files

Sources == DOMAIN Contents

ASSUME SourcesAssumption ==
  /\ Sources = {"policy_corpus", "safe_corpus", "authority_corpus", "state_fixtures"}
  /\ \A n \in Sources : Committed[n] \in Contents[n]

VARIABLES
  sources,      \* the siblings' files
  files,        \* this laboratory's files
  pc,           \* the statement to come of the script that runs
  held,         \* what that script holds in memory
  chain,        \* what has become of run.sh; "none" of a script started by hand
  touched,      \* an edit came while the last run.sh had the siblings' files in use
  events        \* scripts started and edits so far

vars == <<sources, files, pc, held, chain, touched, events>>

-----------------------------------------------------------------------------
(* The transactions and their artefacts.                                   *)

Choice(family, id, vector, fixture, path, measurement, evidence) ==
  [family |-> family, id |-> id, policy_vector |-> vector, state_fixture |-> fixture,
   authority_case |-> path, measurement_fixture |-> measurement, evidence_variant |-> evidence]

Affirming == "affirming-fresh-match"

(* 1: the vectors that isolate no gate, by three measurements. *)
Factorial(src) ==
  {Choice("factorial", None, v, Affirming, "P2_exact_two_hop", m, None) :
     v \in {w \in DOMAIN src.policy_corpus : ~ src.policy_corpus[w].isolated_gate},
     m \in {"measurement_supported", "measurement_point_only", "measurement_profile_mismatch"}}

(* 2: state, authority and measurement, each passing or failing. *)
Cube ==
  {Choice("cube", None, "PSR_correct_good", s, a, m, None) :
     s \in {Affirming, "contraindicated"},
     a \in {"P2_exact_two_hop", "D2_scope_amplification_at_second_edge"},
     m \in {"measurement_supported", "measurement_point_only"}}

(* 3: every delegation case. *)
PathReuse(src) ==
  {Choice("path", None, "PSR_correct_good", Affirming, a, "measurement_supported", None) :
     a \in DOMAIN src.authority_corpus}

(* 4 and 5: the tables. *)
JoinFamily ==
  {Choice("joins", None, j.vector, j.fixture, j.path, j.measurement, None) :
     j \in CrossLayerJoins}

BindingFamily ==
  {LET b == CrossLayerBinding[id]
   IN  Choice("binding", id, "PSR_correct_good", Affirming, b.path, b.measurement, b.evidence) :
     id \in DOMAIN CrossLayerBinding}

Choices(src) == Factorial(src) \cup Cube \cup PathReuse(src) \cup JoinFamily \cup BindingFamily

(* The measurement fixtures this laboratory adds: the supported one under  *)
(* another profile, required by the fixture itself.                        *)
VariantsOf(safe) ==
  [m \in DOMAIN MeasurementVariants |->
     [dataset |-> safe.fixtures["measurement_supported"].dataset,
      profile |-> MeasurementVariants[m], required |-> MeasurementVariants[m],
      expected |-> "PASS"]]

FixtureOf(c, safe, variants) ==
  IF c.measurement_fixture \in DOMAIN variants
    THEN variants[c.measurement_fixture]
    ELSE safe.fixtures[c.measurement_fixture]

EvidenceOf(c, src) ==
  IF c.evidence_variant = None
    THEN src.policy_corpus[c.policy_vector].reported
    ELSE EvidenceVariants[c.evidence_variant]

(* subjects_of *)
SubjectsOf(c, src, variants) ==
  LET required == src.policy_corpus[c.policy_vector].required
      path == src.authority_corpus[c.authority_case]
      reported == EvidenceOf(c, src)
  IN  [canonical |->
         [effect |-> required.effect, resource |-> path.resource,
          operation |-> path.operation, granted_tools |-> path.granted_tools,
          granted_resources |-> path.granted_resources,
          authorised_from |-> path.authorised_from,
          authorised_until |-> path.authorised_until,
          measurement_profile |-> required.measurement_profile],
       observed |->
         [effect |-> reported.effect, resource |-> reported.resource,
          issued_at |-> reported.issued_at,
          measurement_profile |-> FixtureOf(c, src.safe_corpus, variants).profile]]

(* compose() on five results, the authority gate and the subjects. *)
Compose(r, gate, s) ==
  [verdict |-> Verdict(FailedLayers(r) = {} /\ Bind(s) = "PASS"),
   first_rejecting_gate |-> FirstGate(r, gate, Bind(s)),
   failed_layers |-> FailedLayers(r),
   layer_results |-> r,
   binding_result |-> Bind(s)]

-----------------------------------------------------------------------------
(* build_corpus.py                                                         *)

(* What the authors of the artefacts say of each layer; a transaction with *)
(* evidence of its own expects that to pass.                               *)
Labels(c, src) ==
  LET vector == src.policy_corpus[c.policy_vector].expected
  IN  [policy |-> vector.policy,
       evidence |-> IF c.evidence_variant = None THEN vector.evidence ELSE "PASS",
       state |-> src.state_fixtures[c.state_fixture].expected,
       authority |-> src.authority_corpus[c.authority_case].expected.verdict,
       measurement |-> FixtureOf(c, src.safe_corpus, VariantsOf(src.safe_corpus)).expected]

MakeTransaction(c, src) ==
  LET own == SubjectsOf(c, src, VariantsOf(src.safe_corpus))
      gate == src.authority_corpus[c.authority_case].expected.gate
  IN  [attestation_result |-> src.state_fixtures[c.state_fixture].attestation_result,
       subjects |-> own,
       expected |-> Compose(Labels(c, src), gate, own)]

TransactionsOf(src) == [c \in Choices(src) |-> MakeTransaction(c, src)]

(* check_design_constraints and the assertions of main, on the sources     *)
(* read and the transactions T made of them.                               *)
DesignHolds(src, T) ==
  LET ids == DOMAIN T
      expected(c) == T[c].expected
      using(field, value) == {c \in ids : c[field] = value}
  IN  /\ src.safe_corpus.fixtures["measurement_supported"].required = "main"
      /\ Cardinality({v \in DOMAIN src.policy_corpus :
                        ~ src.policy_corpus[v].isolated_gate}) = 12
      /\ \A c \in BindingFamily :
           /\ expected(c).binding_result = CrossLayerBinding[c.id].binding
           /\ expected(c).failed_layers = {}
      /\ \A a, b \in LayerNames :
           a # b => \E c \in ids : {a, b} \subseteq expected(c).failed_layers
      /\ \A m \in {"measurement_supported", "measurement_point_only",
                   "measurement_unsupported", "measurement_profile_mismatch"} :
           Cardinality(using("measurement_fixture", m)) >= 2
      /\ DOMAIN StateGates \subseteq {expected(c).layer_results.state : c \in ids}
      /\ \A v \in NewPolicyVectors : using("policy_vector", v) # {}
      /\ \A a \in NewDelegationCases : using("authority_case", a) # {}
      /\ Cardinality({c \in JoinFamily : expected(c).verdict = "ALLOW"}) >= 3
      /\ \E c \in ids : expected(c).verdict = "DENY" /\ expected(c).failed_layers = {}
      /\ (DOMAIN BindingGates \ {"UNDETERMINED"}) \cup {"PASS"} \subseteq
           {expected(c).binding_result : c \in BindingFamily}
      /\ Cardinality({c \in BindingFamily : expected(c).verdict = "ALLOW"}) >= 4
      /\ Cardinality(ids) \in 90..120

-----------------------------------------------------------------------------
(* verify_transactions.py                                                  *)

MeasurementResult(fixture, safe) ==
  IF fixture.profile # fixture.required THEN "PROFILE_MISMATCH" ELSE safe.bounds[fixture.dataset]

(* What the five evaluators say: policy, evidence, authority and dataset   *)
(* are read anew, the attestation result and the fixtures of this          *)
(* laboratory are the corpus's.                                            *)
Evaluated(c, src, attestation, variants) ==
  LET vector == src.policy_corpus[c.policy_vector]
  IN  [policy |-> vector.policy,
       evidence |-> IF c.evidence_variant = None THEN vector.evidence ELSE "PASS",
       state |-> attestation,
       authority |-> src.authority_corpus[c.authority_case].verdict,
       measurement |-> MeasurementResult(FixtureOf(c, src.safe_corpus, variants),
                                         src.safe_corpus)]

RowOf(c, src, corpus) ==
  LET stored == corpus.transactions[c]
      subjects == SubjectsOf(c, src, corpus.measurement_variants)
      found == Evaluated(c, src, stored.attestation_result, corpus.measurement_variants)
      gate == src.authority_corpus[c.authority_case].gate
  IN  [composed |-> Compose(found, gate, subjects),
       authority_gate |-> gate,
       subjects |-> subjects,
       subject_match |-> subjects = stored.subjects,
       four_of_five_majority |-> Verdict(Majority(found)),
       expected |-> stored.expected]

RowsOf(src, corpus) == [c \in DOMAIN corpus.transactions |-> RowOf(c, src, corpus)]

(* The rows that the identities of the summary relate. *)
CrossLayer(rows) ==
  {i \in DOMAIN rows : rows[i].composed.verdict = "DENY" /\ rows[i].composed.failed_layers = {}}

FalseAllows(rows) ==
  {i \in DOMAIN rows : rows[i].four_of_five_majority = "ALLOW" /\ rows[i].expected.verdict = "DENY"}

SingleFaults(rows) ==
  {i \in DOMAIN rows : /\ rows[i].expected.verdict = "DENY"
                       /\ Cardinality(rows[i].composed.failed_layers) = 1}

(* No cell of the matrix of layers that fail together is zero but on its diagonal. *)
CoFailing(rows) ==
  \A a, b \in LayerNames :
    a # b => \E i \in DOMAIN rows : {a, b} \subseteq rows[i].composed.failed_layers

SummaryOf(rows, hashesMatch) ==
  LET ids == DOMAIN rows
  IN  [transactions |-> ids,
       expected_matches |-> {i \in ids : rows[i].composed = rows[i].expected},
       per_layer_expected_matches |->
         {i \in ids : rows[i].composed.layer_results = rows[i].expected.layer_results},
       subject_matches |-> {i \in ids : rows[i].subject_match},
       cross_layer_denials |-> CrossLayer(rows),
       co_failure_no_zero_offdiagonal |-> CoFailing(rows),
       four_of_five_equals_single_fault_denies |-> FalseAllows(rows) = SingleFaults(rows),
       four_of_five_equals_single_fault_or_cross_layer |->
         FalseAllows(rows) = SingleFaults(rows) \cup CrossLayer(rows),
       source_hashes_match_corpus |-> hashesMatch]

(* The exit code.  Mutant: it does not look at the sources. *)
AcceptedUnpinned(s) ==
  /\ s.expected_matches = s.transactions
  /\ s.per_layer_expected_matches = s.transactions
  /\ s.subject_matches = s.transactions
  /\ s.co_failure_no_zero_offdiagonal
  /\ s.cross_layer_denials # {}

Accepted(s) ==
  /\ s.expected_matches = s.transactions
  /\ s.per_layer_expected_matches = s.transactions
  /\ s.subject_matches = s.transactions
  /\ s.source_hashes_match_corpus
  /\ s.co_failure_no_zero_offdiagonal
  /\ s.cross_layer_denials # {}

-----------------------------------------------------------------------------
(* run_sql_oracle.py                                                       *)

(* The query's answer for one saved row. *)
OracleAnswer(r) ==
  LET binding == CHOOSE b \in {"PASS"} \cup DOMAIN BindingGates :
                   SqlBinding(b, r.subjects)
      layers == r.composed.layer_results
      columns == [policy |-> layers.policy, evidence |-> layers.evidence,
                  state |-> layers.state, authority |-> layers.authority,
                  measurement |-> layers.measurement, binding |-> binding]
  IN  [verdict |-> SqlVerdict(columns),
       gate |-> CHOOSE g \in {r.authority_gate} \cup RuleGates :
                  SqlGate(g, r.authority_gate, columns),
       binding |-> binding]

Answers(composed) ==
  [verdict |-> composed.verdict, gate |-> composed.first_rejecting_gate,
   binding |-> composed.binding_result]

OracleRowsOf(rows) ==
  [i \in DOMAIN rows |->
     LET answer == OracleAnswer(rows[i])
     IN  [oracle |-> answer,
          implementation_match |-> answer = Answers(rows[i].composed),
          expected_match |-> answer = Answers(rows[i].expected)]]

OracleSummaryOf(oracleRows) ==
  [transactions |-> DOMAIN oracleRows,
   implementation_matches |-> {i \in DOMAIN oracleRows : oracleRows[i].implementation_match},
   expected_matches |-> {i \in DOMAIN oracleRows : oracleRows[i].expected_match}]

(* Whoever matches the implementation matches its binding, too. *)
OracleAccepted(s) ==
  s.implementation_matches = s.transactions /\ s.expected_matches = s.transactions

-----------------------------------------------------------------------------
(* The scripts.                                                            *)

Files ==
  {"corpus", "verdicts", "summary", "sums", "oracle_verdicts", "oracle_summary", "oracle_sums"}

Init ==
  /\ sources = Committed
  /\ files = [f \in Files |-> None]
  /\ pc = "idle"
  /\ held = None
  /\ chain = "none"
  /\ touched = FALSE
  /\ events = 0

(* Somebody edits a sibling's file.  Right before a script of run.sh that  *)
(* reads the siblings' files an edit is one between two scripts.           *)
Edit(n) ==
  /\ events < MaxEvents
  /\ events' = events + 1
  /\ \E content \in Contents[n] \ {sources[n]} :
       sources' = [sources EXCEPT ![n] = content]
  /\ touched' = (touched \/ pc \notin {"build", "verify"})
  /\ UNCHANGED <<files, pc, held, chain>>

Start(script) ==
  /\ pc = "idle"
  /\ events < MaxEvents
  /\ events' = events + 1
  /\ pc' = script
  /\ UNCHANGED <<sources, files, held>>

StartRun ==
  /\ Start("build")
  /\ chain' = "running"
  /\ touched' = FALSE

StartByHand ==
  /\ \E script \in {"build", "verify", "oracle"} : Start(script)
  /\ chain' = "none"
  /\ UNCHANGED touched

(* The script goes on to the statement next, with value in memory. *)
Continue(value, next) ==
  /\ held' = value
  /\ pc' = next
  /\ UNCHANGED <<sources, chain, touched, events>>

(* The script exits; run.sh goes on to the next one or, set -e, stops. *)
Exit(succeeds, next) ==
  /\ held' = None
  /\ IF chain = "running" /\ succeeds
       THEN pc' = next /\ UNCHANGED chain
       ELSE pc' = "idle" /\ chain' = IF chain = "running" THEN "failed" ELSE chain
  /\ UNCHANGED <<sources, touched, events>>

Save(f, value) == files' = [files EXCEPT ![f] = value]

BuildRead ==
  /\ pc = "build"
  /\ LET transactions == TransactionsOf(sources)
     IN  Continue([read |-> sources, transactions |-> transactions,
                   sound |-> DesignHolds(sources, transactions)], "built")
  /\ UNCHANGED files

(* The sources are hashed after all else, whatever they held when read. *)
BuildWrite ==
  /\ pc = "built"
  /\ held.sound
  /\ Save("corpus",
          [transactions |-> held.transactions,
           measurement_variants |-> VariantsOf(held.read.safe_corpus),
           source_artifacts |-> sources])
  /\ Exit(TRUE, "verify")

VerifyRead ==
  /\ pc = "verify"
  /\ files.corpus # None
  /\ Continue([rows |-> RowsOf(sources, files.corpus)], "summarise")
  /\ UNCHANGED files

(* The sources are hashed once more.  No other script writes the corpus    *)
(* meanwhile.                                                              *)
Summarise ==
  /\ pc = "summarise"
  /\ Continue([rows |-> held.rows,
               summary |-> SummaryOf(held.rows, sources = files.corpus.source_artifacts)],
              "verdicts")
  /\ UNCHANGED files

WriteVerdicts ==
  /\ pc = "verdicts"
  /\ Save("verdicts", held.rows)
  /\ Continue(held, "summary")

(* Mutant: a summary that is there already is kept. *)
WriteSummaryOnce ==
  /\ pc = "summary"
  /\ IF files.summary = None THEN Save("summary", held.summary) ELSE UNCHANGED files
  /\ Continue(held, "sums")

WriteSummary ==
  /\ pc = "summary"
  /\ Save("summary", held.summary)
  /\ Continue(held, "sums")

ResultSums ==
  [verdicts |-> files.verdicts, summary |-> files.summary, corpus |-> files.corpus,
   state_fixtures |-> sources.state_fixtures]

WriteSums ==
  /\ pc = "sums"
  /\ Save("sums", ResultSums)
  /\ Exit(Accepted(held.summary), "oracle")

OracleRead ==
  /\ pc = "oracle"
  /\ files.verdicts # None
  /\ LET rows == OracleRowsOf(files.verdicts)
     IN  Continue([rows |-> rows, summary |-> OracleSummaryOf(rows)], "oracle_verdicts")
  /\ UNCHANGED files

WriteOracleVerdicts ==
  /\ pc = "oracle_verdicts"
  /\ Save("oracle_verdicts", held.rows)
  /\ Continue(held, "oracle_summary")

WriteOracleSummary ==
  /\ pc = "oracle_summary"
  /\ Save("oracle_summary", held.summary)
  /\ Continue(held, "oracle_sums")

OracleSums ==
  [oracle_verdicts |-> files.oracle_verdicts, oracle_summary |-> files.oracle_summary,
   verdicts |-> files.verdicts]

WriteOracleSums ==
  /\ pc = "oracle_sums"
  /\ Save("oracle_sums", OracleSums)
  /\ Exit(OracleAccepted(held.summary), "check")

(* sha256sum -c *)
ResultsMatch == files.sums # None /\ files.sums = ResultSums
OracleMatches == files.oracle_sums # None /\ files.oracle_sums = OracleSums

CheckSums ==
  /\ pc = "check"
  /\ ResultsMatch
  /\ OracleMatches
  /\ pc' = "idle"
  /\ chain' = "passed"
  /\ UNCHANGED <<sources, files, held, touched, events>>

(* The file that the statement to come writes. *)
Written ==
  CASE pc = "built" -> {"corpus"}
    [] pc \in {"verdicts", "summary", "sums", "oracle_verdicts", "oracle_summary",
               "oracle_sums"} -> {pc}
    [] OTHER -> {}

Emptied(f) == IF f \in {"verdicts", "oracle_verdicts"} THEN [c \in {} |-> None] ELSE None

(* The script raises, or a test that run.sh starts before it does, or it   *)
(* is killed; write_text empties a file first.                             *)
Fail ==
  /\ pc # "idle"
  /\ \/ UNCHANGED files
     \/ \E f \in Written : Save(f, Emptied(f))
  /\ Exit(FALSE, "idle")

Next ==
  \/ \E n \in Sources : Edit(n)
  \/ StartRun \/ StartByHand
  \/ BuildRead \/ BuildWrite
  \/ VerifyRead \/ Summarise \/ WriteVerdicts \/ WriteSummary \/ WriteSums
  \/ OracleRead \/ WriteOracleVerdicts \/ WriteOracleSummary \/ WriteOracleSums
  \/ CheckSums \/ Fail

Spec == Init /\ [][Next]_vars

-----------------------------------------------------------------------------
(* Correctness.                                                            *)

(* What the evaluators make of the sources as they are now. *)
Found(c) ==
  Evaluated(c, sources, sources.state_fixtures[c.state_fixture].attestation_result,
            VariantsOf(sources.safe_corpus))

OwnResult(c) ==
  Compose(Found(c), sources.authority_corpus[c.authority_case].gate,
          SubjectsOf(c, sources, VariantsOf(sources.safe_corpus)))

(* A run.sh that passes has earned it on the sources as they are, if       *)
(* nobody touched them but between its scripts: for every transaction that *)
(* they give, the label of every layer is what its evaluator finds, and    *)
(* the corpus, the verdicts and the query's rows all hold the composition  *)
(* of that (run.sh:11-18, verify_transactions.py:696-703).                 *)
PassedRunIsEarned ==
  chain = "passed" /\ ~ touched =>
    /\ Choices(sources) = DOMAIN files.corpus.transactions
    /\ Choices(sources) = DOMAIN files.verdicts
    /\ Choices(sources) = DOMAIN files.oracle_verdicts
    /\ \A c \in Choices(sources) :
         /\ Labels(c, sources) = Found(c)
         /\ files.corpus.transactions[c].expected = OwnResult(c)
         /\ files.verdicts[c].composed = OwnResult(c)
         /\ files.oracle_verdicts[c].oracle = Answers(OwnResult(c))

(* Whatever failed and was run again in whatever order, results whose      *)
(* checksums match are one: the summary is that of the verdicts beside it, *)
(* which expect what the corpus beside them does; if all are as expected,  *)
(* the majority's false allows are the single faults and the cross-layer   *)
(* denials, and so not the single faults alone when there is such a        *)
(* denial; and with its own checksums, the query's rows are those of these *)
(* verdicts (verify_transactions.py:573-609, 657-694).                     *)
SavedSummariesAreTrue ==
  ResultsMatch =>
    /\ \E b \in BOOLEAN : files.summary = SummaryOf(files.verdicts, b)
    /\ DOMAIN files.verdicts = DOMAIN files.corpus.transactions
    /\ \A c \in DOMAIN files.verdicts :
         files.verdicts[c].expected = files.corpus.transactions[c].expected
    /\ files.summary.expected_matches = files.summary.transactions =>
         /\ files.summary.four_of_five_equals_single_fault_or_cross_layer
         /\ files.summary.cross_layer_denials # {} =>
              ~ files.summary.four_of_five_equals_single_fault_denies
    /\ OracleMatches =>
         /\ files.oracle_verdicts = OracleRowsOf(files.verdicts)
         /\ files.oracle_summary = OracleSummaryOf(files.oracle_verdicts)

-----------------------------------------------------------------------------
(* The inductive invariant.                                                *)

FilesInv == DOMAIN files = Files

(* A run.sh that has ended runs nothing, and only run.sh checks checksums. *)
ChainInv ==
  /\ chain \in {"passed", "failed"} => pc = "idle"
  /\ pc = "check" => chain = "running"

(* What RowOf makes of the results that a row holds. *)
RowFits(row) ==
  LET r == row.composed.layer_results
  IN  /\ row.composed.failed_layers = FailedLayers(r)
      /\ row.composed.verdict =
           Verdict(FailedLayers(r) = {} /\ row.composed.binding_result = "PASS")
      /\ row.four_of_five_majority = Verdict(Majority(r))

RowsFit(rows, corpus) ==
  /\ DOMAIN rows = DOMAIN corpus.transactions
  /\ \A c \in DOMAIN rows :
       rows[c].expected = corpus.transactions[c].expected /\ RowFits(rows[c])

ResultsFit(rows, summary, corpus) ==
  RowsFit(rows, corpus) /\ \E b \in BOOLEAN : summary = SummaryOf(rows, b)

OracleFits(oracleRows, summary, rows) ==
  oracleRows = OracleRowsOf(rows) /\ summary = OracleSummaryOf(oracleRows)

(* A script holds, and has written, what it made of the files it read. *)
ScriptInv ==
  /\ pc = "summarise" => RowsFit(held.rows, files.corpus)
  /\ pc \in {"verdicts", "summary", "sums"} =>
       ResultsFit(held.rows, held.summary, files.corpus)
  /\ pc \in {"summary", "sums"} => files.verdicts = held.rows
  /\ pc = "sums" => files.summary = held.summary
  /\ pc \in {"oracle_verdicts", "oracle_summary", "oracle_sums"} =>
       OracleFits(held.rows, held.summary, files.verdicts)
  /\ pc \in {"oracle_summary", "oracle_sums"} => files.oracle_verdicts = held.rows
  /\ pc = "oracle_sums" => files.oracle_summary = held.summary

(* Checksums were taken of files that fit. *)
SumsInv ==
  /\ files.sums # None =>
       ResultsFit(files.sums.verdicts, files.sums.summary, files.sums.corpus)
  /\ files.oracle_sums # None =>
       OracleFits(files.oracle_sums.oracle_verdicts, files.oracle_sums.oracle_summary,
                  files.oracle_sums.verdicts)

(* A run of run.sh that nobody disturbed: the corpus is that of the sources *)
(* whose hashes it holds, and rows and verdicts are those of the sources.   *)
CorpusInv ==
  LET pinned == files.corpus.source_artifacts
  IN  /\ files.corpus.transactions = TransactionsOf(pinned)
      /\ files.corpus.measurement_variants = VariantsOf(pinned.safe_corpus)

VerdictsInv ==
  /\ files.verdicts = RowsOf(sources, files.corpus)
  /\ Accepted(SummaryOf(files.verdicts, sources = files.corpus.source_artifacts))

OracleInv ==
  /\ files.oracle_verdicts = OracleRowsOf(files.verdicts)
  /\ OracleAccepted(OracleSummaryOf(files.oracle_verdicts))

OracleStatements == {"oracle", "oracle_verdicts", "oracle_summary", "oracle_sums"}

UndisturbedInv ==
  chain = "running" /\ ~ touched =>
    /\ pc = "built" =>
         held.read = sources /\ held.transactions = TransactionsOf(sources)
    /\ pc \notin {"build", "built"} => CorpusInv
    /\ pc \in {"summarise", "verdicts", "summary", "sums"} =>
         held.rows = RowsOf(sources, files.corpus)
    /\ pc \in {"verdicts", "summary", "sums"} =>
         held.summary = SummaryOf(held.rows, sources = files.corpus.source_artifacts)
    /\ pc \in OracleStatements \cup {"check"} => VerdictsInv
    /\ pc = "check" => OracleInv

PassedInv == chain = "passed" /\ ~ touched => CorpusInv /\ VerdictsInv /\ OracleInv

CorpusRunInv ==
  FilesInv /\ ChainInv /\ ScriptInv /\ SumsInv /\ UndisturbedInv /\ PassedInv
=============================================================================
