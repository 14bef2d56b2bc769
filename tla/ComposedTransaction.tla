------------------------- MODULE ComposedTransaction -------------------------
(***************************************************************************)
(* One transaction of the composed verifier: the policy, the evidence and  *)
(* the measurement are appraised, the delegation path is walked, the state *)
(* is appraised, the subjects are read out of the same artefacts, and the  *)
(* composition rule joins the five results and the binding of the subjects *)
(* into one verdict and its first rejecting gate.                          *)
(*                                                                         *)
(* The walk is that of DelegationPaths: case, index, parent, verdict, gate *)
(* and stage are its variables, and verdict is the authority layer's.      *)
(*                                                                         *)
(* The independent twin is the SQL query that composes the saved rows.  A  *)
(* missing policy, field or digest is None, as in CompositionRule.         *)
(***************************************************************************)
EXTENDS DelegationPaths, TransactionLayers

CONSTANT Transactions     \* the transactions composed

ASSUME TransactionsAssumption == Transactions \subseteq TransactionType

VARIABLES
  tx,           \* the artefacts of the transaction
  at,           \* the statement of the loop to come
  results,      \* of the layers other than authority, and of the point alone
  subjects,     \* the canonical action and the observed effect, once derived
  row           \* compose()'s result and the baselines, once saved

transactionVars == <<tx, at, results, subjects, row>>
allVars == <<vars, transactionVars>>

-----------------------------------------------------------------------------
(* The subjects and their binding.                                         *)

(* Mutant: the grant of the first edge is taken for that of the last. *)
FirstGrant(c) == c.edges[1].grant
TerminalGrant(c) == c.edges[Len(c.edges)].grant

CanonicalAction(p, c) ==
  LET edges == {c.edges[n] : n \in 1..Len(c.edges)}
  IN  [effect |-> IF p = None THEN None ELSE p.body.required_effect,
       resource |-> c.action.resource,
       operation |-> c.action.operation,
       granted_tools |-> TerminalGrant(c).tools,
       granted_resources |-> TerminalGrant(c).resources,
       authorised_from |-> Largest({e.not_before : e \in edges}),
       authorised_until |-> Smallest({e.expires_at : e \in edges}),
       measurement_profile |->
         IF p = None THEN None ELSE p.body.required_measurement_profile]

ObservedEffect(e, f) ==
  [effect |-> e.effect, resource |-> e.resource, issued_at |-> e.issued_at,
   measurement_profile |-> f.profile_id]

SubjectsOf(t) ==
  [canonical |-> CanonicalAction(t.policy, t.authority_case),
   observed |-> ObservedEffect(t.evidence, t.fixture)]

-----------------------------------------------------------------------------
(* The row.                                                                *)

(* The layer results that compose() is given. *)
Layers ==
  [policy |-> results.policy, evidence |-> results.evidence, state |-> results.state,
   authority |-> verdict, measurement |-> results.measurement]

(* Mutant: the ablation loses the binding together with the confidence. *)
PointWithoutBinding(r, s) ==
  FailedLayers(r) \subseteq {"measurement"} /\ results.point_only = "PASS"

(* The ablation of the measurement criterion, which keeps the binding. *)
PointOnlyMeasurement(r, s) ==
  /\ FailedLayers(r) \subseteq {"measurement"}
  /\ results.point_only = "PASS"
  /\ Bind(s) = "PASS"

ArtifactValidity(r) ==
  /\ tx.policy # None
  /\ tx.policy.signature_valid
  /\ r.evidence = "PASS"

Baselines(r, s) ==
  LET local == FailedLayers(r) = {} /\ EffectMatches(s) /\ ResourceMatches(s)
  IN  [artifact_validity_only |-> Verdict(ArtifactValidity(r)),
       point_only_measurement |-> Verdict(PointOnlyMeasurement(r, s)),
       four_of_five_majority |-> Verdict(Majority(r)),
       effect_resource_binding |-> Verdict(local),
       effect_resource_time_binding |-> Verdict(local /\ WithinWindow(s)),
       effect_resource_profile_binding |-> Verdict(local /\ ProfileMatches(s))]

Compose(r, authorityGate, s) ==
  [verdict |-> Verdict(FailedLayers(r) = {} /\ Bind(s) = "PASS"),
   first_rejecting_gate |-> FirstGate(r, authorityGate, Bind(s)),
   failed_layers |-> FailedLayers(r),
   binding_result |-> Bind(s),
   baselines |-> Baselines(r, s)]

-----------------------------------------------------------------------------
(* The loop, for one transaction.                                          *)

NotYet ==
  [policy |-> "none", evidence |-> "none", state |-> "none", measurement |-> "none",
   point_only |-> "none"]

TransactionInit ==
  /\ tx \in Transactions
  /\ case = tx.authority_case
  /\ Init
  /\ at = "policy"
  /\ results = NotYet
  /\ subjects = None
  /\ row = None

Appraise(after, next) ==
  /\ results' = after
  /\ at' = next
  /\ UNCHANGED <<vars, tx, subjects, row>>

AppraisePolicy ==
  /\ at = "policy"
  /\ Appraise([results EXCEPT !.policy = EvaluatePolicy(tx.policy)], "evidence")

AppraiseEvidence ==
  /\ at = "evidence"
  /\ Appraise([results EXCEPT !.evidence = EvaluateEvidence(tx.evidence)], "measurement")

AppraiseMeasurement ==
  /\ at = "measurement"
  /\ Appraise([results EXCEPT !.measurement = EvaluateMeasurement(tx.fixture),
                              !.point_only = PointOnly(tx.fixture)], "authority")

(* evaluate_authority: the steps of the walk, until it has a verdict. *)
WalkAuthority ==
  /\ at = "authority"
  /\ Next
  /\ UNCHANGED transactionVars

AppraiseTheState ==
  /\ at = "authority"
  /\ verdict # "none"
  /\ Appraise([results EXCEPT !.state = AppraiseState(tx.attestation)], "subjects")

DeriveSubjects ==
  /\ at = "subjects"
  /\ subjects' = SubjectsOf(tx)
  /\ at' = "compose"
  /\ UNCHANGED <<vars, tx, results, row>>

ComposeRow ==
  /\ at = "compose"
  /\ row' = Compose(Layers, gate, subjects)
  /\ at' = "saved"
  /\ UNCHANGED <<vars, tx, results, subjects>>

TransactionNext ==
  \/ AppraisePolicy \/ AppraiseEvidence \/ AppraiseMeasurement \/ WalkAuthority
  \/ AppraiseTheState \/ DeriveSubjects \/ ComposeRow

TransactionSpec == TransactionInit /\ [][TransactionNext]_allVars

(* The columns of a saved row, with the binding the query has derived. *)
Columns(binding) ==
  [policy |-> results.policy, evidence |-> results.evidence, state |-> results.state,
   authority |-> verdict, measurement |-> results.measurement, binding |-> binding]

-----------------------------------------------------------------------------
(* Correctness.                                                            *)

Results(gates) == {"none", "PASS"} \cup DOMAIN gates

ComposedGates ==
  AllGates \cup UNION {{gates[r] : r \in DOMAIN gates} : gates \in
    {PolicyGates, EvidenceGates, StateGates, MeasurementGates, BindingGates}}

(* Every variable has its type; each typed result is one its layer's gate  *)
(* map knows (composition_rule.py:120-146).                                *)
TransactionTypeOK ==
  /\ TypeOK
  /\ tx \in TransactionType
  /\ case = tx.authority_case
  /\ at \in {"policy", "evidence", "measurement", "authority", "subjects", "compose", "saved"}
  /\ results \in
       [policy : Results(PolicyGates), evidence : Results(EvidenceGates),
        state : Results(StateGates), measurement : Results(MeasurementGates),
        point_only : {"none", "PASS", "FAIL_POINT"}]
  /\ at \in {"compose", "saved"} => subjects = SubjectsOf(tx)
  /\ at = "saved" => row.first_rejecting_gate \in ComposedGates

(* The SQL query, from the saved row alone, derives the binding, the       *)
(* verdict and the first gate of compose() and no other                    *)
(* (run_sql_oracle.py:131-135 counts implementation matches).              *)
TwinAgrees ==
  at = "saved" =>
    LET columns == Columns(row.binding_result)
    IN  /\ \A b \in {"PASS"} \cup DOMAIN BindingGates :
             SqlBinding(b, subjects) <=> b = row.binding_result
        /\ \A g \in ComposedGates :
             SqlGate(g, gate, columns) <=> g = row.first_rejecting_gate
        /\ row.verdict = SqlVerdict(columns)

(* An allowed transaction is authorised by all its artefacts together: the *)
(* observed effect is the one the anchored policy requires, every edge of  *)
(* the path grants it on that resource and was valid when it was issued,   *)
(* though bind() reads the grant of the last edge only, and the appraisal  *)
(* was made under the profile the policy requires                          *)
(* (composition_rule.py:195-205).                                          *)
JointlyAuthorised ==
  at = "saved" /\ row.verdict = "ALLOW" =>
    LET e == tx.evidence
    IN  /\ tx.policy # None /\ tx.policy.body = Anchor
        /\ e.signature_valid /\ e.nonce \notin PreseenNonces
        /\ e.effect = Anchor.required_effect
        /\ e.resource = case.action.resource
        /\ e.effect \in base.scope.tools
        /\ \A n \in 1..Hops :
             LET edge == case.edges[n]
             IN  /\ e.effect \in edge.grant.tools
                 /\ e.resource \in edge.grant.resources
                 /\ edge.not_before <= e.issued_at /\ e.issued_at <= edge.expires_at
        /\ tx.fixture.profile_id = Anchor.required_measurement_profile

(* A denial is put on the layer that comes first in EVALUATION_ORDER, not  *)
(* on the one evaluated first, and on the binding exactly when no layer    *)
(* has failed (composition_rule.py:379-387, 422-425).                      *)
DenialIsLocalised ==
  at = "saved" =>
    /\ row.verdict = "ALLOW" <=> row.first_rejecting_gate = "verified"
    /\ row.verdict = "DENY" /\ row.failed_layers = {} <=>
         row.first_rejecting_gate \in {BindingGates[b] : b \in DOMAIN BindingGates}
    /\ \A k \in DOMAIN EvaluationOrder :
         LET layer == EvaluationOrder[k]
         IN  /\ layer \in row.failed_layers
             /\ \A m \in 1..k-1 : EvaluationOrder[m] \notin row.failed_layers
             => row.first_rejecting_gate =
                  CASE layer = "policy" -> PolicyGates[results.policy]
                    [] layer = "evidence" -> EvidenceGates[results.evidence]
                    [] layer = "state" -> StateGates[results.state]
                    [] layer = "authority" -> gate
                    [] layer = "measurement" -> MeasurementGates[results.measurement]

(* No baseline denies what the rule allows, and each allows only what its  *)
(* own omission explains; a join that omits the time also lets through an  *)
(* effect that was never dated (verify_transactions.py:253-313).           *)
BaselinesAreExplained ==
  at = "saved" =>
    LET b == row.baselines
    IN  /\ row.verdict = "ALLOW" => \A name \in DOMAIN b : b[name] = "ALLOW"
        /\ row.verdict = "DENY" =>
             /\ b.point_only_measurement = "ALLOW" =>
                  row.failed_layers = {"measurement"} /\ row.binding_result = "PASS"
             /\ b.effect_resource_time_binding = "ALLOW" =>
                  row.failed_layers = {} /\ row.binding_result = "PROFILE_MISMATCH"
             /\ b.effect_resource_profile_binding = "ALLOW" =>
                  /\ row.failed_layers = {}
                  /\ \/ row.binding_result = "TIME_MISMATCH"
                     \/ row.binding_result = "UNDETERMINED" /\ tx.evidence.issued_at = None
             /\ b.four_of_five_majority = "ALLOW" =>
                  \/ Cardinality(row.failed_layers) = 1
                  \/ row.failed_layers = {} /\ row.binding_result # "PASS"
             /\ b.artifact_validity_only = "ALLOW" =>
                  "evidence" \notin row.failed_layers /\ tx.policy # None

-----------------------------------------------------------------------------
(* The inductive invariant: what has been evaluated is what the artefacts  *)
(* say, and the saved row was composed from it.                            *)

Settled ==
  /\ at # "policy" => results.policy = EvaluatePolicy(tx.policy)
  /\ at \notin {"policy", "evidence"} => results.evidence = EvaluateEvidence(tx.evidence)
  /\ at \notin {"policy", "evidence", "measurement"} =>
       /\ results.measurement = EvaluateMeasurement(tx.fixture)
       /\ results.point_only = PointOnly(tx.fixture)
  /\ at \in {"subjects", "compose", "saved"} =>
       results.state = AppraiseState(tx.attestation) /\ verdict # "none"
  /\ at = "saved" => row = Compose(Layers, gate, subjects)

TransactionInv == TransactionTypeOK /\ Settled
=============================================================================
