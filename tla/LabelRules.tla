----------------------------- MODULE LabelRules ------------------------------
(***************************************************************************)
(* The labelling rules P1-P5, E1-E2, S1-S3, A0-A19 and M1-M3, as two       *)
(* programs implement them apart from the verifier and from each other:    *)
(* evaluate.mjs in JavaScript and evaluate_mutation_corpus.py in Python.   *)
(* Each gives every layer of a transaction its result, its gate and the    *)
(* rule that decided, and the transaction the gate of the first layer that *)
(* fails.  Neither knows the binding of the subjects.                      *)
(*                                                                         *)
(* What an edge, an action or an effect may fail is DelegationRules',      *)
(* whose conditions and order both programs repeat; how each carries the   *)
(* delegation along the edges is its own.                                  *)
(***************************************************************************)
EXTENDS TransactionLayers

(* The label of a layer; edge is the index in rules "A1:<index>" and on.   *)
Label(result, g, rule, edge) ==
  [result |-> result, gate |-> g, rule |-> rule, edge |-> edge]

Passing(layer) ==
  CASE layer = "policy" -> Label("PASS", None, "P1-P5", 0)
    [] layer = "evidence" -> Label("PASS", None, "E1-E2", 0)
    [] layer = "state" -> Label("PASS", None, "S1-S3", 0)
    [] layer = "authority" -> Label("ALLOW", None, "A0-A19", 0)
    [] layer = "measurement" -> Label("PASS", None, "M1-M3", 0)

(* The first of an order's names that is in S. *)
FirstOf(order, S) ==
  order[CHOOSE k \in DOMAIN order : order[k] \in S /\ \A m \in 1..k-1 : order[m] \notin S]

(* The rule an authority gate is reported under.                           *)
RuleOf(g) ==
  CASE g = "protocol.valid" -> "A0"
    [] g = "edge.lineage" -> "A1"
    [] g = "edge.signature" -> "A2"
    [] g = "edge.parent_delegable" -> "A3"
    [] g = "edge.role_transition" -> "A4"
    [] g = "edge.status" -> "A5"
    [] g = "edge.freshness" -> "A6"
    [] g \in {"edge.scope.operations", "edge.scope.resources", "edge.scope.tools",
              "edge.scope.audiences", "edge.scope.purposes"} -> "A7"
    [] g = "edge.scope.currency" -> "A8"
    [] g = "edge.scope.amount_max" -> "A9"
    [] g = "action.subject_role" -> "A10"
    [] g = "action.operation" -> "A11"
    [] g = "action.resource" -> "A12"
    [] g = "action.tool" -> "A13"
    [] g = "action.audience" -> "A14"
    [] g = "action.purpose" -> "A15"
    [] g = "action.amount_currency" -> "A16"
    [] g = "effect.native_validity" -> "A17"
    [] g = "effect.time_binding" -> "A18"
    [] g = "effect.action_binding" -> "A19"

(* What an edge hands on to the next one. *)
Carry(e) == [principal |-> e.delegate, role |-> e.to_role, scope |-> e.grant]

-----------------------------------------------------------------------------
(* evaluate.mjs: one test after another.                                   *)

(* inInclusiveWindow: both ends have to be strings, so a missing one is    *)
(* not read as a date.                                                     *)
InInclusiveWindow(lower, upper) ==
  /\ Missing \notin {lower, upper}
  /\ lower <= DecisionTime /\ DecisionTime <= upper

(* Mutant: the version and the window are tested before the identifier. *)
StaleFirst(p) ==
  IF p = None THEN Label("MISSING", "policy.missing", "P1", 0)
  ELSE IF ~ p.signature_valid THEN Label("INVALID_SIGNATURE", "policy.signature", "P2", 0)
  ELSE IF \/ p.body.version # Anchor.version
          \/ ~ InInclusiveWindow(p.body.valid_from, p.body.valid_until)
    THEN Label("STALE", "policy.stale", "P4", 0)
  ELSE IF p.body.policy_id # Anchor.policy_id
    THEN Label("SUBSTITUTED", "policy.substituted", "P3", 0)
  ELSE IF p.body # Anchor THEN Label("SUBSTITUTED", "policy.substituted", "P5", 0)
  ELSE Passing("policy")

JsPolicyLayer(p) ==
  IF p = None THEN Label("MISSING", "policy.missing", "P1", 0)
  ELSE IF ~ p.signature_valid THEN Label("INVALID_SIGNATURE", "policy.signature", "P2", 0)
  ELSE IF p.body.policy_id # Anchor.policy_id
    THEN Label("SUBSTITUTED", "policy.substituted", "P3", 0)
  ELSE IF \/ p.body.version # Anchor.version
          \/ ~ InInclusiveWindow(p.body.valid_from, p.body.valid_until)
    THEN Label("STALE", "policy.stale", "P4", 0)
  ELSE IF p.body # Anchor THEN Label("SUBSTITUTED", "policy.substituted", "P5", 0)
  ELSE Passing("policy")

JsEvidenceLayer(e) ==
  IF ~ e.signature_valid THEN Label("TAMPERED", "evidence.integrity", "E1", 0)
  ELSE IF e.nonce \in PreseenNonces THEN Label("REPLAY", "evidence.replay", "E2", 0)
  ELSE Passing("evidence")

JsStateLayer(a) ==
  IF a.status # "affirming" THEN Label("CONTRAINDICATED", "state.contraindicated", "S1", 0)
  ELSE IF ~ InInclusiveWindow(a.issued_at, a.expires_at)
    THEN Label("STALE", "state.stale", "S2", 0)
  ELSE IF a.reference_digest = None \/ a.observed_digest # a.reference_digest
    THEN Label("REFERENCE_MISMATCH", "state.reference", "S3", 0)
  ELSE Passing("state")

JsMeasurementLayer(f) ==
  IF f.profile_digest # f.required_profile_digest
    THEN Label("PROFILE_MISMATCH", "measurement.profile", "M1", 0)
  ELSE IF f.point < f.threshold THEN Label("FAIL_POINT", "measurement.point", "M2", 0)
  ELSE IF f.lcb < f.threshold THEN Label("FAIL_LCB", "measurement.confidence", "M3", 0)
  ELSE Passing("measurement")

(* What edge n is compared with, or the action after the last edge.        *)
Carried(c, n) == IF n = 1 THEN Root ELSE Carry(c.edges[n - 1])

EdgeBreaks(c, n) == EdgeFaults(c.edges[n], Carried(c, n), n = 1)

(* The first edge that fails ends the loop; only then come the action and  *)
(* the receipt.                                                            *)
JsAuthorityLayer(c) ==
  LET broken == {n \in 1..Len(c.edges) : EdgeBreaks(c, n) # {}}
      Denied(g, n) == Label("DENY", g, RuleOf(g), n)
      action == ActionFaults(c.action, Carried(c, Len(c.edges) + 1))
      effect == EffectFaults(c.receipt, c.action)
  IN  IF ~ c.protocol_valid THEN Denied("protocol.valid", 0)
      ELSE IF broken # {}
        THEN LET n == Smallest(broken)
             IN  Denied(FirstOf(EdgeOrder, EdgeBreaks(c, n)), n - 1)
      ELSE IF action # {} THEN Denied(FirstOf(ActionOrder, action), 0)
      ELSE IF effect # {} THEN Denied(FirstOf(EffectOrder, effect), 0)
      ELSE Passing("authority")

(* The verdict and the gate of the first layer, in EVALUATION_ORDER, that  *)
(* does not pass.                                                          *)
Summary(layers) ==
  LET failing == {name \in LayerNames : ~ LayerPasses(name, layers[name].result)}
  IN  [verdict |-> Verdict(failing = {}),
       first_rejecting_gate |->
         IF failing = {} THEN "verified" ELSE layers[FirstOf(EvaluationOrder, failing)].gate,
       layers |-> layers]

JsEvaluate(t) ==
  Summary([policy |-> JsPolicyLayer(t.policy), evidence |-> JsEvidenceLayer(t.evidence),
           state |-> JsStateLayer(t.attestation),
           authority |-> JsAuthorityLayer(t.authority_case),
           measurement |-> JsMeasurementLayer(t.fixture)])

-----------------------------------------------------------------------------
(* evaluate_mutation_corpus.py: the rules a layer breaks, and the first.   *)

ResultOf(rule) ==
  CASE rule = "P1" -> <<"MISSING", "policy.missing">>
    [] rule = "P2" -> <<"INVALID_SIGNATURE", "policy.signature">>
    [] rule \in {"P3", "P5"} -> <<"SUBSTITUTED", "policy.substituted">>
    [] rule = "P4" -> <<"STALE", "policy.stale">>
    [] rule = "E1" -> <<"TAMPERED", "evidence.integrity">>
    [] rule = "E2" -> <<"REPLAY", "evidence.replay">>
    [] rule = "S1" -> <<"CONTRAINDICATED", "state.contraindicated">>
    [] rule = "S2" -> <<"STALE", "state.stale">>
    [] rule = "S3" -> <<"REFERENCE_MISMATCH", "state.reference">>
    [] rule = "M1" -> <<"PROFILE_MISMATCH", "measurement.profile">>
    [] rule = "M2" -> <<"FAIL_POINT", "measurement.point">>
    [] rule = "M3" -> <<"FAIL_LCB", "measurement.confidence">>

FirstBroken(layer, rules, broken) ==
  IF broken = {} THEN Passing(layer)
  ELSE LET rule == FirstOf(rules, broken)
       IN  Label(ResultOf(rule)[1], ResultOf(rule)[2], rule, 0)

PyPolicyLayer(p) ==
  FirstBroken("policy", <<"P1", "P2", "P3", "P4", "P5">>,
    IF p = None THEN {"P1"}
    ELSE {r \in {"P2", "P3", "P4", "P5"} :
            \/ r = "P2" /\ ~ p.signature_valid
            \/ r = "P3" /\ p.body.policy_id # Anchor.policy_id
            \/ r = "P4" /\ (\/ p.body.version # Anchor.version
                            \/ Missing \in {p.body.valid_from, p.body.valid_until}
                            \/ DecisionTime < p.body.valid_from
                            \/ p.body.valid_until < DecisionTime)
            \/ r = "P5" /\ p.body # Anchor})

PyEvidenceLayer(e) ==
  FirstBroken("evidence", <<"E1", "E2">>,
    {r \in {"E1", "E2"} : \/ r = "E1" /\ ~ e.signature_valid
                          \/ r = "E2" /\ e.nonce \in PreseenNonces})

PyStateLayer(a) ==
  FirstBroken("state", <<"S1", "S2", "S3">>,
    {r \in {"S1", "S2", "S3"} :
       \/ r = "S1" /\ a.status # "affirming"
       \/ r = "S2" /\ (\/ Missing \in {a.issued_at, a.expires_at}
                       \/ DecisionTime < a.issued_at \/ a.expires_at < DecisionTime)
       \/ r = "S3" /\ (a.reference_digest = None \/ a.observed_digest # a.reference_digest)})

PyMeasurementLayer(f) ==
  FirstBroken("measurement", <<"M1", "M2", "M3">>,
    {r \in {"M1", "M2", "M3"} : \/ r = "M1" /\ f.profile_digest # f.required_profile_digest
                                \/ r = "M2" /\ f.point < f.threshold
                                \/ r = "M3" /\ f.lcb < f.threshold})

(* The loop as it runs: after n edges, how many of them have passed, and   *)
(* what the last of those hands on.                                        *)
PyWalk(c) ==
  LET after[n \in 0..Len(c.edges)] ==
        IF n = 0 THEN [passed |-> 0, carried |-> Root]
        ELSE LET before == after[n - 1]
             IN  IF \/ before.passed < n - 1
                    \/ EdgeFaults(c.edges[n], before.carried, n = 1) # {}
                 THEN before
                 ELSE [passed |-> n, carried |-> Carry(c.edges[n])]
  IN  after

PyAuthorityLayer(c) ==
  LET Denied(g, n) == Label("DENY", g, RuleOf(g), n)
      walked == PyWalk(c)[Len(c.edges)]
      n == walked.passed
      action == ActionFaults(c.action, walked.carried)
      effect == EffectFaults(c.receipt, c.action)
  IN  IF ~ c.protocol_valid THEN Denied("protocol.valid", 0)
      ELSE IF n < Len(c.edges)
        THEN LET faults == EdgeFaults(c.edges[n + 1], walked.carried, n = 0)
             IN  Denied(FirstOf(EdgeOrder, faults), n)
      ELSE IF action # {} THEN Denied(FirstOf(ActionOrder, action), 0)
      ELSE IF effect # {} THEN Denied(FirstOf(EffectOrder, effect), 0)
      ELSE Passing("authority")

PyEvaluate(t) ==
  Summary([policy |-> PyPolicyLayer(t.policy), evidence |-> PyEvidenceLayer(t.evidence),
           state |-> PyStateLayer(t.attestation),
           authority |-> PyAuthorityLayer(t.authority_case),
           measurement |-> PyMeasurementLayer(t.fixture)])
=============================================================================
