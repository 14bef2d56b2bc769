--------------------------- MODULE CompositionRule ---------------------------
(***************************************************************************)
(* The composition rule: the binding of the subjects of a transaction, the *)
(* verdict and the first rejecting gate from the results of the five       *)
(* layers and that binding.  The verifier and the builder of the corpus    *)
(* both import it.                                                         *)
(*                                                                         *)
(* Its independent twin is the SQL query over saved rows.                  *)
(***************************************************************************)
EXTENDS Naturals, Sequences, FiniteSets

CONSTANT None         \* a missing field of a subject

-----------------------------------------------------------------------------
(* The binding of the subjects.                                            *)

IsMissing(s) ==
  \/ None \in {s.canonical.effect, s.canonical.measurement_profile}
  \/ None \in {s.observed.effect, s.observed.resource, s.observed.measurement_profile}
  \/ s.observed.issued_at = None

EffectMatches(s) ==
  s.observed.effect = s.canonical.effect /\ s.observed.effect \in s.canonical.granted_tools

ResourceMatches(s) ==
  /\ s.observed.resource = s.canonical.resource
  /\ s.observed.resource \in s.canonical.granted_resources

WithinWindow(s) ==
  /\ ~ IsMissing(s)
  /\ s.canonical.authorised_from <= s.observed.issued_at
  /\ s.observed.issued_at <= s.canonical.authorised_until

ProfileMatches(s) == s.observed.measurement_profile = s.canonical.measurement_profile

(* Mutant: the window is looked at before the resource. *)
BindTimeFirst(s) ==
  IF IsMissing(s) THEN "UNDETERMINED"
  ELSE IF ~ EffectMatches(s) THEN "EFFECT_MISMATCH"
  ELSE IF ~ WithinWindow(s) THEN "TIME_MISMATCH"
  ELSE IF ~ ResourceMatches(s) THEN "RESOURCE_MISMATCH"
  ELSE IF ~ ProfileMatches(s) THEN "PROFILE_MISMATCH"
  ELSE "PASS"

Bind(s) ==
  IF IsMissing(s) THEN "UNDETERMINED"
  ELSE IF ~ EffectMatches(s) THEN "EFFECT_MISMATCH"
  ELSE IF ~ ResourceMatches(s) THEN "RESOURCE_MISMATCH"
  ELSE IF ~ WithinWindow(s) THEN "TIME_MISMATCH"
  ELSE IF ~ ProfileMatches(s) THEN "PROFILE_MISMATCH"
  ELSE "PASS"

-----------------------------------------------------------------------------
(* The composition rule.                                                   *)

EvaluationOrder == <<"policy", "evidence", "state", "authority", "measurement">>

LayerPasses(layer, result) == result = (IF layer = "authority" THEN "ALLOW" ELSE "PASS")

LayerNames == {EvaluationOrder[k] : k \in DOMAIN EvaluationOrder}

FailedLayers(r) == {layer \in LayerNames : ~ LayerPasses(layer, r[layer])}

PolicyGates ==
  [MISSING |-> "policy.missing", STALE |-> "policy.stale",
   SUBSTITUTED |-> "policy.substituted", INVALID_SIGNATURE |-> "policy.signature"]
EvidenceGates == [TAMPERED |-> "evidence.integrity", REPLAY |-> "evidence.replay"]
StateGates ==
  [CONTRAINDICATED |-> "state.contraindicated", STALE |-> "state.stale",
   REFERENCE_MISMATCH |-> "state.reference"]
MeasurementGates ==
  [FAIL_POINT |-> "measurement.point", FAIL_LCB |-> "measurement.confidence",
   PROFILE_MISMATCH |-> "measurement.profile"]
BindingGates ==
  [EFFECT_MISMATCH |-> "binding.effect", RESOURCE_MISMATCH |-> "binding.resource",
   TIME_MISMATCH |-> "binding.time", PROFILE_MISMATCH |-> "binding.measurement_profile",
   UNDETERMINED |-> "binding.undetermined"]

(* Mutant: measurement is looked at when it is evaluated, before authority. *)
GateAsEvaluated(r, authorityGate, binding) ==
  IF r.policy # "PASS" THEN PolicyGates[r.policy]
  ELSE IF r.evidence # "PASS" THEN EvidenceGates[r.evidence]
  ELSE IF r.measurement # "PASS" THEN MeasurementGates[r.measurement]
  ELSE IF r.authority # "ALLOW" THEN authorityGate
  ELSE IF r.state # "PASS" THEN StateGates[r.state]
  ELSE IF binding # "PASS" THEN BindingGates[binding]
  ELSE "verified"

FirstGate(r, authorityGate, binding) ==
  IF r.policy # "PASS" THEN PolicyGates[r.policy]
  ELSE IF r.evidence # "PASS" THEN EvidenceGates[r.evidence]
  ELSE IF r.state # "PASS" THEN StateGates[r.state]
  ELSE IF r.authority # "ALLOW" THEN authorityGate
  ELSE IF r.measurement # "PASS" THEN MeasurementGates[r.measurement]
  ELSE IF binding # "PASS" THEN BindingGates[binding]
  ELSE "verified"

RuleGates ==
  {"verified"} \cup UNION {{gates[r] : r \in DOMAIN gates} : gates \in
    {PolicyGates, EvidenceGates, StateGates, MeasurementGates, BindingGates}}

(* The ablation that lets four layers compensate for the fifth. *)
Majority(r) == Cardinality(LayerNames \ FailedLayers(r)) >= 4

Verdict(allowed) == IF allowed THEN "ALLOW" ELSE "DENY"

-----------------------------------------------------------------------------
(* The twin: oracle.sql over the saved rows.  Its CASEs are tables here:   *)
(* the first line whose condition holds gives the value.                   *)

SqlBindingOrder ==
  <<"UNDETERMINED", "EFFECT_MISMATCH", "RESOURCE_MISMATCH", "TIME_MISMATCH",
    "PROFILE_MISMATCH">>

(* WHEN of the binding; delimited() has made the granted lists strings, so *)
(* they are never NULL and hold the values between the bars.               *)
SqlWhen(result, s) ==
  LET c == s.canonical
      o == s.observed
  IN  \/ /\ result = "UNDETERMINED"
         /\ \/ None \in {c.effect, c.resource, c.operation, c.measurement_profile}
            \/ None \in {o.effect, o.resource, o.measurement_profile}
            \/ None \in {c.authorised_from, c.authorised_until, o.issued_at}
      \/ result = "EFFECT_MISMATCH" /\ (o.effect # c.effect \/ o.effect \notin c.granted_tools)
      \/ /\ result = "RESOURCE_MISMATCH"
         /\ o.resource # c.resource \/ o.resource \notin c.granted_resources
      \/ /\ result = "TIME_MISMATCH"
         /\ o.issued_at < c.authorised_from \/ o.issued_at > c.authorised_until
      \/ result = "PROFILE_MISMATCH" /\ o.measurement_profile # c.measurement_profile

SqlBinding(result, s) ==
  \/ \E k \in DOMAIN SqlBindingOrder :
       /\ result = SqlBindingOrder[k]
       /\ \A m \in 1..k-1 : ~ SqlWhen(SqlBindingOrder[m], s)
       /\ SqlWhen(result, s)
  \/ result = "PASS" /\ \A k \in DOMAIN SqlBindingOrder : ~ SqlWhen(SqlBindingOrder[k], s)

SqlVerdict(columns) ==
  Verdict(\A c \in DOMAIN columns : columns[c] = (IF c = "authority" THEN "ALLOW" ELSE "PASS"))

(* <<column, value, gate>>; the authority line fires on every value but its own. *)
SqlLadder(authorityGate) ==
  <<<<"policy", "MISSING", "policy.missing">>, <<"policy", "STALE", "policy.stale">>,
    <<"policy", "SUBSTITUTED", "policy.substituted">>,
    <<"policy", "INVALID_SIGNATURE", "policy.signature">>,
    <<"evidence", "TAMPERED", "evidence.integrity">>,
    <<"evidence", "REPLAY", "evidence.replay">>,
    <<"state", "CONTRAINDICATED", "state.contraindicated">>,
    <<"state", "STALE", "state.stale">>, <<"state", "REFERENCE_MISMATCH", "state.reference">>,
    <<"authority", "ALLOW", authorityGate>>,
    <<"measurement", "FAIL_POINT", "measurement.point">>,
    <<"measurement", "FAIL_LCB", "measurement.confidence">>,
    <<"measurement", "PROFILE_MISMATCH", "measurement.profile">>,
    <<"binding", "EFFECT_MISMATCH", "binding.effect">>,
    <<"binding", "RESOURCE_MISMATCH", "binding.resource">>,
    <<"binding", "TIME_MISMATCH", "binding.time">>,
    <<"binding", "PROFILE_MISMATCH", "binding.measurement_profile">>,
    <<"binding", "UNDETERMINED", "binding.undetermined">>>>

SqlFires(line, columns) ==
  IF line[1] = "authority" THEN columns.authority # line[2] ELSE columns[line[1]] = line[2]

SqlGate(g, authorityGate, columns) ==
  LET ladder == SqlLadder(authorityGate)
  IN  \/ \E k \in DOMAIN ladder :
           /\ g = ladder[k][3]
           /\ SqlFires(ladder[k], columns)
           /\ \A m \in 1..k-1 : ~ SqlFires(ladder[m], columns)
      \/ g = "verified" /\ \A k \in DOMAIN ladder : ~ SqlFires(ladder[k], columns)
=============================================================================
