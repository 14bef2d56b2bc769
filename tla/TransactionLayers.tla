-------------------------- MODULE TransactionLayers --------------------------
(***************************************************************************)
(* The artefacts of a transaction and the appraisal of each layer but      *)
(* authority, as evaluate_policy(), evaluate_evidence(),                   *)
(* evaluate_measurement() and the adapter of the state make it from the    *)
(* artefact alone; here nothing has a state.                               *)
(*                                                                         *)
(* A missing policy, field or digest is None, as in CompositionRule.       *)
(***************************************************************************)
EXTENDS DelegationRules, CompositionRule

CONSTANTS
  Profiles,         \* identifiers of measurement profiles
  Digests, Nonces,
  Anchor,           \* the unsigned fields of the anchored policy, which its digest fixes
  DecisionTime,     \* of the policy and the state
  PreseenNonces

Optional(S) == S \cup {None}

(* What object_digest covers. *)
PolicyBody ==
  [policy_id : Items, version : Nat, valid_from : Nat, valid_until : Nat,
   required_effect : Items, required_measurement_profile : Profiles]

Policy == [body : PolicyBody, signature_valid : BOOLEAN]

Evidence ==
  [signature_valid : BOOLEAN, nonce : Nonces, effect : Optional(Items),
   resource : Optional(Items), issued_at : Optional(Nat)]

(* point and lcb are what the bootstrap makes of the fixture's dataset. *)
Fixture ==
  [profile_id : Optional(Profiles), profile_digest : Digests,
   required_profile_digest : Digests, point : Nat, lcb : Nat, threshold : Nat]

(* Dates are strings of one width, compared as strings; get() reads a      *)
(* missing valid_from, valid_until, issued_at or expires_at as "", which   *)
(* comes before every date.                                                *)
Missing == 0

Attestation ==
  [status : Optional({"affirming", "contraindicated"}), issued_at : Nat, expires_at : Nat,
   reference_digest : Optional(Digests), observed_digest : Optional(Digests)]

TransactionType ==
  [policy : Optional(Policy), evidence : Evidence, fixture : Fixture,
   attestation : Attestation, authority_case : CaseType]

ASSUME AnchorAssumption ==
  /\ Anchor \in PolicyBody
  /\ DecisionTime \in Nat \ {Missing}
  /\ PreseenNonces \subseteq Nonces

ASSUME NoneAssumption ==
  None \notin Items \cup Profiles \cup Digests \cup Nat

-----------------------------------------------------------------------------
(* The layers.                                                             *)

EvaluatePolicy(p) ==
  IF p = None THEN "MISSING"
  ELSE IF ~ p.signature_valid THEN "INVALID_SIGNATURE"
  ELSE IF p.body.policy_id # Anchor.policy_id THEN "SUBSTITUTED"
  ELSE IF \/ p.body.version # Anchor.version
          \/ ~ (p.body.valid_from <= DecisionTime /\ DecisionTime <= p.body.valid_until)
    THEN "STALE"
  ELSE IF p.body # Anchor THEN "SUBSTITUTED"
  ELSE "PASS"

EvaluateEvidence(e) ==
  IF ~ e.signature_valid THEN "TAMPERED"
  ELSE IF e.nonce \in PreseenNonces THEN "REPLAY"
  ELSE "PASS"

EvaluateMeasurement(f) ==
  IF f.profile_digest # f.required_profile_digest THEN "PROFILE_MISMATCH"
  ELSE IF f.point < f.threshold THEN "FAIL_POINT"
  ELSE IF f.lcb < f.threshold THEN "FAIL_LCB"
  ELSE "PASS"

PointOnly(f) == IF f.point >= f.threshold THEN "PASS" ELSE "FAIL_POINT"

AppraiseState(a) ==
  IF a.status # "affirming" THEN "CONTRAINDICATED"
  ELSE IF ~ (a.issued_at <= DecisionTime /\ DecisionTime <= a.expires_at) THEN "STALE"
  ELSE IF a.reference_digest = None \/ a.observed_digest # a.reference_digest
    THEN "REFERENCE_MISMATCH"
  ELSE "PASS"

-----------------------------------------------------------------------------
(* The ends of a set of times.                                             *)

Largest(S) == CHOOSE t \in S : \A u \in S : u <= t
Smallest(S) == CHOOSE t \in S : \A u \in S : t <= u
=============================================================================
