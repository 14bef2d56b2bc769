------------------------ MODULE ComposedTransactionMC ------------------------
(***************************************************************************)
(* A transaction that agrees in everything, every transaction that differs *)
(* from it in one or two artefacts, and every one that differs in its path *)
(* alone.  Each artefact has a variant for every result of its layer, the  *)
(* boundaries of every window, windows without a start, and variants that  *)
(* its own layer passes and only the binding can reject; the paths are the *)
(* cases of the walk.                                                      *)
(***************************************************************************)
EXTENDS LabelLadder, DelegationPathsMC

AnchoredPolicy ==
  [policy_id |-> "main", version |-> 2, valid_from |-> 1, valid_until |-> 4,
   required_effect |-> "read", required_measurement_profile |-> "profile"]

Signed(body) == [body |-> body, signature_valid |-> TRUE]

Policies ==
  {None, [body |-> AnchoredPolicy, signature_valid |-> FALSE],
   Signed([AnchoredPolicy EXCEPT !.policy_id = "other"]),
   Signed([AnchoredPolicy EXCEPT !.policy_id = "other", !.version = 1]),
   Signed([AnchoredPolicy EXCEPT !.version = 1]),
   Signed([AnchoredPolicy EXCEPT !.valid_until = DecisionTime - 1]),
   Signed([AnchoredPolicy EXCEPT !.valid_until = DecisionTime]),
   Signed([AnchoredPolicy EXCEPT !.valid_from = Missing]),
   Signed([AnchoredPolicy EXCEPT !.valid_from = Missing, !.policy_id = "other"]),
   Signed([AnchoredPolicy EXCEPT !.required_effect = "write"]),
   Signed([AnchoredPolicy EXCEPT !.required_measurement_profile = "altered"])}

GoodEvidence ==
  [signature_valid |-> TRUE, nonce |-> "fresh", effect |-> "read", resource |-> "invoice",
   issued_at |-> 2]

Evidences ==
  {[GoodEvidence EXCEPT !.signature_valid = FALSE],
   [GoodEvidence EXCEPT !.nonce = "seen"],
   [GoodEvidence EXCEPT !.signature_valid = FALSE, !.nonce = "seen"],
   [GoodEvidence EXCEPT !.effect = "write"], [GoodEvidence EXCEPT !.effect = None],
   [GoodEvidence EXCEPT !.resource = "other"], [GoodEvidence EXCEPT !.resource = None],
   [GoodEvidence EXCEPT !.effect = "write", !.resource = "other"],
   [GoodEvidence EXCEPT !.resource = "other", !.issued_at = 5],
   [GoodEvidence EXCEPT !.issued_at = None]}
    \cup {[GoodEvidence EXCEPT !.issued_at = t] : t \in {0, 1, 3, 4, 5}}

GoodFixture ==
  [profile_id |-> "profile", profile_digest |-> "d", required_profile_digest |-> "d",
   point |-> 3, lcb |-> 2, threshold |-> 2]

Fixtures ==
  {[GoodFixture EXCEPT !.profile_digest = "e"],
   [GoodFixture EXCEPT !.profile_digest = "e", !.point = 1],
   [GoodFixture EXCEPT !.point = 1], [GoodFixture EXCEPT !.point = 2],
   [GoodFixture EXCEPT !.lcb = 1],
   [GoodFixture EXCEPT !.profile_id = None, !.profile_digest = "e",
                       !.required_profile_digest = "e"],
   [GoodFixture EXCEPT !.profile_id = "altered", !.profile_digest = "e",
                       !.required_profile_digest = "e"]}

GoodState ==
  [status |-> "affirming", issued_at |-> 2, expires_at |-> 4, reference_digest |-> "d",
   observed_digest |-> "d"]

States ==
  {[GoodState EXCEPT !.status = "contraindicated"], [GoodState EXCEPT !.status = None],
   [GoodState EXCEPT !.expires_at = DecisionTime - 1], [GoodState EXCEPT !.expires_at = Missing],
   [GoodState EXCEPT !.issued_at = Missing],
   [GoodState EXCEPT !.issued_at = Missing, !.observed_digest = "e"],
   [GoodState EXCEPT !.issued_at = Missing, !.expires_at = DecisionTime - 1],
   [GoodState EXCEPT !.issued_at = DecisionTime, !.expires_at = DecisionTime],
   [GoodState EXCEPT !.observed_digest = "e"],
   [GoodState EXCEPT !.expires_at = DecisionTime - 1, !.observed_digest = "e"],
   [GoodState EXCEPT !.reference_digest = None, !.observed_digest = None]}

(* Mutations of a path of that many hops, those of the corpus's kinds and  *)
(* those that narrow it and leave it valid.                                *)
Mutated(hops) ==
  LET built == BuildCase(hops, Window)
      With(c, m) == ApplyMutation(c, m[1], m[2])
      Once(m) == With(built, m)
      Twice(m, n) == With(With(built, m), n)
      last(field, value) == <<<<"edges", hops, field>>, value>>
      grant(n, field, value) == <<<<"edges", n, "grant", field>>, value>>
  IN  {Once(<<<<"protocol_valid">>, FALSE>>), Once(last("issuer_signature_valid", FALSE)),
       Once(last("status", "revoked")), Once(last("not_before", EffectTime)),
       Once(<<<<"edges", 1, "expires_at">>, EffectTime>>),
       Twice(last("not_before", EffectTime), <<<<"edges", 1, "expires_at">>, EffectTime>>),
       Once(grant(hops, "resources", {"invoice"})), Once(grant(hops, "tools", {"read"})),
       Once(grant(1, "tools", {"read"})), Once(grant(1, "delegable", FALSE)),
       Once(<<<<"action", "resource">>, "other">>),
       Once(<<<<"receipt", "native_evidence_valid">>, FALSE>>),
       With(Twice(grant(hops, "tools", {"write"}), <<<<"action", "tool">>, "write">>),
            <<<<"receipt", "action", "tool">>, "write">>),
       With(Twice(grant(hops, "resources", {"other"}), <<<<"action", "resource">>, "other">>),
            <<<<"receipt", "action", "resource">>, "other">>)}

PathVariants == UNION {{BuildCase(hops, Window)} \cup Mutated(hops) : hops \in {1, 2}}

GoodTransaction ==
  [policy |-> Signed(AnchoredPolicy), evidence |-> GoodEvidence, fixture |-> GoodFixture,
   attestation |-> GoodState, authority_case |-> BuildCase(2, Window)]

Variants ==
  [policy |-> Policies, evidence |-> Evidences, fixture |-> Fixtures,
   attestation |-> States, authority_case |-> PathVariants]

Varied ==
  LET Changed(t, a) == {[t EXCEPT ![a] = v] : v \in Variants[a]}
      once == UNION {Changed(GoodTransaction, a) : a \in DOMAIN Variants}
  IN  once \cup UNION {UNION {Changed(t, a) : t \in once} : a \in DOMAIN Variants}
        \cup {[GoodTransaction EXCEPT !.authority_case = c] : c \in PathCases}

AllPaths == PathCases \cup PathVariants
=============================================================================
