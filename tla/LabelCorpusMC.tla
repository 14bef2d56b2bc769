---------------------------- MODULE LabelCorpusMC ----------------------------
(***************************************************************************)
(* The single-fault corpus, from two bases of two and three hops; the      *)
(* multi-fault directory with every pair of faults of different layers,    *)
(* pairs of one layer, and the generator's cases of four and five faults.  *)
(***************************************************************************)
EXTENDS LabelCorpus

Base ==
  [root_principal |-> "anton", root_role |-> "owner",
   agents |-> <<"agent1", "agent2", "agent3">>,
   role_path |-> <<"planner", "broker", "executor">>,
   transitions |-> [owner |-> {"planner"}, planner |-> {"broker"},
                    broker |-> {"executor"}, executor |-> {}, invalid |-> {}],
   scope |-> [operations |-> {"READ"}, resources |-> {"invoice"}, tools |-> {"read"},
              audiences |-> {"ledger"}, purposes |-> {"audit"},
              amount_max |-> 2, currency |-> "EUR", delegable |-> TRUE],
   action |-> [operation |-> "READ", resource |-> "invoice", tool |-> "read",
               audience |-> "ledger", purpose |-> "audit", amount |-> 1, currency |-> "EUR"]]

AnchoredPolicy ==
  [policy_id |-> "main", version |-> 2, valid_from |-> 1, valid_until |-> 4,
   required_effect |-> "read", required_measurement_profile |-> "profile"]

Signed(body) == [body |-> body, signature_valid |-> TRUE]

Good(hops) ==
  [policy |-> Signed(AnchoredPolicy),
   evidence |-> [signature_valid |-> TRUE, nonce |-> "fresh", effect |-> "read",
                 resource |-> "invoice", issued_at |-> 2],
   attestation |-> [status |-> "affirming", issued_at |-> 2, expires_at |-> 4,
                    reference_digest |-> "d", observed_digest |-> "d"],
   authority_case |-> BuildCase(hops, <<1, 4>>),
   measurement |-> [profile_digest |-> "d", required_profile_digest |-> "d",
                    dataset |-> "dataset-02", alpha |-> 5, threshold |-> 3]]

PassingBases == {Good(2), Good(3)}

With(key, value) == [Good(2) EXCEPT ![key] = value]

Sources ==
  [P1 |-> With("policy", None),
   P2 |-> With("policy", [body |-> AnchoredPolicy, signature_valid |-> FALSE]),
   P3 |-> With("policy", Signed([AnchoredPolicy EXCEPT !.policy_id = "other"])),
   P4 |-> With("policy", Signed([AnchoredPolicy EXCEPT !.version = 1])),
   P5 |-> With("policy", Signed([AnchoredPolicy EXCEPT !.required_effect = "write"])),
   E1 |-> With("evidence", [Good(2).evidence EXCEPT !.signature_valid = FALSE]),
   E2 |-> With("evidence", [Good(2).evidence EXCEPT !.nonce = "seen"])]

(* The two random generators differ, by less than the distance to 3. *)
Points == [d \in {"dataset-01", "dataset-02", "dataset-03"} |->
             CASE d = "dataset-01" -> 4 [] d = "dataset-02" -> 6 [] d = "dataset-03" -> 2]
Quantiles ==
  [p \in Programs |-> [d \in DOMAIN Points |-> [a \in {5} |->
     CASE d = "dataset-01" -> (IF p = "js" THEN 2 ELSE 1)
       [] d = "dataset-02" -> (IF p = "js" THEN 5 ELSE 4)
       [] d = "dataset-03" -> 1]]]

Single == [directory |-> "mutation-tests",
           lists |-> [n \in 1..Count + 1 |-> IF n = 1 THEN <<>> ELSE <<n - 1>>]]

Pairs ==
  {[directory |-> "multifault-tests", lists |-> <<<<p[1], p[2]>>>>] :
     p \in {q \in (1..Count) \X (1..Count) : Comparable(q[1], q[2])}}

ManyFaults ==
  {[directory |-> "multifault-tests",
    lists |-> <<<<4, 6, 8, 11, 36>>, <<7, 9, 16, 35>>, <<35, 36>>, <<13, 19>>, <<37>>, <<36>>>>]}

AllCorpora == {Single} \cup Pairs \cup ManyFaults
=============================================================================
