-------------------------- MODULE ComposedCorpusMC --------------------------
(***************************************************************************)
(* The repository's own corpus: its vectors, delegation cases, measurement *)
(* and state fixtures and the tables of build_corpus.py, with times as     *)
(* numbers, and for every file a few edits of it: of a label, of an        *)
(* artefact, of both in step, and of a subject.                            *)
(***************************************************************************)
EXTENDS ComposedCorpus

-----------------------------------------------------------------------------
(* The siblings' files.  Times: 1 and 5 bound every grant, 3 is when the   *)
(* evidence is issued, 0 and 6 lie outside.                                *)

(* <<policy, evidence, effect reported, effect and profile required, whether isolated>> *)
VectorTable ==
  [PSR_correct_good |-> <<"PASS", "PASS", "read", "read", "main", FALSE>>,
   PSR_correct_tampered |-> <<"PASS", "TAMPERED", "export", "read", "main", FALSE>>,
   PSR_correct_replayed |-> <<"PASS", "REPLAY", "read", "read", "main", FALSE>>,
   PSR_missing_good |-> <<"MISSING", "PASS", "read", None, None, FALSE>>,
   PSR_missing_tampered |-> <<"MISSING", "TAMPERED", "export", None, None, FALSE>>,
   PSR_missing_replayed |-> <<"MISSING", "REPLAY", "read", None, None, FALSE>>,
   PSR_stale_good |-> <<"STALE", "PASS", "read", "read", "main", FALSE>>,
   PSR_stale_tampered |-> <<"STALE", "TAMPERED", "export", "read", "main", FALSE>>,
   PSR_stale_replayed |-> <<"STALE", "REPLAY", "read", "read", "main", FALSE>>,
   PSR_substituted_good |-> <<"SUBSTITUTED", "PASS", "read", "export", "main", FALSE>>,
   PSR_substituted_tampered |-> <<"SUBSTITUTED", "TAMPERED", "export", "export", "main", FALSE>>,
   PSR_substituted_replayed |-> <<"SUBSTITUTED", "REPLAY", "read", "export", "main", FALSE>>,
   PSR_version_only_good |-> <<"STALE", "PASS", "read", "read", "main", TRUE>>,
   PSR_freshness_only_good |-> <<"STALE", "PASS", "read", "read", "main", TRUE>>,
   PSR_digest_only_good |-> <<"SUBSTITUTED", "PASS", "read", "read", "altered", TRUE>>,
   PSR_policy_sig_invalid_good |-> <<"INVALID_SIGNATURE", "PASS", "read", "write", "main", TRUE>>]

Vectors ==
  [v \in DOMAIN VectorTable |->
     LET t == VectorTable[v]
     IN  [policy |-> t[1], evidence |-> t[2],
          expected |-> [policy |-> t[1], evidence |-> t[2]],
          reported |-> [effect |-> t[3], resource |-> "invoice-123", issued_at |-> 3],
          required |-> [effect |-> t[4], measurement_profile |-> t[5]],
          isolated_gate |-> t[6]]]

(* The gate of every case; the others' action and window are as usual. *)
GateTable ==
  [P1_exact_one_hop |-> "verified",
   D1_wrong_role_transition |-> "edge.role_transition",
   P2_exact_two_hop |-> "verified",
   D2_scope_amplification_at_second_edge |-> "edge.scope.operations",
   D2_lineage_break_at_second_edge |-> "edge.lineage",
   P4_exact_four_hop |-> "verified",
   D4_revoked_third_edge |-> "edge.status",
   D4_multi_fault_returns_earliest_edge |-> "edge.scope.amount_max",
   D4_action_outside_terminal_scope |-> "action.resource",
   D4_native_valid_receipt_for_other_action |-> "effect.action_binding",
   D2_parent_forbids_second_delegation |-> "edge.parent_delegable",
   D2_first_edge_expired |-> "edge.freshness",
   D1_protocol_invalid |-> "protocol.valid",
   D2_signature_invalid_second_edge |-> "edge.signature",
   D1_receipt_native_invalid |-> "effect.native_validity",
   D1_receipt_effect_time_outside_window |-> "effect.time_binding"]

Paths ==
  [a \in DOMAIN GateTable |->
     LET found == [verdict |-> Verdict(GateTable[a] = "verified"), gate |-> GateTable[a]]
     IN  [verdict |-> found.verdict, gate |-> found.gate, expected |-> found,
          resource |->
            IF a = "D4_action_outside_terminal_scope" THEN "invoice-999" ELSE "invoice-123",
          operation |-> IF a = "D4_multi_fault_returns_earliest_edge" THEN "DELETE" ELSE "READ",
          granted_tools |-> {"read"}, granted_resources |-> {"invoice-123"},
          authorised_from |-> 1,
          authorised_until |-> IF a = "D2_first_edge_expired" THEN 2 ELSE 5]]

Safe ==
  LET fixture(dataset, profile, expected) ==
        [dataset |-> dataset, profile |-> profile, required |-> "main", expected |-> expected]
  IN  [bounds |-> [supported |-> "PASS", point_only |-> "FAIL_LCB", unsupported |-> "FAIL_POINT"],
       fixtures |->
         [measurement_supported |-> fixture("supported", "main", "PASS"),
          measurement_point_only |-> fixture("point_only", "main", "FAIL_LCB"),
          measurement_unsupported |-> fixture("unsupported", "main", "FAIL_POINT"),
          measurement_profile_mismatch |-> fixture("supported", "altered", "PROFILE_MISMATCH")]]

StateTable ==
  <<<<"affirming-fresh-match", "PASS">>, <<"contraindicated", "CONTRAINDICATED">>,
    <<"stale-match", "STALE">>, <<"fresh-mismatch", "REFERENCE_MISMATCH">>,
    <<"stale-mismatch", "STALE">>, <<"boundary-fresh", "PASS">>,
    <<"boundary-expiry", "PASS">>, <<"contraindicated-stale-mismatch", "CONTRAINDICATED">>>>

States ==
  [f \in {StateTable[k][1] : k \in DOMAIN StateTable} |->
     LET result == StateTable[CHOOSE k \in DOMAIN StateTable : StateTable[k][1] = f][2]
     IN  [attestation_result |-> result, expected |-> result]]

TheCommitted ==
  [policy_corpus |-> Vectors, safe_corpus |-> Safe, authority_corpus |-> Paths,
   state_fixtures |-> States]

(* Edits. *)
TheContents ==
  [policy_corpus |->
     {Vectors,
      [Vectors EXCEPT !["PSR_version_only_good"].expected.policy = "SUBSTITUTED"],
      [Vectors EXCEPT !["PSR_stale_tampered"].reported.issued_at = 2]},
   safe_corpus |-> {Safe, [Safe EXCEPT !.bounds.point_only = "FAIL_POINT"]},
   authority_corpus |->
     {Paths,
      [Paths EXCEPT !["D4_revoked_third_edge"].gate = "edge.freshness",
                    !["D4_revoked_third_edge"].expected.gate = "edge.freshness"]},
   state_fixtures |->
     {States, [States EXCEPT !["stale-match"].attestation_result = "REFERENCE_MISMATCH"],
      [States EXCEPT !["boundary-fresh"] = States["stale-match"]]}]

-----------------------------------------------------------------------------
(* The tables of build_corpus.py.                                          *)

JoinTable ==
  {<<"PSR_stale_tampered", "affirming-fresh-match", "P2_exact_two_hop", "measurement_supported">>,
   <<"PSR_substituted_replayed", "affirming-fresh-match", "P1_exact_one_hop",
     "measurement_supported">>,
   <<"PSR_stale_good", "fresh-mismatch", "P2_exact_two_hop", "measurement_supported">>,
   <<"PSR_digest_only_good", "contraindicated", "P1_exact_one_hop", "measurement_supported">>,
   <<"PSR_substituted_good", "affirming-fresh-match", "D2_scope_amplification_at_second_edge",
     "measurement_supported">>,
   <<"PSR_policy_sig_invalid_good", "affirming-fresh-match", "D1_protocol_invalid",
     "measurement_supported">>,
   <<"PSR_version_only_good", "affirming-fresh-match", "P2_exact_two_hop",
     "measurement_unsupported">>,
   <<"PSR_freshness_only_good", "affirming-fresh-match", "P4_exact_four_hop",
     "measurement_profile_mismatch">>,
   <<"PSR_correct_tampered", "stale-match", "P2_exact_two_hop", "measurement_supported">>,
   <<"PSR_correct_replayed", "fresh-mismatch", "P1_exact_one_hop", "measurement_supported">>,
   <<"PSR_correct_replayed", "affirming-fresh-match", "D4_revoked_third_edge",
     "measurement_supported">>,
   <<"PSR_correct_tampered", "affirming-fresh-match", "D2_signature_invalid_second_edge",
     "measurement_supported">>,
   <<"PSR_correct_tampered", "affirming-fresh-match", "P2_exact_two_hop",
     "measurement_unsupported">>,
   <<"PSR_correct_replayed", "affirming-fresh-match", "P4_exact_four_hop",
     "measurement_point_only">>,
   <<"PSR_correct_good", "contraindicated", "D1_wrong_role_transition", "measurement_supported">>,
   <<"PSR_correct_good", "stale-mismatch", "D1_receipt_native_invalid", "measurement_supported">>,
   <<"PSR_correct_good", "stale-match", "P2_exact_two_hop", "measurement_point_only">>,
   <<"PSR_correct_good", "fresh-mismatch", "P1_exact_one_hop", "measurement_profile_mismatch">>,
   <<"PSR_correct_good", "affirming-fresh-match", "D2_lineage_break_at_second_edge",
     "measurement_profile_mismatch">>,
   <<"PSR_correct_good", "affirming-fresh-match", "D1_receipt_effect_time_outside_window",
     "measurement_unsupported">>,
   <<"PSR_stale_tampered", "affirming-fresh-match", "D4_action_outside_terminal_scope",
     "measurement_supported">>,
   <<"PSR_missing_good", "stale-match", "P2_exact_two_hop", "measurement_unsupported">>,
   <<"PSR_correct_tampered", "contraindicated", "D2_first_edge_expired", "measurement_supported">>,
   <<"PSR_correct_good", "fresh-mismatch", "D4_multi_fault_returns_earliest_edge",
     "measurement_point_only">>,
   <<"PSR_substituted_replayed", "contraindicated", "D2_parent_forbids_second_delegation",
     "measurement_supported">>,
   <<"PSR_missing_replayed", "contraindicated-stale-mismatch", "D1_wrong_role_transition",
     "measurement_unsupported">>,
   <<"PSR_correct_good", "affirming-fresh-match", "P1_exact_one_hop", "measurement_supported">>,
   <<"PSR_correct_good", "boundary-fresh", "P2_exact_two_hop", "measurement_supported">>,
   <<"PSR_correct_good", "boundary-expiry", "P4_exact_four_hop", "measurement_supported">>,
   <<"PSR_correct_good", "affirming-fresh-match", "P4_exact_four_hop", "measurement_supported">>}

Joins ==
  {[vector |-> t[1], fixture |-> t[2], path |-> t[3], measurement |-> t[4]] : t \in JoinTable}

(* <<evidence, path, binding>>; one binding is probed by the other profile. *)
BindingTable ==
  [XLB_effect_write_two_hop |-> <<"EVB_write_invoice123", "P2_exact_two_hop", "EFFECT_MISMATCH">>,
   XLB_effect_write_other_resource_two_hop |-> <<"EVB_write_invoice999", "P2_exact_two_hop",
                                                 "EFFECT_MISMATCH">>,
   XLB_effect_export_four_hop |-> <<"EVB_export_invoice123", "P4_exact_four_hop",
                                    "EFFECT_MISMATCH">>,
   XLB_resource_other_two_hop |-> <<"EVB_read_invoice999", "P2_exact_two_hop",
                                    "RESOURCE_MISMATCH">>,
   XLB_resource_other_one_hop |-> <<"EVB_read_invoice999", "P1_exact_one_hop",
                                    "RESOURCE_MISMATCH">>,
   XLB_issued_after_window_two_hop |-> <<"EVB_read_after_window", "P2_exact_two_hop",
                                         "TIME_MISMATCH">>,
   XLB_issued_before_window_two_hop |-> <<"EVB_read_before_window", "P2_exact_two_hop",
                                          "TIME_MISMATCH">>,
   XLB_measurement_profile_two_hop |-> <<"EVB_read_invoice123", "P2_exact_two_hop",
                                         "PROFILE_MISMATCH">>,
   XLB_CONTROL_read_two_hop |-> <<"EVB_read_invoice123", "P2_exact_two_hop", "PASS">>,
   XLB_CONTROL_read_one_hop |-> <<"EVB_read_invoice123", "P1_exact_one_hop", "PASS">>,
   XLB_CONTROL_read_four_hop |-> <<"EVB_read_invoice123", "P4_exact_four_hop", "PASS">>,
   XLB_CONTROL_window_lower_two_hop |-> <<"EVB_read_window_lower", "P2_exact_two_hop", "PASS">>,
   XLB_CONTROL_window_upper_two_hop |-> <<"EVB_read_window_upper", "P2_exact_two_hop", "PASS">>,
   XLB_CONTROL_main_profile_two_hop |-> <<"EVB_read_invoice123", "P2_exact_two_hop", "PASS">>]

Bindings ==
  [id \in DOMAIN BindingTable |->
     LET t == BindingTable[id]
     IN  [evidence |-> t[1], path |-> t[2], binding |-> t[3],
          measurement |-> IF t[3] = "PROFILE_MISMATCH" THEN "measurement_binding_alt_profile"
                          ELSE "measurement_binding_main_profile"]]

TheEvidenceVariants ==
  LET effect(e, r, t) == [effect |-> e, resource |-> r, issued_at |-> t]
  IN  [EVB_read_invoice123 |-> effect("read", "invoice-123", 3),
       EVB_write_invoice123 |-> effect("write", "invoice-123", 3),
       EVB_write_invoice999 |-> effect("write", "invoice-999", 3),
       EVB_export_invoice123 |-> effect("export", "invoice-123", 3),
       EVB_read_invoice999 |-> effect("read", "invoice-999", 3),
       EVB_read_after_window |-> effect("read", "invoice-123", 6),
       EVB_read_before_window |-> effect("read", "invoice-123", 0),
       EVB_read_window_lower |-> effect("read", "invoice-123", 1),
       EVB_read_window_upper |-> effect("read", "invoice-123", 5)]

TheMeasurementVariants ==
  [measurement_binding_main_profile |-> "main", measurement_binding_alt_profile |-> "altered"]

NewVectors == {v \in DOMAIN Vectors : Vectors[v].isolated_gate}

NewPaths ==
  {"D1_protocol_invalid", "D2_signature_invalid_second_edge",
   "D1_receipt_native_invalid", "D1_receipt_effect_time_outside_window"}
=============================================================================
