----------------------------- MODULE LabelLadder -----------------------------
(***************************************************************************)
(* The labels of a transaction against the row the composed verifier saves *)
(* for it: what compare_after_freeze.py counts as exact, and where the     *)
(* labellers and the verifier part.                                        *)
(***************************************************************************)
EXTENDS ComposedTransaction, LabelRules

(* compare_after_freeze.py: the results, verdict and gate of the label are *)
(* the ones composed.                                                      *)
Exact(label, layers, composed) ==
  /\ label.verdict = composed.verdict
  /\ label.first_rejecting_gate = composed.first_rejecting_gate
  /\ \A name \in LayerNames : label.layers[name].result = layers[name]

-----------------------------------------------------------------------------
(* Correctness.                                                            *)

(* The layers that the verifier took past a window without a start: it     *)
(* reads the start as "" (run.py:84, state_adapter.py:109), which no       *)
(* labeller does (evaluate.mjs:106-114, evaluate_mutation_corpus.py:57-63). *)
PassedUndated ==
  {name \in {"policy", "state"} :
     \/ /\ name = "policy"
        /\ tx.policy # None
        /\ tx.policy.body.valid_from = Missing
        /\ \/ results.policy = "PASS"
           \/ results.policy = "SUBSTITUTED" /\ tx.policy.body.policy_id = Anchor.policy_id
     \/ /\ name = "state"
        /\ tx.attestation.issued_at = Missing
        /\ results.state \in {"PASS", "REFERENCE_MISMATCH"}}

LabelResults ==
  [name \in LayerNames |-> IF name \in PassedUndated THEN "STALE" ELSE Layers[name]]

StaleGates == [policy |-> PolicyGates["STALE"], state |-> StateGates["STALE"]]

(* What a labeller makes of the saved row: those layers fail as stale, and *)
(* a binding that fails when every layer passes is not seen.               *)
LabelledRow ==
  LET failing == row.failed_layers \cup PassedUndated
      first == FirstOf(EvaluationOrder, failing)
  IN  [verdict |-> Verdict(failing = {}),
       first_rejecting_gate |->
         IF failing = {} THEN "verified"
         ELSE IF first \in PassedUndated THEN StaleGates[first]
         ELSE row.first_rejecting_gate]

JsIsLabelled == at = "saved" => Exact(JsEvaluate(tx), LabelResults, LabelledRow)
PyIsLabelled == at = "saved" => Exact(PyEvaluate(tx), LabelResults, LabelledRow)

(* The two labellers, which see the artefacts of a transaction only, give  *)
(* it the five results, the verdict and the gate the composed verifier     *)
(* saves (compare_after_freeze.py:73-108 counts such transactions), with   *)
(* two exceptions and no other: they allow what only the binding denies,   *)
(* and where the verifier goes past a window without a start they say      *)
(* STALE, and deny there unless an earlier layer already does.             *)
LabelsAreTheRules == JsIsLabelled /\ PyIsLabelled
=============================================================================
