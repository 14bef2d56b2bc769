-------------------------- MODULE TpmCompanionMC ---------------------------
(***************************************************************************)
(* Instances of TpmCompanion: one run with the TPM to itself and the whole *)
(* mutation plan on two representatives; two runs that share the slots of  *)
(* the TPM and the output path, with no mutations, which touch neither.    *)
(***************************************************************************)
EXTENDS TpmCompanion, TLC

TwoTransactions   == <<"t1", "t2">>
ThreeTransactions == <<"t1", "t2", "t3">>

BothEnds == <<1, 3>>
NoPlan   == <<>>

WholePlan ==
  <<"quote_message_flip", "signature_flip", "pcr_blob_flip", "challenge_replay",
    "transaction_substitution", "corpus_hash_substitution",
    "capsule_hash_substitution", "qualifying_data_representation">>

Interchangeable ==
  Permutations(Runs) \cup Permutations(Handles \ Foreign) \cup Permutations(Challenges)
=============================================================================
