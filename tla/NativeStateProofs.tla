-------------------------- MODULE NativeStateProofs --------------------------
(***************************************************************************)
(* The native overlay for every corpus, number of roots and order: what    *)
(* the generator quotes appraises to the structural class, changing a      *)
(* saved vector in any of the eight ways makes it fail, and the summaries  *)
(* on disk say no more than the rows do.  IInv says that every vector is   *)
(* good, FilesInv that the files are those one run of the generator makes. *)
(***************************************************************************)
EXTENDS NativeState, FiniteSetTheorems, TLAPS

Files == DOMAIN NoFiles

Steps ==
  {"policy", "start", "reset", "extend", "quote", "baseline", "mutations", "recompose",
   "summary", "sums", "java"} \cup Ends

(* What the generator makes of a transaction, under a root that is listed. *)
Good(v, listed) ==
  LET id == v.envelope.transaction_id
  IN  /\ id \in Ids
      /\ v.envelope = EnvelopeOf(id, BuiltPolicy)
      /\ v.expected = Class(id)
      /\ CheckQuote(v)
      /\ PcrMatch(v)
      /\ RootPinned(v, listed)

ProgressInv ==
  /\ corpus \in Corpora
  /\ pc \in Steps
  /\ root \in Nat
  /\ next \in Nat
  /\ pc \in {"extend", "quote"} => next \in 1..Len(Order)
  /\ pc = "extend" => pcr = <<>>
  /\ pc = "quote" => pcr = <<Observed(Order[next])>>
  /\ pc = "reset" => next > 0
  /\ pc \in {"reset", "extend", "quote"} =>
       \E r \in roots : r.root = root /\ r.ak_pub = Ak

DiskInv ==
  /\ disk = [f \in Files |-> disk[f]]
  /\ disk.policy \in {None, BuiltPolicy}
  /\ pc \in {"start", "reset", "extend", "quote"} => disk.policy = BuiltPolicy
  /\ disk.overlay # None => disk.policy = BuiltPolicy

VectorsInv ==
  /\ \A v \in vectors : Good(v, roots)
  /\ disk.overlay # None => \A v \in disk.overlay.vectors : Good(v, disk.overlay.roots)

IInv == ProgressInv /\ DiskInv /\ VectorsInv

-----------------------------------------------------------------------------
(* What the appraisals make of a good vector.                              *)

(* The corpora have a window and a digest that AppraiseState compares.     *)
LEMMA CorpusFields ==
  ASSUME corpus \in Corpora, NEW id \in Ids
  PROVE  /\ corpus[id].attestation.reference_digest \in Digests
         /\ corpus[id].attestation.observed_digest \in Digests
         /\ corpus[id].attestation.reference_digest # None
         /\ corpus[id].attestation.expires_at # FarFuture
<1>1. corpus \in Corpus /\ corpus[id].attestation.expires_at # FarFuture
  BY OverlayAssumption
<1>2. corpus[id].attestation \in Attestation
  BY <1>1 DEF Corpus
<1> QED
  BY <1>1, <1>2, OverlayAssumption DEF Attestation

(* The ladder over a genuine envelope is state_adapter.py's order of the   *)
(* rules: a measurement is denied, or is its reference, when the digest is.*)
LEMMA LadderIsStructural ==
  ASSUME corpus \in Corpora, NEW id \in Ids
  PROVE  Ladder({}, EnvelopeOf(id, BuiltPolicy), BuiltPolicy) = Class(id)
<1> DEFINE e == EnvelopeOf(id, BuiltPolicy)
           a == corpus[id].attestation
<1>1. Observed(id) \in BuiltPolicy.denied <=> Class(id) = "CONTRAINDICATED"
  <2>1. \A other \in Ids : Observed(other) = Observed(id) => other = id
    BY DEF Observed, DerivedMeasurement
  <2>2. BuiltPolicy.denied = {Observed(i) : i \in {j \in Ids : Class(j) = "CONTRAINDICATED"}}
    BY DEF BuiltPolicy
  <2> QED
    BY <2>1, <2>2
<1>2. Observed(id) = BuiltPolicy.reference[id] <=> a.observed_digest = a.reference_digest
  <2>1. BuiltPolicy.reference[id] = DerivedMeasurement(id, a.reference_digest)
    BY DEF BuiltPolicy
  <2> QED
    BY <2>1 DEF Observed, DerivedMeasurement
<1>3. /\ e.observed_measurement = Observed(id) /\ e.transaction_id = id
      /\ e.issued_at = a.issued_at /\ e.expires_at = a.expires_at
  BY DEF EnvelopeOf
<1>4. Class(id) = IF a.status # "affirming" THEN "CONTRAINDICATED"
                  ELSE IF ~ WithinWindow(a) THEN "STALE"
                  ELSE IF a.reference_digest = None \/ a.observed_digest # a.reference_digest
                    THEN "REFERENCE_MISMATCH"
                  ELSE "PASS"
  BY DEF Class, WithinWindow, Composed!AppraiseState
<1>5. WithinWindow(e) <=> WithinWindow(a)
  BY <1>3 DEF WithinWindow
<1>6. Class(id) = "CONTRAINDICATED" <=> a.status # "affirming"
  BY <1>4
<1>7. a.reference_digest # None
  BY CorpusFields
<1>8. Ladder({}, e, BuiltPolicy) =
        IF Observed(id) \in BuiltPolicy.denied THEN "CONTRAINDICATED"
        ELSE IF ~ WithinWindow(a) THEN "STALE"
        ELSE IF Observed(id) # BuiltPolicy.reference[id] THEN "REFERENCE_MISMATCH"
        ELSE "PASS"
  BY <1>3, <1>5 DEF Ladder
<1> QED
  BY <1>1, <1>2, <1>4, <1>6, <1>7, <1>8

LEMMA GenuineBindings ==
  ASSUME NEW v, NEW listed, Good(v, listed)
  PROVE  Failures(Bindings(v, BuiltPolicy, FALSE)) = {}
<1> DEFINE id == v.envelope.transaction_id
           b == Bindings(v, BuiltPolicy, FALSE)
<1>1. id \in Ids /\ v.envelope = EnvelopeOf(id, BuiltPolicy) /\ CheckQuote(v) /\ PcrMatch(v)
  BY DEF Good
<1>2. /\ v.envelope.source_corpus = "pinned"
      /\ v.envelope.challenge = BuiltPolicy.challenge[id]
      /\ v.envelope.capsule_id = BuiltPolicy.capsule[id]
  BY <1>1 DEF EnvelopeOf
<1>3. BuiltPolicy.source_corpus = "pinned"
  BY DEF BuiltPolicy
<1>4. b.source_corpus /\ b.challenge /\ b.subject /\ b.native_quote /\ b.pcr_measurement
  BY <1>1, <1>2, <1>3 DEF Bindings
<1>5. DOMAIN b = {"source_corpus", "challenge", "subject", "native_quote", "pcr_measurement"}
  BY DEF Bindings
<1> QED
  BY <1>4, <1>5 DEF Failures

LEMMA GoodAppraises ==
  ASSUME corpus \in Corpora, NEW v, NEW listed, Good(v, listed)
  PROVE  /\ Appraise(v, BuiltPolicy, FALSE) = Class(v.envelope.transaction_id)
         /\ JavaAppraise(v, BuiltPolicy, listed, FALSE) = Class(v.envelope.transaction_id)
<1> DEFINE id == v.envelope.transaction_id
<1>1. id \in Ids /\ v.envelope = EnvelopeOf(id, BuiltPolicy) /\ RootPinned(v, listed)
  BY DEF Good
<1>2. Failures(Bindings(v, BuiltPolicy, FALSE)) = {}
  BY GenuineBindings
<1>3. Ladder({}, EnvelopeOf(id, BuiltPolicy), BuiltPolicy) = Class(id)
  BY <1>1, LadderIsStructural
<1> QED
  BY <1>1, <1>2, <1>3 DEF Appraise, JavaAppraise

(* A vector with a binding that fails is a cryptographic failure. *)
LEMMA FailureIsCryptographic ==
  ASSUME NEW v, NEW policy,
         \/ v.envelope.source_corpus # policy.source_corpus
         \/ policy.challenge[v.envelope.transaction_id] # v.envelope.challenge
         \/ policy.capsule[v.envelope.transaction_id] # v.envelope.capsule_id
         \/ ~ CheckQuote(v)
         \/ ~ PcrMatch(v)
  PROVE  Appraise(v, policy, FALSE) = "CRYPTOGRAPHIC_FAILURE"
<1> DEFINE b == Bindings(v, policy, FALSE)
<1>1. DOMAIN b = {"source_corpus", "challenge", "subject", "native_quote", "pcr_measurement"}
  BY DEF Bindings
<1>2. ~ (b.source_corpus /\ b.challenge /\ b.subject /\ b.native_quote /\ b.pcr_measurement)
  BY DEF Bindings
<1>3. Failures(b) # {}
  BY <1>1, <1>2 DEF Failures
<1> QED
  BY <1>3 DEF Appraise, Ladder

Envelopes == {EnvelopeOf(id, BuiltPolicy) : id \in Ids}

Blob == {"quote_msg", "quote_sig", "pcr_bin"}

(* A saved vector, with all of its fields. *)
Whole(v) ==
  /\ v = [root |-> v.root, expected |-> v.expected, envelope |-> v.envelope,
          ak_pub |-> v.ak_pub, quote_msg |-> v.quote_msg, quote_sig |-> v.quote_sig,
          pcr_bin |-> v.pcr_bin]
  /\ v.quote_msg = [qualifying |-> v.quote_msg.qualifying, pcr |-> v.quote_msg.pcr,
                    intact |-> TRUE]

(* native_state_adapter.py's eight mutations: whichever is made of a whole *)
(* and good vector, with another one for its alternate, some binding of    *)
(* appraise() fails.                                                       *)
THEOREM MutationsBreakABinding ==
  ASSUME corpus \in Corpora, NEW v, NEW w, NEW listed, NEW m \in Mutations,
         Good(v, listed), Whole(v), Good(w, listed),
         w.envelope.transaction_id # v.envelope.transaction_id
  PROVE  Appraise(Mutate(v, m, w), BuiltPolicy, FALSE) = "CRYPTOGRAPHIC_FAILURE"
<1> DEFINE id == v.envelope.transaction_id
           other == w.envelope.transaction_id
           x == Mutate(v, m, w)
<1>1. /\ id \in Ids /\ other \in Ids /\ id # other
      /\ v.envelope = EnvelopeOf(id, BuiltPolicy)
      /\ w.envelope = EnvelopeOf(other, BuiltPolicy)
      /\ CheckQuote(v) /\ PcrMatch(v)
  BY DEF Good
<1>2. /\ v.envelope.challenge = id /\ w.envelope.challenge = other
      /\ v.envelope.source_corpus = "pinned"
      /\ v.envelope.observed_measurement = Observed(id)
      /\ w.envelope.observed_measurement = Observed(other)
      /\ v.envelope.expires_at # FarFuture
  BY <1>1, CorpusFields DEF EnvelopeOf, BuiltPolicy
<1>3. Observed(id) # Observed(other)
  BY <1>1 DEF Observed, DerivedMeasurement
<1>4. BuiltPolicy.source_corpus = "pinned" /\ BuiltPolicy.challenge = [i \in Ids |-> i]
  BY DEF BuiltPolicy
<1>5. /\ v.quote_sig = [key |-> v.ak_pub, over |-> v.quote_msg, intact |-> TRUE]
      /\ v.quote_msg.qualifying = v.envelope
      /\ v.pcr_bin = [value |-> v.quote_msg.pcr, intact |-> TRUE]
  BY <1>1 DEF CheckQuote, Transcript
<1>6. CASE m = "quote_message_flip"
  <2>1. x = [v EXCEPT !.quote_msg.intact = FALSE]
    BY <1>6 DEF Mutate
  <2>2. x.quote_msg.intact = FALSE /\ x.quote_sig = v.quote_sig
    BY <2>1 DEF Whole
  <2>3. x.quote_sig.over.intact = TRUE
    BY <2>2, <1>5 DEF Whole
  <2>4. ~ CheckQuote(x)
    BY <2>2, <2>3 DEF CheckQuote
  <2> QED
    BY <2>4, FailureIsCryptographic
<1>7. CASE m = "signature_flip"
  <2>1. x = [v EXCEPT !.quote_sig.intact = FALSE]
    BY <1>7 DEF Mutate
  <2>2. x.quote_sig.intact = FALSE
    BY <2>1, <1>5 DEF Whole
  <2>3. ~ CheckQuote(x)
    BY <2>2 DEF CheckQuote
  <2> QED
    BY <2>3, FailureIsCryptographic
<1>8. CASE m = "pcr_blob_flip"
  <2>1. x = [v EXCEPT !.pcr_bin.intact = FALSE]
    BY <1>8 DEF Mutate
  <2>2. x.pcr_bin.intact = FALSE
    BY <2>1, <1>5 DEF Whole
  <2>3. ~ PcrMatch(x)
    BY <2>2 DEF PcrMatch
  <2> QED
    BY <2>3, FailureIsCryptographic
<1> DEFINE Envelope(e) ==
      e = [source_corpus |-> e.source_corpus, transaction_id |-> e.transaction_id,
           capsule_id |-> e.capsule_id, observed_measurement |-> e.observed_measurement,
           issued_at |-> e.issued_at, expires_at |-> e.expires_at,
           challenge |-> e.challenge]
<1>9. Envelope(v.envelope)
  BY <1>1 DEF EnvelopeOf
<1>10. CASE m = "challenge_replay"
  <2>1. x = [v EXCEPT !.envelope.challenge = w.envelope.challenge]
    BY <1>10 DEF Mutate
  <2>2. x.envelope.challenge = other /\ x.envelope.transaction_id = id
    BY <2>1, <1>2, <1>9 DEF Whole
  <2>3. BuiltPolicy.challenge[x.envelope.transaction_id] # x.envelope.challenge
    BY <2>2, <1>1, <1>4
  <2> QED
    BY <2>3, FailureIsCryptographic
<1>11. CASE m = "transaction_substitution"
  <2>1. x = [v EXCEPT !.envelope.transaction_id = w.envelope.transaction_id]
    BY <1>11 DEF Mutate
  <2>2. x.envelope.challenge = id /\ x.envelope.transaction_id = other
    BY <2>1, <1>2, <1>9 DEF Whole
  <2>3. BuiltPolicy.challenge[x.envelope.transaction_id] # x.envelope.challenge
    BY <2>2, <1>1, <1>4
  <2> QED
    BY <2>3, FailureIsCryptographic
<1>12. CASE m = "corpus_hash_substitution"
  <2>1. x = [v EXCEPT !.envelope.source_corpus = "zeros"]
    BY <1>12 DEF Mutate
  <2>2. x.envelope.source_corpus = "zeros"
    BY <2>1, <1>9 DEF Whole
  <2>3. x.envelope.source_corpus # BuiltPolicy.source_corpus
    BY <2>2, <1>4
  <2> QED
    BY <2>3, FailureIsCryptographic
<1>13. CASE m = "measurement_substitution"
  <2>1. x = [v EXCEPT !.envelope.observed_measurement = w.envelope.observed_measurement]
    BY <1>13 DEF Mutate
  <2>2. /\ x.envelope.observed_measurement = Observed(other)
        /\ x.pcr_bin = v.pcr_bin
    BY <2>1, <1>2, <1>9 DEF Whole
  <2>3. v.pcr_bin.value = <<Observed(id)>>
    BY <1>1, <1>2 DEF PcrMatch, ExpectedPcr
  <2>4. x.pcr_bin.value # <<x.envelope.observed_measurement>>
    BY <2>2, <2>3, <1>3
  <2>5. ~ PcrMatch(x)
    BY <2>4 DEF PcrMatch, ExpectedPcr
  <2> QED
    BY <2>5, FailureIsCryptographic
<1>14. CASE m = "window_substitution"
  <2>1. x = [v EXCEPT !.envelope.expires_at = FarFuture]
    BY <1>14 DEF Mutate
  <2>2. x.envelope.expires_at = FarFuture /\ x.quote_msg = v.quote_msg
    BY <2>1, <1>9 DEF Whole
  <2>3. x.quote_msg.qualifying # x.envelope
    BY <2>2, <1>2, <1>5
  <2>4. ~ CheckQuote(x)
    BY <2>3 DEF CheckQuote, Transcript
  <2> QED
    BY <2>4, FailureIsCryptographic
<1> QED
  BY <1>6, <1>7, <1>8, <1>10, <1>11, <1>12, <1>13, <1>14 DEF Mutations

-----------------------------------------------------------------------------
(* The generator and the scripts keep the invariant.                       *)

LEMMA FilesAre ==
  Files = {"policy", "overlay", "verdicts", "mutations", "composed", "summary", "sums",
           "java"}
BY DEF Files, NoFiles

LEMMA InitEstablishes == Init => IInv
<1> SUFFICES ASSUME Init PROVE IInv
  OBVIOUS
<1>1. ProgressInv
  BY DEF Init, ProgressInv, Steps
<1>2. DiskInv
  BY FilesAre DEF Init, DiskInv, NoFiles
<1>3. VectorsInv
  BY DEF Init, VectorsInv, NoFiles
<1> QED
  BY <1>1, <1>2, <1>3 DEF IInv

(* What is good stays good when more roots are listed. *)
LEMMA GoodGrows ==
  ASSUME NEW v, NEW listed, NEW more, Good(v, listed), listed \subseteq more
  PROVE  Good(v, more)
BY DEF Good, RootPinned

(* What PcrReset, PcrExtend and Quote make of the next transaction. *)
LEMMA QuoteIsGood ==
  ASSUME IInv, pc = "quote", Quote
  PROVE  \A v \in vectors' : Good(v, roots)
<1> DEFINE id == Order[next]
           envelope == EnvelopeOf(id, disk.policy)
           quote == QuoteOf(Ak, Transcript(envelope), pcr)
           new == [root |-> root, expected |-> Class(id), envelope |-> envelope,
                   ak_pub |-> Ak, quote_msg |-> quote.quote_msg,
                   quote_sig |-> quote.quote_sig, pcr_bin |-> quote.pcr_bin]
<1>1. vectors' = vectors \cup {new}
  BY DEF Quote
<1>2. id \in Ids
  BY OverlayAssumption DEF IInv, ProgressInv
<1>3. disk.policy = BuiltPolicy /\ pcr = <<Observed(id)>>
  BY DEF IInv, DiskInv, ProgressInv
<1>4. /\ new.envelope = EnvelopeOf(id, BuiltPolicy)
      /\ new.envelope.transaction_id = id
      /\ new.envelope.observed_measurement = Observed(id)
      /\ new.expected = Class(id)
  BY <1>3 DEF EnvelopeOf
<1>5. CheckQuote(new)
  BY DEF CheckQuote, QuoteOf
<1>6. PcrMatch(new)
  BY <1>3, <1>4 DEF PcrMatch, QuoteOf, ExpectedPcr
<1>7. RootPinned(new, roots)
  BY DEF RootPinned, IInv, ProgressInv
<1>8. Good(new, roots)
  BY <1>2, <1>4, <1>5, <1>6, <1>7 DEF Good
<1> QED
  BY <1>1, <1>8 DEF IInv, VectorsInv

(* An operator over the corpus is the same after a step. *)
LEMMA CorpusStays ==
  ASSUME corpus' = corpus
  PROVE  /\ BuiltPolicy' = BuiltPolicy
         /\ \A id : Observed(id)' = Observed(id)
         /\ \A v, listed : Good(v, listed)' <=> Good(v, listed)
<1>1. \A id : Class(id)' = Class(id) /\ Observed(id)' = Observed(id)
  BY DEF Class, Observed, DerivedMeasurement, Composed!AppraiseState
<1>2. BuiltPolicy' = BuiltPolicy
  BY <1>1 DEF BuiltPolicy, Class, Observed, DerivedMeasurement, Composed!AppraiseState
<1>3. \A id, policy : EnvelopeOf(id, policy)' = EnvelopeOf(id, policy)
  BY DEF EnvelopeOf, Observed, DerivedMeasurement
<1>4. ASSUME NEW v, NEW listed PROVE Good(v, listed)' <=> Good(v, listed)
  BY <1>1, <1>2, <1>3 DEF Good, CheckQuote, PcrMatch, RootPinned, Transcript, ExpectedPcr
<1> QED
  BY <1>1, <1>2, <1>4

(* Actions that only move on, or write one of the rows or summaries. *)
LEMMA RowsKeep ==
  ASSUME IInv, UNCHANGED <<corpus, generator>>,
         pc' \in {"mutations", "recompose", "summary", "sums", "java", "baseline"} \cup Ends,
         disk' = [f \in Files |-> disk'[f]],
         disk'.policy = disk.policy, disk'.overlay = disk.overlay
  PROVE  IInv'
<1>1. ProgressInv'
  BY DEF IInv, ProgressInv, Steps, Ends, generator
<1>2. DiskInv'
  BY CorpusStays DEF IInv, DiskInv, Ends
<1>3. VectorsInv'
  BY CorpusStays DEF IInv, VectorsInv, generator
<1> QED
  BY <1>1, <1>2, <1>3 DEF IInv

LEMMA WriteKeeps ==
  ASSUME IInv, NEW content, NEW file \in Files \ {"policy", "overlay"},
         NEW step \in {"mutations", "recompose", "summary", "sums", "java"} \cup Ends,
         Write(file, content, step)
  PROVE  IInv'
<1>1. disk = [f \in Files |-> disk[f]]
  BY DEF IInv, DiskInv
<1>2. disk' = [disk EXCEPT ![file] = content]
  BY DEF Write
<1>3. disk' = [f \in Files |-> disk'[f]]
  BY <1>1, <1>2
<1>4. disk'.policy = disk.policy /\ disk'.overlay = disk.overlay
  BY <1>1, <1>2, FilesAre
<1> QED
  BY <1>3, <1>4, RowsKeep DEF Write

LEMMA StepKeeps == IInv /\ [Next]_vars => IInv'
<1> SUFFICES ASSUME IInv, [Next]_vars PROVE IInv'
  OBVIOUS
<1> USE FilesAre
<1>a. disk = [f \in Files |-> disk[f]]
  BY DEF IInv, DiskInv
<1>1. CASE WritePolicy
  <2>1. ProgressInv'
    BY <1>1 DEF WritePolicy, IInv, ProgressInv, Steps, generator
  <2>2. DiskInv'
    BY <1>1, <1>a, CorpusStays DEF WritePolicy, IInv, DiskInv
  <2>3. VectorsInv'
    BY <1>1, <1>a, CorpusStays DEF WritePolicy, IInv, VectorsInv, generator
  <2> QED
    BY <2>1, <2>2, <2>3 DEF IInv
<1>2. CASE StartRoot
  <2> DEFINE r == [root |-> root, ak_pub |-> Ak, transactions |-> CountOf(root)]
  <2>a. r \in roots' /\ r.root = root' /\ r.ak_pub = Ak'
    BY <1>2 DEF StartRoot, Ak
  <2>b. corpus' \in Corpora /\ root' \in Nat /\ next' \in Nat /\ next' > 0
    BY <1>2 DEF StartRoot, IInv, ProgressInv
  <2>c. pc' = "reset"
    BY <1>2 DEF StartRoot
  <2>1. ProgressInv'
    BY <2>a, <2>b, <2>c DEF ProgressInv, Steps
  <2>2. DiskInv'
    BY <1>2, CorpusStays DEF StartRoot, IInv, DiskInv
  <2>3. roots \subseteq roots'
    BY <1>2 DEF StartRoot
  <2>4. VectorsInv'
    BY <1>2, <2>3, CorpusStays, GoodGrows DEF StartRoot, IInv, VectorsInv
  <2> QED
    BY <2>1, <2>2, <2>4 DEF IInv
<1>3. CASE PcrReset
  <2>1. ProgressInv'
    BY <1>3, OverlayAssumption DEF PcrReset, Quoting, IInv, ProgressInv, Steps, Ak
  <2>2. DiskInv'
    BY <1>3, CorpusStays DEF PcrReset, IInv, DiskInv
  <2>3. VectorsInv'
    BY <1>3, CorpusStays DEF PcrReset, IInv, VectorsInv
  <2> QED
    BY <2>1, <2>2, <2>3 DEF IInv
<1>4. CASE PcrExtend
  <2>1. pcr' = <<Observed(Order[next])>>
    BY <1>4 DEF PcrExtend, IInv, ProgressInv
  <2>2. Observed(Order[next])' = Observed(Order[next])
    BY <1>4 DEF PcrExtend, Observed, DerivedMeasurement
  <2>3. ProgressInv'
    BY <1>4, <2>1, <2>2 DEF PcrExtend, IInv, ProgressInv, Steps, Ak
  <2>4. DiskInv'
    BY <1>4, CorpusStays DEF PcrExtend, IInv, DiskInv
  <2>5. VectorsInv'
    BY <1>4, CorpusStays DEF PcrExtend, IInv, VectorsInv
  <2> QED
    BY <2>3, <2>4, <2>5 DEF IInv
<1>5. CASE Quote
  <2>1. pc = "quote" /\ pc' = "reset"
    BY <1>5 DEF Quote
  <2>2. ProgressInv'
    BY <1>5, <2>1, OverlayAssumption DEF Quote, IInv, ProgressInv, Steps, Ak
  <2>3. DiskInv'
    BY <1>5, CorpusStays DEF Quote, IInv, DiskInv
  <2>4. \A v \in vectors' : Good(v, roots)
    BY <1>5, <2>1, QuoteIsGood
  <2>5. VectorsInv'
    BY <1>5, <2>4, CorpusStays DEF Quote, IInv, VectorsInv
  <2> QED
    BY <2>2, <2>3, <2>5 DEF IInv
<1>6. CASE StopRoot
  <2>1. ProgressInv'
    BY <1>6 DEF StopRoot, IInv, ProgressInv, Steps
  <2>2. DiskInv'
    BY <1>6, CorpusStays DEF StopRoot, IInv, DiskInv
  <2>3. VectorsInv'
    BY <1>6, CorpusStays DEF StopRoot, IInv, VectorsInv
  <2> QED
    BY <2>1, <2>2, <2>3 DEF IInv
<1>7. CASE CommandFails
  BY <1>7, <1>a, RowsKeep DEF CommandFails, Ends
<1>8. CASE WriteOverlay
  <2>1. ProgressInv'
    BY <1>8 DEF WriteOverlay, IInv, ProgressInv, Steps, Ends, generator
  <2>2. disk' = [f \in Files |-> disk'[f]] /\ disk'.policy = disk.policy
    BY <1>8, <1>a DEF WriteOverlay
  <2>3. disk'.overlay = [vectors |-> vectors, roots |-> roots]
    BY <1>8, <1>a DEF WriteOverlay
  <2>4. disk.policy = BuiltPolicy
    BY <1>8 DEF WriteOverlay, IInv, DiskInv
  <2>5. DiskInv'
    BY <1>8, <2>2, <2>4, CorpusStays DEF WriteOverlay, DiskInv
  <2>6. VectorsInv'
    BY <1>8, <2>3, CorpusStays DEF WriteOverlay, IInv, VectorsInv, generator
  <2> QED
    BY <2>1, <2>5, <2>6 DEF IInv
<1>9. CASE AppraiseBaseline
  BY <1>9, WriteKeeps DEF AppraiseBaseline
<1>10. CASE AppraiseMutations
  BY <1>10, WriteKeeps DEF AppraiseMutations
<1>11. CASE Recompose
  <2>1. CASE pc' = "raised" /\ UNCHANGED <<corpus, generator, disk>>
    BY <2>1, <1>a, RowsKeep DEF Ends
  <2>2. CASE Write("composed",
                   [id \in Ids |-> Recomposed(id, disk.verdicts[id])
                                     = Recomposed(id, Class(id))],
                   "summary")
    BY <2>2, WriteKeeps
  <2> QED
    BY <1>11, <2>1, <2>2 DEF Recompose
<1>12. CASE Summarise
  <2>1. disk' = [[disk EXCEPT !.summary = AllPassed]
                   EXCEPT !.sums = Snapshot([disk EXCEPT !.summary = AllPassed])]
    BY <1>12 DEF Summarise
  <2>2. /\ disk' = [f \in Files |-> disk'[f]]
        /\ disk'.policy = disk.policy
        /\ disk'.overlay = disk.overlay
    BY <2>1, <1>a
  <2> QED
    BY <1>12, <2>2, RowsKeep DEF Summarise, Ends
<1>13. CASE CheckSums
  BY <1>13, <1>a, RowsKeep DEF CheckSums, Ends
<1>14. CASE RunJava
  BY <1>14, WriteKeeps DEF RunJava, Ends
<1>15. CASE RunAgain
  <2>1. ProgressInv'
    BY <1>15 DEF RunAgain, IInv, ProgressInv, Steps
  <2>2. DiskInv'
    BY <1>15, CorpusStays DEF RunAgain, IInv, DiskInv
  <2>3. VectorsInv'
    BY <1>15, CorpusStays DEF RunAgain, IInv, VectorsInv
  <2> QED
    BY <2>1, <2>2, <2>3 DEF IInv
<1>16. CASE VerifyAgain
  BY <1>16, <1>a, RowsKeep DEF VerifyAgain
<1>17. CASE UNCHANGED vars
  <2>1. ProgressInv'
    BY <1>17 DEF vars, generator, IInv, ProgressInv, Ak, Observed, DerivedMeasurement
  <2>2. DiskInv'
    BY <1>17, CorpusStays DEF vars, generator, IInv, DiskInv
  <2>3. VectorsInv'
    BY <1>17, CorpusStays DEF vars, generator, IInv, VectorsInv
  <2> QED
    BY <2>1, <2>2, <2>3 DEF IInv
<1> QED
  BY <1>1, <1>2, <1>3, <1>4, <1>5, <1>6, <1>7, <1>8, <1>9, <1>10, <1>11, <1>12, <1>13,
     <1>14, <1>15, <1>16, <1>17 DEF Next

LEMMA OverlayInvariance == Spec => []IInv
<1>1. Init => IInv
  BY InitEstablishes
<1>2. IInv /\ [Next]_vars => IInv'
  BY StepKeeps
<1> QED
  BY <1>1, <1>2, PTL DEF Spec

(* A saved vector appraises to the class of its transaction, for every     *)
(* corpus, order, number of roots and attempts.                            *)
THEOREM SavedVectorsAreAppraised == Spec => []SavedVectorsAppraise
<1>1. IInv => SavedVectorsAppraise
  <2> SUFFICES ASSUME IInv, disk.overlay # None, NEW v \in disk.overlay.vectors
               PROVE  /\ v.expected = Class(v.envelope.transaction_id)
                      /\ Appraise(v, disk.policy, FALSE) = Class(v.envelope.transaction_id)
                      /\ JavaAppraise(v, disk.policy, disk.overlay.roots, FALSE)
                           = Class(v.envelope.transaction_id)
    BY DEF SavedVectorsAppraise
  <2>1. Good(v, disk.overlay.roots) /\ disk.policy = BuiltPolicy /\ corpus \in Corpora
    BY DEF IInv, VectorsInv, DiskInv, ProgressInv
  <2> QED
    BY <2>1, GoodAppraises DEF Good
<1> QED
  BY <1>1, OverlayInvariance, PTL

-----------------------------------------------------------------------------
(* Remainders, and counting what a function tells apart.                   *)

(* Two numbers with one remainder are a multiple of the divisor apart.     *)
LEMMA ModUnique ==
  ASSUME NEW R \in Nat \ {0}, NEW q \in Int, NEW p \in Int, NEW r \in 0..(R - 1),
         NEW s \in 0..(R - 1), R * q + r = R * p + s
  PROVE  q = p /\ r = s
<1>1. R * (q - p) = s - r
  OBVIOUS
<1>2. ASSUME q > p PROVE FALSE
  <2>1. R * (q - p) >= R
    BY <1>2
  <2> QED
    BY <1>1, <2>1
<1>3. ASSUME q < p PROVE FALSE
  <2>1. R * (p - q) >= R
    BY <1>3
  <2>2. R * (p - q) = r - s
    BY <1>1
  <2> QED
    BY <2>1, <2>2
<1>4. q = p
  BY <1>2, <1>3
<1> QED
  BY <1>1, <1>4

LEMMA ModDivides ==
  ASSUME NEW R \in Nat \ {0}, NEW x \in Nat
  PROVE  /\ x % R \in 0..(R - 1)
         /\ x \div R \in Nat
         /\ x = R * (x \div R) + (x % R)
<1> DEFINE q == x \div R
           r == x % R
<1>1. r \in 0..(R - 1)
  OBVIOUS
<1>2. q \in Int
  OBVIOUS
<1>3. r = x - R * q
  OBVIOUS
<1> HIDE DEF q, r
<1>4. ASSUME q < 0 PROVE FALSE
  <2>1. R * (- q) >= R
    BY <1>2, <1>4
  <2>2. R * (- q) = r - x
    BY <1>2, <1>3
  <2> QED
    BY <1>1, <2>1, <2>2
<1>5. x = R * q + r
  BY <1>1, <1>2, <1>3
<1>6. q \in Nat
  BY <1>2, <1>4
<1> QED
  BY <1>1, <1>5, <1>6 DEF q, r

LEMMA ModIs ==
  ASSUME NEW R \in Nat \ {0}, NEW q \in Nat, NEW r \in 0..(R - 1)
  PROVE  (R * q + r) % R = r
<1> DEFINE x == R * q + r
           p == x \div R
           s == x % R
<1>1. x \in Nat
  OBVIOUS
<1>2. s \in 0..(R - 1) /\ p \in Nat /\ x = R * p + s
  BY <1>1, ModDivides
<1>3. s = x % R
  OBVIOUS
<1> HIDE DEF s, p
<1>4. R * q + r = R * p + s /\ q \in Int /\ p \in Int
  BY <1>2
<1>5. r = s
  BY <1>2, <1>4, ModUnique
<1> QED
  BY <1>3, <1>5

LEMMA ModShift ==
  ASSUME NEW R \in Nat \ {0}, NEW x \in Nat
  PROVE  (x + R) % R = x % R
<1> DEFINE q == x \div R
           r == x % R
<1>1. r \in 0..(R - 1) /\ q \in Nat /\ x = R * q + r
  BY ModDivides
<1> HIDE DEF q, r
<1>2. R * (q + 1) = R * q + R
  BY <1>1
<1>3. x + R = R * (q + 1) + r
  BY <1>1, <1>2
<1>4. (R * (q + 1) + r) % R = r
  BY <1>1, ModIs
<1> QED
  BY <1>3, <1>4 DEF r

(* Between a number and the next one with its remainder there is none.     *)
LEMMA ModGap ==
  ASSUME NEW R \in Nat \ {0}, NEW x \in Nat, NEW y \in Nat, x % R = y % R,
         x <= y, y < x + R
  PROVE  x = y
<1> DEFINE p == x \div R
           q == y \div R
           r == x % R
           d == y - x
<1>1. r \in 0..(R - 1) /\ p \in Nat /\ x = R * p + r
  BY ModDivides
<1>2. q \in Nat /\ y = R * q + r
  BY ModDivides
<1> HIDE DEF p, q, r
<1>3. d \in 0..(R - 1) /\ 0 \in 0..(R - 1)
  OBVIOUS
<1>4. R * p + d = R * q + 0
  <2>1. d = R * q - R * p
    BY <1>1, <1>2
  <2> QED
    BY <1>1, <1>2, <2>1
<1> HIDE DEF d
<1>5. d = 0
  BY <1>1, <1>2, <1>3, <1>4, ModUnique
<1> QED
  BY <1>5 DEF d

LEMMA ModNext ==
  ASSUME NEW R \in Nat, R > 1, NEW x \in Nat
  PROVE  (x + 1) % R # x % R
<1> SUFFICES ASSUME (x + 1) % R = x % R PROVE FALSE
  OBVIOUS
<1>1. x + 1 \in Nat /\ x <= x + 1 /\ x + 1 < x + R /\ R \in Nat \ {0}
  OBVIOUS
<1>2. x = x + 1
  BY <1>1, ModGap
<1> QED
  BY <1>2

LEMMA ImageCount ==
  ASSUME NEW S, IsFiniteSet(S), NEW f, \A s, t \in S : f[s] = f[t] => s = t
  PROVE  Cardinality({f[s] : s \in S}) = Cardinality(S)
<1> DEFINE T == {f[s] : s \in S}
           g == [s \in S |-> f[s]]
<1>1. g \in Bijection(S, T)
  BY DEF Bijection, Injection, Surjection, IsInjective
<1> QED
  BY <1>1, FS_Bijection DEF ExistsBijection

-----------------------------------------------------------------------------
(* The files of the overlay, as one run of the generator makes them.       *)

(* What one run of the generator makes of the k-th transaction of the      *)
(* corpus, and of a root.                                                  *)
RootOf(k) == (k - 1) % ROOTS

VectorMade(a, k) ==
  LET envelope == EnvelopeOf(Order[k], BuiltPolicy)
      ak == <<a, RootOf(k)>>
      quote == QuoteOf(ak, Transcript(envelope), ExpectedPcr(Observed(Order[k])))
  IN  [root |-> RootOf(k), expected |-> Class(Order[k]), envelope |-> envelope,
       ak_pub |-> ak, quote_msg |-> quote.quote_msg, quote_sig |-> quote.quote_sig,
       pcr_bin |-> quote.pcr_bin]

RootMade(a, r) == [root |-> r, ak_pub |-> <<a, r>>, transactions |-> CountOf(r)]

Places == 1..Len(Order)

OverlayMade(a) ==
  [vectors |-> {VectorMade(a, k) : k \in Places},
   roots |-> {RootMade(a, r) : r \in RootIds}]

(* The places quoted when root is the current one and next its next.       *)
Before(r) == {k \in Places : RootOf(k) < r}
Quoted(r, n) == {k \in Places : RootOf(k) < r \/ (RootOf(k) = r /\ k < n)}

GeneratorInv ==
  /\ attempt \in Nat \ {0}
  /\ pc \in {"policy", "start", "reset", "extend", "quote"} => root \in 0..ROOTS
  /\ pc = "policy" => root = 0 /\ vectors = {} /\ roots = {}
  /\ pc = "start" =>
       /\ vectors = {VectorMade(attempt, k) : k \in Before(root)}
       /\ roots = {RootMade(attempt, r) : r \in 0..(root - 1)}
  /\ pc \in {"reset", "extend", "quote"} =>
       /\ root < ROOTS
       /\ next > 0 /\ RootOf(next) = root
       /\ vectors = {VectorMade(attempt, k) : k \in Quoted(root, next)}
       /\ roots = {RootMade(attempt, r) : r \in 0..root}

OverlayInv ==
  disk.overlay # None => \E a \in 1..attempt : disk.overlay = OverlayMade(a)

(* What verify_overlay.py has written, statement by statement.             *)
Rejections == [m \in RootIds \X Mutations |-> "CRYPTOGRAPHIC_FAILURE"]

VerdictsMade(verdicts) ==
  /\ verdicts = [id \in Ids |-> verdicts[id]]
  /\ \A id \in Ids : verdicts[id] \in {Class(id), "CRYPTOGRAPHIC_FAILURE"}

Matches(verdicts) ==
  [id \in Ids |-> Recomposed(id, verdicts[id]) = Recomposed(id, Class(id))]

AllStructural(verdicts) == \A id \in Ids : verdicts[id] = Class(id)

RowsInv ==
  /\ pc \in {"baseline", "mutations", "recompose", "summary", "sums", "java"} =>
       /\ disk.policy = BuiltPolicy
       /\ \E a \in 1..attempt : disk.overlay = OverlayMade(a)
  /\ pc \in {"mutations", "recompose", "summary", "sums", "java"} =>
       VerdictsMade(disk.verdicts)
  /\ pc \in {"recompose", "summary", "sums", "java"} => disk.mutations = Rejections
  /\ pc = "summary" => disk.composed = Matches(disk.verdicts)
  /\ pc \in {"sums", "java"} => disk.summary = TRUE
  /\ pc = "java" => SumsMatch

SumsInv ==
  /\ disk.sums # None => (disk.sums[6] <=> AllStructural(disk.sums[3]))
  /\ disk.java # None => (disk.java.all_passed <=> AllStructural(disk.java.verdicts))

FilesInv == GeneratorInv /\ OverlayInv /\ RowsInv /\ SumsInv

-----------------------------------------------------------------------------
(* What was made, counted and looked up.                                   *)

LEMMA OrderFacts ==
  /\ Len(Order) \in Nat /\ Len(Order) > 1 /\ Ids = Places
  /\ \A k \in Places : Order[k] \in Ids /\ RootOf(k) \in RootIds
  /\ \A id \in Ids : \E k \in Places : Order[k] = id
  /\ \A j, k \in Places : Order[j] = Order[k] => j = k
<1>1. Len(Order) \in Nat
  BY OverlayAssumption
<1>2. ASSUME NEW k \in Places PROVE RootOf(k) \in RootIds
  <2>1. k - 1 \in Nat
    BY <1>1 DEF Places
  <2> QED
    BY <2>1, OverlayAssumption, ModDivides DEF RootOf, RootIds
<1> QED
  BY <1>1, <1>2, OverlayAssumption DEF Places

(* Every root quotes as many transactions as the others.                   *)
LEMMA RootsShareEqually ==
  ASSUME NEW r \in RootIds
  PROVE  /\ IsFiniteSet({k \in Places : RootOf(k) = r})
         /\ Cardinality({k \in Places : RootOf(k) = r}) = CountOf(r)
         /\ CountOf(r) * ROOTS = Len(Order)
         /\ \E k \in Places : RootOf(k) = r
<1> DEFINE R == ROOTS
           n == Len(Order)
           share == n \div R
           K == {k \in Places : RootOf(k) = r}
           f == [j \in 1..share |-> R * (j - 1) + r + 1]
<1>1. R \in Nat \ {0} /\ n \in Nat /\ n > 1 /\ n % R = 0 /\ r \in 0..(R - 1)
  BY OverlayAssumption, OrderFacts DEF RootIds
<1> HIDE DEF R, n
<1>a. share \in Nat /\ n = R * share + (n % R)
  BY <1>1, ModDivides
<1> HIDE DEF share
<1>2. share \in Nat /\ n = R * share
  BY <1>1, <1>a
<1>3. share > 0
  BY <1>1, <1>2
<1>4. ASSUME NEW j \in 1..share PROVE f[j] \in K
  <2>1. j - 1 \in Nat /\ R * (j - 1) \in Nat
    BY <1>1, <1>2
  <2>2. (R * (j - 1) + r) % R = r
    BY <1>1, <2>1, ModIs
  <2>3. R * (j - 1) <= R * (share - 1)
    BY <1>1, <1>2
  <2>4. R * (share - 1) = n - R
    BY <1>1, <1>2
  <2>5. f[j] \in 1..n
    BY <1>1, <2>1, <2>3, <2>4
  <2>6. f[j] - 1 = R * (j - 1) + r
    BY <1>1, <2>1
  <2> QED
    BY <2>2, <2>5, <2>6 DEF Places, RootOf, R, n
<1>5. ASSUME NEW k \in K PROVE \E j \in 1..share : f[j] = k
  <2> DEFINE q == (k - 1) \div R
  <2>0. k \in 1..n /\ k - 1 \in Nat /\ (k - 1) % R = r
    BY <1>1 DEF Places, RootOf, R, n
  <2>1. q \in Nat /\ k - 1 = R * q + r
    BY <1>1, <2>0, ModDivides
  <2> HIDE DEF q
  <2>2. q < share
    <3> SUFFICES ASSUME q >= share PROVE FALSE
      BY <1>2, <2>1
    <3>1. R * q >= R * share
      BY <1>1, <1>2, <2>1
    <3> QED
      BY <1>1, <1>2, <2>0, <2>1, <3>1
  <2>3. q + 1 \in 1..share /\ (q + 1) - 1 = q
    BY <1>2, <2>1, <2>2
  <2>4. f[q + 1] = R * q + r + 1
    BY <2>3
  <2>5. R * q \in Nat
    BY <1>1, <2>1
  <2> QED
    BY <1>1, <2>0, <2>1, <2>3, <2>4, <2>5
<1>6. ASSUME NEW i \in 1..share, NEW j \in 1..share, f[i] = f[j] PROVE i = j
  <2>1. R * (i - 1) \in Nat /\ R * (j - 1) \in Nat
    BY <1>1, <1>2
  <2>2. R * (i - 1) + r = R * (j - 1) + r /\ i - 1 \in Int /\ j - 1 \in Int
    BY <1>1, <1>6, <2>1
  <2>3. i - 1 = j - 1
    BY <1>1, <2>2, ModUnique
  <2> QED
    BY <2>3
<1>7. f \in Bijection(1..share, K)
  BY <1>4, <1>5, <1>6, Zenon DEF Bijection, Injection, Surjection, IsInjective
<1>8. IsFiniteSet(1..share) /\ Cardinality(1..share) = share
  BY <1>2, <1>3, FS_Interval
<1>9. IsFiniteSet(K) /\ Cardinality(K) = share
  BY <1>7, <1>8, FS_Bijection DEF ExistsBijection
<1>10. K = {k \in 1..Len(Order) : (k - 1) % ROOTS = r}
  BY DEF Places, RootOf
<1>11. CountOf(r) = share
  BY <1>9, <1>10 DEF CountOf
<1>12. \E k \in Places : RootOf(k) = r
  BY <1>3, <1>4, <1>2
<1> QED
  BY <1>1, <1>2, <1>9, <1>11, <1>12 DEF R, n

LEMMA MadeIsGood ==
  ASSUME NEW a, NEW k \in Places, NEW listed, RootMade(a, RootOf(k)) \in listed
  PROVE  /\ Good(VectorMade(a, k), listed)
         /\ Whole(VectorMade(a, k))
         /\ VectorMade(a, k).envelope.transaction_id = Order[k]
         /\ VectorMade(a, k).envelope.challenge = Order[k]
         /\ VectorMade(a, k).root = RootOf(k)
         /\ VectorMade(a, k).ak_pub = <<a, RootOf(k)>>
         /\ VectorMade(a, k).expected = Class(Order[k])
         /\ VectorMade(a, k).quote_msg.qualifying = VectorMade(a, k).envelope
<1> DEFINE v == VectorMade(a, k)
           id == Order[k]
           e == EnvelopeOf(id, BuiltPolicy)
           q == QuoteOf(<<a, RootOf(k)>>, Transcript(e), ExpectedPcr(Observed(id)))
<1>1. id \in Ids
  BY OrderFacts
<1>2. /\ e.transaction_id = id /\ e.observed_measurement = Observed(id)
      /\ e.challenge = id
  BY <1>1 DEF EnvelopeOf, BuiltPolicy
<1>3. /\ v = [root |-> RootOf(k), expected |-> Class(id), envelope |-> e,
              ak_pub |-> <<a, RootOf(k)>>, quote_msg |-> q.quote_msg,
              quote_sig |-> q.quote_sig, pcr_bin |-> q.pcr_bin]
  BY DEF VectorMade
<1>4. /\ q.quote_msg = [qualifying |-> e, pcr |-> <<Observed(id)>>, intact |-> TRUE]
      /\ q.quote_sig = [key |-> <<a, RootOf(k)>>, over |-> q.quote_msg, intact |-> TRUE]
      /\ q.pcr_bin = [value |-> <<Observed(id)>>, intact |-> TRUE]
  BY DEF QuoteOf, Transcript, ExpectedPcr
<1> HIDE DEF v, e, q, id
<1>10. /\ v.root = RootOf(k) /\ v.expected = Class(id) /\ v.envelope = e
       /\ v.ak_pub = <<a, RootOf(k)>> /\ v.quote_msg = q.quote_msg
       /\ v.quote_sig = q.quote_sig /\ v.pcr_bin = q.pcr_bin
  BY <1>3
<1>11. q.quote_msg.qualifying = e /\ q.quote_msg.pcr = <<Observed(id)>>
  BY <1>4
<1>5. CheckQuote(v)
  BY <1>4, <1>10, <1>11 DEF CheckQuote, Transcript
<1>6. PcrMatch(v)
  BY <1>2, <1>3, <1>4 DEF PcrMatch, ExpectedPcr
<1>7. RootPinned(v, listed)
  BY <1>3 DEF RootPinned, RootMade
<1>8. Good(v, listed)
  BY <1>1, <1>2, <1>3, <1>5, <1>6, <1>7 DEF Good, e
<1>9. Whole(v)
  <2>1. v = [root |-> v.root, expected |-> v.expected, envelope |-> v.envelope,
             ak_pub |-> v.ak_pub, quote_msg |-> v.quote_msg, quote_sig |-> v.quote_sig,
             pcr_bin |-> v.pcr_bin]
    BY <1>3, <1>10
  <2> QED
    BY <1>4, <1>10, <1>11, <2>1 DEF Whole
<1> QED
  BY <1>2, <1>3, <1>4, <1>8, <1>9 DEF v, id

LEMMA ListedRoots ==
  ASSUME NEW a, NEW k \in Places
  PROVE  RootMade(a, RootOf(k)) \in OverlayMade(a).roots
BY OrderFacts DEF OverlayMade

(* The overlay that was made holds one vector of every transaction, and    *)
(* looking one up by its identifier finds it.                              *)
LEMMA LookUp ==
  ASSUME NEW a, NEW k \in Places
  PROVE  VectorOf(OverlayMade(a), Order[k]) = VectorMade(a, k)
<1> DEFINE all == {VectorMade(a, j) : j \in Places}
<1>1. OverlayMade(a).vectors = all
  BY DEF OverlayMade
<1>2. \A j \in Places : VectorMade(a, j).envelope.transaction_id = Order[j]
  BY ListedRoots, MadeIsGood
<1>3. VectorMade(a, k) \in all
  OBVIOUS
<1>4. \A v \in all : v.envelope.transaction_id = Order[k] => v = VectorMade(a, k)
  BY <1>2, OrderFacts
<1> QED
  BY <1>1, <1>2, <1>3, <1>4 DEF VectorOf

LEMMA OverlaySets ==
  ASSUME NEW a
  PROVE  /\ IdsOf(OverlayMade(a)) = Ids
         /\ RootsOf(OverlayMade(a)) = RootIds
<1> DEFINE all == {VectorMade(a, j) : j \in Places}
<1>1. OverlayMade(a).vectors = all
  BY DEF OverlayMade
<1>2. \A j \in Places : /\ VectorMade(a, j).envelope.transaction_id = Order[j]
                        /\ VectorMade(a, j).root = RootOf(j)
  BY ListedRoots, MadeIsGood
<1>3. {v.envelope.transaction_id : v \in all} = {Order[j] : j \in Places}
  BY <1>2
<1>4. {v.root : v \in all} = {RootOf(j) : j \in Places}
  BY <1>2
<1>5. {Order[j] : j \in Places} = Ids
  BY OrderFacts
<1>6. {RootOf(j) : j \in Places} = RootIds
  <2>1. \A r \in RootIds : \E j \in Places : RootOf(j) = r
    BY RootsShareEqually
  <2> QED
    BY <2>1, OrderFacts
<1> QED
  BY <1>1, <1>3, <1>4, <1>5, <1>6 DEF IdsOf, RootsOf

LEMMA PlacesFinite == IsFiniteSet(Places) /\ Cardinality(Places) = Len(Order)
BY OrderFacts, FS_Interval DEF Places

(* Counting what was made: whatever tells two identifiers apart.           *)
LEMMA OverlayCounts ==
  ASSUME NEW a
  PROVE  LET o == OverlayMade(a)
         IN  /\ Cardinality(o.vectors) = Len(Order)
             /\ Cardinality({v.quote_msg : v \in o.vectors}) = Len(Order)
             /\ Cardinality({v.envelope.challenge : v \in o.vectors}) = Len(Order)
             /\ Cardinality(o.roots) = ROOTS
             /\ Cardinality({r.ak_pub : r \in o.roots}) = ROOTS
             /\ Cardinality({v.ak_pub : v \in o.vectors}) = ROOTS
             /\ Balanced(o)
             /\ \A v \in o.vectors : RootPinned(v, o.roots)
<1> DEFINE o == OverlayMade(a)
           f == [k \in Places |-> VectorMade(a, k)]
           m == [k \in Places |-> VectorMade(a, k).quote_msg]
           c == [k \in Places |-> Order[k]]
           g == [r \in RootIds |-> RootMade(a, r)]
           h == [r \in RootIds |-> <<a, r>>]
<1>1. /\ o.vectors = {VectorMade(a, k) : k \in Places}
      /\ o.roots = {RootMade(a, r) : r \in RootIds}
  BY DEF OverlayMade
<1>2. \A k \in Places : /\ VectorMade(a, k).envelope.transaction_id = Order[k]
                        /\ VectorMade(a, k).envelope.challenge = Order[k]
                        /\ VectorMade(a, k).root = RootOf(k)
                        /\ VectorMade(a, k).ak_pub = <<a, RootOf(k)>>
                        /\ VectorMade(a, k).quote_msg.qualifying = VectorMade(a, k).envelope
                        /\ Good(VectorMade(a, k), o.roots)
  BY ListedRoots, MadeIsGood
<1>3. IsFiniteSet(RootIds) /\ Cardinality(RootIds) = ROOTS
  <2>1. 0 \in Int /\ ROOTS - 1 \in Int /\ ~ (0 > ROOTS - 1) /\ (ROOTS - 1) - 0 + 1 = ROOTS
    BY OverlayAssumption
  <2> QED
    BY <2>1, FS_Interval DEF RootIds
<1> HIDE DEF o
<1>4. Cardinality({f[k] : k \in Places}) = Len(Order)
  <2>1. \A j, k \in Places : f[j] = f[k] => j = k
    BY <1>2, OrderFacts
  <2> HIDE DEF f
  <2> QED
    BY <2>1, PlacesFinite, ImageCount
<1>5. Cardinality({m[k] : k \in Places}) = Len(Order)
  <2>1. \A j, k \in Places : m[j] = m[k] => j = k
    BY <1>2, OrderFacts
  <2> HIDE DEF m
  <2> QED
    BY <2>1, PlacesFinite, ImageCount
<1>6. Cardinality({c[k] : k \in Places}) = Len(Order)
  <2>1. \A j, k \in Places : c[j] = c[k] => j = k
    BY OrderFacts
  <2> HIDE DEF c
  <2> QED
    BY <2>1, PlacesFinite, ImageCount
<1>7. Cardinality({g[r] : r \in RootIds}) = ROOTS
  <2>1. \A r, s \in RootIds : g[r] = g[s] => r = s
    BY DEF RootMade
  <2> HIDE DEF g
  <2> QED
    BY <2>1, <1>3, ImageCount
<1>8. Cardinality({h[r] : r \in RootIds}) = ROOTS
  <2>1. \A r, s \in RootIds : h[r] = h[s] => r = s
    OBVIOUS
  <2> HIDE DEF h
  <2> QED
    BY <2>1, <1>3, ImageCount
<1>9. o.vectors = {f[k] : k \in Places}
  BY <1>1
<1>10. {v.quote_msg : v \in o.vectors} = {m[k] : k \in Places}
  BY <1>1
<1>11. {v.envelope.challenge : v \in o.vectors} = {c[k] : k \in Places}
  <2>1. \A k \in Places : VectorMade(a, k).envelope.challenge = c[k]
    BY <1>2
  <2> HIDE DEF c
  <2> QED
    BY <1>1, <2>1
<1>12. o.roots = {g[r] : r \in RootIds}
  BY <1>1
<1>13. {r.ak_pub : r \in o.roots} = {h[r] : r \in RootIds}
  <2>1. \A r \in RootIds : RootMade(a, r).ak_pub = h[r]
    BY DEF RootMade
  <2> HIDE DEF h
  <2> QED
    BY <1>1, <2>1
<1>14. {v.ak_pub : v \in o.vectors} = {h[r] : r \in RootIds}
  <2>1. \A k \in Places : VectorMade(a, k).ak_pub = h[RootOf(k)] /\ RootOf(k) \in RootIds
    BY <1>2, OrderFacts
  <2>2. \A r \in RootIds : \E k \in Places : RootOf(k) = r
    BY RootsShareEqually
  <2> HIDE DEF h
  <2>3. {v.ak_pub : v \in o.vectors} = {h[RootOf(k)] : k \in Places}
    BY <1>1, <2>1
  <2> QED
    BY <2>1, <2>2, <2>3
<1>15. \A v \in o.vectors : RootPinned(v, o.roots)
  BY <1>1, <1>2 DEF Good
<1>16. Balanced(o)
  <2> SUFFICES ASSUME NEW r \in RootIds
               PROVE  /\ CountOf(r) * ROOTS = Len(Order)
                      /\ Cardinality({v \in o.vectors : v.root = r}) = CountOf(r)
    BY <1>1 DEF Balanced, RootMade
  <2> DEFINE K == {k \in Places : RootOf(k) = r}
             p == [k \in K |-> VectorMade(a, k)]
  <2>1. /\ IsFiniteSet(K) /\ Cardinality(K) = CountOf(r)
        /\ CountOf(r) * ROOTS = Len(Order)
    BY RootsShareEqually
  <2>2. \A j, k \in K : p[j] = p[k] => j = k
    BY <1>2, OrderFacts
  <2>3. {v \in o.vectors : v.root = r} = {p[k] : k \in K}
    <3>1. \A k \in K : p[k] = VectorMade(a, k)
      OBVIOUS
    <3>2. \A k \in Places : VectorMade(a, k).root = r <=> k \in K
      BY <1>2
    <3> HIDE DEF p
    <3>3. K \subseteq Places
      OBVIOUS
    <3> HIDE DEF K
    <3>4. {v \in o.vectors : v.root = r} = {VectorMade(a, k) : k \in K}
      BY <1>1, <3>2, <3>3
    <3> QED
      BY <3>1, <3>4
  <2> HIDE DEF p, K
  <2>4. Cardinality({p[k] : k \in K}) = CountOf(r)
    BY <2>1, <2>2, ImageCount
  <2> QED
    BY <2>1, <2>3, <2>4
<1> HIDE DEF f, m, c, g, h
<1> QED
  BY <1>4, <1>5, <1>6, <1>7, <1>8, <1>9, <1>10, <1>11, <1>12, <1>13, <1>14, <1>15, <1>16
     DEF o

-----------------------------------------------------------------------------
(* The mutations of what was made.                                         *)

(* A set of numbers that is not empty has a least one: the set of its      *)
(* lower bounds is an interval, since it is finite.                        *)
LEMMA LeastExists ==
  ASSUME NEW S \in SUBSET Nat, S # {}
  PROVE  \E m \in S : \A n \in S : m <= n
<1> DEFINE T == {t \in Nat : \A n \in S : t <= n}
           k == Cardinality(T)
<1>1. PICK s \in S : TRUE
  OBVIOUS
<1>2. IsFiniteSet(T) /\ k \in Nat
  BY <1>1, FS_BoundedSetOfNaturals, FS_CardinalityType
<1>3. ASSUME NEW t \in T PROVE t < k
  <2>1. 0..t \subseteq T
    OBVIOUS
  <2>2. Cardinality(0..t) = t + 1
    BY FS_Interval
  <2>3. Cardinality(0..t) <= k
    BY <1>2, <2>1, FS_Subset
  <2> QED
    BY <1>2, <2>2, <2>3
<1>4. 0 \in T /\ k > 0
  <2>1. 0 \in T
    OBVIOUS
  <2> QED
    BY <1>2, <1>3, <2>1
<1> HIDE DEF T, k
<1>5. T = 0..k-1
  <2>1. T \subseteq 0..k-1
    BY <1>2, <1>3 DEF T
  <2>2. IsFiniteSet(0..k-1) /\ Cardinality(0..k-1) = k
    <3>1. 0 \in Int /\ k - 1 \in Int /\ ~ (0 > k - 1) /\ (k - 1) - 0 + 1 = k
      BY <1>2, <1>4
    <3> QED
      BY <3>1, FS_Interval
  <2> QED
    BY <1>2, <2>1, <2>2, FS_Subset DEF k
<1>6. k - 1 \in T /\ k \notin T
  BY <1>2, <1>4, <1>5
<1>7. PICK n \in S : n < k
  BY <1>2, <1>6 DEF T
<1>8. \A m \in S : k - 1 <= m
  BY <1>6 DEF T
<1>9. n = k - 1
  BY <1>2, <1>7, <1>8
<1> QED
  BY <1>8, <1>9


(* The vectors a mutation is made of are two of those that were made.      *)
LEMMA Chosen ==
  ASSUME NEW a, NEW r \in RootIds
  PROVE  LET o == OverlayMade(a)
         IN  /\ Representative(o, r) \in o.vectors
             /\ Alternate(o, r) \in o.vectors
             /\ Alternate(o, r).envelope.transaction_id
                  # Representative(o, r).envelope.transaction_id
<1> DEFINE o == OverlayMade(a)
           n == Len(Order)
           v == Representative(o, r)
           nth(k) == VectorOf(o, 1 + ((r + k) % n))
<1>1. o.vectors = {VectorMade(a, k) : k \in Places}
  BY DEF OverlayMade
<1>2. \A k \in Places : /\ VectorMade(a, k).envelope.transaction_id = Order[k]
                        /\ VectorMade(a, k).root = RootOf(k)
  BY ListedRoots, MadeIsGood
<1> HIDE DEF o
<1>3. v \in o.vectors
  <2> DEFINE S == {Order[k] : k \in {j \in Places : RootOf(j) = r}}
  <2>a. \E k \in Places : RootOf(k) = r
    BY RootsShareEqually
  <2>b. \A k \in Places : Order[k] \in Nat
    BY OrderFacts DEF Places
  <2>1. S \in SUBSET Nat /\ S # {}
    BY <2>a, <2>b
  <2>2. PICK m \in S : \A i \in S : m <= i
    BY <2>1, LeastExists
  <2>3. PICK k \in Places : RootOf(k) = r /\ Order[k] = m
    BY <2>2
  <2>4. \A j \in Places : RootOf(j) = r => Order[k] <= Order[j]
    BY <2>2, <2>3
  <2>5. VectorMade(a, k) \in o.vectors /\ VectorMade(a, k).root = r
    BY <1>1, <1>2, <2>3
  <2>6. \A w \in o.vectors : w.root = r =>
          VectorMade(a, k).envelope.transaction_id <= w.envelope.transaction_id
    BY <1>1, <1>2, <2>4
  <2> QED
    BY <2>5, <2>6 DEF Representative
<1>4. Cardinality(o.vectors) = n
  BY OverlayCounts DEF o
<1>5. n \in Nat /\ n > 1 /\ r \in Nat /\ Offset \in Nat
  BY OrderFacts, OverlayAssumption DEF RootIds
<1>6. ASSUME NEW k \in Nat
      PROVE  nth(k) \in o.vectors /\ nth(k).envelope.transaction_id = 1 + ((r + k) % n)
  <2>0. r + k \in Nat /\ n \in Nat \ {0}
    BY <1>5
  <2>1. (r + k) % n \in 0..(n - 1)
    BY <2>0, ModDivides
  <2>2. 1 + ((r + k) % n) \in Ids
    BY <1>5, <2>1, OrderFacts DEF Places
  <2>3. PICK j \in Places : Order[j] = 1 + ((r + k) % n)
    BY <2>2, OrderFacts
  <2>4. nth(k) = VectorMade(a, j)
    BY <2>3, LookUp DEF o
  <2> QED
    BY <1>1, <1>2, <2>3, <2>4
<1>7. nth(Offset).envelope.transaction_id # nth(Offset + 1).envelope.transaction_id
  <2>1. r + Offset \in Nat /\ r + (Offset + 1) = (r + Offset) + 1
    BY <1>5
  <2>2. ((r + Offset) + 1) % n # (r + Offset) % n
    BY <1>5, <2>1, ModNext
  <2>0. r + (Offset + 1) \in Nat /\ n \in Nat \ {0} /\ Offset + 1 \in Nat
    BY <1>5
  <2>3. (r + Offset) % n \in 0..(n - 1) /\ (r + (Offset + 1)) % n \in 0..(n - 1)
    BY <2>0, <2>1, ModDivides
  <2>4. (r + (Offset + 1)) % n # (r + Offset) % n
    BY <2>1, <2>2
  <2>5. /\ nth(Offset).envelope.transaction_id = 1 + ((r + Offset) % n)
        /\ nth(Offset + 1).envelope.transaction_id = 1 + ((r + (Offset + 1)) % n)
    BY <1>5, <2>0, <1>6
  <2> QED
    BY <2>3, <2>4, <2>5
<1>8. Alternate(o, r) = IF nth(Offset) = v THEN nth(Offset + 1) ELSE nth(Offset)
  BY <1>4 DEF Alternate
<1>9. nth(Offset) \in o.vectors /\ nth(Offset + 1) \in o.vectors
  <2>1. Offset + 1 \in Nat
    BY <1>5
  <2> QED
    BY <1>5, <1>6, <2>1
<1> HIDE DEF v, nth
<1>10. \A x, y \in o.vectors :
         x.envelope.transaction_id = y.envelope.transaction_id => x = y
  BY <1>1, <1>2, OrderFacts
<1>11. Alternate(o, r) \in o.vectors
  BY <1>8, <1>9
<1>12. Alternate(o, r).envelope.transaction_id # v.envelope.transaction_id
  <2>1. CASE nth(Offset) = v
    BY <1>7, <1>8, <2>1
  <2>2. CASE nth(Offset) # v
    BY <1>3, <1>8, <1>9, <1>10, <2>2
  <2> QED
    BY <2>1, <2>2
<1> QED
  BY <1>3, <1>11, <1>12 DEF o, v

LEMMA MadeMutationsFail ==
  ASSUME corpus \in Corpora, NEW a, NEW r \in RootIds, NEW m \in Mutations
  PROVE  Appraise(Mutated(OverlayMade(a), r, m), BuiltPolicy, FALSE)
           = "CRYPTOGRAPHIC_FAILURE"
<1> DEFINE o == OverlayMade(a)
           v == Representative(o, r)
           w == Alternate(o, r)
<1>1. v \in o.vectors /\ w \in o.vectors
      /\ w.envelope.transaction_id # v.envelope.transaction_id
  BY Chosen
<1>2. \A x \in o.vectors : Good(x, o.roots) /\ Whole(x)
  <2>1. o.vectors = {VectorMade(a, k) : k \in Places}
    BY DEF OverlayMade
  <2> QED
    BY <2>1, ListedRoots, MadeIsGood
<1> HIDE DEF v, w
<1>3. Appraise(Mutate(v, m, w), BuiltPolicy, FALSE) = "CRYPTOGRAPHIC_FAILURE"
  BY <1>1, <1>2, MutationsBreakABinding
<1> QED
  BY <1>3 DEF Mutated, v, w

(* A check that did not come back changes no verdict of a rejection, and   *)
(* what fails in Python fails in Java.                                     *)
LEMMA BrokenFails ==
  ASSUME NEW v, NEW policy, NEW listed
  PROVE  /\ Appraise(v, policy, TRUE) = "CRYPTOGRAPHIC_FAILURE"
         /\ JavaAppraise(v, policy, listed, TRUE) = "CRYPTOGRAPHIC_FAILURE"
<1> DEFINE b == Bindings(v, policy, TRUE)
<1>1. "native_quote" \in DOMAIN b /\ ~ b["native_quote"]
  BY DEF Bindings
<1>2. Failures(b) # {}
  BY <1>1 DEF Failures
<1> QED
  BY <1>2 DEF Appraise, JavaAppraise, Ladder

LEMMA LadderOnFailures ==
  ASSUME NEW failures, NEW e, corpus \in Corpora, NEW policy
  PROVE  Ladder(failures, e, policy) = "CRYPTOGRAPHIC_FAILURE" <=> failures # {}
BY DEF Ladder

LEMMA JavaFailsToo ==
  ASSUME NEW v, NEW policy, NEW listed, NEW broken,
         corpus \in Corpora, Appraise(v, policy, broken) = "CRYPTOGRAPHIC_FAILURE"
  PROVE  JavaAppraise(v, policy, listed, broken) = "CRYPTOGRAPHIC_FAILURE"
<1>1. Failures(Bindings(v, policy, broken)) # {}
  BY LadderOnFailures DEF Appraise
<1> QED
  BY <1>1, LadderOnFailures DEF JavaAppraise

LEMMA ClassIsNoFailure == \A id : Class(id) # "CRYPTOGRAPHIC_FAILURE"
BY DEF Class, Composed!AppraiseState

-----------------------------------------------------------------------------
(* The rows and summaries, over the overlay that was made.                 *)

LEMMA PairsCount ==
  Cardinality(RootIds \X Mutations) = ROOTS * Cardinality(Mutations)
<1>1. IsFiniteSet(RootIds) /\ Cardinality(RootIds) = ROOTS
  <2>1. 0 \in Int /\ ROOTS - 1 \in Int /\ ~ (0 > ROOTS - 1) /\ (ROOTS - 1) - 0 + 1 = ROOTS
    BY OverlayAssumption
  <2> QED
    BY <2>1, FS_Interval DEF RootIds
<1>2. IsFiniteSet(Mutations)
  <2> DEFINE name == <<"quote_message_flip", "signature_flip", "pcr_blob_flip",
                       "challenge_replay", "transaction_substitution",
                       "corpus_hash_substitution", "measurement_substitution",
                       "window_substitution">>
  <2>1. name \in Surjection(1..8, Mutations)
    <3>1. name \in [1..8 -> Mutations]
      BY DEF Mutations
    <3>2. \A m \in Mutations : \E i \in 1..8 : name[i] = m
      BY DEF Mutations
    <3> HIDE DEF name
    <3> QED
      BY <3>1, <3>2 DEF Surjection
  <2>2. IsFiniteSet(1..8)
    <3>1. 1 \in Int /\ 8 \in Int
      OBVIOUS
    <3> QED
      BY <3>1, FS_Interval
  <2> HIDE DEF name
  <2> QED
    BY <2>1, <2>2, FS_Surjection
<1> QED
  BY <1>1, <1>2, FS_Product

(* verify_overlay.py's summary over the overlay that was made.             *)
LEMMA SummaryIsEarned ==
  ASSUME NEW a, disk.overlay = OverlayMade(a), VerdictsMade(disk.verdicts),
         disk.mutations = Rejections, disk.composed = Matches(disk.verdicts)
  PROVE  AllPassed <=> AllStructural(disk.verdicts)
<1> DEFINE o == OverlayMade(a)
<1>1. o.vectors = {VectorMade(a, k) : k \in Places}
  BY DEF OverlayMade
<1>2. \A k \in Places : /\ VectorMade(a, k).envelope.transaction_id = Order[k]
                        /\ VectorMade(a, k).expected = Class(Order[k])
  BY ListedRoots, MadeIsGood
<1>3. (\A v \in o.vectors : disk.verdicts[v.envelope.transaction_id] = v.expected)
        <=> AllStructural(disk.verdicts)
  <2>1. (\A v \in o.vectors : disk.verdicts[v.envelope.transaction_id] = v.expected)
          <=> \A k \in Places : disk.verdicts[Order[k]] = Class(Order[k])
    BY <1>1, <1>2
  <2> QED
    BY <2>1, OrderFacts DEF AllStructural
<1>4. /\ Cardinality(DOMAIN disk.mutations) = ROOTS * Cardinality(Mutations)
      /\ \A m \in DOMAIN disk.mutations : disk.mutations[m] = "CRYPTOGRAPHIC_FAILURE"
  BY PairsCount DEF Rejections
<1>5. AllStructural(disk.verdicts) => \A id \in Ids : disk.composed[id]
  BY DEF AllStructural, Matches
<1>6. /\ Cardinality(o.vectors) = Len(Order)
      /\ Cardinality(o.roots) = ROOTS
      /\ Cardinality({r.ak_pub : r \in o.roots}) = ROOTS
      /\ Cardinality({v.quote_msg : v \in o.vectors}) = Len(Order)
      /\ Cardinality({v.envelope.challenge : v \in o.vectors}) = Len(Order)
  BY OverlayCounts
<1> HIDE DEF o
<1> QED
  BY <1>3, <1>4, <1>5, <1>6 DEF AllPassed, o

LEMMA JavaIsEarned ==
  ASSUME corpus \in Corpora, NEW a, disk.overlay = OverlayMade(a),
         disk.policy = BuiltPolicy, VerdictsMade(disk.verdicts),
         AllStructural(disk.verdicts), disk.mutations = Rejections, NEW broken
  PROVE  JavaPassed(JavaBaseline(broken), JavaMutations({}))
           <=> AllStructural(JavaBaseline(broken))
<1> DEFINE o == OverlayMade(a)
           verdicts == JavaBaseline(broken)
           mutations == JavaMutations({})
<1>1. o.vectors = {VectorMade(a, k) : k \in Places}
  BY DEF OverlayMade
<1>2. \A k \in Places : /\ VectorMade(a, k).envelope.transaction_id = Order[k]
                        /\ VectorMade(a, k).expected = Class(Order[k])
  BY ListedRoots, MadeIsGood
<1>3. (\A v \in o.vectors : verdicts[v.envelope.transaction_id] = v.expected)
        <=> AllStructural(verdicts)
  <2> HIDE DEF verdicts
  <2>1. (\A v \in o.vectors : verdicts[v.envelope.transaction_id] = v.expected)
          <=> \A k \in Places : verdicts[Order[k]] = Class(Order[k])
    BY <1>1, <1>2
  <2> QED
    BY <2>1, OrderFacts DEF AllStructural
<1>4. mutations = Rejections
  <2>1. \A m \in RootIds \X Mutations :
          JavaAppraise(Mutated(o, m[1], m[2]), BuiltPolicy, o.roots, FALSE)
            = "CRYPTOGRAPHIC_FAILURE"
    BY MadeMutationsFail, JavaFailsToo
  <2>2. RootsOf(o) = RootIds
    BY OverlaySets
  <2>3. \A m \in RootIds \X Mutations : (m \in {}) = FALSE
    OBVIOUS
  <2>4. mutations = [m \in RootIds \X Mutations |->
                       JavaAppraise(Mutated(o, m[1], m[2]), BuiltPolicy, o.roots, FALSE)]
    BY <2>2, <2>3 DEF JavaMutations
  <2> QED
    BY <2>1, <2>4 DEF Rejections
<1>5. /\ Cardinality(DOMAIN mutations) = ROOTS * Cardinality(Mutations)
      /\ \A m \in DOMAIN mutations : mutations[m] = "CRYPTOGRAPHIC_FAILURE"
  <2> HIDE DEF mutations
  <2> QED
    BY <1>4, PairsCount DEF Rejections
<1>6. AllStructural(verdicts) => verdicts = disk.verdicts
  <2>1. verdicts = [id \in Ids |-> verdicts[id]]
    BY OverlaySets DEF JavaBaseline
  <2> HIDE DEF verdicts
  <2> QED
    BY <2>1 DEF AllStructural, VerdictsMade
<1>7. /\ Cardinality(o.vectors) = Len(Order)
      /\ Cardinality(o.roots) = ROOTS
      /\ Balanced(o)
      /\ Cardinality({v.ak_pub : v \in o.vectors}) = ROOTS
      /\ \A v \in o.vectors : RootPinned(v, o.roots)
      /\ Cardinality({v.envelope.challenge : v \in o.vectors}) = Len(Order)
      /\ Cardinality({v.quote_msg : v \in o.vectors}) = Len(Order)
  BY OverlayCounts
<1> HIDE DEF o, verdicts, mutations
<1>8. disk.overlay = o
  BY DEF o
<1>9. JavaPassed(verdicts, mutations) <=> AllStructural(verdicts)
  BY <1>3, <1>4, <1>5, <1>6, <1>7, <1>8 DEF JavaPassed
<1> QED
  BY <1>9 DEF verdicts, mutations

(* What verify_overlay.py writes of the overlay that was made.             *)
LEMMA BaselineRows ==
  ASSUME corpus \in Corpora, NEW a, disk.overlay = OverlayMade(a),
         disk.policy = BuiltPolicy, NEW late
  PROVE  VerdictsMade([id \in IdsOf(disk.overlay) |->
                         Appraise(VectorOf(disk.overlay, id), disk.policy, id \in late)])
<1> DEFINE o == OverlayMade(a)
<1>1. IdsOf(o) = Ids
  BY OverlaySets
<1>2. ASSUME NEW id \in Ids, NEW broken \in BOOLEAN
      PROVE  Appraise(VectorOf(o, id), BuiltPolicy, broken)
               \in {Class(id), "CRYPTOGRAPHIC_FAILURE"}
  <2>1. PICK k \in Places : Order[k] = id
    BY OrderFacts
  <2>2. VectorOf(o, id) = VectorMade(a, k)
    BY <2>1, LookUp
  <2>3. Good(VectorMade(a, k), o.roots) /\ VectorMade(a, k).envelope.transaction_id = id
    BY <2>1, ListedRoots, MadeIsGood
  <2> HIDE DEF o
  <2>4. CASE broken = TRUE
    BY <2>4, BrokenFails
  <2>5. CASE broken = FALSE
    BY <2>2, <2>3, <2>5, GoodAppraises
  <2> QED
    BY <2>4, <2>5
<1> HIDE DEF o
<1>3. \A id \in Ids : (id \in late) \in BOOLEAN
  OBVIOUS
<1> QED
  BY <1>1, <1>2, <1>3 DEF VerdictsMade, o

LEMMA MutationRows ==
  ASSUME corpus \in Corpora, NEW a, disk.overlay = OverlayMade(a),
         disk.policy = BuiltPolicy, NEW late
  PROVE  [m \in RootsOf(disk.overlay) \X Mutations |->
            Appraise(Mutated(disk.overlay, m[1], m[2]), disk.policy, m \in late)]
           = Rejections
<1> DEFINE o == OverlayMade(a)
<1>1. RootsOf(o) = RootIds
  BY OverlaySets
<1>2. ASSUME NEW m \in RootIds \X Mutations, NEW broken \in BOOLEAN
      PROVE  Appraise(Mutated(o, m[1], m[2]), BuiltPolicy, broken)
               = "CRYPTOGRAPHIC_FAILURE"
  <2>1. CASE broken = TRUE
    BY <2>1, BrokenFails
  <2>2. CASE broken = FALSE
    BY <2>2, MadeMutationsFail
  <2> QED
    BY <2>1, <2>2
<1> HIDE DEF o
<1>3. \A m \in RootIds \X Mutations : (m \in late) \in BOOLEAN
  OBVIOUS
<1> QED
  BY <1>1, <1>2, <1>3 DEF Rejections, o

-----------------------------------------------------------------------------
(* The generator and the scripts keep the files as they were made.         *)

Generating == {"policy", "start", "reset", "extend", "quote"}

LEMMA MadeStays ==
  ASSUME corpus' = corpus
  PROVE  /\ \A a, k : VectorMade(a, k)' = VectorMade(a, k)
         /\ \A a : OverlayMade(a)' = OverlayMade(a)
         /\ \A verdicts : /\ VerdictsMade(verdicts)' <=> VerdictsMade(verdicts)
                          /\ AllStructural(verdicts)' <=> AllStructural(verdicts)
                          /\ Matches(verdicts)' = Matches(verdicts)
<1>1. \A id : Class(id)' = Class(id) /\ Observed(id)' = Observed(id)
  BY DEF Class, Observed, DerivedMeasurement, Composed!AppraiseState
<1>2. BuiltPolicy' = BuiltPolicy
  BY CorpusStays
<1>3. \A a, k : VectorMade(a, k)' = VectorMade(a, k)
  BY <1>1, <1>2 DEF VectorMade, EnvelopeOf
<1>4. \A a : OverlayMade(a)' = OverlayMade(a)
  BY <1>3 DEF OverlayMade
<1>5. \A id, state : Recomposed(id, state)' = Recomposed(id, state)
  BY DEF Recomposed, LayersOf
<1>6. ASSUME NEW verdicts PROVE Matches(verdicts)' = Matches(verdicts)
  BY <1>1, <1>5 DEF Matches
<1> QED
  BY <1>1, <1>3, <1>4, <1>6 DEF VerdictsMade, AllStructural

(* The steps of the scripts that follow the generator leave its work.      *)
LEMMA GeneratorStays ==
  ASSUME FilesInv, UNCHANGED <<corpus, generator>>, pc' \notin Generating
  PROVE  GeneratorInv'
BY DEF FilesInv, GeneratorInv, Generating, generator

LEMMA OverlayStays ==
  ASSUME FilesInv, UNCHANGED corpus, disk'.overlay = disk.overlay,
         attempt' \in Nat, attempt' >= attempt
  PROVE  OverlayInv'
<1>1. attempt \in Nat \ {0}
  BY DEF FilesInv, GeneratorInv
<1>2. \A a : OverlayMade(a)' = OverlayMade(a)
  BY MadeStays
<1> QED
  BY <1>1, <1>2 DEF FilesInv, OverlayInv

(* The generator's steps leave the rows and summaries of earlier runs.     *)
LEMMA SumsStay ==
  ASSUME FilesInv, UNCHANGED corpus, disk'.sums = disk.sums, disk'.java = disk.java
  PROVE  SumsInv'
BY MadeStays DEF FilesInv, SumsInv

LEMMA RowsBegin ==
  ASSUME pc' \in Generating \cup Ends
  PROVE  RowsInv'
BY DEF RowsInv, Generating, Ends

LEMMA FilesInit == Init => FilesInv
<1> SUFFICES ASSUME Init PROVE FilesInv
  OBVIOUS
<1>1. GeneratorInv
  BY OverlayAssumption DEF Init, GeneratorInv
<1> QED
  BY <1>1 DEF Init, FilesInv, OverlayInv, RowsInv, SumsInv, NoFiles

(* What quoting one transaction, and ending a root, add to the vectors.    *)
LEMMA QuotedGrows ==
  ASSUME NEW n \in Places
  PROVE  Quoted(RootOf(n), n + ROOTS) = Quoted(RootOf(n), n) \cup {n}
<1>0. ROOTS \in Nat \ {0}
  BY OverlayAssumption
<1>a. Places \subseteq Nat \ {0}
  BY DEF Places
<1>1. n \in Nat \ {0} /\ ROOTS \in Nat \ {0} /\ Places \subseteq Nat \ {0}
  BY <1>0, <1>a
<1>2. ASSUME NEW k \in Places, RootOf(k) = RootOf(n), k < n + ROOTS, ~ (k < n)
      PROVE  k = n
  <2>1. k - 1 \in Nat /\ n - 1 \in Nat /\ n - 1 <= k - 1 /\ k - 1 < (n - 1) + ROOTS
    BY <1>1, <1>2
  <2>2. n - 1 = k - 1
    BY <1>1, <1>2, <2>1, ModGap DEF RootOf
  <2> QED
    BY <1>1, <2>2
<1>3. \A k \in Places : k < n => k < n + ROOTS
  BY <1>1
<1>4. n < n + ROOTS
  BY <1>1
<1> QED
  BY <1>2, <1>3, <1>4 DEF Quoted

LEMMA QuotedEnds ==
  ASSUME NEW r \in RootIds, NEW n \in Nat, ~ (n <= Len(Order))
  PROVE  Quoted(r, n) = Before(r + 1)
<1>1. \A k \in Places : k < n /\ RootOf(k) \in Nat
  BY OrderFacts DEF Places, RootIds
<1> QED
  BY <1>1 DEF Quoted, Before, RootIds

LEMMA QuotedStarts ==
  ASSUME NEW r \in RootIds
  PROVE  /\ RootOf(r + 1) = r
         /\ Quoted(r, r + 1) = Before(r)
<1>1. r \in Nat /\ r < ROOTS /\ ROOTS \in Nat \ {0}
  BY OverlayAssumption DEF RootIds
<1>2. r % ROOTS = r
  BY <1>1
<1>3. RootOf(r + 1) = r
  BY <1>1, <1>2 DEF RootOf
<1>4. ASSUME NEW k \in Places, RootOf(k) = r PROVE ~ (k < r + 1)
  <2> SUFFICES ASSUME k < r + 1 PROVE FALSE
    OBVIOUS
  <2>1. k - 1 \in Nat /\ k - 1 < ROOTS /\ k - 1 < r
    BY <1>1, OrderFacts DEF Places
  <2>2. (k - 1) % ROOTS = k - 1
    BY <1>1, <2>1
  <2> QED
    BY <1>1, <1>4, <2>1, <2>2 DEF RootOf
<1> QED
  BY <1>3, <1>4 DEF Quoted, Before

LEMMA GeneratorSteps ==
  ASSUME IInv, FilesInv,
         \/ WritePolicy \/ StartRoot \/ PcrReset \/ PcrExtend \/ Quote \/ StopRoot
  PROVE  FilesInv'
<1> USE FilesAre
<1>a. disk = [f \in Files |-> disk[f]]
  BY DEF IInv, DiskInv
<1>b. /\ attempt \in Nat \ {0} /\ corpus' = corpus /\ attempt' = attempt
      /\ ROOTS \in Nat \ {0}
  BY OverlayAssumption
     DEF FilesInv, GeneratorInv, WritePolicy, StartRoot, PcrReset, PcrExtend, Quote,
         StopRoot, generator
<1>c. /\ disk'.overlay = disk.overlay
      /\ disk'.sums = disk.sums
      /\ disk'.java = disk.java
  BY <1>a DEF WritePolicy, StartRoot, PcrReset, PcrExtend, Quote, StopRoot
<1>d. pc' \in Generating \cup Ends
  BY DEF WritePolicy, StartRoot, PcrReset, PcrExtend, Quote, StopRoot, Generating
<1>e. \A k : VectorMade(attempt, k)' = VectorMade(attempt, k)
  BY <1>b, MadeStays
<1>1. OverlayInv' /\ RowsInv' /\ SumsInv'
  BY <1>b, <1>c, <1>d, OverlayStays, RowsBegin, SumsStay
<1>2. GeneratorInv'
  <2>1. CASE WritePolicy
    <3>1. pc = "policy" /\ pc' = "start" /\ UNCHANGED <<attempt, root, vectors, roots>>
      BY <2>1 DEF WritePolicy, generator
    <3>2. root = 0 /\ vectors = {} /\ roots = {}
      BY <3>1 DEF FilesInv, GeneratorInv
    <3>3. Before(0) = {} /\ 0..(0 - 1) = {}
      BY OrderFacts DEF Before, RootIds
    <3> QED
      BY <1>b, <3>1, <3>2, <3>3 DEF GeneratorInv
  <2>2. CASE StartRoot
    <3>1. /\ pc = "start" /\ pc' = "reset" /\ root < ROOTS /\ next' = root + 1
          /\ UNCHANGED <<attempt, root, vectors>>
          /\ roots' = roots \cup {RootMade(attempt, root)}
      BY <2>2 DEF StartRoot, RootMade, Ak
    <3>2. /\ root \in 0..ROOTS
          /\ vectors = {VectorMade(attempt, k) : k \in Before(root)}
          /\ roots = {RootMade(attempt, r) : r \in 0..(root - 1)}
      BY <3>1 DEF FilesInv, GeneratorInv
    <3>3. root \in RootIds
      BY <1>b, <3>1, <3>2 DEF RootIds
    <3>4. RootOf(next') = root /\ Quoted(root, next') = Before(root)
      BY <3>1, <3>3, QuotedStarts
    <3>5. 0..root = (0..(root - 1)) \cup {root}
      BY <3>2
    <3>6. roots' = {RootMade(attempt, r) : r \in 0..root}
      BY <3>1, <3>2, <3>5
    <3>7. vectors' = {VectorMade(attempt, k)' : k \in Quoted(root, next')}
      BY <1>e, <3>1, <3>2, <3>4
    <3>8. next' > 0
      BY <3>1, <3>2
    <3> QED
      BY <1>b, <3>1, <3>2, <3>4, <3>6, <3>7, <3>8 DEF GeneratorInv
  <2>3. CASE PcrReset \/ PcrExtend
    <3>1. /\ pc \in {"reset", "extend"} /\ pc' \in {"extend", "quote"}
          /\ UNCHANGED <<attempt, root, next, vectors, roots>>
      BY <2>3 DEF PcrReset, PcrExtend
    <3>2. /\ root \in 0..ROOTS /\ root < ROOTS /\ next > 0 /\ RootOf(next) = root
          /\ vectors = {VectorMade(attempt, k) : k \in Quoted(root, next)}
          /\ roots = {RootMade(attempt, r) : r \in 0..root}
      BY <3>1 DEF FilesInv, GeneratorInv
    <3>3. vectors' = {VectorMade(attempt, k)' : k \in Quoted(root, next)}
      BY <1>e, <3>1, <3>2
    <3> QED
      BY <1>b, <3>1, <3>2, <3>3 DEF GeneratorInv
  <2>4. CASE Quote
    <3>1. /\ pc = "quote" /\ pc' = "reset" /\ next' = next + ROOTS
          /\ UNCHANGED <<attempt, root, roots>>
      BY <2>4 DEF Quote
    <3>2. /\ root \in 0..ROOTS /\ root < ROOTS /\ next > 0 /\ RootOf(next) = root
          /\ vectors = {VectorMade(attempt, k) : k \in Quoted(root, next)}
          /\ roots = {RootMade(attempt, r) : r \in 0..root}
      BY <3>1 DEF FilesInv, GeneratorInv
    <3>3. /\ next \in Places /\ disk.policy = BuiltPolicy
          /\ pcr = ExpectedPcr(Observed(Order[next]))
      BY <3>1 DEF IInv, ProgressInv, DiskInv, Places, ExpectedPcr
    <3>4. vectors' = vectors \cup {VectorMade(attempt, next)}
      BY <2>4, <3>2, <3>3 DEF Quote, VectorMade, Ak
    <3>5. Quoted(root, next') = Quoted(root, next) \cup {next}
      BY <3>1, <3>2, <3>3, QuotedGrows
    <3>6. vectors' = {VectorMade(attempt, k) : k \in Quoted(root, next')}
      BY <3>2, <3>4, <3>5
    <3>7. vectors' = {VectorMade(attempt, k)' : k \in Quoted(root, next')}
      BY <1>e, <3>6
    <3>8. next' > 0 /\ RootOf(next') = root
      <4>1. next - 1 \in Nat /\ next' - 1 = (next - 1) + ROOTS
        BY <1>b, <3>1, <3>3 DEF Places
      <4>2. ((next - 1) + ROOTS) % ROOTS = (next - 1) % ROOTS
        BY <1>b, <4>1, ModShift
      <4>3. RootOf(next') = RootOf(next)
        BY <4>1, <4>2 DEF RootOf
      <4> QED
        BY <1>b, <3>1, <3>2, <4>1, <4>3
    <3> QED
      BY <1>b, <3>1, <3>2, <3>7, <3>8 DEF GeneratorInv
  <2>5. CASE StopRoot
    <3>1. /\ pc = "reset" /\ pc' = "start" /\ root' = root + 1
          /\ UNCHANGED <<attempt, vectors, roots>> /\ ~ (next <= Len(Order))
      BY <2>5 DEF StopRoot, Quoting
    <3>2. /\ root \in 0..ROOTS /\ root < ROOTS
          /\ vectors = {VectorMade(attempt, k) : k \in Quoted(root, next)}
          /\ roots = {RootMade(attempt, r) : r \in 0..root}
      BY <3>1 DEF FilesInv, GeneratorInv
    <3>3. root \in RootIds /\ next \in Nat
      BY <1>b, <3>2 DEF RootIds, IInv, ProgressInv
    <3>4. Quoted(root, next) = Before(root')
      BY <3>1, <3>3, QuotedEnds
    <3>5. vectors' = {VectorMade(attempt, k)' : k \in Before(root')}
      BY <1>e, <3>1, <3>2, <3>4
    <3>6. root' - 1 = root /\ root' \in 0..ROOTS
      BY <1>b, <3>1, <3>2
    <3> QED
      BY <1>b, <3>1, <3>2, <3>5, <3>6 DEF GeneratorInv
  <2> QED
    BY <2>1, <2>2, <2>3, <2>4, <2>5
<1> QED
  BY <1>1, <1>2 DEF FilesInv

LEMMA WriteOverlayKeeps ==
  ASSUME IInv, FilesInv, WriteOverlay
  PROVE  FilesInv'
<1> USE FilesAre
<1>a. disk = [f \in Files |-> disk[f]]
  BY DEF IInv, DiskInv
<1>1. /\ pc = "start" /\ root = ROOTS /\ pc' \in {"baseline", "raised"}
      /\ UNCHANGED <<corpus, generator>>
      /\ disk' = [disk EXCEPT !.overlay = [vectors |-> vectors, roots |-> roots]]
  BY DEF WriteOverlay
<1>2. /\ attempt \in Nat \ {0}
      /\ vectors = {VectorMade(attempt, k) : k \in Before(ROOTS)}
      /\ roots = {RootMade(attempt, r) : r \in 0..(ROOTS - 1)}
  BY <1>1 DEF FilesInv, GeneratorInv
<1>3. Before(ROOTS) = Places
  BY OrderFacts, OverlayAssumption DEF Before, RootIds
<1>4. disk'.overlay = OverlayMade(attempt)
  BY <1>1, <1>2, <1>3, <1>a DEF OverlayMade, RootIds
<1>5. disk'.sums = disk.sums /\ disk'.java = disk.java
  BY <1>1, <1>a
<1>6. OverlayMade(attempt)' = OverlayMade(attempt) /\ attempt' = attempt /\ attempt \in 1..attempt
  <2>1. \A a : OverlayMade(a)' = OverlayMade(a)
    BY <1>1, MadeStays
  <2>2. attempt' = attempt
    BY <1>1 DEF generator
  <2>3. OverlayMade(attempt)' = OverlayMade(attempt)
    BY <1>1, <2>2, MadeStays DEF OverlayMade, RootMade
  <2> QED
    BY <1>2, <2>2, <2>3
<1>7. OverlayInv'
  BY <1>4, <1>6 DEF OverlayInv
<1>8. GeneratorInv'
  BY <1>1, GeneratorStays DEF Generating
<1>9. SumsInv'
  BY <1>1, <1>5, SumsStay
<1>10. RowsInv'
  <2>1. disk'.policy = BuiltPolicy'
    BY <1>1, <1>a, CorpusStays DEF IInv, DiskInv
  <2>2. \E a \in 1..attempt' : disk'.overlay = OverlayMade(a)'
    BY <1>1, <1>4, <1>6, MadeStays
  <2> QED
    BY <1>1, <2>1, <2>2 DEF RowsInv
<1> QED
  BY <1>7, <1>8, <1>9, <1>10 DEF FilesInv

LEMMA VerifierSteps ==
  ASSUME IInv, FilesInv,
         \/ AppraiseBaseline \/ AppraiseMutations \/ Recompose \/ Summarise \/ CheckSums
         \/ RunJava
  PROVE  FilesInv'
<1> USE FilesAre
<1>a. disk = [f \in Files |-> disk[f]]
  BY DEF IInv, DiskInv
<1>b. UNCHANGED <<corpus, generator>> /\ disk'.overlay = disk.overlay
      /\ disk'.policy = disk.policy /\ attempt' = attempt /\ attempt \in Nat
  BY <1>a DEF AppraiseBaseline, AppraiseMutations, Recompose, Summarise, CheckSums, RunJava,
              Write, generator, FilesInv, GeneratorInv
<1>c. pc' \in {"mutations", "recompose", "summary", "sums", "java"} \cup Ends
  BY DEF AppraiseBaseline, AppraiseMutations, Recompose, Summarise, CheckSums, RunJava,
         Write, Ends
<1>d. pc \in {"baseline", "mutations", "recompose", "summary", "sums", "java"}
  BY DEF AppraiseBaseline, AppraiseMutations, Recompose, Summarise, CheckSums, RunJava
<1>e. corpus \in Corpora /\ disk.policy = BuiltPolicy
  BY <1>d DEF FilesInv, RowsInv, IInv, ProgressInv
<1>f. PICK a \in 1..attempt : disk.overlay = OverlayMade(a)
  BY <1>d DEF FilesInv, RowsInv
<1>g. /\ disk'.policy = BuiltPolicy'
      /\ \E x \in 1..attempt' : disk'.overlay = OverlayMade(x)'
  BY <1>b, <1>e, <1>f, CorpusStays, MadeStays
<1>1. GeneratorInv'
  BY <1>b, <1>c, GeneratorStays DEF Generating, Ends
<1>2. OverlayInv'
  BY <1>b, OverlayStays
<1>h. \A verdicts : /\ VerdictsMade(verdicts)' <=> VerdictsMade(verdicts)
                    /\ AllStructural(verdicts)' <=> AllStructural(verdicts)
                    /\ Matches(verdicts)' = Matches(verdicts)
  BY <1>b, MadeStays
<1>3. CASE AppraiseBaseline
  <2>1. PICK late : Write("verdicts",
             [id \in IdsOf(disk.overlay) |->
                Appraise(VectorOf(disk.overlay, id), disk.policy, id \in late)],
             "mutations")
    BY <1>3 DEF AppraiseBaseline
  <2>2. VerdictsMade(disk'.verdicts)
    BY <1>a, <1>e, <1>f, <2>1, BaselineRows DEF Write
  <2>3. pc' = "mutations" /\ disk'.sums = disk.sums /\ disk'.java = disk.java
    BY <1>a, <2>1 DEF Write
  <2>4. VerdictsMade(disk.verdicts)'
    BY <1>h, <2>2 DEF VerdictsMade, Class, Composed!AppraiseState
  <2>5. RowsInv'
    BY <1>g, <2>3, <2>4 DEF RowsInv
  <2>6. SumsInv'
    BY <1>b, <2>3, SumsStay
  <2> QED
    BY <1>1, <1>2, <2>5, <2>6 DEF FilesInv
<1>4. CASE AppraiseMutations
  <2>1. PICK late : Write("mutations",
             [m \in RootsOf(disk.overlay) \X Mutations |->
                Appraise(Mutated(disk.overlay, m[1], m[2]), disk.policy, m \in late)],
             "recompose")
    BY <1>4 DEF AppraiseMutations
  <2>2. disk'.mutations = Rejections
    BY <1>a, <1>e, <1>f, <2>1, MutationRows DEF Write
  <2>3. /\ pc = "mutations" /\ pc' = "recompose" /\ disk'.verdicts = disk.verdicts
        /\ disk'.sums = disk.sums /\ disk'.java = disk.java
    BY <1>4, <1>a, <2>1 DEF Write, AppraiseMutations
  <2>4. VerdictsMade(disk.verdicts)
    BY <2>3 DEF FilesInv, RowsInv
  <2>5. VerdictsMade(disk.verdicts)'
    BY <1>b, <2>3, <2>4 DEF VerdictsMade, Class, Composed!AppraiseState
  <2>6. RowsInv'
    BY <1>g, <2>2, <2>3, <2>5 DEF RowsInv, Rejections
  <2>7. SumsInv'
    BY <1>b, <2>3, SumsStay
  <2> QED
    BY <1>1, <1>2, <2>6, <2>7 DEF FilesInv
<1>5. CASE Recompose
  <2>1. CASE pc' = "raised" /\ UNCHANGED disk
    <3>1. RowsInv'
      BY <2>1, RowsBegin DEF Ends
    <3>2. SumsInv'
      BY <1>b, <2>1, SumsStay
    <3> QED
      BY <1>1, <1>2, <3>1, <3>2 DEF FilesInv
  <2>2. CASE Write("composed", Matches(disk.verdicts), "summary")
    <3>1. /\ pc' = "summary" /\ disk'.verdicts = disk.verdicts
          /\ disk'.mutations = disk.mutations /\ disk'.composed = Matches(disk.verdicts)
          /\ disk'.sums = disk.sums /\ disk'.java = disk.java
      BY <1>a, <2>2 DEF Write
    <3>2. VerdictsMade(disk.verdicts) /\ disk.mutations = Rejections
      BY <1>5 DEF Recompose, FilesInv, RowsInv
    <3>3. VerdictsMade(disk.verdicts)'
      BY <1>b, <3>1, <3>2 DEF VerdictsMade, Class, Composed!AppraiseState
    <3>4. Matches(disk.verdicts)' = Matches(disk.verdicts)
      BY <1>b, <1>h, <3>1 DEF Matches, Class, Composed!AppraiseState, Recomposed, LayersOf
    <3>5. RowsInv'
      BY <1>g, <3>1, <3>2, <3>3, <3>4 DEF RowsInv, Rejections
    <3>6. SumsInv'
      BY <1>b, <3>1, SumsStay
    <3> QED
      BY <1>1, <1>2, <3>5, <3>6 DEF FilesInv
  <2> QED
    BY <1>5, <2>1, <2>2 DEF Recompose, Matches
<1>6. CASE Summarise
  <2>1. /\ pc = "summary"
        /\ disk' = [[disk EXCEPT !.summary = AllPassed]
                   EXCEPT !.sums = Snapshot([disk EXCEPT !.summary = AllPassed])]
        /\ pc' = IF AllPassed THEN "sums" ELSE "failed"
    BY <1>6 DEF Summarise
  <2>2. /\ disk'.verdicts = disk.verdicts /\ disk'.mutations = disk.mutations
        /\ disk'.summary = AllPassed /\ disk'.java = disk.java
        /\ disk'.sums = <<disk.policy, disk.overlay, disk.verdicts, disk.mutations,
                          disk.composed, AllPassed>>
    BY <1>a, <2>1 DEF Snapshot
  <2>3. /\ VerdictsMade(disk.verdicts) /\ disk.mutations = Rejections
        /\ disk.composed = Matches(disk.verdicts)
    BY <2>1 DEF FilesInv, RowsInv
  <2>4. AllPassed <=> AllStructural(disk.verdicts)
    BY <1>f, <2>3, SummaryIsEarned
  <2>5. VerdictsMade(disk.verdicts)'
    BY <1>b, <2>2, <2>3 DEF VerdictsMade, Class, Composed!AppraiseState
  <2>6. AllPassed \in BOOLEAN
    BY DEF AllPassed
  <2>7. RowsInv'
    <3>1. CASE ~ AllPassed
      BY <2>1, <3>1, RowsBegin DEF Ends
    <3>2. CASE AllPassed
      BY <1>g, <2>1, <2>2, <2>3, <2>5, <2>6, <3>2 DEF RowsInv, Rejections
    <3> QED
      BY <3>1, <3>2
  <2>8. SumsInv'
    <3>1. disk'.sums[6] = AllPassed /\ disk'.sums[3] = disk.verdicts
      BY <2>2
    <3>2. AllStructural(disk.sums[3])' <=> AllStructural(disk.verdicts)
      BY <1>b, <3>1 DEF AllStructural, Class, Composed!AppraiseState
    <3>3. disk.java # None => (disk.java.all_passed <=> AllStructural(disk.java.verdicts))
      BY DEF FilesInv, SumsInv
    <3>4. AllStructural(disk.java.verdicts)' <=> AllStructural(disk.java.verdicts)
      BY <1>b, <2>2 DEF AllStructural, Class, Composed!AppraiseState
    <3> QED
      BY <2>2, <2>4, <3>1, <3>2, <3>3, <3>4 DEF SumsInv
  <2> QED
    BY <1>1, <1>2, <2>7, <2>8 DEF FilesInv
<1>7. CASE CheckSums
  <2>1. /\ pc = "sums" /\ UNCHANGED disk
        /\ pc' = IF SumsMatch THEN "java" ELSE "failed"
    BY <1>7 DEF CheckSums
  <2>2. SumsInv'
    BY <1>b, <2>1, SumsStay
  <2>3. /\ VerdictsMade(disk.verdicts) /\ disk.mutations = Rejections /\ disk.summary = TRUE
    BY <2>1 DEF FilesInv, RowsInv
  <2>4. VerdictsMade(disk.verdicts)'
    BY <1>b, <2>1, <2>3 DEF VerdictsMade, Class, Composed!AppraiseState
  <2>5. RowsInv'
    <3>1. CASE ~ SumsMatch
      BY <2>1, <3>1, RowsBegin DEF Ends
    <3>2. CASE SumsMatch
      BY <1>g, <2>1, <2>3, <2>4, <3>2 DEF RowsInv, Rejections, SumsMatch, Snapshot
    <3> QED
      BY <3>1, <3>2
  <2> QED
    BY <1>1, <1>2, <2>2, <2>5 DEF FilesInv
<1>8. CASE RunJava
  <2>1. PICK broken :
          Write("java", [verdicts |-> JavaBaseline(broken), mutations |-> JavaMutations({}),
                         all_passed |-> JavaPassed(JavaBaseline(broken), JavaMutations({}))],
                IF JavaPassed(JavaBaseline(broken), JavaMutations({}))
                  THEN "passed" ELSE "failed")
    BY <1>8 DEF RunJava
  <2>2. /\ pc = "java" /\ pc' \in Ends /\ disk'.sums = disk.sums
        /\ disk'.java.verdicts = JavaBaseline(broken)
        /\ disk'.java.all_passed = JavaPassed(JavaBaseline(broken), JavaMutations({}))
    BY <1>8, <1>a, <2>1 DEF RunJava, Write, Ends
  <2>3. /\ VerdictsMade(disk.verdicts) /\ disk.mutations = Rejections
        /\ disk.summary = TRUE /\ SumsMatch
    BY <2>2 DEF FilesInv, RowsInv
  <2>4. AllStructural(disk.verdicts)
    <3>1. disk.sums # None /\ disk.sums[6] = disk.summary /\ disk.sums[3] = disk.verdicts
      BY <2>3 DEF SumsMatch, Snapshot
    <3> QED
      BY <2>3, <3>1 DEF FilesInv, SumsInv
  <2>5. JavaPassed(JavaBaseline(broken), JavaMutations({}))
          <=> AllStructural(JavaBaseline(broken))
    BY <1>e, <1>f, <2>3, <2>4, JavaIsEarned
  <2>6. RowsInv'
    BY <2>2, RowsBegin
  <2>7. AllStructural(disk.java.verdicts)' <=> AllStructural(JavaBaseline(broken))
    BY <1>b, <2>2 DEF AllStructural, Class, Composed!AppraiseState
  <2>8. AllStructural(disk.sums[3])' <=> AllStructural(disk.sums[3])
    BY <1>b, <2>2 DEF AllStructural, Class, Composed!AppraiseState
  <2>9. SumsInv'
    BY <2>2, <2>5, <2>7, <2>8 DEF SumsInv, FilesInv
  <2> QED
    BY <1>1, <1>2, <2>6, <2>9 DEF FilesInv
<1> QED
  BY <1>3, <1>4, <1>5, <1>6, <1>7, <1>8

LEMMA FilesStep == IInv /\ FilesInv /\ [Next]_vars => FilesInv'
<1> SUFFICES ASSUME IInv, FilesInv, [Next]_vars PROVE FilesInv'
  OBVIOUS
<1>a. attempt \in Nat \ {0}
  BY DEF FilesInv, GeneratorInv
<1>1. CASE WritePolicy \/ StartRoot \/ PcrReset \/ PcrExtend \/ Quote \/ StopRoot
  BY <1>1, GeneratorSteps
<1>2. CASE CommandFails
  <2>1. pc' = "raised" /\ UNCHANGED <<corpus, generator, disk>> /\ attempt' = attempt
    BY <1>2 DEF CommandFails, generator
  <2>2. GeneratorInv'
    BY <2>1, GeneratorStays DEF Generating
  <2>3. OverlayInv' /\ SumsInv' /\ RowsInv'
    BY <1>a, <2>1, OverlayStays, SumsStay, RowsBegin DEF Ends
  <2> QED
    BY <2>2, <2>3 DEF FilesInv
<1>3. CASE WriteOverlay
  BY <1>3, WriteOverlayKeeps
<1>4. CASE \/ AppraiseBaseline \/ AppraiseMutations \/ Recompose \/ Summarise \/ CheckSums
           \/ RunJava
  BY <1>4, VerifierSteps
<1>5. CASE RunAgain
  <2>1. /\ pc' = "policy" /\ attempt' = attempt + 1 /\ root' = 0 /\ vectors' = {}
        /\ roots' = {} /\ UNCHANGED <<corpus, disk>>
    BY <1>5 DEF RunAgain
  <2>2. GeneratorInv'
    BY <1>a, <2>1, OverlayAssumption DEF GeneratorInv
  <2>3. OverlayInv' /\ SumsInv' /\ RowsInv'
    BY <1>a, <2>1, OverlayStays, SumsStay, RowsBegin DEF Generating
  <2> QED
    BY <2>2, <2>3 DEF FilesInv
<1>6. CASE VerifyAgain
  <2>1. /\ pc' = "baseline" /\ disk.overlay # None
        /\ UNCHANGED <<corpus, generator, disk>> /\ attempt' = attempt
    BY <1>6 DEF VerifyAgain, generator
  <2>2. GeneratorInv'
    BY <2>1, GeneratorStays DEF Generating
  <2>3. OverlayInv' /\ SumsInv'
    BY <1>a, <2>1, OverlayStays, SumsStay
  <2>4. disk'.policy = BuiltPolicy'
    BY <2>1, CorpusStays DEF IInv, DiskInv
  <2>5. RowsInv'
    BY <2>1, <2>3, <2>4 DEF RowsInv, OverlayInv
  <2> QED
    BY <2>2, <2>3, <2>5 DEF FilesInv
<1>7. CASE UNCHANGED vars
  <2>1. /\ UNCHANGED <<corpus, pc, attempt, root, next, vectors, roots, disk>>
    BY <1>7 DEF vars, generator
  <2>2. /\ \A k : VectorMade(attempt, k)' = VectorMade(attempt, k)
        /\ \A x : OverlayMade(x)' = OverlayMade(x)
        /\ BuiltPolicy' = BuiltPolicy
    BY <2>1, MadeStays, CorpusStays
  <2>3. GeneratorInv'
    BY <2>1, <2>2 DEF FilesInv, GeneratorInv
  <2>4. OverlayInv' /\ SumsInv'
    BY <1>a, <2>1, OverlayStays, SumsStay
  <2>5. /\ VerdictsMade(disk.verdicts)' <=> VerdictsMade(disk.verdicts)
        /\ Matches(disk.verdicts)' = Matches(disk.verdicts)
    BY <2>1 DEF VerdictsMade, Matches, Recomposed, LayersOf, Class, Composed!AppraiseState
  <2>6. SumsMatch' <=> SumsMatch
    BY <2>1 DEF SumsMatch, Snapshot
  <2>7. RowsInv'
    BY <2>1, <2>2, <2>5, <2>6 DEF FilesInv, RowsInv, Rejections
  <2> QED
    BY <2>3, <2>4, <2>7 DEF FilesInv
<1> QED
  BY <1>1, <1>2, <1>3, <1>4, <1>5, <1>6, <1>7 DEF Next

LEMMA FilesInvariance == Spec => []FilesInv
<1>1. Init => FilesInv
  BY FilesInit
<1>2. IInv /\ FilesInv /\ [Next]_vars => FilesInv'
  BY FilesStep
<1> QED
  BY <1>1, <1>2, OverlayInvariance, PTL DEF Spec

(* Every mutation of a representative of any root fails on its own merits, *)
(* for every corpus, order and number of roots.                            *)
THEOREM AllMutationsAreRejected == Spec => []MutationsAreRejected
<1>1. IInv /\ FilesInv => MutationsAreRejected
  <2> SUFFICES ASSUME IInv, FilesInv, disk.overlay # None, NEW r \in RootIds,
                      NEW m \in Mutations
               PROVE  Appraise(Mutated(disk.overlay, r, m), disk.policy, FALSE)
                        = "CRYPTOGRAPHIC_FAILURE"
    BY DEF MutationsAreRejected
  <2>1. disk.policy = BuiltPolicy /\ corpus \in Corpora
    BY DEF IInv, DiskInv, ProgressInv
  <2>2. PICK a : disk.overlay = OverlayMade(a)
    BY DEF FilesInv, OverlayInv
  <2> QED
    BY <2>1, <2>2, MadeMutationsFail
<1> QED
  BY <1>1, OverlayInvariance, FilesInvariance, PTL

(* A summary whose checksums match, and one of the Java program, say that  *)
(* everything passed exactly when every row has the structural class,      *)
(* whatever was run again over which files.                                *)
THEOREM AllSummariesAreEarned == Spec => []SummariesAreEarned
<1>1. FilesInv => SummariesAreEarned
  <2> SUFFICES ASSUME FilesInv PROVE SummariesAreEarned
    OBVIOUS
  <2>1. ASSUME SumsMatch
        PROVE  disk.summary <=> \A id \in Ids : disk.verdicts[id] = Class(id)
    <3>1. disk.sums # None /\ disk.sums[6] = disk.summary /\ disk.sums[3] = disk.verdicts
      BY <2>1 DEF SumsMatch, Snapshot
    <3> QED
      BY <3>1 DEF FilesInv, SumsInv, AllStructural
  <2> QED
    BY <2>1 DEF FilesInv, SumsInv, AllStructural, SummariesAreEarned
<1> QED
  BY <1>1, FilesInvariance, PTL
=============================================================================
