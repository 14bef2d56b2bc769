----------------------------- MODULE NativeState -----------------------------
(***************************************************************************)
(* The native overlay of the state layer: generate_vectors.py quotes one   *)
(* PCR per transaction under a few fresh software TPMs, verify_overlay.py  *)
(* appraises the saved quotes and mutations of them with                   *)
(* native_state_adapter.py and recomposes the saved rows, and              *)
(* IndependentVerifier.java does the appraisals over again.  run.sh runs   *)
(* the three in this order.                                                *)
(*                                                                         *)
(* A digest is the value it is taken of, and a PCR the sequence of what it *)
(* was extended with since its reset.  A blob with a flipped bit is a blob *)
(* that is not intact.  The fields of an envelope that are the same in     *)
(* every one of them (its profile and its PCR index) are left out.         *)
(***************************************************************************)
EXTENDS Naturals, Sequences, FiniteSets

CONSTANTS
  None,           \* a file that was never written
  Ids,            \* 1..n, the transactions in the order of their identifiers
  Order,          \* the sequence they have in the corpus
  ROOTS,          \* how many software TPMs are started, one after the other
  Offset,         \* of the alternate of the first representative: 37
  DecisionTime,
  FarFuture,      \* the expiry that window_substitution writes
  Digests,
  Corpora,        \* the corpora considered: Ids -> the transaction
  MaxAttempts,    \* bound: how often generate_vectors.py is run
  MaxLate         \* bound: checkquotes of one script that do not come back

(* The appraisal of the state and the composition rule. *)
Composed == INSTANCE TransactionLayers WITH
  Principals <- {}, Roles <- {}, Items <- {}, Currencies <- {}, base <- None,
  EffectTime <- 0, Profiles <- {}, Nonces <- {}, Anchor <- None, PreseenNonces <- {}

(* A transaction: its attestation result, and the results of its other     *)
(* layers and of the binding in the saved row.                             *)
Attestation ==
  [status : {"affirming", "contraindicated"}, issued_at : Nat, expires_at : Nat,
   reference_digest : Digests, observed_digest : Digests]

Results ==
  [policy : STRING, evidence : STRING, authority : STRING, gate : STRING,
   measurement : STRING, binding : STRING]

Corpus == [Ids -> [attestation : Attestation, others : Results]]

(* The corpus lists every identifier once, and the roots share it equally: *)
(* 104 transactions under eight roots.                                     *)
ASSUME OverlayAssumption ==
  /\ ROOTS \in Nat \ {0}
  /\ Order \in Seq(Ids)
  /\ Ids = 1..Len(Order)
  /\ Ids = {Order[k] : k \in 1..Len(Order)}
  /\ \A j, k \in 1..Len(Order) : Order[j] = Order[k] => j = k
  /\ Len(Order) % ROOTS = 0
  /\ Len(Order) > 1
  /\ Offset \in Nat
  /\ DecisionTime \in Nat \ {0}
  /\ Corpora \subseteq Corpus
  /\ FarFuture \in Nat
  /\ \A c \in Corpora : \A i \in Ids : c[i].attestation.expires_at # FarFuture
  /\ None \notin Digests

VARIABLES
  corpus,       \* corpus.json and the saved rows, which nothing here writes
  pc,           \* the statement of run.sh's scripts to come
  attempt,      \* the current run of generate_vectors.py
  root,         \* whose software TPM runs
  next,         \* the position in the corpus of the transaction it quotes
  pcr,          \* PCR 16 of that TPM
  vectors, roots,   \* the generator's lists
  disk          \* the files of the overlay

generator == <<attempt, root, next, pcr, vectors, roots>>
vars == <<corpus, pc, generator, disk>>

-----------------------------------------------------------------------------
(* The profile.                                                            *)

Class(id) == Composed!AppraiseState(corpus[id].attestation)

(* Mutant: equal digests of two transactions are one measurement. *)
SharedMeasurement(id, digest) == <<0, digest>>
DerivedMeasurement(id, digest) == <<id, digest>>

Observed(id) == DerivedMeasurement(id, corpus[id].attestation.observed_digest)

(* The capsule covers the transaction and its subjects, which the corpus   *)
(* fixes, and the challenge the transaction alone: both are its identifier.*)
BuiltPolicy ==
  [source_corpus |-> "pinned",
   reference |-> [id \in Ids |->
                    DerivedMeasurement(id, corpus[id].attestation.reference_digest)],
   denied |-> {Observed(id) : id \in {i \in Ids : Class(i) = "CONTRAINDICATED"}},
   challenge |-> [id \in Ids |-> id],
   capsule |-> [id \in Ids |-> id]]

EnvelopeOf(id, policy) ==
  [source_corpus |-> "pinned",
   transaction_id |-> id,
   capsule_id |-> policy.capsule[id],
   observed_measurement |-> Observed(id),
   issued_at |-> corpus[id].attestation.issued_at,
   expires_at |-> corpus[id].attestation.expires_at,
   challenge |-> policy.challenge[id]]

Transcript(envelope) == envelope

ExpectedPcr(measurement) == <<measurement>>

(* tpm2_quote: the message names the qualifying data and the PCR, and the  *)
(* signature the key and the message.                                      *)
QuoteOf(ak, qualifying, value) ==
  LET message == [qualifying |-> qualifying, pcr |-> value, intact |-> TRUE]
  IN  [quote_msg |-> message,
       quote_sig |-> [key |-> ak, over |-> message, intact |-> TRUE],
       pcr_bin |-> [value |-> value, intact |-> TRUE]]

(* tpm2_checkquote returns 0, and prints this value. *)
CheckQuote(v) ==
  /\ v.quote_sig = [key |-> v.ak_pub, over |-> v.quote_msg, intact |-> TRUE]
  /\ v.quote_msg.qualifying = Transcript(v.envelope)
  /\ v.pcr_bin = [value |-> v.quote_msg.pcr, intact |-> TRUE]

PcrMatch(v) ==
  v.pcr_bin = [value |-> ExpectedPcr(v.envelope.observed_measurement), intact |-> TRUE]

(* The bindings of both appraisals; broken: the check raised or never came *)
(* back, and its output is not looked at.                                  *)
Bindings(v, policy, broken) ==
  [source_corpus |-> v.envelope.source_corpus = policy.source_corpus,
   challenge |-> policy.challenge[v.envelope.transaction_id] = v.envelope.challenge,
   subject |-> policy.capsule[v.envelope.transaction_id] = v.envelope.capsule_id,
   native_quote |-> ~ broken /\ CheckQuote(v),
   pcr_measurement |-> ~ broken /\ PcrMatch(v)]

Failures(bindings) == {b \in DOMAIN bindings : ~ bindings[b]}

WithinWindow(e) == e.issued_at <= DecisionTime /\ DecisionTime <= e.expires_at

Ladder(failures, e, policy) ==
  IF failures # {} THEN "CRYPTOGRAPHIC_FAILURE"
  ELSE IF e.observed_measurement \in policy.denied THEN "CONTRAINDICATED"
  ELSE IF ~ WithinWindow(e) THEN "STALE"
  ELSE IF e.observed_measurement # policy.reference[e.transaction_id]
    THEN "REFERENCE_MISMATCH"
  ELSE "PASS"

Appraise(v, policy, broken) ==
  Ladder(Failures(Bindings(v, policy, broken)), v.envelope, policy)

(* The Java appraisal also holds the key to the root that is listed. *)
RootPinned(v, listed) == \E r \in listed : r.root = v.root /\ r.ak_pub = v.ak_pub

JavaAppraise(v, policy, listed, broken) ==
  Ladder(Failures(Bindings(v, policy, broken))
           \cup (IF RootPinned(v, listed) THEN {} ELSE {"root_ak"}),
         v.envelope, policy)

-----------------------------------------------------------------------------
(* The mutations of one vector of each root.                               *)

Mutations ==
  {"quote_message_flip", "signature_flip", "pcr_blob_flip", "challenge_replay",
   "transaction_substitution", "corpus_hash_substitution", "measurement_substitution",
   "window_substitution"}

Mutate(v, mutation, alternate) ==
  CASE mutation = "quote_message_flip" -> [v EXCEPT !.quote_msg.intact = FALSE]
    [] mutation = "signature_flip" -> [v EXCEPT !.quote_sig.intact = FALSE]
    [] mutation = "pcr_blob_flip" -> [v EXCEPT !.pcr_bin.intact = FALSE]
    [] mutation = "challenge_replay" ->
         [v EXCEPT !.envelope.challenge = alternate.envelope.challenge]
    [] mutation = "transaction_substitution" ->
         [v EXCEPT !.envelope.transaction_id = alternate.envelope.transaction_id]
    [] mutation = "corpus_hash_substitution" ->
         [v EXCEPT !.envelope.source_corpus = "zeros"]
    [] mutation = "measurement_substitution" ->
         [v EXCEPT !.envelope.observed_measurement = alternate.envelope.observed_measurement]
    [] mutation = "window_substitution" -> [v EXCEPT !.envelope.expires_at = FarFuture]

VectorOf(overlay, id) ==
  CHOOSE v \in overlay.vectors : v.envelope.transaction_id = id

(* The first vector of a root, in the order of the identifiers. *)
Representative(overlay, r) ==
  CHOOSE v \in overlay.vectors :
    /\ v.root = r
    /\ \A w \in overlay.vectors :
         w.root = r => v.envelope.transaction_id <= w.envelope.transaction_id

(* Mutant: the alternate may be the vector itself. *)
PlainAlternate(overlay, r) ==
  VectorOf(overlay, 1 + ((r + Offset) % Cardinality(overlay.vectors)))

Alternate(overlay, r) ==
  LET nth(k) == VectorOf(overlay, 1 + ((r + k) % Cardinality(overlay.vectors)))
  IN  IF nth(Offset) = Representative(overlay, r) THEN nth(Offset + 1) ELSE nth(Offset)

Mutated(overlay, r, mutation) ==
  Mutate(Representative(overlay, r), mutation, Alternate(overlay, r))

-----------------------------------------------------------------------------
(* generate_vectors.py.                                                    *)

RootIds == 0..(ROOTS - 1)

Ends == {"passed", "failed", "raised"}

NoFiles ==
  [policy |-> None, overlay |-> None, verdicts |-> None, mutations |-> None,
   composed |-> None, summary |-> None, sums |-> None, java |-> None]

Init ==
  /\ corpus \in Corpora
  /\ pc = "policy"
  /\ attempt = 1
  /\ root = 0
  /\ next = 0
  /\ pcr = <<>>
  /\ vectors = {}
  /\ roots = {}
  /\ disk = NoFiles

WritePolicy ==
  /\ pc = "policy"
  /\ disk' = [disk EXCEPT !.policy = BuiltPolicy]
  /\ pc' = "start"
  /\ UNCHANGED <<corpus, generator>>

(* The transactions of a root are every ROOTS-th of the corpus. *)
CountOf(r) == Cardinality({k \in 1..Len(Order) : (k - 1) % ROOTS = r})

Ak == <<attempt, root>>

StartRoot ==
  /\ pc = "start"
  /\ root < ROOTS
  /\ pcr' = <<>>
  /\ roots' = roots \cup {[root |-> root, ak_pub |-> Ak, transactions |-> CountOf(root)]}
  /\ next' = root + 1
  /\ pc' = "reset"
  /\ UNCHANGED <<corpus, attempt, root, vectors, disk>>

Quoting == next <= Len(Order)

PcrReset ==
  /\ pc = "reset"
  /\ Quoting
  /\ pcr' = <<>>
  /\ pc' = "extend"
  /\ UNCHANGED <<corpus, attempt, root, next, vectors, roots, disk>>

PcrExtend ==
  /\ pc = "extend"
  /\ pcr' = Append(pcr, Observed(Order[next]))
  /\ pc' = "quote"
  /\ UNCHANGED <<corpus, attempt, root, next, vectors, roots, disk>>

Quote ==
  /\ pc = "quote"
  /\ LET envelope == EnvelopeOf(Order[next], disk.policy)
         quote == QuoteOf(Ak, Transcript(envelope), pcr)
     IN  vectors' = vectors \cup
           {[root |-> root, expected |-> Class(Order[next]), envelope |-> envelope,
             ak_pub |-> Ak, quote_msg |-> quote.quote_msg, quote_sig |-> quote.quote_sig,
             pcr_bin |-> quote.pcr_bin]}
  /\ next' = next + ROOTS
  /\ pc' = "reset"
  /\ UNCHANGED <<corpus, attempt, root, pcr, roots, disk>>

(* finally: the software TPM is stopped. *)
StopRoot ==
  /\ pc = "reset"
  /\ ~ Quoting
  /\ root' = root + 1
  /\ pc' = "start"
  /\ UNCHANGED <<corpus, attempt, next, pcr, vectors, roots, disk>>

(* A command of start_root or of the loop returns another code than 0. *)
CommandFails ==
  /\ \/ pc = "start" /\ root < ROOTS
     \/ pc \in {"extend", "quote"}
     \/ pc = "reset" /\ Quoting
  /\ pc' = "raised"
  /\ UNCHANGED <<corpus, generator, disk>>

(* The metadata is written last, and asking swtpm for its version may fail. *)
WriteOverlay ==
  /\ pc = "start"
  /\ root = ROOTS
  /\ disk' = [disk EXCEPT !.overlay = [vectors |-> vectors, roots |-> roots]]
  /\ pc' \in {"baseline", "raised"}
  /\ UNCHANGED <<corpus, generator>>

-----------------------------------------------------------------------------
(* verify_overlay.py.                                                      *)

SubsetsUpTo(S, n) == {T \in SUBSET S : Cardinality(T) <= n}

IdsOf(overlay) == {v.envelope.transaction_id : v \in overlay.vectors}
RootsOf(overlay) == {v.root : v \in overlay.vectors}

Write(file, content, step) ==
  /\ disk' = [disk EXCEPT ![file] = content]
  /\ pc' = step
  /\ UNCHANGED <<corpus, generator>>

AppraiseBaseline ==
  /\ pc = "baseline"
  /\ \E late \in SubsetsUpTo(IdsOf(disk.overlay), MaxLate) :
       Write("verdicts",
             [id \in IdsOf(disk.overlay) |->
                Appraise(VectorOf(disk.overlay, id), disk.policy, id \in late)],
             "mutations")

AppraiseMutations ==
  /\ pc = "mutations"
  /\ \E late \in SubsetsUpTo(RootsOf(disk.overlay) \X Mutations, MaxLate) :
       Write("mutations",
             [m \in RootsOf(disk.overlay) \X Mutations |->
                Appraise(Mutated(disk.overlay, m[1], m[2]), disk.policy, m \in late)],
             "recompose")

LayersOf(id, state) ==
  [policy |-> corpus[id].others.policy, evidence |-> corpus[id].others.evidence,
   state |-> state, authority |-> corpus[id].others.authority,
   measurement |-> corpus[id].others.measurement]

(* compose() of composition_rule.py, given the binding of the subjects. *)
Recomposed(id, state) ==
  LET layers == LayersOf(id, state)
      failed == Composed!FailedLayers(layers)
      binding == corpus[id].others.binding
  IN  [verdict |-> Composed!Verdict(failed = {} /\ binding = "PASS"),
       first_rejecting_gate |->
         Composed!FirstGate(layers, corpus[id].others.gate, binding),
       failed_layers |-> failed, layer_results |-> layers, binding_result |-> binding]

(* STATE_GATES has no gate for CRYPTOGRAPHIC_FAILURE, and is asked for it  *)
(* when the layers before the state pass.                                  *)
NoGate(id) ==
  /\ disk.verdicts[id] = "CRYPTOGRAPHIC_FAILURE"
  /\ corpus[id].others.policy = "PASS"
  /\ corpus[id].others.evidence = "PASS"

(* The exact matches, or no file: the KeyError comes before it is written. *)
Recompose ==
  /\ pc = "recompose"
  /\ IF \E id \in Ids : NoGate(id)
       THEN pc' = "raised" /\ UNCHANGED <<corpus, generator, disk>>
       ELSE Write("composed",
                  [id \in Ids |-> Recomposed(id, disk.verdicts[id])
                                    = Recomposed(id, Class(id))],
                  "summary")

AllPassed ==
  /\ Cardinality(disk.overlay.vectors) = Len(Order)
  /\ Cardinality(disk.overlay.roots) = ROOTS
  /\ Cardinality({r.ak_pub : r \in disk.overlay.roots}) = ROOTS
  /\ Cardinality({v.quote_msg : v \in disk.overlay.vectors}) = Len(Order)
  /\ Cardinality({v.envelope.challenge : v \in disk.overlay.vectors}) = Len(Order)
  /\ \A v \in disk.overlay.vectors :
       disk.verdicts[v.envelope.transaction_id] = v.expected
  /\ Cardinality(DOMAIN disk.mutations) = ROOTS * Cardinality(Mutations)
  /\ \A m \in DOMAIN disk.mutations : disk.mutations[m] = "CRYPTOGRAPHIC_FAILURE"
  /\ \A id \in Ids : disk.composed[id]

(* Mutant: SHA256SUMS lists what the verifier read, and its summary. *)
WithoutRows(files) == <<files.policy, files.overlay, files.summary>>

(* The files that SHA256SUMS lists. *)
Snapshot(files) ==
  <<files.policy, files.overlay, files.verdicts, files.mutations, files.composed,
    files.summary>>

Summarise ==
  /\ pc = "summary"
  /\ LET summed == [disk EXCEPT !.summary = AllPassed]
     IN  disk' = [summed EXCEPT !.sums = Snapshot(summed)]
  /\ pc' = IF AllPassed THEN "sums" ELSE "failed"
  /\ UNCHANGED <<corpus, generator>>

SumsMatch == disk.sums # None /\ disk.sums = Snapshot(disk)

CheckSums ==
  /\ pc = "sums"
  /\ pc' = IF SumsMatch THEN "java" ELSE "failed"
  /\ UNCHANGED <<corpus, generator, disk>>

-----------------------------------------------------------------------------
(* IndependentVerifier.java.                                               *)

JavaBaseline(broken) ==
  [id \in IdsOf(disk.overlay) |->
     JavaAppraise(VectorOf(disk.overlay, id), disk.policy, disk.overlay.roots, id \in broken)]

JavaMutations(broken) ==
  [m \in RootsOf(disk.overlay) \X Mutations |->
     JavaAppraise(Mutated(disk.overlay, m[1], m[2]), disk.policy, disk.overlay.roots,
                  m \in broken)]

Balanced(overlay) ==
  \A r \in overlay.roots :
    /\ r.transactions * ROOTS = Len(Order)
    /\ Cardinality({v \in overlay.vectors : v.root = r.root}) * ROOTS = Len(Order)

(* The assertions on the files, and those on the appraisals. *)
JavaPassed(verdicts, mutations) ==
  /\ Cardinality(disk.overlay.vectors) = Len(Order)
  /\ Cardinality(disk.overlay.roots) = ROOTS
  /\ Balanced(disk.overlay)
  /\ Cardinality({v.ak_pub : v \in disk.overlay.vectors}) = ROOTS
  /\ \A v \in disk.overlay.vectors : RootPinned(v, disk.overlay.roots)
  /\ Cardinality({v.envelope.challenge : v \in disk.overlay.vectors}) = Len(Order)
  /\ Cardinality({v.quote_msg : v \in disk.overlay.vectors}) = Len(Order)
  /\ \A v \in disk.overlay.vectors : verdicts[v.envelope.transaction_id] = v.expected
  /\ verdicts = disk.verdicts
  /\ Cardinality(DOMAIN mutations) = ROOTS * Cardinality(Mutations)
  /\ \A m \in DOMAIN mutations : mutations[m] = "CRYPTOGRAPHIC_FAILURE"
  /\ mutations = disk.mutations

(* It has no time limit, but the process it starts may not start. *)
RunJava ==
  /\ pc = "java"
  /\ \E broken \in SubsetsUpTo(IdsOf(disk.overlay), MaxLate) :
       LET verdicts == JavaBaseline(broken)
           mutations == JavaMutations({})
           passed == JavaPassed(verdicts, mutations)
       IN  Write("java", [verdicts |-> verdicts, mutations |-> mutations,
                          all_passed |-> passed],
                 IF passed THEN "passed" ELSE "failed")

-----------------------------------------------------------------------------
(* run.sh, and verify_overlay.py alone over the files that are there.      *)

RunAgain ==
  /\ pc \in Ends
  /\ attempt < MaxAttempts
  /\ attempt' = attempt + 1
  /\ root' = 0
  /\ vectors' = {}
  /\ roots' = {}
  /\ pc' = "policy"
  /\ UNCHANGED <<corpus, next, pcr, disk>>

VerifyAgain ==
  /\ pc \in Ends
  /\ disk.overlay # None
  /\ pc' = "baseline"
  /\ UNCHANGED <<corpus, generator, disk>>

Next ==
  \/ WritePolicy \/ StartRoot \/ PcrReset \/ PcrExtend \/ Quote \/ StopRoot
  \/ CommandFails \/ WriteOverlay
  \/ AppraiseBaseline \/ AppraiseMutations \/ Recompose \/ Summarise \/ CheckSums
  \/ RunJava \/ RunAgain \/ VerifyAgain

Spec == Init /\ [][Next]_vars

-----------------------------------------------------------------------------
(* Every vector of the overlay on disk has, under the policy on disk, the  *)
(* class that the structural appraisal gives its transaction, whichever    *)
(* program looks: the signature, the window and the PCR lose nothing of    *)
(* what state_adapter.py reads, and an overlay that outlives a generator   *)
(* that raised is as good under the policy that this one has rewritten.    *)
SavedVectorsAppraise ==
  disk.overlay # None =>
    \A v \in disk.overlay.vectors :
      LET class == Class(v.envelope.transaction_id)
      IN  /\ v.expected = class
          /\ Appraise(v, disk.policy, FALSE) = class
          /\ JavaAppraise(v, disk.policy, disk.overlay.roots, FALSE) = class

(* Every mutation of every representative changes something that one of    *)
(* the bindings covers, so a row that says it was rejected would say so    *)
(* without a checkquote that did not come back.                            *)
MutationsAreRejected ==
  disk.overlay # None =>
    \A r \in RootIds, m \in Mutations :
      Appraise(Mutated(disk.overlay, r, m), disk.policy, FALSE) = "CRYPTOGRAPHIC_FAILURE"

(* As long as its checksums match the files, the summary says all_passed   *)
(* exactly when every row on disk has the structural class; and an         *)
(* all_passed of the Java program says that of its own rows.  A summary    *)
(* left over by an earlier run does not pass for one of these rows.        *)
SummariesAreEarned ==
  /\ SumsMatch =>
       (disk.summary <=> \A id \in Ids : disk.verdicts[id] = Class(id))
  /\ disk.java # None =>
       (disk.java.all_passed <=> \A id \in Ids : disk.java.verdicts[id] = Class(id))
=============================================================================
