# Verification of the subject-bound evidence composition artifact

The repository is a research artifact: a set of laboratories that decide whether an
effect may be taken on the strength of composed evidence (delegated authority, current
status, appraised state, policy, measurements) and that show where weaker compositions
go wrong. This directory holds TLA+ models of the laboratories' own logic, TLC
configurations that check them, and TLAPS proofs.

`V4` stands for `src/masters-thesis-radar/research-factory-v4-2026-07-27`, `V3` for
`src/masters-thesis-radar/research-factory-v3-2026-07-25`.

## 1. Inventory

| Component | State | Operations | Hard behaviour |
|---|---|---|---|
| Containerised durable revocation, `V4/labs/containerized-durable-revocation` (`container_service.py`, `fault_proxy.py`, `run_matrix.py`) | SQLite tables `credentials`, `events`, `decisions`, `effects`, shared by three containers | `initialize`, `status`, `revoke`, `commit` (guarded or not), each a `BEGIN IMMEDIATE` transaction in a handler thread; the proxy's `forward`; the runner's requests and retries | revocation racing commit on another instance, lost requests and responses, client and proxy timeouts with the handler still running, lock timeouts, container stops, cross-instance retries |
| Process-isolated revocation service, `V4/labs/distributed-revocation-service` (`services.py`, `run_experiment.py`) | the same store without `decisions`; the runner's trace | `execute_case` in four profiles, seven placements, two faults; contender processes; `fire_and_abort`; `restart_effect`; `finalize` | stale status between read and commit, cache age at the TTL, simultaneous contenders, restart between commit and retry, waits that run out |
| Delegation-path verifier, `V4/labs/protocol-valid-unauthorized` (`verify_delegation_paths.py`, `oracle_delegation_paths.sql`) | principal, role and scope delegated so far | `evaluate`: protocol, every edge, action, effect; `build_case`, `apply_mutation`; the SQL oracle | order of the checks with several faults at once, scope carried from edge to edge, stage numbering |
| Exhaustive composition model, `V4/labs/formal-composition-modelcheck/CompositionModelCheck.java` | none | enumerates Boolean gates, bindings and revocation schedules | the predicates it states are what the services must satisfy |
| Composition rule, `V4/labs/composed-transaction-corpus` (`composition_rule.py`, `state_adapter.py`, `oracle.sql`, `verify_transactions.py`) | the results of the transaction in hand, its saved row | five layers evaluated in turn, `subjects_of`, `bind`, `first_gate`, `compose`, the baselines, and the SQL twin over the saved rows | layers valid on their own but bound to different subjects; evaluation order against reporting order; two implementations of one ladder |
| Corpus builder and scripts, `V4/labs/composed-transaction-corpus` (`build_corpus.py`, `verify_transactions.py`, `run_sql_oracle.py`, `run.sh`) | the corpus, the rows, summaries and checksums of the laboratory; in each script what it has read and made of it | assemble transactions from the siblings' files and label them, evaluate them anew and summarise, recompose by query, check the checksums | scripts started by hand between those of `run.sh`, scripts that stop half-way, siblings edited between two scripts, summaries of an earlier run |
| Live revocation service, `V4/labs/live-revocation-service` (`run_live_races.py`, `verify_saved_results.py`) | a credential table and an event index under one lock; the suite's rows | `read`, `revoke`, `guarded_commit`, `unguarded_commit`; `execute_case` in four profiles and six placements, two threads released from a barrier; `finalize`, the verdict of `main` | the threads' order, answers collected in another order than they were given, cache age at the TTL, calls that time out while their handler still runs |
| Independent labellers, `V4/companions/independent-evaluator`, `mutation-tests`, `multifault-tests` | packet, labelled outputs, frozen hashes, a measurement cache in each program | two programs label the five layers with rules; generators put faults into a passing transaction; freeze, compare | several faults in one transaction, order of the rules in two programs, caches with different keys, scripts run again in any order |
| Native state overlay, `V4/labs/native-state-transaction-overlay` (`generate_vectors.py`, `native_state_adapter.py`, `verify_overlay.py`, `independent-java/IndependentVerifier.java`, `run.sh`) | one PCR of a software TPM, the vectors, the files of the overlay | start a TPM, reset, extend, quote for each transaction; appraise, mutate, recompose, summarise; appraise again in Java | a command failing anywhere, checks that do not come back, files left by an earlier run |
| Prospective races, policy/evidence replay, measurement metamorphics (`V4/labs/prospective-revocation-races`, `V4/labs/policy-version-evidence-replay`, `V3/labs/safe-metric-metamorphics`) | recorded snapshots | ordered gates | order and boundaries of gates |
| Hardware TPM companion, `src/release-tools/hardware-tpm-companion-2026-07-28` | a run's work directory, public stage, censuses and quotes; the TPM's transient slots; the output path | `execute_hardware`: create keys, quote and verify each transaction, try the mutations, clean up, publish | a command failing or timing out anywhere, the clean-up included; other software and other runs on the same TPM and output path; a kill |

How they interact: the containers and processes of a revocation lab share one SQLite
database and otherwise only answer HTTP requests; the fault proxy stands between the
runner and `effect-a`. The composition rule consumes the verdicts of the authority
verifier and of the state adapter and binds them to one subject; the corpus builder
chooses the artefacts it is applied to and the labels it is held to. The native overlay
replaces its state layer by quotes and composes again; the labellers redo its layers
without its code, and the mutation corpora compare them. The exhaustive model
states, without running anything, what the revocation labs then exhibit.

What makes the components correct: a guarded effect is decided once, at one instant,
against the status of that instant, and everybody who asks hears that decision; a weak
profile is fooled exactly by a revocation between the read it relies on and its commit;
authority never widens along a delegation path, and two independent implementations of
a rule name the same first failing gate, also for mutated transactions; a saved quote
appraises to the class its transaction has structurally, and a summary is about the rows
beside it; a run that passes has earned it on the files as they are; what a hardware run publishes is complete, is what
the TPM signed for it, and leaves the TPM as it was found.

Not modelled, on purpose: signatures (every response is signed and verified with one
fixed key; no property here depends on a forged one), health probes, latencies, corpora
and recorded evidence, figures, adapters that parse other projects' artefacts. What is
left is, per part:

- *Cross-ecosystem typed transfer*, *corpus verifier and native adapters*, *native runtime
  attestation*: one pass over recorded files of other projects with a digest comparison
  per field. No state, no order, nothing that a test of one file does not show.
- *Prospective revocation races*: one ordered gate over recorded snapshots. It could be
  modelled like the state layer; it is next in the plan.
- *Figures, bootstrap sweep, measurement metamorphics*: numerical code; only the order of
  the checks on its results is modelled (`EvaluateMeasurement`).
- *Rest of the TPM companion*: a static audit of source text that runs no command.

`PROJECT.json` lists each part with its reason.

## 2. Modules

| Module | Models |
|---|---|
| `AtomicDecision` | the promise of a revocation service: `Enroll`, `Withdraw`, `Decide` and `Hear`, without tables, instances or messages |
| `ContainerRevocation` | the containerised lab; implements `AtomicDecision` |
| `ContainerRevocationMC` | two sets of clients: free races, and the runner's script |
| `ContainerRevocationProofs` | the proofs about it |
| `RevocationProfiles` | one case of the process-isolated lab; implements `AtomicDecision` too |
| `RevocationProfilesMC` | the ages of the cached status |
| `RevocationProfilesProofs` | the proofs about it |
| `DelegationRules` | a delegation path, what an edge, an action or an effect of it may fail and in which order: what the verifier and the labellers share |
| `DelegationPaths` | the walk of the authority verifier, and the SQL oracle as a query; extends `DelegationRules` |
| `DelegationPathsMC` | the corpus: exact paths and paths with one or two mutations |
| `CompositionRule` | the binding, the gate ladder and the majority, and their SQL twins: what verifier, builder and query share |
| `TransactionLayers` | a transaction's artefacts and what the evaluators of the policy, evidence, measurement and state layers make of them; extends `DelegationRules` and `CompositionRule` |
| `ComposedTransaction` | one transaction of the composed verifier, with `DelegationPaths` as its authority layer and the layers of `TransactionLayers`, and the SQL query over the row it saves |
| `ComposedTransactionMC` | an all-valid transaction and its variants, also with every path of `DelegationPathsMC` |
| `ComposedTransactionProofs` | the proofs about the walk, the transaction and the labels of `LabelLadder` |
| `ComposedCorpus` | the corpus builder, the scripts of `run.sh` and their files; uses `CompositionRule` |
| `ComposedCorpusMC` | the repository's tables and artefacts, and edits of them |
| `ComposedCorpusProofs` | the proofs about it |
| `LabelRules` | the rules of the two labellers; extends `TransactionLayers` |
| `LabelLadder` | the labels of one transaction beside what the verifier saves of it; extends `ComposedTransaction` and `LabelRules` |
| `LabelCorpus` | the fault corpora, the labellers run over them, freeze and comparison; extends `LabelRules` |
| `LabelCorpusMC` | two bases, the single-fault corpus, pairs and larger sets of faults |
| `LabelCorpusProofs` | the proofs about the corpora, from any base and in any order of the scripts |
| `NativeState` | the generator, both appraisals and the summaries of the native overlay; uses the operators of `TransactionLayers` |
| `NativeStateMC` | four transactions under two software TPMs |
| `NativeStateProofs` | the proofs about it |
| `LiveRevocation` | the whole suite of the in-process lab; implements `AtomicDecision` |
| `LiveRevocationMC` | the ages of the cached status |
| `LiveRevocationProofs` | the proofs about it |
| `TpmCompanion` | runs of the hardware TPM companion on one TPM and one output path |
| `TpmCompanionMC` | one run alone with the mutation plan; two runs that share |
| `TpmCompanionProofs` | the proofs about it |

### ContainerRevocation

A request (a *call*) has a server side and a client side that part company: the client
may fail while the handler goes on. `server` goes `idle`, (`proxied`), `queued`, `writing`,
`finished`, `closed`; `client` goes `unsent`, `waiting`, `answered` or `failed`. Each store
operation is two steps. `Begin` is `BEGIN IMMEDIATE` with the reads of the transaction: it
needs the write lock (`writer = NoCall`) and remembers what it read in `held`. `Initialize`,
`StatusRead`, `Revoke`, `Replay`, `Commit` and `Reject` make the writes, append the event and
release the lock. The model does not assume that what was read is still true when it
is used: that is the invariant `ReadsAreCurrent`, and it fails if `Begin` does not wait
for the lock. `Respond` is `send_signed` with the proxy's relay; `DropRequest` and the
`drop_after_forward` case of `Respond` are the proxy's faults; `GiveUp` is the 20 s timeout
of the client or the 15 s timeout of the proxy; `LockTimeout` is `busy_timeout`; `Stop` is a
container going down, with its threads and any open transaction, and coming back.

A call can be made at any time after the calls it `needs` have been answered, and a
retry once the first attempt has returned or failed, as the runner does. The key is derived from the
case in `run_matrix.py`, so that calls with one key agree on the credential and the
profile; the service itself does not check this. `KeyAssumption` states it.

### RevocationProfiles

`pc` follows `execute_case` line by line; each request the runner waits for is one step with
the transaction it causes, because the transactions are atomic (which is what
`ContainerRevocation` shows of the same `BEGIN IMMEDIATE` code) and nobody else uses the
case's credential. What the runner does not wait for runs on its own: the two contender
processes of a simultaneous case and the aborted request of a fault case (`flight`).
`WaitRunsOut` is the 10 s poll or the 15 s queue running out: the runner raises, the
requests in flight may still be served. Time is the age of the cached status at the
decision: any member of `Ages`, but at least `ExpirySleep` when the case slept.

`VerdictFollowsSchedule` states the predicates of `CompositionModelCheck.java` over the positions
of the read, the revocation and the commit in the durable log, and holds the runner's
verdict to them.

### DelegationPaths

`evaluate()` is a walk: `CheckProtocol`, `CheckEdge` once per edge, `CheckAction`, `CheckEffect`.
`EdgeFaults`, `ActionFaults` and `EffectFaults` (in `DelegationRules`) are the sets of failing gates, and the statement
order of the code is a sequence of gates (`EdgeOrder`, ...): `DenyFirst` denies with the first
gate in the order that fails. The oracle is a query: `Violated(n)` is the set of all gates
violated at stage `n` whatever the other stages say, each edge joined with the row before
it, and `Priority` is the query's priority column. `FirstViolation` says that the two agree.
The oracle looks up role transitions under the edge's own `from_role` where the walk uses the
role delegated so far; the two differ only when the lineage has failed, which both rank
first. The conditions on the action and the effect read alike in both implementations
and are shared by both models.

### ComposedTransaction

`at` follows the loop of `verify_transactions.py` for one transaction: policy, evidence,
measurement, authority, state, subjects, compose. The order matters because it is not the
order in which a denial is reported (`EVALUATION_ORDER`). The authority layer is the walk of
`DelegationPaths`, which this module extends: `WalkAuthority` takes the walk's own steps, and its
`verdict` and `gate` are the layer's. Each layer is an operator of `TransactionLayers` on its artefact
(`EvaluatePolicy`, `EvaluateEvidence`, `EvaluateMeasurement`, `AppraiseState`). A digest that covers
an object is the object (`PolicyBody`, compared with `Anchor`); a dataset is its mean and the
lower bound the bootstrap gives; the constant `None` stands for a missing field, and a
missing time, which the code reads as the empty string, for a time before every other.
`SubjectsOf` reads the two subject records out of the same artefacts, `Bind` joins them, and
`Compose` gives the saved row with the six baselines of the loop (the policy lab's `fail_open`
is not among them).

In `CompositionRule` the twin is written as the query is: `SqlWhen` and `SqlLadder` are the lines of its two
`CASE` expressions and the first that holds gives the value. The granted lists reach the query
as strings with bars and are never NULL, as `delimited` makes them.

Two limits of the code show in the model and no property hides them: the measurement
fixture supplies both its profile and the digest the profile is held to, so the binding
ties the profile's identifier to the policy and nothing else; and the nonces already seen
are a constant, since no transaction adds its own.

### ComposedCorpus

`pc` is the statement to come of the script that runs, `held` what that script has in memory, `files`
what is on disk, and `chain` whether `run.sh` has started it. The scripts meet only in files:
`BuildRead` and `BuildWrite` are `build_corpus.py`; `VerifyRead`, `Summarise`, `WriteVerdicts`,
`WriteSummary` and `WriteSums` are `verify_transactions.py`; `OracleRead` and the three writes after it
are `run_sql_oracle.py`; `CheckSums` is the two `sha256sum -c`. Each of the three can also be started
by hand (`StartByHand`). `Fail` is a script that raises or is killed at any statement, or
one of the tests that `run.sh` starts before it; as `write_text` truncates first, the file being
written may be left empty (`Emptied`). `Exit` is `set -e`. `Edit` is somebody editing a sibling's file
at any moment, and `touched` records an edit that fell into a script of the last `run.sh` and not
between two of them: what is read, evaluated and hashed is then not one state of the
files, and the code does not claim it is.

Transactions are what the five families of the builder make of the siblings' files
(`Factorial`, `Cube`, `PathReuse`, `JoinFamily`, `BindingFamily`), `Labels` what the authors of the
artefacts say of each layer, `Evaluated` what the evaluators find. An artefact is reduced to
what its evaluator makes of it, its label, and the fields that the binding reads; the
evaluators themselves are those of `ComposedTransaction` and `DelegationPaths`. A hash is the content
hashed, and a count in a summary is the set counted, so that "all match" is equality of sets.
One script runs at a time, and a script reads its sources in one step: edits of different
files commute. The decision time and the nonces are fixed; the evidence that the builder
signs itself always passes, since its key is the evaluator's and its nonces are fresh. With the repository's own tables the
model has its 104 transactions, 8 denials across layers and 31 false allows of the majority.

### LabelRules, LabelLadder and LabelCorpus

`JsEvaluate` and `PyEvaluate` are the two programs, layer by layer; what an edge, an action or
an effect may fail is that of `DelegationRules`, whose conditions both repeat, and how each
carries the delegation along the edges is its own. Neither knows the binding, so that a
transaction whose layers all pass and whose binding fails is allowed by both. A time that is missing
is `Missing` (0, and no decision time is 0): the verifier reads a missing start of a window as the
empty string, which is before every date (`run.py:84`, `state_adapter.py:109`), while both
programs ask for a string (`InInclusiveWindow`, `evaluate.mjs:106`;
`evaluate_mutation_corpus.py:57`), so that a policy without `valid_from` or an attestation
without `issued_at` is STALE to them and goes on to the next check in the verifier.
`LabelsAreTheRules` of `LabelLadder` compares them with the composed verifier at the end of its loop
and says that these two are all that separates them: `PassedUndated` are the layers the verifier
took past a window without a start, `LabelResults` and `LabelledRow` what the programs make of the
row then. No document of the repository promises more, so this is no finding.

In `LabelCorpus`, `Generate` copies a transaction that passes everywhere and puts the listed
faults into the copies; `RunLabeller` goes through the packet with the program's own
cache (`CacheKey`: the JavaScript one by dataset, the Python one by dataset and level) and its
own bootstrap (`Lcb`); `Freeze` hashes packet and outputs; `CompareMutations` and
`FreezeAndCompare` are the two directories' scripts. All of them are started by hand, so any may
run, and run again, at any time: a packet may be generated anew from another base between a
labeller and the freeze. The oracle is hashed through the generation manifest, which is
frozen with the packet and names its hash. Rows of an older packet can still be frozen beside a
newer oracle; the comparison passes then too, because neither the expectations nor the rows
depend on the base.

The constants of `LabelCorpus` are what the generators read or rely on, and each assumption is a
line of theirs. `BasesAssumption`: the base is a transaction both labellers allow
(`generate_mutation_corpus.py:46`) and has an edge below the first for A3 to show at.
`SourceAssumption`: a spliced policy or evidence comes from a transaction reported under that rule
(`:50-59`). `ForeignAssumption`: the values put in ("intruder", "invalid", "USD", names out of scope)
are not already the base's own. `BootstrapAssumption`: the dataset selected for M2 has its mean below the
threshold, and that for M3 has only its bound below, in either program (`:346-371`). `CorporaAssumption`: the faults of an item
are listed in the order of their rules, and each pair is `Comparable`: the fault of the lower
number is the one reported. That is a statement about the items, not about the labellers.
It leaves out a second fault in a policy or an evidence that was replaced as a whole, two
datasets for one measurement, and the delegable flag of the first edge (A3, which shows one edge
later) with a later fault of that same edge, which is found before it. All cases of the two
generators are comparable.

### NativeState

`pc` goes through `run.sh`: `WritePolicy`, and for each root `StartRoot`, then `PcrReset`, `PcrExtend`
and `Quote` for each of its transactions, and `StopRoot`; `WriteOverlay`. Any command of the
generator may fail (`CommandFails`), which leaves the new policy beside the overlay of an
earlier run. `AppraiseBaseline`, `AppraiseMutations`, `Recompose` and `Summarise` are
`verify_overlay.py`, each with the file it writes; `CheckSums` is `sha256sum -c`; `RunJava` is the second
program. `RunAgain` and `VerifyAgain` start over with whatever files are there. A `checkquote`
may not come back within its 20 s, for any vector of a script (up to `MaxLate`): it counts as a
broken binding, its class `CRYPTOGRAPHIC_FAILURE` has no gate in `composition_rule.py`, and the
recomposition raises (`NoGate`). The summary of the run before is then still on disk and says
what it said; what keeps it from passing for this run's is the checksum (`Snapshot`),
as `SummariesAreEarned` states.

`Appraise` lists the bindings that the adapter checks by name (`Bindings`) and then the
structural ladder; `Mutate` gives the eight mutations. The README of the lab says that a
"challenge" failure is `STALE`; in the code a challenge mismatch is one of the bindings and
gives `CRYPTOGRAPHIC_FAILURE`. A software TPM whose `start_root` raises is not stopped by the
generator (the `try` begins after it, `generate_vectors.py:256`); no file depends on it, and no
property here speaks of it.

### LiveRevocation

`execute_case` again, but in one process: the service's operations run under one lock (`Serve`),
there are no idempotency keys and no retries, and the model runs the whole suite, since
its verdict relates the cases. A call the runner waits for is one step (`Call`) with what the
service does; `CallTimesOut` is the 5 s running out, with the request served or not, after which
the suite raises. In a simultaneous case `ReleaseThreads` opens the barrier; `HandleThread` is
the handler of either thread, also after the thread has given up (`ThreadTimesOut`), and
`JoinThreads` puts both answers into the trace, the revocation first. `Finalize` writes
the row with the events sorted by the index they got under the lock. `RecomputedLabel` is
`verify_saved_results.py`. The two assertions about the status relied on stand as the first
conjunct of `RacesAreExplained`.

### TpmCompanion

`pc` is the statement a run is at; each `tpm2` command is one step, named after the command.
`Read` stands for the commands that leave nothing loaded, `Load` for the three that create or
load a key: they take a slot and write a context file, and one that fails may have done
either, both or neither. `Quote` and `CheckQuote` are the loop over the transactions, which goes by
the transactions and not by what was kept of them: `challenges` has one entry for each round
begun, and `BaselineHolds` compares it with `vectors` after the last. `TryMutation` and
`MutationSuite` are the loop over the plan. `Raise` is an exception at any statement
(a command's code, its 60 s, a missing tool, a full disk), and where it goes depends on the
region: from the body of the inner `try` to the two flushes, from the `finally` out of the
`with` block, from the reports to the outer `finally`. `Flush` is `tpm2_flushcontext` with
`allow_failure=True`: its code is not looked at, so the object may stay, but `run_tpm` still
raises when the time runs out; without the context file no command runs there, and nothing
raises. `TransientAfter` and `PersistentAfter` are the censuses; `Discard`,
`Report`, `WriteManifest`, `WriteHashes`, `Rename`, `Succeed` and `Leave` are the way out. `Kill` stops
a run at any statement, after which nothing of this happens. Several runs may be at it at
the same time: the code takes no lock, and looks at the output path once at the start.

Evidence is abstracted to what verification tells apart: `signed` is what the TPM signed and
`intact` whether message, signature and PCR values are untouched. The SHA-256 of the
transcript is the transcript (`QualifyingData`), in the form of its bytes or of its hexadecimal
text, which one of the mutations swaps.

What is taken from outside the repository: `tpm2_checkquote` accepts only evidence that is
intact and over the data it is given, but may fail on any; the files of a quote may hold
evidence of another one; a slot listed by `tpm2_getcap` is in use; a rename onto a directory
that has files fails. Left out: the preflight, which reads the tool's own source and runs no
command; an interrupt or an error while the private directory or the stage is being removed
(`EndedRunsAreGone` takes the removal to succeed once it is reached); the checks of literal arguments in `validate_runtime_command`; the contents of the
persistent census, since no command makes a persistent object.

## 3. Runs

| Run | States | Checks |
|---|---|---|
| `container_races` | 75 thousand | `NoFalseAllow`, `OneDecisionPerKey`, `AnswersAreDurable`, `LogIsLinear`, `RevocationIsRespected`, refinement of `AtomicDecision` |
| `container_script` | 6 thousand | `FaultsAreRecovered`, and `EveryKeyIsAnswered` under fairness |
| `profile_cases` | 438 | `VerdictFollowsSchedule`, `PlacementOutcomes`, `FaultsRecover`, refinement of `AtomicDecision`, and `CaseIsDecided` under fairness |
| `live_races` | 8 thousand | `RacesAreExplained`, `VerdictIgnoresRaces`, refinement of `AtomicDecision` |
| `composed_transaction` | 78 thousand | `FirstViolation`, `AuthorityNeverWidens`, `SubjectIsReached`, `TwinAgrees`, `JointlyAuthorised`, `DenialIsLocalised`, `BaselinesAreExplained`, `LabelsAreTheRules` |
| `composed_corpus` | 13 thousand | `PassedRunIsEarned`, `SavedSummariesAreTrue` |
| `label_corpus` | 8 thousand | `FaultsStayInTheirLayer`, `ComparisonsPass` |
| `native_state` | 59 thousand | `SavedVectorsAppraise`, `MutationsAreRejected`, `SummariesAreEarned` |
| `tpm_alone` | 12 thousand | `PublishedQuotesAreBound`, `PublishedRejectionsAreReal`, `PublishedLeavesNothing`, `BodyErrorsAreCleanedUp` |
| `tpm_shared` | 1.0 million | `PublishedIsWhole`, `PublishedLeavesNothingNew`, `EndedRunsAreGone`, `NeverOverwritten` |
| `tpm_flushes` | violation | `ContextsAreFlushed` |
| `tpm_census` | violation | `PublishedLeavesNothing`, with two runs |

The types of the constants and variables (`TypeOK`, `TransactionTypeOK`) are proved of four of the
models and part of the inductive invariants of two more (section 4).

The two violations are disagreements of the companion's README with its code.
`tpm_flushes`: the README lists, as step 7 of the TPM path and with no exception, the attempt to
flush the two context files of the run. The
two flushes are statements of one `finally`, and when the first one runs and raises (its time runs
out) the second and both censuses are skipped and the context file is deleted. In TLC's trace both
files exist: `createak` has written its context and failed, and the flush of the signing key raises. Nothing is
published then, and the error is reported; the objects may stay in the TPM unreported.
`tpm_census`: the README calls the census authoritative for "no new handle remains". The
census compares slot numbers. If a slot was in use by other software at the first census,
was freed, and then went to an object of this run whose flush failed, the run is published
with no handle remaining while its object is still loaded. With the TPM to itself this
cannot happen (`tpm_alone`, and the theorem `AloneLeavesNothing`), and in any company the run leaves
nothing in a slot that its first census found free (`PublishedLeavesNothingNew`).

Bounds. `container_races` has one credential (the code never relates two), two keys, three
instances and six calls: a revocation repeated, a guarded key tried on both effect
services with the first attempt through the proxy, a second guarded key, and the
initialisation, which need not come first. `MaxOutages = 2` allows two of timeout, lock
timeout and stop in one behaviour: both attempts at a key can be hit, or the same
attempt on both sides. `container_script` is the runner's script in both profiles without
outages, because the assertions of `run_matrix.py:463-479` do not survive a timeout: if the
proxy gives up on a queued request, the retry may well decide first. `profile_cases` is
complete but for the ages, which are below, just below, at and above the TTL.
`composed_transaction` has an otherwise valid transaction with every delegation path of its
corpus: every pair of 34 (one hop), 54 and 94 mutations (four hops): every
gate is violated on its own, with every other gate on the same stage, and on any two
stages; pairs also repair a mutation (a delegate renamed on both sides) and overwrite it.
It also has an all-valid transaction with every variant of one artefact and of
every two: every result of every layer, every result of the binding, the ends of every
window on both sides, windows without a start, two faults on one artefact where the order of its checks decides, and
paths narrowed so that an earlier grant differs from the last. Two artefacts at a time are
enough for the gate ladder, which compares layers pairwise, and for the majority baseline.

`tpm_alone` has three slots of which other software holds one, both key profiles, and the
eight mutations on the first and the last of three transactions. 37 positions on, modulo three,
is the next quote (the mutant uses 36, which is the quote itself); the second offset, 38, is only
needed in a corpus of 37 transactions, and that, like the plan's own 104 transactions and 8
representatives, is covered by the proof (`AlternateDiffers`). `tpm_shared` has two runs, two slots and two
transactions: each run needs at most two slots, so that they contend for them, and no
mutations, which touch neither the TPM nor the output path. Runs, free slots and challenges
are interchangeable there (no property of the run is temporal but the action property,
which is symmetric too).

`composed_corpus` has the whole corpus of the repository and, for every file, its committed content
and a few edits: of a label, of an artefact, of both in step, and of a field that the
binding reads. `MaxEvents = 3` allows a run of `run.sh` with an edit before or in it and one more
start or edit: a script by hand over what the run left, or a second run over the edited
files. The proofs have no such bound.

`label_corpus` has the 38 items of the mutation corpus made from two different bases (two and
three hops), every pair of faults of different layers, every comparable pair of one layer, and
the generator's cases of four and five faults; faults that replace the same field are not
paired. The numbers of the two bootstraps differ from each other but lie on one side of
the threshold, as they do for the datasets of the packet; a dataset whose bound
falls between them would be labelled differently, which no model of the scripts can exclude.

`native_state` has four transactions under two roots. The corpus lists them in the order 3, 1,
2, 4, so that the donor of one mutation is the mutated vector itself and has to be moved on, and
that of the other is not. The windows end before, at and after the decision time; every gate
of the other layers occurs. `MaxAttempts = 2` lets one run leave files to the next, and `MaxLate = 1`
lets any single check of a script not come back.

`live_races` has one race for each profile where the lab has 64: the cases share nothing but
the event index and the verdict, which asks whether *some* case was fooled, or had a hit.
Ages are far below, just below, at the TTL and past the forced expiry.

Deadlock checking is off in every run but `label_corpus` because each system stops: the clients have no
more calls, the case is decided, the transaction has its row, nobody starts a script again.

Fairness. In `container_script`: handler threads and the proxy's threads run
(`ThreadingHTTPServer`), SQLite's busy handler retries until the lock is free and contenders
are finitely many, so `Begin` is weakly fair; the runner sends the next request of its script as
soon as the last one has returned or raised. Revocation is never owed: it is a choice of the
case. In `profile_cases`: the runner's thread, the contender processes and the handler threads
run; that a wait runs out is never owed, and a runner that raises has no verdict, so that
`CaseIsDecided` asks for one or the other.

## 4. Proofs

All proofs hold for every value of the constants that satisfies the named assumptions.

`ContainerRevocationProofs` (from `ConstantsAssumption`, `KeyAssumption`): `TypeCorrect`, then
`Invariance`, `Spec => []IInv`, where `IInv` adds to the types

- `ReadsAreCurrent`: only the holder of the write lock is inside a transaction, and what
  it has read is what the tables say. Without it nothing about `Commit` can be shown.
- `LogIsSound`: what each event says of its moment, and sequence numbers that never
  step back nor pass the credential's.
- `TablesMatchLog`: `decisions` and `effects` are exactly what the commit events say.
- `AnswersAreDecisions`: a finished or answered commit carries the decision of its key.

From it: `GuardIsSafe`, `DecidedOnce`, `AnswersNeverDisagree`, `LogLinear`; `RevocationHolds`, for which
`ServedRevokes` (a revoke that was served has revoked its credential) and `DecidedWasSent` (a decided
key has been asked for) turn an acknowledged revocation and an untried key into `Barred`, a
state that no step leaves; and `Refinement`, that the
lab implements `AtomicDecision` (each step of the lab maps to one abstract step or a stutter:
`Initialize` to `Enroll`, a first `Revoke` to `Withdraw`, `Commit` to `Decide`, `Respond` to `Hear`).

`FaultsRecovered` speaks of the runner's fault cases and so has two hypotheses. `RetriesAreScripted`
describes the script: a retried request has a key to itself and one retry, and its
credential was served before it. `MaxOutages = 0` excludes timeouts and stops, after which the
retry of an answered request may be a first decision and the property is not claimed. The
invariant `RetryInv` says how far a request and its retry have come (`RetryHistory`), for which
`SidesAgree` keeps a call's two sides together while nothing times out, and
`ServedIsPresent` keeps the credential from going away. The run `container_script` satisfies both.

`RevocationProfilesProofs` (from `AgesAssumption`, that the ages are numbers and one reaches the forced expiry): `CaseInvariant`, where `CaseInv`
adds two layers to the types. `LogInv` relates the three tables and is kept by each
transaction, whoever calls it (`LogKept`, one lemma for each transaction). `ScheduleInv` says which
events the log holds at each point of `execute_case`: `PlacedInv`, when the revocation has
happened; `ReadsInv` and `PlacedReadsInv`, which reads there are and what they showed;
`CommitsInv`, at most one commit and on which side of the revocation; `FlightInv` and `FaultInv`, what
the contenders and the aborted request still owe. From it, `EveryVerdictFollowsSchedule`,
`EveryPlacementShows`, `EveryFaultRecovers`, and `CaseImplementsPromise`.

`LiveRevocationProofs` (from `SuiteAssumption`, the same of its ages; any number of races): `SuiteInvariant`. `SuiteInv` has
`LogInv` for the case that is open, `UnstartedInv` (cases to come have touched nothing, which needs
that the suite lists no case twice, `SuiteIsInjective`), `TraceInv`
(the trace is the log but for the last two entries, which the threads may have answered in
the other order), `ThreadsInv`, `ReadsInv`, `PlacedInv`, and `RowsInv` and `ReportInv` for what is
finished. `EventOrderIsTheLog` shows that sorting the trace by the index restores the log: it
is why `EveryRaceIsExplained` holds although answers are collected out of order.
`VerdictIsSomeHit` reduces the verdict of the experiment to the cases without threads, of which each
profile always has the same ones; `NoRaceDecidesVerdict` follows. `SuiteImplementsPromise` maps
each step under the lock to a step of `AtomicDecision`.

`ComposedTransactionProofs` has the walk first (from `CasesAssumption`, `BaseAssumption`): `TypeCorrect`;
`Invariance`, whose `PassedIsSound` says that every stage passed has no violation and that
`parent` is the row of the edge before, and whose `ScopeNarrows` says that the scope carried lies
within the root's and within every grant above it; `OracleAgrees`, that the walk and the query
name the same first violation, for paths of every length; `NeverWidens` and `SubjectReached`. The
lemmas on `Increasing` orders tie the statement order of the Python code to the priorities of
the SQL.

The loop over it (from these and `TransactionsAssumption`, `NoneAssumption`): `ComposesTheWalk`, that
every behaviour of the loop is a behaviour of the walk, so that `LoopWalksSoundly`, the
properties of the walk hold of the authority layer without being proved again;
`TransactionInvariance`, whose `Settled` says that what has been evaluated is what the artefacts say
and that the saved row was composed from it. From these: `TransactionTypeCorrect`; `JointAuthority`,
where `ScopeNarrows` carries the binding's look at the last grant to every edge of the path, and
`WindowIsIntersection` says that the largest start and the smallest end exist and bound every
window (`LeastExists` derives this from cardinalities, since induction over naturals is not
available to the provers); `TwinsAgree`, line by line of the two ladders; `Localisation`;
`BaselinesExplained`, with the majority counted by the cardinality theorems.

`ComposedCorpusProofs` (from `SourcesAssumption`, that the files are the four of the siblings):
`CorpusRunInvariant`, for every content of these files, every table of the builder and any number
of scripts and edits. `CorpusRunInv` says of each statement of each script what the script holds
and has written so far (`ScriptInv`), that checksums were taken of files that fit (`SumsInv`), and of a
`run.sh` that nobody disturbed how far the corpus and the rows are those of the files as they
are (`UndisturbedInv`, `PassedInv`). The last is needed because the hashes in the exit code are all
that ties the rows, evaluated after a possible edit, to the labels, made before it; `SumsInv`
is needed because any script may have been started over the files of another run. From it,
`EveryPassedRunIsEarned`; and `EverySavedSummaryIsTrue`, for which `MajorityForgivesOne` and `RefinedIdentity` show
that the majority's false allows are the single faults and the denials across layers in every
corpus whose rows are as expected, and not in this one only.

`TpmCompanionProofs` (from `ConstantsAssumption`): `TypeCorrect`; `Invariance`, where `IInv` says, run by
run, what lies behind each statement: `ErrorInv` (which region an exception came from),
`ContextInv` and `FlushInv` (a context file is there from the creation of the object on, and is
flushed before the directory goes), `StageInv` (files written so far), `CensusInv` (an object of
the run in a slot its first census found free is still seen, or no census was verified) and
`PublishedInv` (what the publisher had behind it stays so). From it: `WholeOrNothing`, `CensusIsSound`,
`NothingLeftBehind`, `CleanupAfterErrors`, `Exclusive`. `AloneLeavesNothing` adds the assumption that there is one
run and shows that its objects then only take slots that its census found free.
`EvidenceInvariance` follows the quotes and the mutation rows (`RoundInv`: no round of the loop is
without its quote, which is why the next transaction is the one after the last kept); `QuotesAreBound` and `RejectionsAreReal`
rest on `AlternateDiffers` (one of 37 and 38 positions on is another quote, in a corpus of any
size above one), `CaseInPlan` (the plan's double loop stays inside the corpus) and
`MutationBites` (each of the eight mutations changes what `checkquote` compares).

`NativeStateProofs` (from `OverlayAssumption`: the size of the corpus is a multiple of the number of
roots, and above one): `SavedVectorsAreAppraised`, that a saved quote has the structural class of
its transaction in both appraisals, for any corpus, any number of roots and any failing
commands. The invariant is that the PCR and the position stay in step from the reset to the
quote (`QuoteIsGood`), that every vector kept was genuine when it was made (`GenuineBindings`,
`GoodAppraises`), and that a rewritten policy says the same of every transaction as the one
before (`OverlayInvariance`). `MutationsBreakABinding` shows of each of the eight mutations that it breaks
a binding, whatever other genuine vector is the donor. `FilesInv` follows the files: which vectors
the generator has kept when (`GeneratorInv`), that an overlay is complete (`OverlayInv`), and what the
verifier has written when it gets to its next statement (`RowsInv`, `SumsInv`). With it and modular
arithmetic over the rotation of the roots, `AllMutationsAreRejected` and `AllSummariesAreEarned`.

The labels of one transaction, in the same module (from the same assumptions): `LabelsAreExact`, that both
labellers give every transaction the results, the verdict and the gate the verifier saves, but for
a failed binding and for the windows without a start.
No new invariant is needed: `FirstViolation` fixes which violation the walk denied with, and
`FirstIsOfLowestPriority` says that a loop that stops at the first failing check finds the gate of
lowest priority (`LabelledAsWalked`); `LabelsCompose` carries that through the five layers.
`LabellersAgree` says of every transaction that the two programs give it the same label in every
field. Python's loop is a recursive function over the edges: `StandingSteps` shows that an explicit
function, `Standing`, satisfies its equation, and `WalkStands` that the equation has no other
solution, since a least edge where two solutions differ does not exist.

`LabelCorpusProofs` (from the five assumptions of `LabelCorpus` and those of the rules it extends): for
any number of bases with any number of hops, any bootstraps, any lists of comparable faults
and any order of the scripts, `EveryFaultStaysInItsLayer` and `EveryComparisonPasses`. The first half follows
an item from its faults to its row:

- `RegistryAims`: fault `f` of the registry is aimed at the layer, gate, rule and edge of
  `FaultLabels[f]`. The registry is a concatenation of six lists (`ConcatIs`).
- `ItemIs`: an item with a list of faults is the base with each field replaced by what the
  fault of that field puts there (`ItemWith`), whatever the order in which they were put
  in. Each path of a fault is one lemma (`EdgeStep`, `EdgeGrantStep`, `BoundStep`, ...), and a step of the
  generator adds one fault to the set (`ItemStep`).
- `PolicyLabelled` to `MeasurementLabelled`: the label of a layer with faults `F` is that of the least
  of them in the layer. `AuthorityLabelled` is the long one: a fault of the first edge is found at that
  edge and hides everything below it, A3 is found at the second (`SecondEdge`), and a fault of the
  action or the receipt only after all edges have passed.
- `CacheKnows`: whatever the items before it, a cache holds the bootstrap of the item's own dataset
  and level when the item is looked at. For the JavaScript cache, which is looked up without the
  level, this needs that all items of a packet have the level of one base (`Kept`).
- `RowsAre`, from these and `EvaluateIs` (both programs give the same labels): the rows of a packet
  depend on the lists of faults alone, not on the base, the program, or its bootstrap.

The second half is the inductive invariant `ScriptsInv`: a packet was made from some base, and rows,
written or frozen, are `RowsOf(corpus)`. It need not say which packet a program read, because of
`RowsAre`; without that, rows of one base beside an oracle of another would have to be told apart.
`ExpectedIs` gives that the oracle's gate is the first of the row's layers that fails
(`FirstFailing`: the layers are looked at in the order of the faults). The recursive functions
(`WithFaults`, `Mutated`, the cache) are treated like Python's loop above: `SameRecursion` compares
two solutions of an equation at their least difference. The assumptions on `Cases` and
`Transactions` are visible in that module but no proof of it uses them.

Left to TLC: liveness (`EveryKeyIsAnswered`, `CaseIsDecided`), which the provers do not reach.
Every safety and action property that a passing run checks is also a theorem. The two violations have
no theorem, of course.

## 5. Plan

1. Done: the three revocation labs with their abstract promise, the authority verifier, the
   composed transaction over it, the corpus over that, the labellers and their corpora, the
   native overlay, the TPM companion; their runs and the proofs above, of every safety and
   action property they check.
2. `ProspectiveRaces`: the strict gate on a recorded snapshot against the weak strategies, and
   the independent implementation in `run.mjs`.
3. `CompositionEnumeration`: the Boolean and binding enumerations of the exhaustive model, as
   an abstract rule that `ComposedTransaction` implements.
