--------------------------- MODULE TpmCompanion ---------------------------
(***************************************************************************)
(* Runs of hardware_tpm_companion.py --execute-hardware that share one TPM *)
(* and one output path.  A run is a sequence of tpm2 commands, each of     *)
(* which returns 0, returns another code, or raises (its 60 s run out, the *)
(* tool is missing), and of file writes.  Whatever goes wrong, the inner   *)
(* finally flushes the run's context files and takes a census of handles,  *)
(* the private work directory is removed, and the outer finally removes    *)
(* the public stage unless the stage became the output.  A run may also be *)
(* killed, and then nothing of this happens.                               *)
(***************************************************************************)
EXTENDS Integers, Sequences, FiniteSets

CONSTANTS
  Runs,             \* processes of the tool
  Handles,          \* the TPM's slots for transient objects
  Foreign,          \* slots that hold objects of other software
  Profiles,         \* --ak-creation-profile
  Transactions,     \* the frozen corpus: sorted transaction ids
  Challenges,       \* what secrets.token_hex may return
  Representatives,  \* mutation plan: positions of transactions
  Mutations,        \* mutation plan: names of mutations
  Free, Others,     \* owners of slots that are no run's
  Nothing           \* no output, no census, no vector in hand

Objects   == {"primary", "ak"}
AllMutations ==
  {"quote_message_flip", "signature_flip", "pcr_blob_flip",
   "challenge_replay", "transaction_substitution",
   "corpus_hash_substitution", "capsule_hash_substitution",
   "qualifying_data_representation"}
Indices == 1..Len(Transactions)

ASSUME ConstantsAssumption ==
  /\ Foreign \subseteq Handles
  /\ Profiles \subseteq {"createak", "create-load"}
  /\ Transactions \in Seq(STRING) /\ Len(Transactions) > 1
  /\ \A i, j \in Indices : Transactions[i] = Transactions[j] => i = j
  /\ Representatives \in Seq(Indices)
  /\ Mutations \in Seq(AllMutations)
  /\ {Free, Others, Nothing} \cap (Runs \X Objects) = {}
  /\ Free # Others

VARIABLES
  pc,        \* the statement a run is at
  profile,   \* its --ak-creation-profile
  error,     \* where its exception was raised: "none", "body", "cleanup"
  contexts,  \* context files in its private work directory
  loaded,    \* the TPM: what each slot holds
  before,    \* the run's first census of transient handles
  after,     \* its last one
  verified,  \* cleanup["cleanup_verified"]
  attempted, \* objects whose context it has tried to flush
  challenges,\* what it has drawn, one per round of the loop over transactions
  vectors,   \* its quotes, verified, in transaction order
  candidate, \* the quote it is about to verify
  rows,      \* per mutation tried: was it rejected?
  stage,     \* files in its public stage, {} when there is none
  output     \* the output path: [run, files], Nothing when absent

cleanup  == <<before, after, verified, attempted>>
evidence == <<challenges, vectors, candidate, rows>>
tpm      == <<contexts, loaded>>
vars     == <<pc, profile, error, tpm, cleanup, evidence, stage, output>>

-----------------------------------------------------------------------------
(* Quote evidence.                                                         *)

Envelope(t, challenge) ==
  [corpus |-> "frozen", capsule |-> "frozen",
   transaction |-> t, challenge |-> challenge]

(* The SHA-256 of the transcript, which names every field of the envelope; *)
(* "digest" is its 32 bytes, "text" the bytes of its hexadecimal text.     *)
QualifyingData(envelope, form) == [of |-> envelope, form |-> form]

(* What tpm2_quote answers: evidence over the qualifying data it signed.   *)
Vector(envelope, signed) ==
  [envelope |-> envelope, signed |-> signed, intact |-> TRUE]

Envelopes == [corpus : {"frozen"}, capsule : {"frozen"},
              transaction : STRING, challenge : Challenges]
Evidence  == [envelope : Envelopes, signed : [of : Envelopes, form : {"digest"}],
              intact : {TRUE}]

(* What tpm2_checkquote can accept.                                        *)
Genuine(vector, q) == vector.intact /\ vector.signed = q

(* The walk over the vectors, back to the first after the last.            *)
Shifted(i, offset) == ((i - 1 + offset) % Len(Transactions)) + 1

(* Mutant: an offset that brings the walk back to where it started.        *)
AlternateUnchecked(i) == Shifted(i, 36)

(* The vector whose fields replace those of the mutated one.               *)
Alternate(i) ==
  IF Shifted(i, 37) # i THEN Shifted(i, 37) ELSE Shifted(i, 38)

Flips == {"quote_message_flip", "signature_flip", "pcr_blob_flip"}

Mutated(source, mutation, alternate) ==
  LET With(field, value) ==
        [source EXCEPT !.envelope = [@ EXCEPT ![field] = value]]
  IN CASE mutation \in Flips -> [source EXCEPT !.intact = FALSE]
       [] mutation = "challenge_replay" ->
            With("challenge", alternate.envelope.challenge)
       [] mutation = "transaction_substitution" ->
            With("transaction", alternate.envelope.transaction)
       [] mutation = "corpus_hash_substitution" -> With("corpus", "zeros")
       [] mutation = "capsule_hash_substitution" -> With("capsule", "effs")
       [] OTHER -> source

FormOf(mutation) ==
  IF mutation = "qualifying_data_representation" THEN "text" ELSE "digest"

(* The plan's cases, representative by representative.                     *)
Cases    == Len(Representatives) * Len(Mutations)
Source(k)   == Representatives[((k - 1) \div Len(Mutations)) + 1]
Mutation(k) == Mutations[((k - 1) % Len(Mutations)) + 1]

Tampered(vs, k) == Mutated(vs[Source(k)], Mutation(k), vs[Alternate(Source(k))])

TamperedIsGenuine(vs, k) ==
  Genuine(Tampered(vs, k),
          QualifyingData(Tampered(vs, k).envelope, FormOf(Mutation(k))))

-----------------------------------------------------------------------------
(* Control.                                                                *)

(* Commands that leave nothing loaded, in the body of the try.             *)
Reads == {"version", "transient", "persistent", "properties-fixed",
          "properties-variable", "readpublic-primary", "create", "readpublic-ak"}

(* Commands that load an object and write its context file.                *)
Creates == {"createprimary", "createak", "load"}

Flushes == {"flush_ak", "flush_primary"}

ObjectOf(step) ==
  IF step \in {"createprimary", "flush_primary"} THEN "primary" ELSE "ak"

Body    == Reads \cup Creates
             \cup {"quote", "checkquote", "mutation", "write"}
Finally == Flushes \cup {"transient-after", "persistent-after"}
Outer   == {"report", "manifest", "hashes", "rename", "renamed"}
Ended   == {"ended", "killed"}
Steps   == Body \cup Finally \cup Outer \cup Ended \cup {"start", "discard", "leave"}

Following(r, step) ==
  CASE step = "version"             -> "transient"
    [] step = "transient"           -> "persistent"
    [] step = "persistent"          -> "properties-fixed"
    [] step = "properties-fixed"    -> "properties-variable"
    [] step = "properties-variable" -> "createprimary"
    [] step = "createprimary"       -> "readpublic-primary"
    [] step = "readpublic-primary"  ->
         IF profile[r] = "createak" THEN "createak" ELSE "create"
    [] step = "create"              -> "load"
    [] step \in {"createak", "load"} -> "readpublic-ak"
    [] step = "readpublic-ak"       -> "quote"
    [] step = "flush_ak"            -> "flush_primary"
    [] step = "flush_primary"       -> "transient-after"
    [] step = "transient-after"     -> "persistent-after"

Files == {"directory", "public", "environment", "vectors", "command-audit",
          "cleanup", "summary", "manifest", "hashes"}

Goto(r, step) == pc' = [pc EXCEPT ![r] = step]

Add(r, file) == stage' = [stage EXCEPT ![r] = @ \cup {file}]

(* Mutant: the flushes are not in a finally.                               *)
RaisePastFinally(r) ==
  /\ Goto(r, "discard")
  /\ error' = [error EXCEPT ![r] = "body"]
  /\ challenges' = [challenges EXCEPT ![r] = <<>>]
  /\ vectors' = [vectors EXCEPT ![r] = <<>>]
  /\ candidate' = [candidate EXCEPT ![r] = Nothing]
  /\ rows' = [rows EXCEPT ![r] = <<>>]

(* An exception, in each of the three regions of execute_hardware.  What   *)
(* the body has gathered is not read again once it has raised.             *)
RaiseInBody(r) ==
  /\ Goto(r, "flush_ak")
  /\ error' = [error EXCEPT ![r] = "body"]
  /\ challenges' = [challenges EXCEPT ![r] = <<>>]
  /\ vectors' = [vectors EXCEPT ![r] = <<>>]
  /\ candidate' = [candidate EXCEPT ![r] = Nothing]
  /\ rows' = [rows EXCEPT ![r] = <<>>]

RaiseInFinally(r) ==
  /\ Goto(r, "discard")
  /\ error' = [error EXCEPT ![r] = "cleanup"]

RaiseOutside(r) ==
  /\ Goto(r, "leave")
  /\ error' = [error EXCEPT ![r] = "body"]

Init ==
  /\ pc = [r \in Runs |-> "start"]
  /\ profile \in [Runs -> Profiles]
  /\ error = [r \in Runs |-> "none"]
  /\ contexts = [r \in Runs |-> {}]
  /\ loaded = [h \in Handles |-> IF h \in Foreign THEN Others ELSE Free]
  /\ before = [r \in Runs |-> {}]
  /\ after = [r \in Runs |-> Nothing]
  /\ verified = [r \in Runs |-> FALSE]
  /\ attempted = [r \in Runs |-> {}]
  /\ challenges = [r \in Runs |-> <<>>]
  /\ vectors = [r \in Runs |-> <<>>]
  /\ candidate = [r \in Runs |-> Nothing]
  /\ rows = [r \in Runs |-> <<>>]
  /\ stage = [r \in Runs |-> {}]
  /\ output = Nothing

(* The output path is looked at once, before the stage is made.            *)
Start(r) ==
  /\ pc[r] = "start"
  /\ \/ /\ output = Nothing
        /\ Goto(r, "version")
        /\ stage' = [stage EXCEPT ![r] = {"directory", "public", "environment"}]
        /\ UNCHANGED error
     \/ /\ output # Nothing
        /\ Goto(r, "ended")
        /\ error' = [error EXCEPT ![r] = "body"]
        /\ UNCHANGED stage
  /\ UNCHANGED <<profile, tpm, cleanup, evidence, output>>

(* parse_tpm_handles of tpm2_getcap handles-transient.                     *)
InUse == {h \in Handles : loaded[h] # Free}

Read(r) ==
  /\ pc[r] \in Reads
  /\ Goto(r, Following(r, pc[r]))
  /\ before' = IF pc[r] = "transient" THEN [before EXCEPT ![r] = InUse] ELSE before
  /\ UNCHANGED <<profile, error, tpm, after, verified, attempted, evidence,
                 stage, output>>

(* A command that fails or is cut short may have loaded its object or not, *)
(* and have written the context file or not.  The tool may flush the       *)
(* object itself once the context is saved.  No slot, no object.           *)
Load(r) ==
  /\ pc[r] \in Creates
  /\ LET object == ObjectOf(pc[r]) IN
     \E h \in Handles :
       \E written, stays, ok \in BOOLEAN :
         /\ (written \/ stays \/ ok) => loaded[h] = Free
         /\ ok => written
         /\ loaded' = IF stays THEN [loaded EXCEPT ![h] = <<r, object>>] ELSE loaded
         /\ contexts' = IF written THEN [contexts EXCEPT ![r] = @ \cup {object}]
                                   ELSE contexts
         /\ IF ok THEN Goto(r, Following(r, pc[r])) /\ UNCHANGED <<error, evidence>>
                  ELSE RaiseInBody(r)
  /\ UNCHANGED <<profile, cleanup, stage, output>>

Drawn(r) == {challenges[r][i] : i \in 1..Len(challenges[r])}

(* Qualifying data of other quotes, whose evidence the tool may hand over. *)
OtherData == {QualifyingData(Envelope(Transactions[i], challenge), "digest") :
                i \in Indices, challenge \in Challenges}

(* One round of the loop over transaction_ids, which is in its round       *)
(* Len(challenges[r]) + 1 whatever was kept of the earlier ones: the       *)
(* challenge is new, the TPM signs what it was given or the files hold     *)
(* evidence of other quotes.                                               *)
Quote(r) ==
  /\ pc[r] = "quote"
  /\ Len(challenges[r]) < Len(Transactions)
  /\ \E challenge \in Challenges \ Drawn(r) :
       LET envelope == Envelope(Transactions[Len(challenges[r]) + 1], challenge)
       IN /\ challenges' = [challenges EXCEPT ![r] = Append(@, challenge)]
          /\ \E signed \in {QualifyingData(envelope, "digest")} \cup OtherData :
               candidate' = [candidate EXCEPT ![r] = Vector(envelope, signed)]
  /\ Goto(r, "checkquote")
  /\ UNCHANGED <<profile, error, tpm, cleanup, vectors, rows, stage, output>>

(* Mutant: the quote is kept whatever checkquote says.                     *)
KeepUnverified(r) ==
  /\ pc[r] = "checkquote"
  /\ vectors' = [vectors EXCEPT ![r] = Append(@, candidate[r])]
  /\ candidate' = [candidate EXCEPT ![r] = Nothing]
  /\ Goto(r, "quote")
  /\ UNCHANGED <<profile, error, tpm, cleanup, challenges, rows, stage, output>>

(* verify_public_vector on the quote just made: accepted goes on; anything *)
(* else is an exception (Raise).                                           *)
CheckQuote(r) ==
  /\ pc[r] = "checkquote"
  /\ Genuine(candidate[r], QualifyingData(candidate[r].envelope, "digest"))
  /\ vectors' = [vectors EXCEPT ![r] = Append(@, candidate[r])]
  /\ candidate' = [candidate EXCEPT ![r] = Nothing]
  /\ Goto(r, "quote")
  /\ UNCHANGED <<profile, error, tpm, cleanup, challenges, rows, stage, output>>

(* The counts of the baseline, checked after the loop; a count that is not *)
(* that of the transactions is an exception (Raise).                       *)
BaselineHolds(r) ==
  /\ Len(vectors[r]) = Len(Transactions)
  /\ \A values \in {Drawn(r),
                    {vectors[r][i].envelope : i \in DOMAIN vectors[r]},
                    {vectors[r][i].signed : i \in DOMAIN vectors[r]}} :
       Cardinality(values) = Len(Transactions)

Baseline(r) ==
  /\ pc[r] = "quote"
  /\ Len(challenges[r]) = Len(Transactions)
  /\ BaselineHolds(r)
  /\ Goto(r, "mutation")
  /\ UNCHANGED <<profile, error, tpm, cleanup, evidence, stage, output>>

(* One mutation: checkquote may reject what is genuine (any code but 0 is  *)
(* read as a rejection) and never accepts what is not.                     *)
TryMutation(r) ==
  /\ pc[r] = "mutation"
  /\ Len(rows[r]) < Cases
  /\ \E rejected \in BOOLEAN :
       /\ rejected \/ TamperedIsGenuine(vectors[r], Len(rows[r]) + 1)
       /\ rows' = [rows EXCEPT ![r] = Append(@, rejected)]
  /\ UNCHANGED <<pc, profile, error, tpm, cleanup, challenges, vectors, candidate,
                 stage, output>>

MutationSuite(r) ==
  /\ pc[r] = "mutation"
  /\ Len(rows[r]) = Cases
  /\ IF \A k \in 1..Cases : rows[r][k]
     THEN Goto(r, "write") /\ UNCHANGED <<error, evidence>>
     ELSE RaiseInBody(r)
  /\ UNCHANGED <<profile, tpm, cleanup, stage, output>>

(* vectors.jsonl, mutation-results.jsonl, environment.json.                *)
WriteEvidence(r) ==
  /\ pc[r] = "write"
  /\ Add(r, "vectors")
  /\ Goto(r, "flush_ak")
  /\ UNCHANGED <<profile, error, tpm, cleanup, evidence, output>>

(* The inner finally.  A flush is tried when the context file exists; its  *)
(* return code is recorded and not looked at.                              *)
Flush(r) ==
  /\ pc[r] \in Flushes
  /\ LET object == ObjectOf(pc[r]) IN
     IF object \in contexts[r]
     THEN /\ attempted' = [attempted EXCEPT ![r] = @ \cup {object}]
          /\ \E gone \in BOOLEAN :
               loaded' = [h \in Handles |->
                            IF gone /\ loaded[h] = <<r, object>> THEN Free
                                                                 ELSE loaded[h]]
          /\ \/ Goto(r, Following(r, pc[r])) /\ UNCHANGED error
             \/ RaiseInFinally(r)
     ELSE /\ Goto(r, Following(r, pc[r]))
          /\ UNCHANGED <<attempted, loaded, error>>
  /\ UNCHANGED <<profile, contexts, before, after, verified, evidence, stage, output>>

(* A census whose command fails is not verified: Nothing.                  *)
TransientAfter(r) ==
  /\ pc[r] = "transient-after"
  /\ \E census \in {InUse, Nothing} : after' = [after EXCEPT ![r] = census]
  /\ Goto(r, Following(r, pc[r]))
  /\ UNCHANGED <<profile, error, tpm, before, verified, attempted, evidence,
                 stage, output>>

(* Mutant: a census that failed lists no handle.                           *)
NoHandleListed(r) == after[r] = Nothing \/ after[r] \subseteq before[r]

NoNewHandle(r) == after[r] # Nothing /\ after[r] \subseteq before[r]

PersistentAfter(r) ==
  /\ pc[r] = "persistent-after"
  /\ \E read \in BOOLEAN :
       verified' = [verified EXCEPT ![r] = read /\ NoNewHandle(r)]
  /\ Goto(r, "discard")
  /\ UNCHANGED <<profile, error, tpm, before, after, attempted, evidence,
                 stage, output>>

(* The with block is left: the private directory goes, with its contexts.  *)
Discard(r) ==
  /\ pc[r] = "discard"
  /\ contexts' = [contexts EXCEPT ![r] = {}]
  /\ Goto(r, IF error[r] = "none" THEN "report" ELSE "leave")
  /\ UNCHANGED <<profile, error, loaded, cleanup, evidence, stage, output>>

Report(r) ==
  /\ pc[r] = "report"
  /\ IF verified[r]
     THEN /\ stage' = [stage EXCEPT ![r] =
                         @ \cup {"command-audit", "cleanup", "summary"}]
          /\ Goto(r, "manifest")
          /\ UNCHANGED error
     ELSE /\ stage' = [stage EXCEPT ![r] = @ \cup {"command-audit", "cleanup"}]
          /\ RaiseOutside(r)
  /\ UNCHANGED <<profile, tpm, cleanup, evidence, output>>

(* Mutant: the stage is renamed before the hashes are written.             *)
WriteManifestLast(r) ==
  /\ pc[r] = "manifest"
  /\ Add(r, "manifest")
  /\ Goto(r, "rename")
  /\ UNCHANGED <<profile, error, tpm, cleanup, evidence, output>>

WriteManifest(r) ==
  /\ pc[r] = "manifest"
  /\ Add(r, "manifest")
  /\ Goto(r, "hashes")
  /\ UNCHANGED <<profile, error, tpm, cleanup, evidence, output>>

WriteHashes(r) ==
  /\ pc[r] = "hashes"
  /\ Add(r, "hashes")
  /\ Goto(r, "rename")
  /\ UNCHANGED <<profile, error, tpm, cleanup, evidence, output>>

(* Mutant: an output that appeared since the start is replaced.            *)
RenameOver(r) ==
  /\ pc[r] = "rename"
  /\ output' = [run |-> r, files |-> stage[r]]
  /\ stage' = [stage EXCEPT ![r] = {}]
  /\ Goto(r, "renamed")
  /\ UNCHANGED <<profile, error, tpm, cleanup, evidence>>

(* rename(2) of a directory fails when the new name is one with files.     *)
Rename(r) ==
  /\ pc[r] = "rename"
  /\ IF output = Nothing
     THEN /\ output' = [run |-> r, files |-> stage[r]]
          /\ stage' = [stage EXCEPT ![r] = {}]
          /\ Goto(r, "renamed")
          /\ UNCHANGED error
     ELSE /\ RaiseOutside(r)
          /\ UNCHANGED <<stage, output>>
  /\ UNCHANGED <<profile, tpm, cleanup, evidence>>

(* success = True and the printed manifest.                                *)
Succeed(r) ==
  /\ pc[r] = "renamed"
  /\ Goto(r, "leave")
  /\ UNCHANGED <<profile, error, tpm, cleanup, evidence, stage, output>>

(* Mutant: the stage stays for inspection after an error.                  *)
LeaveStage(r) ==
  /\ pc[r] = "leave"
  /\ Goto(r, "ended")
  /\ UNCHANGED <<profile, error, tpm, cleanup, evidence, stage, output>>

(* The outer finally: rmtree(stage) when there is an error and a stage.    *)
Leave(r) ==
  /\ pc[r] = "leave"
  /\ stage' = IF error[r] # "none" THEN [stage EXCEPT ![r] = {}] ELSE stage
  /\ Goto(r, "ended")
  /\ UNCHANGED <<profile, error, tpm, cleanup, evidence, output>>

(* A command's code or its time, a full disk, a challenge drawn twice, a   *)
(* counted baseline.  A flush raises within Flush, and only when it runs a *)
(* command: without a context file nothing there can.                      *)
Raise(r) ==
  /\ \/ pc[r] \in Body /\ RaiseInBody(r)
     \/ pc[r] \in Finally \ Flushes /\ RaiseInFinally(r) /\ UNCHANGED evidence
     \/ pc[r] \in Outer /\ RaiseOutside(r) /\ UNCHANGED evidence
  /\ UNCHANGED <<profile, tpm, cleanup, stage, output>>

(* The process is killed, or the machine stops; the TPM keeps its power.   *)
Kill(r) ==
  /\ pc[r] \notin Ended \cup {"start"}
  /\ Goto(r, "killed")
  /\ UNCHANGED <<profile, error, tpm, cleanup, evidence, stage, output>>

Step(r) ==
  \/ Start(r) \/ Read(r) \/ Load(r) \/ Quote(r) \/ CheckQuote(r) \/ Baseline(r)
  \/ TryMutation(r) \/ MutationSuite(r) \/ WriteEvidence(r)
  \/ Flush(r) \/ TransientAfter(r) \/ PersistentAfter(r) \/ Discard(r)
  \/ Report(r) \/ WriteManifest(r) \/ WriteHashes(r) \/ Rename(r)
  \/ Succeed(r) \/ Leave(r) \/ Raise(r)

Next == \E r \in Runs : Step(r) \/ Kill(r)

Spec == Init /\ [][Next]_vars

-----------------------------------------------------------------------------
(* Properties.                                                             *)

Owners == (Runs \X Objects) \cup {Free, Others}

TypeOK ==
  /\ pc \in [Runs -> Steps]
  /\ profile \in [Runs -> Profiles]
  /\ error \in [Runs -> {"none", "body", "cleanup"}]
  /\ contexts \in [Runs -> SUBSET Objects]
  /\ loaded \in [Handles -> Owners]
  /\ before \in [Runs -> SUBSET Handles]
  /\ after \in [Runs -> (SUBSET Handles) \cup {Nothing}]
  /\ verified \in [Runs -> BOOLEAN]
  /\ attempted \in [Runs -> SUBSET Objects]
  /\ challenges \in [Runs -> Seq(Challenges)]
  /\ vectors \in [Runs -> Seq(Evidence)]
  /\ candidate \in [Runs -> Evidence \cup {Nothing}]
  /\ \A r \in Runs : pc[r] = "checkquote" => candidate[r] \in Evidence
  /\ rows \in [Runs -> Seq(BOOLEAN)]
  /\ stage \in [Runs -> SUBSET Files]
  /\ output \in [run : Runs, files : SUBSET Files] \cup {Nothing}

Published(r) == output # Nothing /\ output.run = r

(* What lies at the output path is one run's whole tree, and that run got  *)
(* through every step that vouches for it: each flush was tried and the    *)
(* census verified.  No failure, no kill and no other run leaves a part    *)
(* (execute_hardware renames the stage last).                              *)
PublishedIsWhole ==
  \A r \in Runs : Published(r) =>
    output.files = Files /\ attempted[r] = Objects /\ verified[r]

(* Published quotes: one per transaction, each over its own qualifying     *)
(* data, under challenges that are pairwise different (the loop over       *)
(* transaction_ids and the counts after it).                               *)
PublishedQuotesAreBound ==
  \A r \in Runs : Published(r) =>
    /\ Len(vectors[r]) = Len(Transactions)
    /\ \A i \in Indices :
         /\ vectors[r][i].envelope.transaction = Transactions[i]
         /\ Genuine(vectors[r][i], QualifyingData(vectors[r][i].envelope, "digest"))
         /\ \A j \in Indices \ {i} :
              vectors[r][j].envelope.challenge # vectors[r][i].envelope.challenge

(* Every published rejection is of evidence that checkquote had to reject: *)
(* since any code but 0 counts as a rejection, a mutation that changed     *)
(* nothing could pass as rejected (mutate_vector, the choice of alternate, *)
(* the plan's 64 rows).                                                    *)
PublishedRejectionsAreReal ==
  \A r \in Runs : Published(r) =>
    /\ Len(rows[r]) = Cases
    /\ \A k \in 1..Cases : rows[r][k] /\ ~TamperedIsGenuine(vectors[r], k)

(* A published run has left no object of its own in the TPM in a slot that *)
(* was free at its first census (cleanup_verified).                        *)
PublishedLeavesNothingNew ==
  \A r \in Runs : Published(r) =>
    \A h \in Handles \ before[r] : loaded[h] \notin {r} \X Objects

(* README.md, step 8 and "the authoritative cleanup check": a published    *)
(* run has left no object of its own in the TPM.  True of a run that has   *)
(* the TPM to itself; the census compares slots, so with a second run that *)
(* frees a slot in time it is not.                                         *)
PublishedLeavesNothing ==
  \A r \in Runs : Published(r) =>
    \A h \in Handles : loaded[h] \notin {r} \X Objects

(* A run that has ended has removed its private directory, and its stage   *)
(* unless that became the output, whatever raised on the way to the with   *)
(* block's exit and the outer finally; one that did not publish and was    *)
(* not killed leaves no file at all.  Removing a directory is taken to     *)
(* succeed once it is reached.                                             *)
EndedRunsAreGone ==
  \A r \in Runs : pc[r] = "ended" => contexts[r] = {} /\ stage[r] = {}

(* An exception anywhere in the body does not skip the cleanup: unless the *)
(* cleanup itself raised, a flush was tried for every context file of the  *)
(* run before the directory with the files goes, and a cleanup recorded as *)
(* verified rests on a census that was read.                               *)
BodyErrorsAreCleanedUp ==
  \A r \in Runs : pc[r] = "discard" /\ error[r] # "cleanup" =>
    contexts[r] \subseteq attempted[r] /\ (verified[r] => after[r] # Nothing)

(* README.md, step 7 of the TPM path: explicitly attempt to flush the      *)
(* context files created by the run.  Not so when both exist and the flush *)
(* of the signing key raises: that of the primary is never tried.          *)
ContextsAreFlushed ==
  \A r \in Runs : pc[r] = "discard" => contexts[r] \subseteq attempted[r]

(* The path is checked when a run starts and used when it ends; whatever   *)
(* two runs do in between, what is published is never replaced or removed  *)
(* ("refusing overwrite").                                                 *)
NeverOverwritten == [][output # Nothing => output' = output]_vars
===========================================================================
