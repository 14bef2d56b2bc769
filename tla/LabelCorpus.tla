----------------------------- MODULE LabelCorpus -----------------------------
(***************************************************************************)
(* The differential tests of the two labellers.  A generator takes one     *)
(* transaction that passes everywhere and puts faults into copies of it,   *)
(* writing the labels it expects beside them; the JavaScript and the       *)
(* Python labeller each read the packet, keep what they bootstrap from a   *)
(* dataset in a cache while they go through it, and write their rows; the  *)
(* files are frozen by their hashes; and a script compares the rows with   *)
(* each other and with the expectations.  The scripts are started by hand: *)
(* any of them may run, and run again, at any time.                        *)
(***************************************************************************)
EXTENDS LabelRules

CONSTANTS
  Bases,        \* transactions that pass everywhere, to put faults into
  Source,       \* rule -> a transaction of the packet labelled with it
  Point,        \* dataset -> its mean, the same for both programs
  Lcb,          \* program -> dataset -> alpha -> the quantile of its own bootstrap
  Threshold,    \* the threshold of the measurement faults
  Corpora       \* what a directory can hold: its directory, and the faults of each item

Programs == {"js", "py"}

VARIABLES
  corpus,       \* the directory's, fixed by its generator
  packet,       \* the items generated last, and the oracle written beside them
  output,       \* program -> the rows it wrote last
  frozen,       \* PREORACLE-FREEZE.json: the files that were hashed
  report        \* what the last comparison said

corpusVars == <<corpus, packet, output, frozen, report>>

-----------------------------------------------------------------------------
(* The generators.                                                         *)

LayerKey ==
  [policy |-> "policy", evidence |-> "evidence", state |-> "attestation",
   authority |-> "authority_case", measurement |-> "measurement"]

(* A fault: the rule and gate it is expected to hit, and the fields of its *)
(* layer that it replaces; the empty path replaces the layer.              *)
Fault(layer, rule, g, changes) ==
  [layer |-> layer, rule |-> rule, gate |-> g, edge |-> 0, changes |-> changes]

Splice(layer, rule, g) == Fault(layer, rule, g, <<<<<<>>, Source[rule][LayerKey[layer]]>>>>)

Put(layer, rule, g, path, value) == Fault(layer, rule, g, <<<<path, value>>>>)

OutOfScope == "out-of-scope"

(* Observed fixtures take the place of the policy or the evidence. *)
SpliceFaults ==
  <<Splice("policy", "P1", "policy.missing"),
    Splice("policy", "P2", "policy.signature"),
    Splice("policy", "P3", "policy.substituted"),
    Splice("policy", "P4", "policy.stale"),
    Splice("policy", "P5", "policy.substituted"),
    Splice("evidence", "E1", "evidence.integrity"),
    Splice("evidence", "E2", "evidence.replay")>>

FaultsOnState ==
  <<Put("state", "S1", "state.contraindicated", <<"status">>, "negative"),
    Put("state", "S2", "state.stale", <<"issued_at">>, DecisionTime + 1),
    Put("state", "S3", "state.reference", <<"observed_digest">>, OutOfScope)>>

OnFirstEdge(rule, g, field, value) == Put("authority", rule, g, <<"edges", 1, field>>, value)
OnFirstGrant(rule, g, field, value) ==
  Put("authority", rule, g, <<"edges", 1, "grant", field>>, value)

(* The first edge of path c; only A3 shows at the edge below it. *)
FaultsOnEdges(c) ==
  LET widened(g, field) ==
        OnFirstGrant("A7", g, field, c.edges[1].grant[field] \cup {OutOfScope})
  IN  <<Put("authority", "A0", "protocol.valid", <<"protocol_valid">>, FALSE),
        OnFirstEdge("A1", "edge.lineage", "delegator", "intruder"),
        OnFirstEdge("A2", "edge.signature", "issuer_signature_valid", FALSE),
        [OnFirstGrant("A3", "edge.parent_delegable", "delegable", FALSE) EXCEPT !.edge = 1],
        OnFirstEdge("A4", "edge.role_transition", "to_role", "invalid"),
        OnFirstEdge("A5", "edge.status", "status", "revoked"),
        OnFirstEdge("A6", "edge.freshness", "not_before", EffectTime + 1),
        widened("edge.scope.operations", "operations"),
        widened("edge.scope.resources", "resources"), widened("edge.scope.tools", "tools"),
        widened("edge.scope.audiences", "audiences"),
        widened("edge.scope.purposes", "purposes"),
        OnFirstGrant("A8", "edge.scope.currency", "currency", "USD"),
        OnFirstGrant("A9", "edge.scope.amount_max", "amount_max", base.scope.amount_max + 1)>>

FaultsOnAction(c) ==
  LET outside(rule, g, field) == Put("authority", rule, g, <<"action", field>>, OutOfScope)
      terminal == c.edges[Len(c.edges)].grant
  IN  <<Put("authority", "A10", "action.subject_role", <<"action", "subject">>, "intruder"),
        outside("A11", "action.operation", "operation"),
        outside("A12", "action.resource", "resource"), outside("A13", "action.tool", "tool"),
        outside("A14", "action.audience", "audience"),
        outside("A15", "action.purpose", "purpose"),
        Put("authority", "A16", "action.amount_currency", <<"action", "amount">>,
            terminal.amount_max + 1)>>

FaultsOnReceipt(c) ==
  <<Put("authority", "A17", "effect.native_validity", <<"receipt", "native_evidence_valid">>,
        FALSE),
    Put("authority", "A18", "effect.time_binding", <<"receipt", "effect_time">>,
        EffectTime + 1),
    Put("authority", "A19", "effect.action_binding", <<"receipt", "action", "amount">>,
        c.receipt.action.amount + 1)>>

FaultsOnMeasurement ==
  LET selected(rule, g, name) ==
        Fault("measurement", rule, g,
              <<<<<<"dataset">>, name>>, <<<<"threshold">>, Threshold>>>>)
  IN  <<Put("measurement", "M1", "measurement.profile", <<"profile_digest">>, OutOfScope),
        selected("M2", "measurement.point", "dataset-03"),
        selected("M3", "measurement.confidence", "dataset-01")>>

(* The faults in the order of their rules, which is also the order in      *)
(* which a transaction is looked at.                                       *)
Registry(b) ==
  LET c == b.authority_case
  IN  SpliceFaults \o FaultsOnState \o FaultsOnEdges(c) \o FaultsOnAction(c)
        \o FaultsOnReceipt(c) \o FaultsOnMeasurement

Changed(part, path, value) ==
  IF path = <<>> THEN value ELSE ApplyMutation(part, path, value)

(* fault, put into item. *)
Mutated(item, fault) ==
  LET key == LayerKey[fault.layer]
      after[k \in 0..Len(fault.changes)] ==
        IF k = 0 THEN item[key]
        ELSE Changed(after[k - 1], fault.changes[k][1], fault.changes[k][2])
  IN  [item EXCEPT ![key] = after[Len(fault.changes)]]

(* An item starts as a deep copy of the base.  Faults of several layers    *)
(* are put together by copying each layer from its own single-fault item,  *)
(* faults of one layer field by field.                                     *)
WithFaults(b, faults) ==
  LET registry == Registry(b)
      after[k \in 0..Len(faults)] ==
        IF k = 0 THEN b
        ELSE LET fault == registry[faults[k]]
                 key == LayerKey[fault.layer]
                 shared == \E j \in 1..k-1 : registry[faults[j]].layer = fault.layer
             IN  IF shared THEN Mutated(after[k - 1], fault)
                 ELSE [after[k - 1] EXCEPT ![key] = Mutated(b, fault)[key]]
  IN  after[Len(faults)]

(* Mutant: the base is not copied, so each item keeps the faults before it. *)
SharedBase(b, n) ==
  LET after[k \in 0..n] ==
        IF k = 0 THEN b
        ELSE [m \in DOMAIN b |->
                IF \E i \in DOMAIN corpus.lists[k] :
                     LayerKey[Registry(b)[corpus.lists[k][i]].layer] = m
                THEN WithFaults(b, corpus.lists[k])[m] ELSE after[k - 1][m]]
  IN  after[n]
Item(b, n) == WithFaults(b, corpus.lists[n])

(* What the oracle expects of faults, sorted: the gate of the first. *)
Expected(registry, faults) ==
  IF faults = <<>> THEN [verdict |-> "ALLOW", gate |-> "verified", target |-> None]
  ELSE LET fault == registry[CHOOSE f \in {faults[k] : k \in DOMAIN faults} :
                               \A k \in DOMAIN faults : f <= faults[k]]
       IN  [verdict |-> "DENY", gate |-> fault.gate,
            target |-> [layer |-> fault.layer, rule |-> fault.rule, edge |-> fault.edge]]

CorpusInit ==
  /\ corpus \in Corpora
  /\ packet = None
  /\ output = [p \in Programs |-> None]
  /\ frozen = None
  /\ report = None

(* The base is whatever transaction was labelled ALLOW first. *)
Generate(b) ==
  /\ packet' = [items |-> [n \in DOMAIN corpus.lists |-> Item(b, n)],
                oracle |-> [n \in DOMAIN corpus.lists |->
                              Expected(Registry(b), corpus.lists[n])]]
  /\ UNCHANGED <<corpus, output, frozen, report>>

-----------------------------------------------------------------------------
(* The labellers.                                                          *)

(* Mutant: what was bootstrapped once is taken for every dataset. *)
OneKey(p, m) == <<m.alpha>>
(* What a cache is looked up by: JavaScript leaves alpha out. *)
CacheKey(p, m) == IF p = "js" THEN <<m.dataset>> ELSE <<m.dataset, m.alpha>>

Bootstrap(p, m) == [point |-> Point[m.dataset], lcb |-> Lcb[p][m.dataset][m.alpha]]

(* The cache after measurement m: a profile that does not match returns    *)
(* before the dataset is looked at.                                        *)
Cached(p, cache, m) ==
  IF m.profile_digest # m.required_profile_digest \/ CacheKey(p, m) \in DOMAIN cache
  THEN cache
  ELSE [key \in DOMAIN cache \cup {CacheKey(p, m)} |->
          IF key \in DOMAIN cache THEN cache[key] ELSE Bootstrap(p, m)]

FixtureOf(p, cache, m) ==
  LET known == CacheKey(p, m) \in DOMAIN cache
  IN  [profile_digest |-> m.profile_digest,
       required_profile_digest |-> m.required_profile_digest,
       point |-> IF known THEN cache[CacheKey(p, m)].point ELSE 0,
       lcb |-> IF known THEN cache[CacheKey(p, m)].lcb ELSE 0,
       threshold |-> m.threshold]

Evaluate(p, item, cache) ==
  LET t == [policy |-> item.policy, evidence |-> item.evidence,
            attestation |-> item.attestation, authority_case |-> item.authority_case,
            fixture |-> FixtureOf(p, cache, item.measurement)]
  IN  IF p = "js" THEN JsEvaluate(t) ELSE PyEvaluate(t)

(* The rows of a packet, one cache for all of them. *)
Rows(p, items) ==
  LET cache[n \in 0..Len(items)] ==
        IF n = 0 THEN <<>> ELSE Cached(p, cache[n - 1], items[n].measurement)
  IN  [n \in DOMAIN items |-> Evaluate(p, items[n], cache[n])]

(* A labeller reads the packet once and writes its rows when it is done. *)
RunLabeller(p) ==
  /\ packet # None
  /\ output' = [output EXCEPT ![p] = Rows(p, packet.items)]
  /\ UNCHANGED <<corpus, packet, frozen, report>>

-----------------------------------------------------------------------------
(* The freeze and the comparison.                                          *)

(* The manifest that is hashed with the packet holds the oracle's hash.    *)
Files == [packet |-> packet, output |-> output]

MayFreeze == packet # None /\ \A p \in Programs : output[p] # None

(* Items whose labels are not the expected ones; the single-fault          *)
(* comparison also holds the rule of the layer that was aimed at.          *)
Mismatches ==
  {n \in DOMAIN corpus.lists :
     LET e == packet.oracle[n]
     IN  \E p \in Programs :
           LET r == output[p][n]
           IN  \/ r.verdict # e.verdict
               \/ r.first_rejecting_gate # e.gate
               \/ /\ corpus.directory = "mutation-tests"
                  /\ e.target # None
                  /\ LET label == r.layers[e.target.layer]
                     IN  label.rule # e.target.rule \/ label.edge # e.target.edge}

Cells == (DOMAIN corpus.lists) \X LayerNames

Agreements ==
  {cell \in Cells :
     output["js"][cell[1]].layers[cell[2]] = output["py"][cell[1]].layers[cell[2]]}

Compared ==
  [drift |-> FALSE, mismatches |-> Mismatches,
   disagreements |-> Cells \ Agreements]

(* The single-fault corpus is frozen by one script and compared by another. *)
Freeze ==
  /\ corpus.directory = "mutation-tests"
  /\ MayFreeze
  /\ frozen' = Files
  /\ UNCHANGED <<corpus, packet, output, report>>

CompareMutations ==
  /\ corpus.directory = "mutation-tests"
  /\ frozen # None
  /\ report' = IF frozen = Files THEN Compared
               ELSE [drift |-> TRUE, mismatches |-> {}, disagreements |-> {}]
  /\ UNCHANGED <<corpus, packet, output, frozen>>

(* The multi-fault corpus is frozen by the script that compares it. *)
FreezeAndCompare ==
  /\ corpus.directory = "multifault-tests"
  /\ MayFreeze
  /\ frozen' = Files
  /\ report' = Compared
  /\ UNCHANGED <<corpus, packet, output>>

CorpusNext ==
  \/ \E b \in Bases : Generate(b)
  \/ \E p \in Programs : RunLabeller(p)
  \/ Freeze \/ CompareMutations \/ FreezeAndCompare

CorpusSpec == CorpusInit /\ [][CorpusNext]_corpusVars

-----------------------------------------------------------------------------
(* What the constants are.                                                 *)

Datasets == DOMAIN Point

Measurement ==
  [profile_digest : Digests, required_profile_digest : Digests, dataset : Datasets,
   alpha : Nat, threshold : Nat]

Transaction ==
  [policy : Optional(Policy), evidence : Evidence, attestation : Attestation,
   authority_case : CaseType, measurement : Measurement]

(* p allows b, bootstrapping b's own dataset. *)
Allows(p, b) ==
  LET cache == [key \in {CacheKey(p, b.measurement)} |-> Bootstrap(p, b.measurement)]
  IN  Evaluate(p, b, cache).verdict = "ALLOW"

(* A base is allowed by both labellers ("first ALLOW in frozen independent *)
(* evaluator output") and has a second edge for A3 to show at.             *)
ASSUME BasesAssumption ==
  \A b \in Bases :
    /\ b \in Transaction
    /\ Len(b.authority_case.edges) >= 2
    /\ \A p \in Programs : Allows(p, b)

(* A source was found by the rule JavaScript reported for it. *)
ASSUME SourceAssumption ==
  /\ \A r \in {"P1", "P2", "P3", "P4", "P5"} :
       Source[r].policy \in Optional(Policy) /\ JsPolicyLayer(Source[r].policy).rule = r
  /\ \A r \in {"E1", "E2"} : JsEvidenceLayer(Source[r].evidence).rule = r

(* The values the faults put in are no part of what a base is compared to. *)
ASSUME ForeignAssumption ==
  /\ "intruder" # base.root_principal
  /\ "invalid" \notin base.transitions[base.root_role]
  /\ "USD" # base.scope.currency
  /\ OutOfScope \notin base.scope.operations \cup base.scope.resources \cup base.scope.tools
                        \cup base.scope.audiences \cup base.scope.purposes
  /\ \A b \in Bases :
       LET c == b.authority_case
       IN  /\ c.action.subject # "intruder"
           /\ OutOfScope \notin {b.attestation.reference_digest,
                                 b.measurement.required_profile_digest}
           /\ LET g == c.edges[Len(c.edges)].grant
              IN  OutOfScope \notin g.operations \cup g.resources \cup g.tools
                                      \cup g.audiences \cup g.purposes

(* "the fixed dataset whose point estimate is below 0.75" and the one      *)
(* "whose point passes but LCB fails" (generate_mutation_corpus.py:362,    *)
(* 370), by either bootstrap.                                              *)
ASSUME BootstrapAssumption ==
  /\ Point["dataset-03"] < Threshold /\ ~ (Point["dataset-01"] < Threshold)
  /\ \A p \in Programs, b \in Bases : Lcb[p]["dataset-01"][b.measurement.alpha] < Threshold

Count == 37

LayerOf(f) ==
  IF f <= 5 THEN "policy" ELSE IF f <= 7 THEN "evidence" ELSE IF f <= 10 THEN "state"
  ELSE IF f <= 34 THEN "authority" ELSE "measurement"

(* Fault f, put in with g, is the one reported: a later edge is looked at  *)
(* after an earlier one, whatever the rule, a policy has to be there to be *)
(* wrong in anything else, and a measurement has one dataset.              *)
Comparable(f, g) ==
  /\ f < g
  /\ LayerOf(f) = LayerOf(g) => LayerOf(f) \in {"state", "authority", "measurement"}
  /\ f = 14 => g \notin 15..24
  /\ <<f, g>> # <<36, 37>>

(* The faults of an item are listed in the order of their rules.           *)
ASSUME CorporaAssumption ==
  \A c \in Corpora :
    /\ c.directory \in {"mutation-tests", "multifault-tests"}
    /\ c.lists \in Seq(Seq(1..Count))
    /\ \A n \in DOMAIN c.lists : \A j, k \in DOMAIN c.lists[n] :
         j < k => Comparable(c.lists[n][j], c.lists[n][k])

-----------------------------------------------------------------------------
(* Correctness.                                                            *)

(* Every layer of every row, of either program, has the rule of the first  *)
(* fault put into that layer, and passes if none was: no fault reaches     *)
(* into another layer, hides behind a later one, or is carried from one    *)
(* item to the next by a copy or a cache ("37 isolated faults",            *)
(* compare_mutations.py:121).                                              *)
FaultsStayInTheirLayer ==
  LET registry == Registry(CHOOSE b \in Bases : TRUE)
  IN  \A p \in Programs : output[p] # None =>
        \A n \in DOMAIN corpus.lists, layer \in LayerNames :
          LET label == output[p][n].layers[layer]
              hit == {f \in {corpus.lists[n][k] : k \in DOMAIN corpus.lists[n]} :
                        registry[f].layer = layer}
          IN  IF hit = {} THEN label = Passing(layer)
              ELSE \E f \in hit : /\ \A g \in hit : f <= g
                                 /\ label.rule = registry[f].rule
                                 /\ label.gate = registry[f].gate
                                 /\ label.edge = registry[f].edge

(* In whatever order the scripts are run, and from whatever passing base   *)
(* the packet and each output were made, a comparison stops at a file that *)
(* has changed since the freeze or finds the two programs, with their own  *)
(* bootstraps and their differently keyed caches, in agreement on every    *)
(* field and with the expected gates (compare_mutations.py:33-87).         *)
ComparisonsPass ==
  report # None =>
    /\ report.drift \/ report.mismatches \cup report.disagreements = {}
    /\ corpus.directory = "multifault-tests" => ~ report.drift
=============================================================================
