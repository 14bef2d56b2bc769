--------------------------- MODULE LabelCorpusProofs ---------------------------
(***************************************************************************)
(* Proofs about the differential tests of the labellers, for every base,   *)
(* every bootstrap and every corpus the generators can be given.           *)
(***************************************************************************)
EXTENDS LabelCorpus, ComposedTransactionProofs, SequenceTheorems

-----------------------------------------------------------------------------
(* Sequences.                                                              *)

IsSequence(s, n) == s = [k \in 1..n |-> s[k]]

LEMMA SequenceIn ==
  ASSUME NEW n \in Nat, NEW s, IsSequence(s, n), NEW S, \A k \in 1..n : s[k] \in S
  PROVE  s \in Seq(S) /\ Len(s) = n
<1>1. s \in [1..n -> S]
  BY DEF IsSequence
<1>2. s \in Seq(S)
  BY <1>1, SeqDef
<1>3. DOMAIN s = 1..n /\ DOMAIN s = 1..Len(s) /\ Len(s) \in Nat
  BY <1>1, <1>2, LenProperties
<1> QED
  BY <1>2, <1>3

(* u is the n elements of s and then the m elements of t. *)
Joins(u, s, n, t, m) ==
  /\ IsSequence(u, n + m)
  /\ \A k \in 1..n : u[k] = s[k]
  /\ \A k \in 1..m : u[n + k] = t[k]

LEMMA ConcatIs ==
  ASSUME NEW n \in Nat, NEW m \in Nat, NEW s, NEW t, IsSequence(s, n), IsSequence(t, m),
         NEW u, u = s \o t
  PROVE  Joins(u, s, n, t, m)
<1> DEFINE S == {s[k] : k \in 1..n} \cup {t[k] : k \in 1..m}
<1>1. s \in Seq(S) /\ Len(s) = n
  <2>1. \A k \in 1..n : s[k] \in S
    OBVIOUS
  <2> HIDE DEF S
  <2> QED
    BY <2>1, SequenceIn
<1>2. t \in Seq(S) /\ Len(t) = m
  <2>1. \A k \in 1..m : t[k] \in S
    OBVIOUS
  <2> HIDE DEF S
  <2> QED
    BY <2>1, SequenceIn
<1> HIDE DEF S
<1>3. /\ u \in Seq(S) /\ Len(u) = n + m
      /\ \A k \in 1..n+m : u[k] = IF k <= n THEN s[k] ELSE t[k - n]
  BY <1>1, <1>2, ConcatProperties
<1>4. u \in [1..n+m -> S]
  BY <1>3, LenProperties
<1>5. IsSequence(u, n + m)
  BY <1>4 DEF IsSequence
<1>6. \A k \in 1..n : k \in 1..n+m /\ k <= n
  OBVIOUS
<1>7. \A k \in 1..m : n + k \in 1..n+m /\ ~ (n + k <= n) /\ (n + k) - n = k
  OBVIOUS
<1> QED
  BY <1>3, <1>5, <1>6, <1>7 DEF Joins

-----------------------------------------------------------------------------
(* The registry.                                                           *)

LEMMA RegistryParts ==
  ASSUME NEW b
  PROVE  LET c == b.authority_case
         IN  /\ \A k \in 1..7 : Registry(b)[k] = SpliceFaults[k]
             /\ \A k \in 1..3 : Registry(b)[7 + k] = FaultsOnState[k]
             /\ \A k \in 1..14 : Registry(b)[10 + k] = FaultsOnEdges(c)[k]
             /\ \A k \in 1..7 : Registry(b)[24 + k] = FaultsOnAction(c)[k]
             /\ \A k \in 1..3 : Registry(b)[31 + k] = FaultsOnReceipt(c)[k]
             /\ \A k \in 1..3 : Registry(b)[34 + k] = FaultsOnMeasurement[k]
<1> DEFINE c == b.authority_case
           p1 == SpliceFaults
           p2 == p1 \o FaultsOnState
           p3 == p2 \o FaultsOnEdges(c)
           p4 == p3 \o FaultsOnAction(c)
           p5 == p4 \o FaultsOnReceipt(c)
           p6 == p5 \o FaultsOnMeasurement
<1>1. IsSequence(p1, 7)
  BY DEF IsSequence, SpliceFaults
<1>2. IsSequence(FaultsOnState, 3)
  BY DEF IsSequence, FaultsOnState
<1>3. IsSequence(FaultsOnEdges(c), 14)
  BY DEF IsSequence, FaultsOnEdges
<1>4. IsSequence(FaultsOnAction(c), 7)
  BY DEF IsSequence, FaultsOnAction
<1>5. IsSequence(FaultsOnReceipt(c), 3)
  BY DEF IsSequence, FaultsOnReceipt
<1>6. IsSequence(FaultsOnMeasurement, 3)
  BY DEF IsSequence, FaultsOnMeasurement
<1>7. Registry(b) = p6
  BY DEF Registry
<1> HIDE DEF p1, c
<1>8. /\ 3 \in Nat /\ 7 \in Nat /\ 10 \in Nat /\ 14 \in Nat /\ 24 \in Nat /\ 31 \in Nat /\ 34 \in Nat
      /\ 7 + 3 = 10 /\ 10 + 14 = 24 /\ 24 + 7 = 31 /\ 31 + 3 = 34
  OBVIOUS
<1>9. /\ IsSequence(p2, 10) /\ \A k \in 1..7 : p2[k] = p1[k]
      /\ \A k \in 1..3 : p2[7 + k] = FaultsOnState[k]
  <2>1. p2 = p1 \o FaultsOnState
    OBVIOUS
  <2> HIDE DEF p2
  <2>2. Joins(p2, p1, 7, FaultsOnState, 3)
    BY <1>1, <1>2, <1>8, <2>1, ConcatIs
  <2> QED
    BY <1>8, <2>2 DEF Joins
<1> HIDE DEF p2
<1>10. /\ IsSequence(p3, 24) /\ \A k \in 1..10 : p3[k] = p2[k]
       /\ \A k \in 1..14 : p3[10 + k] = FaultsOnEdges(c)[k]
  <2>1. p3 = p2 \o FaultsOnEdges(c)
    OBVIOUS
  <2> HIDE DEF p3
  <2>2. Joins(p3, p2, 10, FaultsOnEdges(c), 14)
    BY <1>9, <1>3, <1>8, <2>1, ConcatIs
  <2> QED
    BY <1>8, <2>2 DEF Joins
<1> HIDE DEF p3
<1>11. /\ IsSequence(p4, 31) /\ \A k \in 1..24 : p4[k] = p3[k]
       /\ \A k \in 1..7 : p4[24 + k] = FaultsOnAction(c)[k]
  <2>1. p4 = p3 \o FaultsOnAction(c)
    OBVIOUS
  <2> HIDE DEF p4
  <2>2. Joins(p4, p3, 24, FaultsOnAction(c), 7)
    BY <1>10, <1>4, <1>8, <2>1, ConcatIs
  <2> QED
    BY <1>8, <2>2 DEF Joins
<1> HIDE DEF p4
<1>12. /\ IsSequence(p5, 34) /\ \A k \in 1..31 : p5[k] = p4[k]
       /\ \A k \in 1..3 : p5[31 + k] = FaultsOnReceipt(c)[k]
  <2>1. p5 = p4 \o FaultsOnReceipt(c)
    OBVIOUS
  <2> HIDE DEF p5
  <2>2. Joins(p5, p4, 31, FaultsOnReceipt(c), 3)
    BY <1>11, <1>5, <1>8, <2>1, ConcatIs
  <2> QED
    BY <1>8, <2>2 DEF Joins
<1> HIDE DEF p5
<1>13. /\ IsSequence(p6, 37) /\ \A k \in 1..34 : p6[k] = p5[k]
       /\ \A k \in 1..3 : p6[34 + k] = FaultsOnMeasurement[k]
  <2>1. p6 = p5 \o FaultsOnMeasurement
    OBVIOUS
  <2> HIDE DEF p6
  <2>2. Joins(p6, p5, 34, FaultsOnMeasurement, 3)
    BY <1>12, <1>6, <1>8, <2>1, ConcatIs
  <2> QED
    BY <1>8, <2>2 DEF Joins
<1> HIDE DEF p6
<1>14. \A k \in 1..7 : p6[k] = p1[k]
  BY <1>9, <1>10, <1>11, <1>12, <1>13
<1>15. \A k \in 1..3 : p6[7 + k] = FaultsOnState[k]
  BY <1>9, <1>10, <1>11, <1>12, <1>13
<1>16. \A k \in 1..14 : p6[10 + k] = FaultsOnEdges(c)[k]
  BY <1>10, <1>11, <1>12, <1>13
<1>17. \A k \in 1..7 : p6[24 + k] = FaultsOnAction(c)[k]
  BY <1>11, <1>12, <1>13
<1>18. \A k \in 1..3 : p6[31 + k] = FaultsOnReceipt(c)[k]
  BY <1>12, <1>13
<1> QED
  BY <1>7, <1>13, <1>14, <1>15, <1>16, <1>17, <1>18 DEF p1, c

(* The label each fault is expected to give its layer. *)
FaultLabels ==
  <<Label("MISSING", "policy.missing", "P1", 0),
    Label("INVALID_SIGNATURE", "policy.signature", "P2", 0),
    Label("SUBSTITUTED", "policy.substituted", "P3", 0),
    Label("STALE", "policy.stale", "P4", 0),
    Label("SUBSTITUTED", "policy.substituted", "P5", 0),
    Label("TAMPERED", "evidence.integrity", "E1", 0),
    Label("REPLAY", "evidence.replay", "E2", 0),
    Label("CONTRAINDICATED", "state.contraindicated", "S1", 0),
    Label("STALE", "state.stale", "S2", 0),
    Label("REFERENCE_MISMATCH", "state.reference", "S3", 0),
    Label("DENY", "protocol.valid", "A0", 0),
    Label("DENY", "edge.lineage", "A1", 0),
    Label("DENY", "edge.signature", "A2", 0),
    Label("DENY", "edge.parent_delegable", "A3", 1),
    Label("DENY", "edge.role_transition", "A4", 0),
    Label("DENY", "edge.status", "A5", 0),
    Label("DENY", "edge.freshness", "A6", 0),
    Label("DENY", "edge.scope.operations", "A7", 0),
    Label("DENY", "edge.scope.resources", "A7", 0),
    Label("DENY", "edge.scope.tools", "A7", 0),
    Label("DENY", "edge.scope.audiences", "A7", 0),
    Label("DENY", "edge.scope.purposes", "A7", 0),
    Label("DENY", "edge.scope.currency", "A8", 0),
    Label("DENY", "edge.scope.amount_max", "A9", 0),
    Label("DENY", "action.subject_role", "A10", 0),
    Label("DENY", "action.operation", "A11", 0),
    Label("DENY", "action.resource", "A12", 0),
    Label("DENY", "action.tool", "A13", 0),
    Label("DENY", "action.audience", "A14", 0),
    Label("DENY", "action.purpose", "A15", 0),
    Label("DENY", "action.amount_currency", "A16", 0),
    Label("DENY", "effect.native_validity", "A17", 0),
    Label("DENY", "effect.time_binding", "A18", 0),
    Label("DENY", "effect.action_binding", "A19", 0),
    Label("PROFILE_MISMATCH", "measurement.profile", "M1", 0),
    Label("FAIL_POINT", "measurement.point", "M2", 0),
    Label("FAIL_LCB", "measurement.confidence", "M3", 0)>>

(* fault is aimed at the layer and the label of the fault with number f. *)
AimedAs(fault, f) ==
  /\ fault.layer = LayerOf(f)
  /\ fault.rule = FaultLabels[f].rule
  /\ fault.gate = FaultLabels[f].gate
  /\ fault.edge = FaultLabels[f].edge

LEMMA RegistryAims ==
  ASSUME NEW b
  PROVE  \A f \in 1..37 : AimedAs(Registry(b)[f], f)
<1> DEFINE c == b.authority_case
<1>1. \A k \in 1..7 : AimedAs(SpliceFaults[k], k)
  <2>1. \A k \in 1..7 : k = 1 \/ k = 2 \/ k = 3 \/ k = 4 \/ k = 5 \/ k = 6 \/ k = 7
    OBVIOUS
  <2> QED
    BY <2>1, SMTT(60) DEF AimedAs, SpliceFaults, Splice, Fault, FaultLabels, Label, LayerOf
<1>2. \A k \in 1..3 : AimedAs(FaultsOnState[k], 7 + k)
  BY DEF AimedAs, FaultsOnState, Put, Fault, FaultLabels, Label, LayerOf
<1>3. \A k \in 1..14 : AimedAs(FaultsOnEdges(c)[k], 10 + k)
  BY DEF AimedAs, FaultsOnEdges, OnFirstEdge, OnFirstGrant, Put, Fault, FaultLabels, Label, LayerOf
<1>4. \A k \in 1..7 : AimedAs(FaultsOnAction(c)[k], 24 + k)
  BY SMTT(60) DEF AimedAs, FaultsOnAction, Put, Fault, FaultLabels, Label, LayerOf
<1>5. \A k \in 1..3 : AimedAs(FaultsOnReceipt(c)[k], 31 + k)
  BY DEF AimedAs, FaultsOnReceipt, Put, Fault, FaultLabels, Label, LayerOf
<1>6. \A k \in 1..3 : AimedAs(FaultsOnMeasurement[k], 34 + k)
  BY DEF AimedAs, FaultsOnMeasurement, Put, Fault, FaultLabels, Label, LayerOf
<1> SUFFICES ASSUME NEW f \in 1..37 PROVE AimedAs(Registry(b)[f], f)
  OBVIOUS
<1>7. CASE f \in 1..7
  BY <1>7, <1>1, RegistryParts
<1>8. CASE f \in 8..10
  <2>1. PICK k \in 1..3 : f = 7 + k
    <3> f - 7 \in 1..3 /\ f = 7 + (f - 7)
      BY <1>8
    <3> QED
      OBVIOUS
  <2>2. Registry(b)[7 + k] = FaultsOnState[k]
    BY RegistryParts
  <2> QED
    BY <2>1, <2>2, <1>2
<1>9. CASE f \in 11..24
  <2>1. PICK k \in 1..14 : f = 10 + k
    <3> f - 10 \in 1..14 /\ f = 10 + (f - 10)
      BY <1>9
    <3> QED
      OBVIOUS
  <2>2. Registry(b)[10 + k] = FaultsOnEdges(c)[k]
    BY RegistryParts
  <2> QED
    BY <2>1, <2>2, <1>3
<1>10. CASE f \in 25..31
  <2>1. PICK k \in 1..7 : f = 24 + k
    <3> f - 24 \in 1..7 /\ f = 24 + (f - 24)
      BY <1>10
    <3> QED
      OBVIOUS
  <2>2. Registry(b)[24 + k] = FaultsOnAction(c)[k]
    BY RegistryParts
  <2> QED
    BY <2>1, <2>2, <1>4
<1>11. CASE f \in 32..34
  <2>1. PICK k \in 1..3 : f = 31 + k
    <3> f - 31 \in 1..3 /\ f = 31 + (f - 31)
      BY <1>11
    <3> QED
      OBVIOUS
  <2>2. Registry(b)[31 + k] = FaultsOnReceipt(c)[k]
    BY RegistryParts
  <2> QED
    BY <2>1, <2>2, <1>5
<1>12. CASE f \in 35..37
  <2>1. PICK k \in 1..3 : f = 34 + k
    <3> f - 34 \in 1..3 /\ f = 34 + (f - 34)
      BY <1>12
    <3> QED
      OBVIOUS
  <2>2. Registry(b)[34 + k] = FaultsOnMeasurement[k]
    BY RegistryParts
  <2> QED
    BY <2>1, <2>2, <1>6
<1> QED
  BY <1>7, <1>8, <1>9, <1>10, <1>11, <1>12

-----------------------------------------------------------------------------
(* What each fault changes.                                                *)

OneChange(path, value) == <<<<path, value>>>>
TwoChanges(name) == <<<<<<"dataset">>, name>>, <<<<"threshold">>, Threshold>>>>

LEMMA SpliceChanges ==
  ASSUME NEW b
  PROVE  /\ Registry(b)[1].changes = OneChange(<<>>, Source["P1"].policy)
         /\ Registry(b)[2].changes = OneChange(<<>>, Source["P2"].policy)
         /\ Registry(b)[3].changes = OneChange(<<>>, Source["P3"].policy)
         /\ Registry(b)[4].changes = OneChange(<<>>, Source["P4"].policy)
         /\ Registry(b)[5].changes = OneChange(<<>>, Source["P5"].policy)
         /\ Registry(b)[6].changes = OneChange(<<>>, Source["E1"].evidence)
         /\ Registry(b)[7].changes = OneChange(<<>>, Source["E2"].evidence)
<1>1. Registry(b)[1].changes = OneChange(<<>>, Source["P1"].policy)
  <2>1. SpliceFaults[1].changes = OneChange(<<>>, Source["P1"].policy)
    BY DEF SpliceFaults, Splice, Fault, LayerKey, OneChange
  <2>2. Registry(b)[0 + 1] = SpliceFaults[1]
    BY RegistryParts
  <2> QED
    BY <2>1, <2>2
<1>2. Registry(b)[2].changes = OneChange(<<>>, Source["P2"].policy)
  <2>1. SpliceFaults[2].changes = OneChange(<<>>, Source["P2"].policy)
    BY DEF SpliceFaults, Splice, Fault, LayerKey, OneChange
  <2>2. Registry(b)[0 + 2] = SpliceFaults[2]
    BY RegistryParts
  <2> QED
    BY <2>1, <2>2
<1>3. Registry(b)[3].changes = OneChange(<<>>, Source["P3"].policy)
  <2>1. SpliceFaults[3].changes = OneChange(<<>>, Source["P3"].policy)
    BY DEF SpliceFaults, Splice, Fault, LayerKey, OneChange
  <2>2. Registry(b)[0 + 3] = SpliceFaults[3]
    BY RegistryParts
  <2> QED
    BY <2>1, <2>2
<1>4. Registry(b)[4].changes = OneChange(<<>>, Source["P4"].policy)
  <2>1. SpliceFaults[4].changes = OneChange(<<>>, Source["P4"].policy)
    BY DEF SpliceFaults, Splice, Fault, LayerKey, OneChange
  <2>2. Registry(b)[0 + 4] = SpliceFaults[4]
    BY RegistryParts
  <2> QED
    BY <2>1, <2>2
<1>5. Registry(b)[5].changes = OneChange(<<>>, Source["P5"].policy)
  <2>1. SpliceFaults[5].changes = OneChange(<<>>, Source["P5"].policy)
    BY DEF SpliceFaults, Splice, Fault, LayerKey, OneChange
  <2>2. Registry(b)[0 + 5] = SpliceFaults[5]
    BY RegistryParts
  <2> QED
    BY <2>1, <2>2
<1>6. Registry(b)[6].changes = OneChange(<<>>, Source["E1"].evidence)
  <2>1. SpliceFaults[6].changes = OneChange(<<>>, Source["E1"].evidence)
    BY DEF SpliceFaults, Splice, Fault, LayerKey, OneChange
  <2>2. Registry(b)[0 + 6] = SpliceFaults[6]
    BY RegistryParts
  <2> QED
    BY <2>1, <2>2
<1>7. Registry(b)[7].changes = OneChange(<<>>, Source["E2"].evidence)
  <2>1. SpliceFaults[7].changes = OneChange(<<>>, Source["E2"].evidence)
    BY DEF SpliceFaults, Splice, Fault, LayerKey, OneChange
  <2>2. Registry(b)[0 + 7] = SpliceFaults[7]
    BY RegistryParts
  <2> QED
    BY <2>1, <2>2
<1> QED
  BY <1>1, <1>2, <1>3, <1>4, <1>5, <1>6, <1>7

LEMMA StateChanges ==
  ASSUME NEW b
  PROVE  /\ Registry(b)[8].changes = OneChange(<<"status">>, "negative")
         /\ Registry(b)[9].changes = OneChange(<<"issued_at">>, DecisionTime + 1)
         /\ Registry(b)[10].changes = OneChange(<<"observed_digest">>, OutOfScope)
<1>1. Registry(b)[8].changes = OneChange(<<"status">>, "negative")
  <2>1. FaultsOnState[1].changes = OneChange(<<"status">>, "negative")
    BY DEF FaultsOnState, Put, Fault, OneChange
  <2>2. Registry(b)[7 + 1] = FaultsOnState[1]
    BY RegistryParts
  <2> QED
    BY <2>1, <2>2
<1>2. Registry(b)[9].changes = OneChange(<<"issued_at">>, DecisionTime + 1)
  <2>1. FaultsOnState[2].changes = OneChange(<<"issued_at">>, DecisionTime + 1)
    BY DEF FaultsOnState, Put, Fault, OneChange
  <2>2. Registry(b)[7 + 2] = FaultsOnState[2]
    BY RegistryParts
  <2> QED
    BY <2>1, <2>2
<1>3. Registry(b)[10].changes = OneChange(<<"observed_digest">>, OutOfScope)
  <2>1. FaultsOnState[3].changes = OneChange(<<"observed_digest">>, OutOfScope)
    BY DEF FaultsOnState, Put, Fault, OneChange
  <2>2. Registry(b)[7 + 3] = FaultsOnState[3]
    BY RegistryParts
  <2> QED
    BY <2>1, <2>2
<1> QED
  BY <1>1, <1>2, <1>3

LEMMA EdgeChanges ==
  ASSUME NEW b
  PROVE  LET c == b.authority_case
         IN  /\ Registry(b)[11].changes = OneChange(<<"protocol_valid">>, FALSE)
             /\ Registry(b)[12].changes = OneChange(<<"edges", 1, "delegator">>, "intruder")
             /\ Registry(b)[13].changes = OneChange(<<"edges", 1, "issuer_signature_valid">>, FALSE)
             /\ Registry(b)[14].changes = OneChange(<<"edges", 1, "grant", "delegable">>, FALSE)
             /\ Registry(b)[15].changes = OneChange(<<"edges", 1, "to_role">>, "invalid")
             /\ Registry(b)[16].changes = OneChange(<<"edges", 1, "status">>, "revoked")
             /\ Registry(b)[17].changes = OneChange(<<"edges", 1, "not_before">>, EffectTime + 1)
             /\ Registry(b)[18].changes = OneChange(<<"edges", 1, "grant", "operations">>, c.edges[1].grant.operations \cup {OutOfScope})
             /\ Registry(b)[19].changes = OneChange(<<"edges", 1, "grant", "resources">>, c.edges[1].grant.resources \cup {OutOfScope})
             /\ Registry(b)[20].changes = OneChange(<<"edges", 1, "grant", "tools">>, c.edges[1].grant.tools \cup {OutOfScope})
             /\ Registry(b)[21].changes = OneChange(<<"edges", 1, "grant", "audiences">>, c.edges[1].grant.audiences \cup {OutOfScope})
             /\ Registry(b)[22].changes = OneChange(<<"edges", 1, "grant", "purposes">>, c.edges[1].grant.purposes \cup {OutOfScope})
             /\ Registry(b)[23].changes = OneChange(<<"edges", 1, "grant", "currency">>, "USD")
             /\ Registry(b)[24].changes = OneChange(<<"edges", 1, "grant", "amount_max">>, base.scope.amount_max + 1)
<1> DEFINE c == b.authority_case
<1>1. Registry(b)[11].changes = OneChange(<<"protocol_valid">>, FALSE)
  <2>1. FaultsOnEdges(c)[1].changes = OneChange(<<"protocol_valid">>, FALSE)
    BY DEF FaultsOnEdges, OnFirstEdge, OnFirstGrant, Put, Fault, OneChange
  <2>2. Registry(b)[10 + 1] = FaultsOnEdges(c)[1]
    BY RegistryParts
  <2>3. Registry(b)[10 + 1] = Registry(b)[11]
    OBVIOUS
  <2> QED
    BY <2>1, <2>2, <2>3, Zenon
<1>2. Registry(b)[12].changes = OneChange(<<"edges", 1, "delegator">>, "intruder")
  <2>1. FaultsOnEdges(c)[2].changes = OneChange(<<"edges", 1, "delegator">>, "intruder")
    BY DEF FaultsOnEdges, OnFirstEdge, OnFirstGrant, Put, Fault, OneChange
  <2>2. Registry(b)[10 + 2] = FaultsOnEdges(c)[2]
    BY RegistryParts
  <2> QED
    BY <2>1, <2>2
<1>3. Registry(b)[13].changes = OneChange(<<"edges", 1, "issuer_signature_valid">>, FALSE)
  <2>1. FaultsOnEdges(c)[3].changes = OneChange(<<"edges", 1, "issuer_signature_valid">>, FALSE)
    BY DEF FaultsOnEdges, OnFirstEdge, OnFirstGrant, Put, Fault, OneChange
  <2>2. Registry(b)[10 + 3] = FaultsOnEdges(c)[3]
    BY RegistryParts
  <2>3. Registry(b)[10 + 3] = Registry(b)[13]
    OBVIOUS
  <2> QED
    BY <2>1, <2>2, <2>3, Zenon
<1>4. Registry(b)[14].changes = OneChange(<<"edges", 1, "grant", "delegable">>, FALSE)
  <2>1. FaultsOnEdges(c)[4].changes = OneChange(<<"edges", 1, "grant", "delegable">>, FALSE)
    BY DEF FaultsOnEdges, OnFirstEdge, OnFirstGrant, Put, Fault, OneChange
  <2>2. Registry(b)[10 + 4] = FaultsOnEdges(c)[4]
    BY RegistryParts
  <2>3. Registry(b)[10 + 4] = Registry(b)[14]
    OBVIOUS
  <2> QED
    BY <2>1, <2>2, <2>3, Zenon
<1>5. Registry(b)[15].changes = OneChange(<<"edges", 1, "to_role">>, "invalid")
  <2>1. FaultsOnEdges(c)[5].changes = OneChange(<<"edges", 1, "to_role">>, "invalid")
    BY DEF FaultsOnEdges, OnFirstEdge, OnFirstGrant, Put, Fault, OneChange
  <2>2. Registry(b)[10 + 5] = FaultsOnEdges(c)[5]
    BY RegistryParts
  <2> QED
    BY <2>1, <2>2
<1>6. Registry(b)[16].changes = OneChange(<<"edges", 1, "status">>, "revoked")
  <2>1. FaultsOnEdges(c)[6].changes = OneChange(<<"edges", 1, "status">>, "revoked")
    BY DEF FaultsOnEdges, OnFirstEdge, OnFirstGrant, Put, Fault, OneChange
  <2>2. Registry(b)[10 + 6] = FaultsOnEdges(c)[6]
    BY RegistryParts
  <2> QED
    BY <2>1, <2>2
<1>7. Registry(b)[17].changes = OneChange(<<"edges", 1, "not_before">>, EffectTime + 1)
  <2>1. FaultsOnEdges(c)[7].changes = OneChange(<<"edges", 1, "not_before">>, EffectTime + 1)
    BY DEF FaultsOnEdges, OnFirstEdge, OnFirstGrant, Put, Fault, OneChange
  <2>2. Registry(b)[10 + 7] = FaultsOnEdges(c)[7]
    BY RegistryParts
  <2> QED
    BY <2>1, <2>2
<1>8. Registry(b)[18].changes = OneChange(<<"edges", 1, "grant", "operations">>, c.edges[1].grant.operations \cup {OutOfScope})
  <2>1. FaultsOnEdges(c)[8].changes = OneChange(<<"edges", 1, "grant", "operations">>, c.edges[1].grant.operations \cup {OutOfScope})
    BY DEF FaultsOnEdges, OnFirstEdge, OnFirstGrant, Put, Fault, OneChange
  <2>2. Registry(b)[10 + 8] = FaultsOnEdges(c)[8]
    BY RegistryParts
  <2> QED
    BY <2>1, <2>2
<1>9. Registry(b)[19].changes = OneChange(<<"edges", 1, "grant", "resources">>, c.edges[1].grant.resources \cup {OutOfScope})
  <2>1. FaultsOnEdges(c)[9].changes = OneChange(<<"edges", 1, "grant", "resources">>, c.edges[1].grant.resources \cup {OutOfScope})
    BY DEF FaultsOnEdges, OnFirstEdge, OnFirstGrant, Put, Fault, OneChange
  <2>2. Registry(b)[10 + 9] = FaultsOnEdges(c)[9]
    BY RegistryParts
  <2> QED
    BY <2>1, <2>2
<1>10. Registry(b)[20].changes = OneChange(<<"edges", 1, "grant", "tools">>, c.edges[1].grant.tools \cup {OutOfScope})
  <2>1. FaultsOnEdges(c)[10].changes = OneChange(<<"edges", 1, "grant", "tools">>, c.edges[1].grant.tools \cup {OutOfScope})
    BY DEF FaultsOnEdges, OnFirstEdge, OnFirstGrant, Put, Fault, OneChange
  <2>2. Registry(b)[10 + 10] = FaultsOnEdges(c)[10]
    BY RegistryParts
  <2> QED
    BY <2>1, <2>2
<1>11. Registry(b)[21].changes = OneChange(<<"edges", 1, "grant", "audiences">>, c.edges[1].grant.audiences \cup {OutOfScope})
  <2>1. FaultsOnEdges(c)[11].changes = OneChange(<<"edges", 1, "grant", "audiences">>, c.edges[1].grant.audiences \cup {OutOfScope})
    BY DEF FaultsOnEdges, OnFirstEdge, OnFirstGrant, Put, Fault, OneChange
  <2>2. Registry(b)[10 + 11] = FaultsOnEdges(c)[11]
    BY RegistryParts
  <2> QED
    BY <2>1, <2>2
<1>12. Registry(b)[22].changes = OneChange(<<"edges", 1, "grant", "purposes">>, c.edges[1].grant.purposes \cup {OutOfScope})
  <2>1. FaultsOnEdges(c)[12].changes = OneChange(<<"edges", 1, "grant", "purposes">>, c.edges[1].grant.purposes \cup {OutOfScope})
    BY DEF FaultsOnEdges, OnFirstEdge, OnFirstGrant, Put, Fault, OneChange
  <2>2. Registry(b)[10 + 12] = FaultsOnEdges(c)[12]
    BY RegistryParts
  <2> QED
    BY <2>1, <2>2
<1>13. Registry(b)[23].changes = OneChange(<<"edges", 1, "grant", "currency">>, "USD")
  <2>1. FaultsOnEdges(c)[13].changes = OneChange(<<"edges", 1, "grant", "currency">>, "USD")
    BY DEF FaultsOnEdges, OnFirstEdge, OnFirstGrant, Put, Fault, OneChange
  <2>2. Registry(b)[10 + 13] = FaultsOnEdges(c)[13]
    BY RegistryParts
  <2> QED
    BY <2>1, <2>2
<1>14. Registry(b)[24].changes = OneChange(<<"edges", 1, "grant", "amount_max">>, base.scope.amount_max + 1)
  <2>1. FaultsOnEdges(c)[14].changes = OneChange(<<"edges", 1, "grant", "amount_max">>, base.scope.amount_max + 1)
    BY DEF FaultsOnEdges, OnFirstEdge, OnFirstGrant, Put, Fault, OneChange
  <2>2. Registry(b)[10 + 14] = FaultsOnEdges(c)[14]
    BY RegistryParts
  <2> QED
    BY <2>1, <2>2
<1> QED
  BY <1>1, <1>2, <1>3, <1>4, <1>5, <1>6, <1>7, <1>8, <1>9, <1>10, <1>11, <1>12, <1>13, <1>14

LEMMA ActionChanges ==
  ASSUME NEW b
  PROVE  LET c == b.authority_case
         IN  /\ Registry(b)[25].changes = OneChange(<<"action", "subject">>, "intruder")
             /\ Registry(b)[26].changes = OneChange(<<"action", "operation">>, OutOfScope)
             /\ Registry(b)[27].changes = OneChange(<<"action", "resource">>, OutOfScope)
             /\ Registry(b)[28].changes = OneChange(<<"action", "tool">>, OutOfScope)
             /\ Registry(b)[29].changes = OneChange(<<"action", "audience">>, OutOfScope)
             /\ Registry(b)[30].changes = OneChange(<<"action", "purpose">>, OutOfScope)
             /\ Registry(b)[31].changes = OneChange(<<"action", "amount">>, c.edges[Len(c.edges)].grant.amount_max + 1)
<1> DEFINE c == b.authority_case
<1>1. Registry(b)[25].changes = OneChange(<<"action", "subject">>, "intruder")
  <2>1. FaultsOnAction(c)[1].changes = OneChange(<<"action", "subject">>, "intruder")
    BY DEF FaultsOnAction, Put, Fault, OneChange
  <2>2. Registry(b)[24 + 1] = FaultsOnAction(c)[1]
    BY RegistryParts
  <2> QED
    BY <2>1, <2>2
<1>2. Registry(b)[26].changes = OneChange(<<"action", "operation">>, OutOfScope)
  <2>1. FaultsOnAction(c)[2].changes = OneChange(<<"action", "operation">>, OutOfScope)
    BY DEF FaultsOnAction, Put, Fault, OneChange
  <2>2. Registry(b)[24 + 2] = FaultsOnAction(c)[2]
    BY RegistryParts
  <2> QED
    BY <2>1, <2>2
<1>3. Registry(b)[27].changes = OneChange(<<"action", "resource">>, OutOfScope)
  <2>1. FaultsOnAction(c)[3].changes = OneChange(<<"action", "resource">>, OutOfScope)
    BY DEF FaultsOnAction, Put, Fault, OneChange
  <2>2. Registry(b)[24 + 3] = FaultsOnAction(c)[3]
    BY RegistryParts
  <2> QED
    BY <2>1, <2>2
<1>4. Registry(b)[28].changes = OneChange(<<"action", "tool">>, OutOfScope)
  <2>1. FaultsOnAction(c)[4].changes = OneChange(<<"action", "tool">>, OutOfScope)
    BY DEF FaultsOnAction, Put, Fault, OneChange
  <2>2. Registry(b)[24 + 4] = FaultsOnAction(c)[4]
    BY RegistryParts
  <2> QED
    BY <2>1, <2>2
<1>5. Registry(b)[29].changes = OneChange(<<"action", "audience">>, OutOfScope)
  <2>1. FaultsOnAction(c)[5].changes = OneChange(<<"action", "audience">>, OutOfScope)
    BY DEF FaultsOnAction, Put, Fault, OneChange
  <2>2. Registry(b)[24 + 5] = FaultsOnAction(c)[5]
    BY RegistryParts
  <2> QED
    BY <2>1, <2>2
<1>6. Registry(b)[30].changes = OneChange(<<"action", "purpose">>, OutOfScope)
  <2>1. FaultsOnAction(c)[6].changes = OneChange(<<"action", "purpose">>, OutOfScope)
    BY DEF FaultsOnAction, Put, Fault, OneChange
  <2>2. Registry(b)[24 + 6] = FaultsOnAction(c)[6]
    BY RegistryParts
  <2> QED
    BY <2>1, <2>2
<1>7. Registry(b)[31].changes = OneChange(<<"action", "amount">>, c.edges[Len(c.edges)].grant.amount_max + 1)
  <2>1. FaultsOnAction(c)[7].changes = OneChange(<<"action", "amount">>, c.edges[Len(c.edges)].grant.amount_max + 1)
    BY DEF FaultsOnAction, Put, Fault, OneChange
  <2>2. Registry(b)[24 + 7] = FaultsOnAction(c)[7]
    BY RegistryParts
  <2> QED
    BY <2>1, <2>2
<1> QED
  BY <1>1, <1>2, <1>3, <1>4, <1>5, <1>6, <1>7

LEMMA ReceiptChanges ==
  ASSUME NEW b
  PROVE  LET c == b.authority_case
         IN  /\ Registry(b)[32].changes = OneChange(<<"receipt", "native_evidence_valid">>, FALSE)
             /\ Registry(b)[33].changes = OneChange(<<"receipt", "effect_time">>, EffectTime + 1)
             /\ Registry(b)[34].changes = OneChange(<<"receipt", "action", "amount">>, c.receipt.action.amount + 1)
<1> DEFINE c == b.authority_case
<1>1. Registry(b)[32].changes = OneChange(<<"receipt", "native_evidence_valid">>, FALSE)
  <2>1. FaultsOnReceipt(c)[1].changes = OneChange(<<"receipt", "native_evidence_valid">>, FALSE)
    BY DEF FaultsOnReceipt, Put, Fault, OneChange
  <2>2. Registry(b)[31 + 1] = FaultsOnReceipt(c)[1]
    BY RegistryParts
  <2>3. Registry(b)[31 + 1] = Registry(b)[32]
    OBVIOUS
  <2> QED
    BY <2>1, <2>2, <2>3, Zenon
<1>2. Registry(b)[33].changes = OneChange(<<"receipt", "effect_time">>, EffectTime + 1)
  <2>1. FaultsOnReceipt(c)[2].changes = OneChange(<<"receipt", "effect_time">>, EffectTime + 1)
    BY DEF FaultsOnReceipt, Put, Fault, OneChange
  <2>2. Registry(b)[31 + 2] = FaultsOnReceipt(c)[2]
    BY RegistryParts
  <2> QED
    BY <2>1, <2>2
<1>3. Registry(b)[34].changes = OneChange(<<"receipt", "action", "amount">>, c.receipt.action.amount + 1)
  <2>1. FaultsOnReceipt(c)[3].changes = OneChange(<<"receipt", "action", "amount">>, c.receipt.action.amount + 1)
    BY DEF FaultsOnReceipt, Put, Fault, OneChange
  <2>2. Registry(b)[31 + 3] = FaultsOnReceipt(c)[3]
    BY RegistryParts
  <2> QED
    BY <2>1, <2>2
<1> QED
  BY <1>1, <1>2, <1>3

LEMMA MeasurementChanges ==
  ASSUME NEW b
  PROVE  /\ Registry(b)[35].changes = OneChange(<<"profile_digest">>, OutOfScope)
         /\ Registry(b)[36].changes = TwoChanges("dataset-03")
         /\ Registry(b)[37].changes = TwoChanges("dataset-01")
<1>1. Registry(b)[35].changes = OneChange(<<"profile_digest">>, OutOfScope)
  <2>1. FaultsOnMeasurement[1].changes = OneChange(<<"profile_digest">>, OutOfScope)
    BY DEF FaultsOnMeasurement, Put, Fault, OneChange, TwoChanges
  <2>2. Registry(b)[34 + 1] = FaultsOnMeasurement[1]
    BY RegistryParts
  <2> QED
    BY <2>1, <2>2
<1>2. Registry(b)[36].changes = TwoChanges("dataset-03")
  <2>1. FaultsOnMeasurement[2].changes = TwoChanges("dataset-03")
    BY DEF FaultsOnMeasurement, Put, Fault, OneChange, TwoChanges
  <2>2. Registry(b)[34 + 2] = FaultsOnMeasurement[2]
    BY RegistryParts
  <2> QED
    BY <2>1, <2>2
<1>3. Registry(b)[37].changes = TwoChanges("dataset-01")
  <2>1. FaultsOnMeasurement[3].changes = TwoChanges("dataset-01")
    BY DEF FaultsOnMeasurement, Put, Fault, OneChange, TwoChanges
  <2>2. Registry(b)[34 + 3] = FaultsOnMeasurement[3]
    BY RegistryParts
  <2> QED
    BY <2>1, <2>2
<1> QED
  BY <1>1, <1>2, <1>3

-----------------------------------------------------------------------------
(* A base with the faults of a set put into it.                            *)

(* r, where the faults by[x] of F give the fields x the values new[x]. *)
Struck(r, by, new, F) ==
  [x \in DOMAIN r |-> IF x \in DOMAIN by /\ by[x] \in F THEN new[x] ELSE r[x]]

LEMMA StruckStep ==
  ASSUME NEW r, NEW by, NEW new, NEW F, NEW x \in DOMAIN by,
         \A y \in DOMAIN by : by[y] = by[x] => y = x
  PROVE  [Struck(r, by, new, F) EXCEPT ![x] = new[x]] = Struck(r, by, new, F \cup {by[x]})
  BY DEF Struck

LEMMA StruckAlike ==
  ASSUME NEW r, NEW by, NEW new, NEW F, NEW G, \A x \in DOMAIN by : by[x] \in F <=> by[x] \in G
  PROVE  Struck(r, by, new, F) = Struck(r, by, new, G)
  BY DEF Struck

LEMMA StruckNone ==
  ASSUME NEW r, NEW by, NEW new, NEW F, \A x \in DOMAIN by : by[x] \notin F,
         r = [x \in DOMAIN r |-> r[x]]
  PROVE  Struck(r, by, new, F) = r
  BY DEF Struck

GrantFaults ==
  [delegable |-> 14, operations |-> 18, resources |-> 19, tools |-> 20, audiences |-> 21,
   purposes |-> 22, currency |-> 23, amount_max |-> 24]

WorseGrant(g) ==
  [delegable |-> FALSE, operations |-> g.operations \cup {OutOfScope},
   resources |-> g.resources \cup {OutOfScope}, tools |-> g.tools \cup {OutOfScope},
   audiences |-> g.audiences \cup {OutOfScope}, purposes |-> g.purposes \cup {OutOfScope},
   currency |-> "USD", amount_max |-> base.scope.amount_max + 1]

GrantWith(g, F) == Struck(g, GrantFaults, WorseGrant(g), F)

LEMMA GrantStep ==
  ASSUME NEW g, NEW F, NEW x \in DOMAIN GrantFaults
  PROVE  [GrantWith(g, F) EXCEPT ![x] = WorseGrant(g)[x]] = GrantWith(g, F \cup {GrantFaults[x]})
<1>1. \A y \in DOMAIN GrantFaults : GrantFaults[y] = GrantFaults[x] => y = x
  BY DEF GrantFaults
<1> QED
  BY <1>1, StruckStep DEF GrantWith

EdgeOnlyFaults ==
  [delegator |-> 12, issuer_signature_valid |-> 13, to_role |-> 15, status |-> 16,
   not_before |-> 17]

WorseEdge(now) ==
  [delegator |-> "intruder", issuer_signature_valid |-> FALSE, to_role |-> "invalid",
   status |-> "revoked", not_before |-> now + 1]

EdgeWith(e, F) ==
  [Struck(e, EdgeOnlyFaults, WorseEdge(EffectTime), F) EXCEPT !["grant"] = GrantWith(e.grant, F)]

(* Only the first edge is changed. *)
EdgesWith(edges, F) == [edges EXCEPT ![1] = EdgeWith(edges[1], F)]

ActionOnlyFaults ==
  [subject |-> 25, operation |-> 26, resource |-> 27, tool |-> 28, audience |-> 29,
   purpose |-> 30, amount |-> 31]

WorseAction(terminal) ==
  [subject |-> "intruder", operation |-> OutOfScope, resource |-> OutOfScope,
   tool |-> OutOfScope, audience |-> OutOfScope, purpose |-> OutOfScope,
   amount |-> terminal.amount_max + 1]

Terminal(c) == c.edges[Len(c.edges)].grant

ActionWith(c, F) == Struck(c.action, ActionOnlyFaults, WorseAction(Terminal(c)), F)

ReceiptOnlyFaults == [native_evidence_valid |-> 32, effect_time |-> 33]
WorseReceipt(now) == [native_evidence_valid |-> FALSE, effect_time |-> now + 1]

BoundFaults == [amount |-> 34]
WorseBound(a) == [amount |-> a.amount + 1]

ReceiptWith(r, F) ==
  [Struck(r, ReceiptOnlyFaults, WorseReceipt(EffectTime), F) EXCEPT
     !["action"] = Struck(r.action, BoundFaults, WorseBound(r.action), F)]

Invalid == FALSE

CaseWith(c, F) ==
  [x \in DOMAIN c |->
     IF x = "protocol_valid" /\ 11 \in F THEN Invalid
     ELSE IF x = "edges" THEN EdgesWith(c.edges, F)
     ELSE IF x = "action" THEN ActionWith(c, F)
     ELSE IF x = "receipt" THEN ReceiptWith(c.receipt, F)
     ELSE c[x]]

(* F and G have the same faults of lo .. hi. *)
AlikeIn(F, G, lo, hi) == \A f \in lo..hi : f \in F <=> f \in G

LEMMA PartsAlike ==
  ASSUME NEW c, NEW F, NEW G
  PROVE  /\ AlikeIn(F, G, 12, 24) => EdgesWith(c.edges, F) = EdgesWith(c.edges, G)
         /\ AlikeIn(F, G, 25, 31) => ActionWith(c, F) = ActionWith(c, G)
         /\ AlikeIn(F, G, 32, 34) => ReceiptWith(c.receipt, F) = ReceiptWith(c.receipt, G)
         /\ AlikeIn(F, G, 11, 34) => CaseWith(c, F) = CaseWith(c, G)
<1>1. ASSUME AlikeIn(F, G, 12, 24)
      PROVE  EdgesWith(c.edges, F) = EdgesWith(c.edges, G)
  <2> DEFINE e == c.edges[1]
  <2>1. \A x \in DOMAIN EdgeOnlyFaults : EdgeOnlyFaults[x] \in 12..24
    BY DEF EdgeOnlyFaults
  <2>2. \A x \in DOMAIN GrantFaults : GrantFaults[x] \in 12..24
    BY DEF GrantFaults
  <2>3. Struck(e, EdgeOnlyFaults, WorseEdge(EffectTime), F) = Struck(e, EdgeOnlyFaults, WorseEdge(EffectTime), G)
    BY <1>1, <2>1, StruckAlike DEF AlikeIn
  <2>4. GrantWith(e.grant, F) = GrantWith(e.grant, G)
    BY <1>1, <2>2, StruckAlike DEF AlikeIn, GrantWith
  <2> QED
    BY <2>3, <2>4 DEF EdgesWith, EdgeWith
<1>2. ASSUME AlikeIn(F, G, 25, 31)
      PROVE  ActionWith(c, F) = ActionWith(c, G)
  <2>1. \A x \in DOMAIN ActionOnlyFaults : ActionOnlyFaults[x] \in 25..31
    BY DEF ActionOnlyFaults
  <2> QED
    BY <1>2, <2>1, StruckAlike DEF AlikeIn, ActionWith
<1>3. ASSUME AlikeIn(F, G, 32, 34)
      PROVE  ReceiptWith(c.receipt, F) = ReceiptWith(c.receipt, G)
  <2> DEFINE r == c.receipt
  <2>1. \A x \in DOMAIN ReceiptOnlyFaults : ReceiptOnlyFaults[x] \in 32..34
    BY DEF ReceiptOnlyFaults
  <2>2. \A x \in DOMAIN BoundFaults : BoundFaults[x] \in 32..34
    BY DEF BoundFaults
  <2>3. Struck(r, ReceiptOnlyFaults, WorseReceipt(EffectTime), F) = Struck(r, ReceiptOnlyFaults, WorseReceipt(EffectTime), G)
    BY <1>3, <2>1, StruckAlike DEF AlikeIn
  <2>4. Struck(r.action, BoundFaults, WorseBound(r.action), F)
          = Struck(r.action, BoundFaults, WorseBound(r.action), G)
    BY <1>3, <2>2, StruckAlike DEF AlikeIn
  <2> QED
    BY <2>3, <2>4 DEF ReceiptWith
<1>4. ASSUME AlikeIn(F, G, 11, 34)
      PROVE  CaseWith(c, F) = CaseWith(c, G)
  <2>1. AlikeIn(F, G, 12, 24) /\ AlikeIn(F, G, 25, 31) /\ AlikeIn(F, G, 32, 34)
    BY <1>4 DEF AlikeIn
  <2>2. 11 \in F <=> 11 \in G
    BY <1>4 DEF AlikeIn
  <2> QED
    BY <1>1, <1>2, <1>3, <2>1, <2>2 DEF CaseWith
<1> QED
  BY <1>1, <1>2, <1>3, <1>4

LEMMA EdgesStep ==
  ASSUME NEW edges, 1 \in DOMAIN edges, "grant" \in DOMAIN edges[1], NEW F
  PROVE  /\ \A x \in DOMAIN EdgeOnlyFaults :
              [EdgesWith(edges, F) EXCEPT ![1][x] = WorseEdge(EffectTime)[x]]
                = EdgesWith(edges, F \cup {EdgeOnlyFaults[x]})
         /\ \A x \in DOMAIN GrantFaults :
              [EdgesWith(edges, F) EXCEPT ![1]["grant"][x] = WorseGrant(edges[1].grant)[x]]
                = EdgesWith(edges, F \cup {GrantFaults[x]})
<1> DEFINE e == edges[1]
           S(H) == Struck(e, EdgeOnlyFaults, WorseEdge(EffectTime), H)
<1>1. EdgesWith(edges, F)[1] = EdgeWith(e, F)
  BY DEF EdgesWith
<1>2. ASSUME NEW x \in DOMAIN EdgeOnlyFaults
      PROVE  [EdgeWith(e, F) EXCEPT ![x] = WorseEdge(EffectTime)[x]] = EdgeWith(e, F \cup {EdgeOnlyFaults[x]})
  <2> DEFINE f == EdgeOnlyFaults[x]
  <2>1. \A y \in DOMAIN EdgeOnlyFaults : EdgeOnlyFaults[y] = EdgeOnlyFaults[x] => y = x
    BY DEF EdgeOnlyFaults
  <2>2. [S(F) EXCEPT ![x] = WorseEdge(EffectTime)[x]] = S(F \cup {f})
    BY <2>1, StruckStep DEF Struck
  <2>3. x # "grant" /\ \A y \in DOMAIN GrantFaults : GrantFaults[y] # f
    BY DEF EdgeOnlyFaults, GrantFaults
  <2>4. GrantWith(e.grant, F) = GrantWith(e.grant, F \cup {f})
    BY <2>3, StruckAlike DEF GrantWith
  <2> HIDE DEF S
  <2>5. EdgeWith(e, F) = [S(F) EXCEPT !["grant"] = GrantWith(e.grant, F)]
    BY DEF EdgeWith, S
  <2>6. EdgeWith(e, F \cup {f}) = [S(F \cup {f}) EXCEPT !["grant"] = GrantWith(e.grant, F)]
    BY <2>4 DEF EdgeWith, S
  <2>7. [[S(F) EXCEPT !["grant"] = GrantWith(e.grant, F)] EXCEPT ![x] = WorseEdge(EffectTime)[x]]
          = [[S(F) EXCEPT ![x] = WorseEdge(EffectTime)[x]] EXCEPT !["grant"] = GrantWith(e.grant, F)]
    BY <2>3
  <2> QED
    BY <2>2, <2>5, <2>6, <2>7
<1>3. ASSUME NEW x \in DOMAIN GrantFaults
      PROVE  [EdgeWith(e, F) EXCEPT !["grant"][x] = WorseGrant(e.grant)[x]]
               = EdgeWith(e, F \cup {GrantFaults[x]})
  <2> DEFINE f == GrantFaults[x]
  <2>1. \A y \in DOMAIN EdgeOnlyFaults : EdgeOnlyFaults[y] # f
    BY DEF EdgeOnlyFaults, GrantFaults
  <2>2. S(F) = S(F \cup {f})
    BY <2>1, StruckAlike
  <2>3. [GrantWith(e.grant, F) EXCEPT ![x] = WorseGrant(e.grant)[x]] = GrantWith(e.grant, F \cup {f})
    BY GrantStep
  <2>4. "grant" \in DOMAIN S(F)
    BY DEF Struck
  <2> HIDE DEF S
  <2>5. EdgeWith(e, F) = [S(F) EXCEPT !["grant"] = GrantWith(e.grant, F)]
    BY DEF EdgeWith, S
  <2>6. EdgeWith(e, F \cup {f}) = [S(F) EXCEPT !["grant"] = GrantWith(e.grant, F \cup {f})]
    BY <2>2 DEF EdgeWith, S
  <2>7. EdgeWith(e, F)["grant"] = GrantWith(e.grant, F)
    BY <2>4, <2>5
  <2>8. [EdgeWith(e, F) EXCEPT !["grant"][x] = WorseGrant(e.grant)[x]]
          = [EdgeWith(e, F) EXCEPT !["grant"] = GrantWith(e.grant, F \cup {f})]
    BY <2>3, <2>7
  <2> QED
    BY <2>5, <2>6, <2>8
<1>4. ASSUME NEW x \in DOMAIN EdgeOnlyFaults
      PROVE  [EdgesWith(edges, F) EXCEPT ![1][x] = WorseEdge(EffectTime)[x]]
                = EdgesWith(edges, F \cup {EdgeOnlyFaults[x]})
  BY <1>1, <1>2 DEF EdgesWith
<1>5. ASSUME NEW x \in DOMAIN GrantFaults
      PROVE  [EdgesWith(edges, F) EXCEPT ![1]["grant"][x] = WorseGrant(edges[1].grant)[x]]
                = EdgesWith(edges, F \cup {GrantFaults[x]})
  BY <1>1, <1>3 DEF EdgesWith
<1> QED
  BY <1>4, <1>5

LEMMA EdgeStep ==
  ASSUME NEW edges, 1 \in DOMAIN edges, "grant" \in DOMAIN edges[1], NEW F,
         NEW x \in DOMAIN EdgeOnlyFaults
  PROVE  [EdgesWith(edges, F) EXCEPT ![1][x] = WorseEdge(EffectTime)[x]]
           = EdgesWith(edges, F \cup {EdgeOnlyFaults[x]})
  BY EdgesStep

LEMMA EdgeGrantStep ==
  ASSUME NEW edges, 1 \in DOMAIN edges, "grant" \in DOMAIN edges[1], NEW F,
         NEW x \in DOMAIN GrantFaults
  PROVE  [EdgesWith(edges, F) EXCEPT ![1]["grant"][x] = WorseGrant(edges[1].grant)[x]]
           = EdgesWith(edges, F \cup {GrantFaults[x]})
  BY EdgesStep

LEMMA ActionStep ==
  ASSUME NEW c, NEW F, NEW x \in DOMAIN ActionOnlyFaults
  PROVE  [ActionWith(c, F) EXCEPT ![x] = WorseAction(Terminal(c))[x]]
           = ActionWith(c, F \cup {ActionOnlyFaults[x]})
<1>1. \A y \in DOMAIN ActionOnlyFaults : ActionOnlyFaults[y] = ActionOnlyFaults[x] => y = x
  BY DEF ActionOnlyFaults
<1> QED
  BY <1>1, StruckStep DEF ActionWith

LEMMA ReceiptStep ==
  ASSUME NEW r, "action" \in DOMAIN r, NEW F, NEW x \in DOMAIN ReceiptOnlyFaults
  PROVE  [ReceiptWith(r, F) EXCEPT ![x] = WorseReceipt(EffectTime)[x]]
           = ReceiptWith(r, F \cup {ReceiptOnlyFaults[x]})
<1> DEFINE S(H) == Struck(r, ReceiptOnlyFaults, WorseReceipt(EffectTime), H)
           B(H) == Struck(r.action, BoundFaults, WorseBound(r.action), H)
<1>0. \A H : ReceiptWith(r, H) = [S(H) EXCEPT !["action"] = B(H)]
  BY DEF ReceiptWith
<1> DEFINE f == ReceiptOnlyFaults[x]
<1>1. \A y \in DOMAIN ReceiptOnlyFaults : ReceiptOnlyFaults[y] = ReceiptOnlyFaults[x] => y = x
  BY DEF ReceiptOnlyFaults
<1>2. [S(F) EXCEPT ![x] = WorseReceipt(EffectTime)[x]] = S(F \cup {f})
  BY <1>1, StruckStep DEF Struck
<1>3. x # "action" /\ \A y \in DOMAIN BoundFaults : BoundFaults[y] # f
  BY DEF ReceiptOnlyFaults, BoundFaults
<1>4. B(F) = B(F \cup {f})
  BY <1>3, StruckAlike
<1> HIDE DEF S, B
<1>7. [[S(F) EXCEPT !["action"] = B(F)] EXCEPT ![x] = WorseReceipt(EffectTime)[x]]
        = [[S(F) EXCEPT ![x] = WorseReceipt(EffectTime)[x]] EXCEPT !["action"] = B(F)]
  BY <1>3
<1> QED
  BY <1>0, <1>2, <1>4, <1>7

LEMMA BoundStep ==
  ASSUME NEW r, "action" \in DOMAIN r, NEW F
  PROVE  [ReceiptWith(r, F) EXCEPT !["action"]["amount"] = WorseBound(r.action)["amount"]]
           = ReceiptWith(r, F \cup {34})
<1> DEFINE S(H) == Struck(r, ReceiptOnlyFaults, WorseReceipt(EffectTime), H)
           B(H) == Struck(r.action, BoundFaults, WorseBound(r.action), H)
<1>0. \A H : ReceiptWith(r, H) = [S(H) EXCEPT !["action"] = B(H)]
  BY DEF ReceiptWith
<1>1. "amount" \in DOMAIN BoundFaults /\ BoundFaults["amount"] = 34
      /\ \A y \in DOMAIN BoundFaults : y = "amount"
  BY DEF BoundFaults
<1>2. [B(F) EXCEPT !["amount"] = WorseBound(r.action)["amount"]] = B(F \cup {34})
  BY <1>1, StruckStep
<1>3. \A y \in DOMAIN ReceiptOnlyFaults : ReceiptOnlyFaults[y] # 34
  BY DEF ReceiptOnlyFaults
<1>4. S(F) = S(F \cup {34})
  BY <1>3, StruckAlike
<1>5. "action" \in DOMAIN S(F)
  BY DEF Struck
<1> HIDE DEF S, B
<1>6. ReceiptWith(r, F)["action"] = B(F)
  BY <1>0, <1>5
<1>7. [ReceiptWith(r, F) EXCEPT !["action"]["amount"] = WorseBound(r.action)["amount"]]
        = [ReceiptWith(r, F) EXCEPT !["action"] = B(F \cup {34})]
  BY <1>2, <1>6
<1> QED
  BY <1>0, <1>4, <1>7

LEMMA ChangedAt0 ==
  ASSUME NEW part, NEW v
  PROVE  Changed(part, <<>>, v) = v
  BY DEF Changed, ApplyMutation

LEMMA ChangedAt1 ==
  ASSUME NEW part, NEW v, NEW x1
  PROVE  Changed(part, <<x1>>, v) = [part EXCEPT ![x1] = v]
  BY DEF Changed, ApplyMutation

LEMMA ChangedAt2 ==
  ASSUME NEW part, NEW v, NEW x1, NEW x2
  PROVE  Changed(part, <<x1, x2>>, v) = [part EXCEPT ![x1][x2] = v]
  BY DEF Changed, ApplyMutation

LEMMA ChangedAt3 ==
  ASSUME NEW part, NEW v, NEW x1, NEW x2, NEW x3
  PROVE  Changed(part, <<x1, x2, x3>>, v) = [part EXCEPT ![x1][x2][x3] = v]
  BY DEF Changed, ApplyMutation

LEMMA ChangedAt4 ==
  ASSUME NEW part, NEW v, NEW x1, NEW x2, NEW x3, NEW x4
  PROVE  Changed(part, <<x1, x2, x3, x4>>, v) = [part EXCEPT ![x1][x2][x3][x4] = v]
  BY DEF Changed, ApplyMutation

(* fault makes y of x by one change. *)
Takes(x, fault, y) ==
  /\ Len(fault.changes) = 1
  /\ Changed(x, fault.changes[1][1], fault.changes[1][2]) = y

LEMMA TakesOne ==
  ASSUME NEW x, NEW y, NEW fault, NEW path, NEW v,
         fault.changes = OneChange(path, v), Changed(x, path, v) = y
  PROVE  Takes(x, fault, y)
  BY DEF Takes, OneChange

LEMMA EdgeChange ==
  ASSUME NEW b, NEW x \in DOMAIN EdgeOnlyFaults
  PROVE  Registry(b)[EdgeOnlyFaults[x]].changes = OneChange(<<"edges", 1, x>>, WorseEdge(EffectTime)[x])
<1>1. DOMAIN EdgeOnlyFaults
        = {"delegator", "issuer_signature_valid", "to_role", "status", "not_before"}
  BY DEF EdgeOnlyFaults
<1>2. CASE x = "delegator"
  BY <1>2, EdgeChanges DEF EdgeOnlyFaults, WorseEdge
<1>3. CASE x = "issuer_signature_valid"
  <2>1. EdgeOnlyFaults[x] = 13 /\ WorseEdge(EffectTime)[x] = FALSE
    BY <1>3 DEF EdgeOnlyFaults, WorseEdge
  <2>2. Registry(b)[13].changes = OneChange(<<"edges", 1, x>>, FALSE)
    BY <1>3, EdgeChanges, Zenon
  <2> QED
    BY <2>1, <2>2, Zenon
<1>4. CASE x = "to_role"
  BY <1>4, EdgeChanges DEF EdgeOnlyFaults, WorseEdge
<1>5. CASE x = "status"
  BY <1>5, EdgeChanges DEF EdgeOnlyFaults, WorseEdge
<1>6. CASE x = "not_before"
  BY <1>6, EdgeChanges DEF EdgeOnlyFaults, WorseEdge
<1> QED
  BY <1>1, <1>2, <1>3, <1>4, <1>5, <1>6

LEMMA GrantChange ==
  ASSUME NEW b, NEW x \in DOMAIN GrantFaults
  PROVE  Registry(b)[GrantFaults[x]].changes
           = OneChange(<<"edges", 1, "grant", x>>, WorseGrant(b.authority_case.edges[1].grant)[x])
<1> DEFINE g == b.authority_case.edges[1].grant
<1>1. DOMAIN GrantFaults = {"delegable", "operations", "resources", "tools", "audiences",
                            "purposes", "currency", "amount_max"}
  BY DEF GrantFaults
<1>2. CASE x = "delegable"
  <2>1. GrantFaults[x] = 14 /\ WorseGrant(g)[x] = FALSE
    BY <1>2 DEF GrantFaults, WorseGrant
  <2>2. Registry(b)[14].changes = OneChange(<<"edges", 1, "grant", x>>, FALSE)
    BY <1>2, EdgeChanges, Zenon
  <2> QED
    BY <2>1, <2>2, Zenon
<1>3. CASE x = "operations"
  BY <1>3, EdgeChanges DEF GrantFaults, WorseGrant
<1>4. CASE x = "resources"
  BY <1>4, EdgeChanges DEF GrantFaults, WorseGrant
<1>5. CASE x = "tools"
  BY <1>5, EdgeChanges DEF GrantFaults, WorseGrant
<1>6. CASE x = "audiences"
  BY <1>6, EdgeChanges DEF GrantFaults, WorseGrant
<1>7. CASE x = "purposes"
  BY <1>7, EdgeChanges DEF GrantFaults, WorseGrant
<1>8. CASE x = "currency"
  BY <1>8, EdgeChanges DEF GrantFaults, WorseGrant
<1>9. CASE x = "amount_max"
  BY <1>9, EdgeChanges DEF GrantFaults, WorseGrant
<1> QED
  BY <1>1, <1>2, <1>3, <1>4, <1>5, <1>6, <1>7, <1>8, <1>9

LEMMA ActionChange ==
  ASSUME NEW b, NEW x \in DOMAIN ActionOnlyFaults
  PROVE  Registry(b)[ActionOnlyFaults[x]].changes
           = OneChange(<<"action", x>>, WorseAction(Terminal(b.authority_case))[x])
<1>1. DOMAIN ActionOnlyFaults = {"subject", "operation", "resource", "tool", "audience",
                                 "purpose", "amount"}
  BY DEF ActionOnlyFaults
<1>2. CASE x = "subject"
  BY <1>2, ActionChanges DEF ActionOnlyFaults, WorseAction
<1>3. CASE x = "operation"
  BY <1>3, ActionChanges DEF ActionOnlyFaults, WorseAction
<1>4. CASE x = "resource"
  BY <1>4, ActionChanges DEF ActionOnlyFaults, WorseAction
<1>5. CASE x = "tool"
  BY <1>5, ActionChanges DEF ActionOnlyFaults, WorseAction
<1>6. CASE x = "audience"
  BY <1>6, ActionChanges DEF ActionOnlyFaults, WorseAction
<1>7. CASE x = "purpose"
  BY <1>7, ActionChanges DEF ActionOnlyFaults, WorseAction
<1>8. CASE x = "amount"
  BY <1>8, ActionChanges DEF ActionOnlyFaults, WorseAction, Terminal
<1> QED
  BY <1>1, <1>2, <1>3, <1>4, <1>5, <1>6, <1>7, <1>8

LEMMA ReceiptChange ==
  ASSUME NEW b, NEW x \in DOMAIN ReceiptOnlyFaults
  PROVE  Registry(b)[ReceiptOnlyFaults[x]].changes = OneChange(<<"receipt", x>>, WorseReceipt(EffectTime)[x])
<1>1. DOMAIN ReceiptOnlyFaults = {"native_evidence_valid", "effect_time"}
  BY DEF ReceiptOnlyFaults
<1>2. CASE x = "native_evidence_valid"
  <2>1. ReceiptOnlyFaults[x] = 32 /\ WorseReceipt(EffectTime)[x] = FALSE
    BY <1>2 DEF ReceiptOnlyFaults, WorseReceipt
  <2>2. Registry(b)[32].changes = OneChange(<<"receipt", x>>, FALSE)
    BY <1>2, ReceiptChanges, Zenon
  <2> QED
    BY <2>1, <2>2, Zenon
<1>3. CASE x = "effect_time"
  BY <1>3, ReceiptChanges DEF ReceiptOnlyFaults, WorseReceipt
<1> QED
  BY <1>1, <1>2, <1>3

LEMMA CaseParts ==
  ASSUME NEW c \in CaseType, NEW F
  PROVE  /\ DOMAIN c = {"protocol_valid", "edges", "action", "receipt"}
         /\ 1 \in DOMAIN c.edges /\ "grant" \in DOMAIN c.edges[1] /\ "action" \in DOMAIN c.receipt
         /\ CaseWith(c, F)["edges"] = EdgesWith(c.edges, F)
         /\ CaseWith(c, F)["action"] = ActionWith(c, F)
         /\ CaseWith(c, F)["receipt"] = ReceiptWith(c.receipt, F)
<1>1. DOMAIN c = {"protocol_valid", "edges", "action", "receipt"}
  BY DEF CaseType
<1>2. c.edges \in Seq(Edge) /\ c.edges # <<>> /\ c.receipt \in Receipt
  BY DEF CaseType
<1>3. Len(c.edges) \in Nat /\ Len(c.edges) # 0 /\ DOMAIN c.edges = 1..Len(c.edges)
  BY <1>2, EmptySeq, LenProperties
<1>4. 1 \in DOMAIN c.edges /\ c.edges[1] \in Edge
  BY <1>2, <1>3, ElementOfSeq
<1>5. "grant" \in DOMAIN c.edges[1] /\ "action" \in DOMAIN c.receipt
  BY <1>2, <1>4 DEF Edge, Receipt
<1>6. CaseWith(c, F)["edges"] = EdgesWith(c.edges, F)
  BY <1>1 DEF CaseWith
<1>7. CaseWith(c, F)["action"] = ActionWith(c, F)
  BY <1>1 DEF CaseWith
<1>8. CaseWith(c, F)["receipt"] = ReceiptWith(c.receipt, F)
  BY <1>1 DEF CaseWith
<1> QED
  BY <1>1, <1>4, <1>5, <1>6, <1>7, <1>8

LEMMA ProtocolUpdate ==
  ASSUME NEW c \in CaseType, NEW F
  PROVE  [CaseWith(c, F) EXCEPT !["protocol_valid"] = Invalid] = CaseWith(c, F \cup {11})
<1>1. EdgesWith(c.edges, F) = EdgesWith(c.edges, F \cup {11})
  <2>1. AlikeIn(F, F \cup {11}, 12, 24)
    BY DEF AlikeIn
  <2> QED
    BY <2>1, PartsAlike
<1>2. ActionWith(c, F) = ActionWith(c, F \cup {11})
  <2>1. AlikeIn(F, F \cup {11}, 25, 31)
    BY DEF AlikeIn
  <2> QED
    BY <2>1, PartsAlike
<1>3. ReceiptWith(c.receipt, F) = ReceiptWith(c.receipt, F \cup {11})
  <2>1. AlikeIn(F, F \cup {11}, 32, 34)
    BY DEF AlikeIn
  <2> QED
    BY <2>1, PartsAlike
<1> QED
  BY <1>1, <1>2, <1>3 DEF CaseWith

LEMMA CaseUpdate ==
  ASSUME NEW c \in CaseType, NEW F, NEW f \in 11..34
  PROVE  LET G == F \cup {f}
         IN  /\ f \in 12..24 =>
                  [CaseWith(c, F) EXCEPT !["edges"] = EdgesWith(c.edges, G)] = CaseWith(c, G)
             /\ f \in 25..31 =>
                  [CaseWith(c, F) EXCEPT !["action"] = ActionWith(c, G)] = CaseWith(c, G)
             /\ f \in 32..34 =>
                  [CaseWith(c, F) EXCEPT !["receipt"] = ReceiptWith(c.receipt, G)] = CaseWith(c, G)
<1> DEFINE G == F \cup {f}
<1>1. /\ f \notin 12..24 => EdgesWith(c.edges, F) = EdgesWith(c.edges, G)
      /\ f \notin 25..31 => ActionWith(c, F) = ActionWith(c, G)
      /\ f \notin 32..34 => ReceiptWith(c.receipt, F) = ReceiptWith(c.receipt, G)
  <2>1. /\ f \notin 12..24 => AlikeIn(F, G, 12, 24)
        /\ f \notin 25..31 => AlikeIn(F, G, 25, 31)
        /\ f \notin 32..34 => AlikeIn(F, G, 32, 34)
    BY DEF AlikeIn
  <2> HIDE DEF G
  <2> QED
    BY <2>1, PartsAlike
<1>2. f # 11 => (11 \in F <=> 11 \in G)
  OBVIOUS
<1> HIDE DEF G
<1>4. ASSUME f \in 12..24
      PROVE  [CaseWith(c, F) EXCEPT !["edges"] = EdgesWith(c.edges, G)] = CaseWith(c, G)
  <2>1. /\ ActionWith(c, F) = ActionWith(c, G)
        /\ ReceiptWith(c.receipt, F) = ReceiptWith(c.receipt, G)
    BY <1>1, <1>4
  <2>2. 11 \in F <=> 11 \in G
    BY <1>2, <1>4
  <2> QED
    BY <2>1, <2>2 DEF CaseWith
<1>5. ASSUME f \in 25..31
      PROVE  [CaseWith(c, F) EXCEPT !["action"] = ActionWith(c, G)] = CaseWith(c, G)
  <2>1. /\ EdgesWith(c.edges, F) = EdgesWith(c.edges, G)
        /\ ReceiptWith(c.receipt, F) = ReceiptWith(c.receipt, G)
    BY <1>1, <1>5
  <2>2. 11 \in F <=> 11 \in G
    BY <1>2, <1>5
  <2> QED
    BY <2>1, <2>2 DEF CaseWith
<1>6. ASSUME f \in 32..34
      PROVE  [CaseWith(c, F) EXCEPT !["receipt"] = ReceiptWith(c.receipt, G)] = CaseWith(c, G)
  <2>1. /\ EdgesWith(c.edges, F) = EdgesWith(c.edges, G)
        /\ ActionWith(c, F) = ActionWith(c, G)
    BY <1>1, <1>6
  <2>2. 11 \in F <=> 11 \in G
    BY <1>2, <1>6
  <2> QED
    BY <2>1, <2>2 DEF CaseWith
<1> QED
  BY <1>4, <1>5, <1>6 DEF G

LEMMA CaseStep ==
  ASSUME NEW b, b.authority_case \in CaseType, NEW F, NEW f \in 11..34
  PROVE  LET c == b.authority_case
         IN  Takes(CaseWith(c, F), Registry(b)[f], CaseWith(c, F \cup {f}))
<1> DEFINE c == b.authority_case
           G == F \cup {f}
<1>1. \/ f = 11 \/ f = 34
      \/ \E x \in DOMAIN EdgeOnlyFaults : f = EdgeOnlyFaults[x]
      \/ \E x \in DOMAIN GrantFaults : f = GrantFaults[x]
      \/ \E x \in DOMAIN ActionOnlyFaults : f = ActionOnlyFaults[x]
      \/ \E x \in DOMAIN ReceiptOnlyFaults : f = ReceiptOnlyFaults[x]
  <2>1. CASE f \in 12..17 \ {14}
    BY <2>1 DEF EdgeOnlyFaults
  <2>2. CASE f \in {14} \cup 18..24
    BY <2>2 DEF GrantFaults
  <2>3. CASE f \in 25..31
    BY <2>3 DEF ActionOnlyFaults
  <2>4. CASE f \in 32..33
    BY <2>4 DEF ReceiptOnlyFaults
  <2> QED
    BY <2>1, <2>2, <2>3, <2>4
<1>8. 1 \in DOMAIN c.edges /\ "grant" \in DOMAIN c.edges[1] /\ "action" \in DOMAIN c.receipt
  BY CaseParts
<1>2. CASE f = 11
  <2>1. Registry(b)[11].changes = OneChange(<<"protocol_valid">>, Invalid)
    BY EdgeChanges, Zenon DEF Invalid
  <2>2. Changed(CaseWith(c, F), <<"protocol_valid">>, Invalid)
          = [CaseWith(c, F) EXCEPT !["protocol_valid"] = Invalid]
    BY ChangedAt1
  <2>3. [CaseWith(c, F) EXCEPT !["protocol_valid"] = Invalid] = CaseWith(c, F \cup {f})
    BY <1>2, ProtocolUpdate
  <2> QED
    BY <1>2, <2>1, <2>2, <2>3, TakesOne
<1>3. ASSUME NEW x \in DOMAIN EdgeOnlyFaults, f = EdgeOnlyFaults[x]
      PROVE  Takes(CaseWith(c, F), Registry(b)[f], CaseWith(c, G))
  <2>1. Registry(b)[f].changes = OneChange(<<"edges", 1, x>>, WorseEdge(EffectTime)[x])
    BY <1>3, EdgeChange
  <2>2. [EdgesWith(c.edges, F) EXCEPT ![1][x] = WorseEdge(EffectTime)[x]] = EdgesWith(c.edges, G)
    <3>1. [EdgesWith(c.edges, F) EXCEPT ![1][x] = WorseEdge(EffectTime)[x]]
            = EdgesWith(c.edges, F \cup {EdgeOnlyFaults[x]})
      BY <1>8, EdgeStep
    <3> QED
      BY <1>3, <3>1
  <2>3. f \in 12..24
    BY <1>3 DEF EdgeOnlyFaults
  <2>4. [CaseWith(c, F) EXCEPT !["edges"] = EdgesWith(c.edges, G)] = CaseWith(c, G)
    BY <2>3, CaseUpdate
  <2>5. Changed(CaseWith(c, F), <<"edges", 1, x>>, WorseEdge(EffectTime)[x])
          = [CaseWith(c, F) EXCEPT !["edges"][1][x] = WorseEdge(EffectTime)[x]]
    BY ChangedAt3
  <2>6. CaseWith(c, F)["edges"] = EdgesWith(c.edges, F)
    BY CaseParts
  <2>7. [CaseWith(c, F) EXCEPT !["edges"][1][x] = WorseEdge(EffectTime)[x]] = CaseWith(c, G)
    BY <2>2, <2>4, <2>6
  <2> QED
    BY <2>1, <2>5, <2>7, TakesOne
<1>4. ASSUME NEW x \in DOMAIN GrantFaults, f = GrantFaults[x]
      PROVE  Takes(CaseWith(c, F), Registry(b)[f], CaseWith(c, G))
  <2> DEFINE v == WorseGrant(c.edges[1].grant)[x]
  <2>1. Registry(b)[f].changes = OneChange(<<"edges", 1, "grant", x>>, v)
    BY <1>4, GrantChange
  <2>2. [EdgesWith(c.edges, F) EXCEPT ![1]["grant"][x] = v] = EdgesWith(c.edges, G)
    <3>1. [EdgesWith(c.edges, F) EXCEPT ![1]["grant"][x] = v]
            = EdgesWith(c.edges, F \cup {GrantFaults[x]})
      BY <1>8, EdgeGrantStep
    <3> QED
      BY <1>4, <3>1
  <2>3. f \in 12..24
    BY <1>4 DEF GrantFaults
  <2>4. [CaseWith(c, F) EXCEPT !["edges"] = EdgesWith(c.edges, G)] = CaseWith(c, G)
    BY <2>3, CaseUpdate
  <2>5. Changed(CaseWith(c, F), <<"edges", 1, "grant", x>>, v)
          = [CaseWith(c, F) EXCEPT !["edges"][1]["grant"][x] = v]
    BY ChangedAt4
  <2>6. CaseWith(c, F)["edges"] = EdgesWith(c.edges, F)
    BY CaseParts
  <2> HIDE DEF v
  <2>7. [CaseWith(c, F) EXCEPT !["edges"][1]["grant"][x] = v] = CaseWith(c, G)
    BY <2>2, <2>4, <2>6
  <2> QED
    BY <2>1, <2>5, <2>7, TakesOne
<1>5. ASSUME NEW x \in DOMAIN ActionOnlyFaults, f = ActionOnlyFaults[x]
      PROVE  Takes(CaseWith(c, F), Registry(b)[f], CaseWith(c, G))
  <2> DEFINE v == WorseAction(Terminal(c))[x]
  <2>1. Registry(b)[f].changes = OneChange(<<"action", x>>, v)
    BY <1>5, ActionChange
  <2>2. [ActionWith(c, F) EXCEPT ![x] = v] = ActionWith(c, G)
    BY <1>5, ActionStep
  <2>3. f \in 25..31
    BY <1>5 DEF ActionOnlyFaults
  <2>4. [CaseWith(c, F) EXCEPT !["action"] = ActionWith(c, G)] = CaseWith(c, G)
    BY <2>3, CaseUpdate
  <2>5. Changed(CaseWith(c, F), <<"action", x>>, v) = [CaseWith(c, F) EXCEPT !["action"][x] = v]
    BY ChangedAt2
  <2>6. CaseWith(c, F)["action"] = ActionWith(c, F)
    BY CaseParts
  <2> HIDE DEF v
  <2>7. [CaseWith(c, F) EXCEPT !["action"][x] = v] = CaseWith(c, G)
    BY <2>2, <2>4, <2>6
  <2> QED
    BY <2>1, <2>5, <2>7, TakesOne
<1>6. ASSUME NEW x \in DOMAIN ReceiptOnlyFaults, f = ReceiptOnlyFaults[x]
      PROVE  Takes(CaseWith(c, F), Registry(b)[f], CaseWith(c, G))
  <2>1. Registry(b)[f].changes = OneChange(<<"receipt", x>>, WorseReceipt(EffectTime)[x])
    BY <1>6, ReceiptChange
  <2>2. [ReceiptWith(c.receipt, F) EXCEPT ![x] = WorseReceipt(EffectTime)[x]] = ReceiptWith(c.receipt, G)
    <3>1. [ReceiptWith(c.receipt, F) EXCEPT ![x] = WorseReceipt(EffectTime)[x]]
            = ReceiptWith(c.receipt, F \cup {ReceiptOnlyFaults[x]})
      BY <1>8, ReceiptStep
    <3> QED
      BY <1>6, <3>1
  <2>3. f \in 32..34
    BY <1>6 DEF ReceiptOnlyFaults
  <2>4. [CaseWith(c, F) EXCEPT !["receipt"] = ReceiptWith(c.receipt, G)] = CaseWith(c, G)
    BY <2>3, CaseUpdate
  <2>5. Changed(CaseWith(c, F), <<"receipt", x>>, WorseReceipt(EffectTime)[x])
          = [CaseWith(c, F) EXCEPT !["receipt"][x] = WorseReceipt(EffectTime)[x]]
    BY ChangedAt2
  <2>6. CaseWith(c, F)["receipt"] = ReceiptWith(c.receipt, F)
    BY CaseParts
  <2>7. [CaseWith(c, F) EXCEPT !["receipt"][x] = WorseReceipt(EffectTime)[x]] = CaseWith(c, G)
    BY <2>2, <2>4, <2>6
  <2> QED
    BY <2>1, <2>5, <2>7, TakesOne
<1>7. CASE f = 34
  <2> DEFINE v == WorseBound(c.receipt.action)["amount"]
  <2>0. v = c.receipt.action.amount + 1
    BY DEF WorseBound
  <2>1. Registry(b)[34].changes = OneChange(<<"receipt", "action", "amount">>, v)
    BY <2>0, ReceiptChanges
  <2>2. [ReceiptWith(c.receipt, F) EXCEPT !["action"]["amount"] = v] = ReceiptWith(c.receipt, G)
    BY <1>7, <1>8, BoundStep
  <2>4. [CaseWith(c, F) EXCEPT !["receipt"] = ReceiptWith(c.receipt, G)] = CaseWith(c, G)
    <3>1. f \in 32..34
      BY <1>7
    <3> QED
      BY <3>1, CaseUpdate
  <2>5. Changed(CaseWith(c, F), <<"receipt", "action", "amount">>, v)
          = [CaseWith(c, F) EXCEPT !["receipt"]["action"]["amount"] = v]
    BY ChangedAt3
  <2>6. CaseWith(c, F)["receipt"] = ReceiptWith(c.receipt, F)
    BY CaseParts
  <2> HIDE DEF v
  <2>7. [CaseWith(c, F) EXCEPT !["receipt"]["action"]["amount"] = v] = CaseWith(c, G)
    BY <2>2, <2>4, <2>6
  <2> QED
    BY <1>7, <2>1, <2>5, <2>7, TakesOne
<1> QED
  BY <1>1, <1>2, <1>3, <1>4, <1>5, <1>6, <1>7

(* fault makes y of x by two changes. *)
TakesBoth(x, fault, y) ==
  /\ Len(fault.changes) = 2
  /\ Changed(Changed(x, fault.changes[1][1], fault.changes[1][2]),
             fault.changes[2][1], fault.changes[2][2]) = y

MutateStep(x, fault, g) ==
  [k \in 0..Len(fault.changes) |->
     IF k = 0 THEN x ELSE Changed(g[k - 1], fault.changes[k][1], fault.changes[k][2])]

LEMMA MutatedIs ==
  ASSUME NEW item, NEW fault, NEW y,
         LET x == item[LayerKey[fault.layer]] IN Takes(x, fault, y) \/ TakesBoth(x, fault, y)
  PROVE  Mutated(item, fault) = [item EXCEPT ![LayerKey[fault.layer]] = y]
<1> DEFINE x == item[LayerKey[fault.layer]]
           after == CHOOSE g : g = MutateStep(x, fault, g)
           z == Changed(x, fault.changes[1][1], fault.changes[1][2])
<1>1. Mutated(item, fault)
        = [item EXCEPT ![LayerKey[fault.layer]] = after[Len(fault.changes)]]
  BY DEF Mutated, MutateStep
<1>2. Takes(x, fault, y) \/ TakesBoth(x, fault, y)
  OBVIOUS
<1> HIDE DEF x
<1>3. CASE Takes(x, fault, y)
  <2> DEFINE h == [k \in 0..1 |-> IF k = 0 THEN x ELSE y]
  <2>1. h = MutateStep(x, fault, h)
    BY <1>3 DEF MutateStep, Takes
  <2> HIDE DEF h
  <2>2. after = MutateStep(x, fault, after)
    BY <2>1
  <2> HIDE DEF after
  <2>3. after[0] = x
    BY <1>3, <2>2 DEF MutateStep, Takes
  <2>4. after[1] = y
    BY <1>3, <2>2, <2>3 DEF MutateStep, Takes
  <2> QED
    BY <1>1, <1>3, <2>4 DEF Takes
<1>4. CASE TakesBoth(x, fault, y)
  <2> DEFINE h == [k \in 0..2 |-> IF k = 0 THEN x ELSE IF k = 1 THEN z ELSE y]
  <2>1. h = MutateStep(x, fault, h)
    BY <1>4 DEF MutateStep, TakesBoth
  <2> HIDE DEF h
  <2>2. after = MutateStep(x, fault, after)
    BY <2>1
  <2> HIDE DEF after
  <2>3. after[0] = x
    BY <1>4, <2>2 DEF MutateStep, TakesBoth
  <2>4. after[1] = z
    BY <1>4, <2>2, <2>3 DEF MutateStep, TakesBoth
  <2>5. after[2] = y
    BY <1>4, <2>2, <2>4 DEF MutateStep, TakesBoth
  <2> QED
    BY <1>1, <1>4, <2>5 DEF TakesBoth
<1> QED
  BY <1>2, <1>3, <1>4

StateOnlyFaults == [status |-> 8, issued_at |-> 9, observed_digest |-> 10]

WorseState(now) ==
  [status |-> "negative", issued_at |-> now + 1, observed_digest |-> OutOfScope]

StateWith(a, F) == Struck(a, StateOnlyFaults, WorseState(DecisionTime), F)

LEMMA StateStep ==
  ASSUME NEW b, NEW a, NEW F, NEW f \in 8..10
  PROVE  Takes(StateWith(a, F), Registry(b)[f], StateWith(a, F \cup {f}))
<1>1. PICK x \in DOMAIN StateOnlyFaults : f = StateOnlyFaults[x]
  BY DEF StateOnlyFaults
<1>2. [StateWith(a, F) EXCEPT ![x] = WorseState(DecisionTime)[x]]
        = StateWith(a, F \cup {StateOnlyFaults[x]})
  <2>1. \A y \in DOMAIN StateOnlyFaults : StateOnlyFaults[y] = StateOnlyFaults[x] => y = x
    BY DEF StateOnlyFaults
  <2> QED
    BY <2>1, StruckStep DEF StateWith
<1>3. Registry(b)[f].changes = OneChange(<<x>>, WorseState(DecisionTime)[x])
  <2>1. DOMAIN StateOnlyFaults = {"status", "issued_at", "observed_digest"}
    BY DEF StateOnlyFaults
  <2>2. CASE x = "status"
    BY <1>1, <2>2, StateChanges DEF StateOnlyFaults, WorseState
  <2>3. CASE x = "issued_at"
    BY <1>1, <2>3, StateChanges DEF StateOnlyFaults, WorseState
  <2>4. CASE x = "observed_digest"
    BY <1>1, <2>4, StateChanges DEF StateOnlyFaults, WorseState
  <2> QED
    BY <2>1, <2>2, <2>3, <2>4
<1>4. Changed(StateWith(a, F), <<x>>, WorseState(DecisionTime)[x])
        = [StateWith(a, F) EXCEPT ![x] = WorseState(DecisionTime)[x]]
  BY ChangedAt1
<1> QED
  BY <1>1, <1>2, <1>3, <1>4, TakesOne

MeasurementWith(m, F) ==
  [x \in DOMAIN m |->
     IF x = "profile_digest" /\ 35 \in F THEN OutOfScope
     ELSE IF x = "dataset" /\ 36 \in F THEN "dataset-03"
     ELSE IF x = "dataset" /\ 37 \in F THEN "dataset-01"
     ELSE IF x = "threshold" /\ (36 \in F \/ 37 \in F) THEN Threshold
     ELSE m[x]]

LEMMA MeasurementStep ==
  ASSUME NEW b, NEW m, NEW F, NEW f \in 35..37, f = 37 => 36 \notin F
  PROVE  LET fault == Registry(b)[f]
             x == MeasurementWith(m, F)
             y == MeasurementWith(m, F \cup {f})
         IN  Takes(x, fault, y) \/ TakesBoth(x, fault, y)
<1> DEFINE x == MeasurementWith(m, F)
           y == MeasurementWith(m, F \cup {f})
<1>1. CASE f = 35
  <2>1. Registry(b)[f].changes = OneChange(<<"profile_digest">>, OutOfScope)
    BY <1>1, MeasurementChanges
  <2>2. Changed(x, <<"profile_digest">>, OutOfScope) = [x EXCEPT !["profile_digest"] = OutOfScope]
    BY ChangedAt1
  <2>3. [x EXCEPT !["profile_digest"] = OutOfScope] = y
    <3> DEFINE G == F \cup {f}
    <3>1. 35 \in G /\ (36 \in F <=> 36 \in G) /\ (37 \in F <=> 37 \in G)
      BY <1>1
    <3> HIDE DEF G
    <3>2. [x EXCEPT !["profile_digest"] = OutOfScope] = MeasurementWith(m, G)
      BY <3>1 DEF MeasurementWith
    <3> QED
      BY <3>2 DEF G
  <2> HIDE DEF x, y
  <2>4. Takes(x, Registry(b)[f], y)
    BY <2>1, <2>2, <2>3, TakesOne
  <2> QED
    BY <2>4 DEF x, y
<1> DEFINE name == IF f = 36 THEN "dataset-03" ELSE "dataset-01"
<1>2. CASE f \in 36..37
  <2>0. Registry(b)[f].changes = TwoChanges(name)
    BY <1>2, MeasurementChanges
  <2>1. Changed(x, <<"dataset">>, name) = [x EXCEPT !["dataset"] = name]
    BY ChangedAt1
  <2>2. Changed([x EXCEPT !["dataset"] = name], <<"threshold">>, Threshold)
          = [[x EXCEPT !["dataset"] = name] EXCEPT !["threshold"] = Threshold]
    BY ChangedAt1
  <2>3. [[x EXCEPT !["dataset"] = name] EXCEPT !["threshold"] = Threshold] = y
    <3> DEFINE G == F \cup {f}
    <3>1. /\ 35 \in F <=> 35 \in G
          /\ f = 36 => 36 \in G
          /\ f = 37 => 37 \in G /\ 36 \notin G
      BY <1>2
    <3>3. (f = 36 /\ name = "dataset-03") \/ (f = 37 /\ name = "dataset-01")
      BY <1>2
    <3> HIDE DEF G, name
    <3>2. [[x EXCEPT !["dataset"] = name] EXCEPT !["threshold"] = Threshold]
            = MeasurementWith(m, G)
      BY <3>1, <3>3 DEF MeasurementWith
    <3> QED
      BY <3>2 DEF G
  <2> HIDE DEF x, y
  <2>4. Changed(Changed(x, <<"dataset">>, name), <<"threshold">>, Threshold) = y
    BY <2>1, <2>2, <2>3
  <2> QED
    BY <2>0, <2>4 DEF TakesBoth, TwoChanges, x, y
<1> QED
  BY <1>1, <1>2

PolicyWith(p, F) ==
  IF 1 \in F THEN Source["P1"].policy ELSE IF 2 \in F THEN Source["P2"].policy
  ELSE IF 3 \in F THEN Source["P3"].policy ELSE IF 4 \in F THEN Source["P4"].policy
  ELSE IF 5 \in F THEN Source["P5"].policy ELSE p

EvidenceWith(e, F) ==
  IF 6 \in F THEN Source["E1"].evidence ELSE IF 7 \in F THEN Source["E2"].evidence ELSE e

LEMMA PolicyStep ==
  ASSUME NEW b, NEW x, NEW part, NEW F, NEW f \in 1..5, \A g \in 1..5 : g \notin F
  PROVE  Takes(x, Registry(b)[f], PolicyWith(part, F \cup {f}))
<1>1. Registry(b)[f].changes = OneChange(<<>>, PolicyWith(part, F \cup {f}))
  BY SpliceChanges DEF PolicyWith
<1> QED
  BY <1>1, ChangedAt0, TakesOne

LEMMA EvidenceStep ==
  ASSUME NEW b, NEW x, NEW part, NEW F, NEW f \in 6..7, \A g \in 6..7 : g \notin F
  PROVE  Takes(x, Registry(b)[f], EvidenceWith(part, F \cup {f}))
<1>1. Registry(b)[f].changes = OneChange(<<>>, EvidenceWith(part, F \cup {f}))
  BY SpliceChanges DEF EvidenceWith
<1> QED
  BY <1>1, ChangedAt0, TakesOne

-----------------------------------------------------------------------------
(* An item is its base with the faults of its list.                        *)

Keys == {"policy", "evidence", "attestation", "authority_case", "measurement"}

KeyOf(f) == LayerKey[LayerOf(f)]

PartWith(b, x, F) ==
  IF x = "policy" THEN PolicyWith(b.policy, F)
  ELSE IF x = "evidence" THEN EvidenceWith(b.evidence, F)
  ELSE IF x = "attestation" THEN StateWith(b.attestation, F)
  ELSE IF x = "authority_case" THEN CaseWith(b.authority_case, F)
  ELSE MeasurementWith(b.measurement, F)

ItemWith(b, F) == [x \in DOMAIN b |-> PartWith(b, x, F)]

(* f may be put in after the faults F. *)
Fits(F, f) ==
  /\ f \in 1..7 => \A g \in F : LayerOf(g) # LayerOf(f)
  /\ f = 37 => 36 \notin F

LEMMA KeyRanges ==
  ASSUME NEW f \in 1..37
  PROVE  /\ KeyOf(f) \in Keys
         /\ KeyOf(f) = "policy" <=> f \in 1..5
         /\ KeyOf(f) = "evidence" <=> f \in 6..7
         /\ KeyOf(f) = "attestation" <=> f \in 8..10
         /\ KeyOf(f) = "authority_case" <=> f \in 11..34
         /\ KeyOf(f) = "measurement" <=> f \in 35..37
<1>1. CASE f \in 1..5
  BY <1>1 DEF KeyOf, LayerKey, LayerOf, Keys
<1>2. CASE f \in 6..7
  BY <1>2 DEF KeyOf, LayerKey, LayerOf, Keys
<1>3. CASE f \in 8..10
  BY <1>3 DEF KeyOf, LayerKey, LayerOf, Keys
<1>4. CASE f \in 11..34
  BY <1>4 DEF KeyOf, LayerKey, LayerOf, Keys
<1>5. CASE f \in 35..37
  BY <1>5 DEF KeyOf, LayerKey, LayerOf, Keys
<1> QED
  BY <1>1, <1>2, <1>3, <1>4, <1>5

LEMMA PartAlike ==
  ASSUME NEW b, NEW x \in Keys, NEW F, NEW G,
         \A f \in 1..37 : KeyOf(f) = x => (f \in F <=> f \in G)
  PROVE  PartWith(b, x, F) = PartWith(b, x, G)
<1>1. CASE x = "policy"
  <2>1. \A f \in 1..5 : f \in F <=> f \in G
    BY <1>1, KeyRanges
  <2> QED
    BY <1>1, <2>1 DEF PartWith, PolicyWith
<1>2. CASE x = "evidence"
  <2>1. \A f \in 6..7 : f \in F <=> f \in G
    BY <1>2, KeyRanges
  <2> QED
    BY <1>2, <2>1 DEF PartWith, EvidenceWith
<1>3. CASE x = "attestation"
  <2>1. \A f \in 8..10 : f \in F <=> f \in G
    BY <1>3, KeyRanges
  <2>2. \A y \in DOMAIN StateOnlyFaults : StateOnlyFaults[y] \in 8..10
    BY DEF StateOnlyFaults
  <2>3. StateWith(b.attestation, F) = StateWith(b.attestation, G)
    BY <2>1, <2>2, StruckAlike DEF StateWith
  <2> QED
    BY <1>3, <2>3 DEF PartWith
<1>4. CASE x = "authority_case"
  <2>1. AlikeIn(F, G, 11, 34)
    BY <1>4, KeyRanges DEF AlikeIn
  <2>2. CaseWith(b.authority_case, F) = CaseWith(b.authority_case, G)
    BY <2>1, PartsAlike
  <2> QED
    BY <1>4, <2>2 DEF PartWith
<1>5. CASE x = "measurement"
  <2>1. \A f \in 35..37 : f \in F <=> f \in G
    BY <1>5, KeyRanges
  <2>2. MeasurementWith(b.measurement, F) = MeasurementWith(b.measurement, G)
    BY <2>1 DEF MeasurementWith
  <2> QED
    BY <1>5, <2>2 DEF PartWith
<1> QED
  BY <1>1, <1>2, <1>3, <1>4, <1>5 DEF Keys

LEMMA PartStep ==
  ASSUME NEW b \in Transaction, NEW F, NEW f \in 1..37, Fits(F, f)
  PROVE  LET x == PartWith(b, KeyOf(f), F)
             y == PartWith(b, KeyOf(f), F \cup {f})
             fault == Registry(b)[f]
         IN  Takes(x, fault, y) \/ TakesBoth(x, fault, y)
<1> DEFINE x == PartWith(b, KeyOf(f), F)
           y == PartWith(b, KeyOf(f), F \cup {f})
           fault == Registry(b)[f]
<1>1. CASE f \in 1..5
  <2>1. \A g \in 1..5 : g \notin F
    BY <1>1 DEF Fits, LayerOf
  <2>2. Takes(x, fault, PolicyWith(b.policy, F \cup {f}))
    BY <1>1, <2>1, PolicyStep
  <2> QED
    BY <1>1, <2>2, KeyRanges DEF PartWith
<1>2. CASE f \in 6..7
  <2>1. \A g \in 6..7 : g \notin F
    BY <1>2 DEF Fits, LayerOf
  <2>2. Takes(x, fault, EvidenceWith(b.evidence, F \cup {f}))
    BY <1>2, <2>1, EvidenceStep
  <2>3. KeyOf(f) = "evidence"
    BY <1>2, KeyRanges
  <2> QED
    BY <2>2, <2>3 DEF PartWith
<1>3. CASE f \in 8..10
  <2>1. Takes(StateWith(b.attestation, F), fault, StateWith(b.attestation, F \cup {f}))
    BY <1>3, StateStep
  <2>2. KeyOf(f) = "attestation"
    BY <1>3, KeyRanges
  <2> QED
    BY <2>1, <2>2 DEF PartWith
<1>4. CASE f \in 11..34
  <2>1. b.authority_case \in CaseType
    BY DEF Transaction
  <2>2. Takes(CaseWith(b.authority_case, F), fault, CaseWith(b.authority_case, F \cup {f}))
    BY <1>4, <2>1, CaseStep
  <2>3. KeyOf(f) = "authority_case"
    BY <1>4, KeyRanges
  <2> QED
    BY <2>2, <2>3 DEF PartWith
<1>5. CASE f \in 35..37
  <2> DEFINE u == MeasurementWith(b.measurement, F)
             v == MeasurementWith(b.measurement, F \cup {f})
  <2>1. Takes(u, fault, v) \/ TakesBoth(u, fault, v)
    BY <1>5, MeasurementStep DEF Fits
  <2>2. KeyOf(f) = "measurement"
    BY <1>5, KeyRanges
  <2>3. x = u /\ y = v
    BY <2>2 DEF PartWith
  <2> QED
    BY <2>1, <2>3
<1> QED
  BY <1>1, <1>2, <1>3, <1>4, <1>5

LEMMA ItemStep ==
  ASSUME NEW b \in Transaction, NEW F, NEW f \in 1..37, Fits(F, f)
  PROVE  Mutated(ItemWith(b, F), Registry(b)[f]) = ItemWith(b, F \cup {f})
<1> DEFINE G == F \cup {f}
           key == KeyOf(f)
           fault == Registry(b)[f]
<1>1. DOMAIN b = Keys
  BY DEF Transaction, Keys
<1>2. key \in Keys /\ LayerKey[fault.layer] = key
  BY KeyRanges, RegistryAims DEF AimedAs, KeyOf
<1>3. ItemWith(b, F)[key] = PartWith(b, key, F)
  BY <1>1, <1>2 DEF ItemWith
<1>4. Takes(PartWith(b, key, F), fault, PartWith(b, key, G))
        \/ TakesBoth(PartWith(b, key, F), fault, PartWith(b, key, G))
  BY PartStep
<1>5. ASSUME NEW x \in Keys, x # key PROVE PartWith(b, x, F) = PartWith(b, x, G)
  <2>1. \A g \in 1..37 : KeyOf(g) = x => (g \in F <=> g \in G)
    BY <1>5
  <2> HIDE DEF G
  <2> QED
    BY <2>1, PartAlike
<1> HIDE DEF G, key, fault
<1>6. Mutated(ItemWith(b, F), fault) = [ItemWith(b, F) EXCEPT ![key] = PartWith(b, key, G)]
  <2> DEFINE y == PartWith(b, key, G)
  <2>1. LET x == ItemWith(b, F)[LayerKey[fault.layer]]
        IN  Takes(x, fault, y) \/ TakesBoth(x, fault, y)
    BY <1>2, <1>3, <1>4
  <2> HIDE DEF y
  <2>2. Mutated(ItemWith(b, F), fault) = [ItemWith(b, F) EXCEPT ![LayerKey[fault.layer]] = y]
    BY <2>1, MutatedIs
  <2> QED
    BY <1>2, <2>2 DEF y
<1>7. [ItemWith(b, F) EXCEPT ![key] = PartWith(b, key, G)] = ItemWith(b, G)
  BY <1>1, <1>2, <1>5 DEF ItemWith
<1> QED
  BY <1>6, <1>7 DEF G, fault

LEMMA ItemNone ==
  ASSUME NEW b \in Transaction
  PROVE  ItemWith(b, {}) = b
<1> DEFINE c == b.authority_case
           e == c.edges[1]
<1>1. /\ b.attestation \in Attestation /\ c \in CaseType /\ b.measurement \in Measurement
      /\ DOMAIN b = Keys /\ b = [x \in DOMAIN b |-> b[x]]
  BY DEF Transaction, Keys
<1>2. /\ c.edges \in Seq(Edge) /\ c.edges # <<>> /\ c.action \in Action /\ c.receipt \in Receipt
      /\ DOMAIN c = {"protocol_valid", "edges", "action", "receipt"}
      /\ c = [x \in DOMAIN c |-> c[x]]
  BY <1>1 DEF CaseType
<1>3. e \in Edge /\ c.edges = [n \in DOMAIN c.edges |-> c.edges[n]]
  BY <1>2, LenProperties, EmptySeq, ElementOfSeq
<1>4. StateWith(b.attestation, {}) = b.attestation
  <2>1. b.attestation = [x \in DOMAIN b.attestation |-> b.attestation[x]]
    BY <1>1 DEF Attestation
  <2> QED
    BY <2>1, StruckNone DEF StateWith
<1>5. MeasurementWith(b.measurement, {}) = b.measurement
  <2>1. b.measurement = [x \in DOMAIN b.measurement |-> b.measurement[x]]
    BY <1>1 DEF Measurement
  <2> QED
    BY <2>1 DEF MeasurementWith
<1>6. EdgesWith(c.edges, {}) = c.edges
  <2>1. e = [x \in DOMAIN e |-> e[x]] /\ e.grant \in Scope
    BY <1>3 DEF Edge
  <2>2. e.grant = [x \in DOMAIN e.grant |-> e.grant[x]]
    BY <2>1 DEF Scope
  <2>3. GrantWith(e.grant, {}) = e.grant
    BY <2>2, StruckNone DEF GrantWith
  <2>4. Struck(e, EdgeOnlyFaults, WorseEdge(EffectTime), {}) = e
    BY <2>1, StruckNone
  <2> HIDE DEF e
  <2>5. [e EXCEPT !["grant"] = e.grant] = e
    BY <2>1
  <2>6. EdgeWith(e, {}) = e
    BY <2>3, <2>4, <2>5 DEF EdgeWith
  <2> QED
    BY <1>3, <2>6 DEF EdgesWith, e
<1>7. ActionWith(c, {}) = c.action
  <2>1. c.action = [x \in DOMAIN c.action |-> c.action[x]]
    BY <1>2 DEF Action
  <2> QED
    BY <2>1, StruckNone DEF ActionWith
<1>8. ReceiptWith(c.receipt, {}) = c.receipt
  <2> DEFINE r == c.receipt
  <2>1. r = [x \in DOMAIN r |-> r[x]] /\ r.action \in Action
    BY <1>2 DEF Receipt
  <2>2. r.action = [x \in DOMAIN r.action |-> r.action[x]]
    BY <2>1 DEF Action
  <2>3. Struck(r.action, BoundFaults, WorseBound(r.action), {}) = r.action
    BY <2>2, StruckNone
  <2>4. Struck(r, ReceiptOnlyFaults, WorseReceipt(EffectTime), {}) = r
    BY <2>1, StruckNone
  <2>5. [r EXCEPT !["action"] = r.action] = r
    BY <2>1
  <2> HIDE DEF r
  <2> QED
    BY <2>3, <2>4, <2>5 DEF ReceiptWith, r
<1>9. CaseWith(c, {}) = c
  BY <1>2, <1>6, <1>7, <1>8 DEF CaseWith
<1>10. PolicyWith(b.policy, {}) = b.policy /\ EvidenceWith(b.evidence, {}) = b.evidence
  BY DEF PolicyWith, EvidenceWith
<1> QED
  BY <1>1, <1>4, <1>5, <1>9, <1>10 DEF ItemWith, PartWith, Keys

(* Two functions that start alike and step alike are alike. *)
LEMMA SameRecursion ==
  ASSUME NEW n \in Nat, NEW f, NEW g, f[0] = g[0],
         \A k \in 1..n : f[k - 1] = g[k - 1] => f[k] = g[k]
  PROVE  \A k \in 0..n : f[k] = g[k]
<1> DEFINE bad == {k \in 0..n : f[k] # g[k]}
<1> SUFFICES ASSUME bad # {} PROVE FALSE
  OBVIOUS
<1>1. PICK m \in bad : \A k \in bad : m <= k
  <2>1. bad \in SUBSET Nat
    OBVIOUS
  <2> HIDE DEF bad
  <2> QED
    BY <2>1, LeastExists
<1>2. m \in 1..n
  BY <1>1
<1>3. m - 1 \in 0..n /\ m - 1 \notin bad
  BY <1>1, <1>2
<1> QED
  BY <1>1, <1>2, <1>3

Listed(list, k) == {list[j] : j \in 1..k}

InOrder(list) ==
  \A j, k \in DOMAIN list : j < k => Comparable(list[j], list[k])

(* What WithFaults makes of x, the item with the faults before the k-th. *)
Added(b, list, k, x) ==
  LET fault == Registry(b)[list[k]]
      key == LayerKey[fault.layer]
      shared == \E j \in 1..k-1 : Registry(b)[list[j]].layer = fault.layer
  IN  IF shared THEN Mutated(x, fault) ELSE [x EXCEPT ![key] = Mutated(b, fault)[key]]

BuildStep(b, list, g) ==
  [k \in 0..Len(list) |-> IF k = 0 THEN b ELSE Added(b, list, k, g[k - 1])]

LEMMA ListFits ==
  ASSUME NEW list \in Seq(1..37), InOrder(list), NEW k \in DOMAIN list
  PROVE  /\ list[k] \in 1..37 /\ \A j \in 1..k-1 : j \in DOMAIN list /\ list[j] \in 1..37
         /\ Fits(Listed(list, k - 1), list[k])
         /\ Listed(list, k) = Listed(list, k - 1) \cup {list[k]}
<1>1. DOMAIN list = 1..Len(list) /\ Len(list) \in Nat /\ \A j \in DOMAIN list : list[j] \in 1..37
  BY LenProperties, ElementOfSeq
<1>2. \A j \in 1..k-1 : j \in DOMAIN list /\ j < k
  BY <1>1
<1>3. \A j \in 1..k-1 : Comparable(list[j], list[k])
  BY <1>2 DEF InOrder
<1>4. ASSUME NEW g \in Listed(list, k - 1)
      PROVE  (list[k] \in 1..7 => LayerOf(g) # LayerOf(list[k])) /\ (list[k] = 37 => g # 36)
  <2>1. PICK j \in 1..k-1 : g = list[j]
    BY DEF Listed
  <2>2. Comparable(g, list[k])
    BY <1>3, <2>1
  <2>3. list[k] \in 1..7 => LayerOf(list[k]) \notin {"state", "authority", "measurement"}
    BY DEF LayerOf
  <2> QED
    BY <2>2, <2>3 DEF Comparable
<1>5. Fits(Listed(list, k - 1), list[k])
  BY <1>4 DEF Fits
<1>6. Listed(list, k) = Listed(list, k - 1) \cup {list[k]}
  BY <1>1 DEF Listed
<1> QED
  BY <1>1, <1>2, <1>5, <1>6

LEMMA AddedIs ==
  ASSUME NEW b \in Transaction, NEW list \in Seq(1..37), InOrder(list), NEW k \in DOMAIN list
  PROVE  Added(b, list, k, ItemWith(b, Listed(list, k - 1))) = ItemWith(b, Listed(list, k))
<1> DEFINE F == Listed(list, k - 1)
           f == list[k]
           G == F \cup {f}
           fault == Registry(b)[f]
           key == KeyOf(f)
           shared == \E j \in 1..k-1 : Registry(b)[list[j]].layer = fault.layer
<1>1. /\ f \in 1..37 /\ \A j \in 1..k-1 : list[j] \in 1..37
      /\ Fits(F, f) /\ Listed(list, k) = G
  BY ListFits
<1>2. shared <=> \E g \in F : LayerOf(g) = LayerOf(f)
  <2>1. \A j \in 1..k-1 : Registry(b)[list[j]].layer = LayerOf(list[j])
    BY <1>1, RegistryAims DEF AimedAs
  <2>2. fault.layer = LayerOf(f)
    BY <1>1, RegistryAims DEF AimedAs
  <2> QED
    BY <2>1, <2>2 DEF Listed
<1>3. LayerKey[fault.layer] = key
  BY <1>1, RegistryAims DEF AimedAs, KeyOf
<1>4. Added(b, list, k, ItemWith(b, F))
        = IF shared THEN Mutated(ItemWith(b, F), fault)
          ELSE [ItemWith(b, F) EXCEPT ![key] = Mutated(b, fault)[key]]
  BY <1>3 DEF Added
<1> HIDE DEF shared
<1>5. CASE shared
  <2>1. Mutated(ItemWith(b, F), fault) = ItemWith(b, G)
    <3> HIDE DEF F, f
    <3> QED
      BY <1>1, ItemStep
  <2> QED
    BY <1>1, <1>4, <1>5, <2>1
<1>6. CASE ~ shared
  <2>1. DOMAIN b = Keys /\ key \in Keys
    BY <1>1, KeyRanges DEF Transaction, Keys
  <2>2. Mutated(b, fault) = ItemWith(b, {f})
    <3>1. Fits({}, f)
      BY DEF Fits
    <3>2. Mutated(ItemWith(b, {}), fault) = ItemWith(b, {} \cup {f})
      BY <1>1, <3>1, ItemStep
    <3> QED
      BY <3>2, ItemNone
  <2>3. \A g \in 1..37 : KeyOf(g) = key => LayerOf(g) = LayerOf(f)
    <3>1. \A g \in 1..37 : LayerOf(g) \in DOMAIN LayerKey
      BY DEF LayerOf, LayerKey
    <3>2. \A u, v \in DOMAIN LayerKey : LayerKey[u] = LayerKey[v] => u = v
      BY DEF LayerKey
    <3> QED
      BY <1>1, <3>1, <3>2 DEF KeyOf
  <2>4. PartWith(b, key, {f}) = PartWith(b, key, G)
    <3> DEFINE H == {f}
    <3>1. \A g \in 1..37 : KeyOf(g) = key => (g \in H <=> g \in G)
      BY <1>2, <1>6, <2>3
    <3>3. key \in Keys
      BY <2>1
    <3> HIDE DEF G, H, key, f
    <3>2. PartWith(b, key, H) = PartWith(b, key, G)
      BY <3>1, <3>3, PartAlike, Zenon
    <3> QED
      BY <3>2 DEF H
  <2>5. ASSUME NEW x \in Keys, x # key PROVE PartWith(b, x, F) = PartWith(b, x, G)
    <3>1. \A g \in 1..37 : KeyOf(g) = x => (g \in F <=> g \in G)
      BY <2>5
    <3> HIDE DEF G, F
    <3> QED
      BY <3>1, PartAlike
  <2> HIDE DEF G, F, f, key
  <2>6. [ItemWith(b, F) EXCEPT ![key] = ItemWith(b, {f})[key]] = ItemWith(b, G)
    BY <2>1, <2>4, <2>5 DEF ItemWith
  <2> QED
    BY <1>1, <1>4, <1>6, <2>2, <2>6 DEF F
<1> QED
  BY <1>5, <1>6

LEMMA ItemIs ==
  ASSUME NEW b \in Transaction, NEW list \in Seq(1..37), InOrder(list)
  PROVE  WithFaults(b, list) = ItemWith(b, Listed(list, Len(list)))
<1> DEFINE after == CHOOSE g : g = BuildStep(b, list, g)
           h == [k \in 0..Len(list) |-> ItemWith(b, Listed(list, k))]
<1>1. WithFaults(b, list) = after[Len(list)]
  BY DEF WithFaults, BuildStep, Added
<1>2. DOMAIN list = 1..Len(list) /\ Len(list) \in Nat
  BY LenProperties
<1>3. Listed(list, 0) = {}
  BY DEF Listed
<1>4. ASSUME NEW k \in 1..Len(list)
      PROVE  Added(b, list, k, ItemWith(b, Listed(list, k - 1))) = ItemWith(b, Listed(list, k))
  BY <1>2, AddedIs
<1>5. h = BuildStep(b, list, h)
  <2>1. ItemWith(b, Listed(list, 0)) = b
    BY <1>3, ItemNone
  <2>2. \A k \in 1..Len(list) : h[k - 1] = ItemWith(b, Listed(list, k - 1))
    BY <1>2
  <2>3. ASSUME NEW k \in 0..Len(list)
        PROVE  ItemWith(b, Listed(list, k))
                 = IF k = 0 THEN b ELSE Added(b, list, k, h[k - 1])
    <3>1. CASE k = 0
      BY <3>1, <2>1
    <3>2. CASE k # 0
      <4>1. k \in 1..Len(list)
        BY <1>2, <3>2
      <4> HIDE DEF h
      <4> QED
        BY <1>4, <2>2, <3>2, <4>1
    <3> QED
      BY <3>1, <3>2
  <2>4. h = [k \in 0..Len(list) |-> ItemWith(b, Listed(list, k))]
    OBVIOUS
  <2> HIDE DEF h
  <2> QED
    BY <2>3, <2>4 DEF BuildStep
<1> HIDE DEF h
<1>6. after = BuildStep(b, list, after)
  BY <1>5
<1> HIDE DEF after
<1>7. after[0] = h[0]
  BY <1>2, <1>5, <1>6 DEF BuildStep
<1>8. ASSUME NEW k \in 1..Len(list), after[k - 1] = h[k - 1]
      PROVE  after[k] = h[k]
  <2>1. k \in 0..Len(list) /\ k # 0
    BY <1>2
  <2>2. after[k] = Added(b, list, k, after[k - 1])
    BY <1>6, <2>1 DEF BuildStep
  <2>3. h[k] = Added(b, list, k, h[k - 1])
    BY <1>5, <2>1 DEF BuildStep
  <2> QED
    BY <1>8, <2>2, <2>3
<1>9. after[Len(list)] = h[Len(list)]
  BY <1>2, <1>7, <1>8, SameRecursion
<1> QED
  BY <1>1, <1>2, <1>9 DEF h

-----------------------------------------------------------------------------
(* What a base is, because both labellers allow it.                        *)

(* The cache knows what p makes of the dataset of m, if m is looked at. *)
Knows(p, cache, m) ==
  m.profile_digest = m.required_profile_digest =>
    CacheKey(p, m) \in DOMAIN cache /\ cache[CacheKey(p, m)] = Bootstrap(p, m)

(* The layers of an item, as both labellers label them. *)
Labelled(p, item, cache) ==
  [policy |-> JsPolicyLayer(item.policy), evidence |-> JsEvidenceLayer(item.evidence),
   state |-> JsStateLayer(item.attestation),
   authority |-> JsAuthorityLayer(item.authority_case),
   measurement |-> JsMeasurementLayer(FixtureOf(p, cache, item.measurement))]

(* Python labels the item as JavaScript does. *)
Plain(item) ==
  /\ item.policy \in Optional(Policy)
  /\ Len(item.authority_case.edges) \in Nat
  /\ item.attestation.issued_at \in Nat /\ item.attestation.expires_at \in Nat

LEMMA EvaluateIs ==
  ASSUME NEW p \in Programs, NEW item, Plain(item), NEW cache
  PROVE  Evaluate(p, item, cache) = Summary(Labelled(p, item, cache))
<1> DEFINE t == [policy |-> item.policy, evidence |-> item.evidence,
                 attestation |-> item.attestation, authority_case |-> item.authority_case,
                 fixture |-> FixtureOf(p, cache, item.measurement)]
<1>1. Evaluate(p, item, cache) = IF p = "js" THEN JsEvaluate(t) ELSE PyEvaluate(t)
  BY DEF Evaluate
<1>2. JsEvaluate(t) = Summary(Labelled(p, item, cache))
  BY DEF JsEvaluate, Labelled
<1>3. /\ PyPolicyLayer(item.policy) = JsPolicyLayer(item.policy)
      /\ PyEvidenceLayer(item.evidence) = JsEvidenceLayer(item.evidence)
      /\ PyStateLayer(item.attestation) = JsStateLayer(item.attestation)
      /\ PyAuthorityLayer(item.authority_case) = JsAuthorityLayer(item.authority_case)
      /\ PyMeasurementLayer(t.fixture) = JsMeasurementLayer(t.fixture)
  BY PolicyAlike, EvidenceAlike, StateAlike, AuthorityAlike, MeasurementAlike DEF Plain
<1>4. PyEvaluate(t) = JsEvaluate(t)
  BY <1>3 DEF PyEvaluate, JsEvaluate
<1> QED
  BY <1>1, <1>2, <1>4

LEMMA SummaryAllows ==
  ASSUME NEW l, Summary(l).verdict = "ALLOW"
  PROVE  /\ l.policy.result = "PASS" /\ l.evidence.result = "PASS" /\ l.state.result = "PASS"
         /\ l.authority.result = "ALLOW" /\ l.measurement.result = "PASS"
<1> DEFINE failing == {name \in LayerNames : ~ LayerPasses(name, l[name].result)}
<1>1. Summary(l).verdict = Verdict(failing = {})
  BY DEF Summary
<1>2. failing = {}
  BY <1>1 DEF Verdict
<1>3. \A name \in LayerNames : LayerPasses(name, l[name].result)
  BY <1>2
<1> QED
  BY <1>3, Layered DEF LayerPasses

LEMMA BaseIsPlain ==
  ASSUME NEW b \in Bases
  PROVE  b \in Transaction /\ Plain(b) /\ Len(b.authority_case.edges) >= 2
<1>1. b \in Transaction /\ Len(b.authority_case.edges) >= 2
  BY BasesAssumption
<1>2. /\ b.policy \in Optional(Policy) /\ b.attestation \in Attestation
      /\ b.authority_case \in CaseType
  BY <1>1 DEF Transaction
<1>3. b.attestation.issued_at \in Nat /\ b.attestation.expires_at \in Nat
  BY <1>2 DEF Attestation
<1>4. Len(b.authority_case.edges) \in Nat
  BY <1>2, LenProperties DEF CaseType
<1> QED
  BY <1>1, <1>2, <1>3, <1>4 DEF Plain

(* What the labellers find of a base. *)
LEMMA BasePasses ==
  ASSUME NEW b \in Bases
  PROVE  LET a == b.attestation
             m == b.measurement
         IN  /\ JsPolicyLayer(b.policy).result = "PASS"
             /\ JsEvidenceLayer(b.evidence).result = "PASS"
             /\ JsStateLayer(a).result = "PASS"
             /\ JsAuthorityLayer(b.authority_case).result = "ALLOW"
             /\ m.profile_digest = m.required_profile_digest
             /\ \A p \in Programs : /\ ~ (Point[m.dataset] < m.threshold)
                                    /\ ~ (Lcb[p][m.dataset][m.alpha] < m.threshold)
<1> DEFINE m == b.measurement
           known(p) == [key \in {CacheKey(p, m)} |-> Bootstrap(p, m)]
<1>1. ASSUME NEW p \in Programs
      PROVE  LET l == Labelled(p, b, known(p))
             IN  /\ l.policy.result = "PASS" /\ l.evidence.result = "PASS"
                 /\ l.state.result = "PASS"
                 /\ l.authority.result = "ALLOW" /\ l.measurement.result = "PASS"
  <2> DEFINE l == Labelled(p, b, known(p))
  <2>1. Evaluate(p, b, known(p)).verdict = "ALLOW"
    BY BasesAssumption DEF Allows
  <2>2. Evaluate(p, b, known(p)) = Summary(l)
    BY BaseIsPlain, EvaluateIs
  <2> HIDE DEF l
  <2>3. Summary(l).verdict = "ALLOW"
    BY <2>1, <2>2
  <2>4. /\ l.policy.result = "PASS" /\ l.evidence.result = "PASS" /\ l.state.result = "PASS"
        /\ l.authority.result = "ALLOW" /\ l.measurement.result = "PASS"
    BY <2>3, SummaryAllows
  <2> QED
    BY <2>4 DEF l
<1>2. ASSUME NEW p \in Programs
      PROVE  /\ m.profile_digest = m.required_profile_digest
             /\ ~ (Point[m.dataset] < m.threshold)
             /\ ~ (Lcb[p][m.dataset][m.alpha] < m.threshold)
  <2> DEFINE f == FixtureOf(p, known(p), m)
  <2>1. JsMeasurementLayer(f).result = "PASS"
    BY <1>1 DEF Labelled
  <2>2. CacheKey(p, m) \in DOMAIN known(p) /\ known(p)[CacheKey(p, m)] = Bootstrap(p, m)
    OBVIOUS
  <2> HIDE DEF known
  <2>3. f = [profile_digest |-> m.profile_digest,
             required_profile_digest |-> m.required_profile_digest,
             point |-> Point[m.dataset], lcb |-> Lcb[p][m.dataset][m.alpha],
             threshold |-> m.threshold]
    BY <2>2 DEF FixtureOf, Bootstrap
  <2> HIDE DEF f
  <2>4. /\ f.profile_digest = f.required_profile_digest
        /\ ~ (f.point < f.threshold) /\ ~ (f.lcb < f.threshold)
    BY <2>1 DEF JsMeasurementLayer, Label
  <2> QED
    BY <2>3, <2>4
<1>3. "js" \in Programs
  BY DEF Programs
<1>4. LET l == Labelled("js", b, known("js"))
      IN  /\ l.policy.result = "PASS" /\ l.evidence.result = "PASS"
          /\ l.state.result = "PASS" /\ l.authority.result = "ALLOW"
  BY <1>1, <1>3
<1> HIDE DEF known
<1>5. /\ JsPolicyLayer(b.policy).result = "PASS" /\ JsEvidenceLayer(b.evidence).result = "PASS"
      /\ JsStateLayer(b.attestation).result = "PASS"
      /\ JsAuthorityLayer(b.authority_case).result = "ALLOW"
  BY <1>4 DEF Labelled
<1> QED
  BY <1>2, <1>3, <1>5

-----------------------------------------------------------------------------
(* The label of a layer is that of the first fault put into it.            *)

NoneIn(F, lo, hi) == \A g \in lo..hi : g \notin F

FirstIn(F, lo, hi, f) == f \in lo..hi /\ f \in F /\ \A g \in lo..hi : g < f => g \notin F

LEMMA PolicyLabelled ==
  ASSUME NEW b \in Bases, NEW F
  PROVE  LET l == JsPolicyLayer(PolicyWith(b.policy, F))
         IN  /\ NoneIn(F, 1, 5) => l = Passing("policy")
             /\ \A f : FirstIn(F, 1, 5, f) => l = FaultLabels[f]
<1> DEFINE l == JsPolicyLayer(PolicyWith(b.policy, F))
<1>1. ASSUME NEW p, NEW f \in 1..5, JsPolicyLayer(p).rule = FaultLabels[f].rule
      PROVE  JsPolicyLayer(p) = FaultLabels[f]
  <2>1. CASE f = 1
    BY <1>1, <2>1 DEF JsPolicyLayer, Passing, Label, FaultLabels
  <2>2. CASE f = 2
    BY <1>1, <2>2 DEF JsPolicyLayer, Passing, Label, FaultLabels
  <2>3. CASE f = 3
    BY <1>1, <2>3 DEF JsPolicyLayer, Passing, Label, FaultLabels
  <2>4. CASE f = 4
    BY <1>1, <2>4 DEF JsPolicyLayer, Passing, Label, FaultLabels
  <2>5. CASE f = 5
    BY <1>1, <2>5 DEF JsPolicyLayer, Passing, Label, FaultLabels
  <2> QED
    BY <2>1, <2>2, <2>3, <2>4, <2>5
<1>2. ASSUME NoneIn(F, 1, 5) PROVE l = Passing("policy")
  <2>1. PolicyWith(b.policy, F) = b.policy
    BY <1>2 DEF NoneIn, PolicyWith
  <2>2. JsPolicyLayer(b.policy).result = "PASS"
    BY BasePasses
  <2>3. JsPolicyLayer(b.policy) = Passing("policy")
    BY <2>2 DEF JsPolicyLayer, Passing, Label
  <2> QED
    BY <2>1, <2>3
<1>3. ASSUME NEW f, FirstIn(F, 1, 5, f) PROVE l = FaultLabels[f]
  <2> DEFINE rule == FaultLabels[f].rule
  <2>0. f \in 1..5
    BY <1>3 DEF FirstIn
  <2>1. rule \in {"P1", "P2", "P3", "P4", "P5"} /\ PolicyWith(b.policy, F) = Source[rule].policy
    <3>1. CASE f = 1
      BY <1>3, <3>1 DEF FirstIn, PolicyWith, FaultLabels, Label
    <3>2. CASE f = 2
      BY <1>3, <3>2 DEF FirstIn, PolicyWith, FaultLabels, Label
    <3>3. CASE f = 3
      BY <1>3, <3>3 DEF FirstIn, PolicyWith, FaultLabels, Label
    <3>4. CASE f = 4
      BY <1>3, <3>4 DEF FirstIn, PolicyWith, FaultLabels, Label
    <3>5. CASE f = 5
      BY <1>3, <3>5 DEF FirstIn, PolicyWith, FaultLabels, Label
    <3> QED
      BY <2>0, <3>1, <3>2, <3>3, <3>4, <3>5
  <2> HIDE DEF rule
  <2>2. JsPolicyLayer(PolicyWith(b.policy, F)).rule = rule
    BY <2>1, SourceAssumption
  <2> QED
    BY <1>1, <2>0, <2>2 DEF rule
<1> QED
  BY <1>2, <1>3

LEMMA EvidenceLabelled ==
  ASSUME NEW b \in Bases, NEW F
  PROVE  LET l == JsEvidenceLayer(EvidenceWith(b.evidence, F))
         IN  /\ NoneIn(F, 6, 7) => l = Passing("evidence")
             /\ \A f : FirstIn(F, 6, 7, f) => l = FaultLabels[f]
<1> DEFINE l == JsEvidenceLayer(EvidenceWith(b.evidence, F))
<1>1. ASSUME NEW e, NEW f \in 6..7, JsEvidenceLayer(e).rule = FaultLabels[f].rule
      PROVE  JsEvidenceLayer(e) = FaultLabels[f]
  <2>1. CASE f = 6
    BY <1>1, <2>1 DEF JsEvidenceLayer, Passing, Label, FaultLabels
  <2>2. CASE f = 7
    BY <1>1, <2>2 DEF JsEvidenceLayer, Passing, Label, FaultLabels
  <2> QED
    BY <2>1, <2>2
<1>2. ASSUME NoneIn(F, 6, 7) PROVE l = Passing("evidence")
  <2>1. EvidenceWith(b.evidence, F) = b.evidence
    BY <1>2 DEF NoneIn, EvidenceWith
  <2>2. JsEvidenceLayer(b.evidence).result = "PASS"
    BY BasePasses
  <2>3. JsEvidenceLayer(b.evidence) = Passing("evidence")
    BY <2>2 DEF JsEvidenceLayer, Passing, Label
  <2> QED
    BY <2>1, <2>3
<1>3. ASSUME NEW f, FirstIn(F, 6, 7, f) PROVE l = FaultLabels[f]
  <2> DEFINE rule == FaultLabels[f].rule
  <2>0. f \in 6..7
    BY <1>3 DEF FirstIn
  <2>1. rule \in {"E1", "E2"} /\ EvidenceWith(b.evidence, F) = Source[rule].evidence
    <3>1. CASE f = 6
      BY <1>3, <3>1 DEF FirstIn, EvidenceWith, FaultLabels, Label
    <3>2. CASE f = 7
      BY <1>3, <3>2 DEF FirstIn, EvidenceWith, FaultLabels, Label
    <3> QED
      BY <2>0, <3>1, <3>2
  <2> HIDE DEF rule
  <2>2. JsEvidenceLayer(EvidenceWith(b.evidence, F)).rule = rule
    BY <2>1, SourceAssumption
  <2> QED
    BY <1>1, <2>0, <2>2 DEF rule
<1> QED
  BY <1>2, <1>3

LEMMA StateLabelled ==
  ASSUME NEW b \in Bases, NEW F
  PROVE  LET l == JsStateLayer(StateWith(b.attestation, F))
         IN  /\ NoneIn(F, 8, 10) => l = Passing("state")
             /\ \A f : FirstIn(F, 8, 10, f) => l = FaultLabels[f]
<1> DEFINE a == b.attestation
           x == StateWith(a, F)
           l == JsStateLayer(x)
<1>1. a \in Attestation
  BY BaseIsPlain DEF Transaction
<1>2. /\ a.status = "affirming" /\ InInclusiveWindow(a.issued_at, a.expires_at)
      /\ a.reference_digest # None /\ a.observed_digest = a.reference_digest
  <2>1. JsStateLayer(a).result = "PASS"
    BY BasePasses
  <2> QED
    BY <2>1 DEF JsStateLayer, Label
<1>3. a.reference_digest # OutOfScope
  BY ForeignAssumption
<1>4. /\ x.status = IF 8 \in F THEN "negative" ELSE a.status
      /\ x.issued_at = IF 9 \in F THEN DecisionTime + 1 ELSE a.issued_at
      /\ x.observed_digest = IF 10 \in F THEN OutOfScope ELSE a.observed_digest
      /\ x.expires_at = a.expires_at /\ x.reference_digest = a.reference_digest
  BY <1>1 DEF StateWith, Struck, StateOnlyFaults, WorseState, Attestation
<1>5. ~ InInclusiveWindow(DecisionTime + 1, a.expires_at)
  <2>1. DecisionTime \in Nat
    BY AnchorAssumption
  <2> QED
    BY <2>1 DEF InInclusiveWindow
<1> HIDE DEF x, a
<1>6. ASSUME NoneIn(F, 8, 10) PROVE l = Passing("state")
  BY <1>2, <1>4, <1>6 DEF NoneIn, JsStateLayer
<1>7. ASSUME NEW f, FirstIn(F, 8, 10, f) PROVE l = FaultLabels[f]
  <2>1. f \in 8..10
    BY <1>7 DEF FirstIn
  <2>2. CASE f = 8
    BY <1>4, <1>7, <2>2 DEF FirstIn, JsStateLayer, FaultLabels
  <2>3. CASE f = 9
    BY <1>2, <1>4, <1>5, <1>7, <2>3 DEF FirstIn, JsStateLayer, FaultLabels
  <2>4. CASE f = 10
    BY <1>2, <1>3, <1>4, <1>7, <2>4 DEF FirstIn, JsStateLayer, FaultLabels
  <2> QED
    BY <2>1, <2>2, <2>3, <2>4
<1> QED
  BY <1>6, <1>7 DEF x, a

LEMMA MeasurementLabelled ==
  ASSUME NEW b \in Bases, NEW F, NEW p \in Programs, NEW cache,
         Knows(p, cache, MeasurementWith(b.measurement, F))
  PROVE  LET l == JsMeasurementLayer(FixtureOf(p, cache, MeasurementWith(b.measurement, F)))
         IN  /\ NoneIn(F, 35, 37) => l = Passing("measurement")
             /\ \A f : FirstIn(F, 35, 37, f) => l = FaultLabels[f]
<1> DEFINE m == b.measurement
           x == MeasurementWith(m, F)
           i == FixtureOf(p, cache, x)
           l == JsMeasurementLayer(i)
<1>1. m \in Measurement
  BY BaseIsPlain DEF Transaction
<1>2. /\ m.profile_digest = m.required_profile_digest
      /\ ~ (Point[m.dataset] < m.threshold)
      /\ ~ (Lcb[p][m.dataset][m.alpha] < m.threshold)
      /\ m.required_profile_digest # OutOfScope
  BY BasePasses, ForeignAssumption
<1>3. /\ x.profile_digest = IF 35 \in F THEN OutOfScope ELSE m.profile_digest
      /\ x.required_profile_digest = m.required_profile_digest
      /\ x.dataset = IF 36 \in F THEN "dataset-03"
                     ELSE IF 37 \in F THEN "dataset-01" ELSE m.dataset
      /\ x.threshold = (IF 36 \in F \/ 37 \in F THEN Threshold ELSE m.threshold)
      /\ x.alpha = m.alpha
  BY <1>1 DEF MeasurementWith, Measurement
<1>4. Knows(p, cache, x)
  OBVIOUS
<1>5. /\ Point["dataset-03"] < Threshold /\ ~ (Point["dataset-01"] < Threshold)
      /\ Lcb[p]["dataset-01"][m.alpha] < Threshold
  BY BootstrapAssumption
<1> HIDE DEF x, m
<1>6. /\ i.profile_digest = x.profile_digest
      /\ i.required_profile_digest = x.required_profile_digest
      /\ i.threshold = x.threshold
      /\ x.profile_digest = x.required_profile_digest =>
           i.point = Point[x.dataset] /\ i.lcb = Lcb[p][x.dataset][x.alpha]
  BY <1>4 DEF Knows, FixtureOf, Bootstrap
<1> HIDE DEF i
<1>7. ASSUME NoneIn(F, 35, 37) PROVE l = Passing("measurement")
  <2>1. 35 \notin F /\ 36 \notin F /\ 37 \notin F
    BY <1>7 DEF NoneIn
  <2> QED
    BY <1>2, <1>3, <1>6, <2>1 DEF JsMeasurementLayer
<1>8. ASSUME NEW f, FirstIn(F, 35, 37, f) PROVE l = FaultLabels[f]
  <2>1. f \in 35..37
    BY <1>8 DEF FirstIn
  <2>2. CASE f = 35
    <3>1. 35 \in F
      BY <1>8, <2>2 DEF FirstIn
    <3> QED
      BY <1>2, <1>3, <1>6, <2>2, <3>1 DEF JsMeasurementLayer, FaultLabels
  <2>3. CASE f = 36
    <3>1. 36 \in F /\ 35 \notin F
      BY <1>8, <2>3 DEF FirstIn
    <3> QED
      BY <1>2, <1>3, <1>5, <1>6, <2>3, <3>1 DEF JsMeasurementLayer, FaultLabels
  <2>4. CASE f = 37
    <3>1. 37 \in F /\ 35 \notin F /\ 36 \notin F
      BY <1>8, <2>4 DEF FirstIn
    <3> QED
      BY <1>2, <1>3, <1>5, <1>6, <2>4, <3>1 DEF JsMeasurementLayer, FaultLabels
  <2> QED
    BY <2>1, <2>2, <2>3, <2>4
<1> QED
  BY <1>7, <1>8 DEF i, x, m

-----------------------------------------------------------------------------
(* The label of the authority layer.                                       *)

(* What JavaScript found of a case that it allows. *)
LEMMA AuthorityAllows ==
  ASSUME NEW c, JsAuthorityLayer(c).result = "ALLOW"
  PROVE  /\ c.protocol_valid
         /\ \A n \in 1..Len(c.edges) : EdgeBreaks(c, n) = {}
         /\ ActionFaults(c.action, Carried(c, Len(c.edges) + 1)) = {}
         /\ EffectFaults(c.receipt, c.action) = {}
         /\ JsAuthorityLayer(c) = Passing("authority")
<1> DEFINE act == ActionFaults(c.action, Carried(c, Len(c.edges) + 1))
           eff == EffectFaults(c.receipt, c.action)
           Denied(g, n) == Label("DENY", g, RuleOf(g), n)
           n == Smallest(Broken(c))
<1>1. JsAuthorityLayer(c)
        = IF ~ c.protocol_valid THEN Denied("protocol.valid", 0)
          ELSE IF Broken(c) # {} THEN Denied(FirstOf(EdgeOrder, EdgeBreaks(c, n)), n - 1)
          ELSE IF act # {} THEN Denied(FirstOf(ActionOrder, act), 0)
          ELSE IF eff # {} THEN Denied(FirstOf(EffectOrder, eff), 0)
          ELSE Passing("authority")
  BY DEF JsAuthorityLayer, Broken
<1>2. \A g, k : Denied(g, k).result # "ALLOW"
  BY DEF Label
<1> HIDE DEF act, eff, Denied, n
<1>3. c.protocol_valid /\ Broken(c) = {} /\ act = {} /\ eff = {}
  BY <1>1, <1>2
<1>4. JsAuthorityLayer(c) = Passing("authority")
  BY <1>1, <1>3
<1> QED
  BY <1>3, <1>4 DEF Broken, act, eff

(* What denies a case, by the first of its faults. *)
Denial(g, n) == Label("DENY", g, RuleOf(g), n)

LEMMA DeniedByProtocol ==
  ASSUME NEW c, ~ c.protocol_valid
  PROVE  JsAuthorityLayer(c) = Denial("protocol.valid", 0)
BY DEF JsAuthorityLayer, Denial

LEMMA DeniedByEdge ==
  ASSUME NEW c, c.protocol_valid, Len(c.edges) \in Nat, NEW n \in 1..Len(c.edges),
         \A m \in 1..n-1 : EdgeBreaks(c, m) = {},
         NEW k \in 1..13, EdgeOrder[k] \in EdgeBreaks(c, n),
         \A m \in 1..k-1 : EdgeOrder[m] \notin EdgeBreaks(c, n)
  PROVE  JsAuthorityLayer(c) = Denial(EdgeOrder[k], n - 1)
<1>1. n \in Broken(c) /\ Broken(c) \in SUBSET Nat
  BY DEF Broken
<1>2. \A m \in Broken(c) : n <= m
  <2>1. ASSUME NEW m \in Broken(c), m < n PROVE FALSE
    <3>1. m \in 1..n-1
      BY <2>1 DEF Broken
    <3> QED
      BY <2>1, <3>1 DEF Broken
  <2> QED
    BY <1>1, <2>1
<1>3. Smallest(Broken(c)) = n
  BY <1>1, <1>2, SmallestIs
<1>4. DOMAIN EdgeOrder = 1..13
  BY DEF EdgeOrder
<1>5. FirstOf(EdgeOrder, EdgeBreaks(c, n)) = EdgeOrder[k]
  <2> DEFINE order == EdgeOrder
             S == EdgeBreaks(c, n)
  <2>1. DOMAIN order \subseteq Nat /\ k \in DOMAIN order /\ \A m \in DOMAIN order : m >= 1
    BY <1>4
  <2>2. order[k] \in S /\ \A m \in 1..k-1 : order[m] \notin S
    OBVIOUS
  <2> HIDE DEF order, S
  <2>3. FirstOf(order, S) = order[k]
    BY <2>1, <2>2, FirstOfIs
  <2> QED
    BY <2>3 DEF order, S
<1>6. JsAuthorityLayer(c)
        = LET i == Smallest(Broken(c))
              g == FirstOf(EdgeOrder, EdgeBreaks(c, i))
          IN  Label("DENY", g, RuleOf(g), i - 1)
  BY <1>1 DEF JsAuthorityLayer, Broken
<1> QED
  BY <1>3, <1>5, <1>6 DEF Denial

LEMMA DeniedByAction ==
  ASSUME NEW c, c.protocol_valid, \A m \in 1..Len(c.edges) : EdgeBreaks(c, m) = {},
         NEW S, S = ActionFaults(c.action, Carried(c, Len(c.edges) + 1)),
         NEW k \in 1..7, ActionOrder[k] \in S, \A m \in 1..k-1 : ActionOrder[m] \notin S
  PROVE  JsAuthorityLayer(c) = Denial(ActionOrder[k], 0)
<1>1. Broken(c) = {}
  BY DEF Broken
<1>2. DOMAIN ActionOrder = 1..7
  BY DEF ActionOrder
<1>3. FirstOf(ActionOrder, S) = ActionOrder[k]
  <2> DEFINE order == ActionOrder
  <2>1. DOMAIN order \subseteq Nat /\ k \in DOMAIN order /\ \A m \in DOMAIN order : m >= 1
    BY <1>2
  <2>2. order[k] \in S /\ \A m \in 1..k-1 : order[m] \notin S
    OBVIOUS
  <2> HIDE DEF order
  <2>3. FirstOf(order, S) = order[k]
    BY <2>1, <2>2, FirstOfIs
  <2> QED
    BY <2>3 DEF order
<1> QED
  BY <1>1, <1>3 DEF JsAuthorityLayer, Broken, Denial

LEMMA DeniedByEffect ==
  ASSUME NEW c, c.protocol_valid, \A m \in 1..Len(c.edges) : EdgeBreaks(c, m) = {},
         ActionFaults(c.action, Carried(c, Len(c.edges) + 1)) = {},
         NEW S, S = EffectFaults(c.receipt, c.action),
         NEW k \in 1..3, EffectOrder[k] \in S, \A m \in 1..k-1 : EffectOrder[m] \notin S
  PROVE  JsAuthorityLayer(c) = Denial(EffectOrder[k], 0)
<1>1. Broken(c) = {}
  BY DEF Broken
<1>2. DOMAIN EffectOrder = 1..3
  BY DEF EffectOrder
<1>3. FirstOf(EffectOrder, S) = EffectOrder[k]
  <2> DEFINE order == EffectOrder
  <2>1. DOMAIN order \subseteq Nat /\ k \in DOMAIN order /\ \A m \in DOMAIN order : m >= 1
    BY <1>2
  <2>2. order[k] \in S /\ \A m \in 1..k-1 : order[m] \notin S
    OBVIOUS
  <2> HIDE DEF order
  <2>3. FirstOf(order, S) = order[k]
    BY <2>1, <2>2, FirstOfIs
  <2> QED
    BY <2>3 DEF order
<1> QED
  BY <1>1, <1>3 DEF JsAuthorityLayer, Broken, Denial

(* The denials are the labels of the faults from A0 on. *)
LEMMA DenialsAre ==
  /\ Denial("protocol.valid", 0) = FaultLabels[11]
  /\ \A k \in 1..13 : Denial(EdgeOrder[k], IF k = 3 THEN 1 ELSE 0) = FaultLabels[k + 11]
  /\ \A k \in 1..7 : Denial(ActionOrder[k], 0) = FaultLabels[k + 24]
  /\ \A k \in 1..3 : Denial(EffectOrder[k], 0) = FaultLabels[k + 31]
<1>1. Denial("protocol.valid", 0) = FaultLabels[11]
  BY DEF Denial, RuleOf, FaultLabels
<1>2. \A k \in 1..13 : Denial(EdgeOrder[k], IF k = 3 THEN 1 ELSE 0) = FaultLabels[k + 11]
  <2>1. \A k \in 1..4 : Denial(EdgeOrder[k], IF k = 3 THEN 1 ELSE 0) = FaultLabels[k + 11]
    BY DEF Denial, RuleOf, FaultLabels, EdgeOrder
  <2>2. \A k \in 5..8 : Denial(EdgeOrder[k], 0) = FaultLabels[k + 11]
    BY DEF Denial, RuleOf, FaultLabels, EdgeOrder
  <2>3. \A k \in 9..13 : Denial(EdgeOrder[k], 0) = FaultLabels[k + 11]
    BY DEF Denial, RuleOf, FaultLabels, EdgeOrder
  <2>4. \A k \in 1..13 : k \in 1..4 \/ (k \in 5..8 /\ k # 3) \/ (k \in 9..13 /\ k # 3)
    OBVIOUS
  <2> QED
    BY <2>1, <2>2, <2>3, <2>4
<1>3. \A k \in 1..7 : Denial(ActionOrder[k], 0) = FaultLabels[k + 24]
  BY DEF Denial, RuleOf, FaultLabels, ActionOrder
<1>4. \A k \in 1..3 : Denial(EffectOrder[k], 0) = FaultLabels[k + 31]
  BY DEF Denial, RuleOf, FaultLabels, EffectOrder
<1> QED
  BY <1>1, <1>2, <1>3, <1>4

(* The gates of an edge, one by one. *)
LEMMA EdgeGates ==
  ASSUME NEW e, NEW q, NEW first
  PROVE  LET S == EdgeFaults(e, q, first)
         IN  /\ EdgeOrder[1] \in S <=> (e.delegator # q.principal \/ e.from_role # q.role)
             /\ EdgeOrder[2] \in S <=> (~ e.issuer_signature_valid)
             /\ EdgeOrder[3] \in S <=> (~ first /\ ~ q.scope.delegable)
             /\ EdgeOrder[4] \in S <=> (e.to_role \notin base.transitions[q.role])
             /\ EdgeOrder[5] \in S <=> (e.status # "active")
             /\ EdgeOrder[6] \in S <=> (~ (e.not_before <= EffectTime /\ EffectTime <= e.expires_at))
             /\ EdgeOrder[7] \in S <=> (~ (e.grant.operations \subseteq q.scope.operations))
             /\ EdgeOrder[8] \in S <=> (~ (e.grant.resources \subseteq q.scope.resources))
             /\ EdgeOrder[9] \in S <=> (~ (e.grant.tools \subseteq q.scope.tools))
             /\ EdgeOrder[10] \in S <=> (~ (e.grant.audiences \subseteq q.scope.audiences))
             /\ EdgeOrder[11] \in S <=> (~ (e.grant.purposes \subseteq q.scope.purposes))
             /\ EdgeOrder[12] \in S <=> (e.grant.currency # q.scope.currency)
             /\ EdgeOrder[13] \in S <=> (e.grant.amount_max > q.scope.amount_max)
<1> DEFINE S == EdgeFaults(e, q, first)
<1>1. \A k \in 1..13 : EdgeOrder[k] \in Gates(EdgeOrder)
  <2>1. DOMAIN EdgeOrder = 1..13
    BY DEF EdgeOrder
  <2> QED
    BY <2>1 DEF Gates
<1>2. EdgeOrder[1] \in S <=> (e.delegator # q.principal \/ e.from_role # q.role)
  <2>1. EdgeOrder[1] = "edge.lineage"
    BY DEF EdgeOrder
  <2> QED
    BY <1>1, <2>1 DEF EdgeFaults
<1>3. EdgeOrder[2] \in S <=> (~ e.issuer_signature_valid)
  <2>1. EdgeOrder[2] = "edge.signature"
    BY DEF EdgeOrder
  <2> QED
    BY <1>1, <2>1 DEF EdgeFaults
<1>4. EdgeOrder[3] \in S <=> (~ first /\ ~ q.scope.delegable)
  <2>1. EdgeOrder[3] = "edge.parent_delegable"
    BY DEF EdgeOrder
  <2> QED
    BY <1>1, <2>1 DEF EdgeFaults
<1>5. EdgeOrder[4] \in S <=> (e.to_role \notin base.transitions[q.role])
  <2>1. EdgeOrder[4] = "edge.role_transition"
    BY DEF EdgeOrder
  <2> QED
    BY <1>1, <2>1 DEF EdgeFaults
<1>6. EdgeOrder[5] \in S <=> (e.status # "active")
  <2>1. EdgeOrder[5] = "edge.status"
    BY DEF EdgeOrder
  <2> QED
    BY <1>1, <2>1 DEF EdgeFaults
<1>7. EdgeOrder[6] \in S <=> (~ (e.not_before <= EffectTime /\ EffectTime <= e.expires_at))
  <2>1. EdgeOrder[6] = "edge.freshness"
    BY DEF EdgeOrder
  <2> QED
    BY <1>1, <2>1 DEF EdgeFaults
<1>8. EdgeOrder[7] \in S <=> (~ (e.grant.operations \subseteq q.scope.operations))
  <2>1. EdgeOrder[7] = "edge.scope.operations"
    BY DEF EdgeOrder
  <2> QED
    BY <1>1, <2>1 DEF EdgeFaults
<1>9. EdgeOrder[8] \in S <=> (~ (e.grant.resources \subseteq q.scope.resources))
  <2>1. EdgeOrder[8] = "edge.scope.resources"
    BY DEF EdgeOrder
  <2> QED
    BY <1>1, <2>1 DEF EdgeFaults
<1>10. EdgeOrder[9] \in S <=> (~ (e.grant.tools \subseteq q.scope.tools))
  <2>1. EdgeOrder[9] = "edge.scope.tools"
    BY DEF EdgeOrder
  <2> QED
    BY <1>1, <2>1 DEF EdgeFaults
<1>11. EdgeOrder[10] \in S <=> (~ (e.grant.audiences \subseteq q.scope.audiences))
  <2>1. EdgeOrder[10] = "edge.scope.audiences"
    BY DEF EdgeOrder
  <2> QED
    BY <1>1, <2>1 DEF EdgeFaults
<1>12. EdgeOrder[11] \in S <=> (~ (e.grant.purposes \subseteq q.scope.purposes))
  <2>1. EdgeOrder[11] = "edge.scope.purposes"
    BY DEF EdgeOrder
  <2> QED
    BY <1>1, <2>1 DEF EdgeFaults
<1>13. EdgeOrder[12] \in S <=> (e.grant.currency # q.scope.currency)
  <2>1. EdgeOrder[12] = "edge.scope.currency"
    BY DEF EdgeOrder
  <2> QED
    BY <1>1, <2>1 DEF EdgeFaults
<1>14. EdgeOrder[13] \in S <=> (e.grant.amount_max > q.scope.amount_max)
  <2>1. EdgeOrder[13] = "edge.scope.amount_max"
    BY DEF EdgeOrder
  <2> QED
    BY <1>1, <2>1 DEF EdgeFaults
<1> QED
  BY <1>2, <1>3, <1>4, <1>5, <1>6, <1>7, <1>8, <1>9, <1>10, <1>11, <1>12, <1>13, <1>14

LEMMA ActionGates ==
  ASSUME NEW a, NEW q
  PROVE  LET S == ActionFaults(a, q)
         IN  /\ ActionOrder[1] \in S <=> (a.subject # q.principal \/ a.role # q.role)
             /\ ActionOrder[2] \in S <=> (a.operation \notin q.scope.operations)
             /\ ActionOrder[3] \in S <=> (a.resource \notin q.scope.resources)
             /\ ActionOrder[4] \in S <=> (a.tool \notin q.scope.tools)
             /\ ActionOrder[5] \in S <=> (a.audience \notin q.scope.audiences)
             /\ ActionOrder[6] \in S <=> (a.purpose \notin q.scope.purposes)
             /\ ActionOrder[7] \in S <=> (a.currency # q.scope.currency \/ a.amount > q.scope.amount_max)
<1> DEFINE S == ActionFaults(a, q)
<1>1. \A k \in 1..7 : ActionOrder[k] \in Gates(ActionOrder)
  <2>1. DOMAIN ActionOrder = 1..7
    BY DEF ActionOrder
  <2> QED
    BY <2>1 DEF Gates
<1>2. ActionOrder[1] \in S <=> (a.subject # q.principal \/ a.role # q.role)
  <2>1. ActionOrder[1] = "action.subject_role"
    BY DEF ActionOrder
  <2> QED
    BY <1>1, <2>1 DEF ActionFaults
<1>3. ActionOrder[2] \in S <=> (a.operation \notin q.scope.operations)
  <2>1. ActionOrder[2] = "action.operation"
    BY DEF ActionOrder
  <2> QED
    BY <1>1, <2>1 DEF ActionFaults
<1>4. ActionOrder[3] \in S <=> (a.resource \notin q.scope.resources)
  <2>1. ActionOrder[3] = "action.resource"
    BY DEF ActionOrder
  <2> QED
    BY <1>1, <2>1 DEF ActionFaults
<1>5. ActionOrder[4] \in S <=> (a.tool \notin q.scope.tools)
  <2>1. ActionOrder[4] = "action.tool"
    BY DEF ActionOrder
  <2> QED
    BY <1>1, <2>1 DEF ActionFaults
<1>6. ActionOrder[5] \in S <=> (a.audience \notin q.scope.audiences)
  <2>1. ActionOrder[5] = "action.audience"
    BY DEF ActionOrder
  <2> QED
    BY <1>1, <2>1 DEF ActionFaults
<1>7. ActionOrder[6] \in S <=> (a.purpose \notin q.scope.purposes)
  <2>1. ActionOrder[6] = "action.purpose"
    BY DEF ActionOrder
  <2> QED
    BY <1>1, <2>1 DEF ActionFaults
<1>8. ActionOrder[7] \in S <=> (a.currency # q.scope.currency \/ a.amount > q.scope.amount_max)
  <2>1. ActionOrder[7] = "action.amount_currency"
    BY DEF ActionOrder
  <2> QED
    BY <1>1, <2>1 DEF ActionFaults
<1> QED
  BY <1>2, <1>3, <1>4, <1>5, <1>6, <1>7, <1>8

LEMMA EffectGates ==
  ASSUME NEW r, NEW a
  PROVE  LET S == EffectFaults(r, a)
         IN  /\ EffectOrder[1] \in S <=> (~ r.native_evidence_valid)
             /\ EffectOrder[2] \in S <=> (r.effect_time # EffectTime)
             /\ EffectOrder[3] \in S <=> (r.action # a)
<1> DEFINE S == EffectFaults(r, a)
<1>1. \A k \in 1..3 : EffectOrder[k] \in Gates(EffectOrder)
  <2>1. DOMAIN EffectOrder = 1..3
    BY DEF EffectOrder
  <2> QED
    BY <2>1 DEF Gates
<1>2. EffectOrder[1] \in S <=> (~ r.native_evidence_valid)
  <2>1. EffectOrder[1] = "effect.native_validity"
    BY DEF EffectOrder
  <2> QED
    BY <1>1, <2>1 DEF EffectFaults
<1>3. EffectOrder[2] \in S <=> (r.effect_time # EffectTime)
  <2>1. EffectOrder[2] = "effect.time_binding"
    BY DEF EffectOrder
  <2> QED
    BY <1>1, <2>1 DEF EffectFaults
<1>4. EffectOrder[3] \in S <=> (r.action # a)
  <2>1. EffectOrder[3] = "effect.action_binding"
    BY DEF EffectOrder
  <2> QED
    BY <1>1, <2>1 DEF EffectFaults
<1> QED
  BY <1>2, <1>3, <1>4

LEMMA StruckAt ==
  ASSUME NEW r, NEW by, NEW new, NEW F, NEW x \in DOMAIN r
  PROVE  /\ x \in DOMAIN by /\ by[x] \in F => Struck(r, by, new, F)[x] = new[x]
         /\ x \notin DOMAIN by \/ by[x] \notin F => Struck(r, by, new, F)[x] = r[x]
BY DEF Struck

LEMMA GrantDelegable ==
  ASSUME NEW g \in Scope, NEW F, 14 \in F
  PROVE  ~ GrantWith(g, F).delegable
<1>1. "delegable" \in DOMAIN g /\ "delegable" \in DOMAIN GrantFaults
      /\ GrantFaults["delegable"] \in F
  BY DEF GrantFaults, Scope
<1>2. GrantWith(g, F)["delegable"] = WorseGrant(g)["delegable"]
  BY <1>1, StruckAt DEF GrantWith
<1>3. ~ WorseGrant(g)["delegable"]
  BY DEF WorseGrant
<1> QED
  BY <1>2, <1>3

LEMMA GrantFields ==
  ASSUME NEW g \in Scope, NEW F
  PROVE  LET h == GrantWith(g, F)
         IN  /\ h.operations = IF 18 \in F THEN g.operations \cup {OutOfScope} ELSE g.operations
             /\ h.resources = IF 19 \in F THEN g.resources \cup {OutOfScope} ELSE g.resources
             /\ h.tools = IF 20 \in F THEN g.tools \cup {OutOfScope} ELSE g.tools
             /\ h.audiences = IF 21 \in F THEN g.audiences \cup {OutOfScope} ELSE g.audiences
             /\ h.purposes = IF 22 \in F THEN g.purposes \cup {OutOfScope} ELSE g.purposes
             /\ h.currency = IF 23 \in F THEN "USD" ELSE g.currency
             /\ h.amount_max = IF 24 \in F THEN base.scope.amount_max + 1 ELSE g.amount_max
<1>1. DOMAIN g = {"operations", "resources", "tools", "audiences", "purposes", "amount_max",
                  "currency", "delegable"}
  BY DEF Scope
<1>2. GrantWith(g, F).operations = IF 18 \in F THEN g.operations \cup {OutOfScope} ELSE g.operations
  BY <1>1 DEF GrantWith, Struck, GrantFaults, WorseGrant
<1>3. GrantWith(g, F).resources = IF 19 \in F THEN g.resources \cup {OutOfScope} ELSE g.resources
  BY <1>1 DEF GrantWith, Struck, GrantFaults, WorseGrant
<1>4. GrantWith(g, F).tools = IF 20 \in F THEN g.tools \cup {OutOfScope} ELSE g.tools
  BY <1>1 DEF GrantWith, Struck, GrantFaults, WorseGrant
<1>5. GrantWith(g, F).audiences = IF 21 \in F THEN g.audiences \cup {OutOfScope} ELSE g.audiences
  BY <1>1 DEF GrantWith, Struck, GrantFaults, WorseGrant
<1>6. GrantWith(g, F).purposes = IF 22 \in F THEN g.purposes \cup {OutOfScope} ELSE g.purposes
  BY <1>1 DEF GrantWith, Struck, GrantFaults, WorseGrant
<1>7. GrantWith(g, F).currency = IF 23 \in F THEN "USD" ELSE g.currency
  BY <1>1 DEF GrantWith, Struck, GrantFaults, WorseGrant
<1>8. GrantWith(g, F).amount_max = IF 24 \in F THEN base.scope.amount_max + 1 ELSE g.amount_max
  BY <1>1 DEF GrantWith, Struck, GrantFaults, WorseGrant
<1> QED
  BY <1>2, <1>3, <1>4, <1>5, <1>6, <1>7, <1>8

LEMMA EdgeFields ==
  ASSUME NEW e \in Edge, NEW F
  PROVE  LET x == EdgeWith(e, F)
         IN  /\ x.delegator = IF 12 \in F THEN "intruder" ELSE e.delegator
             /\ 13 \in F => ~ x.issuer_signature_valid
             /\ 13 \notin F => x.issuer_signature_valid = e.issuer_signature_valid
             /\ x.to_role = IF 15 \in F THEN "invalid" ELSE e.to_role
             /\ x.status = IF 16 \in F THEN "revoked" ELSE e.status
             /\ x.not_before = IF 17 \in F THEN EffectTime + 1 ELSE e.not_before
             /\ x.from_role = e.from_role /\ x.delegate = e.delegate
             /\ x.expires_at = e.expires_at /\ x.grant = GrantWith(e.grant, F)
<1> DEFINE s == Struck(e, EdgeOnlyFaults, WorseEdge(EffectTime), F)
           x == EdgeWith(e, F)
<1>1. DOMAIN e = {"delegator", "delegate", "from_role", "to_role", "issuer_signature_valid",
                  "status", "not_before", "expires_at", "grant"}
  BY DEF Edge
<1>2. DOMAIN s = DOMAIN e
  BY DEF Struck
<1>3. ASSUME NEW y \in DOMAIN e, y # "grant" PROVE x[y] = s[y]
  BY <1>2, <1>3 DEF EdgeWith
<1>4. x.grant = GrantWith(e.grant, F)
  BY <1>1, <1>2 DEF EdgeWith
<1>5. /\ s.delegator = IF 12 \in F THEN "intruder" ELSE e.delegator
      /\ s.to_role = IF 15 \in F THEN "invalid" ELSE e.to_role
      /\ s.status = IF 16 \in F THEN "revoked" ELSE e.status
      /\ s.not_before = IF 17 \in F THEN EffectTime + 1 ELSE e.not_before
  BY <1>1 DEF Struck, EdgeOnlyFaults, WorseEdge
<1>6. /\ s.from_role = e.from_role /\ s.delegate = e.delegate
      /\ s.expires_at = e.expires_at
  BY <1>1 DEF Struck, EdgeOnlyFaults, WorseEdge
<1>7. ASSUME 13 \in F PROVE ~ s.issuer_signature_valid
  <2>1. "issuer_signature_valid" \in DOMAIN e
        /\ "issuer_signature_valid" \in DOMAIN EdgeOnlyFaults
        /\ EdgeOnlyFaults["issuer_signature_valid"] \in F
    BY <1>1, <1>7 DEF EdgeOnlyFaults
  <2>2. s["issuer_signature_valid"] = WorseEdge(EffectTime)["issuer_signature_valid"]
    BY <2>1, StruckAt
  <2>3. ~ WorseEdge(EffectTime)["issuer_signature_valid"]
    BY DEF WorseEdge
  <2> QED
    BY <2>2, <2>3
<1>8. 13 \notin F => s.issuer_signature_valid = e.issuer_signature_valid
  <2>1. "issuer_signature_valid" \in DOMAIN e
        /\ EdgeOnlyFaults["issuer_signature_valid"] = 13
    BY <1>1 DEF EdgeOnlyFaults
  <2> QED
    BY <2>1, StruckAt
<1> HIDE DEF s, x
<1> QED
  BY <1>1, <1>3, <1>4, <1>5, <1>6, <1>7, <1>8 DEF x

(* What is known of a base's path, action and receipt. *)
LEMMA BaseCase ==
  ASSUME NEW b \in Bases
  PROVE  LET c == b.authority_case
         IN  /\ c \in CaseType /\ c.protocol_valid
             /\ Len(c.edges) \in Nat /\ Len(c.edges) >= 2
             /\ \A n \in 1..Len(c.edges) : c.edges[n] \in Edge /\ EdgeBreaks(c, n) = {}
             /\ ActionFaults(c.action, Carried(c, Len(c.edges) + 1)) = {}
             /\ EffectFaults(c.receipt, c.action) = {}
             /\ JsAuthorityLayer(c) = Passing("authority")
             /\ CaseWith(c, {}) = c
             /\ EdgesWith(c.edges, {}) = c.edges /\ ActionWith(c, {}) = c.action
             /\ ReceiptWith(c.receipt, {}) = c.receipt
<1> DEFINE c == b.authority_case
<1>1. b \in Transaction /\ c \in CaseType /\ Len(c.edges) \in Nat /\ Len(c.edges) >= 2
  BY BaseIsPlain DEF Plain, Transaction
<1>2. JsAuthorityLayer(c).result = "ALLOW"
  BY BasePasses
<1>3. \A n \in 1..Len(c.edges) : c.edges[n] \in Edge
  BY <1>1, ElementOfSeq DEF CaseType
<1>4. CaseWith(c, {}) = c
  <2>1. ItemWith(b, {})["authority_case"] = CaseWith(c, {})
    BY <1>1 DEF ItemWith, PartWith, Transaction
  <2>2. ItemWith(b, {}) = b
    BY <1>1, ItemNone
  <2> QED
    BY <2>1, <2>2
<1> HIDE DEF c
<1>5. /\ EdgesWith(c.edges, {}) = c.edges /\ ActionWith(c, {}) = c.action
      /\ ReceiptWith(c.receipt, {}) = c.receipt
  BY <1>1, <1>4, CaseParts
<1>6. /\ c.protocol_valid /\ \A n \in 1..Len(c.edges) : EdgeBreaks(c, n) = {}
      /\ ActionFaults(c.action, Carried(c, Len(c.edges) + 1)) = {}
      /\ EffectFaults(c.receipt, c.action) = {}
      /\ JsAuthorityLayer(c) = Passing("authority")
  BY <1>2, AuthorityAllows
<1> QED
  BY <1>1, <1>3, <1>4, <1>5, <1>6 DEF c

(* Of the faults of the first edge, only A3 does not show there. *)
LEMMA FirstEdgeFaults ==
  ASSUME NEW b \in Bases, NEW F
  PROVE  LET S == EdgeFaults(EdgeWith(b.authority_case.edges[1], F), Root, TRUE)
         IN  \A k \in 1..13 : EdgeOrder[k] \in S <=> k # 3 /\ k + 11 \in F
<1> DEFINE c == b.authority_case
           e == c.edges[1]
           x == EdgeWith(e, F)
           S == EdgeFaults(x, Root, TRUE)
<1>1. e \in Edge /\ EdgeBreaks(c, 1) = {}
  BY BaseCase
<1>2. EdgeFaults(e, Root, TRUE) = {}
  BY <1>1 DEF EdgeBreaks, Carried
<1>3. Root.principal = base.root_principal /\ Root.role = base.root_role /\ Root.scope = base.scope
  BY DEF Root
<1>4. /\ "intruder" # Root.principal /\ "invalid" \notin base.transitions[Root.role]
      /\ "USD" # Root.scope.currency
      /\ OutOfScope \notin Root.scope.operations /\ OutOfScope \notin Root.scope.resources
      /\ OutOfScope \notin Root.scope.tools /\ OutOfScope \notin Root.scope.audiences
      /\ OutOfScope \notin Root.scope.purposes
  BY <1>3, ForeignAssumption
<1>5. EffectTime \in Nat /\ Root.scope.amount_max \in Nat
  BY <1>3, BaseAssumption DEF Scope
<1>6. e.grant \in Scope
  BY <1>1 DEF Edge
<1> DEFINE q == Root
           T == EdgeFaults(e, q, TRUE)
<1>7. T = {}
  BY <1>2
<1> HIDE DEF c, e, x, S, q, T
<1>8. /\ ~ (e.delegator # q.principal \/ e.from_role # q.role)
      /\ ~ (~ e.issuer_signature_valid)
      /\ ~ (e.to_role \notin base.transitions[q.role])
      /\ ~ (e.status # "active")
      /\ ~ (~ (e.not_before <= EffectTime /\ EffectTime <= e.expires_at))
      /\ ~ (~ (e.grant.operations \subseteq q.scope.operations))
      /\ ~ (~ (e.grant.resources \subseteq q.scope.resources))
      /\ ~ (~ (e.grant.tools \subseteq q.scope.tools))
      /\ ~ (~ (e.grant.audiences \subseteq q.scope.audiences))
      /\ ~ (~ (e.grant.purposes \subseteq q.scope.purposes))
      /\ ~ (e.grant.currency # q.scope.currency)
      /\ ~ (e.grant.amount_max > q.scope.amount_max)
  BY <1>7, EdgeGates DEF T
<1>9. /\ EdgeOrder[1] \in S <=> (x.delegator # q.principal \/ x.from_role # q.role)
      /\ EdgeOrder[2] \in S <=> (~ x.issuer_signature_valid)
      /\ EdgeOrder[3] \in S <=> (~ TRUE /\ ~ q.scope.delegable)
      /\ EdgeOrder[4] \in S <=> (x.to_role \notin base.transitions[q.role])
      /\ EdgeOrder[5] \in S <=> (x.status # "active")
      /\ EdgeOrder[6] \in S <=> (~ (x.not_before <= EffectTime /\ EffectTime <= x.expires_at))
      /\ EdgeOrder[7] \in S <=> (~ (x.grant.operations \subseteq q.scope.operations))
      /\ EdgeOrder[8] \in S <=> (~ (x.grant.resources \subseteq q.scope.resources))
      /\ EdgeOrder[9] \in S <=> (~ (x.grant.tools \subseteq q.scope.tools))
      /\ EdgeOrder[10] \in S <=> (~ (x.grant.audiences \subseteq q.scope.audiences))
      /\ EdgeOrder[11] \in S <=> (~ (x.grant.purposes \subseteq q.scope.purposes))
      /\ EdgeOrder[12] \in S <=> (x.grant.currency # q.scope.currency)
      /\ EdgeOrder[13] \in S <=> (x.grant.amount_max > q.scope.amount_max)
  BY EdgeGates DEF S, q
<1>10. /\ x.delegator = IF 12 \in F THEN "intruder" ELSE e.delegator
       /\ 13 \in F => ~ x.issuer_signature_valid
       /\ 13 \notin F => x.issuer_signature_valid = e.issuer_signature_valid
       /\ x.to_role = IF 15 \in F THEN "invalid" ELSE e.to_role
       /\ x.status = IF 16 \in F THEN "revoked" ELSE e.status
       /\ x.not_before = IF 17 \in F THEN EffectTime + 1 ELSE e.not_before
       /\ x.from_role = e.from_role /\ x.expires_at = e.expires_at
       /\ x.grant = GrantWith(e.grant, F)
  BY <1>1, EdgeFields DEF x, e
<1> DEFINE g == e.grant
           h == GrantWith(g, F)
<1>11. /\ h.operations = IF 18 \in F THEN g.operations \cup {OutOfScope} ELSE g.operations
       /\ h.resources = IF 19 \in F THEN g.resources \cup {OutOfScope} ELSE g.resources
       /\ h.tools = IF 20 \in F THEN g.tools \cup {OutOfScope} ELSE g.tools
       /\ h.audiences = IF 21 \in F THEN g.audiences \cup {OutOfScope} ELSE g.audiences
       /\ h.purposes = IF 22 \in F THEN g.purposes \cup {OutOfScope} ELSE g.purposes
       /\ h.currency = IF 23 \in F THEN "USD" ELSE g.currency
       /\ h.amount_max = IF 24 \in F THEN base.scope.amount_max + 1 ELSE g.amount_max
  <2>1. g \in Scope
    BY <1>6
  <2> QED
    BY <2>1, GrantFields DEF h
<1> HIDE DEF h
<1>12. EdgeOrder[1] \in S <=> 12 \in F
  BY <1>4, <1>8, <1>9, <1>10 DEF q, h
<1>13. EdgeOrder[2] \in S <=> 13 \in F
  BY <1>8, <1>9, <1>10
<1>14. EdgeOrder[3] \notin S
  BY <1>9
<1>15. EdgeOrder[4] \in S <=> 15 \in F
  BY <1>4, <1>8, <1>9, <1>10 DEF q, h
<1>16. EdgeOrder[5] \in S <=> 16 \in F
  BY <1>8, <1>9, <1>10
<1>17. EdgeOrder[6] \in S <=> 17 \in F
  BY <1>5, <1>8, <1>9, <1>10
<1>18. EdgeOrder[7] \in S <=> 18 \in F
  BY <1>3, <1>4, <1>5, <1>6, <1>8, <1>9, <1>10, <1>11 DEF q, h
<1>19. EdgeOrder[8] \in S <=> 19 \in F
  BY <1>3, <1>4, <1>5, <1>6, <1>8, <1>9, <1>10, <1>11 DEF q, h
<1>20. EdgeOrder[9] \in S <=> 20 \in F
  BY <1>3, <1>4, <1>5, <1>6, <1>8, <1>9, <1>10, <1>11 DEF q, h
<1>21. EdgeOrder[10] \in S <=> 21 \in F
  BY <1>3, <1>4, <1>5, <1>6, <1>8, <1>9, <1>10, <1>11 DEF q, h
<1>22. EdgeOrder[11] \in S <=> 22 \in F
  BY <1>3, <1>4, <1>5, <1>6, <1>8, <1>9, <1>10, <1>11 DEF q, h
<1>23. EdgeOrder[12] \in S <=> 23 \in F
  BY <1>3, <1>4, <1>5, <1>6, <1>8, <1>9, <1>10, <1>11 DEF q, h
<1>24. EdgeOrder[13] \in S <=> 24 \in F
  BY <1>3, <1>4, <1>5, <1>6, <1>8, <1>9, <1>10, <1>11 DEF q, h
<1> HIDE DEF g
<1>25. ASSUME NEW k \in 1..13 PROVE EdgeOrder[k] \in S <=> k # 3 /\ k + 11 \in F
  <2>1. \/ k = 1 \/ k = 2 \/ k = 3 \/ k = 4 \/ k = 5 \/ k = 6 \/ k = 7 \/ k = 8 \/ k = 9
        \/ k = 10 \/ k = 11 \/ k = 12 \/ k = 13
    OBVIOUS
  <2> QED
    BY <2>1, <1>12, <1>13, <1>14, <1>15, <1>16, <1>17, <1>18, <1>19, <1>20, <1>21, <1>22, <1>23, <1>24
<1> QED
  BY <1>25 DEF S, x, e, c

LEMMA ActionFields ==
  ASSUME NEW c, c.action \in Action, NEW F
  PROVE  LET x == ActionWith(c, F)
             a == c.action
         IN  /\ x.subject = IF 25 \in F THEN "intruder" ELSE a.subject
             /\ x.operation = IF 26 \in F THEN OutOfScope ELSE a.operation
             /\ x.resource = IF 27 \in F THEN OutOfScope ELSE a.resource
             /\ x.tool = IF 28 \in F THEN OutOfScope ELSE a.tool
             /\ x.audience = IF 29 \in F THEN OutOfScope ELSE a.audience
             /\ x.purpose = IF 30 \in F THEN OutOfScope ELSE a.purpose
             /\ x.amount = IF 31 \in F THEN Terminal(c).amount_max + 1 ELSE a.amount
             /\ x.role = a.role /\ x.currency = a.currency
<1> DEFINE x == ActionWith(c, F)
           a == c.action
<1>1. DOMAIN a = {"operation", "resource", "tool", "audience", "purpose", "amount", "currency",
                  "subject", "role"}
  BY DEF Action
<1>2. x.subject = IF 25 \in F THEN "intruder" ELSE a.subject
  BY <1>1 DEF ActionWith, Struck, ActionOnlyFaults, WorseAction
<1>3. x.operation = IF 26 \in F THEN OutOfScope ELSE a.operation
  BY <1>1 DEF ActionWith, Struck, ActionOnlyFaults, WorseAction
<1>4. x.resource = IF 27 \in F THEN OutOfScope ELSE a.resource
  BY <1>1 DEF ActionWith, Struck, ActionOnlyFaults, WorseAction
<1>5. x.tool = IF 28 \in F THEN OutOfScope ELSE a.tool
  BY <1>1 DEF ActionWith, Struck, ActionOnlyFaults, WorseAction
<1>6. x.audience = IF 29 \in F THEN OutOfScope ELSE a.audience
  BY <1>1 DEF ActionWith, Struck, ActionOnlyFaults, WorseAction
<1>7. x.purpose = IF 30 \in F THEN OutOfScope ELSE a.purpose
  BY <1>1 DEF ActionWith, Struck, ActionOnlyFaults, WorseAction
<1>8. x.amount = IF 31 \in F THEN Terminal(c).amount_max + 1 ELSE a.amount
  BY <1>1 DEF ActionWith, Struck, ActionOnlyFaults, WorseAction
<1>9. x.role = a.role /\ x.currency = a.currency
  BY <1>1 DEF ActionWith, Struck, ActionOnlyFaults, WorseAction
<1> QED
  BY <1>2, <1>3, <1>4, <1>5, <1>6, <1>7, <1>8, <1>9

LEMMA FaultyAction ==
  ASSUME NEW b \in Bases, NEW F
  PROVE  LET c == b.authority_case
             S == ActionFaults(ActionWith(c, F), Carried(c, Len(c.edges) + 1))
         IN  \A k \in 1..7 : ActionOrder[k] \in S <=> k + 24 \in F
<1> DEFINE c == b.authority_case
           a == c.action
           x == ActionWith(c, F)
           last == c.edges[Len(c.edges)]
           g == last.grant
           q == Carried(c, Len(c.edges) + 1)
           S == ActionFaults(x, q)
           T == ActionFaults(a, q)
<1>1. c \in CaseType /\ Len(c.edges) \in Nat /\ Len(c.edges) >= 2 /\ last \in Edge /\ T = {}
  <2>1. /\ c \in CaseType /\ Len(c.edges) \in Nat /\ Len(c.edges) >= 2 /\ T = {}
        /\ \A n \in 1..Len(c.edges) : c.edges[n] \in Edge
    BY BaseCase
  <2>2. Len(c.edges) \in 1..Len(c.edges)
    BY <2>1
  <2> QED
    BY <2>1, <2>2
<1>2. a \in Action /\ g \in Scope
  BY <1>1 DEF CaseType, Edge
<1>3. q.scope = g
  <2>1. Len(c.edges) + 1 # 1 /\ Len(c.edges) + 1 - 1 = Len(c.edges)
    BY <1>1
  <2>2. q = Carry(last)
    BY <2>1 DEF Carried
  <2> QED
    BY <2>2 DEF Carry
<1>4. /\ a.subject # "intruder"
      /\ OutOfScope \notin g.operations /\ OutOfScope \notin g.resources
      /\ OutOfScope \notin g.tools /\ OutOfScope \notin g.audiences
      /\ OutOfScope \notin g.purposes
  BY ForeignAssumption
<1>5. g.amount_max \in Nat /\ Terminal(c) = g
  BY <1>2 DEF Scope, Terminal
<1>6. /\ x.subject = IF 25 \in F THEN "intruder" ELSE a.subject
      /\ x.operation = IF 26 \in F THEN OutOfScope ELSE a.operation
      /\ x.resource = IF 27 \in F THEN OutOfScope ELSE a.resource
      /\ x.tool = IF 28 \in F THEN OutOfScope ELSE a.tool
      /\ x.audience = IF 29 \in F THEN OutOfScope ELSE a.audience
      /\ x.purpose = IF 30 \in F THEN OutOfScope ELSE a.purpose
      /\ x.amount = IF 31 \in F THEN g.amount_max + 1 ELSE a.amount
      /\ x.role = a.role /\ x.currency = a.currency
  BY <1>2, <1>5, ActionFields
<1> HIDE DEF c, a, x, last, g, q, S, T
<1>7. /\ ~ (a.subject # q.principal \/ a.role # q.role)
      /\ ~ (a.operation \notin q.scope.operations)
      /\ ~ (a.resource \notin q.scope.resources)
      /\ ~ (a.tool \notin q.scope.tools)
      /\ ~ (a.audience \notin q.scope.audiences)
      /\ ~ (a.purpose \notin q.scope.purposes)
      /\ ~ (a.currency # q.scope.currency \/ a.amount > q.scope.amount_max)
  BY <1>1, ActionGates DEF T
<1>8. /\ ActionOrder[1] \in S <=> (x.subject # q.principal \/ x.role # q.role)
      /\ ActionOrder[2] \in S <=> (x.operation \notin q.scope.operations)
      /\ ActionOrder[3] \in S <=> (x.resource \notin q.scope.resources)
      /\ ActionOrder[4] \in S <=> (x.tool \notin q.scope.tools)
      /\ ActionOrder[5] \in S <=> (x.audience \notin q.scope.audiences)
      /\ ActionOrder[6] \in S <=> (x.purpose \notin q.scope.purposes)
      /\ ActionOrder[7] \in S <=> (x.currency # q.scope.currency \/ x.amount > q.scope.amount_max)
  BY ActionGates DEF S
<1>9. ActionOrder[1] \in S <=> 25 \in F
  BY <1>3, <1>4, <1>5, <1>6, <1>7, <1>8
<1>10. ActionOrder[2] \in S <=> 26 \in F
  BY <1>3, <1>4, <1>5, <1>6, <1>7, <1>8
<1>11. ActionOrder[3] \in S <=> 27 \in F
  BY <1>3, <1>4, <1>5, <1>6, <1>7, <1>8
<1>12. ActionOrder[4] \in S <=> 28 \in F
  BY <1>3, <1>4, <1>5, <1>6, <1>7, <1>8
<1>13. ActionOrder[5] \in S <=> 29 \in F
  BY <1>3, <1>4, <1>5, <1>6, <1>7, <1>8
<1>14. ActionOrder[6] \in S <=> 30 \in F
  BY <1>3, <1>4, <1>5, <1>6, <1>7, <1>8
<1>15. ActionOrder[7] \in S <=> 31 \in F
  BY <1>3, <1>4, <1>5, <1>6, <1>7, <1>8
<1>16. ASSUME NEW k \in 1..7 PROVE ActionOrder[k] \in S <=> k + 24 \in F
  <2>1. k = 1 \/ k = 2 \/ k = 3 \/ k = 4 \/ k = 5 \/ k = 6 \/ k = 7
    OBVIOUS
  <2> QED
    BY <2>1, <1>9, <1>10, <1>11, <1>12, <1>13, <1>14, <1>15
<1> QED
  BY <1>16 DEF S, x, q, c

LEMMA FaultyEffect ==
  ASSUME NEW b \in Bases, NEW F
  PROVE  LET c == b.authority_case
             S == EffectFaults(ReceiptWith(c.receipt, F), c.action)
         IN  \A k \in 1..3 : EffectOrder[k] \in S <=> k + 31 \in F
<1> DEFINE c == b.authority_case
           a == c.action
           r == c.receipt
           s == Struck(r, ReceiptOnlyFaults, WorseReceipt(EffectTime), F)
           t == Struck(r.action, BoundFaults, WorseBound(r.action), F)
           x == ReceiptWith(r, F)
           S == EffectFaults(x, a)
           T == EffectFaults(r, a)
<1>1. c \in CaseType /\ T = {}
  BY BaseCase
<1>2. r \in Receipt /\ r.action \in Action /\ EffectTime \in Nat
  BY <1>1, BaseAssumption DEF CaseType, Receipt
<1>3. DOMAIN r = {"native_evidence_valid", "effect_time", "action"}
  BY <1>2 DEF Receipt
<1>4. x = [s EXCEPT !["action"] = t] /\ DOMAIN s = DOMAIN r
  BY DEF ReceiptWith, Struck
<1> HIDE DEF c, a, r, s, t, x, S, T
<1>5. x.action = t /\ x.effect_time = s.effect_time
      /\ x.native_evidence_valid = s.native_evidence_valid
  BY <1>3, <1>4
<1>6. /\ r.native_evidence_valid /\ r.effect_time = EffectTime /\ r.action = a
  BY <1>1, EffectGates DEF T
<1>7. /\ EffectOrder[1] \in S <=> ~ x.native_evidence_valid
      /\ EffectOrder[2] \in S <=> x.effect_time # EffectTime
      /\ EffectOrder[3] \in S <=> x.action # a
  BY EffectGates DEF S
<1>8. EffectOrder[1] \in S <=> 32 \in F
  <2>1. "native_evidence_valid" \in DOMAIN r
        /\ "native_evidence_valid" \in DOMAIN ReceiptOnlyFaults
        /\ ReceiptOnlyFaults["native_evidence_valid"] = 32
    BY <1>3 DEF ReceiptOnlyFaults
  <2>2. ASSUME 32 \in F PROVE ~ x.native_evidence_valid
    <3>1. s["native_evidence_valid"] = WorseReceipt(EffectTime)["native_evidence_valid"]
      BY <2>1, <2>2, StruckAt DEF s
    <3>2. ~ WorseReceipt(EffectTime)["native_evidence_valid"]
      BY DEF WorseReceipt
    <3> QED
      BY <1>5, <3>1, <3>2
  <2>3. ASSUME 32 \notin F PROVE x.native_evidence_valid
    <3>1. s["native_evidence_valid"] = r["native_evidence_valid"]
      BY <2>1, <2>3, StruckAt DEF s
    <3> QED
      BY <1>5, <1>6, <3>1
  <2> QED
    BY <1>7, <2>2, <2>3
<1>9. EffectOrder[2] \in S <=> 33 \in F
  <2>1. s.effect_time = IF 33 \in F THEN EffectTime + 1 ELSE r.effect_time
    BY <1>3 DEF s, Struck, ReceiptOnlyFaults, WorseReceipt
  <2> QED
    BY <1>2, <1>5, <1>6, <1>7, <2>1
<1>10. EffectOrder[3] \in S <=> 34 \in F
  <2>1. /\ DOMAIN r.action = {"operation", "resource", "tool", "audience", "purpose", "amount",
                              "currency", "subject", "role"}
        /\ r.action = [y \in DOMAIN r.action |-> r.action[y]] /\ r.action.amount \in Nat
    BY <1>2 DEF Action
  <2>2. ASSUME 34 \in F PROVE t # a
    <3>1. t.amount = r.action.amount + 1
      BY <2>1, <2>2 DEF t, Struck, BoundFaults, WorseBound
    <3> QED
      BY <1>6, <2>1, <3>1
  <2>3. ASSUME 34 \notin F PROVE t = a
    <3>1. \A y \in DOMAIN BoundFaults : BoundFaults[y] \notin F
      BY <2>3 DEF BoundFaults
    <3>2. t = r.action
      BY <2>1, <3>1, StruckNone DEF t
    <3> QED
      BY <1>6, <3>2
  <2> QED
    BY <1>5, <1>7, <2>2, <2>3
<1>11. ASSUME NEW k \in 1..3 PROVE EffectOrder[k] \in S <=> k + 31 \in F
  <2>1. k = 1 \/ k = 2 \/ k = 3
    OBVIOUS
  <2> QED
    BY <2>1, <1>8, <1>9, <1>10
<1> QED
  BY <1>11 DEF S, x, r, a, c

(* The gates that the first edge breaks. *)
FirstBreaks(b, F) == EdgeFaults(EdgeWith(b.authority_case.edges[1], F), Root, TRUE)

LEMMA FirstBreaksAre ==
  ASSUME NEW b \in Bases, NEW F
  PROVE  \A k \in 1..13 : EdgeOrder[k] \in FirstBreaks(b, F) <=> k # 3 /\ k + 11 \in F
BY FirstEdgeFaults DEF FirstBreaks

(* The first edge, with the faults of F. *)
LEMMA FaultyPath ==
  ASSUME NEW b \in Bases, NEW F
  PROVE  LET c == b.authority_case
             d == CaseWith(c, F)
         IN  /\ Len(d.edges) = Len(c.edges) /\ Len(c.edges) \in Nat /\ Len(c.edges) >= 2
             /\ d.edges[1] = EdgeWith(c.edges[1], F)
             /\ \A n \in 2..Len(c.edges) : d.edges[n] = c.edges[n]
             /\ EdgeBreaks(d, 1) = FirstBreaks(b, F)
             /\ 11 \notin F => d.protocol_valid
<1> DEFINE c == b.authority_case
           d == CaseWith(c, F)
<1>1. /\ c \in CaseType /\ c.protocol_valid /\ Len(c.edges) \in Nat /\ Len(c.edges) >= 2
  BY BaseCase
<1>2. d.edges = EdgesWith(c.edges, F) /\ DOMAIN c = {"protocol_valid", "edges", "action", "receipt"}
  BY <1>1, CaseParts
<1>3. c.edges \in Seq(Edge)
  BY <1>1 DEF CaseType
<1>4. DOMAIN c.edges = 1..Len(c.edges) /\ c.edges \in [1..Len(c.edges) -> Edge]
  BY <1>3, LenProperties
<1>5. /\ DOMAIN d.edges = 1..Len(c.edges)
      /\ d.edges[1] = EdgeWith(c.edges[1], F)
      /\ \A n \in 2..Len(c.edges) : d.edges[n] = c.edges[n]
  BY <1>1, <1>2, <1>4 DEF EdgesWith
<1>6. Len(d.edges) = Len(c.edges)
  <2>1. IsSequence(d.edges, Len(c.edges))
    BY <1>1, <1>2, <1>4 DEF IsSequence, EdgesWith
  <2> DEFINE s == d.edges
             n == Len(c.edges)
             S == {s[m] : m \in 1..n}
  <2>2. n \in Nat /\ IsSequence(s, n) /\ \A m \in 1..n : s[m] \in S
    BY <1>1, <2>1
  <2> HIDE DEF s, n, S
  <2>3. Len(s) = n
    BY <2>2, SequenceIn
  <2> QED
    BY <2>3 DEF s, n
<1>7. EdgeBreaks(d, 1) = FirstBreaks(b, F)
  BY <1>5, Zenon DEF EdgeBreaks, Carried, FirstBreaks
<1>8. ASSUME 11 \notin F PROVE d.protocol_valid
  <2>1. d["protocol_valid"] = c["protocol_valid"]
    BY <1>2, <1>8 DEF CaseWith
  <2> QED
    BY <1>1, <2>1
<1> QED
  BY <1>1, <1>5, <1>6, <1>7, <1>8

(* A path whose first edge has no fault is a base's path. *)
LEMMA SoundPath ==
  ASSUME NEW b \in Bases, NEW F, NoneIn(F, 12, 24)
  PROVE  LET c == b.authority_case
             d == CaseWith(c, F)
         IN  /\ d.edges = c.edges
             /\ \A n \in 1..Len(d.edges) : EdgeBreaks(d, n) = {}
             /\ \A n : Carried(d, n) = Carried(c, n)
<1> DEFINE c == b.authority_case
           d == CaseWith(c, F)
<1>1. /\ c \in CaseType /\ EdgesWith(c.edges, {}) = c.edges
      /\ \A n \in 1..Len(c.edges) : EdgeBreaks(c, n) = {}
  BY BaseCase
<1>2. EdgesWith(c.edges, F) = EdgesWith(c.edges, {})
  <2>1. AlikeIn(F, {}, 12, 24)
    BY DEF NoneIn, AlikeIn
  <2> QED
    BY <2>1, PartsAlike
<1>3. d.edges = c.edges
  BY <1>1, <1>2, CaseParts
<1> HIDE DEF c, d
<1>4. \A n : Carried(d, n) = Carried(c, n)
  BY <1>3 DEF Carried
<1>5. \A n : EdgeBreaks(d, n) = EdgeBreaks(c, n)
  BY <1>3, <1>4 DEF EdgeBreaks
<1> QED
  BY <1>1, <1>3, <1>4, <1>5 DEF c, d

(* F is put together by Comparable: A3 is not hidden by a wider grant. *)
Shown(F) == 14 \in F => NoneIn(F, 15, 24)

(* The second edge sees that the first may not be delegated, and no more.  *)
LEMMA SecondEdge ==
  ASSUME NEW b \in Bases, NEW F, FirstIn(F, 11, 34, 14), Shown(F)
  PROVE  LET d == CaseWith(b.authority_case, F)
         IN  \A k \in 1..3 : EdgeOrder[k] \in EdgeBreaks(d, 2) <=> k = 3
<1> DEFINE c == b.authority_case
           d == CaseWith(c, F)
           e == c.edges[1]
           x == d.edges[1]
           y == c.edges[2]
<1>1. /\ Len(c.edges) \in Nat /\ Len(c.edges) >= 2 /\ d.edges[2] = y
      /\ x = EdgeWith(e, F)
  <2>1. /\ Len(c.edges) \in Nat /\ Len(c.edges) >= 2 /\ x = EdgeWith(e, F)
        /\ \A n \in 2..Len(c.edges) : d.edges[n] = c.edges[n]
    BY FaultyPath
  <2>2. 2 \in 2..Len(c.edges)
    BY <2>1
  <2> QED
    BY <2>1, <2>2
<1>2. e \in Edge /\ EdgeBreaks(c, 2) = {}
  <2>1. 1 \in 1..Len(c.edges) /\ 2 \in 1..Len(c.edges)
    BY <1>1
  <2> QED
    BY <2>1, BaseCase
<1>3. 14 \in F /\ 15 \notin F
  BY DEF FirstIn, Shown, NoneIn
<1>4. x.delegate = e.delegate /\ x.to_role = e.to_role /\ x.grant = GrantWith(e.grant, F)
  BY <1>1, <1>2, <1>3, EdgeFields
<1>5. ~ x.grant.delegable
  BY <1>2, <1>3, <1>4, GrantDelegable DEF Edge
<1> HIDE DEF c, d, e, x, y
<1>6. EdgeBreaks(d, 2) = EdgeFaults(y, Carry(x), 2 = 1)
  BY <1>1 DEF EdgeBreaks, Carried, x
<1>7. EdgeFaults(y, Carry(e), 2 = 1) = {}
  BY <1>2 DEF EdgeBreaks, Carried, e, y
<1> DEFINE q == Carry(e)
           r == Carry(x)
           first == 2 = 1
<1>8. q.principal = r.principal /\ q.role = r.role /\ ~ r.scope.delegable /\ ~ first
  BY <1>4, <1>5 DEF Carry
<1> HIDE DEF q, r, first
<1>9. /\ ~ (y.delegator # q.principal \/ y.from_role # q.role)
      /\ ~ ~ y.issuer_signature_valid
  <2>1. EdgeFaults(y, q, first) = {}
    BY <1>7 DEF q, first
  <2> QED
    BY <2>1, EdgeGates
<1>10. LET S == EdgeFaults(y, r, first)
       IN  /\ EdgeOrder[1] \in S <=> (y.delegator # r.principal \/ y.from_role # r.role)
           /\ EdgeOrder[2] \in S <=> ~ y.issuer_signature_valid
           /\ EdgeOrder[3] \in S <=> ~ first /\ ~ r.scope.delegable
  BY EdgeGates
<1>11. LET S == EdgeFaults(y, r, first)
       IN  EdgeOrder[1] \notin S /\ EdgeOrder[2] \notin S /\ EdgeOrder[3] \in S
  BY <1>8, <1>9, <1>10
<1>12. EdgeBreaks(d, 2) = EdgeFaults(y, r, first)
  BY <1>6 DEF r, first
<1>13. ASSUME NEW k \in 1..3 PROVE EdgeOrder[k] \in EdgeBreaks(d, 2) <=> k = 3
  <2>1. k = 1 \/ k = 2 \/ k = 3
    OBVIOUS
  <2> QED
    BY <2>1, <1>11, <1>12
<1> QED
  BY <1>13 DEF d, c

LEMMA AuthorityLabelled ==
  ASSUME NEW b \in Bases, NEW F, Shown(F)
  PROVE  LET l == JsAuthorityLayer(CaseWith(b.authority_case, F))
         IN  /\ NoneIn(F, 11, 34) => l = Passing("authority")
             /\ \A f : FirstIn(F, 11, 34, f) => l = FaultLabels[f]
<1> DEFINE c == b.authority_case
           d == CaseWith(c, F)
           l == JsAuthorityLayer(d)
<1>1. ASSUME NoneIn(F, 11, 34) PROVE l = Passing("authority")
  <2>1. CaseWith(c, F) = CaseWith(c, {})
    <3>1. AlikeIn(F, {}, 11, 34)
      BY <1>1 DEF NoneIn, AlikeIn
    <3> QED
      BY <3>1, PartsAlike
  <2> QED
    BY <2>1, BaseCase
<1>2. ASSUME NEW f, FirstIn(F, 11, 34, f) PROVE l = FaultLabels[f]
  <2>1. f \in 11..34 /\ f \in F /\ \A g \in 11..34 : g < f => g \notin F
    BY <1>2 DEF FirstIn
  <2>2. CASE f = 11
    <3>1. DOMAIN c = {"protocol_valid", "edges", "action", "receipt"}
      BY BaseCase, CaseParts
    <3>2. d["protocol_valid"] = Invalid
      BY <2>1, <2>2, <3>1 DEF CaseWith
    <3>3. ~ d.protocol_valid
      BY <3>2 DEF Invalid
    <3> HIDE DEF d
    <3> QED
      BY <2>2, <3>3, DeniedByProtocol, DenialsAre
  <2>3. ASSUME f # 11
        PROVE  /\ d.protocol_valid
               /\ Len(d.edges) = Len(c.edges) /\ Len(c.edges) \in Nat /\ Len(c.edges) >= 2
               /\ EdgeBreaks(d, 1) = FirstBreaks(b, F)
    <3>1. 11 \notin F
      BY <2>1, <2>3
    <3> QED
      BY <3>1, FaultyPath
  <2>4. CASE f \in 12..24 /\ f # 14
    <3> DEFINE k == f - 11
    <3>1. k \in 1..13 /\ k # 3 /\ k + 11 = f /\ f # 11
      BY <2>4
    <3>0. \A m \in 1..13 : EdgeOrder[m] \in EdgeBreaks(d, 1) <=> m # 3 /\ m + 11 \in F
      <4>1. EdgeBreaks(d, 1) = FirstBreaks(b, F)
        BY <2>3, <3>1
      <4> QED
        BY <4>1, FirstBreaksAre
    <3>2. EdgeOrder[k] \in EdgeBreaks(d, 1)
      BY <2>1, <3>0, <3>1
    <3>3. ASSUME NEW m \in 1..k-1 PROVE EdgeOrder[m] \notin EdgeBreaks(d, 1)
      <4>1. m \in 1..13 /\ m + 11 \in 11..34 /\ m + 11 < f
        BY <3>1
      <4>2. m + 11 \notin F
        BY <2>1, <4>1
      <4> QED
        BY <3>0, <4>1, <4>2
    <3>4. 1 \in 1..Len(d.edges) /\ Len(d.edges) \in Nat /\ d.protocol_valid /\ 1..1-1 = {}
      BY <2>3, <3>1
    <3> HIDE DEF d, k
    <3>5. l = Denial(EdgeOrder[k], 1 - 1)
      BY <3>1, <3>2, <3>3, <3>4, DeniedByEdge
    <3>6. Denial(EdgeOrder[k], 0) = FaultLabels[k + 11]
      BY <3>1, DenialsAre
    <3> QED
      BY <3>1, <3>5, <3>6
  <2>5. CASE f = 14
    <3>1. ASSUME NEW k \in 1..13 PROVE EdgeOrder[k] \notin EdgeBreaks(d, 1)
      <4>1. k # 3 => k + 11 \notin F
        <5>1. CASE k < 3
          BY <2>1, <2>5, <5>1
        <5>2. CASE k > 3
          <6>1. k + 11 \in 15..24
            BY <5>2
          <6> QED
            BY <2>1, <2>5, <6>1 DEF Shown, NoneIn
        <5> QED
          BY <5>1, <5>2
      <4>2. EdgeBreaks(d, 1) = FirstBreaks(b, F)
        BY <2>3, <2>5
      <4>3. EdgeOrder[k] \in EdgeBreaks(d, 1) <=> k # 3 /\ k + 11 \in F
        BY <4>2, FirstBreaksAre
      <4> QED
        BY <4>1, <4>3
    <3>2. EdgeBreaks(d, 1) = {}
      <4>1. DOMAIN EdgeOrder = 1..13
        BY DEF EdgeOrder
      <4>2. EdgeBreaks(d, 1) \subseteq Gates(EdgeOrder)
        BY DEF EdgeBreaks, EdgeFaults
      <4> QED
        BY <3>1, <4>1, <4>2 DEF Gates
    <3>3. \A k \in 1..3 : EdgeOrder[k] \in EdgeBreaks(d, 2) <=> k = 3
      BY <1>2, <2>5, SecondEdge
    <3>4. 2 \in 1..Len(d.edges) /\ Len(d.edges) \in Nat /\ d.protocol_valid
      BY <2>3, <2>5
    <3> HIDE DEF d
    <3>5. l = Denial(EdgeOrder[3], 2 - 1)
      <4>1. 3 \in 1..13 /\ EdgeOrder[3] \in EdgeBreaks(d, 2)
        BY <3>3
      <4>2. \A m \in 1..3-1 : EdgeOrder[m] \notin EdgeBreaks(d, 2)
        BY <3>3
      <4>3. \A m \in 1..2-1 : EdgeBreaks(d, m) = {}
        BY <3>2
      <4> QED
        BY <3>4, <4>1, <4>2, <4>3, DeniedByEdge
    <3>6. Denial(EdgeOrder[3], 1) = FaultLabels[14]
      BY DenialsAre
    <3> QED
      BY <2>5, <3>5, <3>6
  <2>6. ASSUME f \in 25..34
        PROVE  /\ d.protocol_valid
               /\ \A n \in 1..Len(d.edges) : EdgeBreaks(d, n) = {}
               /\ Carried(d, Len(d.edges) + 1) = Carried(c, Len(c.edges) + 1)
               /\ d.action = ActionWith(c, F) /\ d.receipt = ReceiptWith(c.receipt, F)
    <3>1. NoneIn(F, 12, 24)
      BY <2>1, <2>6 DEF NoneIn
    <3>2. c \in CaseType
      BY BaseCase
    <3>3. d.action = ActionWith(c, F) /\ d.receipt = ReceiptWith(c.receipt, F)
      BY <3>2, CaseParts
    <3>4. d.protocol_valid
      <4>1. f # 11
        BY <2>6
      <4> HIDE DEF d
      <4> QED
        BY <2>3, <4>1
    <3>5. /\ \A n \in 1..Len(d.edges) : EdgeBreaks(d, n) = {}
          /\ \A n : Carried(d, n) = Carried(c, n)
          /\ d.edges = c.edges
      BY <3>1, SoundPath
    <3> QED
      BY <3>3, <3>4, <3>5
  <2>7. CASE f \in 25..31
    <3> DEFINE k == f - 24
               S == ActionFaults(d.action, Carried(d, Len(d.edges) + 1))
    <3>1. k \in 1..7 /\ k + 24 = f /\ f \in 25..34
      BY <2>7
    <3>2. S = ActionFaults(ActionWith(c, F), Carried(c, Len(c.edges) + 1))
      BY <2>6, <3>1
    <3>3. \A m \in 1..7 : ActionOrder[m] \in S <=> m + 24 \in F
      BY <3>2, FaultyAction
    <3> HIDE DEF S, d
    <3>4. ActionOrder[k] \in S
      BY <2>1, <3>1, <3>3
    <3>5. ASSUME NEW m \in 1..k-1 PROVE ActionOrder[m] \notin S
      <4>1. m \in 1..7 /\ m + 24 \in 11..34 /\ m + 24 < f
        BY <3>1
      <4>2. m + 24 \notin F
        BY <2>1, <4>1
      <4> QED
        BY <3>3, <4>1, <4>2
    <3>6. S = ActionFaults(d.action, Carried(d, Len(d.edges) + 1))
      BY DEF S
    <3> HIDE DEF k
    <3>7. l = Denial(ActionOrder[k], 0)
      BY <2>6, <3>1, <3>4, <3>5, <3>6, DeniedByAction
    <3> QED
      BY <3>1, <3>7, DenialsAre
  <2>8. CASE f \in 32..34
    <3> DEFINE k == f - 31
               S == EffectFaults(d.receipt, d.action)
    <3>1. k \in 1..3 /\ k + 31 = f /\ f \in 25..34
      BY <2>8
    <3>2. d.action = c.action
      <4>1. AlikeIn(F, {}, 25, 31)
        BY <2>1, <2>8 DEF AlikeIn
      <4>2. ActionWith(c, F) = ActionWith(c, {})
        BY <4>1, PartsAlike
      <4>3. ActionWith(c, {}) = c.action
        BY BaseCase
      <4> QED
        BY <2>6, <3>1, <4>2, <4>3
    <3>3. S = EffectFaults(ReceiptWith(c.receipt, F), c.action)
      BY <2>6, <3>1, <3>2
    <3>4. \A m \in 1..3 : EffectOrder[m] \in S <=> m + 31 \in F
      BY <3>3, FaultyEffect
    <3>5. ActionFaults(d.action, Carried(d, Len(d.edges) + 1)) = {}
      <4>1. ActionFaults(c.action, Carried(c, Len(c.edges) + 1)) = {}
        BY BaseCase
      <4> QED
        BY <2>6, <3>1, <3>2, <4>1
    <3> HIDE DEF S, d
    <3>6. EffectOrder[k] \in S
      BY <2>1, <3>1, <3>4
    <3>7. ASSUME NEW m \in 1..k-1 PROVE EffectOrder[m] \notin S
      <4>1. m \in 1..3 /\ m + 31 \in 11..34 /\ m + 31 < f
        BY <3>1
      <4>2. m + 31 \notin F
        BY <2>1, <4>1
      <4> QED
        BY <3>4, <4>1, <4>2
    <3>8. S = EffectFaults(d.receipt, d.action)
      BY DEF S
    <3> HIDE DEF k
    <3>9. l = Denial(EffectOrder[k], 0)
      BY <2>6, <3>1, <3>5, <3>6, <3>7, <3>8, DeniedByEffect
    <3> QED
      BY <3>1, <3>9, DenialsAre
  <2> QED
    BY <2>1, <2>2, <2>4, <2>5, <2>7, <2>8
<1> QED
  BY <1>1, <1>2

-----------------------------------------------------------------------------
(* What is kept of a bootstrap is what the next item would bootstrap.      *)

(* A cache of p that was made at alpha and has looked at the keys K. *)
Kept(p, alpha, K) ==
  [key \in K |-> [point |-> Point[key[1]], lcb |-> Lcb[p][key[1]][alpha]]]

LEMMA KeptIsBootstrap ==
  ASSUME NEW p, NEW m, NEW K, CacheKey(p, m) \in K
  PROVE  Kept(p, m.alpha, K)[CacheKey(p, m)] = Bootstrap(p, m)
<1>1. CacheKey(p, m)[1] = m.dataset
  BY DEF CacheKey
<1> QED
  BY <1>1 DEF Kept, Bootstrap

LEMMA KeptStep ==
  ASSUME NEW p, NEW m, NEW K
  PROVE  Cached(p, Kept(p, m.alpha, K), m)
           = IF m.profile_digest = m.required_profile_digest
             THEN Kept(p, m.alpha, K \cup {CacheKey(p, m)}) ELSE Kept(p, m.alpha, K)
<1> DEFINE key == CacheKey(p, m)
           L == K \cup {key}
           new == [x \in DOMAIN Kept(p, m.alpha, K) \cup {key} |->
                     IF x \in DOMAIN Kept(p, m.alpha, K) THEN Kept(p, m.alpha, K)[x]
                     ELSE Bootstrap(p, m)]
<1>1. DOMAIN Kept(p, m.alpha, K) = K
  BY DEF Kept
<1>2. CASE m.profile_digest # m.required_profile_digest
  BY <1>2 DEF Cached
<1>3. CASE m.profile_digest = m.required_profile_digest /\ key \in K
  <2>1. L = K
    BY <1>3
  <2> HIDE DEF L
  <2> QED
    BY <1>1, <1>3, <2>1 DEF Cached, L
<1>4. CASE m.profile_digest = m.required_profile_digest /\ key \notin K
  <2>1. Cached(p, Kept(p, m.alpha, K), m) = new
    BY <1>1, <1>4 DEF Cached
  <2>2. Kept(p, m.alpha, L)[key] = Bootstrap(p, m)
    BY KeptIsBootstrap
  <2>3. \A x \in K : Kept(p, m.alpha, L)[x] = Kept(p, m.alpha, K)[x]
    BY DEF Kept
  <2>4. Kept(p, m.alpha, L) = [x \in L |-> Kept(p, m.alpha, L)[x]]
    BY DEF Kept
  <2>5. new = [x \in L |-> Kept(p, m.alpha, L)[x]]
    <3> DEFINE old == Kept(p, m.alpha, K)
               all == Kept(p, m.alpha, L)
    <3>1. /\ DOMAIN old = K /\ all[key] = Bootstrap(p, m)
          /\ \A x \in K : all[x] = old[x]
      BY <1>1, <2>2, <2>3
    <3>2. new = [x \in DOMAIN old \cup {key} |->
                   IF x \in DOMAIN old THEN old[x] ELSE Bootstrap(p, m)]
      OBVIOUS
    <3> HIDE DEF old, all, new, key
    <3>3. new = [x \in L |-> all[x]]
      BY <1>4, <3>1, <3>2
    <3> QED
      BY <3>3 DEF all
  <2> HIDE DEF new
  <2> QED
    BY <1>4, <2>1, <2>4, <2>5
<1> QED
  BY <1>2, <1>3, <1>4

(* The keys of the first n items that are looked at. *)
KeysTo(p, items, n) ==
  {CacheKey(p, items[j].measurement) : j \in
     {i \in 1..n : items[i].measurement.profile_digest
                     = items[i].measurement.required_profile_digest}}

LEMMA KeysStep ==
  ASSUME NEW p, NEW items, NEW n \in Nat \ {0}
  PROVE  LET m == items[n].measurement
         IN  KeysTo(p, items, n)
               = IF m.profile_digest = m.required_profile_digest
                 THEN KeysTo(p, items, n - 1) \cup {CacheKey(p, m)}
                 ELSE KeysTo(p, items, n - 1)
<1>1. 1..n = (1..n-1) \cup {n}
  OBVIOUS
<1> QED
  BY <1>1 DEF KeysTo

CacheStep(p, items, g) ==
  [n \in 0..Len(items) |-> IF n = 0 THEN <<>> ELSE Cached(p, g[n - 1], items[n].measurement)]

LEMMA CacheKnows ==
  ASSUME NEW p \in Programs, NEW items, Len(items) \in Nat, NEW alpha,
         \A n \in 1..Len(items) : items[n].measurement.alpha = alpha
  PROVE  \E cache :
           /\ Rows(p, items) = [n \in DOMAIN items |-> Evaluate(p, items[n], cache[n])]
           /\ \A n \in 1..Len(items) : Knows(p, cache[n], items[n].measurement)
<1> DEFINE cache == CHOOSE g : g = CacheStep(p, items, g)
           h == [n \in 0..Len(items) |-> Kept(p, alpha, KeysTo(p, items, n))]
<1>1. Rows(p, items) = [n \in DOMAIN items |-> Evaluate(p, items[n], cache[n])]
  BY DEF Rows, CacheStep
<1>2. h[0] = <<>>
  <2>1. KeysTo(p, items, 0) = {}
    BY DEF KeysTo
  <2>2. h[0] = Kept(p, alpha, {})
    <3>1. h[0] = Kept(p, alpha, KeysTo(p, items, 0))
      OBVIOUS
    <3> HIDE DEF h
    <3> QED
      BY <2>1, <3>1
  <2>3. Kept(p, alpha, {}) = <<>>
    BY DEF Kept
  <2> QED
    BY <2>2, <2>3
<1>3. ASSUME NEW n \in 1..Len(items)
      PROVE  Cached(p, h[n - 1], items[n].measurement) = h[n]
  <2> DEFINE m == items[n].measurement
             K == KeysTo(p, items, n - 1)
  <2>1. m.alpha = alpha /\ h[n - 1] = Kept(p, alpha, K) /\ h[n] = Kept(p, alpha, KeysTo(p, items, n))
    OBVIOUS
  <2>2. KeysTo(p, items, n) = IF m.profile_digest = m.required_profile_digest
                              THEN K \cup {CacheKey(p, m)} ELSE K
    BY KeysStep
  <2>3. Cached(p, Kept(p, m.alpha, K), m)
          = IF m.profile_digest = m.required_profile_digest
            THEN Kept(p, m.alpha, K \cup {CacheKey(p, m)}) ELSE Kept(p, m.alpha, K)
    BY KeptStep
  <2> HIDE DEF h, m, K
  <2>4. Cached(p, h[n - 1], m) = h[n]
    BY <2>1, <2>2, <2>3
  <2> QED
    BY <2>4 DEF m
<1>4. h = CacheStep(p, items, h)
  <2>1. h = [n \in 0..Len(items) |-> h[n]]
    OBVIOUS
  <2> HIDE DEF h
  <2>2. \A n \in 0..Len(items) :
          h[n] = IF n = 0 THEN <<>> ELSE Cached(p, h[n - 1], items[n].measurement)
    BY <1>2, <1>3
  <2> QED
    BY <2>1, <2>2 DEF CacheStep
<1> HIDE DEF h
<1>5. cache = CacheStep(p, items, cache)
  BY <1>4
<1> HIDE DEF cache
<1>6. cache[0] = h[0]
  BY <1>4, <1>5 DEF CacheStep
<1>7. ASSUME NEW k \in 1..Len(items), cache[k - 1] = h[k - 1]
      PROVE  cache[k] = h[k]
  <2>1. k \in 0..Len(items) /\ k # 0
    OBVIOUS
  <2>2. cache[k] = Cached(p, cache[k - 1], items[k].measurement)
    BY <1>5, <2>1 DEF CacheStep
  <2>3. h[k] = Cached(p, h[k - 1], items[k].measurement)
    BY <1>4, <2>1 DEF CacheStep
  <2> QED
    BY <1>7, <2>2, <2>3
<1>8. \A k \in 0..Len(items) : cache[k] = h[k]
  BY <1>6, <1>7, SameRecursion
<1>9. ASSUME NEW n \in 1..Len(items) PROVE Knows(p, cache[n], items[n].measurement)
  <2> DEFINE m == items[n].measurement
             K == KeysTo(p, items, n)
  <2>1. cache[n] = Kept(p, m.alpha, K)
    <3>1. n \in 0..Len(items) /\ m.alpha = alpha
      OBVIOUS
    <3> QED
      BY <1>8, <3>1 DEF h
  <2>2. m.profile_digest = m.required_profile_digest => CacheKey(p, m) \in K
    BY DEF KeysTo
  <2>3. DOMAIN Kept(p, m.alpha, K) = K
    BY DEF Kept
  <2>4. CacheKey(p, m) \in K => Kept(p, m.alpha, K)[CacheKey(p, m)] = Bootstrap(p, m)
    BY KeptIsBootstrap
  <2> HIDE DEF m, K
  <2>5. Knows(p, cache[n], m)
    BY <2>1, <2>2, <2>3, <2>4 DEF Knows
  <2> QED
    BY <2>5 DEF m
<1> QED
  BY <1>1, <1>9

-----------------------------------------------------------------------------
(* The rows of a packet depend on its lists of faults alone.               *)

Hit(layer, F) == {f \in F : LayerOf(f) = layer}

LayerLabel(layer, F) ==
  IF Hit(layer, F) = {} THEN Passing(layer) ELSE FaultLabels[Smallest(Hit(layer, F))]

LabelsOf(F) ==
  [policy |-> LayerLabel("policy", F), evidence |-> LayerLabel("evidence", F),
   state |-> LayerLabel("state", F), authority |-> LayerLabel("authority", F),
   measurement |-> LayerLabel("measurement", F)]

LEMMA LeastHit ==
  ASSUME NEW F \in SUBSET (1..37), NEW layer, Hit(layer, F) # {}
  PROVE  /\ Smallest(Hit(layer, F)) \in Hit(layer, F)
         /\ \A g \in Hit(layer, F) : Smallest(Hit(layer, F)) <= g
<1> DEFINE S == Hit(layer, F)
<1>1. S \in SUBSET Nat /\ S # {}
  <2>1. S \in SUBSET F /\ S # {}
    BY DEF Hit
  <2>2. 1..37 \in SUBSET Nat
    OBVIOUS
  <2> QED
    BY <2>1, <2>2
<1> HIDE DEF S
<1>2. PICK m \in S : \A n \in S : m <= n
  BY <1>1, LeastExists
<1>3. Smallest(S) = m
  BY <1>1, <1>2, SmallestIs
<1>4. Smallest(S) \in S /\ \A g \in S : Smallest(S) <= g
  BY <1>2, <1>3
<1> QED
  BY <1>4 DEF S

LEMMA LayerLabelIs ==
  ASSUME NEW F \in SUBSET (1..37), NEW layer, NEW lo \in Nat, NEW hi \in Nat,
         \A f \in 1..37 : LayerOf(f) = layer <=> f \in lo..hi, lo >= 1, hi <= 37,
         NEW l, NoneIn(F, lo, hi) => l = Passing(layer),
         \A f : FirstIn(F, lo, hi, f) => l = FaultLabels[f]
  PROVE  l = LayerLabel(layer, F)
<1>1. CASE Hit(layer, F) = {}
  <2>1. NoneIn(F, lo, hi)
    BY <1>1 DEF NoneIn, Hit
  <2> QED
    BY <1>1, <2>1 DEF LayerLabel
<1>2. CASE Hit(layer, F) # {}
  <2> DEFINE f == Smallest(Hit(layer, F))
  <2>1. f \in Hit(layer, F) /\ \A g \in Hit(layer, F) : f <= g
    BY <1>2, LeastHit
  <2> HIDE DEF f
  <2>2. FirstIn(F, lo, hi, f)
    BY <2>1 DEF FirstIn, Hit
  <2> QED
    BY <1>2, <2>2 DEF LayerLabel, f
<1> QED
  BY <1>1, <1>2

LEMMA LayersOfFaults ==
  ASSUME NEW f \in 1..37
  PROVE  /\ LayerOf(f) = "policy" <=> f \in 1..5
         /\ LayerOf(f) = "evidence" <=> f \in 6..7
         /\ LayerOf(f) = "state" <=> f \in 8..10
         /\ LayerOf(f) = "authority" <=> f \in 11..34
         /\ LayerOf(f) = "measurement" <=> f \in 35..37
<1>1. f \in 1..5 \/ f \in 6..7 \/ f \in 8..10 \/ f \in 11..34 \/ f \in 35..37
  OBVIOUS
<1> QED
  BY <1>1 DEF LayerOf

LEMMA ItemLabelled ==
  ASSUME NEW b \in Bases, NEW F \in SUBSET (1..37), Shown(F), NEW p \in Programs, NEW cache,
         Knows(p, cache, MeasurementWith(b.measurement, F))
  PROVE  Labelled(p, ItemWith(b, F), cache) = LabelsOf(F)
<1> DEFINE x == ItemWith(b, F)
<1>1. /\ x.policy = PolicyWith(b.policy, F) /\ x.evidence = EvidenceWith(b.evidence, F)
      /\ x.attestation = StateWith(b.attestation, F)
      /\ x.authority_case = CaseWith(b.authority_case, F)
      /\ x.measurement = MeasurementWith(b.measurement, F)
  BY BaseIsPlain DEF ItemWith, PartWith, Transaction
<1> HIDE DEF x
<1>2. JsPolicyLayer(x.policy) = LayerLabel("policy", F)
  <2> DEFINE l == JsPolicyLayer(x.policy)
  <2>1. /\ NoneIn(F, 1, 5) => l = Passing("policy")
        /\ \A f : FirstIn(F, 1, 5, f) => l = FaultLabels[f]
    BY <1>1, PolicyLabelled
  <2> HIDE DEF l
  <2>2. \A f \in 1..37 : LayerOf(f) = "policy" <=> f \in 1..5
    BY LayersOfFaults
  <2>3. 1 \in Nat /\ 5 \in Nat /\ 1 >= 1 /\ 5 <= 37
    OBVIOUS
  <2>4. l = LayerLabel("policy", F)
    BY <2>1, <2>2, <2>3, LayerLabelIs
  <2> QED
    BY <2>4 DEF l
<1>3. JsEvidenceLayer(x.evidence) = LayerLabel("evidence", F)
  <2> DEFINE l == JsEvidenceLayer(x.evidence)
  <2>1. /\ NoneIn(F, 6, 7) => l = Passing("evidence")
        /\ \A f : FirstIn(F, 6, 7, f) => l = FaultLabels[f]
    BY <1>1, EvidenceLabelled
  <2> HIDE DEF l
  <2>2. \A f \in 1..37 : LayerOf(f) = "evidence" <=> f \in 6..7
    BY LayersOfFaults
  <2>3. 6 \in Nat /\ 7 \in Nat /\ 6 >= 1 /\ 7 <= 37
    OBVIOUS
  <2>4. l = LayerLabel("evidence", F)
    BY <2>1, <2>2, <2>3, LayerLabelIs
  <2> QED
    BY <2>4 DEF l
<1>4. JsStateLayer(x.attestation) = LayerLabel("state", F)
  <2> DEFINE l == JsStateLayer(x.attestation)
  <2>1. /\ NoneIn(F, 8, 10) => l = Passing("state")
        /\ \A f : FirstIn(F, 8, 10, f) => l = FaultLabels[f]
    BY <1>1, StateLabelled
  <2> HIDE DEF l
  <2>2. \A f \in 1..37 : LayerOf(f) = "state" <=> f \in 8..10
    BY LayersOfFaults
  <2>3. 8 \in Nat /\ 10 \in Nat /\ 8 >= 1 /\ 10 <= 37
    OBVIOUS
  <2>4. l = LayerLabel("state", F)
    BY <2>1, <2>2, <2>3, LayerLabelIs
  <2> QED
    BY <2>4 DEF l
<1>5. JsAuthorityLayer(x.authority_case) = LayerLabel("authority", F)
  <2> DEFINE l == JsAuthorityLayer(x.authority_case)
  <2>1. /\ NoneIn(F, 11, 34) => l = Passing("authority")
        /\ \A f : FirstIn(F, 11, 34, f) => l = FaultLabels[f]
    BY <1>1, AuthorityLabelled
  <2> HIDE DEF l
  <2>2. \A f \in 1..37 : LayerOf(f) = "authority" <=> f \in 11..34
    BY LayersOfFaults
  <2>3. 11 \in Nat /\ 34 \in Nat /\ 11 >= 1 /\ 34 <= 37
    OBVIOUS
  <2>4. l = LayerLabel("authority", F)
    BY <2>1, <2>2, <2>3, LayerLabelIs
  <2> QED
    BY <2>4 DEF l
<1>6. JsMeasurementLayer(FixtureOf(p, cache, x.measurement)) = LayerLabel("measurement", F)
  <2> DEFINE l == JsMeasurementLayer(FixtureOf(p, cache, x.measurement))
  <2>1. /\ NoneIn(F, 35, 37) => l = Passing("measurement")
        /\ \A f : FirstIn(F, 35, 37, f) => l = FaultLabels[f]
    <3> DEFINE m == MeasurementWith(b.measurement, F)
    <3>1. /\ NoneIn(F, 35, 37) => JsMeasurementLayer(FixtureOf(p, cache, m)) = Passing("measurement")
          /\ \A f : FirstIn(F, 35, 37, f) =>
               JsMeasurementLayer(FixtureOf(p, cache, m)) = FaultLabels[f]
      BY MeasurementLabelled
    <3>2. x.measurement = m
      BY <1>1
    <3> HIDE DEF m
    <3> QED
      BY <3>1, <3>2
  <2> HIDE DEF l
  <2>2. \A f \in 1..37 : LayerOf(f) = "measurement" <=> f \in 35..37
    BY LayersOfFaults
  <2>3. 35 \in Nat /\ 37 \in Nat /\ 35 >= 1 /\ 37 <= 37
    OBVIOUS
  <2>4. l = LayerLabel("measurement", F)
    BY <2>1, <2>2, <2>3, LayerLabelIs
  <2> QED
    BY <2>4 DEF l
<1>7. Labelled(p, x, cache) = LabelsOf(F)
  BY <1>2, <1>3, <1>4, <1>5, <1>6 DEF Labelled, LabelsOf
<1> QED
  BY <1>7 DEF x

LEMMA FaultyIsPlain ==
  ASSUME NEW b \in Bases, NEW F
  PROVE  Plain(ItemWith(b, F)) /\ ItemWith(b, F).measurement = MeasurementWith(b.measurement, F)
         /\ ItemWith(b, F).measurement.alpha = b.measurement.alpha
<1> DEFINE x == ItemWith(b, F)
           a == b.attestation
<1>1. /\ x.policy = PolicyWith(b.policy, F) /\ x.attestation = StateWith(a, F)
      /\ x.authority_case = CaseWith(b.authority_case, F)
      /\ x.measurement = MeasurementWith(b.measurement, F)
  BY BaseIsPlain DEF ItemWith, PartWith, Transaction
<1>2. b.policy \in Optional(Policy) /\ a \in Attestation /\ b.measurement \in Measurement
  BY BaseIsPlain DEF Transaction
<1> HIDE DEF x, a
<1>3. x.policy \in Optional(Policy)
  BY <1>1, <1>2, SourceAssumption DEF PolicyWith
<1>4. Len(x.authority_case.edges) \in Nat
  BY <1>1, FaultyPath
<1>5. x.attestation.issued_at \in Nat /\ x.attestation.expires_at \in Nat
  <2>1. /\ x.attestation.issued_at = IF 9 \in F THEN DecisionTime + 1 ELSE a.issued_at
        /\ x.attestation.expires_at = a.expires_at
    BY <1>1, <1>2 DEF StateWith, Struck, StateOnlyFaults, WorseState, Attestation
  <2>2. a.issued_at \in Nat /\ a.expires_at \in Nat /\ DecisionTime \in Nat
    BY <1>2, AnchorAssumption DEF Attestation
  <2> QED
    BY <2>1, <2>2
<1>6. x.measurement.alpha = b.measurement.alpha
  BY <1>1, <1>2 DEF MeasurementWith, Measurement
<1> QED
  BY <1>1, <1>3, <1>4, <1>5, <1>6 DEF Plain, x

(* The faults of item n. *)
FaultsOf(lists, n) == Listed(lists[n], Len(lists[n]))

LEMMA ListsFit ==
  ASSUME NEW c \in Corpora, NEW n \in DOMAIN c.lists
  PROVE  /\ c.lists[n] \in Seq(1..37) /\ InOrder(c.lists[n])
         /\ FaultsOf(c.lists, n) = {c.lists[n][k] : k \in DOMAIN c.lists[n]}
         /\ FaultsOf(c.lists, n) \in SUBSET (1..37) /\ Shown(FaultsOf(c.lists, n))
<1> DEFINE list == c.lists[n]
           F == FaultsOf(c.lists, n)
<1>1. list \in Seq(1..37)
  BY CorporaAssumption, ElementOfSeq, LenProperties DEF Count
<1>2. InOrder(list)
  BY CorporaAssumption DEF InOrder
<1>3. DOMAIN list = 1..Len(list) /\ Len(list) \in Nat /\ \A k \in DOMAIN list : list[k] \in 1..37
  BY <1>1, LenProperties, ElementOfSeq
<1>4. F = {list[k] : k \in DOMAIN list}
  BY <1>3 DEF FaultsOf, Listed
<1>5. F \in SUBSET (1..37)
  BY <1>3, <1>4
<1>6. Shown(F)
  <2>1. SUFFICES ASSUME 14 \in F, NEW g \in 15..24, g \in F PROVE FALSE
    BY DEF Shown, NoneIn
  <2> HIDE DEF F, list
  <2>2. PICK j \in DOMAIN list : list[j] = 14
    BY <1>4, <2>1
  <2>3. PICK k \in DOMAIN list : list[k] = g
    BY <1>4, <2>1
  <2>4. j < k \/ k < j
    BY <1>3, <2>2, <2>3
  <2>5. CASE j < k
    <3>1. Comparable(14, g)
      BY <1>2, <2>2, <2>3, <2>5 DEF InOrder
    <3> QED
      BY <3>1 DEF Comparable
  <2>6. CASE k < j
    <3>1. Comparable(g, 14)
      BY <1>2, <2>2, <2>3, <2>6 DEF InOrder
    <3> QED
      BY <3>1 DEF Comparable
  <2> QED
    BY <2>4, <2>5, <2>6
<1> QED
  BY <1>1, <1>2, <1>4, <1>5, <1>6

(* What a packet made from b for corpus c is, and what its rows are. *)
ItemsOf(b, c) == [n \in DOMAIN c.lists |-> WithFaults(b, c.lists[n])]
RowsOf(c) == [n \in DOMAIN c.lists |-> Summary(LabelsOf(FaultsOf(c.lists, n)))]

(* Whichever passing transaction a packet is made from, either program,    *)
(* with its own bootstraps and its own cache, gives item n the row its     *)
(* list of faults says, and so both give the same one (the evaluators'     *)
(* evaluate and measurement_layer over the items of the two generators).   *)
THEOREM RowsAre ==
  ASSUME NEW b \in Bases, NEW c \in Corpora, NEW p \in Programs
  PROVE  Rows(p, ItemsOf(b, c)) = RowsOf(c)
<1> DEFINE items == ItemsOf(b, c)
           N == Len(c.lists)
<1>1. DOMAIN c.lists = 1..N /\ N \in Nat
  BY CorporaAssumption, LenProperties
<1>2. DOMAIN items = 1..N /\ Len(items) = N
  <2> DEFINE S == {items[n] : n \in 1..N}
  <2>1. IsSequence(items, N) /\ DOMAIN items = 1..N
    BY <1>1 DEF IsSequence, ItemsOf
  <2>2. \A n \in 1..N : items[n] \in S
    OBVIOUS
  <2> HIDE DEF items, S, N
  <2> QED
    BY <1>1, <2>1, <2>2, SequenceIn
<1>3. ASSUME NEW n \in 1..N
      PROVE  items[n] = ItemWith(b, FaultsOf(c.lists, n))
  <2>1. items[n] = WithFaults(b, c.lists[n])
    BY <1>1 DEF ItemsOf
  <2>2. c.lists[n] \in Seq(1..37) /\ InOrder(c.lists[n]) /\ b \in Transaction
    BY <1>1, <1>3, ListsFit, BaseIsPlain
  <2> QED
    BY <2>1, <2>2, ItemIs DEF FaultsOf
<1> HIDE DEF items, N
<1>4. ASSUME NEW n \in 1..N
      PROVE  items[n].measurement.alpha = b.measurement.alpha
  BY <1>3, FaultyIsPlain
<1>5. PICK cache :
        /\ Rows(p, items) = [n \in DOMAIN items |-> Evaluate(p, items[n], cache[n])]
        /\ \A n \in 1..N : Knows(p, cache[n], items[n].measurement)
  BY <1>1, <1>2, <1>4, CacheKnows
<1>6. ASSUME NEW n \in 1..N
      PROVE  Evaluate(p, items[n], cache[n]) = Summary(LabelsOf(FaultsOf(c.lists, n)))
  <2> DEFINE F == FaultsOf(c.lists, n)
             x == ItemWith(b, F)
  <2>1. items[n] = x
    BY <1>3
  <2>2. F \in SUBSET (1..37) /\ Shown(F)
    BY <1>1, ListsFit
  <2> HIDE DEF F
  <2>3. Knows(p, cache[n], MeasurementWith(b.measurement, F)) /\ Plain(x)
    BY <1>5, <2>1, FaultyIsPlain
  <2>4. Labelled(p, x, cache[n]) = LabelsOf(F)
    BY <2>2, <2>3, ItemLabelled
  <2> HIDE DEF x
  <2>5. Evaluate(p, x, cache[n]) = Summary(Labelled(p, x, cache[n]))
    BY <2>3, EvaluateIs
  <2> QED
    BY <2>1, <2>4, <2>5 DEF F
<1> QED
  BY <1>1, <1>2, <1>5, <1>6 DEF RowsOf, items

-----------------------------------------------------------------------------
(* The oracle expects what the rows say.                                   *)

LEMMA LabelsAt ==
  ASSUME NEW F, NEW layer \in LayerNames
  PROVE  LabelsOf(F)[layer] = LayerLabel(layer, F)
<1>1. layer \in {"policy", "evidence", "state", "authority", "measurement"}
  BY Layered
<1> QED
  BY <1>1 DEF LabelsOf

LEMMA FaultFails ==
  ASSUME NEW f \in 1..37
  PROVE  LayerOf(f) \in LayerNames /\ ~ LayerPasses(LayerOf(f), FaultLabels[f].result)
<1>1. f \in 1..5 \/ f \in 6..7 \/ f \in 8..10 \/ f \in 11..34 \/ f \in 35..37
  OBVIOUS
<1>2. LayerOf(f) \in LayerNames
  BY <1>1, Layered DEF LayerOf
<1>3. FaultLabels[f].result \notin {"PASS", "ALLOW"}
  BY SMTT(60) DEF FaultLabels, Label
<1> QED
  BY <1>2, <1>3 DEF LayerPasses

LEMMA PassingPasses ==
  ASSUME NEW layer \in LayerNames
  PROVE  LayerPasses(layer, Passing(layer).result)
<1>1. layer \in {"policy", "evidence", "state", "authority", "measurement"}
  BY Layered
<1> QED
  BY <1>1 DEF LayerPasses, Passing, Label

LEMMA LayerFails ==
  ASSUME NEW F \in SUBSET (1..37), NEW layer \in LayerNames
  PROVE  LayerPasses(layer, LayerLabel(layer, F).result) <=> Hit(layer, F) = {}
<1>1. CASE Hit(layer, F) = {}
  BY <1>1, PassingPasses DEF LayerLabel
<1>2. CASE Hit(layer, F) # {}
  <2> DEFINE f == Smallest(Hit(layer, F))
  <2>1. f \in 1..37 /\ LayerOf(f) = layer
    <3>1. f \in Hit(layer, F)
      BY <1>2, LeastHit
    <3> HIDE DEF f
    <3> QED
      BY <3>1 DEF Hit
  <2>2. LayerLabel(layer, F) = FaultLabels[f]
    BY <1>2 DEF LayerLabel
  <2> HIDE DEF f
  <2>3. ~ LayerPasses(layer, FaultLabels[f].result)
    BY <2>1, FaultFails
  <2> QED
    BY <1>2, <2>2, <2>3
<1> QED
  BY <1>1, <1>2

HitLayers(F) == {layer \in LayerNames : Hit(layer, F) # {}}

LEMMA SummaryIs ==
  ASSUME NEW F \in SUBSET (1..37)
  PROVE  /\ Summary(LabelsOf(F)).layers = LabelsOf(F)
         /\ HitLayers(F) = {} => /\ Summary(LabelsOf(F)).verdict = "ALLOW"
                               /\ Summary(LabelsOf(F)).first_rejecting_gate = "verified"
         /\ HitLayers(F) # {} =>
              /\ Summary(LabelsOf(F)).verdict = "DENY"
              /\ Summary(LabelsOf(F)).first_rejecting_gate
                   = LabelsOf(F)[FirstOf(EvaluationOrder, HitLayers(F))].gate
<1> DEFINE l == LabelsOf(F)
           failing == {name \in LayerNames : ~ LayerPasses(name, l[name].result)}
<1>1. failing = HitLayers(F)
  <2>1. \A name \in LayerNames : LayerPasses(name, l[name].result) <=> Hit(name, F) = {}
    BY LabelsAt, LayerFails
  <2> HIDE DEF l
  <2> QED
    BY <2>1 DEF HitLayers
<1>2. Summary(l) = [verdict |-> Verdict(failing = {}),
                    first_rejecting_gate |->
                      IF failing = {} THEN "verified"
                      ELSE l[FirstOf(EvaluationOrder, failing)].gate,
                    layers |-> l]
  BY DEF Summary
<1> HIDE DEF failing, l
<1>3. /\ Summary(l).layers = l
      /\ Summary(l).verdict = Verdict(failing = {})
      /\ Summary(l).first_rejecting_gate
           = IF failing = {} THEN "verified" ELSE l[FirstOf(EvaluationOrder, failing)].gate
  BY <1>2
<1>4. CASE failing = {}
  <2>1. Verdict(failing = {}) = "ALLOW"
    BY <1>4 DEF Verdict
  <2> QED
    BY <1>1, <1>3, <1>4, <2>1 DEF l
<1>5. CASE failing # {}
  <2>1. Verdict(failing = {}) = "DENY"
    BY <1>5 DEF Verdict
  <2> QED
    BY <1>1, <1>3, <1>5, <2>1 DEF l
<1> QED
  BY <1>4, <1>5

(* The layers are looked at in the order of the faults. *)
LEMMA FirstFailing ==
  ASSUME NEW F \in SUBSET (1..37), NEW f \in F, \A g \in F : f <= g
  PROVE  FirstOf(EvaluationOrder, HitLayers(F)) = LayerOf(f) /\ LayerOf(f) \in HitLayers(F)
<1> DEFINE S == HitLayers(F)
<1>1. f \in 1..37
  OBVIOUS
<1>2. LayerOf(f) \in S
  BY <1>1, FaultFails DEF HitLayers, Hit
<1>3. ASSUME NEW layer \in S
      PROVE  \E g \in 1..37 : LayerOf(g) = layer /\ f <= g
  BY DEF HitLayers, Hit
<1>4. S \subseteq LayerNames
  BY DEF HitLayers
<1> HIDE DEF S
<1>5. /\ "policy" \in S => f \in 1..5
      /\ "evidence" \in S => f \in 1..7
      /\ "state" \in S => f \in 1..10
      /\ "authority" \in S => f \in 1..34
  <2>1. ASSUME "policy" \in S PROVE f \in 1..5
    <3>1. PICK g \in 1..37 : LayerOf(g) = "policy" /\ f <= g
      BY <1>3, <2>1
    <3>2. g \in 1..5
      BY <3>1, LayersOfFaults
    <3> QED
      BY <1>1, <3>1, <3>2
  <2>2. ASSUME "evidence" \in S PROVE f \in 1..7
    <3>1. PICK g \in 1..37 : LayerOf(g) = "evidence" /\ f <= g
      BY <1>3, <2>2
    <3>2. g \in 6..7
      BY <3>1, LayersOfFaults
    <3> QED
      BY <1>1, <3>1, <3>2
  <2>3. ASSUME "state" \in S PROVE f \in 1..10
    <3>1. PICK g \in 1..37 : LayerOf(g) = "state" /\ f <= g
      BY <1>3, <2>3
    <3>2. g \in 8..10
      BY <3>1, LayersOfFaults
    <3> QED
      BY <1>1, <3>1, <3>2
  <2>4. ASSUME "authority" \in S PROVE f \in 1..34
    <3>1. PICK g \in 1..37 : LayerOf(g) = "authority" /\ f <= g
      BY <1>3, <2>4
    <3>2. g \in 11..34
      BY <3>1, LayersOfFaults
    <3> QED
      BY <1>1, <3>1, <3>2
  <2> QED
    BY <2>1, <2>2, <2>3, <2>4
<1>6. CASE f \in 1..5
  <2>1. LayerOf(f) = "policy"
    BY <1>1, <1>6, LayersOfFaults
  <2> QED
    BY <1>2, <1>4, <2>1, FirstLayer DEF S
<1>7. CASE f \in 6..7
  <2>1. LayerOf(f) = "evidence"
    BY <1>1, <1>7, LayersOfFaults
  <2>2. "policy" \notin S
    BY <1>5, <1>7
  <2> QED
    BY <1>2, <1>4, <2>1, <2>2, FirstLayer DEF S
<1>8. CASE f \in 8..10
  <2>1. LayerOf(f) = "state"
    BY <1>1, <1>8, LayersOfFaults
  <2>2. S \cap {"policy", "evidence"} = {}
    BY <1>5, <1>8
  <2> QED
    BY <1>2, <1>4, <2>1, <2>2, FirstLayer DEF S
<1>9. CASE f \in 11..34
  <2>1. LayerOf(f) = "authority"
    BY <1>1, <1>9, LayersOfFaults
  <2>2. S \cap {"policy", "evidence", "state"} = {}
    BY <1>5, <1>9
  <2> QED
    BY <1>2, <1>4, <2>1, <2>2, FirstLayer DEF S
<1>10. CASE f \in 35..37
  <2>1. LayerOf(f) = "measurement"
    BY <1>1, <1>10, LayersOfFaults
  <2>2. "policy" \notin S /\ "evidence" \notin S /\ "state" \notin S /\ "authority" \notin S
    BY <1>5, <1>10
  <2>3. S = {"measurement"}
    BY <1>2, <1>4, <2>1, <2>2, Layered
  <2> QED
    BY <1>2, <1>4, <2>1, <2>3, FirstLayer DEF S
<1> QED
  BY <1>1, <1>6, <1>7, <1>8, <1>9, <1>10

LEMMA FirstFaultShows ==
  ASSUME NEW F \in SUBSET (1..37), NEW f \in F, \A g \in F : f <= g
  PROVE  /\ Summary(LabelsOf(F)).verdict = "DENY"
         /\ Summary(LabelsOf(F)).first_rejecting_gate = FaultLabels[f].gate
         /\ Summary(LabelsOf(F)).layers[LayerOf(f)] = FaultLabels[f]
<1>1. f \in 1..37
  OBVIOUS
<1>2. FirstOf(EvaluationOrder, HitLayers(F)) = LayerOf(f) /\ LayerOf(f) \in HitLayers(F)
  BY FirstFailing
<1>3. LayerLabel(LayerOf(f), F) = FaultLabels[f]
  <2> DEFINE S == Hit(LayerOf(f), F)
  <2>1. S \in SUBSET (1..37) /\ f \in S /\ \A g \in S : f <= g
    BY DEF Hit
  <2> HIDE DEF S
  <2>2. S \in SUBSET Nat
    <3>1. 1..37 \in SUBSET Nat
      OBVIOUS
    <3> QED
      BY <2>1, <3>1
  <2>3. Smallest(S) = f
    BY <2>1, <2>2, SmallestIs
  <2> QED
    BY <2>1, <2>3 DEF LayerLabel, S
<1>4. LabelsOf(F)[LayerOf(f)] = FaultLabels[f]
  BY <1>1, <1>3, FaultFails, LabelsAt
<1>5. HitLayers(F) # {}
  BY <1>2
<1> QED
  BY <1>2, <1>4, <1>5, SummaryIs

(* Row r agrees with what the oracle expects. *)
AsExpected(r, e) ==
  /\ r.verdict = e.verdict
  /\ r.first_rejecting_gate = e.gate
  /\ e.target # None => /\ r.layers[e.target.layer].rule = e.target.rule
                        /\ r.layers[e.target.layer].edge = e.target.edge

LEMMA ExpectedIs ==
  ASSUME NEW b, NEW c \in Corpora, NEW n \in DOMAIN c.lists
  PROVE  AsExpected(RowsOf(c)[n], Expected(Registry(b), c.lists[n]))
<1> DEFINE list == c.lists[n]
           F == FaultsOf(c.lists, n)
           registry == Registry(b)
           r == Summary(LabelsOf(F))
           e == Expected(registry, list)
<1>1. list \in Seq(1..37) /\ F = {list[k] : k \in DOMAIN list} /\ F \in SUBSET (1..37)
  BY ListsFit
<1>2. RowsOf(c)[n] = r
  BY DEF RowsOf
<1> HIDE DEF list, F, registry, r, e
<1>3. CASE list = <<>>
  <2>1. F = {}
    BY <1>1, <1>3
  <2>2. HitLayers(F) = {}
    BY <2>1 DEF HitLayers, Hit
  <2>3. r.verdict = "ALLOW" /\ r.first_rejecting_gate = "verified"
    BY <1>1, <2>2, SummaryIs DEF r
  <2>4. e = [verdict |-> "ALLOW", gate |-> "verified", target |-> None]
    BY <1>3 DEF e, Expected
  <2>5. AsExpected(r, e)
    BY <2>3, <2>4 DEF AsExpected
  <2> QED
    BY <1>2, <2>5 DEF e, registry, list
<1>4. CASE list # <<>>
  <2> DEFINE Least(f) == \A k \in DOMAIN list : f <= list[k]
             f == CHOOSE g \in {list[k] : k \in DOMAIN list} : Least(g)
  <2>1. DOMAIN list # {}
    <3>1. Len(list) # 0 /\ Len(list) \in Nat /\ DOMAIN list = 1..Len(list)
      BY <1>1, <1>4, LenProperties, EmptySeq
    <3>2. 1 \in 1..Len(list)
      BY <3>1
    <3> QED
      BY <3>1, <3>2
  <2>2. F # {} /\ F \in SUBSET Nat
    <3>1. 1..37 \in SUBSET Nat
      OBVIOUS
    <3> QED
      BY <1>1, <2>1, <3>1
  <2>3. PICK m \in F : \A g \in F : m <= g
    BY <2>2, LeastExists
  <2>4. m \in {list[k] : k \in DOMAIN list} /\ Least(m)
    BY <1>1, <2>3
  <2>5. f \in F /\ Least(f)
    BY <1>1, <2>4
  <2>6. e = LET fault == registry[f]
            IN  [verdict |-> "DENY", gate |-> fault.gate,
                 target |-> [layer |-> fault.layer, rule |-> fault.rule,
                             edge |-> fault.edge]]
    BY <1>4 DEF e, Expected
  <2>7. \A g \in F : f <= g
    BY <1>1, <2>5
  <2> HIDE DEF f, Least
  <2>8. f \in 1..37
    BY <1>1, <2>5
  <2>9. AimedAs(registry[f], f)
    BY <2>8, RegistryAims DEF registry
  <2>10. /\ r.verdict = "DENY"
         /\ r.first_rejecting_gate = FaultLabels[f].gate
         /\ r.layers[LayerOf(f)] = FaultLabels[f]
    BY <1>1, <2>5, <2>7, FirstFaultShows DEF r
  <2>11. /\ e.verdict = "DENY" /\ e.gate = FaultLabels[f].gate
         /\ e.target.layer = LayerOf(f)
         /\ e.target.rule = FaultLabels[f].rule /\ e.target.edge = FaultLabels[f].edge
    BY <2>6, <2>9 DEF AimedAs
  <2>12. AsExpected(r, e)
    BY <2>10, <2>11 DEF AsExpected
  <2> QED
    BY <1>2, <2>12 DEF e, registry, list
<1> QED
  BY <1>3, <1>4

-----------------------------------------------------------------------------
(* The scripts, in whatever order.                                         *)

(* What FaultsStayInTheirLayer says of one layer of item n. *)
StaysInLayer(b, c, n, layer, label) ==
  LET hit == {f \in {c.lists[n][k] : k \in DOMAIN c.lists[n]} :
                Registry(b)[f].layer = layer}
  IN  IF hit = {} THEN label = Passing(layer)
      ELSE \E f \in hit : /\ \A g \in hit : f <= g
                         /\ label.rule = Registry(b)[f].rule
                         /\ label.gate = Registry(b)[f].gate
                         /\ label.edge = Registry(b)[f].edge

LEMMA RowsStayInTheirLayer ==
  ASSUME NEW b, NEW c \in Corpora, NEW n \in DOMAIN c.lists, NEW layer \in LayerNames
  PROVE  StaysInLayer(b, c, n, layer, RowsOf(c)[n].layers[layer])
<1> DEFINE F == FaultsOf(c.lists, n)
           label == RowsOf(c)[n].layers[layer]
           hit == {f \in {c.lists[n][k] : k \in DOMAIN c.lists[n]} :
                     Registry(b)[f].layer = layer}
<1>1. F = {c.lists[n][k] : k \in DOMAIN c.lists[n]} /\ F \in SUBSET (1..37)
  BY ListsFit
<1>2. \A f \in 1..37 : AimedAs(Registry(b)[f], f)
  BY RegistryAims
<1>3. hit = Hit(layer, F)
  BY <1>1, <1>2 DEF Hit, AimedAs
<1>4. label = LayerLabel(layer, F)
  <2>1. label = Summary(LabelsOf(F)).layers[layer]
    BY DEF RowsOf
  <2>2. Summary(LabelsOf(F)).layers = LabelsOf(F)
    BY <1>1, SummaryIs
  <2> HIDE DEF label, F
  <2> QED
    BY <2>1, <2>2, LabelsAt
<1> HIDE DEF label, hit, F
<1>5. CASE hit = {}
  BY <1>3, <1>4, <1>5 DEF LayerLabel, StaysInLayer, label, hit
<1>6. CASE hit # {}
  <2> DEFINE first == Smallest(hit)
  <2>1. first \in hit /\ \A g \in hit : first <= g
    BY <1>1, <1>3, <1>6, LeastHit
  <2>2. label = FaultLabels[first]
    BY <1>3, <1>4, <1>6 DEF LayerLabel
  <2> HIDE DEF first
  <2>3. first \in 1..37
    BY <1>1, <1>3, <2>1 DEF Hit
  <2>4. AimedAs(Registry(b)[first], first)
    BY <1>2, <2>3
  <2>5. /\ label.rule = Registry(b)[first].rule
        /\ label.gate = Registry(b)[first].gate
        /\ label.edge = Registry(b)[first].edge
    BY <2>2, <2>4 DEF AimedAs
  <2> QED
    BY <1>6, <2>1, <2>5 DEF StaysInLayer, label, hit
<1> QED
  BY <1>5, <1>6

(* k is a packet some run of the generator wrote. *)
MadePacket(k) ==
  \E b \in Bases :
    k = [items |-> ItemsOf(b, corpus),
         oracle |-> [n \in DOMAIN corpus.lists |-> Expected(Registry(b), corpus.lists[n])]]

(* o holds rows of some run of either labeller. *)
MadeOutput(o) == \A p \in Programs : o[p] = RowsOf(corpus)

(* What the directory holds, whoever ran what: the rows a program wrote    *)
(* are those of every packet the generator can write for this corpus, so   *)
(* neither the base a packet was made from nor the packet a program read   *)
(* has to be known.  (The inductive invariant of the two theorems below.)  *)
ScriptsInv ==
  /\ corpus \in Corpora
  /\ output = [p \in Programs |-> output[p]]
  /\ packet # None => MadePacket(packet)
  /\ \A p \in Programs : output[p] # None => output[p] = RowsOf(corpus)
  /\ frozen # None => MadePacket(frozen.packet) /\ MadeOutput(frozen.output)
  /\ ComparisonsPass

LEMMA ComparedIs ==
  ASSUME corpus \in Corpora, MadePacket(packet), MadeOutput(output)
  PROVE  Compared.drift = FALSE /\ Compared.mismatches \cup Compared.disagreements = {}
<1>1. PICK b \in Bases :
        packet = [items |-> ItemsOf(b, corpus),
                  oracle |-> [n \in DOMAIN corpus.lists |->
                                Expected(Registry(b), corpus.lists[n])]]
  BY DEF MadePacket
<1>2. ASSUME NEW n \in DOMAIN corpus.lists, NEW p \in Programs
      PROVE  AsExpected(output[p][n], packet.oracle[n])
  <2>1. packet.oracle[n] = Expected(Registry(b), corpus.lists[n])
    BY <1>1
  <2>2. output[p][n] = RowsOf(corpus)[n]
    BY DEF MadeOutput
  <2>3. AsExpected(RowsOf(corpus)[n], Expected(Registry(b), corpus.lists[n]))
    BY ExpectedIs
  <2> QED
    BY <2>1, <2>2, <2>3
<1>3. Mismatches = {}
  BY <1>2 DEF Mismatches, AsExpected
<1>4. Agreements = Cells
  <2>1. output["js"] = output["py"]
    BY DEF MadeOutput, Programs
  <2> QED
    BY <2>1 DEF Agreements
<1> QED
  BY <1>3, <1>4 DEF Compared

LEMMA ScriptsStart == CorpusInit => ScriptsInv
<1> SUFFICES ASSUME CorpusInit PROVE ScriptsInv
  OBVIOUS
<1>1. \A p \in Programs : output[p] = None
  BY DEF CorpusInit
<1>2. output = [p \in Programs |-> output[p]]
  BY DEF CorpusInit
<1> QED
  BY <1>1, <1>2 DEF CorpusInit, ScriptsInv, ComparisonsPass

LEMMA ScriptsStep == ScriptsInv /\ [CorpusNext]_corpusVars => ScriptsInv'
<1> SUFFICES ASSUME ScriptsInv, [CorpusNext]_corpusVars PROVE ScriptsInv'
  OBVIOUS
<1>0. corpus' = corpus /\ corpus \in Corpora
  BY DEF ScriptsInv, CorpusNext, corpusVars, Generate, RunLabeller, Freeze, CompareMutations,
         FreezeAndCompare
<1>1. ASSUME UNCHANGED <<output, frozen, packet>>
      PROVE  /\ output' = [p \in Programs |-> output'[p]]
             /\ packet' # None => MadePacket(packet)'
             /\ \A p \in Programs : output'[p] # None => output'[p] = RowsOf(corpus')
             /\ frozen' # None => MadePacket(frozen.packet)' /\ MadeOutput(frozen.output)'
  BY <1>0, <1>1 DEF ScriptsInv, MadePacket, MadeOutput
<1>2. report' = report => ComparisonsPass'
  BY <1>0 DEF ScriptsInv, ComparisonsPass
<1>3. ASSUME NEW b \in Bases, Generate(b) PROVE ScriptsInv'
  <2>1. packet' = [items |-> ItemsOf(b, corpus),
                   oracle |-> [n \in DOMAIN corpus.lists |->
                                 Expected(Registry(b), corpus.lists[n])]]
    BY <1>3 DEF Generate, Item, ItemsOf
  <2>2. MadePacket(packet)'
    BY <1>0, <2>1 DEF MadePacket
  <2>3. UNCHANGED <<output, frozen, report>>
    BY <1>3 DEF Generate
  <2>4. frozen' # None => MadePacket(frozen.packet)' /\ MadeOutput(frozen.output)'
    BY <1>0, <2>3 DEF ScriptsInv, MadePacket, MadeOutput
  <2> QED
    BY <1>0, <1>2, <2>2, <2>3, <2>4 DEF ScriptsInv
<1>4. ASSUME NEW p \in Programs, RunLabeller(p) PROVE ScriptsInv'
  <2>1. PICK b \in Bases : packet.items = ItemsOf(b, corpus)
    BY <1>4 DEF RunLabeller, ScriptsInv, MadePacket
  <2>2. Rows(p, packet.items) = RowsOf(corpus)
    BY <1>0, <2>1, RowsAre
  <2>3. output' = [output EXCEPT ![p] = RowsOf(corpus)] /\ UNCHANGED <<packet, frozen, report>>
    BY <1>4, <2>2 DEF RunLabeller
  <2>4. output = [q \in Programs |-> output[q]]
    BY DEF ScriptsInv
  <2>5. /\ output' = [q \in Programs |-> output'[q]]
        /\ \A q \in Programs : output'[q] = IF q = p THEN RowsOf(corpus) ELSE output[q]
    BY <2>3, <2>4
  <2>6. \A q \in Programs : output'[q] # None => output'[q] = RowsOf(corpus')
    BY <1>0, <2>5 DEF ScriptsInv
  <2>7. /\ packet' # None => MadePacket(packet)'
        /\ frozen' # None => MadePacket(frozen.packet)' /\ MadeOutput(frozen.output)'
    BY <1>0, <2>3 DEF ScriptsInv, MadePacket, MadeOutput
  <2> QED
    BY <1>0, <1>2, <2>3, <2>5, <2>6, <2>7 DEF ScriptsInv
<1>5. ASSUME MayFreeze, frozen' = Files, UNCHANGED <<packet, output>>
      PROVE  /\ output' = [p \in Programs |-> output'[p]]
             /\ packet' # None => MadePacket(packet)'
             /\ \A p \in Programs : output'[p] # None => output'[p] = RowsOf(corpus')
             /\ frozen' # None => MadePacket(frozen.packet)' /\ MadeOutput(frozen.output)'
             /\ MadePacket(packet) /\ MadeOutput(output)
  <2>1. MadePacket(packet) /\ MadeOutput(output)
    BY <1>5 DEF ScriptsInv, MayFreeze, MadeOutput
  <2>2. frozen'.packet = packet /\ frozen'.output = output
    BY <1>5 DEF Files
  <2>3. MadePacket(packet)' /\ MadePacket(frozen.packet)' /\ MadeOutput(frozen.output)'
    BY <1>0, <1>5, <2>1, <2>2 DEF MadePacket, MadeOutput
  <2> QED
    BY <1>0, <1>5, <2>1, <2>3 DEF ScriptsInv
<1>6. ASSUME Freeze PROVE ScriptsInv'
  <2>1. MayFreeze /\ frozen' = Files /\ UNCHANGED <<packet, output, report>>
    BY <1>6 DEF Freeze
  <2> QED
    BY <1>0, <1>2, <1>5, <2>1 DEF ScriptsInv
<1>7. ASSUME CompareMutations PROVE ScriptsInv'
  <2>1. UNCHANGED <<output, frozen, packet>> /\ frozen # None
        /\ corpus.directory = "mutation-tests"
    BY <1>7 DEF CompareMutations
  <2>2. report' = IF frozen = Files THEN Compared
                  ELSE [drift |-> TRUE, mismatches |-> {}, disagreements |-> {}]
    BY <1>7 DEF CompareMutations
  <2>3. report'.drift \/ report'.mismatches \cup report'.disagreements = {}
    <3>1. CASE frozen = Files
      <4>1. frozen.packet = packet /\ frozen.output = output
        BY <3>1 DEF Files
      <4>2. MadePacket(packet) /\ MadeOutput(output)
        BY <2>1, <4>1 DEF ScriptsInv
      <4> QED
        BY <1>0, <2>2, <3>1, <4>2, ComparedIs
    <3>2. CASE frozen # Files
      BY <2>2, <3>2
    <3> QED
      BY <3>1, <3>2
  <2>4. ComparisonsPass'
    BY <1>0, <2>1, <2>3 DEF ComparisonsPass
  <2> QED
    BY <1>0, <1>1, <2>1, <2>4 DEF ScriptsInv
<1>8. ASSUME FreezeAndCompare PROVE ScriptsInv'
  <2>1. MayFreeze /\ frozen' = Files /\ UNCHANGED <<packet, output>> /\ report' = Compared
    BY <1>8 DEF FreezeAndCompare
  <2>2. ComparisonsPass'
    BY <1>0, <1>5, <2>1, ComparedIs DEF ComparisonsPass
  <2> QED
    BY <1>0, <1>5, <2>1, <2>2 DEF ScriptsInv
<1>9. ASSUME UNCHANGED corpusVars PROVE ScriptsInv'
  BY <1>0, <1>1, <1>2, <1>9 DEF ScriptsInv, corpusVars
<1> QED
  BY <1>3, <1>4, <1>6, <1>7, <1>8, <1>9 DEF CorpusNext

LEMMA ScriptsAlways == CorpusSpec => []ScriptsInv
<1> QED
  BY ScriptsStart, ScriptsStep, PTL DEF CorpusSpec

LEMMA ScriptsLabel == ScriptsInv => FaultsStayInTheirLayer
<1> DEFINE b == CHOOSE x \in Bases : TRUE
<1> SUFFICES ASSUME ScriptsInv, NEW p \in Programs, output[p] # None,
                    NEW n \in DOMAIN corpus.lists, NEW layer \in LayerNames
             PROVE  StaysInLayer(b, corpus, n, layer, output[p][n].layers[layer])
  BY DEF FaultsStayInTheirLayer, StaysInLayer
<1> HIDE DEF b
<1>1. output[p] = RowsOf(corpus) /\ corpus \in Corpora
  BY DEF ScriptsInv
<1>2. StaysInLayer(b, corpus, n, layer, RowsOf(corpus)[n].layers[layer])
  BY <1>1, RowsStayInTheirLayer
<1> QED
  BY <1>1, <1>2

(* Whatever transactions pass everywhere, whatever numbers the two         *)
(* bootstraps produce and whatever comparable faults an item is given,     *)
(* every layer of every row of either labeller carries the rule, the gate  *)
(* and the edge of the first fault put into that layer, and passes if none *)
(* was (generate_mutation_corpus.py, generate_multifault_corpus.py, the    *)
(* evaluators' layer functions and their caches).                          *)
THEOREM EveryFaultStaysInItsLayer == CorpusSpec => []FaultsStayInTheirLayer
<1> QED
  BY ScriptsAlways, ScriptsLabel, PTL

(* In whatever order the generator, the two labellers, the freeze and the  *)
(* comparison are run, a comparison stops at a file that has changed since *)
(* the freeze or finds no disagreement and no label the oracle does not    *)
(* expect (compare_mutations.py, freeze_and_compare.py).                   *)
THEOREM EveryComparisonPasses == CorpusSpec => []ComparisonsPass
<1>1. ScriptsInv => ComparisonsPass
  BY DEF ScriptsInv
<1> QED
  BY <1>1, ScriptsAlways, PTL
=============================================================================
