---------------------- MODULE ComposedTransactionProofs ----------------------
(***************************************************************************)
(* Proofs about the delegation walk and the composed transaction, for      *)
(* every path length, scope, policy anchor and set of transactions: the    *)
(* walk first, by itself; then the loop, which runs that walk, so that     *)
(* what is proved of it holds of the authority layer, and whose composed   *)
(* verdict is what the artefacts jointly say; and then the two labellers,  *)
(* which give each layer one label, the one of the verifier.               *)
(***************************************************************************)
EXTENDS LabelLadder, FiniteSetTheorems, TLAPS

-----------------------------------------------------------------------------
(* The order of the statements is the order of the priorities.             *)

Increasing(order) ==
  \A k, m \in DOMAIN order : k < m => Priority(order[k]) < Priority(order[m])

LEMMA EdgePriorities == Increasing(EdgeOrder)
<1>1. DOMAIN EdgeOrder = 1..13
  BY DEF EdgeOrder
<1>2. /\ Priority(EdgeOrder[1]) = 10 /\ Priority(EdgeOrder[2]) = 20
      /\ Priority(EdgeOrder[3]) = 30 /\ Priority(EdgeOrder[4]) = 40
      /\ Priority(EdgeOrder[5]) = 50 /\ Priority(EdgeOrder[6]) = 60
  BY DEF EdgeOrder, Priority
<1>3. /\ Priority(EdgeOrder[7]) = 70 /\ Priority(EdgeOrder[8]) = 71
      /\ Priority(EdgeOrder[9]) = 72 /\ Priority(EdgeOrder[10]) = 73
      /\ Priority(EdgeOrder[11]) = 74 /\ Priority(EdgeOrder[12]) = 80
      /\ Priority(EdgeOrder[13]) = 81
  BY DEF EdgeOrder, Priority
<1> QED
  BY <1>1, <1>2, <1>3 DEF Increasing

LEMMA ActionPriorities == Increasing(ActionOrder)
<1>1. DOMAIN ActionOrder = 1..7
  BY DEF ActionOrder
<1>2. /\ Priority(ActionOrder[1]) = 10 /\ Priority(ActionOrder[2]) = 20
      /\ Priority(ActionOrder[3]) = 21 /\ Priority(ActionOrder[4]) = 22
      /\ Priority(ActionOrder[5]) = 23 /\ Priority(ActionOrder[6]) = 24
      /\ Priority(ActionOrder[7]) = 30
  BY DEF ActionOrder, Priority
<1> QED
  BY <1>1, <1>2 DEF Increasing

LEMMA EffectPriorities == Increasing(EffectOrder)
<1>1. DOMAIN EffectOrder = 1..3
  BY DEF EffectOrder
<1>2. /\ Priority(EffectOrder[1]) = 10 /\ Priority(EffectOrder[2]) = 20
      /\ Priority(EffectOrder[3]) = 30
  BY DEF EffectOrder, Priority
<1> QED
  BY <1>1, <1>2 DEF Increasing

(* The first check that fails is the violation of lowest priority. *)
LEMMA FirstIsLowest ==
  ASSUME NEW order, DOMAIN order \subseteq Nat \ {0}, Increasing(order),
         NEW faults, faults \subseteq Gates(order),
         NEW k \in DOMAIN order, \A m \in 1..k-1 : order[m] \notin faults
  PROVE  \A g \in faults : g # order[k] => Priority(order[k]) < Priority(g)
<1> SUFFICES ASSUME NEW g \in faults, g # order[k]
             PROVE  Priority(order[k]) < Priority(g)
  OBVIOUS
<1>1. PICK m \in DOMAIN order : g = order[m]
  BY DEF Gates
<1>2. k < m
  BY <1>1
<1> QED
  BY <1>1, <1>2 DEF Increasing

LEMMA OrdersCount ==
  /\ DOMAIN EdgeOrder \subseteq Nat \ {0}
  /\ DOMAIN ActionOrder \subseteq Nat \ {0}
  /\ DOMAIN EffectOrder \subseteq Nat \ {0}
BY DEF EdgeOrder, ActionOrder, EffectOrder

(* The gates of the checks come after the gate of the protocol. *)
LEMMA ProtocolIsFirst ==
  /\ Priority("protocol.valid") = 0
  /\ \A g \in Gates(EdgeOrder) \cup Gates(ActionOrder) : Priority(g) > 0
<1>1. Priority("protocol.valid") = 0
  BY DEF Priority
<1>2. ASSUME NEW g \in Gates(EdgeOrder) PROVE Priority(g) > 0
  BY DEF Gates, EdgeOrder, Priority
<1>3. ASSUME NEW g \in Gates(ActionOrder) PROVE Priority(g) > 0
  BY DEF Gates, ActionOrder, Priority
<1> QED
  BY <1>1, <1>2, <1>3

-----------------------------------------------------------------------------
(* The condition on an edge is the oracle's, except that a role transition *)
(* is looked up under the role delegated so far where the oracle uses the  *)
(* edge's own: they differ only if the lineage has failed already.         *)

LEMMA EdgeAgrees ==
  ASSUME NEW n \in 1..Hops
  PROVE  LET e == case.edges[n]
             p == SqlParent(n)
             faults == EdgeFaults(e, p, n = 1)
         IN  /\ faults \subseteq Gates(EdgeOrder)
             /\ SqlEdgeFaults(n) \subseteq Gates(EdgeOrder)
             /\ "edge.lineage" \in faults <=> "edge.lineage" \in SqlEdgeFaults(n)
             /\ "edge.lineage" \notin faults => faults = SqlEdgeFaults(n)
<1> DEFINE e == case.edges[n]
           p == SqlParent(n)
           faults == EdgeFaults(e, p, n = 1)
<1>1. faults \subseteq Gates(EdgeOrder) /\ SqlEdgeFaults(n) \subseteq Gates(EdgeOrder)
  BY DEF EdgeFaults, SqlEdgeFaults
<1>2. "edge.lineage" \in Gates(EdgeOrder)
  <2>1. EdgeOrder[1] = "edge.lineage" /\ 1 \in DOMAIN EdgeOrder
    BY DEF EdgeOrder
  <2> QED
    BY <2>1 DEF Gates
<1>3. "edge.lineage" \in faults <=> (e.delegator # p.principal \/ e.from_role # p.role)
  BY <1>2 DEF EdgeFaults
<1>4. "edge.lineage" \in SqlEdgeFaults(n)
        <=> (e.delegator # p.principal \/ e.from_role # p.role)
  BY <1>2 DEF SqlEdgeFaults
<1>5. ASSUME e.from_role = p.role
      PROVE  faults = SqlEdgeFaults(n)
  <2>1. n # 1 <=> n > 1
    BY DEF Hops
  <2> HIDE DEF e, p
  <2> QED
    BY <1>5, <2>1 DEF EdgeFaults, SqlEdgeFaults, e, p
<1> QED
  BY <1>1, <1>3, <1>4, <1>5

(* The walk meets the first check of an edge that the oracle puts first. *)
LEMMA EdgeDenial ==
  ASSUME NEW n \in 1..Hops,
         NEW k \in DOMAIN EdgeOrder,
         EdgeOrder[k] \in EdgeFaults(case.edges[n], SqlParent(n), n = 1),
         \A m \in 1..k-1 : EdgeOrder[m] \notin EdgeFaults(case.edges[n], SqlParent(n), n = 1)
  PROVE  /\ EdgeOrder[k] \in SqlEdgeFaults(n)
         /\ \A g \in SqlEdgeFaults(n) :
              g # EdgeOrder[k] => Priority(EdgeOrder[k]) < Priority(g)
<1> DEFINE faults == EdgeFaults(case.edges[n], SqlParent(n), n = 1)
<1>1. /\ faults \subseteq Gates(EdgeOrder)
      /\ SqlEdgeFaults(n) \subseteq Gates(EdgeOrder)
      /\ "edge.lineage" \in faults <=> "edge.lineage" \in SqlEdgeFaults(n)
      /\ "edge.lineage" \notin faults => faults = SqlEdgeFaults(n)
  BY EdgeAgrees
<1>2. EdgeOrder[1] = "edge.lineage" /\ DOMAIN EdgeOrder = 1..13
  BY DEF EdgeOrder
<1>3. CASE "edge.lineage" \in faults
  <2>1. k = 1
    BY <1>2, <1>3
  <2>2. \A m \in 1..k-1 : EdgeOrder[m] \notin SqlEdgeFaults(n)
    BY <2>1
  <2> QED
    BY <1>1, <1>2, <1>3, <2>1, <2>2, FirstIsLowest, EdgePriorities, OrdersCount
<1>4. CASE "edge.lineage" \notin faults
  BY <1>1, <1>4, FirstIsLowest, EdgePriorities, OrdersCount
<1> QED
  BY <1>3, <1>4

(* Both find nothing on the same edges. *)
LEMMA EdgePasses ==
  ASSUME NEW n \in 1..Hops,
         EdgeFaults(case.edges[n], SqlParent(n), n = 1) = {}
  PROVE  SqlEdgeFaults(n) = {}
BY EdgeAgrees

-----------------------------------------------------------------------------
(* Type correctness.                                                       *)

LEMMA HopsType ==
  ASSUME case \in CaseType
  PROVE  /\ Hops \in Nat \ {0}
         /\ case.edges \in Seq(Edge)
         /\ \A n \in 1..Hops : case.edges[n] \in Edge
BY DEF CaseType, Hops

LEMMA DenyType ==
  ASSUME NEW order, NEW faults, NEW n \in Stages, TypeOK,
         Gates(order) \subseteq AllGates,
         DenyFirst(order, faults, n)
  PROVE  TypeOK'
<1>1. PICK k \in DOMAIN order : Deny(order[k], n)
  BY DEF DenyFirst
<1>2. order[k] \in AllGates
  BY DEF Gates
<1> QED
  BY <1>1, <1>2 DEF TypeOK, Deny, StageOf, Stages, Hops

LEMMA TypeInit == Init => TypeOK
BY CasesAssumption, BaseAssumption, HopsType DEF Init, TypeOK, Root, Stages, AllGates

LEMMA TypeStep == TypeOK /\ [Next]_vars => TypeOK'
<1> SUFFICES ASSUME TypeOK, [Next]_vars PROVE TypeOK'
  OBVIOUS
<1>h. Hops \in Nat \ {0} /\ \A n \in 1..Hops : case.edges[n] \in Edge
  BY HopsType DEF TypeOK
<1>g. /\ Gates(EdgeOrder) \subseteq AllGates
      /\ Gates(ActionOrder) \subseteq AllGates
      /\ Gates(EffectOrder) \subseteq AllGates
      /\ {"protocol.valid", "verified"} \subseteq AllGates
  BY DEF AllGates
<1>1. CASE CheckProtocol
  BY <1>1, <1>g, <1>h DEF CheckProtocol, Deny, StageOf, TypeOK, Stages, Hops
<1>2. CASE CheckEdge
  <2> DEFINE e == case.edges[index + 1]
             faults == EdgeFaults(e, parent, index = 0)
  <2>1. index \in Stages /\ e \in Edge
    BY <1>2, <1>h DEF CheckEdge, TypeOK, Stages
  <2>2. CASE DenyFirst(EdgeOrder, faults, index)
    BY <2>1, <2>2, <1>g, DenyType
  <2>3. CASE /\ faults = {}
             /\ index' = index + 1
             /\ parent' = Delegated(e)
             /\ UNCHANGED <<case, verdict, gate, stage>>
    <3>1. Delegated(e) \in [principal : Principals, role : Roles, scope : Scope]
      BY <2>1 DEF Delegated, Edge
    <3>2. index + 1 \in Stages
      BY <1>2, <1>h DEF CheckEdge, TypeOK, Stages
    <3> QED
      BY <2>3, <3>1, <3>2 DEF TypeOK, Stages, Hops
  <2> QED
    BY <1>2, <2>2, <2>3 DEF CheckEdge
<1>3. CASE CheckAction
  <2>1. Hops \in Stages /\ Hops + 1 \in Stages
    BY <1>h DEF Stages
  <2>2. CASE DenyFirst(ActionOrder, ActionFaults(case.action, parent), Hops)
    BY <2>1, <2>2, <1>g, DenyType
  <2>3. CASE index' = index + 1 /\ UNCHANGED <<case, parent, verdict, gate, stage>>
    BY <1>3, <2>1, <2>3 DEF CheckAction, TypeOK, Stages, Hops
  <2> QED
    BY <1>3, <2>2, <2>3 DEF CheckAction
<1>4. CASE CheckEffect
  <2>1. Hops + 1 \in Stages
    BY <1>h DEF Stages
  <2>2. CASE DenyFirst(EffectOrder, EffectFaults(case.receipt, case.action), Hops + 1)
    BY <2>1, <2>2, <1>g, DenyType
  <2>3. CASE verdict' = "ALLOW" /\ gate' = "verified" /\ UNCHANGED <<case, index, parent, stage>>
    BY <2>3, <1>g DEF TypeOK, Stages, Hops
  <2> QED
    BY <1>4, <2>2, <2>3 DEF CheckEffect
<1>5. CASE UNCHANGED vars
  BY <1>5 DEF vars, TypeOK, Stages, Hops
<1> QED
  BY <1>1, <1>2, <1>3, <1>4, <1>5 DEF Next

(* Every variable keeps its type: the stage of a denial is a stage of the  *)
(* case, whatever the length of its path.                                  *)
THEOREM TypeCorrect == Spec => []TypeOK
BY TypeInit, TypeStep, PTL DEF Spec

-----------------------------------------------------------------------------
(* The inductive invariant.                                                *)

LEMMA WithinTransitive ==
  ASSUME NEW a \in Scope, NEW b \in Scope, NEW c \in Scope, Within(a, b), Within(b, c)
  PROVE  Within(a, c)
BY DEF Within, Scope

LEMMA WithinReflexive ==
  ASSUME NEW a \in Scope
  PROVE  Within(a, a)
BY DEF Within, Scope

(* A grant that passes the checks of its edge lies within its parent's.    *)
LEMMA GrantWithinParent ==
  ASSUME NEW e \in Edge, NEW p, p.scope \in Scope, NEW first, EdgeFaults(e, p, first) = {}
  PROVE  Within(e.grant, p.scope)
<1>1. /\ EdgeOrder[7] = "edge.scope.operations" /\ EdgeOrder[8] = "edge.scope.resources"
      /\ EdgeOrder[9] = "edge.scope.tools" /\ EdgeOrder[10] = "edge.scope.audiences"
      /\ EdgeOrder[11] = "edge.scope.purposes" /\ EdgeOrder[12] = "edge.scope.currency"
      /\ EdgeOrder[13] = "edge.scope.amount_max" /\ DOMAIN EdgeOrder = 1..13
  BY DEF EdgeOrder
<1>2. /\ "edge.scope.operations" \in Gates(EdgeOrder)
      /\ "edge.scope.resources" \in Gates(EdgeOrder)
      /\ "edge.scope.tools" \in Gates(EdgeOrder)
      /\ "edge.scope.audiences" \in Gates(EdgeOrder)
      /\ "edge.scope.purposes" \in Gates(EdgeOrder)
      /\ "edge.scope.currency" \in Gates(EdgeOrder)
      /\ "edge.scope.amount_max" \in Gates(EdgeOrder)
  BY <1>1 DEF Gates
<1>3. /\ e.grant.operations \subseteq p.scope.operations
      /\ e.grant.resources \subseteq p.scope.resources
      /\ e.grant.tools \subseteq p.scope.tools
      /\ e.grant.audiences \subseteq p.scope.audiences
      /\ e.grant.purposes \subseteq p.scope.purposes
      /\ e.grant.currency = p.scope.currency
      /\ ~ (e.grant.amount_max > p.scope.amount_max)
  BY <1>2 DEF EdgeFaults
<1>4. e.grant.amount_max \in Nat /\ p.scope.amount_max \in Nat
  BY DEF Edge, Scope
<1> QED
  BY <1>3, <1>4 DEF Within

(* Only the first stage has the protocol among its gates. *)
LEMMA ViolatedAt ==
  ASSUME NEW n \in Stages, case.protocol_valid \/ n > 0
  PROVE  /\ n < Hops => Violated(n) = SqlEdgeFaults(n + 1)
         /\ n = Hops => Violated(n) = ActionFaults(case.action, SqlParent(Hops + 1))
         /\ n > Hops => Violated(n) = EffectFaults(case.receipt, case.action)
BY DEF Violated, Stages, Hops

LEMMA InvInit == Init => IInv
<1> SUFFICES ASSUME Init PROVE IInv
  OBVIOUS
<1>1. TypeOK
  BY TypeInit
<1>2. Hops \in Nat \ {0}
  BY <1>1, HopsType DEF TypeOK
<1>3. PassedIsSound
  BY <1>2 DEF Init, PassedIsSound, SqlParent
<1>4. ScopeNarrows
  BY <1>2, BaseAssumption, WithinReflexive DEF Init, ScopeNarrows, Root
<1>5. FirstViolation /\ AllowedAtEnd
  BY DEF Init, FirstViolation, AllowedAtEnd
<1> QED
  BY <1>1, <1>3, <1>4, <1>5 DEF IInv

(* The case is never changed, and what is defined from it alone with it.   *)
LEMMA CaseKept ==
  ASSUME UNCHANGED case
  PROVE  /\ Hops' = Hops /\ Stages' = Stages
         /\ \A n : SqlParent(n)' = SqlParent(n)
         /\ \A n : Violated(n)' = Violated(n)
BY DEF Hops, Stages, SqlParent, SqlEdgeFaults, Violated

(* A denial that names the first violation of the first violated stage     *)
(* keeps the invariant.                                                    *)
LEMMA DenyKeeps ==
  ASSUME IInv, Running, NEW n \in Stages, NEW g,
         TypeOK', Deny(g, n), g \in Violated(n),
         \A m \in 0..n-1 : Violated(m) = {},
         \A h \in Violated(n) : h # g => Priority(g) < Priority(h)
  PROVE  IInv'
<1>1. UNCHANGED <<case, index, parent>> /\ verdict' = "DENY" /\ gate' = g /\ stage' = n
  BY DEF Deny, StageOf
<1>2. PassedIsSound'
  BY <1>1, CaseKept DEF IInv, PassedIsSound
<1>3. ScopeNarrows'
  BY <1>1, CaseKept DEF IInv, ScopeNarrows
<1>4. FirstViolation'
  BY <1>1, CaseKept DEF FirstViolation
<1>5. AllowedAtEnd'
  BY <1>1 DEF AllowedAtEnd
<1> QED
  BY <1>2, <1>3, <1>4, <1>5 DEF IInv

LEMMA ProtocolKeeps == IInv /\ TypeOK' /\ CheckProtocol => IInv'
<1> SUFFICES ASSUME IInv, TypeOK', CheckProtocol PROVE IInv'
  OBVIOUS
<1>1. Hops \in Nat \ {0} /\ 0 \in Stages
  BY HopsType DEF IInv, TypeOK, Stages
<1>2. Violated(0) = {"protocol.valid"} \cup SqlEdgeFaults(1)
  BY <1>1 DEF CheckProtocol, Violated
<1>3. SqlEdgeFaults(1) \subseteq Gates(EdgeOrder)
  BY DEF SqlEdgeFaults
<1>4. \A h \in Violated(0) : h # "protocol.valid" => Priority("protocol.valid") < Priority(h)
  BY <1>2, <1>3, ProtocolIsFirst
<1> QED
  BY <1>1, <1>2, <1>4, DenyKeeps DEF CheckProtocol

LEMMA EdgeKeeps == IInv /\ TypeOK' /\ CheckEdge => IInv'
<1> SUFFICES ASSUME IInv, TypeOK', CheckEdge PROVE IInv'
  OBVIOUS
<1> DEFINE n == index + 1
           e == case.edges[n]
           faults == EdgeFaults(e, parent, index = 0)
<1>1. /\ Hops \in Nat \ {0} /\ index \in 0..Hops-1
      /\ index \in Stages /\ n \in 1..Hops /\ n \in Stages /\ e \in Edge
  BY HopsType DEF IInv, TypeOK, Stages, CheckEdge
<1>2. parent = SqlParent(n) /\ \A m \in 0..index-1 : Violated(m) = {}
  BY <1>1 DEF IInv, PassedIsSound
<1>3. (index = 0) = (n = 1)
  BY <1>1
<1>4. Violated(index) = SqlEdgeFaults(n)
  BY <1>1, ViolatedAt DEF CheckEdge
<1>5. CASE DenyFirst(EdgeOrder, faults, index)
  <2>1. PICK k \in DOMAIN EdgeOrder :
          /\ EdgeOrder[k] \in faults
          /\ \A m \in 1..k-1 : EdgeOrder[m] \notin faults
          /\ Deny(EdgeOrder[k], index)
    BY <1>5 DEF DenyFirst
  <2>2. /\ EdgeOrder[k] \in SqlEdgeFaults(n)
        /\ \A g \in SqlEdgeFaults(n) :
             g # EdgeOrder[k] => Priority(EdgeOrder[k]) < Priority(g)
    BY <1>1, <1>2, <1>3, <2>1, EdgeDenial
  <2> QED
    BY <1>1, <1>2, <1>4, <2>1, <2>2, DenyKeeps DEF CheckEdge
<1>6. CASE /\ faults = {}
           /\ index' = index + 1
           /\ parent' = Delegated(e)
           /\ UNCHANGED <<case, verdict, gate, stage>>
  <2>1. Violated(index) = {}
    BY <1>1, <1>2, <1>3, <1>4, <1>6, EdgePasses
  <2>2. PassedIsSound'
    <3>1. parent' = SqlParent(index' + 1)
      BY <1>1, <1>6 DEF SqlParent, Delegated
    <3>2. \A m \in 0..index'-1 : Violated(m) = {}
      BY <1>1, <1>2, <1>6, <2>1
    <3> QED
      BY <1>1, <1>6, <3>1, <3>2, CaseKept DEF PassedIsSound, CheckEdge
  <2>3. ScopeNarrows'
    <3>1. /\ e.grant \in Scope /\ parent.scope \in Scope /\ base.scope \in Scope
          /\ \A m \in 1..Hops : case.edges[m].grant \in Scope
      BY <1>1, BaseAssumption, HopsType DEF IInv, TypeOK, Edge
    <3>2. Within(e.grant, parent.scope)
      BY <1>1, <1>6, <3>1, GrantWithinParent
    <3>3. Within(e.grant, base.scope)
      BY <3>1, <3>2, WithinTransitive DEF IInv, ScopeNarrows
    <3>4. ASSUME NEW m \in 1..Hops, m <= n PROVE Within(e.grant, case.edges[m].grant)
      <4>1. CASE m <= index
        BY <3>1, <3>2, <3>4, <4>1, WithinTransitive DEF IInv, ScopeNarrows
      <4>2. CASE m = n
        BY <3>1, <4>2, WithinReflexive
      <4> QED
        BY <1>1, <3>4, <4>1, <4>2
    <3>5. parent'.scope = e.grant
      BY <1>6 DEF Delegated
    <3> QED
      BY <1>6, <3>3, <3>4, <3>5, CaseKept DEF ScopeNarrows
  <2>4. FirstViolation' /\ AllowedAtEnd'
    BY <1>6 DEF FirstViolation, AllowedAtEnd, CheckEdge, Running
  <2> QED
    BY <2>2, <2>3, <2>4 DEF IInv
<1> QED
  BY <1>5, <1>6 DEF CheckEdge

LEMMA ActionKeeps == IInv /\ TypeOK' /\ CheckAction => IInv'
<1> SUFFICES ASSUME IInv, TypeOK', CheckAction PROVE IInv'
  OBVIOUS
<1> DEFINE faults == ActionFaults(case.action, parent)
<1>1. Hops \in Nat \ {0} /\ index = Hops /\ Hops \in Stages
  BY HopsType DEF IInv, TypeOK, Stages, CheckAction
<1>2. parent = SqlParent(Hops + 1) /\ \A m \in 0..Hops-1 : Violated(m) = {}
  BY <1>1 DEF IInv, PassedIsSound
<1>3. Violated(Hops) = faults /\ faults \subseteq Gates(ActionOrder)
  BY <1>1, <1>2, ViolatedAt DEF ActionFaults
<1>4. CASE DenyFirst(ActionOrder, faults, Hops)
  <2>1. PICK k \in DOMAIN ActionOrder :
          /\ ActionOrder[k] \in faults
          /\ \A m \in 1..k-1 : ActionOrder[m] \notin faults
          /\ Deny(ActionOrder[k], Hops)
    BY <1>4 DEF DenyFirst
  <2>2. \A g \in faults : g # ActionOrder[k] => Priority(ActionOrder[k]) < Priority(g)
    BY <1>3, <2>1, FirstIsLowest, ActionPriorities, OrdersCount
  <2> QED
    BY <1>1, <1>2, <1>3, <2>1, <2>2, DenyKeeps DEF CheckAction
<1>5. CASE faults = {} /\ index' = index + 1 /\ UNCHANGED <<case, parent, verdict, gate, stage>>
  <2>1. PassedIsSound'
    BY <1>1, <1>2, <1>3, <1>5, CaseKept DEF PassedIsSound, CheckAction
  <2>2. ScopeNarrows'
    BY <1>1, <1>5, CaseKept DEF IInv, ScopeNarrows
  <2>3. FirstViolation' /\ AllowedAtEnd'
    BY <1>5 DEF FirstViolation, AllowedAtEnd, CheckAction, Running
  <2> QED
    BY <2>1, <2>2, <2>3 DEF IInv
<1> QED
  BY <1>4, <1>5 DEF CheckAction

LEMMA EffectKeeps == IInv /\ TypeOK' /\ CheckEffect => IInv'
<1> SUFFICES ASSUME IInv, TypeOK', CheckEffect PROVE IInv'
  OBVIOUS
<1> DEFINE faults == EffectFaults(case.receipt, case.action)
<1>1. Hops \in Nat \ {0} /\ index = Hops + 1 /\ Hops + 1 \in Stages
  BY HopsType DEF IInv, TypeOK, Stages, CheckEffect
<1>2. \A m \in 0..Hops : Violated(m) = {}
  BY <1>1 DEF IInv, PassedIsSound
<1>3. Violated(Hops + 1) = faults /\ faults \subseteq Gates(EffectOrder)
  BY <1>1, ViolatedAt DEF EffectFaults
<1>4. CASE DenyFirst(EffectOrder, faults, Hops + 1)
  <2>1. PICK k \in DOMAIN EffectOrder :
          /\ EffectOrder[k] \in faults
          /\ \A m \in 1..k-1 : EffectOrder[m] \notin faults
          /\ Deny(EffectOrder[k], Hops + 1)
    BY <1>4 DEF DenyFirst
  <2>2. \A g \in faults : g # EffectOrder[k] => Priority(EffectOrder[k]) < Priority(g)
    BY <1>3, <2>1, FirstIsLowest, EffectPriorities, OrdersCount
  <2> QED
    BY <1>1, <1>2, <1>3, <2>1, <2>2, DenyKeeps DEF CheckEffect
<1>5. CASE /\ faults = {}
           /\ verdict' = "ALLOW"
           /\ gate' = "verified"
           /\ UNCHANGED <<case, index, parent, stage>>
  <2>1. PassedIsSound' /\ ScopeNarrows'
    BY <1>5, CaseKept DEF IInv, PassedIsSound, ScopeNarrows
  <2>2. \A m \in Stages : Violated(m) = {}
    BY <1>1, <1>2, <1>3, <1>5 DEF Stages
  <2>3. FirstViolation' /\ AllowedAtEnd'
    BY <1>1, <1>5, <2>2, CaseKept DEF FirstViolation, AllowedAtEnd
  <2> QED
    BY <2>1, <2>3 DEF IInv
<1> QED
  BY <1>4, <1>5 DEF CheckEffect

LEMMA InvStep == IInv /\ [Next]_vars => IInv'
<1> SUFFICES ASSUME IInv, [Next]_vars PROVE IInv'
  OBVIOUS
<1>1. TypeOK'
  BY TypeStep DEF IInv
<1>2. CASE UNCHANGED vars
  BY <1>1, <1>2, CaseKept
     DEF vars, IInv, PassedIsSound, ScopeNarrows, FirstViolation, AllowedAtEnd
<1> QED
  BY <1>1, <1>2, ProtocolKeeps, EdgeKeeps, ActionKeeps, EffectKeeps DEF Next

(* What has been passed has no violation, and the scope carried lies       *)
(* within the root's and within every grant above it.                      *)
THEOREM Invariance == Spec => []IInv
BY InvInit, InvStep, PTL DEF Spec

(* The walk, which stops at the first failed check, and the query over all *)
(* the rows of the case give the same verdict, gate and stage.             *)
THEOREM OracleAgrees == Spec => []FirstViolation
<1>1. IInv => FirstViolation
  BY DEF IInv
<1> QED
  BY Invariance, <1>1, PTL

-----------------------------------------------------------------------------
(* What an allowed case is known to satisfy.                               *)

LEMMA GatesOfOrders ==
  /\ {"edge.lineage", "edge.signature", "edge.parent_delegable", "edge.status",
      "edge.freshness"} \subseteq Gates(EdgeOrder)
  /\ {"action.subject_role", "action.operation", "action.resource", "action.tool",
      "action.audience", "action.purpose", "action.amount_currency"}
        \subseteq Gates(ActionOrder)
  /\ "effect.action_binding" \in Gates(EffectOrder)
<1>1. /\ DOMAIN EdgeOrder = 1..13 /\ EdgeOrder[1] = "edge.lineage"
      /\ EdgeOrder[2] = "edge.signature" /\ EdgeOrder[3] = "edge.parent_delegable"
      /\ EdgeOrder[5] = "edge.status" /\ EdgeOrder[6] = "edge.freshness"
  BY DEF EdgeOrder
<1>2. /\ DOMAIN ActionOrder = 1..7 /\ ActionOrder[1] = "action.subject_role"
      /\ ActionOrder[2] = "action.operation" /\ ActionOrder[3] = "action.resource"
      /\ ActionOrder[4] = "action.tool" /\ ActionOrder[5] = "action.audience"
      /\ ActionOrder[6] = "action.purpose" /\ ActionOrder[7] = "action.amount_currency"
  BY DEF ActionOrder
<1>3. DOMAIN EffectOrder = 1..3 /\ EffectOrder[3] = "effect.action_binding"
  BY DEF EffectOrder
<1>4. {"edge.lineage", "edge.signature", "edge.parent_delegable", "edge.status",
       "edge.freshness"} \subseteq Gates(EdgeOrder)
  BY <1>1 DEF Gates
<1>5. {"action.subject_role", "action.operation", "action.resource", "action.tool",
       "action.audience", "action.purpose", "action.amount_currency"}
         \subseteq Gates(ActionOrder)
  BY <1>2 DEF Gates
<1>6. "effect.action_binding" \in Gates(EffectOrder)
  BY <1>3 DEF Gates
<1> QED
  BY <1>4, <1>5, <1>6

LEMMA AllowedFacts ==
  ASSUME IInv, verdict = "ALLOW"
  PROVE  /\ Hops \in Nat \ {0} /\ index = Hops + 1
         /\ case.protocol_valid
         /\ parent = SqlParent(Hops + 1)
         /\ \A n \in 1..Hops : SqlEdgeFaults(n) = {}
         /\ ActionFaults(case.action, parent) = {}
         /\ EffectFaults(case.receipt, case.action) = {}
<1>1. Hops \in Nat \ {0} /\ index = Hops + 1
  BY HopsType DEF IInv, TypeOK, AllowedAtEnd
<1>2. /\ parent = SqlParent(Hops + 1) /\ case.protocol_valid
      /\ \A n \in Stages : Violated(n) = {}
  BY <1>1 DEF IInv, PassedIsSound, FirstViolation
<1>3. ASSUME NEW n \in 1..Hops PROVE SqlEdgeFaults(n) = {}
  <2>1. n - 1 \in Stages /\ n - 1 < Hops /\ (n - 1) + 1 = n
    BY <1>1 DEF Stages
  <2> QED
    BY <1>2, <2>1, ViolatedAt
<1>4. Hops \in Stages /\ Hops + 1 \in Stages
  BY <1>1 DEF Stages
<1>5. ActionFaults(case.action, parent) = {}
  BY <1>1, <1>2, <1>4, ViolatedAt
<1>6. EffectFaults(case.receipt, case.action) = {}
  BY <1>1, <1>2, <1>4, ViolatedAt
<1> QED
  BY <1>1, <1>2, <1>3, <1>5, <1>6

LEMMA ActionCovered ==
  ASSUME NEW a \in Action, NEW p, p.scope \in Scope, ActionFaults(a, p) = {}
  PROVE  /\ Covers(p.scope, a)
         /\ a.subject = p.principal
<1>1. /\ a.operation \in p.scope.operations /\ a.resource \in p.scope.resources
      /\ a.tool \in p.scope.tools /\ a.audience \in p.scope.audiences
      /\ a.purpose \in p.scope.purposes /\ a.currency = p.scope.currency
      /\ ~ (a.amount > p.scope.amount_max) /\ a.subject = p.principal
  BY GatesOfOrders DEF ActionFaults
<1>2. a.amount \in Nat /\ p.scope.amount_max \in Nat
  BY DEF Action, Scope
<1> QED
  BY <1>1, <1>2 DEF Covers

LEMMA CoversUpward ==
  ASSUME NEW a \in Action, NEW s \in Scope, NEW t \in Scope, Within(s, t), Covers(s, a)
  PROVE  Covers(t, a)
BY DEF Within, Covers, Scope, Action

LEMMA EdgeFacts ==
  ASSUME NEW n \in 1..Hops, SqlEdgeFaults(n) = {}
  PROVE  LET e == case.edges[n]
             p == SqlParent(n)
         IN  /\ e.delegator = p.principal
             /\ e.issuer_signature_valid /\ e.status = "active"
             /\ e.not_before <= EffectTime /\ EffectTime <= e.expires_at
             /\ n > 1 => p.scope.delegable
BY GatesOfOrders DEF SqlEdgeFaults

LEMMA InvWidens == IInv => AuthorityNeverWidens
<1> SUFFICES ASSUME IInv, verdict = "ALLOW"
             PROVE  /\ Covers(base.scope, case.action)
                    /\ \A n \in 1..Hops :
                         LET e == case.edges[n]
                         IN  /\ Covers(e.grant, case.action)
                             /\ e.issuer_signature_valid /\ e.status = "active"
                             /\ e.not_before <= EffectTime /\ EffectTime <= e.expires_at
                             /\ n < Hops => e.grant.delegable
  BY DEF AuthorityNeverWidens
<1>1. /\ Hops \in Nat \ {0} /\ index = Hops + 1
      /\ \A n \in 1..Hops : SqlEdgeFaults(n) = {}
      /\ ActionFaults(case.action, parent) = {}
  BY AllowedFacts
<1>2. /\ case.action \in Action /\ parent.scope \in Scope /\ base.scope \in Scope
      /\ \A n \in 1..Hops : case.edges[n].grant \in Scope
  BY BaseAssumption, HopsType DEF IInv, TypeOK, CaseType, Edge
<1>3. Covers(parent.scope, case.action)
  BY <1>1, <1>2, ActionCovered
<1>4. /\ Within(parent.scope, base.scope)
      /\ \A n \in 1..Hops : Within(parent.scope, case.edges[n].grant)
  BY <1>1 DEF IInv, ScopeNarrows
<1>5. Covers(base.scope, case.action)
  BY <1>2, <1>3, <1>4, CoversUpward
<1>6. ASSUME NEW n \in 1..Hops
      PROVE  Covers(case.edges[n].grant, case.action)
  BY <1>2, <1>3, <1>4, CoversUpward
<1>7. ASSUME NEW n \in 1..Hops, n < Hops
      PROVE  case.edges[n].grant.delegable
  <2>1. n + 1 \in 1..Hops /\ n + 1 > 1
    BY <1>1, <1>7
  <2>2. SqlParent(n + 1).scope = case.edges[n].grant
    BY <2>1 DEF SqlParent
  <2> QED
    BY <1>1, <2>1, <2>2, EdgeFacts
<1> QED
  BY <1>1, <1>5, <1>6, <1>7, EdgeFacts

(* Authority never widens: an allowed action is covered by the root's scope *)
(* and by every grant of the path, each signed, active, fresh and, above    *)
(* the last, delegable.                                                     *)
THEOREM NeverWidens == Spec => []AuthorityNeverWidens
BY Invariance, InvWidens, PTL

LEMMA InvReached == IInv => SubjectIsReached
<1> SUFFICES ASSUME IInv, verdict = "ALLOW" PROVE SubjectIsReached
  BY DEF SubjectIsReached
<1>1. /\ Hops \in Nat \ {0} /\ parent = SqlParent(Hops + 1)
      /\ \A n \in 1..Hops : SqlEdgeFaults(n) = {}
      /\ ActionFaults(case.action, parent) = {}
      /\ EffectFaults(case.receipt, case.action) = {}
  BY AllowedFacts
<1>2. case.action \in Action /\ parent.scope \in Scope
  BY DEF IInv, TypeOK, CaseType
<1>3. case.receipt.action = case.action
  BY <1>1, GatesOfOrders DEF EffectFaults
<1>4. case.edges[1].delegator = base.root_principal
  <2>1. SqlParent(1).principal = base.root_principal
    BY DEF SqlParent, Root
  <2> QED
    BY <1>1, <2>1, EdgeFacts
<1>5. ASSUME NEW n \in 1..Hops-1
      PROVE  case.edges[n + 1].delegator = case.edges[n].delegate
  <2>1. n + 1 \in 1..Hops
    BY <1>1
  <2>2. SqlParent(n + 1).principal = case.edges[n].delegate
    BY <2>1 DEF SqlParent
  <2> QED
    BY <1>1, <2>1, <2>2, EdgeFacts
<1>6. case.action.subject = case.edges[Hops].delegate
  <2>1. parent.principal = case.edges[Hops].delegate
    BY <1>1 DEF SqlParent
  <2> QED
    BY <1>1, <1>2, <2>1, ActionCovered
<1> QED
  BY <1>3, <1>4, <1>5, <1>6 DEF SubjectIsReached

(* An allowed action's subject is reached from the root principal by an    *)
(* unbroken chain of delegations, and the receipt is for that action.      *)
THEOREM SubjectReached == Spec => []SubjectIsReached
BY Invariance, InvReached, PTL

-----------------------------------------------------------------------------
(* The loop walks.                                                         *)

LEMMA InitWalks == TransactionInit => Init
BY DEF TransactionInit

LEMMA StepWalks == [TransactionNext]_allVars => [Next]_vars
BY DEF TransactionNext, allVars, AppraisePolicy, AppraiseEvidence, AppraiseMeasurement,
       WalkAuthority, AppraiseTheState, DeriveSubjects, ComposeRow, Appraise

(* The loop of verify_transactions.py evaluates authority by the walk of   *)
(* evaluate() and by nothing else.                                         *)
THEOREM ComposesTheWalk == TransactionSpec => Spec
BY InitWalks, StepWalks, PTL DEF TransactionSpec, Spec

(* The path invariant holds of the authority layer of every transaction.   *)
THEOREM WalkInvariance == TransactionSpec => []IInv
BY ComposesTheWalk, Invariance, PTL

(* Inside the loop, too, the walk reports the first violation, its         *)
(* authority only narrows and it ends at the subject of the action         *)
(* (verify_transactions.py:124-138, verify_delegation_paths.py:95-179).    *)
THEOREM LoopWalksSoundly ==
  TransactionSpec => [](FirstViolation /\ AuthorityNeverWidens /\ SubjectIsReached)
BY ComposesTheWalk, OracleAgrees, NeverWidens, SubjectReached, PTL

-----------------------------------------------------------------------------
(* Types.                                                                  *)

LEMMA PolicyResult ==
  ASSUME NEW p PROVE EvaluatePolicy(p) \in {"PASS"} \cup DOMAIN PolicyGates
BY DEF EvaluatePolicy, PolicyGates

LEMMA EvidenceResult ==
  ASSUME NEW e PROVE EvaluateEvidence(e) \in {"PASS"} \cup DOMAIN EvidenceGates
BY DEF EvaluateEvidence, EvidenceGates

LEMMA MeasurementResult ==
  ASSUME NEW f PROVE EvaluateMeasurement(f) \in {"PASS"} \cup DOMAIN MeasurementGates
BY DEF EvaluateMeasurement, MeasurementGates

LEMMA StateResult ==
  ASSUME NEW a PROVE AppraiseState(a) \in {"PASS"} \cup DOMAIN StateGates
BY DEF AppraiseState, StateGates

LEMMA BindingResult ==
  ASSUME NEW s PROVE Bind(s) \in {"PASS"} \cup DOMAIN BindingGates
BY DEF Bind, BindingGates

(* The gates of a layer are composed gates. *)
LEMMA GatesAreComposed ==
  ASSUME NEW gates \in {PolicyGates, EvidenceGates, StateGates, MeasurementGates, BindingGates},
         NEW r \in DOMAIN gates
  PROVE  gates[r] \in ComposedGates
BY DEF ComposedGates

LEMMA GateIsComposed ==
  ASSUME NEW r, NEW g \in ComposedGates, NEW s,
         r.policy \in {"PASS"} \cup DOMAIN PolicyGates,
         r.evidence \in {"PASS"} \cup DOMAIN EvidenceGates,
         r.state \in {"PASS"} \cup DOMAIN StateGates,
         r.measurement \in {"PASS"} \cup DOMAIN MeasurementGates
  PROVE  FirstGate(r, g, Bind(s)) \in ComposedGates
<1>1. "verified" \in ComposedGates
  BY DEF ComposedGates, AllGates
<1>2. /\ r.policy # "PASS" => PolicyGates[r.policy] \in ComposedGates
      /\ r.evidence # "PASS" => EvidenceGates[r.evidence] \in ComposedGates
      /\ r.state # "PASS" => StateGates[r.state] \in ComposedGates
      /\ r.measurement # "PASS" => MeasurementGates[r.measurement] \in ComposedGates
  BY GatesAreComposed
<1>3. Bind(s) # "PASS" => BindingGates[Bind(s)] \in ComposedGates
  BY BindingResult, GatesAreComposed
<1> QED
  BY <1>1, <1>2, <1>3 DEF FirstGate

(* What is known of the layer results once all have been evaluated. *)
LEMMA LayersSettled ==
  ASSUME TransactionInv, at \in {"compose", "saved"}
  PROVE  /\ Layers.policy = EvaluatePolicy(tx.policy)
         /\ Layers.evidence = EvaluateEvidence(tx.evidence)
         /\ Layers.state = AppraiseState(tx.attestation)
         /\ Layers.authority = verdict
         /\ Layers.measurement = EvaluateMeasurement(tx.fixture)
         /\ results.point_only = PointOnly(tx.fixture)
         /\ verdict \in {"ALLOW", "DENY"}
         /\ subjects = SubjectsOf(tx)
BY DEF TransactionInv, Settled, Layers, TransactionTypeOK, TypeOK

LEMMA RowGateType ==
  ASSUME TransactionInv, at \in {"compose", "saved"}
  PROVE  FirstGate(Layers, gate, Bind(subjects)) \in ComposedGates
<1>1. gate \in ComposedGates
  BY DEF TransactionInv, TransactionTypeOK, TypeOK, ComposedGates
<1>2. /\ Layers.policy \in {"PASS"} \cup DOMAIN PolicyGates
      /\ Layers.evidence \in {"PASS"} \cup DOMAIN EvidenceGates
      /\ Layers.state \in {"PASS"} \cup DOMAIN StateGates
      /\ Layers.measurement \in {"PASS"} \cup DOMAIN MeasurementGates
  BY LayersSettled, PolicyResult, EvidenceResult, StateResult, MeasurementResult
<1> QED
  BY <1>1, <1>2, GateIsComposed

-----------------------------------------------------------------------------
(* The invariant of the loop.                                              *)

LEMMA WalkKeepsCase == Next => UNCHANGED case
BY DEF Next, CheckProtocol, CheckEdge, CheckAction, CheckEffect, DenyFirst, Deny

LEMMA TransactionInvInit == TransactionInit => TransactionInv
<1> SUFFICES ASSUME TransactionInit PROVE TransactionInv
  OBVIOUS
<1>1. TypeOK
  BY InitWalks, TypeInit
<1>2. tx \in TransactionType /\ case = tx.authority_case
  BY TransactionsAssumption DEF TransactionInit
<1>3. results \in
        [policy : Results(PolicyGates), evidence : Results(EvidenceGates),
         state : Results(StateGates), measurement : Results(MeasurementGates),
         point_only : {"none", "PASS", "FAIL_POINT"}]
  BY DEF TransactionInit, NotYet, Results
<1> QED
  BY <1>1, <1>2, <1>3 DEF TransactionInit, TransactionInv, TransactionTypeOK, Settled

(* A step that keeps the walk and the artefacts keeps their types. *)
LEMMA TypesKept ==
  ASSUME TransactionTypeOK, UNCHANGED <<vars, tx>>
  PROVE  TypeOK' /\ tx' \in TransactionType /\ case' = tx'.authority_case
<1>1. TypeOK'
  BY TypeStep DEF TransactionTypeOK
<1> QED
  BY <1>1 DEF TransactionTypeOK, vars

LEMMA TransactionInvStep == TransactionInv /\ [TransactionNext]_allVars => TransactionInv'
<1> SUFFICES ASSUME TransactionInv, [TransactionNext]_allVars PROVE TransactionInv'
  OBVIOUS
<1> USE DEF TransactionInv
<1>1. CASE AppraisePolicy
  <2>1. /\ at = "policy" /\ at' = "evidence" /\ UNCHANGED <<vars, tx, subjects, row>>
        /\ results' = [results EXCEPT !.policy = EvaluatePolicy(tx.policy)]
    BY <1>1 DEF AppraisePolicy, Appraise
  <2>2. EvaluatePolicy(tx.policy) \in Results(PolicyGates)
    BY PolicyResult DEF Results
  <2>3. TransactionTypeOK'
    BY <2>1, <2>2, TypesKept DEF TransactionTypeOK
  <2> QED
    BY <2>1, <2>3 DEF TransactionTypeOK, Settled
<1>2. CASE AppraiseEvidence
  <2>1. /\ at = "evidence" /\ at' = "measurement" /\ UNCHANGED <<vars, tx, subjects, row>>
        /\ results' = [results EXCEPT !.evidence = EvaluateEvidence(tx.evidence)]
    BY <1>2 DEF AppraiseEvidence, Appraise
  <2>2. EvaluateEvidence(tx.evidence) \in Results(EvidenceGates)
    BY EvidenceResult DEF Results
  <2>3. TransactionTypeOK'
    BY <2>1, <2>2, TypesKept DEF TransactionTypeOK
  <2> QED
    BY <2>1, <2>3 DEF TransactionTypeOK, Settled
<1>3. CASE AppraiseMeasurement
  <2>1. /\ at = "measurement" /\ at' = "authority" /\ UNCHANGED <<vars, tx, subjects, row>>
        /\ results' = [results EXCEPT !.measurement = EvaluateMeasurement(tx.fixture),
                                      !.point_only = PointOnly(tx.fixture)]
    BY <1>3 DEF AppraiseMeasurement, Appraise
  <2>2. /\ EvaluateMeasurement(tx.fixture) \in Results(MeasurementGates)
        /\ PointOnly(tx.fixture) \in {"none", "PASS", "FAIL_POINT"}
    BY MeasurementResult DEF Results, PointOnly
  <2>3. TransactionTypeOK'
    BY <2>1, <2>2, TypesKept DEF TransactionTypeOK
  <2> QED
    BY <2>1, <2>3 DEF TransactionTypeOK, Settled
<1>4. CASE WalkAuthority
  <2>1. at = "authority" /\ Next /\ UNCHANGED <<tx, at, results, subjects, row>>
    BY <1>4 DEF WalkAuthority, transactionVars
  <2>2. TypeOK' /\ UNCHANGED case
    BY <2>1, TypeStep, WalkKeepsCase DEF TransactionTypeOK
  <2> QED
    BY <2>1, <2>2 DEF TransactionTypeOK, Settled
<1>5. CASE AppraiseTheState
  <2>1. /\ at = "authority" /\ at' = "subjects" /\ UNCHANGED <<vars, tx, subjects, row>>
        /\ verdict # "none"
        /\ results' = [results EXCEPT !.state = AppraiseState(tx.attestation)]
    BY <1>5 DEF AppraiseTheState, Appraise
  <2>2. AppraiseState(tx.attestation) \in Results(StateGates)
    BY StateResult DEF Results
  <2>3. TransactionTypeOK'
    BY <2>1, <2>2, TypesKept DEF TransactionTypeOK
  <2>4. verdict' # "none"
    BY <2>1 DEF vars
  <2> QED
    BY <2>1, <2>3, <2>4 DEF TransactionTypeOK, Settled
<1>6. CASE DeriveSubjects
  <2>1. /\ at = "subjects" /\ at' = "compose" /\ subjects' = SubjectsOf(tx)
        /\ UNCHANGED <<vars, tx, results, row>>
    BY <1>6 DEF DeriveSubjects
  <2>2. TransactionTypeOK'
    BY <2>1, TypesKept DEF TransactionTypeOK
  <2>3. verdict' = verdict
    BY <2>1 DEF vars
  <2> QED
    BY <2>1, <2>2, <2>3 DEF Settled
<1>7. CASE ComposeRow
  <2>1. /\ at = "compose" /\ at' = "saved" /\ row' = Compose(Layers, gate, subjects)
        /\ UNCHANGED <<vars, tx, results, subjects>>
    BY <1>7 DEF ComposeRow
  <2>2. row'.first_rejecting_gate \in ComposedGates
    BY <2>1, RowGateType DEF Compose
  <2>3. TransactionTypeOK'
    BY <2>1, <2>2, TypesKept DEF TransactionTypeOK
  <2>4. verdict' = verdict /\ gate' = gate /\ case' = case
    BY <2>1 DEF vars
  <2>5. Compose(Layers, gate, subjects)' = Compose(Layers, gate, subjects)
    BY <2>1, <2>4 DEF Compose, Layers, Baselines, ArtifactValidity, PointOnlyMeasurement
  <2> QED
    BY <2>1, <2>3, <2>4, <2>5 DEF Settled
<1>8. CASE UNCHANGED allVars
  <2>1. UNCHANGED <<vars, tx, at, results, subjects, row, verdict, gate, case>>
    BY <1>8 DEF allVars, transactionVars, vars
  <2>2. TransactionTypeOK'
    BY <2>1, TypesKept DEF TransactionTypeOK
  <2>3. Compose(Layers, gate, subjects)' = Compose(Layers, gate, subjects)
    BY <2>1 DEF Compose, Layers, Baselines, ArtifactValidity, PointOnlyMeasurement
  <2> QED
    BY <2>1, <2>2, <2>3 DEF Settled
<1> QED
  BY <1>1, <1>2, <1>3, <1>4, <1>5, <1>6, <1>7, <1>8 DEF TransactionNext

(* What has been evaluated is what the artefacts say, and the saved row is *)
(* composed of it.                                                         *)
THEOREM TransactionInvariance == TransactionSpec => []TransactionInv
BY TransactionInvInit, TransactionInvStep, PTL DEF TransactionSpec

(* Every result is one its layer's gate map knows, so compose() always     *)
(* finds the gate of a denial.                                             *)
THEOREM TransactionTypeCorrect == TransactionSpec => []TransactionTypeOK
<1>1. TransactionInv => TransactionTypeOK
  BY DEF TransactionInv
<1> QED
  BY TransactionInvariance, <1>1, PTL

-----------------------------------------------------------------------------
(* The window of the path.                                                 *)

(* A set of naturals has a least element, m: what lies below all of the    *)
(* set is an interval, since it has no more elements than its largest one  *)
(* plus one, and m is where it ends.                                       *)
LEMMA LeastExists ==
  ASSUME NEW S \in SUBSET Nat, S # {}
  PROVE  \E m \in S : \A n \in S : m <= n
<1> DEFINE T == {t \in Nat : \A n \in S : t <= n}
           k == Cardinality(T)
<1>1. PICK s \in S : TRUE
  OBVIOUS
<1>2. IsFiniteSet(T) /\ k \in Nat
  BY <1>1, FS_BoundedSetOfNaturals, FS_CardinalityType
<1>3. ASSUME NEW t \in T PROVE t < k
  <2>1. 0..t \subseteq T
    OBVIOUS
  <2>2. Cardinality(0..t) = t + 1
    BY FS_Interval
  <2>3. Cardinality(0..t) <= k
    BY <1>2, <2>1, FS_Subset
  <2> QED
    BY <1>2, <2>2, <2>3
<1>4. 0 \in T /\ k > 0
  <2>1. 0 \in T
    OBVIOUS
  <2> QED
    BY <1>2, <1>3, <2>1
<1> HIDE DEF T, k
<1>5. T = 0..k-1
  <2>1. T \subseteq 0..k-1
    BY <1>2, <1>3 DEF T
  <2>2. IsFiniteSet(0..k-1) /\ Cardinality(0..k-1) = k
    <3>1. 0 \in Int /\ k - 1 \in Int /\ ~ (0 > k - 1) /\ (k - 1) - 0 + 1 = k
      BY <1>2, <1>4
    <3> QED
      BY <3>1, FS_Interval
  <2> QED
    BY <1>2, <2>1, <2>2, FS_Subset DEF k
<1>6. k - 1 \in T /\ k \notin T
  BY <1>2, <1>4, <1>5
<1>7. PICK n \in S : n < k
  BY <1>2, <1>6 DEF T
<1>8. \A m \in S : k - 1 <= m
  BY <1>6 DEF T
<1>9. n = k - 1
  BY <1>2, <1>7, <1>8
<1> QED
  BY <1>8, <1>9

(* Of finitely many times one is the last; the first is found likewise. *)
LEMMA LargestExists ==
  ASSUME NEW h \in Nat \ {0}, NEW t \in [1..h -> Nat]
  PROVE  \E m \in 1..h : \A n \in 1..h : t[n] <= t[m]
<1> DEFINE Has(k) == \E m \in 1..k : \A n \in 1..k : t[n] <= t[m]
           Bad == {k \in 1..h : ~ Has(k)}
<1>1. Bad \in SUBSET Nat /\ h \in 1..h
  OBVIOUS
<1>2. Has(1)
  OBVIOUS
<1>3. ASSUME NEW k \in 1..h, k - 1 \in 1..h, Has(k - 1)
      PROVE  Has(k)
  <2>1. PICK m \in 1..k-1 : \A n \in 1..k-1 : t[n] <= t[m]
    BY <1>3
  <2>2. /\ m \in 1..k /\ k \in 1..k /\ t[k] \in Nat /\ t[m] \in Nat
        /\ \A n \in 1..k : n = k \/ n \in 1..k-1
        /\ \A n \in 1..k : t[n] \in Nat
    BY <1>3, <2>1
  <2>3. CASE t[k] <= t[m]
    <3>1. \A n \in 1..k : t[n] <= t[m]
      BY <2>1, <2>2, <2>3
    <3> QED
      BY <2>2, <3>1
  <2>4. CASE t[m] < t[k]
    <3>1. \A n \in 1..k : t[n] <= t[k]
      BY <2>1, <2>2, <2>4
    <3> QED
      BY <2>2, <3>1
  <2> QED
    BY <2>2, <2>3, <2>4
<1>4. Bad = {}
  <2> SUFFICES ASSUME Bad # {} PROVE FALSE
    OBVIOUS
  <2> HIDE DEF Bad
  <2>1. PICK k \in Bad : \A n \in Bad : k <= n
    BY <1>1, LeastExists
  <2>2. k \in 1..h /\ ~ Has(k)
    BY <2>1 DEF Bad
  <2> HIDE DEF Has
  <2>3. k - 1 \in 1..h /\ k - 1 \notin Bad
    BY <1>2, <2>1, <2>2
  <2> QED
    BY <1>3, <2>2, <2>3 DEF Bad
<1>5. Has(h)
  <2> HIDE DEF Has
  <2> QED
    BY <1>1, <1>4
<1> QED
  BY <1>5

LEMMA SmallestExists ==
  ASSUME NEW h \in Nat \ {0}, NEW t \in [1..h -> Nat]
  PROVE  \E m \in 1..h : \A n \in 1..h : t[m] <= t[n]
<1> DEFINE S == {t[n] : n \in 1..h}
<1>1. S \in SUBSET Nat /\ S # {}
  <2>1. t[1] \in S
    OBVIOUS
  <2> QED
    BY <2>1
<1>2. PICK u \in S : \A v \in S : u <= v
  <2> HIDE DEF S
  <2> QED
    BY <1>1, LeastExists
<1>3. PICK m \in 1..h : u = t[m]
  BY <1>2
<1>4. \A n \in 1..h : t[m] <= t[n]
  BY <1>2, <1>3
<1> QED
  BY <1>4

(* The authorised window is the intersection of the windows of the edges. *)
LEMMA WindowIsIntersection ==
  ASSUME case \in CaseType, NEW p
  PROVE  LET a == CanonicalAction(p, case)
         IN  /\ a.authorised_from \in Nat /\ a.authorised_until \in Nat
             /\ \A n \in 1..Hops : case.edges[n].not_before <= a.authorised_from
             /\ \A n \in 1..Hops : a.authorised_until <= case.edges[n].expires_at
<1> DEFINE edges == {case.edges[n] : n \in 1..Len(case.edges)}
           starts == {e.not_before : e \in edges}
           ends == {e.expires_at : e \in edges}
           start == [n \in 1..Hops |-> case.edges[n].not_before]
           end == [n \in 1..Hops |-> case.edges[n].expires_at]
<1>1. /\ Hops \in Nat \ {0} /\ Hops = Len(case.edges)
      /\ \A n \in 1..Hops : case.edges[n] \in Edge
  BY HopsType DEF Hops
<1>2. start \in [1..Hops -> Nat] /\ end \in [1..Hops -> Nat]
  BY <1>1 DEF Edge
<1>3. starts = {start[n] : n \in 1..Hops} /\ ends = {end[n] : n \in 1..Hops}
  BY <1>1 DEF start, end
<1>4. /\ CanonicalAction(p, case).authorised_from = Largest(starts)
      /\ CanonicalAction(p, case).authorised_until = Smallest(ends)
  BY DEF CanonicalAction
<1> HIDE DEF start, end, starts, ends
<1>5. \E t \in starts : \A u \in starts : u <= t
  <2>1. PICK m \in 1..Hops : \A n \in 1..Hops : start[n] <= start[m]
    BY <1>1, <1>2, LargestExists
  <2> QED
    BY <1>3, <2>1
<1>6. \E t \in ends : \A u \in ends : t <= u
  <2>1. PICK m \in 1..Hops : \A n \in 1..Hops : end[m] <= end[n]
    BY <1>1, <1>2, SmallestExists
  <2> QED
    BY <1>3, <2>1
<1>7. Largest(starts) \in starts /\ \A u \in starts : u <= Largest(starts)
  BY <1>5 DEF Largest
<1>8. Smallest(ends) \in ends /\ \A u \in ends : Smallest(ends) <= u
  BY <1>6 DEF Smallest
<1>9. Largest(starts) \in Nat /\ Smallest(ends) \in Nat
  BY <1>2, <1>3, <1>7, <1>8
<1>10. \A n \in 1..Hops : case.edges[n].not_before \in starts
  BY <1>1 DEF starts
<1>11. \A n \in 1..Hops : case.edges[n].expires_at \in ends
  BY <1>1 DEF ends
<1> QED
  BY <1>4, <1>7, <1>8, <1>9, <1>10, <1>11

-----------------------------------------------------------------------------
(* Joint authorisation.                                                    *)

LEMMA Layered == LayerNames = {"policy", "evidence", "state", "authority", "measurement"}
<1>1. /\ DOMAIN EvaluationOrder = 1..5 /\ EvaluationOrder[1] = "policy"
      /\ EvaluationOrder[2] = "evidence" /\ EvaluationOrder[3] = "state"
      /\ EvaluationOrder[4] = "authority" /\ EvaluationOrder[5] = "measurement"
  BY DEF EvaluationOrder
<1> QED
  BY <1>1 DEF LayerNames

LEMMA Failing ==
  ASSUME NEW r
  PROVE  /\ FailedLayers(r) \subseteq LayerNames
         /\ "policy" \in FailedLayers(r) <=> r.policy # "PASS"
         /\ "evidence" \in FailedLayers(r) <=> r.evidence # "PASS"
         /\ "state" \in FailedLayers(r) <=> r.state # "PASS"
         /\ "authority" \in FailedLayers(r) <=> r.authority # "ALLOW"
         /\ "measurement" \in FailedLayers(r) <=> r.measurement # "PASS"
         /\ FailedLayers(r) = {} <=>
              /\ r.policy = "PASS" /\ r.evidence = "PASS" /\ r.state = "PASS"
              /\ r.authority = "ALLOW" /\ r.measurement = "PASS"
BY Layered DEF FailedLayers, LayerPasses

(* The fields of the saved row. *)
LEMMA RowSettled ==
  ASSUME TransactionInv, at = "saved"
  PROVE  /\ row.verdict = Verdict(FailedLayers(Layers) = {} /\ Bind(subjects) = "PASS")
         /\ row.first_rejecting_gate = FirstGate(Layers, gate, Bind(subjects))
         /\ row.failed_layers = FailedLayers(Layers)
         /\ row.binding_result = Bind(subjects)
         /\ row.baselines = Baselines(Layers, subjects)
BY DEF TransactionInv, Settled, Compose

LEMMA AllowedRow ==
  ASSUME TransactionInv, at = "saved", row.verdict = "ALLOW"
  PROVE  /\ EvaluatePolicy(tx.policy) = "PASS"
         /\ EvaluateEvidence(tx.evidence) = "PASS"
         /\ AppraiseState(tx.attestation) = "PASS"
         /\ EvaluateMeasurement(tx.fixture) = "PASS"
         /\ verdict = "ALLOW"
         /\ Bind(subjects) = "PASS"
<1>1. FailedLayers(Layers) = {} /\ Bind(subjects) = "PASS"
  BY RowSettled DEF Verdict
<1> QED
  BY <1>1, Failing, LayersSettled

(* A passed binding, field by field. *)
LEMMA Bound ==
  ASSUME NEW s, Bind(s) = "PASS"
  PROVE  ~ IsMissing(s) /\ EffectMatches(s) /\ ResourceMatches(s)
           /\ WithinWindow(s) /\ ProfileMatches(s)
BY DEF Bind

LEMMA InvAuthorised == IInv /\ TransactionInv => JointlyAuthorised
<1> SUFFICES ASSUME IInv, TransactionInv, at = "saved", row.verdict = "ALLOW"
             PROVE  JointlyAuthorised
  BY DEF JointlyAuthorised
<1> DEFINE e == tx.evidence
           a == CanonicalAction(tx.policy, case)
<1>1. /\ EvaluatePolicy(tx.policy) = "PASS" /\ EvaluateEvidence(e) = "PASS"
      /\ verdict = "ALLOW" /\ Bind(subjects) = "PASS"
  BY AllowedRow
<1>2. tx.policy # None /\ tx.policy.body = Anchor
  BY <1>1 DEF EvaluatePolicy
<1>3. e.signature_valid /\ e.nonce \notin PreseenNonces
  BY <1>1 DEF EvaluateEvidence
<1>4. /\ case \in CaseType /\ case = tx.authority_case /\ tx \in TransactionType
      /\ subjects.canonical = a
      /\ subjects.observed = ObservedEffect(e, tx.fixture)
  BY LayersSettled DEF TransactionInv, TransactionTypeOK, TypeOK, SubjectsOf
<1>5. /\ a.effect = Anchor.required_effect /\ a.resource = case.action.resource
      /\ a.granted_tools = TerminalGrant(case).tools
      /\ a.granted_resources = TerminalGrant(case).resources
      /\ a.measurement_profile = Anchor.required_measurement_profile
  BY <1>2 DEF CanonicalAction
<1>6. /\ subjects.observed.effect = e.effect /\ subjects.observed.resource = e.resource
      /\ subjects.observed.issued_at = e.issued_at
      /\ subjects.observed.measurement_profile = tx.fixture.profile_id
  BY <1>4 DEF ObservedEffect
<1>7. /\ e.effect = Anchor.required_effect /\ e.effect \in TerminalGrant(case).tools
      /\ e.resource = case.action.resource /\ e.resource \in TerminalGrant(case).resources
      /\ a.authorised_from <= e.issued_at /\ e.issued_at <= a.authorised_until
      /\ tx.fixture.profile_id = Anchor.required_measurement_profile
      /\ e.issued_at # None
  BY <1>1, <1>4, <1>5, <1>6, Bound
     DEF EffectMatches, ResourceMatches, WithinWindow, ProfileMatches, IsMissing
<1>8. /\ Hops \in Nat \ {0} /\ index = Hops + 1
      /\ parent = SqlParent(Hops + 1)
  BY <1>1, AllowedFacts
<1>9. parent.scope = TerminalGrant(case)
  BY <1>8 DEF SqlParent, TerminalGrant, Hops
<1>10. /\ Within(parent.scope, base.scope)
       /\ \A n \in 1..Hops : Within(parent.scope, case.edges[n].grant)
  BY <1>8 DEF IInv, ScopeNarrows
<1>11. e.issued_at \in Nat
  BY <1>4, <1>7 DEF TransactionType, Evidence, Optional
<1>12. ASSUME NEW n \in 1..Hops
       PROVE  LET edge == case.edges[n]
              IN  /\ e.effect \in edge.grant.tools
                  /\ e.resource \in edge.grant.resources
                  /\ edge.not_before <= e.issued_at /\ e.issued_at <= edge.expires_at
  <2>1. e.effect \in case.edges[n].grant.tools /\ e.resource \in case.edges[n].grant.resources
    BY <1>7, <1>9, <1>10 DEF Within
  <2>2. /\ case.edges[n].not_before <= a.authorised_from
        /\ a.authorised_until <= case.edges[n].expires_at
        /\ a.authorised_from \in Nat /\ a.authorised_until \in Nat
    BY <1>4, WindowIsIntersection
  <2>3. case.edges[n].not_before \in Nat /\ case.edges[n].expires_at \in Nat
    BY <1>4, HopsType DEF Edge
  <2> HIDE DEF a
  <2>4. /\ case.edges[n].not_before <= e.issued_at
        /\ e.issued_at <= case.edges[n].expires_at
    BY <1>7, <1>11, <2>2, <2>3
  <2> QED
    BY <2>1, <2>4
<1>13. e.effect \in base.scope.tools
  BY <1>7, <1>9, <1>10 DEF Within
<1> QED
  BY <1>2, <1>3, <1>7, <1>12, <1>13 DEF JointlyAuthorised

(* An allowed transaction is authorised by all its artefacts together: the *)
(* effect is the anchored policy's, every edge grants it and was valid     *)
(* when it was issued.                                                     *)
THEOREM JointAuthority == TransactionSpec => []JointlyAuthorised
BY WalkInvariance, TransactionInvariance, InvAuthorised, PTL

-----------------------------------------------------------------------------
(* The SQL twin.                                                           *)

(* Each WHEN of the binding is the negation of a condition of bind(); that *)
(* of the window only where nothing is missing.                            *)
LEMMA WhenAgrees ==
  ASSUME TransactionInv, at = "saved"
  PROVE  /\ SqlWhen("UNDETERMINED", subjects) <=> IsMissing(subjects)
         /\ SqlWhen("EFFECT_MISMATCH", subjects) <=> ~ EffectMatches(subjects)
         /\ SqlWhen("RESOURCE_MISMATCH", subjects) <=> ~ ResourceMatches(subjects)
         /\ ~ IsMissing(subjects) =>
              (SqlWhen("TIME_MISMATCH", subjects) <=> ~ WithinWindow(subjects))
         /\ SqlWhen("PROFILE_MISMATCH", subjects) <=> ~ ProfileMatches(subjects)
<1> DEFINE c == subjects.canonical
           o == subjects.observed
<1>1. /\ case \in CaseType /\ tx \in TransactionType /\ case = tx.authority_case
      /\ c = CanonicalAction(tx.policy, case) /\ o = ObservedEffect(tx.evidence, tx.fixture)
  BY LayersSettled DEF TransactionInv, TransactionTypeOK, TypeOK, SubjectsOf
<1>2. c.resource \in Items /\ c.operation \in Items
  BY <1>1 DEF CanonicalAction, CaseType, Action
<1>3. c.authorised_from \in Nat /\ c.authorised_until \in Nat
  BY <1>1, WindowIsIntersection
<1>4. o.issued_at \in Nat \cup {None}
  BY <1>1 DEF ObservedEffect, TransactionType, Evidence, Optional
<1>5. None \notin {c.resource, c.operation, c.authorised_from, c.authorised_until}
  BY <1>2, <1>3, NoneAssumption
<1> HIDE DEF c, o
<1>6. SqlWhen("UNDETERMINED", subjects) <=> IsMissing(subjects)
  BY <1>5 DEF SqlWhen, IsMissing, c, o
<1>7. /\ SqlWhen("EFFECT_MISMATCH", subjects) <=> ~ EffectMatches(subjects)
      /\ SqlWhen("RESOURCE_MISMATCH", subjects) <=> ~ ResourceMatches(subjects)
      /\ SqlWhen("PROFILE_MISMATCH", subjects) <=> ~ ProfileMatches(subjects)
  BY DEF SqlWhen, EffectMatches, ResourceMatches, ProfileMatches
<1>8. ASSUME ~ IsMissing(subjects)
      PROVE  SqlWhen("TIME_MISMATCH", subjects) <=> ~ WithinWindow(subjects)
  <2>1. o.issued_at \in Nat
    BY <1>4, <1>8 DEF IsMissing, o
  <2>2. SqlWhen("TIME_MISMATCH", subjects) <=>
          o.issued_at < c.authorised_from \/ o.issued_at > c.authorised_until
    BY DEF SqlWhen, c, o
  <2>3. WithinWindow(subjects) <=>
          c.authorised_from <= o.issued_at /\ o.issued_at <= c.authorised_until
    BY <1>8 DEF WithinWindow, c, o
  <2> QED
    BY <1>3, <2>1, <2>2, <2>3
<1> QED
  BY <1>6, <1>7, <1>8

(* The query's binding is the first WHEN that holds. *)
LEMMA SqlBindingUnrolled ==
  ASSUME NEW s, NEW b
  PROVE  SqlBinding(b, s) <=>
           b = IF SqlWhen("UNDETERMINED", s) THEN "UNDETERMINED"
               ELSE IF SqlWhen("EFFECT_MISMATCH", s) THEN "EFFECT_MISMATCH"
               ELSE IF SqlWhen("RESOURCE_MISMATCH", s) THEN "RESOURCE_MISMATCH"
               ELSE IF SqlWhen("TIME_MISMATCH", s) THEN "TIME_MISMATCH"
               ELSE IF SqlWhen("PROFILE_MISMATCH", s) THEN "PROFILE_MISMATCH"
               ELSE "PASS"
<1>1. /\ DOMAIN SqlBindingOrder = 1..5
      /\ SqlBindingOrder[1] = "UNDETERMINED" /\ SqlBindingOrder[2] = "EFFECT_MISMATCH"
      /\ SqlBindingOrder[3] = "RESOURCE_MISMATCH" /\ SqlBindingOrder[4] = "TIME_MISMATCH"
      /\ SqlBindingOrder[5] = "PROFILE_MISMATCH"
  BY DEF SqlBindingOrder
<1>2. /\ 1..5 = {1, 2, 3, 4, 5} /\ 1..1-1 = {} /\ 1..2-1 = {1} /\ 1..3-1 = {1, 2}
      /\ 1..4-1 = {1, 2, 3} /\ 1..5-1 = {1, 2, 3, 4}
  OBVIOUS
<1> QED
  BY <1>1, <1>2 DEF SqlBinding

LEMMA BindingAgrees ==
  ASSUME TransactionInv, at = "saved", NEW b
  PROVE  SqlBinding(b, subjects) <=> b = Bind(subjects)
BY WhenAgrees, SqlBindingUnrolled DEF Bind

LEMMA VerdictAgrees ==
  ASSUME TransactionInv, at = "saved"
  PROVE  row.verdict = SqlVerdict(Columns(row.binding_result))
<1> DEFINE columns == Columns(row.binding_result)
<1>1. /\ DOMAIN columns =
           {"policy", "evidence", "state", "authority", "measurement", "binding"}
      /\ columns.policy = Layers.policy /\ columns.evidence = Layers.evidence
      /\ columns.state = Layers.state /\ columns.authority = Layers.authority
      /\ columns.measurement = Layers.measurement /\ columns.binding = Bind(subjects)
  BY RowSettled DEF Columns, Layers
<1> HIDE DEF columns
<1>2. (\A c \in DOMAIN columns : columns[c] = (IF c = "authority" THEN "ALLOW" ELSE "PASS"))
        <=> FailedLayers(Layers) = {} /\ Bind(subjects) = "PASS"
  BY <1>1, Failing
<1>3. row.verdict = Verdict(FailedLayers(Layers) = {} /\ Bind(subjects) = "PASS")
  BY RowSettled
<1> QED
  BY <1>2, <1>3 DEF SqlVerdict, Verdict, columns

(* Which line of the ladder fires. *)
LEMMA LadderFires ==
  ASSUME NEW g, NEW c
  PROVE  LET ladder == SqlLadder(g)
         IN  /\ DOMAIN ladder = 1..18
             /\ SqlFires(ladder[1], c) <=> c.policy = "MISSING"
             /\ SqlFires(ladder[2], c) <=> c.policy = "STALE"
             /\ SqlFires(ladder[3], c) <=> c.policy = "SUBSTITUTED"
             /\ SqlFires(ladder[4], c) <=> c.policy = "INVALID_SIGNATURE"
             /\ SqlFires(ladder[5], c) <=> c.evidence = "TAMPERED"
             /\ SqlFires(ladder[6], c) <=> c.evidence = "REPLAY"
             /\ SqlFires(ladder[7], c) <=> c.state = "CONTRAINDICATED"
             /\ SqlFires(ladder[8], c) <=> c.state = "STALE"
             /\ SqlFires(ladder[9], c) <=> c.state = "REFERENCE_MISMATCH"
             /\ SqlFires(ladder[10], c) <=> c.authority # "ALLOW"
             /\ SqlFires(ladder[11], c) <=> c.measurement = "FAIL_POINT"
             /\ SqlFires(ladder[12], c) <=> c.measurement = "FAIL_LCB"
             /\ SqlFires(ladder[13], c) <=> c.measurement = "PROFILE_MISMATCH"
             /\ SqlFires(ladder[14], c) <=> c.binding = "EFFECT_MISMATCH"
             /\ SqlFires(ladder[15], c) <=> c.binding = "RESOURCE_MISMATCH"
             /\ SqlFires(ladder[16], c) <=> c.binding = "TIME_MISMATCH"
             /\ SqlFires(ladder[17], c) <=> c.binding = "PROFILE_MISMATCH"
             /\ SqlFires(ladder[18], c) <=> c.binding = "UNDETERMINED"
BY DEF SqlLadder, SqlFires

LEMMA LadderGates ==
  ASSUME NEW g
  PROVE  LET ladder == SqlLadder(g)
         IN  /\ ladder[1][3] = PolicyGates["MISSING"] /\ ladder[2][3] = PolicyGates["STALE"]
             /\ ladder[3][3] = PolicyGates["SUBSTITUTED"]
             /\ ladder[4][3] = PolicyGates["INVALID_SIGNATURE"]
             /\ ladder[5][3] = EvidenceGates["TAMPERED"]
             /\ ladder[6][3] = EvidenceGates["REPLAY"]
             /\ ladder[7][3] = StateGates["CONTRAINDICATED"]
             /\ ladder[8][3] = StateGates["STALE"]
             /\ ladder[9][3] = StateGates["REFERENCE_MISMATCH"]
             /\ ladder[10][3] = g
             /\ ladder[11][3] = MeasurementGates["FAIL_POINT"]
             /\ ladder[12][3] = MeasurementGates["FAIL_LCB"]
             /\ ladder[13][3] = MeasurementGates["PROFILE_MISMATCH"]
             /\ ladder[14][3] = BindingGates["EFFECT_MISMATCH"]
             /\ ladder[15][3] = BindingGates["RESOURCE_MISMATCH"]
             /\ ladder[16][3] = BindingGates["TIME_MISMATCH"]
             /\ ladder[17][3] = BindingGates["PROFILE_MISMATCH"]
             /\ ladder[18][3] = BindingGates["UNDETERMINED"]
BY DEF SqlLadder, PolicyGates, EvidenceGates, StateGates, MeasurementGates, BindingGates

(* The first line that fires gives the gate, and no other gate is given. *)
LEMMA FirstLine ==
  ASSUME NEW g, NEW c, NEW k \in 1..18, SqlFires(SqlLadder(g)[k], c),
         \A m \in 1..k-1 : ~ SqlFires(SqlLadder(g)[m], c), NEW h
  PROVE  SqlGate(h, g, c) <=> h = SqlLadder(g)[k][3]
<1>1. DOMAIN SqlLadder(g) = 1..18
  BY LadderFires
<1>2. ASSUME NEW j \in 1..18, SqlFires(SqlLadder(g)[j], c),
             \A m \in 1..j-1 : ~ SqlFires(SqlLadder(g)[m], c)
      PROVE  j = k
  <2>1. CASE j < k
    BY <1>2, <2>1
  <2>2. CASE k < j
    BY <2>2, <1>2
  <2> QED
    BY <2>1, <2>2
<1> QED
  BY <1>1, <1>2 DEF SqlGate

LEMMA NoLine ==
  ASSUME NEW g, NEW c, \A k \in 1..18 : ~ SqlFires(SqlLadder(g)[k], c), NEW h
  PROVE  SqlGate(h, g, c) <=> h = "verified"
BY LadderFires DEF SqlGate

(* The ladder and first_gate() give one gate, whatever the layers say. *)
LEMMA LadderAgrees ==
  ASSUME NEW c, NEW g, NEW h,
         c.policy \in {"PASS"} \cup DOMAIN PolicyGates,
         c.evidence \in {"PASS"} \cup DOMAIN EvidenceGates,
         c.state \in {"PASS"} \cup DOMAIN StateGates,
         c.measurement \in {"PASS"} \cup DOMAIN MeasurementGates,
         c.binding \in {"PASS"} \cup DOMAIN BindingGates
  PROVE  SqlGate(h, g, c) <=> h = FirstGate(c, g, c.binding)
<1> DEFINE Fires(k) == SqlFires(SqlLadder(g)[k], c)
           First(k) == Fires(k) /\ \A m \in 1..k-1 : ~ Fires(m)
<1>1. /\ c.policy \in {"PASS", "MISSING", "STALE", "SUBSTITUTED", "INVALID_SIGNATURE"}
      /\ c.evidence \in {"PASS", "TAMPERED", "REPLAY"}
      /\ c.state \in {"PASS", "CONTRAINDICATED", "STALE", "REFERENCE_MISMATCH"}
      /\ c.measurement \in {"PASS", "FAIL_POINT", "FAIL_LCB", "PROFILE_MISMATCH"}
      /\ c.binding \in {"PASS", "EFFECT_MISMATCH", "RESOURCE_MISMATCH", "TIME_MISMATCH",
                        "PROFILE_MISMATCH", "UNDETERMINED"}
  BY DEF PolicyGates, EvidenceGates, StateGates, MeasurementGates, BindingGates
<1>2. /\ Fires(1) <=> c.policy = "MISSING"
      /\ Fires(2) <=> c.policy = "STALE"
      /\ Fires(3) <=> c.policy = "SUBSTITUTED"
      /\ Fires(4) <=> c.policy = "INVALID_SIGNATURE"
      /\ Fires(5) <=> c.evidence = "TAMPERED"
      /\ Fires(6) <=> c.evidence = "REPLAY"
      /\ Fires(7) <=> c.state = "CONTRAINDICATED"
      /\ Fires(8) <=> c.state = "STALE"
      /\ Fires(9) <=> c.state = "REFERENCE_MISMATCH"
      /\ Fires(10) <=> c.authority # "ALLOW"
      /\ Fires(11) <=> c.measurement = "FAIL_POINT"
      /\ Fires(12) <=> c.measurement = "FAIL_LCB"
      /\ Fires(13) <=> c.measurement = "PROFILE_MISMATCH"
      /\ Fires(14) <=> c.binding = "EFFECT_MISMATCH"
      /\ Fires(15) <=> c.binding = "RESOURCE_MISMATCH"
      /\ Fires(16) <=> c.binding = "TIME_MISMATCH"
      /\ Fires(17) <=> c.binding = "PROFILE_MISMATCH"
      /\ Fires(18) <=> c.binding = "UNDETERMINED"
  BY LadderFires
<1>3. ASSUME NEW k \in 1..18, First(k)
      PROVE  SqlGate(h, g, c) <=> h = SqlLadder(g)[k][3]
  BY <1>3, FirstLine
<1>4. (\A k \in 1..18 : ~ Fires(k)) => (SqlGate(h, g, c) <=> h = "verified")
  BY NoLine
<1> HIDE DEF Fires
<1>5. CASE c.policy # "PASS"
  <2>1. FirstGate(c, g, c.binding) = PolicyGates[c.policy]
    BY <1>5 DEF FirstGate
  <2>2. CASE c.policy = "MISSING"
    <3>1. First(1)
      BY <1>1, <1>2, <1>5, <2>2
    <3> QED
      BY <1>3, <2>1, <2>2, <3>1, LadderGates
  <2>3. CASE c.policy = "STALE"
    <3>1. First(2)
      BY <1>1, <1>2, <1>5, <2>3
    <3> QED
      BY <1>3, <2>1, <2>3, <3>1, LadderGates
  <2>4. CASE c.policy = "SUBSTITUTED"
    <3>1. First(3)
      BY <1>1, <1>2, <1>5, <2>4
    <3> QED
      BY <1>3, <2>1, <2>4, <3>1, LadderGates
  <2>5. CASE c.policy = "INVALID_SIGNATURE"
    <3>1. First(4)
      BY <1>1, <1>2, <1>5, <2>5
    <3> QED
      BY <1>3, <2>1, <2>5, <3>1, LadderGates
  <2> QED
    BY <1>1, <1>5, <2>2, <2>3, <2>4, <2>5
<1>6. CASE /\ c.policy = "PASS" /\ c.evidence # "PASS"
  <2>1. FirstGate(c, g, c.binding) = EvidenceGates[c.evidence]
    BY <1>6 DEF FirstGate
  <2>2. CASE c.evidence = "TAMPERED"
    <3>1. First(5)
      BY <1>1, <1>2, <1>6, <2>2
    <3> QED
      BY <1>3, <2>1, <2>2, <3>1, LadderGates
  <2>3. CASE c.evidence = "REPLAY"
    <3>1. First(6)
      BY <1>1, <1>2, <1>6, <2>3
    <3> QED
      BY <1>3, <2>1, <2>3, <3>1, LadderGates
  <2> QED
    BY <1>1, <1>6, <2>2, <2>3
<1>7. CASE /\ c.policy = "PASS" /\ c.evidence = "PASS" /\ c.state # "PASS"
  <2>1. FirstGate(c, g, c.binding) = StateGates[c.state]
    BY <1>7 DEF FirstGate
  <2>2. CASE c.state = "CONTRAINDICATED"
    <3>1. First(7)
      BY <1>1, <1>2, <1>7, <2>2
    <3> QED
      BY <1>3, <2>1, <2>2, <3>1, LadderGates
  <2>3. CASE c.state = "STALE"
    <3>1. First(8)
      BY <1>1, <1>2, <1>7, <2>3
    <3> QED
      BY <1>3, <2>1, <2>3, <3>1, LadderGates
  <2>4. CASE c.state = "REFERENCE_MISMATCH"
    <3>1. First(9)
      BY <1>1, <1>2, <1>7, <2>4
    <3> QED
      BY <1>3, <2>1, <2>4, <3>1, LadderGates
  <2> QED
    BY <1>1, <1>7, <2>2, <2>3, <2>4
<1>8. CASE /\ c.policy = "PASS" /\ c.evidence = "PASS" /\ c.state = "PASS"
            /\ c.authority # "ALLOW"
  <2>1. First(10)
    BY <1>1, <1>2, <1>8
  <2>2. FirstGate(c, g, c.binding) = g
    BY <1>8 DEF FirstGate
  <2> QED
    BY <1>3, <2>1, <2>2, LadderGates
<1>9. CASE /\ c.policy = "PASS" /\ c.evidence = "PASS" /\ c.state = "PASS"
            /\ c.authority = "ALLOW" /\ c.measurement # "PASS"
  <2>1. FirstGate(c, g, c.binding) = MeasurementGates[c.measurement]
    BY <1>9 DEF FirstGate
  <2>2. CASE c.measurement = "FAIL_POINT"
    <3>1. First(11)
      BY <1>1, <1>2, <1>9, <2>2
    <3> QED
      BY <1>3, <2>1, <2>2, <3>1, LadderGates
  <2>3. CASE c.measurement = "FAIL_LCB"
    <3>1. First(12)
      BY <1>1, <1>2, <1>9, <2>3
    <3> QED
      BY <1>3, <2>1, <2>3, <3>1, LadderGates
  <2>4. CASE c.measurement = "PROFILE_MISMATCH"
    <3>1. First(13)
      BY <1>1, <1>2, <1>9, <2>4
    <3> QED
      BY <1>3, <2>1, <2>4, <3>1, LadderGates
  <2> QED
    BY <1>1, <1>9, <2>2, <2>3, <2>4
<1>10. CASE /\ c.policy = "PASS" /\ c.evidence = "PASS" /\ c.state = "PASS"
            /\ c.authority = "ALLOW" /\ c.measurement = "PASS" /\ c.binding # "PASS"
  <2>1. FirstGate(c, g, c.binding) = BindingGates[c.binding]
    BY <1>10 DEF FirstGate
  <2>2. CASE c.binding = "EFFECT_MISMATCH"
    <3>1. First(14)
      BY <1>1, <1>2, <1>10, <2>2
    <3> QED
      BY <1>3, <2>1, <2>2, <3>1, LadderGates
  <2>3. CASE c.binding = "RESOURCE_MISMATCH"
    <3>1. First(15)
      BY <1>1, <1>2, <1>10, <2>3
    <3> QED
      BY <1>3, <2>1, <2>3, <3>1, LadderGates
  <2>4. CASE c.binding = "TIME_MISMATCH"
    <3>1. First(16)
      BY <1>1, <1>2, <1>10, <2>4
    <3> QED
      BY <1>3, <2>1, <2>4, <3>1, LadderGates
  <2>5. CASE c.binding = "PROFILE_MISMATCH"
    <3>1. First(17)
      BY <1>1, <1>2, <1>10, <2>5
    <3> QED
      BY <1>3, <2>1, <2>5, <3>1, LadderGates
  <2>6. CASE c.binding = "UNDETERMINED"
    <3>1. First(18)
      BY <1>1, <1>2, <1>10, <2>6
    <3> QED
      BY <1>3, <2>1, <2>6, <3>1, LadderGates
  <2> QED
    BY <1>1, <1>10, <2>2, <2>3, <2>4, <2>5, <2>6
<1>11. CASE /\ c.policy = "PASS" /\ c.evidence = "PASS" /\ c.state = "PASS"
            /\ c.authority = "ALLOW" /\ c.measurement = "PASS" /\ c.binding = "PASS"
  <2>1. \A k \in 1..18 : ~ Fires(k)
    BY <1>1, <1>2, <1>11
  <2>2. FirstGate(c, g, c.binding) = "verified"
    BY <1>11 DEF FirstGate
  <2> QED
    BY <1>4, <2>1, <2>2
<1> QED
  BY <1>5, <1>6, <1>7, <1>8, <1>9, <1>10, <1>11

LEMMA GateAgrees ==
  ASSUME TransactionInv, at = "saved", NEW h
  PROVE  SqlGate(h, gate, Columns(row.binding_result)) <=> h = row.first_rejecting_gate
<1> DEFINE c == Columns(row.binding_result)
<1>1. /\ c.policy = Layers.policy /\ c.evidence = Layers.evidence /\ c.state = Layers.state
      /\ c.authority = Layers.authority /\ c.measurement = Layers.measurement
      /\ c.binding = Bind(subjects)
  BY RowSettled DEF Columns, Layers
<1>2. /\ c.policy \in {"PASS"} \cup DOMAIN PolicyGates
      /\ c.evidence \in {"PASS"} \cup DOMAIN EvidenceGates
      /\ c.state \in {"PASS"} \cup DOMAIN StateGates
      /\ c.measurement \in {"PASS"} \cup DOMAIN MeasurementGates
      /\ c.binding \in {"PASS"} \cup DOMAIN BindingGates
  BY <1>1, LayersSettled, PolicyResult, EvidenceResult, StateResult, MeasurementResult,
     BindingResult
<1> HIDE DEF c
<1>3. FirstGate(c, gate, c.binding) = FirstGate(Layers, gate, Bind(subjects))
  BY <1>1 DEF FirstGate
<1>4. SqlGate(h, gate, c) <=> h = FirstGate(c, gate, c.binding)
  BY <1>2, LadderAgrees
<1> QED
  BY <1>3, <1>4, RowSettled DEF c

LEMMA InvTwin == TransactionInv => TwinAgrees
BY BindingAgrees, GateAgrees, VerdictAgrees, RowSettled DEF TwinAgrees

(* The query over the saved row derives the binding, the verdict and the   *)
(* first gate of compose(), and no other, for every transaction.           *)
THEOREM TwinsAgree == TransactionSpec => []TwinAgrees
BY TransactionInvariance, InvTwin, PTL

-----------------------------------------------------------------------------
(* Localisation.                                                           *)

LEMMA OrderUnrolled ==
  /\ DOMAIN EvaluationOrder = 1..5 /\ EvaluationOrder[1] = "policy"
  /\ EvaluationOrder[2] = "evidence" /\ EvaluationOrder[3] = "state"
  /\ EvaluationOrder[4] = "authority" /\ EvaluationOrder[5] = "measurement"
BY DEF EvaluationOrder

(* The gates of the binding are no layer's, nor those of the walk. *)
BindingGateNames == {BindingGates[b] : b \in DOMAIN BindingGates}

LEMMA BindingGatesApart ==
  /\ BindingGateNames = {"binding.effect", "binding.resource", "binding.time",
       "binding.measurement_profile", "binding.undetermined"}
  /\ BindingGateNames \cap AllGates = {}
  /\ \A r \in DOMAIN PolicyGates : PolicyGates[r] \notin BindingGateNames \cup {"verified"}
  /\ \A r \in DOMAIN EvidenceGates : EvidenceGates[r] \notin BindingGateNames \cup {"verified"}
  /\ \A r \in DOMAIN StateGates : StateGates[r] \notin BindingGateNames \cup {"verified"}
  /\ \A r \in DOMAIN MeasurementGates :
       MeasurementGates[r] \notin BindingGateNames \cup {"verified"}
<1>1. BindingGateNames = {"binding.effect", "binding.resource", "binding.time",
        "binding.measurement_profile", "binding.undetermined"}
  BY DEF BindingGateNames, BindingGates
<1>2. /\ \A r \in DOMAIN PolicyGates : PolicyGates[r] \notin BindingGateNames \cup {"verified"}
      /\ \A r \in DOMAIN EvidenceGates :
           EvidenceGates[r] \notin BindingGateNames \cup {"verified"}
  BY <1>1 DEF PolicyGates, EvidenceGates
<1>3. /\ \A r \in DOMAIN StateGates : StateGates[r] \notin BindingGateNames \cup {"verified"}
      /\ \A r \in DOMAIN MeasurementGates :
           MeasurementGates[r] \notin BindingGateNames \cup {"verified"}
  BY <1>1 DEF StateGates, MeasurementGates
<1>4. /\ BindingGateNames \cap Gates(EdgeOrder) = {}
      /\ BindingGateNames \cap Gates(ActionOrder) = {}
      /\ BindingGateNames \cap Gates(EffectOrder) = {}
  BY <1>1 DEF Gates, EdgeOrder, ActionOrder, EffectOrder
<1>5. BindingGateNames \cap {"none", "protocol.valid", "verified"} = {}
  BY <1>1
<1> QED
  BY <1>1, <1>2, <1>3, <1>4, <1>5 DEF AllGates

(* A denial of the walk names a violation, never "verified". *)
LEMMA DeniedGate ==
  ASSUME IInv
  PROVE  verdict = "DENY" => gate \in AllGates \ {"verified"}
<1> SUFFICES ASSUME verdict = "DENY" PROVE gate \in AllGates \ {"verified"}
  OBVIOUS
<1>1. gate \in Violated(stage) /\ gate \in AllGates
  BY DEF IInv, FirstViolation, TypeOK
<1>2. "verified" \notin Gates(EdgeOrder) \cup Gates(ActionOrder) \cup Gates(EffectOrder)
  BY DEF Gates, EdgeOrder, ActionOrder, EffectOrder
<1>3. Violated(stage) \subseteq
        {"protocol.valid"} \cup Gates(EdgeOrder) \cup Gates(ActionOrder) \cup Gates(EffectOrder)
  BY DEF Violated, SqlEdgeFaults, ActionFaults, EffectFaults
<1> QED
  BY <1>1, <1>2, <1>3

LEMMA InvLocalised == IInv /\ TransactionInv => DenialIsLocalised
<1> SUFFICES ASSUME IInv, TransactionInv, at = "saved" PROVE DenialIsLocalised
  BY DEF DenialIsLocalised
<1> DEFINE r == Layers
           b == Bind(subjects)
           g == FirstGate(r, gate, b)
<1>1. /\ row.verdict = Verdict(FailedLayers(r) = {} /\ b = "PASS")
      /\ row.first_rejecting_gate = g /\ row.failed_layers = FailedLayers(r)
  BY RowSettled
<1>2. /\ r.policy = results.policy /\ r.evidence = results.evidence
      /\ r.state = results.state /\ r.measurement = results.measurement
      /\ r.authority = verdict /\ verdict \in {"ALLOW", "DENY"}
  BY LayersSettled DEF Layers
<1>3. /\ r.policy \in {"PASS"} \cup DOMAIN PolicyGates
      /\ r.evidence \in {"PASS"} \cup DOMAIN EvidenceGates
      /\ r.state \in {"PASS"} \cup DOMAIN StateGates
      /\ r.measurement \in {"PASS"} \cup DOMAIN MeasurementGates
      /\ b \in {"PASS"} \cup DOMAIN BindingGates
  BY LayersSettled, PolicyResult, EvidenceResult, StateResult, MeasurementResult,
     BindingResult
<1>4. verdict = "DENY" => gate \in AllGates \ {"verified"}
  BY DeniedGate
<1> HIDE DEF r, b
<1> DEFINE Placed ==
             /\ row.verdict = "ALLOW" <=> g = "verified"
             /\ row.verdict = "DENY" /\ FailedLayers(r) = {} <=> g \in BindingGateNames
<1>5. ASSUME FailedLayers(r) # {} PROVE Placed
  <2>1. /\ \/ r.policy # "PASS" \/ r.evidence # "PASS" \/ r.state # "PASS"
           \/ r.authority # "ALLOW" \/ r.measurement # "PASS"
        /\ \/ r.policy # "PASS" /\ g = PolicyGates[r.policy]
           \/ r.evidence # "PASS" /\ g = EvidenceGates[r.evidence]
           \/ r.state # "PASS" /\ g = StateGates[r.state]
           \/ r.authority # "ALLOW" /\ g = gate
           \/ r.measurement # "PASS" /\ g = MeasurementGates[r.measurement]
    BY <1>5, Failing DEF FirstGate
  <2>2. g \notin BindingGateNames \cup {"verified"}
    BY <1>2, <1>3, <1>4, <2>1, BindingGatesApart
  <2> QED
    BY <1>1, <1>5, <2>2 DEF Verdict
<1>6. ASSUME FailedLayers(r) = {} PROVE Placed
  <2>1. g = IF b # "PASS" THEN BindingGates[b] ELSE "verified"
    BY <1>6, Failing DEF FirstGate
  <2>2. b # "PASS" => g \in BindingGateNames
    BY <1>3, <2>1 DEF BindingGateNames
  <2>3. "verified" \notin BindingGateNames
    BY BindingGatesApart
  <2> QED
    BY <1>1, <1>6, <2>1, <2>2, <2>3 DEF Verdict
<1>7. Placed
  BY <1>5, <1>6
<1>8. ASSUME NEW k \in 1..5, EvaluationOrder[k] \in FailedLayers(r),
             \A m \in 1..k-1 : EvaluationOrder[m] \notin FailedLayers(r)
      PROVE  /\ k = 1 => g = PolicyGates[r.policy]
             /\ k = 2 => g = EvidenceGates[r.evidence]
             /\ k = 3 => g = StateGates[r.state]
             /\ k = 4 => g = gate
             /\ k = 5 => g = MeasurementGates[r.measurement]
  BY <1>8, OrderUnrolled, Failing DEF FirstGate
<1> QED
  BY <1>1, <1>2, <1>7, <1>8, OrderUnrolled DEF DenialIsLocalised, BindingGateNames

(* A denial is put on the first failed layer of EVALUATION_ORDER, and on   *)
(* the binding exactly when no layer has failed.                           *)
THEOREM Localisation == TransactionSpec => []DenialIsLocalised
BY WalkInvariance, TransactionInvariance, InvLocalised, PTL

-----------------------------------------------------------------------------
(* The baselines.                                                          *)

LEMMA FiveLayers == IsFiniteSet(LayerNames) /\ Cardinality(LayerNames) = 5
<1> DEFINE one == {"policy"}
           two == one \cup {"evidence"}
           three == two \cup {"state"}
           four == three \cup {"authority"}
<1>1. IsFiniteSet(one) /\ Cardinality(one) = 1
  BY FS_Singleton
<1>2. IsFiniteSet(two) /\ Cardinality(two) = 2
  BY <1>1, FS_AddElement
<1>3. IsFiniteSet(three) /\ Cardinality(three) = 3
  BY <1>2, FS_AddElement
<1>4. IsFiniteSet(four) /\ Cardinality(four) = 4
  BY <1>3, FS_AddElement
<1>5. LayerNames = four \cup {"measurement"} /\ "measurement" \notin four
  BY Layered
<1> HIDE DEF four
<1> QED
  BY <1>4, <1>5, FS_AddElement

(* Four of five pass exactly when at most one fails. *)
LEMMA MajorityCounts ==
  ASSUME NEW r
  PROVE  /\ Majority(r) <=> FailedLayers(r) = {} \/ Cardinality(FailedLayers(r)) = 1
<1> DEFINE F == FailedLayers(r)
<1>1. F \subseteq LayerNames
  BY Failing
<1> HIDE DEF F
<1>2. IsFiniteSet(F) /\ Cardinality(F) \in Nat
  BY <1>1, FiveLayers, FS_Subset, FS_CardinalityType
<1>3. Cardinality(LayerNames \ F) = 5 - Cardinality(F)
  <2>1. LayerNames \cap F = F
    BY <1>1
  <2> QED
    BY <2>1, FiveLayers, FS_Difference
<1>4. Cardinality(F) = 0 <=> F = {}
  BY <1>2, FS_EmptySet
<1> QED
  BY <1>2, <1>3, <1>4 DEF Majority, F

LEMMA InvBaselines == TransactionInv => BaselinesAreExplained
<1> SUFFICES ASSUME TransactionInv, at = "saved" PROVE BaselinesAreExplained
  BY DEF BaselinesAreExplained
<1> DEFINE r == Layers
           s == subjects
           F == FailedLayers(r)
           b == row.baselines
<1>1. /\ row.verdict = Verdict(F = {} /\ Bind(s) = "PASS")
      /\ row.failed_layers = F /\ row.binding_result = Bind(s)
      /\ b = Baselines(r, s)
  BY RowSettled
<1>2. /\ b.artifact_validity_only = Verdict(ArtifactValidity(r))
      /\ b.point_only_measurement = Verdict(PointOnlyMeasurement(r, s))
      /\ b.four_of_five_majority = Verdict(Majority(r))
      /\ b.effect_resource_binding = Verdict(F = {} /\ EffectMatches(s) /\ ResourceMatches(s))
      /\ b.effect_resource_time_binding =
           Verdict(F = {} /\ EffectMatches(s) /\ ResourceMatches(s) /\ WithinWindow(s))
      /\ b.effect_resource_profile_binding =
           Verdict(F = {} /\ EffectMatches(s) /\ ResourceMatches(s) /\ ProfileMatches(s))
      /\ DOMAIN b = {"artifact_validity_only", "point_only_measurement",
           "four_of_five_majority", "effect_resource_binding",
           "effect_resource_time_binding", "effect_resource_profile_binding"}
  BY <1>1 DEF Baselines
<1> HIDE DEF b
<1>3. /\ Majority(r) <=> F = {} \/ Cardinality(F) = 1
      /\ "evidence" \in F <=> r.evidence # "PASS"
      /\ F = {} => r.policy = "PASS" /\ r.evidence = "PASS" /\ r.measurement = "PASS"
      /\ "measurement" \in F <=> r.measurement # "PASS"
  BY MajorityCounts, Failing
<1>4. /\ r.policy = EvaluatePolicy(tx.policy) /\ r.measurement = EvaluateMeasurement(tx.fixture)
      /\ results.point_only = PointOnly(tx.fixture) /\ s = SubjectsOf(tx)
      /\ tx \in TransactionType
  BY LayersSettled DEF TransactionInv, TransactionTypeOK
<1>5. F = {} => tx.policy # None /\ tx.policy.signature_valid
  BY <1>3, <1>4 DEF EvaluatePolicy
<1>6. r.measurement = "PASS" => results.point_only = "PASS"
  <2>1. tx.fixture.point \in Nat /\ tx.fixture.threshold \in Nat
    BY <1>4 DEF TransactionType, Fixture
  <2> QED
    BY <1>4, <2>1 DEF EvaluateMeasurement, PointOnly
<1>7. ASSUME row.verdict = "ALLOW"
      PROVE  \A name \in DOMAIN b : b[name] = "ALLOW"
  <2>1. F = {} /\ Bind(s) = "PASS"
    BY <1>1, <1>7 DEF Verdict
  <2>2. /\ EffectMatches(s) /\ ResourceMatches(s) /\ WithinWindow(s) /\ ProfileMatches(s)
    BY <2>1, Bound
  <2>3. ArtifactValidity(r) /\ PointOnlyMeasurement(r, s) /\ Majority(r)
    BY <1>3, <1>5, <1>6, <2>1 DEF ArtifactValidity, PointOnlyMeasurement
  <2> QED
    BY <1>2, <2>1, <2>2, <2>3 DEF Verdict
<1>8. ASSUME row.verdict = "DENY"
      PROVE  F # {} \/ Bind(s) # "PASS"
  BY <1>1, <1>8 DEF Verdict
<1>9. ASSUME row.verdict = "DENY", b.point_only_measurement = "ALLOW"
      PROVE  F = {"measurement"} /\ Bind(s) = "PASS"
  <2>1. F \subseteq {"measurement"} /\ Bind(s) = "PASS"
    BY <1>2, <1>9 DEF PointOnlyMeasurement, Verdict
  <2> QED
    BY <1>8, <1>9, <2>1
<1>10. ASSUME row.verdict = "DENY", b.effect_resource_time_binding = "ALLOW"
       PROVE  F = {} /\ Bind(s) = "PROFILE_MISMATCH"
  <2>1. F = {} /\ EffectMatches(s) /\ ResourceMatches(s) /\ WithinWindow(s)
    BY <1>2, <1>10 DEF Verdict
  <2> QED
    BY <1>8, <1>10, <2>1 DEF Bind, WithinWindow
<1>11. ASSUME row.verdict = "DENY", b.effect_resource_profile_binding = "ALLOW"
       PROVE  /\ F = {}
              /\ \/ Bind(s) = "TIME_MISMATCH"
                 \/ Bind(s) = "UNDETERMINED" /\ tx.evidence.issued_at = None
  <2>1. F = {} /\ EffectMatches(s) /\ ResourceMatches(s) /\ ProfileMatches(s)
    BY <1>2, <1>11 DEF Verdict
  <2>2. Bind(s) \in {"TIME_MISMATCH", "UNDETERMINED"}
    BY <1>8, <1>11, <2>1 DEF Bind
  <2>3. ASSUME IsMissing(s) PROVE tx.evidence.issued_at = None
    <3>1. /\ s.observed.issued_at = tx.evidence.issued_at
          /\ s.canonical.effect = tx.policy.body.required_effect
          /\ s.canonical.measurement_profile = tx.policy.body.required_measurement_profile
          /\ s.canonical.resource = tx.authority_case.action.resource
      BY <1>4, <1>5, <2>1 DEF SubjectsOf, CanonicalAction, ObservedEffect
    <3>2. tx.policy \in Policy
      BY <1>4, <1>5, <2>1 DEF TransactionType, Optional
    <3>3. /\ s.canonical.effect \in Items /\ s.canonical.measurement_profile \in Profiles
          /\ s.canonical.resource \in Items
      BY <1>4, <3>1, <3>2 DEF Policy, PolicyBody, TransactionType, CaseType, Action
    <3>4. /\ s.observed.effect = s.canonical.effect
          /\ s.observed.resource = s.canonical.resource
          /\ s.observed.measurement_profile = s.canonical.measurement_profile
      BY <2>1 DEF EffectMatches, ResourceMatches, ProfileMatches
    <3> QED
      BY <2>3, <3>1, <3>3, <3>4, NoneAssumption DEF IsMissing
  <2> QED
    BY <2>1, <2>2, <2>3 DEF Bind
<1>12. ASSUME row.verdict = "DENY", b.four_of_five_majority = "ALLOW"
       PROVE  \/ Cardinality(F) = 1
              \/ F = {} /\ Bind(s) # "PASS"
  BY <1>2, <1>3, <1>8, <1>12 DEF Verdict
<1>13. ASSUME b.artifact_validity_only = "ALLOW"
       PROVE  "evidence" \notin F /\ tx.policy # None
  BY <1>2, <1>3, <1>13 DEF ArtifactValidity, Verdict
<1> HIDE DEF r, s, F
<1> QED
  BY <1>1, <1>7, <1>9, <1>10, <1>11, <1>12, <1>13 DEF BaselinesAreExplained, b

(* No baseline denies what the rule allows, and what each allows of the    *)
(* rest is explained by its own omission.                                  *)
THEOREM BaselinesExplained == TransactionSpec => []BaselinesAreExplained
BY TransactionInvariance, InvBaselines, PTL


-----------------------------------------------------------------------------
(* The first of an order.                                                  *)

LEMMA FirstOfIs ==
  ASSUME NEW order, DOMAIN order \subseteq Nat, NEW S,
         NEW k \in DOMAIN order, order[k] \in S,
         \A m \in 1..k-1 : order[m] \notin S,
         \A m \in DOMAIN order : m >= 1
  PROVE  FirstOf(order, S) = order[k]
<1> DEFINE IsFirst(j) == order[j] \in S /\ \A m \in 1..j-1 : order[m] \notin S
           first == CHOOSE j \in DOMAIN order : IsFirst(j)
<1>1. first \in DOMAIN order /\ IsFirst(first)
  OBVIOUS
<1>2. ~ (first < k) /\ ~ (k < first)
  BY <1>1
<1>3. first = k
  BY <1>1, <1>2
<1> QED
  BY <1>3 DEF FirstOf

(* An order of gates by priority. *)
Ordered(order) ==
  /\ \E n \in Nat : DOMAIN order = 1..n
  /\ Increasing(order)
  /\ \A k \in DOMAIN order : Priority(order[k]) \in Nat

LEMMA OrdersAreOrdered == Ordered(EdgeOrder) /\ Ordered(ActionOrder) /\ Ordered(EffectOrder)
<1>1. Ordered(EdgeOrder)
  <2>1. DOMAIN EdgeOrder = 1..13
    BY DEF EdgeOrder
  <2>2. /\ Priority(EdgeOrder[1]) = 10 /\ Priority(EdgeOrder[2]) = 20
        /\ Priority(EdgeOrder[3]) = 30 /\ Priority(EdgeOrder[4]) = 40
        /\ Priority(EdgeOrder[5]) = 50 /\ Priority(EdgeOrder[6]) = 60
    BY DEF EdgeOrder, Priority
  <2>3. /\ Priority(EdgeOrder[7]) = 70 /\ Priority(EdgeOrder[8]) = 71
        /\ Priority(EdgeOrder[9]) = 72 /\ Priority(EdgeOrder[10]) = 73
        /\ Priority(EdgeOrder[11]) = 74 /\ Priority(EdgeOrder[12]) = 80
        /\ Priority(EdgeOrder[13]) = 81
    BY DEF EdgeOrder, Priority
  <2>4. \A k \in 1..6 : Priority(EdgeOrder[k]) \in Nat
    BY <2>2
  <2>5. \A k \in 7..13 : Priority(EdgeOrder[k]) \in Nat
    BY <2>3
  <2>6. \A k \in 1..13 : k \in 1..6 \/ k \in 7..13
    OBVIOUS
  <2>7. 13 \in Nat
    OBVIOUS
  <2> QED
    BY <2>1, <2>4, <2>5, <2>6, <2>7, EdgePriorities DEF Ordered
<1>2. Ordered(ActionOrder)
  <2>1. DOMAIN ActionOrder = 1..7
    BY DEF ActionOrder
  <2>2. /\ Priority(ActionOrder[1]) = 10 /\ Priority(ActionOrder[2]) = 20
        /\ Priority(ActionOrder[3]) = 21 /\ Priority(ActionOrder[4]) = 22
        /\ Priority(ActionOrder[5]) = 23 /\ Priority(ActionOrder[6]) = 24
        /\ Priority(ActionOrder[7]) = 30
    BY DEF ActionOrder, Priority
  <2> QED
    BY <2>1, <2>2, ActionPriorities DEF Ordered
<1>3. Ordered(EffectOrder)
  <2>1. DOMAIN EffectOrder = 1..3
    BY DEF EffectOrder
  <2>2. /\ Priority(EffectOrder[1]) = 10 /\ Priority(EffectOrder[2]) = 20
        /\ Priority(EffectOrder[3]) = 30
    BY DEF EffectOrder, Priority
  <2> QED
    BY <2>1, <2>2, EffectPriorities DEF Ordered
<1> QED
  BY <1>1, <1>2, <1>3

(* Of the gates that fail, the first in its order is the one of lowest     *)
(* priority: what a loop over the checks and a query by priority find.     *)
LEMMA FirstIsOfLowestPriority ==
  ASSUME NEW order, Ordered(order),
         NEW S, S \subseteq Gates(order), NEW g \in S,
         \A h \in S : h # g => Priority(g) < Priority(h)
  PROVE  FirstOf(order, S) = g
<1>1. PICK k \in DOMAIN order : order[k] = g
  BY DEF Gates
<1>2. PICK n \in Nat : DOMAIN order = 1..n
  BY DEF Ordered
<1>3. ASSUME NEW m \in 1..k-1, order[m] \in S PROVE FALSE
  <2>1. m \in DOMAIN order /\ k \in DOMAIN order /\ m < k
    BY <1>1, <1>2
  <2>2. Priority(order[m]) < Priority(order[k])
    BY <2>1 DEF Ordered, Increasing
  <2>3. /\ Priority(order[m]) \in Nat /\ Priority(order[k]) \in Nat
        /\ order[m] # g => Priority(g) < Priority(order[m])
    BY <1>3, <2>1 DEF Ordered
  <2> QED
    BY <1>1, <2>2, <2>3
<1>4. DOMAIN order \subseteq Nat /\ \A m \in DOMAIN order : m >= 1
  BY <1>2
<1> QED
  BY <1>1, <1>3, <1>4, FirstOfIs

-----------------------------------------------------------------------------
(* JavaScript's authority layer is the walk's outcome.                     *)

LEMMA CarriedIsParent ==
  ASSUME NEW n
  PROVE  Carried(case, n) = SqlParent(n)
BY DEF Carried, SqlParent, Carry

(* The query's condition on a role transition differs from the loop's, but *)
(* never in which gate comes first.                                        *)
LEMMA EdgeFirst ==
  ASSUME NEW n \in 1..Hops, NEW g \in SqlEdgeFaults(n),
         \A h \in SqlEdgeFaults(n) : h # g => Priority(g) < Priority(h)
  PROVE  EdgeBreaks(case, n) # {} /\ FirstOf(EdgeOrder, EdgeBreaks(case, n)) = g
<1> DEFINE faults == EdgeFaults(case.edges[n], SqlParent(n), n = 1)
<1>1. EdgeBreaks(case, n) = faults
  BY CarriedIsParent DEF EdgeBreaks
<1>2. /\ faults \subseteq Gates(EdgeOrder)
      /\ SqlEdgeFaults(n) \subseteq Gates(EdgeOrder)
      /\ "edge.lineage" \in faults <=> "edge.lineage" \in SqlEdgeFaults(n)
      /\ "edge.lineage" \notin faults => faults = SqlEdgeFaults(n)
  BY EdgeAgrees
<1> HIDE DEF faults
<1>3. CASE "edge.lineage" \notin faults
  BY <1>1, <1>2, <1>3, OrdersAreOrdered, FirstIsOfLowestPriority
<1>4. CASE "edge.lineage" \in faults
  <2>1. /\ 1 \in DOMAIN EdgeOrder /\ EdgeOrder[1] = "edge.lineage"
        /\ DOMAIN EdgeOrder = 1..13
    BY DEF EdgeOrder
  <2>2. \A h \in Gates(EdgeOrder) :
          h # "edge.lineage" => Priority("edge.lineage") < Priority(h)
    <3>1. SUFFICES ASSUME NEW k \in DOMAIN EdgeOrder, EdgeOrder[k] # "edge.lineage"
                   PROVE  Priority("edge.lineage") < Priority(EdgeOrder[k])
      BY DEF Gates
    <3>2. 1 < k
      BY <2>1, <3>1
    <3> QED
      BY <2>1, <3>2, EdgePriorities DEF Increasing
  <2>3. g = "edge.lineage"
    <3>1. g \in Gates(EdgeOrder) /\ "edge.lineage" \in SqlEdgeFaults(n)
      BY <1>2, <1>4
    <3>2. PICK k \in DOMAIN EdgeOrder : EdgeOrder[k] = g
      BY <3>1 DEF Gates
    <3>3. Priority(g) \in Nat /\ Priority("edge.lineage") \in Nat
      BY <2>1, <3>2, OrdersAreOrdered DEF Ordered
    <3> QED
      BY <2>2, <3>1, <3>3
  <2>4. \A h \in faults : h # g => Priority(g) < Priority(h)
    BY <1>2, <2>2, <2>3
  <2> QED
    BY <1>1, <1>2, <1>4, <2>3, <2>4, OrdersAreOrdered, FirstIsOfLowestPriority
<1> QED
  BY <1>3, <1>4

LEMMA EdgeSound ==
  ASSUME NEW n \in 1..Hops, SqlEdgeFaults(n) = {}
  PROVE  EdgeBreaks(case, n) = {}
BY EdgeAgrees, CarriedIsParent DEF EdgeBreaks

(* The numbers of the edges that fail, in the order of the path. *)
Broken(c) == {n \in 1..Len(c.edges) : EdgeBreaks(c, n) # {}}

LEMMA SmallestIs ==
  ASSUME NEW S \in SUBSET Nat, NEW m \in S, \A n \in S : m <= n
  PROVE  Smallest(S) = m
<1>1. Smallest(S) \in S /\ \A n \in S : Smallest(S) <= n
  BY DEF Smallest
<1>2. Smallest(S) \in Nat /\ m \in Nat /\ Smallest(S) <= m /\ m <= Smallest(S)
  BY <1>1
<1> QED
  BY <1>2

LEMMA LabelledAsWalked ==
  ASSUME IInv, verdict # "none"
  PROVE  /\ JsAuthorityLayer(case).result = verdict
         /\ verdict = "DENY" => JsAuthorityLayer(case).gate = gate
<1>1. /\ Hops \in Nat \ {0} /\ Hops = Len(case.edges) /\ stage \in Stages
      /\ verdict \in {"ALLOW", "DENY"}
  BY HopsType DEF IInv, TypeOK, Hops
<1>2. Broken(case) = {n \in 1..Hops : EdgeBreaks(case, n) # {}}
  BY <1>1 DEF Broken
<1>3. CASE verdict = "ALLOW"
  <2>1. /\ case.protocol_valid /\ parent = SqlParent(Hops + 1)
        /\ \A n \in 1..Hops : SqlEdgeFaults(n) = {}
        /\ ActionFaults(case.action, parent) = {}
        /\ EffectFaults(case.receipt, case.action) = {}
    BY <1>3, AllowedFacts
  <2>2. Broken(case) = {} /\ ActionFaults(case.action, Carried(case, Hops + 1)) = {}
    BY <1>2, <2>1, EdgeSound, CarriedIsParent
  <2>3. JsAuthorityLayer(case) = Passing("authority")
    BY <1>1, <2>1, <2>2 DEF JsAuthorityLayer, Broken
  <2> QED
    BY <1>3, <2>3 DEF Passing, Label
<1>4. CASE verdict = "DENY"
  <2>1. /\ gate \in Violated(stage)
        /\ \A n \in 0..stage-1 : Violated(n) = {}
        /\ \A g \in Violated(stage) : g # gate => Priority(gate) < Priority(g)
    BY <1>4 DEF IInv, FirstViolation
  <2>2. CASE ~ case.protocol_valid
    <3>1. "protocol.valid" \in Violated(0)
      BY <2>2 DEF Violated
    <3>2. stage = 0
      BY <1>1, <2>1, <3>1 DEF Stages
    <3>3. gate = "protocol.valid"
      <4>1. Violated(0) \subseteq {"protocol.valid"} \cup Gates(EdgeOrder)
        BY <1>1 DEF Violated, SqlEdgeFaults
      <4>2. ASSUME gate \in Gates(EdgeOrder) PROVE FALSE
        <5>1. PICK k \in DOMAIN EdgeOrder : gate = EdgeOrder[k]
          BY <4>2 DEF Gates
        <5>2. Priority(gate) \in Nat
          BY <5>1, OrdersAreOrdered DEF Ordered
        <5>3. /\ Priority(gate) > 0 /\ Priority("protocol.valid") = 0
              /\ "protocol.valid" # gate => Priority(gate) < Priority("protocol.valid")
          BY <2>1, <3>1, <3>2, <4>2, ProtocolIsFirst
        <5> QED
          BY <5>2, <5>3
      <4> QED
        BY <2>1, <3>2, <4>1, <4>2
    <3>4. JsAuthorityLayer(case) = Label("DENY", gate, RuleOf(gate), 0)
      BY <2>2, <3>3 DEF JsAuthorityLayer
    <3> QED
      BY <1>4, <3>4 DEF Label
  <2>3. CASE case.protocol_valid
    <3>1. ASSUME NEW m \in 1..Hops, m <= stage PROVE EdgeBreaks(case, m) = {}
      <4>1. m - 1 \in Stages /\ m - 1 \in 0..stage-1 /\ m - 1 < Hops /\ (m - 1) + 1 = m
        BY <1>1, <3>1 DEF Stages
      <4>2. SqlEdgeFaults(m) = {}
        BY <2>1, <2>3, <4>1, ViolatedAt
      <4> QED
        BY <4>2, EdgeSound
    <3>2. CASE stage < Hops
      <4>1. stage + 1 \in 1..Hops /\ Violated(stage) = SqlEdgeFaults(stage + 1)
        BY <1>1, <2>3, <3>2, ViolatedAt DEF Stages
      <4>2. /\ EdgeBreaks(case, stage + 1) # {}
            /\ FirstOf(EdgeOrder, EdgeBreaks(case, stage + 1)) = gate
        BY <2>1, <4>1, EdgeFirst
      <4>3. Broken(case) \in SUBSET Nat /\ stage + 1 \in Broken(case)
        BY <1>1, <1>2, <4>1, <4>2
      <4>4. \A m \in Broken(case) : stage + 1 <= m
        <5>1. SUFFICES ASSUME NEW m \in Broken(case) PROVE ~ (m <= stage)
          BY <1>1, <1>2 DEF Stages
        <5> QED
          BY <1>2, <3>1
      <4>5. Smallest(Broken(case)) = stage + 1
        BY <4>3, <4>4, SmallestIs
      <4>6. JsAuthorityLayer(case)
              = LET n == Smallest(Broken(case))
                    g == FirstOf(EdgeOrder, EdgeBreaks(case, n))
                IN  Label("DENY", g, RuleOf(g), n - 1)
        BY <2>3, <4>3 DEF JsAuthorityLayer, Broken
      <4> QED
        BY <1>4, <4>2, <4>5, <4>6 DEF Label
    <3>3. CASE stage >= Hops
      <4>1. Broken(case) = {}
        BY <1>1, <1>2, <3>1, <3>3 DEF Stages
      <4>2. Hops \in Stages /\ Violated(Hops) = ActionFaults(case.action, Carried(case, Hops + 1))
        BY <1>1, <2>3, ViolatedAt, CarriedIsParent DEF Stages
      <4>3. CASE stage = Hops
        <5> DEFINE faults == ActionFaults(case.action, Carried(case, Hops + 1))
        <5>1. faults # {} /\ faults \subseteq Gates(ActionOrder)
          BY <2>1, <4>2, <4>3 DEF ActionFaults
        <5>2. FirstOf(ActionOrder, faults) = gate
          <6> HIDE DEF faults
          <6>1. faults = Violated(stage)
            BY <4>2, <4>3 DEF faults
          <6> QED
            BY <2>1, <5>1, <6>1, OrdersAreOrdered, FirstIsOfLowestPriority
        <5>3. JsAuthorityLayer(case) = Label("DENY", gate, RuleOf(gate), 0)
          BY <1>1, <2>3, <4>1, <5>1, <5>2 DEF JsAuthorityLayer, Broken
        <5> QED
          BY <1>4, <5>3 DEF Label
      <4>4. CASE stage # Hops
        <5> DEFINE faults == EffectFaults(case.receipt, case.action)
        <5>1. stage > Hops /\ Hops \in 0..stage-1
          BY <1>1, <3>3, <4>4 DEF Stages
        <5>2. ActionFaults(case.action, Carried(case, Hops + 1)) = {}
          BY <2>1, <4>2, <5>1
        <5>3. faults = Violated(stage) /\ faults # {} /\ faults \subseteq Gates(EffectOrder)
          BY <1>1, <2>1, <2>3, <5>1, ViolatedAt DEF EffectFaults
        <5>4. FirstOf(EffectOrder, faults) = gate
          <6> HIDE DEF faults
          <6> QED
            BY <2>1, <5>3, OrdersAreOrdered, FirstIsOfLowestPriority
        <5>5. JsAuthorityLayer(case) = Label("DENY", gate, RuleOf(gate), 0)
          BY <1>1, <2>3, <4>1, <5>2, <5>3, <5>4 DEF JsAuthorityLayer, Broken
        <5> QED
          BY <1>4, <5>5 DEF Label
      <4> QED
        BY <4>3, <4>4
    <3> QED
      BY <1>1, <3>2, <3>3 DEF Stages
  <2> QED
    BY <2>2, <2>3
<1> QED
  BY <1>1, <1>3, <1>4

-----------------------------------------------------------------------------
(* The other layers of JavaScript.                                         *)

(* A policy without a start is STALE where the verifier looks further.     *)
LEMMA PolicyLabel ==
  ASSUME NEW p \in Optional(Policy)
  PROVE  LET undated == /\ p # None
                        /\ p.body.valid_from = Missing
                        /\ \/ EvaluatePolicy(p) = "PASS"
                           \/ /\ EvaluatePolicy(p) = "SUBSTITUTED"
                              /\ p.body.policy_id = Anchor.policy_id
         IN  /\ JsPolicyLayer(p).result = IF undated THEN "STALE" ELSE EvaluatePolicy(p)
             /\ undated => JsPolicyLayer(p).gate = "policy.stale"
             /\ ~ undated /\ EvaluatePolicy(p) # "PASS" =>
                  JsPolicyLayer(p).gate = PolicyGates[EvaluatePolicy(p)]
<1>1. p # None =>
        /\ p.body.valid_from = Missing => ~ InInclusiveWindow(p.body.valid_from, p.body.valid_until)
        /\ p.body.valid_from # Missing =>
             (InInclusiveWindow(p.body.valid_from, p.body.valid_until)
                <=> p.body.valid_from <= DecisionTime /\ DecisionTime <= p.body.valid_until)
        /\ InInclusiveWindow(p.body.valid_from, p.body.valid_until) =>
             p.body.valid_from <= DecisionTime /\ DecisionTime <= p.body.valid_until
  BY AnchorAssumption DEF InInclusiveWindow, Missing, Optional, Policy, PolicyBody
<1> QED
  BY <1>1 DEF JsPolicyLayer, EvaluatePolicy, PolicyGates, Passing, Label

LEMMA EvidenceLabel ==
  ASSUME NEW e
  PROVE  /\ JsEvidenceLayer(e).result = EvaluateEvidence(e)
         /\ EvaluateEvidence(e) # "PASS" =>
              JsEvidenceLayer(e).gate = EvidenceGates[EvaluateEvidence(e)]
BY DEF JsEvidenceLayer, EvaluateEvidence, EvidenceGates, Passing, Label

LEMMA StateLabel ==
  ASSUME NEW a, a.issued_at \in Nat, a.expires_at \in Nat
  PROVE  LET undated == /\ a.issued_at = Missing
                        /\ AppraiseState(a) \in {"PASS", "REFERENCE_MISMATCH"}
         IN  /\ JsStateLayer(a).result = IF undated THEN "STALE" ELSE AppraiseState(a)
             /\ undated => JsStateLayer(a).gate = "state.stale"
             /\ ~ undated /\ AppraiseState(a) # "PASS" =>
                  JsStateLayer(a).gate = StateGates[AppraiseState(a)]
<1>1. /\ a.issued_at = Missing => ~ InInclusiveWindow(a.issued_at, a.expires_at)
      /\ a.issued_at # Missing =>
           (InInclusiveWindow(a.issued_at, a.expires_at)
              <=> a.issued_at <= DecisionTime /\ DecisionTime <= a.expires_at)
  BY AnchorAssumption DEF InInclusiveWindow, Missing
<1> QED
  BY <1>1 DEF JsStateLayer, AppraiseState, StateGates, Passing, Label

LEMMA MeasurementLabel ==
  ASSUME NEW f
  PROVE  /\ JsMeasurementLayer(f).result = EvaluateMeasurement(f)
         /\ EvaluateMeasurement(f) # "PASS" =>
              JsMeasurementLayer(f).gate = MeasurementGates[EvaluateMeasurement(f)]
BY DEF JsMeasurementLayer, EvaluateMeasurement, MeasurementGates, Passing, Label

-----------------------------------------------------------------------------
(* The label of a transaction is the row of the verifier.                  *)

LEMMA FirstLayer ==
  ASSUME NEW failing, failing \subseteq LayerNames
  PROVE  /\ "policy" \in failing => FirstOf(EvaluationOrder, failing) = "policy"
         /\ "policy" \notin failing /\ "evidence" \in failing =>
              FirstOf(EvaluationOrder, failing) = "evidence"
         /\ failing \cap {"policy", "evidence"} = {} /\ "state" \in failing =>
              FirstOf(EvaluationOrder, failing) = "state"
         /\ failing \cap {"policy", "evidence", "state"} = {} /\ "authority" \in failing =>
              FirstOf(EvaluationOrder, failing) = "authority"
         /\ failing = {"measurement"} => FirstOf(EvaluationOrder, failing) = "measurement"
<1>1. /\ DOMAIN EvaluationOrder = 1..5 /\ EvaluationOrder[1] = "policy"
      /\ EvaluationOrder[2] = "evidence" /\ EvaluationOrder[3] = "state"
      /\ EvaluationOrder[4] = "authority" /\ EvaluationOrder[5] = "measurement"
  BY DEF EvaluationOrder
<1>2. DOMAIN EvaluationOrder \subseteq Nat /\ \A k \in DOMAIN EvaluationOrder : k >= 1
  BY <1>1
<1>3. ASSUME NEW k \in 1..5, EvaluationOrder[k] \in failing,
             \A m \in 1..k-1 : EvaluationOrder[m] \notin failing
      PROVE  FirstOf(EvaluationOrder, failing) = EvaluationOrder[k]
  BY <1>1, <1>2, <1>3, FirstOfIs
<1>4. /\ 1..1-1 = {} /\ 1..2-1 = {1} /\ 1..3-1 = {1, 2} /\ 1..4-1 = {1, 2, 3}
      /\ 1..5-1 = {1, 2, 3, 4} /\ {1, 2, 3, 4, 5} \subseteq 1..5
  OBVIOUS
<1>5. ASSUME "policy" \in failing PROVE FirstOf(EvaluationOrder, failing) = "policy"
  BY <1>1, <1>3, <1>4, <1>5
<1>6. ASSUME "policy" \notin failing, "evidence" \in failing
      PROVE  FirstOf(EvaluationOrder, failing) = "evidence"
  BY <1>1, <1>3, <1>4, <1>6
<1>7. ASSUME failing \cap {"policy", "evidence"} = {}, "state" \in failing
      PROVE  FirstOf(EvaluationOrder, failing) = "state"
  BY <1>1, <1>3, <1>4, <1>7
<1>8. ASSUME failing \cap {"policy", "evidence", "state"} = {}, "authority" \in failing
      PROVE  FirstOf(EvaluationOrder, failing) = "authority"
  BY <1>1, <1>3, <1>4, <1>8
<1>9. ASSUME failing = {"measurement"}
      PROVE  FirstOf(EvaluationOrder, failing) = "measurement"
  BY <1>1, <1>3, <1>4, <1>9
<1> QED
  BY <1>5, <1>6, <1>7, <1>8, <1>9

LEMMA PassedUndatedIs ==
  /\ PassedUndated \subseteq LayerNames
  /\ "evidence" \notin PassedUndated /\ "authority" \notin PassedUndated
  /\ "measurement" \notin PassedUndated
  /\ "policy" \in PassedUndated <=>
       /\ tx.policy # None
       /\ tx.policy.body.valid_from = Missing
       /\ \/ results.policy = "PASS"
          \/ results.policy = "SUBSTITUTED" /\ tx.policy.body.policy_id = Anchor.policy_id
  /\ "state" \in PassedUndated <=>
       /\ tx.attestation.issued_at = Missing
       /\ results.state \in {"PASS", "REFERENCE_MISMATCH"}
<1>1. "policy" \in LayerNames /\ "state" \in LayerNames
  BY Layered
<1> QED
  BY <1>1 DEF PassedUndated

(* Labels that give every layer its LabelResults, and every failing layer  *)
(* its gate, give the transaction the verdict and gate of LabelledRow.     *)
LEMMA LabelsCompose ==
  ASSUME TransactionInv, at = "saved",
         NEW l,
         \A name \in LayerNames : l[name].result = LabelResults[name],
         "policy" \in PassedUndated => l.policy.gate = "policy.stale",
         "state" \in PassedUndated => l.state.gate = "state.stale",
         "policy" \notin PassedUndated /\ Layers.policy # "PASS" =>
           l.policy.gate = PolicyGates[Layers.policy],
         Layers.evidence # "PASS" => l.evidence.gate = EvidenceGates[Layers.evidence],
         "state" \notin PassedUndated /\ Layers.state # "PASS" =>
           l.state.gate = StateGates[Layers.state],
         Layers.authority # "ALLOW" => l.authority.gate = gate,
         Layers.measurement # "PASS" =>
           l.measurement.gate = MeasurementGates[Layers.measurement]
  PROVE  Exact(Summary(l), LabelResults, LabelledRow)
<1> DEFINE failed == FailedLayers(Layers)
           failing == failed \cup PassedUndated
           first == FirstOf(EvaluationOrder, failing)
           binding == Bind(subjects)
           s == Summary(l)
<1>1. \A name \in LayerNames :
        LabelResults[name] = IF name \in PassedUndated THEN "STALE" ELSE Layers[name]
  BY DEF LabelResults
<1>2. \A name \in LayerNames : ~ LayerPasses(name, l[name].result) <=> name \in failing
  <2> SUFFICES ASSUME NEW name \in LayerNames
               PROVE  ~ LayerPasses(name, l[name].result) <=> name \in failing
    OBVIOUS
  <2>1. CASE name \in PassedUndated
    <3>1. l[name].result = "STALE"
      BY <1>1, <2>1
    <3>2. ~ LayerPasses(name, "STALE")
      BY DEF LayerPasses
    <3> QED
      BY <2>1, <3>1, <3>2
  <2>2. CASE name \notin PassedUndated
    <3>1. l[name].result = Layers[name]
      BY <1>1, <2>2
    <3>2. ~ LayerPasses(name, Layers[name]) <=> name \in failed
      BY DEF FailedLayers
    <3> QED
      BY <2>2, <3>1, <3>2
  <2> QED
    BY <2>1, <2>2
<1>3. /\ failed \subseteq LayerNames
      /\ "policy" \in failed <=> Layers.policy # "PASS"
      /\ "evidence" \in failed <=> Layers.evidence # "PASS"
      /\ "state" \in failed <=> Layers.state # "PASS"
      /\ "authority" \in failed <=> Layers.authority # "ALLOW"
      /\ "measurement" \in failed <=> Layers.measurement # "PASS"
  BY Failing
<1>4. failing \subseteq LayerNames
  BY <1>3, PassedUndatedIs
<1>5. {name \in LayerNames : ~ LayerPasses(name, l[name].result)} = failing
  BY <1>2, <1>4
<1>6. /\ s.verdict = Verdict(failing = {})
      /\ s.first_rejecting_gate = IF failing = {} THEN "verified" ELSE l[first].gate
      /\ s.layers = l
  BY <1>5 DEF Summary
<1>7. /\ row.first_rejecting_gate = FirstGate(Layers, gate, binding)
      /\ row.failed_layers = failed
  BY RowSettled
<1>8. /\ LabelledRow.verdict = Verdict(failing = {})
      /\ LabelledRow.first_rejecting_gate =
           IF failing = {} THEN "verified"
           ELSE IF first \in PassedUndated THEN StaleGates[first]
           ELSE FirstGate(Layers, gate, binding)
  BY <1>7 DEF LabelledRow
<1>9. StaleGates.policy = "policy.stale" /\ StaleGates.state = "state.stale"
  BY DEF StaleGates, PolicyGates, StateGates
<1> HIDE DEF failed, failing, first, binding, s
<1>10. ASSUME failing # {}
       PROVE  l[first].gate = IF first \in PassedUndated THEN StaleGates[first]
                              ELSE FirstGate(Layers, gate, binding)
  <2>0. \A name : name \in failing <=> name \in failed \/ name \in PassedUndated
    BY DEF failing
  <2>1. CASE "policy" \in failing
    <3>1. first = "policy"
      BY <1>4, <2>1, FirstLayer DEF first
    <3>2. CASE "policy" \in PassedUndated
      BY <1>9, <3>1, <3>2
    <3>3. CASE "policy" \notin PassedUndated
      BY <1>3, <2>0, <2>1, <3>1, <3>3 DEF FirstGate
    <3> QED
      BY <3>2, <3>3
  <2>2. CASE "policy" \notin failing /\ "evidence" \in failing
    <3>1. first = "evidence"
      BY <1>4, <2>2, FirstLayer DEF first
    <3> QED
      BY <1>3, <2>0, <2>2, <3>1, PassedUndatedIs DEF FirstGate
  <2>3. CASE failing \cap {"policy", "evidence"} = {} /\ "state" \in failing
    <3>1. first = "state"
      BY <1>4, <2>3, FirstLayer DEF first
    <3>2. CASE "state" \in PassedUndated
      BY <1>9, <3>1, <3>2
    <3>3. CASE "state" \notin PassedUndated
      BY <1>3, <2>0, <2>3, <3>1, <3>3 DEF FirstGate
    <3> QED
      BY <3>2, <3>3
  <2>4. CASE failing \cap {"policy", "evidence", "state"} = {} /\ "authority" \in failing
    <3>1. first = "authority"
      BY <1>4, <2>4, FirstLayer DEF first
    <3> QED
      BY <1>3, <2>0, <2>4, <3>1, PassedUndatedIs DEF FirstGate
  <2>5. CASE failing = {"measurement"}
    <3>1. first = "measurement"
      BY <1>4, <2>5, FirstLayer DEF first
    <3> QED
      BY <1>3, <2>0, <2>5, <3>1, PassedUndatedIs DEF FirstGate
  <2>6. \A name \in failing : name \in {"policy", "evidence", "state", "authority", "measurement"}
    BY <1>4, Layered
  <2>7. failing = {"measurement"}
        \/ "policy" \in failing \/ "evidence" \in failing
        \/ "state" \in failing \/ "authority" \in failing
    BY <1>10, <2>6
  <2> QED
    BY <2>1, <2>2, <2>3, <2>4, <2>5, <2>7
<1> QED
  BY <1>6, <1>8, <1>10 DEF Exact, s

LEMMA InvJsIsLabelled == IInv /\ TransactionInv => JsIsLabelled
<1> SUFFICES ASSUME IInv, TransactionInv, at = "saved"
             PROVE  Exact(JsEvaluate(tx), LabelResults, LabelledRow)
  BY DEF JsIsLabelled
<1> DEFINE l == [policy |-> JsPolicyLayer(tx.policy), evidence |-> JsEvidenceLayer(tx.evidence),
                 state |-> JsStateLayer(tx.attestation),
                 authority |-> JsAuthorityLayer(tx.authority_case),
                 measurement |-> JsMeasurementLayer(tx.fixture)]
<1>1. /\ Layers.policy = EvaluatePolicy(tx.policy)
      /\ Layers.evidence = EvaluateEvidence(tx.evidence)
      /\ Layers.state = AppraiseState(tx.attestation)
      /\ Layers.authority = verdict
      /\ Layers.measurement = EvaluateMeasurement(tx.fixture)
      /\ verdict \in {"ALLOW", "DENY"}
  BY LayersSettled
<1>2. Layers.policy = results.policy /\ Layers.state = results.state
  BY DEF Layers
<1>3. /\ case = tx.authority_case
      /\ tx.policy \in Optional(Policy)
      /\ tx.attestation.issued_at \in Nat /\ tx.attestation.expires_at \in Nat
  BY DEF TransactionInv, TransactionTypeOK, TransactionType, Attestation
<1>4. /\ l.policy.result = IF "policy" \in PassedUndated THEN "STALE" ELSE Layers.policy
      /\ "policy" \in PassedUndated => l.policy.gate = "policy.stale"
      /\ "policy" \notin PassedUndated /\ Layers.policy # "PASS" =>
           l.policy.gate = PolicyGates[Layers.policy]
  BY <1>1, <1>2, <1>3, PolicyLabel, PassedUndatedIs
<1>5. /\ l.evidence.result = Layers.evidence
      /\ Layers.evidence # "PASS" => l.evidence.gate = EvidenceGates[Layers.evidence]
  BY <1>1, EvidenceLabel
<1>6. /\ l.state.result = IF "state" \in PassedUndated THEN "STALE" ELSE Layers.state
      /\ "state" \in PassedUndated => l.state.gate = "state.stale"
      /\ "state" \notin PassedUndated /\ Layers.state # "PASS" =>
           l.state.gate = StateGates[Layers.state]
  BY <1>1, <1>2, <1>3, StateLabel, PassedUndatedIs
<1>7. /\ l.authority.result = Layers.authority
      /\ Layers.authority # "ALLOW" => l.authority.gate = gate
  BY <1>1, <1>3, LabelledAsWalked
<1>8. /\ l.measurement.result = Layers.measurement
      /\ Layers.measurement # "PASS" => l.measurement.gate = MeasurementGates[Layers.measurement]
  BY <1>1, MeasurementLabel
<1>9. JsEvaluate(tx) = Summary(l)
  BY DEF JsEvaluate
<1> HIDE DEF l
<1>10. \A name \in LayerNames : l[name].result = LabelResults[name]
  <2>1. LayerNames = {"policy", "evidence", "state", "authority", "measurement"}
    BY Layered
  <2>2. \A name \in LayerNames :
          LabelResults[name] = IF name \in PassedUndated THEN "STALE" ELSE Layers[name]
    BY DEF LabelResults
  <2> QED
    BY <1>4, <1>5, <1>6, <1>7, <1>8, <2>1, <2>2, PassedUndatedIs
<1> QED
  BY <1>4, <1>5, <1>6, <1>7, <1>8, <1>9, <1>10, LabelsCompose

-----------------------------------------------------------------------------
(* Python's labels are JavaScript's.  Python collects the rules a layer    *)
(* breaks and takes the first; JavaScript stops at the first it meets.     *)

LEMMA FirstRule ==
  ASSUME NEW layer, NEW rules, DOMAIN rules \subseteq Nat \ {0}, NEW broken,
         NEW k \in DOMAIN rules, rules[k] \in broken,
         \A m \in 1..k-1 : rules[m] \notin broken
  PROVE  FirstBroken(layer, rules, broken)
           = Label(ResultOf(rules[k])[1], ResultOf(rules[k])[2], rules[k], 0)
<1>1. DOMAIN rules \subseteq Nat /\ \A m \in DOMAIN rules : m >= 1
  OBVIOUS
<1>2. FirstOf(rules, broken) = rules[k]
  BY <1>1, FirstOfIs
<1> QED
  BY <1>2 DEF FirstBroken

LEMMA PolicyAlike ==
  ASSUME NEW p \in Optional(Policy)
  PROVE  PyPolicyLayer(p) = JsPolicyLayer(p)
<1> DEFINE rules == <<"P1", "P2", "P3", "P4", "P5">>
           late == {r \in {"P2", "P3", "P4", "P5"} :
                      \/ r = "P2" /\ ~ p.signature_valid
                      \/ r = "P3" /\ p.body.policy_id # Anchor.policy_id
                      \/ r = "P4" /\ (\/ p.body.version # Anchor.version
                                      \/ Missing \in {p.body.valid_from, p.body.valid_until}
                                      \/ DecisionTime < p.body.valid_from
                                      \/ p.body.valid_until < DecisionTime)
                      \/ r = "P5" /\ p.body # Anchor}
           broken == IF p = None THEN {"P1"} ELSE late
<1>1. PyPolicyLayer(p) = FirstBroken("policy", rules, broken)
  BY DEF PyPolicyLayer
<1>2. /\ DOMAIN rules = 1..5 /\ rules[1] = "P1" /\ rules[2] = "P2" /\ rules[3] = "P3"
      /\ rules[4] = "P4" /\ rules[5] = "P5"
  OBVIOUS
<1>3. p # None =>
        /\ broken \subseteq {"P2", "P3", "P4", "P5"}
        /\ "P2" \in broken <=> ~ p.signature_valid
        /\ "P3" \in broken <=> p.body.policy_id # Anchor.policy_id
        /\ "P4" \in broken <=>
             \/ p.body.version # Anchor.version
             \/ Missing \in {p.body.valid_from, p.body.valid_until}
             \/ DecisionTime < p.body.valid_from \/ p.body.valid_until < DecisionTime
        /\ "P5" \in broken <=> p.body # Anchor
  OBVIOUS
<1>4. p # None =>
        (~ InInclusiveWindow(p.body.valid_from, p.body.valid_until)
           <=> \/ Missing \in {p.body.valid_from, p.body.valid_until}
               \/ DecisionTime < p.body.valid_from \/ p.body.valid_until < DecisionTime)
  BY AnchorAssumption DEF Optional, Policy, PolicyBody, InInclusiveWindow, Missing
<1>5. p = None => broken = {"P1"}
  OBVIOUS
<1>6. /\ ResultOf("P1") = <<"MISSING", "policy.missing">>
      /\ ResultOf("P2") = <<"INVALID_SIGNATURE", "policy.signature">>
      /\ ResultOf("P3") = <<"SUBSTITUTED", "policy.substituted">>
      /\ ResultOf("P4") = <<"STALE", "policy.stale">>
      /\ ResultOf("P5") = <<"SUBSTITUTED", "policy.substituted">>
  BY DEF ResultOf
<1> HIDE DEF rules, late, broken
<1>7. /\ 1..1-1 = {} /\ 1..2-1 = {1} /\ 1..3-1 = {1, 2} /\ 1..4-1 = {1, 2, 3}
      /\ 1..5-1 = {1, 2, 3, 4} /\ {1, 2, 3, 4, 5} \subseteq 1..5 /\ 5 \in Nat
  OBVIOUS
<1>8. ASSUME NEW k \in 1..5, rules[k] \in broken, \A m \in 1..k-1 : rules[m] \notin broken
      PROVE  PyPolicyLayer(p)
               = Label(ResultOf(rules[k])[1], ResultOf(rules[k])[2], rules[k], 0)
  <2>1. k \in DOMAIN rules /\ DOMAIN rules \subseteq Nat \ {0}
    BY <1>2
  <2> QED
    BY <1>1, <1>8, <2>1, FirstRule
<1>9. CASE p = None
  BY <1>2, <1>5, <1>6, <1>7, <1>8, <1>9 DEF JsPolicyLayer
<1>10. CASE p # None /\ "P2" \in broken
  BY <1>2, <1>3, <1>6, <1>7, <1>8, <1>10 DEF JsPolicyLayer
<1>11. CASE p # None /\ "P2" \notin broken /\ "P3" \in broken
  BY <1>2, <1>3, <1>6, <1>7, <1>8, <1>11 DEF JsPolicyLayer
<1>12. CASE p # None /\ broken \cap {"P2", "P3"} = {} /\ "P4" \in broken
  BY <1>2, <1>3, <1>4, <1>6, <1>7, <1>8, <1>12 DEF JsPolicyLayer
<1>13. CASE p # None /\ broken = {"P5"}
  BY <1>2, <1>3, <1>4, <1>6, <1>7, <1>8, <1>13 DEF JsPolicyLayer
<1>14. CASE p # None /\ broken = {}
  BY <1>1, <1>3, <1>4, <1>14 DEF JsPolicyLayer, FirstBroken
<1> QED
  BY <1>3, <1>9, <1>10, <1>11, <1>12, <1>13, <1>14

LEMMA EvidenceAlike ==
  ASSUME NEW e
  PROVE  PyEvidenceLayer(e) = JsEvidenceLayer(e)
<1> DEFINE rules == <<"E1", "E2">>
           broken == {r \in {"E1", "E2"} : \/ r = "E1" /\ ~ e.signature_valid
                                           \/ r = "E2" /\ e.nonce \in PreseenNonces}
<1>1. PyEvidenceLayer(e) = FirstBroken("evidence", rules, broken)
  BY DEF PyEvidenceLayer
<1>2. DOMAIN rules = 1..2 /\ rules[1] = "E1" /\ rules[2] = "E2"
  OBVIOUS
<1>3. /\ broken \subseteq {"E1", "E2"}
      /\ "E1" \in broken <=> ~ e.signature_valid
      /\ "E2" \in broken <=> e.nonce \in PreseenNonces
  OBVIOUS
<1>4. /\ ResultOf("E1") = <<"TAMPERED", "evidence.integrity">>
      /\ ResultOf("E2") = <<"REPLAY", "evidence.replay">>
  BY DEF ResultOf
<1> HIDE DEF rules, broken
<1>5. 1..1-1 = {} /\ 1..2-1 = {1} /\ {1, 2} \subseteq 1..2
  OBVIOUS
<1>6. ASSUME NEW k \in 1..2, rules[k] \in broken, \A m \in 1..k-1 : rules[m] \notin broken
      PROVE  PyEvidenceLayer(e)
               = Label(ResultOf(rules[k])[1], ResultOf(rules[k])[2], rules[k], 0)
  <2>1. k \in DOMAIN rules /\ DOMAIN rules \subseteq Nat \ {0}
    BY <1>2
  <2> QED
    BY <1>1, <1>6, <2>1, FirstRule
<1>7. CASE "E1" \in broken
  BY <1>2, <1>3, <1>4, <1>5, <1>6, <1>7 DEF JsEvidenceLayer
<1>8. CASE broken = {"E2"}
  BY <1>2, <1>3, <1>4, <1>5, <1>6, <1>8 DEF JsEvidenceLayer
<1>9. CASE broken = {}
  BY <1>1, <1>3, <1>9 DEF JsEvidenceLayer, FirstBroken
<1> QED
  BY <1>3, <1>7, <1>8, <1>9

LEMMA StateAlike ==
  ASSUME NEW a, a.issued_at \in Nat, a.expires_at \in Nat
  PROVE  PyStateLayer(a) = JsStateLayer(a)
<1> DEFINE rules == <<"S1", "S2", "S3">>
           broken ==
             {r \in {"S1", "S2", "S3"} :
                \/ r = "S1" /\ a.status # "affirming"
                \/ r = "S2" /\ (\/ Missing \in {a.issued_at, a.expires_at}
                                \/ DecisionTime < a.issued_at \/ a.expires_at < DecisionTime)
                \/ r = "S3" /\ (\/ a.reference_digest = None
                                \/ a.observed_digest # a.reference_digest)}
<1>1. PyStateLayer(a) = FirstBroken("state", rules, broken)
  BY DEF PyStateLayer
<1>2. DOMAIN rules = 1..3 /\ rules[1] = "S1" /\ rules[2] = "S2" /\ rules[3] = "S3"
  OBVIOUS
<1>3. /\ broken \subseteq {"S1", "S2", "S3"}
      /\ "S1" \in broken <=> a.status # "affirming"
      /\ "S2" \in broken <=>
           \/ Missing \in {a.issued_at, a.expires_at}
           \/ DecisionTime < a.issued_at \/ a.expires_at < DecisionTime
      /\ "S3" \in broken <=> a.reference_digest = None \/ a.observed_digest # a.reference_digest
  OBVIOUS
<1>4. ~ InInclusiveWindow(a.issued_at, a.expires_at)
        <=> \/ Missing \in {a.issued_at, a.expires_at}
            \/ DecisionTime < a.issued_at \/ a.expires_at < DecisionTime
  BY AnchorAssumption DEF InInclusiveWindow, Missing
<1>5. /\ ResultOf("S1") = <<"CONTRAINDICATED", "state.contraindicated">>
      /\ ResultOf("S2") = <<"STALE", "state.stale">>
      /\ ResultOf("S3") = <<"REFERENCE_MISMATCH", "state.reference">>
  BY DEF ResultOf
<1> HIDE DEF rules, broken
<1>6. 1..1-1 = {} /\ 1..2-1 = {1} /\ 1..3-1 = {1, 2} /\ {1, 2, 3} \subseteq 1..3
  OBVIOUS
<1>7. ASSUME NEW k \in 1..3, rules[k] \in broken, \A m \in 1..k-1 : rules[m] \notin broken
      PROVE  PyStateLayer(a)
               = Label(ResultOf(rules[k])[1], ResultOf(rules[k])[2], rules[k], 0)
  <2>1. k \in DOMAIN rules /\ DOMAIN rules \subseteq Nat \ {0}
    BY <1>2
  <2> QED
    BY <1>1, <1>7, <2>1, FirstRule
<1>8. CASE "S1" \in broken
  BY <1>2, <1>3, <1>5, <1>6, <1>7, <1>8 DEF JsStateLayer
<1>9. CASE "S1" \notin broken /\ "S2" \in broken
  BY <1>2, <1>3, <1>4, <1>5, <1>6, <1>7, <1>9 DEF JsStateLayer
<1>10. CASE broken = {"S3"}
  BY <1>2, <1>3, <1>4, <1>5, <1>6, <1>7, <1>10 DEF JsStateLayer
<1>11. CASE broken = {}
  BY <1>1, <1>3, <1>4, <1>11 DEF JsStateLayer, FirstBroken
<1> QED
  BY <1>3, <1>8, <1>9, <1>10, <1>11

LEMMA MeasurementAlike ==
  ASSUME NEW f
  PROVE  PyMeasurementLayer(f) = JsMeasurementLayer(f)
<1> DEFINE rules == <<"M1", "M2", "M3">>
           broken ==
             {r \in {"M1", "M2", "M3"} :
                \/ r = "M1" /\ f.profile_digest # f.required_profile_digest
                \/ r = "M2" /\ f.point < f.threshold
                \/ r = "M3" /\ f.lcb < f.threshold}
<1>1. PyMeasurementLayer(f) = FirstBroken("measurement", rules, broken)
  BY DEF PyMeasurementLayer
<1>2. DOMAIN rules = 1..3 /\ rules[1] = "M1" /\ rules[2] = "M2" /\ rules[3] = "M3"
  OBVIOUS
<1>3. /\ broken \subseteq {"M1", "M2", "M3"}
      /\ "M1" \in broken <=> f.profile_digest # f.required_profile_digest
      /\ "M2" \in broken <=> f.point < f.threshold
      /\ "M3" \in broken <=> f.lcb < f.threshold
  OBVIOUS
<1>4. /\ ResultOf("M1") = <<"PROFILE_MISMATCH", "measurement.profile">>
      /\ ResultOf("M2") = <<"FAIL_POINT", "measurement.point">>
      /\ ResultOf("M3") = <<"FAIL_LCB", "measurement.confidence">>
  BY DEF ResultOf
<1> HIDE DEF rules, broken
<1>5. 1..1-1 = {} /\ 1..2-1 = {1} /\ 1..3-1 = {1, 2} /\ {1, 2, 3} \subseteq 1..3
  OBVIOUS
<1>6. ASSUME NEW k \in 1..3, rules[k] \in broken, \A m \in 1..k-1 : rules[m] \notin broken
      PROVE  PyMeasurementLayer(f)
               = Label(ResultOf(rules[k])[1], ResultOf(rules[k])[2], rules[k], 0)
  <2>1. k \in DOMAIN rules /\ DOMAIN rules \subseteq Nat \ {0}
    BY <1>2
  <2> QED
    BY <1>1, <1>6, <2>1, FirstRule
<1>7. CASE "M1" \in broken
  BY <1>2, <1>3, <1>4, <1>5, <1>6, <1>7 DEF JsMeasurementLayer
<1>8. CASE "M1" \notin broken /\ "M2" \in broken
  BY <1>2, <1>3, <1>4, <1>5, <1>6, <1>8 DEF JsMeasurementLayer
<1>9. CASE broken = {"M3"}
  BY <1>2, <1>3, <1>4, <1>5, <1>6, <1>9 DEF JsMeasurementLayer
<1>10. CASE broken = {}
  BY <1>1, <1>3, <1>10 DEF JsMeasurementLayer, FirstBroken
<1> QED
  BY <1>3, <1>7, <1>8, <1>9, <1>10

-----------------------------------------------------------------------------
(* Python's walk along the edges.                                          *)

(* Where it stands after n edges: before the first edge that fails. *)
Passed(c, n) ==
  LET broken == {m \in 1..n : EdgeBreaks(c, m) # {}}
  IN  IF broken = {} THEN n ELSE Smallest(broken) - 1

Standing(c, n) == [passed |-> Passed(c, n), carried |-> Carried(c, Passed(c, n) + 1)]

PyStep(c, f) ==
  [n \in 0..Len(c.edges) |->
     IF n = 0 THEN [passed |-> 0, carried |-> Root]
     ELSE IF \/ f[n - 1].passed < n - 1
             \/ EdgeFaults(c.edges[n], f[n - 1].carried, n = 1) # {}
     THEN f[n - 1]
     ELSE [passed |-> n, carried |-> Carry(c.edges[n])]]

LEMMA PassedStep ==
  ASSUME NEW c, NEW n \in Nat \ {0}
  PROVE  /\ Passed(c, 0) = 0
         /\ Passed(c, n - 1) \in 0..n-1
         /\ Passed(c, n - 1) < n - 1 => Passed(c, n) = Passed(c, n - 1)
         /\ Passed(c, n - 1) = n - 1 =>
              Passed(c, n) = IF EdgeBreaks(c, n) # {} THEN n - 1 ELSE n
<1> DEFINE broken(k) == {m \in 1..k : EdgeBreaks(c, m) # {}}
<1>1. Passed(c, 0) = 0
  BY DEF Passed
<1>2. \A k \in Nat : Passed(c, k) = IF broken(k) = {} THEN k ELSE Smallest(broken(k)) - 1
  BY DEF Passed
<1>3. /\ broken(n - 1) \in SUBSET Nat /\ broken(n - 1) \subseteq 1..n-1
      /\ broken(n) = broken(n - 1) \cup (IF EdgeBreaks(c, n) # {} THEN {n} ELSE {})
  OBVIOUS
<1> HIDE DEF broken
<1>4. CASE broken(n - 1) = {}
  <2>1. Passed(c, n - 1) = n - 1
    BY <1>2, <1>4
  <2>2. CASE EdgeBreaks(c, n) = {}
    BY <1>1, <1>2, <1>3, <1>4, <2>1, <2>2
  <2>3. CASE EdgeBreaks(c, n) # {}
    <3>1. broken(n) = {n}
      BY <1>3, <1>4, <2>3
    <3>2. Smallest(broken(n)) = n
      BY <3>1, SmallestIs
    <3> QED
      BY <1>1, <1>2, <2>1, <2>3, <3>1, <3>2
  <2> QED
    BY <2>2, <2>3
<1>5. CASE broken(n - 1) # {}
  <2>1. PICK m \in broken(n - 1) : \A k \in broken(n - 1) : m <= k
    BY <1>3, <1>5, LeastExists
  <2>2. m \in 1..n-1 /\ Smallest(broken(n - 1)) = m
    BY <1>3, <2>1, SmallestIs
  <2>3. broken(n) \in SUBSET Nat /\ m \in broken(n) /\ \A k \in broken(n) : m <= k
    BY <1>3, <2>1, <2>2
  <2>4. Smallest(broken(n)) = m
    BY <2>3, SmallestIs
  <2> QED
    BY <1>1, <1>2, <1>5, <2>2, <2>3, <2>4
<1> QED
  BY <1>4, <1>5

(* Standing satisfies the equation of the walk. *)
LEMMA StandingSteps ==
  ASSUME NEW c, Len(c.edges) \in Nat
  PROVE  LET f == [n \in 0..Len(c.edges) |-> Standing(c, n)]
         IN  f = PyStep(c, f)
<1> DEFINE f == [n \in 0..Len(c.edges) |-> Standing(c, n)]
<1>1. ASSUME NEW n \in 0..Len(c.edges) PROVE f[n] = PyStep(c, f)[n]
  <2>1. CASE n = 0
    <3>1. Standing(c, 0) = [passed |-> 0, carried |-> Root]
      <4>1. 1 \in Nat \ {0} /\ 0 + 1 = 1
        OBVIOUS
      <4>2. Passed(c, 0) = 0
        BY <4>1, PassedStep
      <4>3. Carried(c, 1) = Root
        BY DEF Carried
      <4> QED
        BY <4>1, <4>2, <4>3 DEF Standing
    <3> QED
      BY <2>1, <3>1 DEF PyStep
  <2>2. CASE n # 0
    <3> DEFINE p == Passed(c, n - 1)
    <3>1. n \in Nat \ {0} /\ n - 1 \in 0..Len(c.edges)
      BY <2>2
    <3>2. /\ f[n] = Standing(c, n) /\ f[n - 1] = Standing(c, n - 1)
          /\ f[n - 1].passed = p /\ f[n - 1].carried = Carried(c, p + 1)
      BY <3>1 DEF Standing
    <3>3. /\ p \in 0..n-1
          /\ p < n - 1 => Passed(c, n) = p
          /\ p = n - 1 => Passed(c, n) = IF EdgeBreaks(c, n) # {} THEN n - 1 ELSE n
      BY <3>1, PassedStep
    <3>4. PyStep(c, f)[n] =
            IF \/ f[n - 1].passed < n - 1
               \/ EdgeFaults(c.edges[n], f[n - 1].carried, n = 1) # {}
            THEN f[n - 1]
            ELSE [passed |-> n, carried |-> Carry(c.edges[n])]
      BY <2>2 DEF PyStep
    <3> HIDE DEF f, p
    <3>5. CASE p < n - 1
      BY <3>2, <3>3, <3>4, <3>5 DEF Standing, p
    <3>6. CASE p = n - 1
      <4>1. EdgeFaults(c.edges[n], f[n - 1].carried, n = 1) = EdgeBreaks(c, n)
        BY <3>1, <3>2, <3>6 DEF EdgeBreaks
      <4>2. CASE EdgeBreaks(c, n) # {}
        BY <3>2, <3>3, <3>4, <3>6, <4>1, <4>2 DEF Standing, p
      <4>3. CASE EdgeBreaks(c, n) = {}
        <5>1. Passed(c, n) = n
          BY <3>3, <3>6, <4>3
        <5>2. Carried(c, n + 1) = Carry(c.edges[n])
          BY <3>1 DEF Carried
        <5>3. ~ (p < n - 1)
          BY <3>1, <3>6
        <5> QED
          BY <3>2, <3>4, <4>1, <4>3, <5>1, <5>2, <5>3 DEF Standing
      <4> QED
        BY <4>2, <4>3
    <3> QED
      BY <3>1, <3>3, <3>5, <3>6
  <2> QED
    BY <2>1, <2>2
<1>2. f = [n \in 0..Len(c.edges) |-> f[n]]
  OBVIOUS
<1>3. PyStep(c, f) = [n \in 0..Len(c.edges) |-> PyStep(c, f)[n]]
  <2> HIDE DEF f
  <2> QED
    BY DEF PyStep
<1> HIDE DEF f
<1>4. f = PyStep(c, f)
  BY <1>1, <1>2, <1>3, Zenon
<1> QED
  BY <1>4 DEF f

(* The equation has one solution, so the recursion computes Standing. *)
LEMMA WalkStands ==
  ASSUME NEW c, Len(c.edges) \in Nat, NEW n \in 0..Len(c.edges)
  PROVE  PyWalk(c)[n] = Standing(c, n)
<1> DEFINE f == [m \in 0..Len(c.edges) |-> Standing(c, m)]
           w == PyWalk(c)
           bad == {m \in 0..Len(c.edges) : w[m] # f[m]}
<1>1. w = CHOOSE g : g = PyStep(c, g)
  BY DEF PyWalk, PyStep
<1>2. f = PyStep(c, f)
  BY StandingSteps
<1> HIDE DEF f, w
<1>3. w = PyStep(c, w)
  BY <1>1, <1>2
<1>4. bad = {}
  <2> SUFFICES ASSUME bad # {} PROVE FALSE
    OBVIOUS
  <2>1. PICK m \in bad : \A k \in bad : m <= k
    <3>1. bad \in SUBSET Nat
      OBVIOUS
    <3> HIDE DEF bad
    <3> QED
      BY <3>1, LeastExists
  <2>2. m \in 0..Len(c.edges) /\ w[m] # f[m] /\ m # 0 => w[m - 1] = f[m - 1]
    BY <2>1
  <2>3. m # 0 => m - 1 \in 0..Len(c.edges)
    BY <2>2
  <2>4. PyStep(c, w)[m] = PyStep(c, f)[m]
    BY <2>1, <2>2, <2>3 DEF PyStep
  <2> QED
    BY <1>2, <1>3, <2>1, <2>4
<1>5. w[n] = f[n]
  BY <1>4
<1> QED
  BY <1>5 DEF w, f

LEMMA AuthorityAlike ==
  ASSUME NEW c, Len(c.edges) \in Nat
  PROVE  PyAuthorityLayer(c) = JsAuthorityLayer(c)
<1> DEFINE hops == Len(c.edges)
           p == Passed(c, hops)
<1>1. PyWalk(c)[hops].passed = p /\ PyWalk(c)[hops].carried = Carried(c, p + 1)
  <2>1. hops \in 0..Len(c.edges)
    OBVIOUS
  <2>2. PyWalk(c)[hops] = Standing(c, hops)
    BY <2>1, WalkStands
  <2> QED
    BY <2>2 DEF Standing
<1>2. Broken(c) = {} => p = hops
  BY DEF Passed, Broken
<1>3. Broken(c) # {} =>
        /\ Smallest(Broken(c)) \in 1..hops
        /\ p = Smallest(Broken(c)) - 1
  <2> SUFFICES ASSUME Broken(c) # {}
               PROVE  Smallest(Broken(c)) \in 1..hops /\ p = Smallest(Broken(c)) - 1
    OBVIOUS
  <2>1. Broken(c) \in SUBSET Nat /\ Broken(c) \subseteq 1..hops
    BY DEF Broken
  <2>2. PICK m \in Broken(c) : \A n \in Broken(c) : m <= n
    BY <2>1, LeastExists
  <2>3. Smallest(Broken(c)) = m
    BY <2>1, <2>2, SmallestIs
  <2>4. p = Smallest(Broken(c)) - 1
    BY DEF Passed, Broken
  <2> QED
    BY <2>1, <2>2, <2>3, <2>4
<1> HIDE DEF p
<1>4. CASE ~ c.protocol_valid
  BY <1>4 DEF PyAuthorityLayer, JsAuthorityLayer
<1>5. CASE c.protocol_valid /\ Broken(c) # {}
  <2> DEFINE n == Smallest(Broken(c))
             g == FirstOf(EdgeOrder, EdgeBreaks(c, n))
  <2>1. n \in 1..hops /\ p = n - 1 /\ p < hops /\ p + 1 = n /\ (p = 0) = (n = 1)
    BY <1>3, <1>5
  <2>2. JsAuthorityLayer(c) = Label("DENY", g, RuleOf(g), n - 1)
    BY <1>5 DEF JsAuthorityLayer, Broken
  <2>3. EdgeFaults(c.edges[n], Carried(c, n), p = 0) = EdgeBreaks(c, n)
    BY <2>1 DEF EdgeBreaks
  <2> HIDE DEF n
  <2>4. PyAuthorityLayer(c) = Label("DENY", g, RuleOf(g), p)
    BY <1>1, <1>5, <2>1, <2>3 DEF PyAuthorityLayer
  <2> QED
    BY <2>1, <2>2, <2>4
<1>6. CASE c.protocol_valid /\ Broken(c) = {}
  <2>1. p = hops /\ ~ (p < hops)
    BY <1>2, <1>6
  <2> QED
    BY <1>1, <1>6, <2>1 DEF PyAuthorityLayer, JsAuthorityLayer, Broken
<1> QED
  BY <1>4, <1>5, <1>6

(* Two programs, two orders of work, one label: the labellers agree on     *)
(* every field of every layer of every transaction.                        *)
THEOREM LabellersAgree ==
  ASSUME NEW t \in TransactionType
  PROVE  PyEvaluate(t) = JsEvaluate(t)
<1>1. /\ t.policy \in Optional(Policy) /\ Len(t.authority_case.edges) \in Nat
      /\ t.attestation.issued_at \in Nat /\ t.attestation.expires_at \in Nat
  BY DEF TransactionType, CaseType, Attestation
<1>2. /\ PyPolicyLayer(t.policy) = JsPolicyLayer(t.policy)
      /\ PyEvidenceLayer(t.evidence) = JsEvidenceLayer(t.evidence)
      /\ PyStateLayer(t.attestation) = JsStateLayer(t.attestation)
      /\ PyAuthorityLayer(t.authority_case) = JsAuthorityLayer(t.authority_case)
      /\ PyMeasurementLayer(t.fixture) = JsMeasurementLayer(t.fixture)
  BY <1>1, PolicyAlike, EvidenceAlike, StateAlike, AuthorityAlike, MeasurementAlike
<1> QED
  BY <1>2 DEF PyEvaluate, JsEvaluate

(* Both labellers give every transaction the results, the verdict and the  *)
(* gate that the composed verifier saves, but for a failed binding and for *)
(* layers that the verifier took past a window without a start, which both *)
(* say are stale.                                                          *)
THEOREM LabelsAreExact == TransactionSpec => []LabelsAreTheRules
<1>1. IInv /\ TransactionInv => LabelsAreTheRules
  <2> SUFFICES ASSUME IInv, TransactionInv PROVE LabelsAreTheRules
    OBVIOUS
  <2>1. JsIsLabelled
    BY InvJsIsLabelled
  <2>2. PyEvaluate(tx) = JsEvaluate(tx)
    BY LabellersAgree DEF TransactionInv, TransactionTypeOK
  <2>3. PyIsLabelled
    BY <2>1, <2>2 DEF JsIsLabelled, PyIsLabelled
  <2> QED
    BY <2>1, <2>3 DEF LabelsAreTheRules
<1> QED
  BY WalkInvariance, TransactionInvariance, <1>1, PTL
=============================================================================
