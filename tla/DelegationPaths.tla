--------------------------- MODULE DelegationPaths ---------------------------
(***************************************************************************)
(* The authority verifier: evaluate() walks the edges of a delegation path *)
(* from the root, carrying the principal, role and scope delegated so far, *)
(* and then checks the action and its effect receipt.  The first check     *)
(* that fails denies and names its gate.                                   *)
(*                                                                         *)
(* The independent oracle is a query over the whole case at once: all the  *)
(* violations of a case, each edge against the edge before it, and the     *)
(* first of them by stage and priority.                                    *)
(***************************************************************************)
EXTENDS DelegationRules

CONSTANT Cases        \* the cases evaluated

ASSUME CasesAssumption == Cases \subseteq CaseType

VARIABLES
  case,         \* the case under evaluation
  index,        \* edges already passed; Len(edges) + 1 once the action has passed
  parent,       \* [principal, role, scope] delegated by them
  verdict,      \* "none" until the walk ends
  gate,         \* the gate that denied, "verified" on ALLOW
  stage         \* the stage that denied: an edge, the action or the effect; else 0

vars == <<case, index, parent, verdict, gate, stage>>

Hops == Len(case.edges)

-----------------------------------------------------------------------------
(* The walk.                                                               *)

Init ==
  /\ case \in Cases
  /\ index = 0
  /\ parent = Root
  /\ verdict = "none"
  /\ gate = "none"
  /\ stage = 0

StageOf(n) == n

(* deny(): the stages before n have passed, those after are not evaluated. *)
Deny(g, n) ==
  /\ verdict' = "DENY"
  /\ gate' = g
  /\ stage' = StageOf(n)
  /\ UNCHANGED <<case, index, parent>>

(* The first check in order that fails denies at stage n. *)
DenyFirst(order, faults, n) ==
  \E k \in DOMAIN order :
    /\ order[k] \in faults
    /\ \A m \in 1..k-1 : order[m] \notin faults
    /\ Deny(order[k], n)

Running == verdict = "none"

(* The protocol envelope is checked before anything else, and a denial is  *)
(* put on the first edge.                                                  *)
CheckProtocol ==
  /\ Running
  /\ index = 0
  /\ ~ case.protocol_valid
  /\ Deny("protocol.valid", 0)

(* Mutant: the scope of the root is kept for the edges below. *)
RoleAndPrincipal(e) == [principal |-> e.delegate, role |-> e.to_role, scope |-> parent.scope]
Delegated(e) == [principal |-> e.delegate, role |-> e.to_role, scope |-> e.grant]

CheckEdge ==
  /\ Running
  /\ case.protocol_valid
  /\ index < Hops
  /\ LET e == case.edges[index + 1]
         faults == EdgeFaults(e, parent, index = 0)
     IN  \/ DenyFirst(EdgeOrder, faults, index)
         \/ /\ faults = {}
            /\ index' = index + 1
            /\ parent' = Delegated(e)
            /\ UNCHANGED <<case, verdict, gate, stage>>

CheckAction ==
  /\ Running
  /\ case.protocol_valid
  /\ index = Hops
  /\ LET faults == ActionFaults(case.action, parent)
     IN  \/ DenyFirst(ActionOrder, faults, Hops)
         \/ /\ faults = {}
            /\ index' = index + 1
            /\ UNCHANGED <<case, parent, verdict, gate, stage>>

CheckEffect ==
  /\ Running
  /\ index = Hops + 1
  /\ LET faults == EffectFaults(case.receipt, case.action)
     IN  \/ DenyFirst(EffectOrder, faults, Hops + 1)
         \/ /\ faults = {}
            /\ verdict' = "ALLOW"
            /\ gate' = "verified"
            /\ UNCHANGED <<case, index, parent, stage>>

Next == CheckProtocol \/ CheckEdge \/ CheckAction \/ CheckEffect

Spec == Init /\ [][Next]_vars

-----------------------------------------------------------------------------
(* The oracle: oracle_delegation_paths.sql.                                *)

(* What edge n (or, after the last edge, the action) is compared with: the *)
(* root, or the row of the edge before it.                                 *)
SqlParent(n) ==
  IF n = 1 THEN Root
  ELSE LET p == case.edges[n - 1]
       IN  [principal |-> p.delegate, role |-> p.to_role, scope |-> p.grant]

SqlEdgeFaults(n) ==
  LET e == case.edges[n]
      p == SqlParent(n)
  IN  {g \in Gates(EdgeOrder) :
         \/ g = "edge.lineage" /\ (e.delegator # p.principal \/ e.from_role # p.role)
         \/ g = "edge.signature" /\ ~ e.issuer_signature_valid
         \/ g = "edge.parent_delegable" /\ n > 1 /\ ~ p.scope.delegable
         \/ g = "edge.role_transition" /\ e.to_role \notin base.transitions[e.from_role]
         \/ g = "edge.status" /\ e.status # "active"
         \/ g = "edge.freshness" /\ ~ (e.not_before <= EffectTime /\ EffectTime <= e.expires_at)
         \/ g = "edge.scope.operations" /\ \E o \in e.grant.operations : o \notin p.scope.operations
         \/ g = "edge.scope.resources" /\ \E o \in e.grant.resources : o \notin p.scope.resources
         \/ g = "edge.scope.tools" /\ \E o \in e.grant.tools : o \notin p.scope.tools
         \/ g = "edge.scope.audiences" /\ \E o \in e.grant.audiences : o \notin p.scope.audiences
         \/ g = "edge.scope.purposes" /\ \E o \in e.grant.purposes : o \notin p.scope.purposes
         \/ g = "edge.scope.currency" /\ e.grant.currency # p.scope.currency
         \/ g = "edge.scope.amount_max" /\ e.grant.amount_max > p.scope.amount_max}

(* The priority column of each gate's SELECT. *)
Priority(g) ==
  CASE g = "protocol.valid" -> 0
    [] g \in {"edge.lineage", "action.subject_role", "effect.native_validity"} -> 10
    [] g \in {"edge.signature", "action.operation", "effect.time_binding"} -> 20
    [] g = "action.resource" -> 21
    [] g = "action.tool" -> 22
    [] g = "action.audience" -> 23
    [] g = "action.purpose" -> 24
    [] g \in {"edge.parent_delegable", "action.amount_currency", "effect.action_binding"} -> 30
    [] g = "edge.role_transition" -> 40
    [] g = "edge.status" -> 50
    [] g = "edge.freshness" -> 60
    [] g = "edge.scope.operations" -> 70
    [] g = "edge.scope.resources" -> 71
    [] g = "edge.scope.tools" -> 72
    [] g = "edge.scope.audiences" -> 73
    [] g = "edge.scope.purposes" -> 74
    [] g = "edge.scope.currency" -> 80
    [] g = "edge.scope.amount_max" -> 81

(* The gates violated at a stage, whatever the other stages say.  The      *)
(* conditions on the action and the effect read as evaluate()'s do; the    *)
(* row they are applied to is found by its index, not carried along.       *)
Violated(n) ==
  {g \in {"protocol.valid"} : n = 0 /\ ~ case.protocol_valid}
    \cup (IF n < Hops THEN SqlEdgeFaults(n + 1)
          ELSE IF n = Hops THEN ActionFaults(case.action, SqlParent(Hops + 1))
          ELSE EffectFaults(case.receipt, case.action))

Stages == 0..Hops + 1

-----------------------------------------------------------------------------
(* Correctness.                                                            *)

AllGates ==
  {"none", "protocol.valid", "verified"}
    \cup Gates(EdgeOrder) \cup Gates(ActionOrder) \cup Gates(EffectOrder)

(* Every variable has its type; the stage of a denial is a stage of the    *)
(* case (verify_delegation_paths.py:101-110).                              *)
TypeOK ==
  /\ case \in CaseType
  /\ index \in Stages
  /\ parent \in [principal : Principals, role : Roles, scope : Scope]
  /\ verdict \in {"none", "ALLOW", "DENY"}
  /\ gate \in AllGates
  /\ stage \in Stages

(* The walk, which carries what has been delegated and stops at the first  *)
(* failed check, and the oracle, which looks at every row on its own,      *)
(* agree: ALLOW iff the case has no violation at all, and otherwise the    *)
(* denial names the first violation by stage and then by priority.         *)
FirstViolation ==
  /\ verdict = "ALLOW" => gate = "verified" /\ \A n \in Stages : Violated(n) = {}
  /\ verdict = "DENY" =>
       /\ gate \in Violated(stage)
       /\ \A n \in 0..stage - 1 : Violated(n) = {}
       /\ \A g \in Violated(stage) : g # gate => Priority(gate) < Priority(g)

Covers(scope, a) ==
  /\ a.operation \in scope.operations
  /\ a.resource \in scope.resources
  /\ a.tool \in scope.tools
  /\ a.audience \in scope.audiences
  /\ a.purpose \in scope.purposes
  /\ a.currency = scope.currency
  /\ a.amount <= scope.amount_max

(* Authority never widens on the way down: an allowed action is covered by *)
(* the root's scope and by the grant of every edge, not only the last one, *)
(* and every edge was signed, active and fresh, and allowed to delegate    *)
(* further if it did.                                                      *)
AuthorityNeverWidens ==
  verdict = "ALLOW" =>
    /\ Covers(base.scope, case.action)
    /\ \A n \in 1..Hops :
         LET e == case.edges[n]
         IN  /\ Covers(e.grant, case.action)
             /\ e.issuer_signature_valid /\ e.status = "active"
             /\ e.not_before <= EffectTime /\ EffectTime <= e.expires_at
             /\ n < Hops => e.grant.delegable

(* The effect receipt is for the allowed action, whose subject is reached  *)
(* from the root principal by an unbroken chain of delegations.            *)
SubjectIsReached ==
  verdict = "ALLOW" =>
    /\ case.receipt.action = case.action
    /\ case.edges[1].delegator = base.root_principal
    /\ \A n \in 1..Hops - 1 : case.edges[n + 1].delegator = case.edges[n].delegate
    /\ case.action.subject = case.edges[Hops].delegate

-----------------------------------------------------------------------------
(* The inductive invariant: what has been passed has no violation, parent  *)
(* is the last edge passed, and its scope lies within every scope above.   *)

Within(inner, outer) ==
  /\ inner.operations \subseteq outer.operations
  /\ inner.resources \subseteq outer.resources
  /\ inner.tools \subseteq outer.tools
  /\ inner.audiences \subseteq outer.audiences
  /\ inner.purposes \subseteq outer.purposes
  /\ inner.currency = outer.currency
  /\ inner.amount_max <= outer.amount_max

PassedIsSound ==
  /\ parent = SqlParent((IF index > Hops THEN Hops ELSE index) + 1)
  /\ index > 0 => case.protocol_valid
  /\ \A n \in 0..index - 1 : Violated(n) = {}

ScopeNarrows ==
  /\ Within(parent.scope, base.scope)
  /\ \A n \in 1..Hops : n <= index => Within(parent.scope, case.edges[n].grant)

AllowedAtEnd == verdict = "ALLOW" => index = Hops + 1

IInv == TypeOK /\ PassedIsSound /\ ScopeNarrows /\ FirstViolation /\ AllowedAtEnd
=============================================================================
