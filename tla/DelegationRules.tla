--------------------------- MODULE DelegationRules ---------------------------
(***************************************************************************)
(* A delegation path and what may be wrong with it: the checks of the      *)
(* authority verifier's evaluate() on one edge, on the action and on its   *)
(* effect receipt, and how the corpus builds a case and mutates it.  Which *)
(* of them are made, and against what, is left to the modules that walk a  *)
(* path; here nothing has a state.                                         *)
(***************************************************************************)
EXTENDS Naturals, Sequences

CONSTANTS
  Principals, Roles, Items, Currencies,
  base,         \* root_principal, root_role, role_path, transitions, scope, action
  EffectTime    \* the time at which the effect is authorised

Scope ==
  [operations : SUBSET Items, resources : SUBSET Items, tools : SUBSET Items,
   audiences : SUBSET Items, purposes : SUBSET Items,
   amount_max : Nat, currency : Currencies, delegable : BOOLEAN]

Edge ==
  [delegator : Principals, delegate : Principals, from_role : Roles, to_role : Roles,
   issuer_signature_valid : BOOLEAN, status : {"active", "revoked"},
   not_before : Nat, expires_at : Nat, grant : Scope]

Action ==
  [operation : Items, resource : Items, tool : Items, audience : Items, purpose : Items,
   amount : Nat, currency : Currencies, subject : Principals, role : Roles]

Receipt == [native_evidence_valid : BOOLEAN, effect_time : Nat, action : Action]

CaseType ==
  [protocol_valid : BOOLEAN, edges : Seq(Edge) \ {<<>>}, action : Action, receipt : Receipt]

ASSUME BaseAssumption ==
  /\ EffectTime \in Nat
  /\ base.root_principal \in Principals
  /\ base.root_role \in Roles
  /\ base.transitions \in [Roles -> SUBSET Roles]
  /\ base.scope \in Scope

Root == [principal |-> base.root_principal, role |-> base.root_role, scope |-> base.scope]

-----------------------------------------------------------------------------
(* The checks of evaluate(), in the order of its statements.               *)

(* Mutant: freshness is looked at before status. *)
FreshnessFirst ==
  <<"edge.lineage", "edge.signature", "edge.parent_delegable", "edge.role_transition",
    "edge.freshness", "edge.status", "edge.scope.operations", "edge.scope.resources",
    "edge.scope.tools", "edge.scope.audiences", "edge.scope.purposes",
    "edge.scope.currency", "edge.scope.amount_max">>
EdgeOrder ==
  <<"edge.lineage", "edge.signature", "edge.parent_delegable", "edge.role_transition",
    "edge.status", "edge.freshness", "edge.scope.operations", "edge.scope.resources",
    "edge.scope.tools", "edge.scope.audiences", "edge.scope.purposes",
    "edge.scope.currency", "edge.scope.amount_max">>

ActionOrder ==
  <<"action.subject_role", "action.operation", "action.resource", "action.tool",
    "action.audience", "action.purpose", "action.amount_currency">>

EffectOrder == <<"effect.native_validity", "effect.time_binding", "effect.action_binding">>

Gates(order) == {order[n] : n \in DOMAIN order}

(* What fails of edge e below p; first tells the edge from the root. *)
EdgeFaults(e, p, first) ==
  {g \in Gates(EdgeOrder) :
     \/ g = "edge.lineage" /\ (e.delegator # p.principal \/ e.from_role # p.role)
     \/ g = "edge.signature" /\ ~ e.issuer_signature_valid
     \/ g = "edge.parent_delegable" /\ ~ first /\ ~ p.scope.delegable
     \/ g = "edge.role_transition" /\ e.to_role \notin base.transitions[p.role]
     \/ g = "edge.status" /\ e.status # "active"
     \/ g = "edge.freshness" /\ ~ (e.not_before <= EffectTime /\ EffectTime <= e.expires_at)
     \/ g = "edge.scope.operations" /\ ~ (e.grant.operations \subseteq p.scope.operations)
     \/ g = "edge.scope.resources" /\ ~ (e.grant.resources \subseteq p.scope.resources)
     \/ g = "edge.scope.tools" /\ ~ (e.grant.tools \subseteq p.scope.tools)
     \/ g = "edge.scope.audiences" /\ ~ (e.grant.audiences \subseteq p.scope.audiences)
     \/ g = "edge.scope.purposes" /\ ~ (e.grant.purposes \subseteq p.scope.purposes)
     \/ g = "edge.scope.currency" /\ e.grant.currency # p.scope.currency
     \/ g = "edge.scope.amount_max" /\ e.grant.amount_max > p.scope.amount_max}

(* What fails of action a under p, the last delegation. *)
ActionFaults(a, p) ==
  {g \in Gates(ActionOrder) :
     \/ g = "action.subject_role" /\ (a.subject # p.principal \/ a.role # p.role)
     \/ g = "action.operation" /\ a.operation \notin p.scope.operations
     \/ g = "action.resource" /\ a.resource \notin p.scope.resources
     \/ g = "action.tool" /\ a.tool \notin p.scope.tools
     \/ g = "action.audience" /\ a.audience \notin p.scope.audiences
     \/ g = "action.purpose" /\ a.purpose \notin p.scope.purposes
     \/ g = "action.amount_currency" /\
          (a.currency # p.scope.currency \/ a.amount > p.scope.amount_max)}

(* Mutant: the receipt's action is not compared with the action. *)
Unbound(r, a) ==
  {g \in Gates(EffectOrder) :
     \/ g = "effect.native_validity" /\ ~ r.native_evidence_valid
     \/ g = "effect.time_binding" /\ r.effect_time # EffectTime}

(* What fails of receipt r for action a. *)
EffectFaults(r, a) ==
  {g \in Gates(EffectOrder) :
     \/ g = "effect.native_validity" /\ ~ r.native_evidence_valid
     \/ g = "effect.time_binding" /\ r.effect_time # EffectTime
     \/ g = "effect.action_binding" /\ r.action # a}

-----------------------------------------------------------------------------
(* The corpus: a case is built from the base and then mutated.             *)

(* build_case: hops edges down the role path, all alike. *)
Agent(n) == IF n = 0 THEN base.root_principal ELSE base.agents[n]
RoleAt(n) == IF n = 0 THEN base.root_role ELSE base.role_path[n]

BuildCase(hops, window) ==
  LET a == base.action
      action == [operation |-> a.operation, resource |-> a.resource, tool |-> a.tool,
                 audience |-> a.audience, purpose |-> a.purpose, amount |-> a.amount,
                 currency |-> a.currency, subject |-> Agent(hops), role |-> RoleAt(hops)]
  IN  [protocol_valid |-> TRUE,
       edges |-> [n \in 1..hops |->
         [delegator |-> Agent(n - 1), delegate |-> Agent(n),
          from_role |-> RoleAt(n - 1), to_role |-> RoleAt(n),
          issuer_signature_valid |-> TRUE, status |-> "active",
          not_before |-> window[1], expires_at |-> window[2], grant |-> base.scope]],
       action |-> action,
       receipt |-> [native_evidence_valid |-> TRUE, effect_time |-> EffectTime,
                    action |-> action]]

(* apply_mutation: the value at the end of a path is replaced. *)
ApplyMutation(c, path, value) ==
  CASE Len(path) = 1 -> [c EXCEPT ![path[1]] = value]
    [] Len(path) = 2 -> [c EXCEPT ![path[1]][path[2]] = value]
    [] Len(path) = 3 -> [c EXCEPT ![path[1]][path[2]][path[3]] = value]
    [] Len(path) = 4 -> [c EXCEPT ![path[1]][path[2]][path[3]][path[4]] = value]
=============================================================================
