------------------------- MODULE DelegationPathsMC -------------------------
(***************************************************************************)
(* The cases of the walk: paths of one, two and four hops with up to two   *)
(* mutations.  Each is one value of one field of the case, a violation of  *)
(* every gate among them, some that only narrow, and some that shift a     *)
(* boundary.                                                               *)
(***************************************************************************)
EXTENDS DelegationPaths

Hop == {1, 2, 4}

BaseScope ==
  [operations |-> {"READ", "LIST"}, resources |-> {"invoice", "other"},
   tools |-> {"read", "write"},
   audiences |-> {"ledger"}, purposes |-> {"audit"},
   amount_max |-> 2, currency |-> "EUR", delegable |-> TRUE]

Base ==
  [root_principal |-> "anton", root_role |-> "owner",
   agents |-> <<"agent1", "agent2", "agent3", "agent4">>,
   role_path |-> <<"planner", "broker", "executor", "producer">>,
   transitions |-> [owner |-> {"planner"}, planner |-> {"broker"},
                    broker |-> {"executor"}, executor |-> {"producer"},
                    producer |-> {}],
   scope |-> BaseScope,
   action |-> [operation |-> "READ", resource |-> "invoice", tool |-> "read",
               audience |-> "ledger", purpose |-> "audit", amount |-> 1,
               currency |-> "EUR"]]

EdgeMutations(n) ==
  {<<<<"edges", n, "delegator">>, "intruder">>, <<<<"edges", n, "delegate">>, "intruder">>,
   <<<<"edges", n, "from_role">>, "executor">>, <<<<"edges", n, "to_role">>, "executor">>,
   <<<<"edges", n, "issuer_signature_valid">>, FALSE>>,
   <<<<"edges", n, "status">>, "revoked">>,
   <<<<"edges", n, "not_before">>, EffectTime + 1>>,
   <<<<"edges", n, "expires_at">>, EffectTime - 1>>,
   <<<<"edges", n, "expires_at">>, EffectTime>>,
   <<<<"edges", n, "grant", "operations">>, {"READ", "LIST", "WRITE"}>>,
   <<<<"edges", n, "grant", "operations">>, {"READ"}>>,
   <<<<"edges", n, "grant", "resources">>, {"secret"}>>,
   <<<<"edges", n, "grant", "tools">>, {"read", "write", "export"}>>,
   <<<<"edges", n, "grant", "tools">>, {}>>,
   <<<<"edges", n, "grant", "audiences">>, {"other"}>>,
   <<<<"edges", n, "grant", "purposes">>, {"other"}>>,
   <<<<"edges", n, "grant", "amount_max">>, 3>>,
   <<<<"edges", n, "grant", "amount_max">>, 0>>,
   <<<<"edges", n, "grant", "currency">>, "USD">>,
   <<<<"edges", n, "grant", "delegable">>, FALSE>>}

OtherMutations ==
  {<<<<"protocol_valid">>, FALSE>>,
   <<<<"action", "subject">>, "intruder">>, <<<<"action", "role">>, "owner">>,
   <<<<"action", "operation">>, "WRITE">>, <<<<"action", "resource">>, "secret">>,
   <<<<"action", "tool">>, "export">>, <<<<"action", "audience">>, "other">>,
   <<<<"action", "purpose">>, "other">>, <<<<"action", "amount">>, 2>>,
   <<<<"action", "amount">>, 3>>, <<<<"action", "currency">>, "USD">>,
   <<<<"receipt", "native_evidence_valid">>, FALSE>>,
   <<<<"receipt", "effect_time">>, EffectTime + 1>>,
   <<<<"receipt", "action", "operation">>, "WRITE">>}

Mutations(hops) == OtherMutations \cup UNION {EdgeMutations(n) : n \in 1..hops}

Window == <<1, 4>>

PathCases ==
  UNION {LET built == BuildCase(hops, Window)
             once == {ApplyMutation(built, m[1], m[2]) : m \in Mutations(hops)}
         IN  {built} \cup once
               \cup {ApplyMutation(c, m[1], m[2]) : c \in once, m \in Mutations(hops)}
         : hops \in Hop}
=============================================================================
