----------------------- MODULE ContainerRevocationMC -----------------------
(***************************************************************************)
(* Two sets of clients for ContainerRevocation.                            *)
(*                                                                         *)
(* Races: clients that obey no script.  Requests on one credential and two *)
(* keys (one guarded key tried twice, once through the proxy; one more     *)
(* guarded key) race with its initialisation and two revocations, while    *)
(* requests time out and containers stop.                                  *)
(*                                                                         *)
(* Script: the cases of run_matrix.py.  One case in each profile: the      *)
(* credential is initialised and read, then the commit goes through the    *)
(* proxy and, when that has failed or returned, again to effect-b, while   *)
(* the revocation comes at any time or never.                              *)
(***************************************************************************)
EXTENDS ContainerRevocation

Call(op, cred, key, instance, route, needs, retries) ==
  [op |-> op, cred |-> cred, key |-> key, instance |-> instance,
   route |-> route, needs |-> needs, retries |-> retries]

RaceRequest ==
  [init    |-> Call("initialize", "c", NoKey, "status_a", "direct", {}, NoCall),
   revoke  |-> Call("revoke", "c", NoKey, "status_a", "direct", {}, NoCall),
   again   |-> Call("revoke", "c", NoKey, "status_a", "direct", {"revoke"}, NoCall),
   first   |-> Call("guarded_commit", "c", "k1", "effect_a", "proxy", {}, NoCall),
   retry   |-> Call("guarded_commit", "c", "k1", "effect_b", "direct", {}, "first"),
   other   |-> Call("guarded_commit", "c", "k2", "effect_b", "direct", {"init"}, NoCall)]

ScriptRequest ==
  [init    |-> Call("initialize", "c", NoKey, "status_a", "direct", {}, NoCall),
   read    |-> Call("status_read", "c", NoKey, "status_a", "direct", {"init"}, NoCall),
   revoke  |-> Call("revoke", "c", NoKey, "status_a", "direct", {"read"}, NoCall),
   first   |-> Call("guarded_commit", "c", "k1", "effect_a", "proxy", {"read"}, NoCall),
   retry   |-> Call("guarded_commit", "c", "k1", "effect_b", "direct", {}, "first"),
   weak    |-> Call("unguarded_commit", "c", "k2", "effect_a", "proxy", {"read"}, NoCall),
   weakRetry |-> Call("unguarded_commit", "c", "k2", "effect_b", "direct", {}, "weak")]

RaceCalls   == DOMAIN RaceRequest
ScriptCalls == DOMAIN ScriptRequest

(* The faults the runner asks for on proxied calls, and none. *)
RaceFaults   == {"none", "drop_after_forward"}
ScriptFaults == {"none", "drop_before_forward", "drop_after_forward"}

(* The script meets the hypotheses of the theorem FaultsRecovered; the     *)
(* races, which have outages, do not claim to.                             *)
ASSUME ScriptAssumption == MaxOutages = 0 => RetriesAreScripted
=============================================================================
