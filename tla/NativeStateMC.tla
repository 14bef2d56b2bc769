---------------------------- MODULE NativeStateMC ----------------------------
(***************************************************************************)
(* Four transactions under two roots.  The corpus has another order than   *)
(* the identifiers, so that the alternate of the first representative is   *)
(* that representative, and the one of the second is another vector.       *)
(***************************************************************************)
EXTENDS NativeState

Positions == <<3, 1, 2, 4>>

Appraised(status, expires, observed) ==
  [status |-> status, issued_at |-> 1, expires_at |-> expires,
   reference_digest |-> "d", observed_digest |-> observed]

(* At the decision time, 3, one window has closed and one is closing. *)
Affirmed == Appraised("affirming", 4, "d")
Denied == Appraised("contraindicated", 2, "d")
Attestations ==
  {Affirmed, Denied, Appraised("affirming", 2, "other"), Appraised("affirming", 3, "other")}

Passing ==
  [policy |-> "PASS", evidence |-> "PASS", authority |-> "ALLOW", gate |-> "authorized",
   measurement |-> "PASS", binding |-> "PASS"]

Others(id) ==
  CASE id = 1 -> Passing
    [] id = 2 -> [Passing EXCEPT !.evidence = "REPLAY"]
    [] id = 3 -> [Passing EXCEPT !.authority = "DENY", !.gate = "edge.signature"]
    [] id = 4 -> [Passing EXCEPT !.binding = "TIME_MISMATCH"]

AllCorpora ==
  {[id \in Ids |-> [attestation |-> kinds[id], others |-> Others(id)]] :
     kinds \in {k \in [Ids -> Attestations] : k[1] # k[2] /\ k[3] = Denied /\ k[4] = Affirmed}}
=============================================================================
