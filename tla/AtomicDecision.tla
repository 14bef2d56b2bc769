--------------------------- MODULE AtomicDecision ---------------------------
(***************************************************************************)
(* What the durable revocation service promises to its callers, without    *)
(* tables, transactions, instances or lost responses: every idempotency    *)
(* key is decided at most once, at one instant, against the credential     *)
(* status of that instant; every caller that hears anything about a key    *)
(* hears that one decision; a revoked credential stays revoked.            *)
(***************************************************************************)
CONSTANTS
  Creds,      \* credential identifiers
  Keys,       \* idempotency keys, one for each intended effect
  Callers,    \* the requests that may ask for a decision
  credOf,     \* the credential whose authority a key's effect consumes
  guarded,    \* the keys decided by the guarded profile
  keyOf       \* the key a caller asks about

VARIABLES
  status,     \* of each credential
  outcome,    \* of each key
  heard       \* by each caller

absVars == <<status, outcome, heard>>

AbsInit ==
  /\ status  = [c \in Creds |-> "absent"]
  /\ outcome = [k \in Keys |-> "undecided"]
  /\ heard   = [x \in Callers |-> "nothing"]

Enroll(c) ==
  /\ status[c] = "absent"
  /\ status' = [status EXCEPT ![c] = "active"]
  /\ UNCHANGED <<outcome, heard>>

Withdraw(c) ==
  /\ status[c] = "active"
  /\ status' = [status EXCEPT ![c] = "revoked"]
  /\ UNCHANGED <<outcome, heard>>

Decide(k) ==
  /\ outcome[k] = "undecided"
  /\ status[credOf[k]] # "absent"
  /\ outcome' = [outcome EXCEPT ![k] =
       IF k \in guarded /\ status[credOf[k]] = "revoked"
       THEN "denied" ELSE "committed"]
  /\ UNCHANGED <<status, heard>>

Hear(x) ==
  /\ heard[x] = "nothing"
  /\ outcome[keyOf[x]] # "undecided"
  /\ heard' = [heard EXCEPT ![x] = outcome[keyOf[x]]]
  /\ UNCHANGED <<status, outcome>>

AbsNext ==
  \/ \E c \in Creds : Enroll(c) \/ Withdraw(c)
  \/ \E k \in Keys : Decide(k)
  \/ \E x \in Callers : Hear(x)

AbsSpec == AbsInit /\ [][AbsNext]_absVars
=============================================================================
