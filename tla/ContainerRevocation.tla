------------------------ MODULE ContainerRevocation ------------------------
(***************************************************************************)
(* The containerised durable-revocation lab: a status service and two      *)
(* effect services over one SQLite store, a fault proxy in front of the    *)
(* first effect service, and the clients of the runner.                    *)
(*                                                                         *)
(* A request is a call.  Its server side and its client side move apart:   *)
(* the client may give up, or its response may be lost, while the handler  *)
(* thread goes on to commit.  Every store operation of the code runs       *)
(* between BEGIN IMMEDIATE and commit(); here Begin takes SQLite's write   *)
(* lock and makes the reads, and the operation's own action makes the      *)
(* writes and releases the lock.                                           *)
(***************************************************************************)
EXTENDS Naturals, Sequences

CONSTANTS
  Creds,        \* credential identifiers
  Keys,         \* idempotency keys
  Instances,    \* service containers: status-a, effect-a, effect-b
  Calls,        \* the requests the clients may send
  NoCall, NoKey,
  request,      \* what each call asks of whom (see RequestType)
  Faults,       \* the values of tyche_fault the clients use
  MaxOutages    \* bound on timeouts, lock timeouts and container stops

StatusOps == {"initialize", "status_read", "revoke"}
CommitOps == {"guarded_commit", "unguarded_commit"}

(* needs: calls the client waits for before it sends this one.             *)
(* retries: the call it repeats, sent once that one has returned or failed *)
(* (the runner repeats the request whatever the proxied call gave).        *)
RequestType ==
  [op : StatusOps \cup CommitOps, cred : Creds, key : Keys \cup {NoKey},
   instance : Instances, route : {"direct", "proxy"},
   needs : SUBSET Calls, retries : Calls \cup {NoCall}]

ASSUME ConstantsAssumption ==
  /\ NoCall \notin Calls
  /\ NoKey \notin Keys
  /\ request \in [Calls -> RequestType]
  /\ \A x \in Calls : request[x].key \in Keys <=> request[x].op \in CommitOps
  /\ Faults \subseteq {"none", "drop_before_forward", "drop_after_forward"}
  /\ MaxOutages \in Nat

(* run_matrix.py derives the key from the case: all the calls that carry a *)
(* key ask for the same effect of the same credential.                     *)
ASSUME KeyAssumption ==
  \A x, y \in Calls :
    request[x].key = request[y].key /\ request[x].key \in Keys
      => /\ request[x].cred = request[y].cred
         /\ request[x].op = request[y].op

VARIABLES
  credentials,  \* table credentials: [status, sequence], "absent" when no row
  events,       \* table events, in event_id order
  decisions,    \* table decisions: key -> event_id, 0 when no row
  effects,      \* table effects:   key -> event_id, 0 when no row
  writer,       \* the call whose transaction holds the write lock
  held,         \* what each open transaction has read: [prior, item]
  server,       \* server side of each call
  answer,       \* the result a finished transaction will be answered with
  client,       \* client side of each call
  fault,        \* the fault the client asks the proxy to inject
  outages       \* timeouts, lock timeouts and stops so far

tables == <<credentials, events, decisions, effects>>
lock   == <<writer, held>>
vars   == <<tables, lock, server, answer, client, fault, outages>>

Op(x)      == request[x].op
Cred(x)    == request[x].cred
Key(x)     == request[x].key
CommitCalls == {x \in Calls : Op(x) \in CommitOps}

Absent   == [status |-> "absent", sequence |-> 0]
NoRead   == [prior |-> 0, item |-> Absent]
NoAnswer == [event |-> 0, replay |-> FALSE]

(* The row an operation appends to events: effect is effect_committed, and *)
(* "null" on the rows that are not commits.                                *)
Row(x, status, sequence, effect) ==
  [credential |-> Cred(x), instance |-> request[x].instance,
   operation |-> Op(x), status |-> status, sequence |-> sequence,
   effect |-> effect, key |-> Key(x)]

Init ==
  /\ credentials = [c \in Creds |-> Absent]
  /\ events = <<>>
  /\ decisions = [k \in Keys |-> 0]
  /\ effects = [k \in Keys |-> 0]
  /\ writer = NoCall
  /\ held = [x \in Calls |-> NoRead]
  /\ server = [x \in Calls |-> "idle"]
  /\ answer = [x \in Calls |-> NoAnswer]
  /\ client = [x \in Calls |-> "unsent"]
  /\ fault = [x \in Calls |-> "none"]
  /\ outages = 0

-----------------------------------------------------------------------------
(* Clients and the fault proxy.                                            *)

(* Client.request opens the call, directly or through the proxy. *)
Send(x) ==
  /\ client[x] = "unsent"
  /\ \A y \in request[x].needs : client[y] = "answered"
  /\ request[x].retries # NoCall => client[request[x].retries] \in {"answered", "failed"}
  /\ client' = [client EXCEPT ![x] = "waiting"]
  /\ \/ /\ request[x].route = "direct"
        /\ server' = [server EXCEPT ![x] = "queued"]
        /\ UNCHANGED fault
     \/ /\ request[x].route = "proxy"
        /\ server' = [server EXCEPT ![x] = "proxied"]
        /\ \E f \in Faults : fault' = [fault EXCEPT ![x] = f]
  /\ UNCHANGED <<tables, lock, answer, outages>>

(* Mutant: the proxy keeps the connection of a lost request open. *)
Unnoticed(x) == UNCHANGED client

(* A client that is still waiting sees an exception; one that has given up *)
(* or already failed notices nothing.                                      *)
Lost(x) ==
  client' = [client EXCEPT ![x] = IF @ = "waiting" THEN "failed" ELSE @]

(* forward() with drop_before_forward: disconnect, nothing is forwarded. *)
DropRequest(x) ==
  /\ server[x] = "proxied"
  /\ fault[x] = "drop_before_forward"
  /\ server' = [server EXCEPT ![x] = "closed"]
  /\ Lost(x)
  /\ UNCHANGED <<tables, lock, answer, fault, outages>>

(* forward() otherwise: the request reaches the upstream effect service. *)
Forward(x) ==
  /\ server[x] = "proxied"
  /\ fault[x] # "drop_before_forward"
  /\ server' = [server EXCEPT ![x] = "queued"]
  /\ UNCHANGED <<tables, lock, answer, client, fault, outages>>

(* The client's 20 s or the proxy's 15 s timeout: the caller fails while   *)
(* the request stays wherever it is.                                       *)
GiveUp(x) ==
  /\ client[x] = "waiting"
  /\ outages < MaxOutages
  /\ outages' = outages + 1
  /\ client' = [client EXCEPT ![x] = "failed"]
  /\ UNCHANGED <<tables, lock, server, answer, fault>>

-----------------------------------------------------------------------------
(* Transactions of the store.                                              *)

(* Mutant: look the key up among the effects, so a denial is forgotten. *)
PriorEffect(x) == effects[Key(x)]
(* The event that already decided the key, 0 when there is none. *)
PriorDecision(x) == decisions[Key(x)]

(* Mutant: a deferred BEGIN, whose reads do not wait for the writer. *)
Unlocked == TRUE
LockIsFree == writer = NoCall

(* BEGIN IMMEDIATE and the reads of the transaction. *)
Begin(x) ==
  /\ server[x] = "queued"
  /\ LockIsFree
  /\ writer' = x
  /\ held' = [held EXCEPT ![x] =
       [prior |-> IF x \in CommitCalls THEN PriorDecision(x) ELSE 0,
        item  |-> credentials[Cred(x)]]]
  /\ server' = [server EXCEPT ![x] = "writing"]
  /\ UNCHANGED <<tables, answer, client, fault, outages>>

(* BEGIN IMMEDIATE finds the database locked for busy_timeout: the handler *)
(* thread dies of an OperationalError and the connection closes.           *)
LockTimeout(x) ==
  /\ server[x] = "queued"
  /\ writer # NoCall
  /\ outages < MaxOutages
  /\ outages' = outages + 1
  /\ server' = [server EXCEPT ![x] = "closed"]
  /\ Lost(x)
  /\ UNCHANGED <<tables, lock, answer, fault>>

(* commit() of the transaction of x: the lock is released and the handler  *)
(* holds the event to answer with.                                         *)
Finish(x, event, replay) ==
  /\ server[x] = "writing"
  /\ server' = [server EXCEPT ![x] = "finished"]
  /\ answer' = [answer EXCEPT ![x] = [event |-> event, replay |-> replay]]
  /\ writer' = NoCall
  /\ held' = [held EXCEPT ![x] = NoRead]
  /\ UNCHANGED <<client, fault, outages>>

Log(row) == events' = Append(events, row)

Initialize(x) ==
  /\ Op(x) = "initialize"
  /\ held[x].item = Absent
  /\ credentials' =
       [credentials EXCEPT ![Cred(x)] = [status |-> "active", sequence |-> 1]]
  /\ Log(Row(x, "active", 1, "null"))
  /\ Finish(x, Len(events) + 1, FALSE)
  /\ UNCHANGED <<decisions, effects>>

StatusRead(x) ==
  /\ Op(x) = "status_read"
  /\ held[x].item # Absent
  /\ Log(Row(x, held[x].item.status, held[x].item.sequence, "null"))
  /\ Finish(x, Len(events) + 1, FALSE)
  /\ UNCHANGED <<credentials, decisions, effects>>

(* Mutant: a revocation never counts. *)
SequenceUnchanged(x) == held[x].item.sequence
RevokedSequence(x) ==
  IF held[x].item.status # "revoked" THEN held[x].item.sequence + 1 ELSE held[x].item.sequence

Revoke(x) ==
  /\ Op(x) = "revoke"
  /\ held[x].item # Absent
  /\ LET sequence == RevokedSequence(x)
     IN  /\ credentials' = [credentials EXCEPT ![Cred(x)] =
                              [status |-> "revoked", sequence |-> sequence]]
         /\ Log(Row(x, "revoked", sequence, "null"))
  /\ Finish(x, Len(events) + 1, FALSE)
  /\ UNCHANGED <<decisions, effects>>

(* commit() finds the key among the decisions: the stored event, allowed   *)
(* or denied, is the answer and nothing is written.                        *)
Replay(x) ==
  /\ x \in CommitCalls
  /\ held[x].prior # 0
  /\ Finish(x, held[x].prior, TRUE)
  /\ UNCHANGED tables

(* Mutant: the effect service trusts an earlier read of the status. *)
AlwaysAllowed(x) == TRUE
Allowed(x) == Op(x) = "guarded_commit" => held[x].item.status = "active"

(* Mutant: only an allowed decision is recorded. *)
DecisionIfAllowed(x, event) ==
  IF Allowed(x) THEN [decisions EXCEPT ![Key(x)] = event] ELSE decisions
Decided(x, event) == [decisions EXCEPT ![Key(x)] = event]

(* commit() decides: one event, one decision, and an effect if committed. *)
Commit(x) ==
  /\ x \in CommitCalls
  /\ held[x].prior = 0
  /\ held[x].item # Absent
  /\ LET event == Len(events) + 1
     IN  /\ Log(Row(x, held[x].item.status, held[x].item.sequence,
                    IF Allowed(x) THEN "committed" ELSE "denied"))
         /\ decisions' = Decided(x, event)
         /\ effects' = IF Allowed(x) THEN [effects EXCEPT ![Key(x)] = event]
                                     ELSE effects
         /\ Finish(x, event, FALSE)
  /\ UNCHANGED credentials

(* KeyError (no such credential) or IntegrityError (already initialised):  *)
(* rollback and a 4xx response, which the client's urlopen raises.         *)
Reject(x) ==
  /\ server[x] = "writing"
  /\ IF Op(x) = "initialize" THEN held[x].item # Absent
     ELSE held[x].item = Absent /\ held[x].prior = 0
  /\ server' = [server EXCEPT ![x] = "closed"]
  /\ writer' = NoCall
  /\ held' = [held EXCEPT ![x] = NoRead]
  /\ Lost(x)
  /\ UNCHANGED <<tables, answer, fault, outages>>

-----------------------------------------------------------------------------
(* Responses and container stops.                                          *)

(* send_signed, relayed by the proxy when there is one.  With              *)
(* drop_after_forward the proxy disconnects instead of relaying.  A client *)
(* that has gone away is a BrokenPipeError the handler swallows.           *)
Respond(x) ==
  /\ server[x] = "finished"
  /\ server' = [server EXCEPT ![x] = "closed"]
  /\ client' = [client EXCEPT ![x] =
       IF @ # "waiting" THEN @
       ELSE IF fault[x] = "drop_after_forward" THEN "failed" ELSE "answered"]
  /\ UNCHANGED <<tables, lock, answer, fault, outages>>

(* A container stops and comes back: its threads die, an open transaction  *)
(* rolls back, the store stays.                                            *)
Stop(i) ==
  LET Killed(x) == /\ request[x].instance = i
                   /\ server[x] \in {"queued", "writing", "finished"}
  IN  /\ \E x \in Calls : Killed(x)
      /\ outages < MaxOutages
      /\ outages' = outages + 1
      /\ server' = [x \in Calls |-> IF Killed(x) THEN "closed" ELSE server[x]]
      /\ client' = [x \in Calls |->
           IF Killed(x) /\ client[x] = "waiting" THEN "failed" ELSE client[x]]
      /\ writer' = IF \E x \in Calls : Killed(x) /\ x = writer THEN NoCall ELSE writer
      /\ held' = [x \in Calls |-> IF Killed(x) THEN NoRead ELSE held[x]]
      /\ UNCHANGED <<tables, answer, fault>>

Transact(x) ==
  Initialize(x) \/ StatusRead(x) \/ Revoke(x) \/ Replay(x) \/ Commit(x) \/ Reject(x)

Next ==
  \/ \E x \in Calls :
       \/ Send(x) \/ DropRequest(x) \/ Forward(x) \/ GiveUp(x)
       \/ Begin(x) \/ LockTimeout(x)
       \/ Initialize(x) \/ StatusRead(x) \/ Revoke(x)
       \/ Replay(x) \/ Commit(x) \/ Reject(x)
       \/ Respond(x)
  \/ \E i \in Instances : Stop(i)

Spec == Init /\ [][Next]_vars

(* Handler threads run, the proxy forwards, SQLite's busy handler retries  *)
(* until the lock is free, and the runner sends the next request of its    *)
(* script.  Revocation is the operator's choice: no fairness.              *)
Fairness ==
  \A x \in Calls :
    /\ Op(x) # "revoke" => WF_vars(Send(x))
    /\ WF_vars(DropRequest(x) \/ Forward(x))
    /\ WF_vars(Begin(x))
    /\ WF_vars(Transact(x))
    /\ WF_vars(Respond(x))

FairSpec == Spec /\ Fairness

-----------------------------------------------------------------------------
(* Correctness.                                                            *)

ActiveRow  == [status |-> "active", sequence |-> 1]
RevokedRow == [status |-> "revoked", sequence |-> 2]
CredentialRow == {Absent, ActiveRow, RevokedRow}
EventRow ==
  [credential : Creds, instance : Instances, operation : StatusOps \cup CommitOps,
   status : {"active", "revoked"}, sequence : 1..2,
   effect : {"null", "committed", "denied"}, key : Keys \cup {NoKey}]

(* Every variable has its type. A credential has one of the two rows that  *)
(* initialize (container_service.py:136) and the first revoke (:183)       *)
(* write; a repeated revocation writes no third.                           *)
TypeOK ==
  /\ credentials \in [Creds -> CredentialRow]
  /\ events \in Seq(EventRow)
  /\ decisions \in [Keys -> Nat]
  /\ effects \in [Keys -> Nat]
  /\ writer \in Calls \cup {NoCall}
  /\ held \in [Calls -> [prior : Nat, item : CredentialRow]]
  /\ server \in [Calls -> {"idle", "proxied", "queued", "writing", "finished", "closed"}]
  /\ answer \in [Calls -> [event : Nat, replay : BOOLEAN]]
  /\ client \in [Calls -> {"unsent", "waiting", "answered", "failed"}]
  /\ fault \in [Calls -> {"none", "drop_before_forward", "drop_after_forward"}]
  /\ outages \in 0..MaxOutages

IsCommit(n) == events[n].operation \in CommitOps

(* No false allow: in event_id order, no guarded commit that was committed *)
(* follows a revocation of its credential, whichever instance, retry or    *)
(* interleaving produced it (run_matrix.py:453).                           *)
NoFalseAllow ==
  \A r, n \in 1..Len(events) :
    ~ /\ r < n
      /\ events[r].operation = "revoke"
      /\ events[n].operation = "guarded_commit"
      /\ events[n].effect = "committed"
      /\ events[r].credential = events[n].credential

(* One idempotency key is decided by at most one commit event, whatever    *)
(* was lost, retried or served by the other instance, and the two tables   *)
(* point at that event: decisions always, effects when it committed        *)
(* (run_matrix.py:480).                                                    *)
OneDecisionPerKey ==
  \A n \in 1..Len(events) : IsCommit(n) =>
    /\ decisions[events[n].key] = n
    /\ effects[events[n].key] = IF events[n].effect = "committed" THEN n ELSE 0

Answered(x) == x \in CommitCalls /\ client[x] = "answered"

(* What a caller was told is the durable truth: every answer for a key is  *)
(* the one decision of the key, and says committed exactly when the        *)
(* effects table holds the effect. So two answers never disagree.          *)
AnswersAreDurable ==
  \A x \in Calls : Answered(x) =>
    /\ answer[x].event = decisions[Key(x)]
    /\ answer[x].event \in 1..Len(events)
    /\ (events[answer[x].event].effect = "committed") <=> (effects[Key(x)] # 0)

(* The log tells one history per credential: sequence numbers never step   *)
(* back, status and sequence agree, and every event after a revocation     *)
(* shows the credential revoked.                                           *)
LogIsLinear ==
  \A m, n \in 1..Len(events) :
    m < n /\ events[m].credential = events[n].credential =>
      /\ events[m].sequence <= events[n].sequence
      /\ (events[m].sequence = events[n].sequence) <=> (events[m].status = events[n].status)
      /\ events[n].operation # "initialize"

RevokeAcknowledged(c) ==
  \E y \in Calls : Op(y) = "revoke" /\ Cred(y) = c /\ client[y] = "answered"

Untried(k) == \A x \in CommitCalls : Key(x) = k => client[x] = "unsent"

(* Real-time order across processes: once a revoke has been acknowledged,  *)
(* a guarded effect whose first request is sent afterwards never takes     *)
(* effect.                                                                 *)
RevocationIsRespected ==
  \A x \in CommitCalls : Op(x) = "guarded_commit" =>
    [](RevokeAcknowledged(Cred(x)) /\ Untried(Key(x)) => [](effects[Key(x)] = 0))

(* The fault cases of run_matrix.py:186-284: a request that is repeated has *)
(* a key of its own, and a credential that was served before it.           *)
RetriesAreScripted ==
  \A x, y \in CommitCalls : request[y].retries = x =>
    /\ request[x].retries = NoCall
    /\ Key(y) = Key(x)
    /\ \A z \in CommitCalls : Key(z) = Key(x) => z \in {x, y}
    /\ \E z \in request[x].needs : z \notin CommitCalls /\ Cred(z) = Cred(x)

(* The assertions of run_matrix.py:460-479 on the fault cases, for a run   *)
(* with no timeout and no stop (MaxOutages = 0): a request dropped before  *)
(* forwarding is decided by the instance that serves the retry; a response *)
(* dropped after forwarding is recovered as a replay of the decision the   *)
(* proxied instance made.                                                  *)
FaultsAreRecovered ==
  \A x, y \in CommitCalls : request[y].retries = x /\ Answered(y) =>
    LET origin == events[answer[y].event].instance
    IN  /\ fault[x] = "drop_before_forward" =>
             ~ answer[y].replay /\ origin = request[y].instance
        /\ fault[x] = "drop_after_forward" =>
             answer[y].replay /\ origin = request[x].instance

(* Every scripted case ends: some caller of each key is told the decision, *)
(* although the proxy may lose the request or the response of the first    *)
(* attempt (run_matrix.py:198-200).                                        *)
EveryKeyIsAnswered ==
  \A x \in CommitCalls :
    <>(\E y \in CommitCalls : Key(y) = Key(x) /\ client[y] = "answered")

-----------------------------------------------------------------------------
(* The abstract service.                                                   *)

Decision(n) == IF n = 0 THEN "undecided" ELSE events[n].effect

KeyCred == [k \in Keys |-> Cred(CHOOSE x \in CommitCalls : Key(x) = k)]
GuardedKeys == {k \in Keys : \E x \in Calls : Key(x) = k /\ Op(x) = "guarded_commit"}
CallKey == [x \in CommitCalls |-> Key(x)]
StatusMap == [c \in Creds |-> credentials[c].status]
OutcomeMap == [k \in Keys |-> Decision(decisions[k])]
HeardMap == [x \in CommitCalls |->
               IF client[x] = "answered" THEN Decision(answer[x].event) ELSE "nothing"]

Promise == INSTANCE AtomicDecision WITH
  Callers <- CommitCalls, credOf <- KeyCred, guarded <- GuardedKeys, keyOf <- CallKey,
  status <- StatusMap, outcome <- OutcomeMap, heard <- HeardMap

(* The lab implements the abstract service: every step of the containers,  *)
(* the proxy and the clients is one step of AtomicDecision or a stutter.   *)
ImplementsPromise == Promise!AbsSpec

-----------------------------------------------------------------------------
(* The inductive invariant behind NoFalseAllow, OneDecisionPerKey,         *)
(* AnswersAreDurable and ImplementsPromise.                                *)

(* Only the holder of the write lock is inside a transaction, and what it  *)
(* has read is still what the tables say.                                  *)
ReadsAreCurrent ==
  \A x \in Calls :
    /\ server[x] = "writing" <=> writer = x
    /\ server[x] = "writing" =>
         /\ held[x].item = credentials[Cred(x)]
         /\ held[x].prior = IF x \in CommitCalls THEN decisions[Key(x)] ELSE 0

(* What each event says of the moment it was written. *)
EventIsSound(e) ==
  /\ e.sequence = 1 <=> e.status = "active"
  /\ e.operation = "initialize" => e.status = "active"
  /\ e.operation = "revoke" => e.status = "revoked"
  /\ e.operation = "guarded_commit" => (e.effect = "committed" <=> e.status = "active")
  /\ e.operation \in CommitOps => e.key \in Keys /\ e.effect # "null"

LogIsSound ==
  \A n \in 1..Len(events) :
    /\ EventIsSound(events[n])
    /\ events[n].sequence <= credentials[events[n].credential].sequence
    /\ \A m \in 1..Len(events) :
         m < n /\ events[m].credential = events[n].credential =>
           events[m].sequence <= events[n].sequence /\ events[n].operation # "initialize"

(* decisions and effects are exactly what the commit events say. *)
TablesMatchLog ==
  /\ \A n \in 1..Len(events) : IsCommit(n) => decisions[events[n].key] = n
  /\ \A k \in Keys :
       /\ decisions[k] # 0 =>
            /\ decisions[k] \in 1..Len(events)
            /\ events[decisions[k]].key = k
            /\ IsCommit(decisions[k])
       /\ effects[k] = IF decisions[k] # 0 /\ events[decisions[k]].effect = "committed"
                       THEN decisions[k] ELSE 0

(* A finished commit call carries the decision of its key, and a call the  *)
(* client has not sent, or has an answer to, has no server side.           *)
AnswersAreDecisions ==
  \A x \in Calls :
    /\ client[x] = "unsent" => server[x] = "idle"
    /\ client[x] = "answered" => server[x] = "closed"
    /\ x \in CommitCalls /\ (server[x] = "finished" \/ client[x] = "answered") =>
         answer[x].event = decisions[Key(x)] /\ decisions[Key(x)] # 0

IInv == TypeOK /\ ReadsAreCurrent /\ LogIsSound /\ TablesMatchLog /\ AnswersAreDecisions
=============================================================================
