------------------------- MODULE RevocationProfiles -------------------------
(***************************************************************************)
(* The process-isolated revocation lab: one case of the runner (one        *)
(* credential, one idempotency key) against the status and effect          *)
(* processes over their common SQLite store.  The case fixes a profile (how *)
(* the caller uses the status it has read), a placement (when the          *)
(* revocation comes) and a fault.                                          *)
(*                                                                         *)
(* Every store operation of services.py is one BEGIN IMMEDIATE transaction *)
(* and is one atomic step here.  The runner waits for each of its calls,   *)
(* except for the two contenders of a simultaneous case and for the        *)
(* request it fires and aborts: those run on their own.                    *)
(***************************************************************************)
EXTENDS Naturals, Sequences, FiniteSets

CONSTANT
  Ages           \* possible ages of the cached status at the decision, in ms

TTL == 8         \* TTL_NS
ExpirySleep == 12

ASSUME AgesAssumption ==
  /\ Ages \subseteq Nat
  /\ \E a \in Ages : a >= ExpirySleep

Profiles   == {"atomic_guard", "double_read", "single_read", "ttl_cache"}
Placements == {"before_appraisal", "between_appraisal_and_commit",
               "after_cache_expiry", "after_final_read", "after_commit", "simultaneous"}
Faults     == {"response_loss_retry", "restart_after_commit"}

(* The cases main() runs: faults only with the placement active_commit. *)
Cases == [profile : Profiles, placement : Placements, fault : {"none"}]
           \cup [profile : Profiles, placement : {"active_commit"}, fault : Faults]

VARIABLES
  plan,         \* the case
  pc,           \* where execute_case is
  credential,   \* the row of the credential: [status, sequence]
  events,       \* table events
  effects,      \* event_ids of the rows of table effects for the key
  effectPid,    \* the effect process now running
  flight,       \* requests the runner does not wait for, still to be served
  reply,        \* what the contenders' calls returned: event_id, 0 if nothing
  trace,        \* event_ids of the responses the runner has collected
  effect,       \* the commit call's response: [event, replay]
  verdict       \* the result of finalize

store  == <<credential, events, effects>>
runner == <<plan, pc, trace, effect, verdict>>
vars   == <<store, runner, effectPid, flight, reply>>

NoEffect  == [event |-> 0, replay |-> FALSE]
NoVerdict == [accepted |-> FALSE, oracle |-> FALSE, duplicates |-> 0, recovery |-> FALSE]

Init ==
  /\ plan \in Cases
  /\ pc = "initialize"
  /\ credential = [status |-> "absent", sequence |-> 0]
  /\ events = <<>>
  /\ effects = {}
  /\ effectPid = "effect"
  /\ flight = {}
  /\ reply = [revoke |-> 0, commit |-> 0]
  /\ trace = <<>>
  /\ effect = NoEffect
  /\ verdict = NoVerdict

-----------------------------------------------------------------------------
(* The transactions of Store, each with the event it appends.              *)

Last == Len(events')

Log(operation, status, sequence, committed, process) ==
  events' = Append(events, [operation |-> operation, status |-> status,
              sequence |-> sequence, committed |-> committed, process |-> process])

Initialize ==
  /\ credential' = [status |-> "active", sequence |-> 1]
  /\ Log("initialize", "active", 1, FALSE, "status")
  /\ UNCHANGED effects

ReadStatus ==
  /\ Log("status_read", credential.status, credential.sequence, FALSE, "status")
  /\ UNCHANGED <<credential, effects>>

Revoke ==
  LET sequence == IF credential.status # "revoked" THEN credential.sequence + 1
                  ELSE credential.sequence
  IN  /\ credential' = [status |-> "revoked", sequence |-> sequence]
      /\ Log("revoke", "revoked", sequence, FALSE, "status")
      /\ UNCHANGED effects

Guarded == plan.profile = "atomic_guard"

(* Mutants: the guard trusts the reads before the commit; the service has  *)
(* no unguarded commit.                                                    *)
NothingChecked == TRUE
OnlyGuarded == Guarded /\ credential.status = "active"
Committed == Guarded => credential.status = "active"

KeyIsNew == effects = {}

(* commit() of the effect service answers with the stored event of the     *)
(* key's effect, or with the event it appends.                             *)
CommitResponse ==
  IF KeyIsNew THEN [event |-> Len(events) + 1, replay |-> FALSE]
  ELSE [event |-> CHOOSE e \in effects : TRUE, replay |-> TRUE]

CommitEffect ==
  IF KeyIsNew
  THEN /\ Log(IF Guarded THEN "guarded_commit" ELSE "unguarded_commit",
                  credential.status, credential.sequence, Committed, effectPid)
       /\ effects' = IF Committed THEN effects \cup {Last} ELSE effects
       /\ UNCHANGED credential
  ELSE UNCHANGED store

-----------------------------------------------------------------------------
(* The runner.                                                             *)

Goto(here, there) == pc = here /\ pc' = there

InitializeCredential ==
  /\ Goto("initialize", "before_appraisal")
  /\ Initialize
  /\ trace' = Append(trace, Last)
  /\ UNCHANGED <<plan, effectPid, flight, reply, effect, verdict>>

(* The points of execute_case where a placement puts its revocation. *)
Placed == [before_appraisal |-> {"before_appraisal"},
           appraised |-> {"between_appraisal_and_commit", "after_cache_expiry"},
           decided   |-> {"after_final_read"},
           committed |-> {"after_commit"}]
Following == [before_appraisal |-> "appraise", appraised |-> "decide",
              decided |-> "commit", committed |-> "tally"]

PlacedRevocation ==
  /\ pc \in DOMAIN Placed
  /\ pc' = Following[pc]
  /\ IF plan.placement \in Placed[pc]
     THEN Revoke /\ trace' = Append(trace, Last)
     ELSE UNCHANGED <<store, trace>>
  /\ UNCHANGED <<plan, effectPid, flight, reply, effect, verdict>>

(* A status read, after which the case goes on unless it shows revoked. *)
ReadAndGoto(next) ==
  /\ ReadStatus
  /\ trace' = Append(trace, Last)
  /\ pc' = IF credential.status = "revoked" THEN "tally" ELSE next

Appraise ==
  /\ pc = "appraise"
  /\ ReadAndGoto("appraised")
  /\ UNCHANGED <<plan, effectPid, flight, reply, effect, verdict>>

(* Mutants: double_read forgets its final read; the age test is the wrong way round. *)
OnlyTtlRereads(age) == plan.profile = "ttl_cache" /\ age >= TTL
YoungIsReread(age) == plan.profile = "double_read" \/ (plan.profile = "ttl_cache" /\ age < TTL)
Rereads(age) == plan.profile = "double_read" \/ (plan.profile = "ttl_cache" /\ age >= TTL)

(* The second read of double_read, and the refresh of a cached status      *)
(* whose age has reached the TTL. The sleep of after_cache_expiry bounds   *)
(* the age from below; otherwise it is whatever the scheduler makes it.    *)
Decide ==
  /\ pc = "decide"
  /\ \E age \in Ages :
       /\ plan.placement = "after_cache_expiry" => age >= ExpirySleep
       /\ IF Rereads(age) THEN ReadAndGoto("decided")
          ELSE pc' = "decided" /\ UNCHANGED <<store, trace>>
  /\ UNCHANGED <<plan, effectPid, flight, reply, effect, verdict>>

(* The commit call: the last of the case, on the retry too. *)
CommitCall ==
  /\ \/ pc = "commit" /\ plan.placement # "simultaneous" /\ plan.fault = "none"
     \/ pc = "retry"
  /\ CommitEffect
  /\ effect' = CommitResponse
  /\ trace' = Append(trace, effect'.event)
  /\ pc' = "committed"
  /\ UNCHANGED <<plan, effectPid, flight, reply, verdict>>

(* Two processes are released at once, one to revoke and one to commit. *)
ReleaseContenders ==
  /\ Goto("commit", "contend")
  /\ plan.placement = "simultaneous"
  /\ flight' = {"revoke", "commit"}
  /\ UNCHANGED <<plan, store, effectPid, reply, trace, effect, verdict>>

ContenderRevokes ==
  /\ "revoke" \in flight
  /\ Revoke
  /\ reply' = [reply EXCEPT !.revoke = Last]
  /\ flight' = flight \ {"revoke"}
  /\ UNCHANGED <<runner, effectPid>>

ContenderCommits ==
  /\ "commit" \in flight
  /\ CommitEffect
  /\ reply' = [reply EXCEPT !.commit = CommitResponse.event]
  /\ flight' = flight \ {"commit"}
  /\ UNCHANGED <<runner, effectPid>>

(* The queue has given both outputs; they enter the trace in a fixed order. *)
JoinContenders ==
  /\ Goto("contend", "committed")
  /\ reply.revoke # 0 /\ reply.commit # 0
  /\ trace' = trace \o <<reply.revoke, reply.commit>>
  /\ effect' = [event |-> reply.commit, replay |-> FALSE]
  /\ UNCHANGED <<plan, store, effectPid, flight, reply, verdict>>

(* fire_and_abort: the request is sent and the socket shut down. *)
FireAndAbort ==
  /\ Goto("commit", "poll")
  /\ plan.fault # "none"
  /\ flight' = flight \cup {"aborted"}
  /\ UNCHANGED <<plan, store, effectPid, reply, trace, effect, verdict>>

(* Its handler commits; the response meets a broken pipe. *)
ServeAborted ==
  /\ "aborted" \in flight
  /\ CommitEffect
  /\ flight' = flight \ {"aborted"}
  /\ UNCHANGED <<runner, effectPid, reply>>

(* Mutant: the runner goes on without waiting for the effect. *)
EffectNotAwaited == TRUE
EffectIsDurable == Cardinality(effects) = 1

(* effect_count has polled until it found the row. *)
PollEffect ==
  /\ Goto("poll", IF plan.fault = "restart_after_commit" THEN "restart" ELSE "retry")
  /\ EffectIsDurable
  /\ UNCHANGED <<plan, store, effectPid, flight, reply, trace, effect, verdict>>

(* The effect process is terminated, with the handlers it still runs, and  *)
(* another one is started on the same database.                            *)
RestartEffect ==
  /\ Goto("restart", "retry")
  /\ effectPid' = "restarted"
  /\ flight' = {}
  /\ UNCHANGED <<plan, store, reply, trace, effect, verdict>>

(* effect_count finds nothing for 10 s, or a contender's output does not   *)
(* come for 15 s: the runner raises and the experiment has no result. The  *)
(* requests in flight may still be served.                                 *)
WaitRunsOut ==
  /\ \/ pc = "poll" /\ effects = {}
     \/ pc = "contend" /\ (reply.revoke = 0 \/ reply.commit = 0)
  /\ pc' = "raised"
  /\ UNCHANGED <<plan, store, effectPid, flight, reply, trace, effect, verdict>>

(* finalize, and the counts execute_case makes before it. Without a commit *)
(* response the oracle is the last status in the trace.                    *)
Finalize ==
  /\ Goto("tally", "done")
  /\ LET asked == effect.event # 0
         accepted == asked /\ events[effect.event].committed
         count == Cardinality(effects)
     IN  verdict' =
           [accepted   |-> accepted,
            oracle     |-> events[IF asked THEN effect.event ELSE trace[Len(trace)]].status
                             = "active",
            duplicates |-> IF count > 0 /\ asked THEN count - (IF accepted THEN 1 ELSE 0) ELSE 0,
            recovery   |-> asked /\ plan.fault # "none" => effect.replay /\ count = 1]
  /\ UNCHANGED <<plan, store, effectPid, flight, reply, trace, effect>>

Runner ==
  \/ InitializeCredential \/ PlacedRevocation \/ Appraise \/ Decide \/ CommitCall
  \/ ReleaseContenders \/ JoinContenders \/ FireAndAbort \/ PollEffect
  \/ RestartEffect \/ Finalize

Next ==
  \/ Runner \/ WaitRunsOut
  \/ ContenderRevokes \/ ContenderCommits \/ ServeAborted

Spec == Init /\ [][Next]_vars

(* The runner's thread, the contender processes and the handler threads    *)
(* all run. That a wait runs out is never owed.                            *)
Fairness ==
  /\ WF_vars(Runner)
  /\ WF_vars(ContenderRevokes) /\ WF_vars(ContenderCommits) /\ WF_vars(ServeAborted)

FairSpec == Spec /\ Fairness

-----------------------------------------------------------------------------
(* Correctness.                                                            *)

Decided == pc = "done"
FalseAllow == verdict.accepted /\ ~ verdict.oracle
FalseDeny  == ~ verdict.accepted /\ verdict.oracle

(* The positions in the log of the events of some operations.              *)
At(operations) == {n \in 1..Len(events) : events[n].operation \in operations}
Revocations == At({"revoke"})
Commits == At({"guarded_commit", "unguarded_commit"})
Reads == At({"status_read"})

RevokedBefore(n) == \E x \in Revocations : x < n

FirstRead == CHOOSE n \in Reads : \A m \in Reads : n <= m
LastRead == CHOOSE n \in Reads : \A m \in Reads : m <= n

(* The read the profile's decision must rest on: the first when it shows   *)
(* the credential revoked, else whichever came last for the profiles that  *)
(* may read again, which double_read and an expired cache must.            *)
ReadsAgain ==
  \/ plan.profile = "double_read"
  \/ plan.profile = "ttl_cache" /\ plan.placement = "after_cache_expiry"
ReliedRead ==
  IF RevokedBefore(FirstRead) \/ plan.profile \in {"atomic_guard", "single_read"}
  THEN FirstRead ELSE LastRead

(* The lab agrees with the schedule predicates of the exhaustive model     *)
(* (CompositionModelCheck.java:157-210): with R the read the profile       *)
(* relies on, X the revocation and C the commit in the durable log, the    *)
(* case is accepted iff R < X, and C < X too for the atomic guard, which   *)
(* therefore never allows or denies falsely; a weak profile allows falsely *)
(* iff R < X < C. No effect is duplicated.                                 *)
VerdictFollowsSchedule ==
  Decided =>
    LET active == ~ RevokedBefore(ReliedRead)
    IN  /\ Reads # {}
        /\ ReadsAgain /\ ~ RevokedBefore(FirstRead) => FirstRead < LastRead
        /\ active <=> Commits # {}
        /\ verdict.accepted <=>
             active /\ (Guarded => \A c \in Commits : ~ RevokedBefore(c))
        /\ FalseAllow <=> active /\ ~ Guarded /\ \E c \in Commits : RevokedBefore(c)
        /\ ~ FalseDeny
        /\ verdict.duplicates = 0

(* What each placement shows (README.md of the live lab, same runner): a   *)
(* revocation after the final read fools every weak profile (so            *)
(* weak_counterexamples_observed, run_experiment.py:538, does not depend   *)
(* on luck); one after the cache expired fools single_read only, because   *)
(* ttl_cache refreshes; one before the appraisal is always denied and one  *)
(* after the commit never matters.                                         *)
PlacementOutcomes ==
  Decided /\ plan.fault = "none" =>
    CASE plan.placement = "before_appraisal" -> ~ verdict.accepted /\ ~ verdict.oracle
      [] plan.placement = "between_appraisal_and_commit" ->
           /\ plan.profile = "single_read" => FalseAllow
           /\ plan.profile \in {"double_read", "atomic_guard"} => ~ verdict.accepted
      [] plan.placement = "after_cache_expiry" -> FalseAllow <=> plan.profile = "single_read"
      [] plan.placement = "after_final_read" -> FalseAllow <=> ~ Guarded
      [] plan.placement = "after_commit" -> verdict.accepted /\ verdict.oracle
      [] OTHER -> verdict.accepted \/ Guarded

(* A response lost to an aborted client, with or without a restart of the  *)
(* effect process between the commit and the retry, is recovered: the      *)
(* retry is answered with the event the first process committed, and that  *)
(* is the only commit in the log (run_experiment.py:374-385).              *)
FaultsRecover ==
  Decided /\ plan.fault # "none" =>
    /\ verdict.recovery
    /\ verdict.accepted
    /\ Commits = {effect.event}
    /\ events[effect.event].process = "effect"
    /\ effectPid = "restarted" <=> plan.fault = "restart_after_commit"

(* Every case reaches its verdict unless a wait runs out, which it never   *)
(* has to: the poll for the aborted request's effect and the wait for the  *)
(* two contenders end by themselves (run_experiment.py:187, 350).          *)
CaseIsDecided == <>(Decided \/ pc = "raised")

-----------------------------------------------------------------------------
(* The case as a run of the abstract service: its key is named after the   *)
(* profile, and the verdict is what the caller hears.                      *)

Outcome ==
  IF Commits = {} THEN "undecided"
  ELSE IF effects # {} THEN "committed" ELSE "denied"
OutcomeMap == [p \in Profiles |-> IF p = plan.profile THEN Outcome ELSE "undecided"]
HeardMap == [p \in Profiles |->
  IF p # plan.profile \/ ~ Decided \/ effect.event = 0 THEN "nothing"
  ELSE IF verdict.accepted THEN "committed" ELSE "denied"]
StatusMap == [c \in {"credential"} |-> credential.status]

Promise == INSTANCE AtomicDecision WITH
  Creds <- {"credential"}, Keys <- Profiles, Callers <- Profiles,
  credOf <- [p \in Profiles |-> "credential"], keyOf <- [p \in Profiles |-> p],
  guarded <- {"atomic_guard"},
  status <- StatusMap, outcome <- OutcomeMap, heard <- HeardMap

(* A case of the process-isolated lab implements the same abstract service *)
(* as the containerised lab: its effect is decided once, at one instant,   *)
(* against the status of that instant if guarded, and finalize reports     *)
(* that decision whatever the fault.                                       *)
ImplementsPromise == Promise!AbsSpec
=============================================================================
