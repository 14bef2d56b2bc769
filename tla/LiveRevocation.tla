---------------------------- MODULE LiveRevocation ----------------------------
(***************************************************************************)
(* The live revocation lab: one process that serves statuses, revocations  *)
(* and commits over HTTP under one lock, and runs a suite of cases against *)
(* itself.  A case has a credential of its own, a profile (how the caller  *)
(* uses the status it has read) and a placement (when the revocation       *)
(* comes); in a simultaneous case two threads released from one barrier    *)
(* revoke and commit.  There are no idempotency keys and no retries: a     *)
(* call that does not come back within its 5 s ends the suite.             *)
(*                                                                         *)
(* What the service does under its lock is one step, together with the     *)
(* arrival of the answer when the runner waits for nothing else.           *)
(***************************************************************************)
EXTENDS Naturals, Sequences, FiniteSets

CONSTANTS
  Trials,       \* SIMULTANEOUS_TRIALS
  Ages          \* possible ages of the cached status at the decision, in ms

TTL == 50           \* TTL_CACHE_NS
ExpiryDelay == 75   \* TTL_EXPIRY_DELAY_S

ASSUME SuiteAssumption ==
  /\ Trials \in Nat
  /\ Ages \subseteq Nat
  /\ \E age \in Ages : age >= ExpiryDelay

Profiles == <<"atomic_guard", "double_read", "single_read", "ttl_cache">>

Deterministic ==
  <<"before_appraisal", "between_appraisal_and_commit", "after_cache_expiry",
    "after_final_read", "after_commit">>

CaseOf(profile, placement, serial) ==
  [profile |-> profile, placement |-> placement, serial |-> serial]

(* The cases of one profile, in the order of main(). *)
CasesOf(profile) ==
  [n \in 1..(Len(Deterministic) + Trials) |->
     IF n <= Len(Deterministic) THEN CaseOf(profile, Deterministic[n], n - 1)
     ELSE CaseOf(profile, "simultaneous", n - Len(Deterministic) - 1)]

Suite == CasesOf(Profiles[1]) \o CasesOf(Profiles[2]) \o CasesOf(Profiles[3])
           \o CasesOf(Profiles[4])

Cases == {Suite[n] : n \in DOMAIN Suite}

VARIABLES
  credentials,  \* of the service: case -> its credential's [status, sequence]
  events,       \* of the service, on the credential of the running case
  position,     \* in the suite
  pc,           \* where execute_case is
  trace,        \* the answers the runner has collected
  context,      \* decision_context
  threads,      \* of a simultaneous case: what each has got from its call
  rows,         \* the results so far
  report        \* all_passed

service == <<credentials, events>>
runner == <<position, pc, trace, context, rows>>
vars == <<service, runner, threads, report>>

Case == Suite[position]

-----------------------------------------------------------------------------
(* RevocationState: what each operation does under the lock.               *)

Active == [status |-> "active", sequence |-> 1]

Revoked(c) ==
  IF c.status # "revoked" THEN [status |-> "revoked", sequence |-> c.sequence + 1] ELSE c

(* Mutants: a commit is guarded by nothing, or always guarded. *)
NoGuard(operation, c) == operation # "status_read" /\ operation # "revoke"
Effect(operation, c) ==
  \/ operation = "unguarded_commit"
  \/ operation = "guarded_commit" /\ c.status = "active"

EventOf(operation) ==
  LET before == credentials[Case]
      after == IF operation = "revoke" THEN Revoked(before) ELSE before
  IN  [linearization_index |-> Len(events) + 1, operation |-> operation,
       status |-> after.status, sequence |-> after.sequence,
       effect_committed |-> Effect(operation, after)]

Serve(operation) ==
  /\ events' = Append(events, EventOf(operation))
  /\ credentials' = IF operation = "revoke"
                    THEN [credentials EXCEPT ![Case] = Revoked(@)] ELSE credentials

-----------------------------------------------------------------------------
(* Answers and events in some order.                                       *)

PositionsIn(order, operations) == {n \in DOMAIN order : order[n].operation \in operations}
Earliest(positions) == CHOOSE n \in positions : \A m \in positions : n <= m
Latest(positions) == CHOOSE n \in positions : \A m \in positions : m <= n

ThreadOf ==
  [revoke |-> {"revoke"}, commit |-> {"guarded_commit", "unguarded_commit"}]

Commits(order) == PositionsIn(order, ThreadOf["commit"])
CommitIn(order) == order[Earliest(Commits(order))]

-----------------------------------------------------------------------------
(* execute_case.                                                           *)

Idle == [revoke |-> "idle", commit |-> "idle"]
NoContext == [cache_hit |-> FALSE, cache_refresh |-> FALSE]

Init ==
  /\ credentials = [c \in Cases |-> [status |-> "absent", sequence |-> 0]]
  /\ events = <<>>
  /\ position = 1
  /\ pc = "initialize"
  /\ trace = <<>>
  /\ context = NoContext
  /\ threads = Idle
  /\ rows = <<>>
  /\ report = "none"

(* execute_case calls the state itself here, and not the service. *)
InitializeCredential ==
  /\ pc = "initialize"
  /\ credentials' = [credentials EXCEPT ![Case] = Active]
  /\ events' = <<>>
  /\ trace' = <<>>
  /\ context' = NoContext
  /\ pc' = "before"
  /\ UNCHANGED <<position, rows, threads, report>>

Goto(step) ==
  /\ pc' = step
  /\ UNCHANGED <<service, position, trace, context, rows, threads, report>>

(* A call the runner waits for, and the step it goes on with. *)
Call(operation, step) ==
  /\ Serve(operation)
  /\ trace' = Append(trace, EventOf(operation))
  /\ pc' = step
  /\ UNCHANGED <<position, context, rows, threads, report>>

Read(step) ==
  Call("status_read", IF credentials[Case].status = "revoked" THEN "finalize" ELSE step)

(* The four places where a deterministic revocation may stand. *)
PlacesAt ==
  [before |-> {"before_appraisal"},
   appraised |-> {"between_appraisal_and_commit", "after_cache_expiry"},
   decided |-> {"after_final_read"},
   committed |-> {"after_commit"}]
AfterPlace ==
  [before |-> "appraise", appraised |-> "decide", decided |-> "commit",
   committed |-> "finalize"]

Place ==
  /\ pc \in DOMAIN PlacesAt
  /\ IF Case.placement \in PlacesAt[pc] THEN Call("revoke", AfterPlace[pc])
     ELSE Goto(AfterPlace[pc])

Appraise ==
  /\ pc = "appraise"
  /\ Read("appraised")

DoubleRead ==
  /\ pc = "decide"
  /\ Case.profile = "double_read"
  /\ Read("decided")

NoSecondRead ==
  /\ pc = "decide"
  /\ Case.profile \in {"atomic_guard", "single_read"}
  /\ Goto("decided")

(* Mutant: the age is compared with the delay of the forced expiry.        *)
HitWithinDelay(age) == age <= ExpiryDelay
CacheHit(age) == age < TTL

(* The cached status, younger than the TTL or not; a forced expiry has     *)
(* waited longer than it.                                                  *)
ReadCache ==
  /\ pc = "decide"
  /\ Case.profile = "ttl_cache"
  /\ \E age \in Ages :
       /\ Case.placement = "after_cache_expiry" => age >= ExpiryDelay
       /\ context' = [cache_hit |-> CacheHit(age), cache_refresh |-> ~ CacheHit(age)]
       /\ pc' = IF CacheHit(age) THEN "decided" ELSE "refresh"
  /\ UNCHANGED <<service, position, trace, rows, threads, report>>

Refresh ==
  /\ pc = "refresh"
  /\ Read("decided")

CommitOf(profile) ==
  IF profile = "atomic_guard" THEN "guarded_commit" ELSE "unguarded_commit"

(* The status that each profile goes by: the appraisal of single_read, and *)
(* the last one read, or still in the cache, of the others.                *)
Reads == PositionsIn(trace, {"status_read"})
ReliedOn == trace[IF Case.profile = "single_read" THEN Earliest(Reads) ELSE Latest(Reads)]

(* What the code asserts of it before it commits. *)
AssertionHolds == Case.profile = "atomic_guard" \/ ReliedOn.status = "active"

Commit ==
  /\ pc = "commit"
  /\ Case.placement # "simultaneous"
  /\ Call(CommitOf(Case.profile), "committed")

ReleaseThreads ==
  /\ pc = "commit"
  /\ Case.placement = "simultaneous"
  /\ threads' = [revoke |-> "sent", commit |-> "sent"]
  /\ pc' = "join"
  /\ UNCHANGED <<service, position, trace, context, rows, report>>

(* The handler of a thread's request: also after its client gave up.       *)
HandleThread(t) ==
  /\ threads[t] \in {"sent", "gone"}
  /\ Serve(IF t = "revoke" THEN "revoke" ELSE CommitOf(Case.profile))
  /\ threads' = [threads EXCEPT ![t] = IF @ = "sent" THEN "answered" ELSE "failed"]
  /\ UNCHANGED <<runner, report>>

(* The thread's 5 s run out, and it dies with its exception. *)
ThreadTimesOut(t) ==
  /\ threads[t] \in {"sent", "answered"}
  /\ pc = "join"
  /\ threads' = [threads EXCEPT ![t] = IF @ = "sent" THEN "gone" ELSE "failed"]
  /\ UNCHANGED <<service, runner, report>>

AnswerTo(t) ==
  CHOOSE e \in {events[n] : n \in DOMAIN events} : e.operation \in ThreadOf[t]

(* Both threads have ended; an output that is missing is a KeyError. *)
JoinThreads ==
  /\ pc = "join"
  /\ \A t \in DOMAIN threads : threads[t] # "sent"
  /\ IF \A t \in DOMAIN threads : threads[t] = "answered"
     THEN /\ trace' = trace \o <<AnswerTo("revoke"), AnswerTo("commit")>>
          /\ pc' = "finalize"
          /\ threads' = Idle
          /\ UNCHANGED <<service, position, context, rows, report>>
     ELSE Goto("raised")

(* The operation that the runner waits for, at the steps where it does. *)
Waiting ==
  IF pc \in {"appraise", "refresh"} \/ (pc = "decide" /\ Case.profile = "double_read")
  THEN {"status_read"}
  ELSE IF pc \in DOMAIN PlacesAt /\ Case.placement \in PlacesAt[pc] THEN {"revoke"}
  ELSE IF pc = "commit" /\ Case.placement # "simultaneous" THEN {CommitOf(Case.profile)}
  ELSE {}

(* The answer does not come, whether the service got the request or not.   *)
CallTimesOut ==
  /\ Waiting # {}
  /\ \/ \E operation \in Waiting : Serve(operation)
     \/ UNCHANGED service
  /\ pc' = "raised"
  /\ UNCHANGED <<position, trace, context, rows, threads, report>>

-----------------------------------------------------------------------------
(* finalize, and the verdict of the suite.                                 *)

(* The answers, sorted by their index. Mutant: as the runner has them. *)
Before(n) ==
  {m \in DOMAIN trace : trace[m].linearization_index < trace[n].linearization_index}
AsCollected == trace
EventOrder ==
  [k \in DOMAIN trace |-> trace[CHOOSE n \in DOMAIN trace : Cardinality(Before(n)) = k - 1]]

Finalize ==
  /\ pc = "finalize"
  /\ LET asked == Commits(trace) # {}
     IN  rows' = Append(rows,
           [case |-> Case,
            accepted |-> asked /\ CommitIn(trace).effect_committed,
            oracle |-> (IF asked THEN CommitIn(trace) ELSE trace[Len(trace)]).status = "active",
            decision_context |-> context,
            event_order |-> EventOrder])
  /\ position' = position + 1
  /\ pc' = IF position = Len(Suite) THEN "report" ELSE "initialize"
  /\ UNCHANGED <<service, trace, context, threads, report>>

FalseAllow(row) == row.accepted /\ ~ row.oracle
FalseDeny(row) == ~ row.accepted /\ row.oracle

RowsOf(profile) == {rows[n] : n \in {k \in DOMAIN rows : rows[k].case.profile = profile}}
RowAt(profile, placement) ==
  CHOOSE row \in RowsOf(profile) : row.case.placement = placement

AtomicGuardHasNoErrors ==
  \A row \in RowsOf("atomic_guard") : ~ FalseAllow(row) /\ ~ FalseDeny(row)

IncompleteProfilesExposeFalseAllow ==
  \A profile \in {"double_read", "single_read", "ttl_cache"} :
    \E row \in RowsOf(profile) : FalseAllow(row)

SomeHit == \E row \in RowsOf("ttl_cache") : row.decision_context.cache_hit

TtlIsDistinct ==
  /\ RowAt("ttl_cache", "after_cache_expiry").decision_context.cache_refresh
  /\ ~ FalseAllow(RowAt("ttl_cache", "after_cache_expiry"))
  /\ FalseAllow(RowAt("single_read", "after_cache_expiry"))
  /\ SomeHit

Report ==
  /\ pc = "report"
  /\ report' = IF /\ AtomicGuardHasNoErrors
                  /\ IncompleteProfilesExposeFalseAllow
                  /\ TtlIsDistinct
               THEN "passed" ELSE "failed"
  /\ pc' = "done"
  /\ UNCHANGED <<service, position, trace, context, rows, threads>>

Next ==
  \/ InitializeCredential \/ Place \/ Appraise \/ DoubleRead \/ NoSecondRead
  \/ ReadCache \/ Refresh \/ Commit \/ ReleaseThreads
  \/ \E t \in DOMAIN threads : HandleThread(t) \/ ThreadTimesOut(t)
  \/ JoinThreads \/ CallTimesOut \/ Finalize \/ Report

Spec == Init /\ [][Next]_vars

-----------------------------------------------------------------------------
(* Correctness.                                                            *)

(* What verify_saved_results.py makes of the saved order of events alone. *)
RecomputedLabel(order) ==
  (IF Commits(order) # {} THEN CommitIn(order) ELSE order[Len(order)]).status = "active"

(* How the saved order of events explains a row by itself.                 *)
RowIsExplained(row) ==
  LET order == row.event_order
      reads == PositionsIn(order, {"status_read"})
      revoked == PositionsIn(order, {"revoke"})
      commits == Commits(order)
      guarded == row.case.profile = "atomic_guard"
  IN  /\ FalseAllow(row) <=>
           /\ ~ guarded
           /\ \E x \in revoked, c \in commits : x < c /\ \A r \in reads : r < x
      /\ guarded => (row.accepted <=> \E c \in commits : \A x \in revoked : c < x)
      /\ ~ FalseDeny(row)
      /\ row.oracle = RecomputedLabel(order)

(* The assertions before a commit hold, whatever was revoked meanwhile     *)
(* (run_live_races.py:289-294). In every finished case, the saved order of *)
(* events explains the row by itself: a false allow is an unguarded commit *)
(* with a revocation between the last read and it, a guarded commit takes  *)
(* effect exactly when no revocation precedes it, nothing is denied that   *)
(* was active, and the oracle's label is the one that the saved order      *)
(* gives, although the threads of a race are collected revocation first.   *)
RacesAreExplained ==
  /\ pc = "commit" => AssertionHolds
  /\ \A n \in DOMAIN rows : RowIsExplained(rows[n])

(* The verdict of the experiment does not depend on how the races end,     *)
(* since a false allow of every weak profile is assured by the revocation  *)
(* after the final read; it does depend on the speed of the machine: it    *)
(* passes exactly when some cached status was used before its 50 ms were   *)
(* over (run_live_races.py:513).                                           *)
VerdictIgnoresRaces == pc = "done" => (report = "passed" <=> SomeHit)

-----------------------------------------------------------------------------
(* The suite as a run of the abstract service: every case is a credential, *)
(* a key and its caller, and its row is what the caller hears.             *)

Finished(case) == {rows[n] : n \in {k \in DOMAIN rows : rows[k].case = case}}
RowOf(case) == CHOOSE row \in Finished(case) : TRUE

EventsOf(case) ==
  IF Finished(case) # {} THEN RowOf(case).event_order
  ELSE IF position <= Len(Suite) /\ case = Case /\ pc # "initialize" THEN events
  ELSE <<>>

DecisionIn(order) ==
  IF Commits(order) = {} THEN "undecided"
  ELSE IF CommitIn(order).effect_committed THEN "committed" ELSE "denied"

HeardIn(case) ==
  IF Finished(case) = {} \/ Commits(EventsOf(case)) = {} THEN "nothing"
  ELSE IF RowOf(case).accepted THEN "committed" ELSE "denied"

Promise == INSTANCE AtomicDecision WITH
  Creds <- Cases, Keys <- Cases, Callers <- Cases,
  credOf <- [case \in Cases |-> case], keyOf <- [case \in Cases |-> case],
  guarded <- {case \in Cases : case.profile = "atomic_guard"},
  status <- [case \in Cases |-> credentials[case].status],
  outcome <- [case \in Cases |-> DecisionIn(EventsOf(case))],
  heard <- [case \in Cases |-> HeardIn(case)]

(* The in-process lab implements the same abstract service as the labs     *)
(* that came after it, with a lock in place of a store and over the whole  *)
(* suite: a commit is decided once, under the lock, against the status of  *)
(* that instant if guarded, and the row reports that decision, also when   *)
(* the request of a client that gave up is served late.                    *)
ImplementsPromise == Promise!AbsSpec
=============================================================================
