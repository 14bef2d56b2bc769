----------------------- MODULE RevocationProfilesProofs -----------------------
(***************************************************************************)
(* Proofs about the process-isolated revocation lab: for every cache age   *)
(* and every interleaving of a case,                                       *)
(*   - the verdict follows the schedule the durable log shows,             *)
(*   - every placement has the outcome the lab claims of it,               *)
(*   - a lost response and a restart are recovered,                        *)
(*   - a case is a run of the abstract service AtomicDecision.             *)
(*                                                                         *)
(* The invariant has two layers. LogInv relates the three tables of the    *)
(* store and holds after each transaction, whoever calls it. ScheduleInv   *)
(* says which events the log holds at each point of execute_case, in terms *)
(* of the sets Revocations, Reads and Commits alone.                       *)
(***************************************************************************)
EXTENDS RevocationProfiles, FiniteSetTheorems, TLAPS

Operations == {"initialize", "status_read", "revoke", "guarded_commit", "unguarded_commit"}
Events == [operation : Operations, status : {"active", "revoked"}, sequence : Nat,
           committed : BOOLEAN, process : {"status", "effect", "restarted"}]

(* The points of execute_case, by what the log can hold at them. *)
Fresh     == {"initialize", "before_appraisal", "appraise"}
Appraised == {"appraised", "decide"}
Reread    == {"decided", "commit"}
Waits     == {"contend", "poll", "raised"}
Retries   == {"restart", "retry"}
Ends      == {"tally", "done"}
Points    == Fresh \cup Appraised \cup Reread \cup Waits \cup Retries \cup {"committed"} \cup Ends
Early     == Fresh \cup Appraised \cup Reread

TypeOK ==
  /\ plan \in Cases
  /\ pc \in Points
  /\ credential \in [status : {"absent", "active", "revoked"}, sequence : Nat]
  /\ events \in Seq(Events)
  /\ effects \subseteq 1..Len(events)
  /\ effectPid \in {"effect", "restarted"}
  /\ flight \subseteq {"revoke", "commit", "aborted"}
  /\ reply \in [revoke : Nat, commit : Nat]
  /\ trace \in Seq(Nat)
  /\ effect \in [event : Nat, replay : BOOLEAN]
  /\ verdict \in [accepted : BOOLEAN, oracle : BOOLEAN, duplicates : Nat, recovery : BOOLEAN]

-----------------------------------------------------------------------------
(* The store.                                                              *)

StatusesInv ==
  /\ credential.status = "absent" <=> events = <<>>
  /\ credential.status = "revoked" <=> Revocations # {}
  /\ \A n \in 1..Len(events) :
       events[n].status = "revoked" <=> RevokedBefore(n) \/ n \in Revocations

EffectsInv ==
  /\ \A c \in Commits : events[c].committed <=> (Guarded => ~ RevokedBefore(c))
  /\ effects = {c \in Commits : events[c].committed}

LogInv == StatusesInv /\ EffectsInv

-----------------------------------------------------------------------------
(* The case.                                                               *)

PlanInv ==
  /\ pc = "initialize" <=> events = <<>>
  /\ pc = "contend" => plan.placement = "simultaneous"
  /\ pc \in {"poll"} \cup Retries => plan.fault # "none"
  /\ pc = "raised" => plan.placement = "simultaneous" \/ plan.fault # "none"
  /\ pc = "restart" => plan.fault = "restart_after_commit"

(* The points at which a placement has not revoked yet. *)
NotYet ==
  [before_appraisal |-> {"initialize", "before_appraisal"},
   between_appraisal_and_commit |-> Fresh \cup {"appraised"},
   after_cache_expiry |-> Fresh \cup {"appraised"},
   after_final_read |-> Fresh \cup Appraised \cup {"decided"},
   after_commit |-> Early \cup {"committed"},
   active_commit |-> Points]

PlacedInv ==
  /\ plan.placement # "simultaneous" => (Revocations = {} <=> pc \in NotYet[plan.placement])
  /\ plan.placement = "simultaneous" =>
       /\ pc \in Early => Revocations = {}
       /\ reply.revoke = 0 <=> Revocations = {}
       /\ reply.commit = 0 <=> Commits = {}
       /\ reply.commit # 0 => Commits = {reply.commit}

(* A read that shows revoked ends the case, so only the last of them may. *)
ReadsInv ==
  /\ pc \in Fresh => Reads = {}
  /\ pc \in Appraised => \E r \in Reads : Reads = {r} /\ ~ RevokedBefore(r)
  /\ pc \notin Fresh \cup Appraised =>
       \E r, s \in Reads :
          /\ Reads = {r, s} /\ r <= s
          /\ r < s => plan.profile \in {"double_read", "ttl_cache"} /\ ~ RevokedBefore(r)
          /\ ReadsAgain /\ ~ RevokedBefore(r) => r < s
          /\ RevokedBefore(s) => pc \in Ends
          /\ pc \in Ends => (RevokedBefore(s) <=> Commits = {})
          /\ pc \in Ends /\ Commits = {} => trace # <<>> /\ trace[Len(trace)] = s

PlacedReadsInv ==
  /\ plan.placement = "before_appraisal" => \A r \in Reads : RevokedBefore(r)
  /\ plan.placement \in {"between_appraisal_and_commit", "after_cache_expiry"} =>
       \A r, s \in Reads : r < s => ~ RevokedBefore(r) /\ RevokedBefore(s)
  /\ plan.placement # "before_appraisal" =>
       \A r \in Reads : RevokedBefore(r) => 
         /\ plan.placement \in {"between_appraisal_and_commit", "after_cache_expiry"}
         /\ \E q \in Reads : q < r

CommitsInv ==
  /\ \A c, d \in Commits : c = d
  /\ pc \in Early => Commits = {}
  /\ pc \in Early \cup Waits \cup Retries => effect = NoEffect
  /\ pc \in Retries => Commits # {}
  /\ pc = "committed" => Commits # {}
  /\ pc \in {"committed"} \cup Ends /\ Commits # {} => Commits = {effect.event}
  /\ pc \in Ends /\ Commits = {} => effect = NoEffect
  /\ plan.placement = "before_appraisal" => Commits = {}
  /\ plan.placement \in {"between_appraisal_and_commit", "after_cache_expiry", "after_final_read"} =>
       \A c \in Commits : RevokedBefore(c)
  /\ plan.placement \in {"after_commit", "active_commit"} => \A c \in Commits : ~ RevokedBefore(c)

FlightInv ==
  /\ pc \notin Waits => flight = {}
  /\ pc \in Waits /\ plan.fault # "none" => flight = IF Commits = {} THEN {"aborted"} ELSE {}
  /\ pc \in Waits /\ plan.fault = "none" =>
       flight = (IF Commits = {} THEN {"commit"} ELSE {})
                \cup (IF Revocations = {} THEN {"revoke"} ELSE {})

FaultInv ==
  /\ effectPid = "restarted" <=>
       plan.fault = "restart_after_commit" /\ pc \in {"retry", "committed"} \cup Ends
  /\ plan.fault # "none" =>
       /\ \A c \in Commits : events[c].process = "effect"
       /\ pc \in {"committed"} \cup Ends => effect.replay

VerdictInv ==
  pc = "done" =>
    /\ verdict.accepted <=> Commits # {} /\ events[effect.event].committed
    /\ verdict.oracle <=>
         events[IF Commits # {} THEN effect.event ELSE trace[Len(trace)]].status = "active"
    /\ verdict.duplicates = 0
    /\ plan.fault # "none" => verdict.recovery

ScheduleInv ==
  /\ PlanInv /\ PlacedInv /\ ReadsInv /\ PlacedReadsInv
  /\ CommitsInv /\ FlightInv /\ FaultInv /\ VerdictInv

CaseInv == TypeOK /\ LogInv /\ ScheduleInv

-----------------------------------------------------------------------------
(* What one transaction does to the log.                                   *)

(* The events already logged stay, and so does what was revoked by them. *)
LogKept ==
  /\ Len(events) \in Nat /\ Len(events') \in Nat /\ Len(events) <= Len(events')
  /\ \A n \in 1..Len(events) : events'[n] = events[n] /\ (RevokedBefore(n)' <=> RevokedBefore(n))

(* The event e has been appended. *)
Logged(e) ==
  /\ LogKept
  /\ Len(events') = Len(events) + 1
  /\ events'[Len(events) + 1] = e
  /\ Revocations' = Revocations \cup (IF e.operation = "revoke" THEN {Len(events) + 1} ELSE {})
  /\ Reads' = Reads \cup (IF e.operation = "status_read" THEN {Len(events) + 1} ELSE {})
  /\ Commits' = Commits \cup (IF e.operation \in {"guarded_commit", "unguarded_commit"}
                              THEN {Len(events) + 1} ELSE {})
  /\ \A n \in {Len(events) + 1} : RevokedBefore(n)' <=> Revocations # {}

(* The positions are positions of the log. *)
LEMMA PositionsTyped ==
  ASSUME TypeOK
  PROVE  /\ Len(events) \in Nat
         /\ Revocations \subseteq 1..Len(events)
         /\ Reads \subseteq 1..Len(events)
         /\ Commits \subseteq 1..Len(events)
BY DEF TypeOK, Revocations, Reads, Commits, At

LEMMA AtAppended ==
  ASSUME TypeOK, NEW operations,
         NEW e \in Events, events' = Append(events, e)
  PROVE  At(operations)' = At(operations) \cup
           (IF e.operation \in operations THEN {Len(events) + 1} ELSE {})
BY DEF TypeOK, At

LEMMA Appended ==
  ASSUME TypeOK, NEW e \in Events, events' = Append(events, e)
  PROVE  events' \in Seq(Events) /\ Logged(e)
<1>3. /\ events' \in Seq(Events) /\ Len(events) \in Nat /\ Len(events') = Len(events) + 1
      /\ \A n \in 1..Len(events) : events'[n] = events[n]
      /\ events'[Len(events) + 1] = e
  BY DEF TypeOK
<1>4. /\ Revocations' = Revocations \cup (IF e.operation = "revoke" THEN {Len(events) + 1} ELSE {})
      /\ Reads' = Reads \cup (IF e.operation = "status_read" THEN {Len(events) + 1} ELSE {})
      /\ Commits' = Commits \cup (IF e.operation \in {"guarded_commit", "unguarded_commit"}
                              THEN {Len(events) + 1} ELSE {})
  BY AtAppended DEF Revocations, Reads, Commits
<1>5. \A x \in Revocations : x \in Nat /\ x < Len(events) + 1
  BY <1>3, PositionsTyped
<1>6. \A n : RevokedBefore(n)' <=> \E x \in Revocations' : x < n
  BY DEF RevokedBefore
<1>7. ASSUME NEW n \in 1..Len(events)
      PROVE  RevokedBefore(n)' <=> RevokedBefore(n)
  <2>1. ~ (Len(events) + 1 < n)
    BY <1>3
  <2> QED BY <1>4, <1>6, <2>1 DEF RevokedBefore
<1>8. ASSUME NEW n \in {Len(events) + 1}
      PROVE  RevokedBefore(n)' <=> Revocations # {}
  <2>1. ~ (Len(events) + 1 < n)
    BY <1>3
  <2> QED BY <1>4, <1>5, <1>6, <2>1
<1> QED BY <1>3, <1>4, <1>7, <1>8 DEF Logged, LogKept

-----------------------------------------------------------------------------
(* The transactions of the store, each with the invariant of its tables.   *)

(* A transaction that appends an event with the status of its credential   *)
(* keeps the statuses of the log in order.                                 *)
LEMMA StatusKept ==
  ASSUME TypeOK, StatusesInv, NEW e, Logged(e),
         credential'.status = e.status,
         IF e.operation = "revoke" THEN credential'.status = "revoked"
         ELSE /\ credential.status # "absent" => credential'.status = credential.status
              /\ credential.status = "absent" => credential'.status = "active"
  PROVE  StatusesInv'
<1>1. events' # <<>> /\ credential'.status # "absent"
  BY DEF Logged, LogKept, TypeOK, StatusesInv
<1>2. credential'.status = "revoked" <=> Revocations' # {}
  BY DEF Logged, LogKept, TypeOK, StatusesInv
<1>3. ASSUME NEW n \in 1..Len(events')
      PROVE  events'[n].status = "revoked" <=> RevokedBefore(n)' \/ n \in Revocations'
  <2>1. CASE n \in 1..Len(events)
    BY <2>1, PositionsTyped DEF Logged, LogKept, StatusesInv
  <2>2. CASE n = Len(events) + 1
    <3>1. /\ Revocations' = Revocations \cup (IF e.operation = "revoke" THEN {n} ELSE {})
          /\ RevokedBefore(n)' <=> Revocations # {}
          /\ events'[n].status = credential'.status
      BY <2>2 DEF Logged
    <3>2. n \notin Revocations
      BY <2>2, PositionsTyped
    <3>3. CASE e.operation = "revoke"
      BY <3>1, <3>3
    <3>4. CASE e.operation # "revoke"
      BY <3>1, <3>2, <3>4, <1>2
    <3> QED BY <3>3, <3>4
  <2> QED BY <2>1, <2>2, <1>3, PositionsTyped DEF Logged
<1> QED BY <1>1, <1>2, <1>3 DEF StatusesInv

(* A transaction that commits nothing keeps the effects table in order. *)
LEMMA EffectsKept ==
  ASSUME TypeOK, EffectsInv, UNCHANGED <<plan, effects>>, Commits' = Commits, LogKept
  PROVE  EffectsInv'
<1>1. Guarded' <=> Guarded
  BY DEF Guarded
<1>2. \A c \in Commits : events'[c] = events[c] /\ (RevokedBefore(c)' <=> RevokedBefore(c))
  BY PositionsTyped DEF LogKept
<1> QED BY <1>1, <1>2 DEF EffectsInv

LEMMA InitializeLogged ==
  ASSUME TypeOK, LogInv, UNCHANGED plan, Initialize, events = <<>>
  PROVE  /\ \E e \in Events : e.operation = "initialize" /\ Logged(e)
         /\ LogInv' /\ events' \in Seq(Events)
         /\ credential' = [status |-> "active", sequence |-> 1]
<1> DEFINE e == [operation |-> "initialize", status |-> "active", sequence |-> 1,
                 committed |-> FALSE, process |-> "status"]
<1>1. e \in Events /\ e.operation = "initialize" /\ e.status = "active"
  BY DEF Events, Operations
<1>2. events' = Append(events, e)
  BY DEF Initialize, Log
<1> HIDE DEF e
<1>3. events' \in Seq(Events) /\ Logged(e)
  BY <1>1, <1>2, Appended
<1>4. credential'.status = "active" /\ credential.status = "absent"
  BY DEF Initialize, LogInv, StatusesInv
<1>5. StatusesInv'
  BY <1>1, <1>3, <1>4, StatusKept DEF LogInv
<1>6. Commits' = Commits /\ LogKept /\ UNCHANGED effects
  BY <1>1, <1>3 DEF Logged, Initialize
<1>7. EffectsInv'
  BY <1>6, EffectsKept DEF LogInv
<1> QED BY <1>1, <1>3, <1>5, <1>7 DEF LogInv, Initialize

LEMMA ReadLogged ==
  ASSUME TypeOK, LogInv, UNCHANGED plan, ReadStatus, events # <<>>
  PROVE  /\ \E e \in Events : e.operation = "status_read" /\ Logged(e)
         /\ LogInv' /\ events' \in Seq(Events)
         /\ UNCHANGED <<credential, effects>>
         /\ credential.status = "revoked" <=> Revocations # {}
<1>1. credential.status \in {"active", "revoked"} /\ credential.sequence \in Nat
  BY DEF TypeOK, LogInv, StatusesInv
<1> DEFINE e == [operation |-> "status_read", status |-> credential.status,
                 sequence |-> credential.sequence, committed |-> FALSE, process |-> "status"]
<1>2. e \in Events /\ e.operation = "status_read" /\ e.status = credential.status
  BY <1>1 DEF Events, Operations
<1>3. events' = Append(events, e)
  BY DEF ReadStatus, Log
<1> HIDE DEF e
<1>4. events' \in Seq(Events) /\ Logged(e)
  BY <1>2, <1>3, Appended
<1>5. UNCHANGED <<credential, effects>>
  BY DEF ReadStatus
<1>6. StatusesInv'
  BY <1>1, <1>2, <1>4, <1>5, StatusKept DEF LogInv
<1>7. Commits' = Commits /\ LogKept
  BY <1>2, <1>4 DEF Logged
<1>8. EffectsInv'
  BY <1>5, <1>7, EffectsKept DEF LogInv
<1> QED BY <1>2, <1>4, <1>5, <1>6, <1>8 DEF LogInv, StatusesInv

LEMMA RevokeLogged ==
  ASSUME TypeOK, LogInv, UNCHANGED plan, Revoke, events # <<>>
  PROVE  /\ \E e \in Events : e.operation = "revoke" /\ Logged(e)
         /\ LogInv' /\ events' \in Seq(Events)
         /\ UNCHANGED effects
         /\ credential' \in [status : {"absent", "active", "revoked"}, sequence : Nat]
         /\ credential'.status = "revoked" /\ credential.status # "absent"
<1>1. credential.status # "absent" /\ credential.sequence \in Nat
  BY DEF TypeOK, LogInv, StatusesInv
<1> DEFINE sequence == IF credential.status # "revoked" THEN credential.sequence + 1
                  ELSE credential.sequence
           e == [operation |-> "revoke", status |-> "revoked", sequence |-> sequence,
                 committed |-> FALSE, process |-> "status"]
<1>2. sequence \in Nat
  BY <1>1
<1>3. /\ credential' = [status |-> "revoked", sequence |-> sequence]
      /\ events' = Append(events, e) /\ UNCHANGED effects
  BY DEF Revoke, Log
<1> HIDE DEF sequence
<1>4. e \in Events /\ e.operation = "revoke" /\ e.status = "revoked"
  BY <1>2 DEF Events, Operations
<1> HIDE DEF e
<1>5. events' \in Seq(Events) /\ Logged(e)
  BY <1>3, <1>4, Appended
<1>6. /\ credential'.status = "revoked"
      /\ credential' \in [status : {"absent", "active", "revoked"}, sequence : Nat]
  BY <1>2, <1>3
<1>7. StatusesInv'
  BY <1>4, <1>5, <1>6, StatusKept DEF LogInv
<1>8. Commits' = Commits /\ LogKept
  BY <1>4, <1>5 DEF Logged
<1>9. EffectsInv'
  BY <1>3, <1>8, EffectsKept DEF LogInv
<1> QED BY <1>1, <1>3, <1>4, <1>5, <1>6, <1>7, <1>9 DEF LogInv

(* A commit under a new key appends the event its response names, and its  *)
(* effect is durable exactly when that event is committed.                 *)
LEMMA CommitLogged ==
  ASSUME TypeOK, LogInv, UNCHANGED plan, CommitEffect, KeyIsNew, Commits = {}, events # <<>>
  PROVE  /\ \E e \in Events : e.operation \in {"guarded_commit", "unguarded_commit"} /\ Logged(e)
         /\ LogInv' /\ events' \in Seq(Events) /\ UNCHANGED credential
         /\ events'[Len(events) + 1].process = effectPid
         /\ effects' \subseteq 1..Len(events')
         /\ CommitResponse = [event |-> Len(events) + 1, replay |-> FALSE]
<1>1. credential.status \in {"active", "revoked"} /\ credential.sequence \in Nat
  BY DEF TypeOK, LogInv, StatusesInv
<1> DEFINE operation == IF Guarded THEN "guarded_commit" ELSE "unguarded_commit"
           e == [operation |-> operation, status |-> credential.status,
                 sequence |-> credential.sequence, committed |-> Committed, process |-> effectPid]
<1>2. /\ events' = Append(events, e)
      /\ effects' = IF Committed THEN effects \cup {Last} ELSE effects
      /\ UNCHANGED credential
  BY DEF CommitEffect, Log
<1>3. /\ operation \in {"guarded_commit", "unguarded_commit"}
      /\ Committed \in BOOLEAN /\ effectPid \in {"status", "effect", "restarted"}
  BY DEF Committed, TypeOK
<1> HIDE DEF operation
<1>4. /\ e \in Events /\ e.operation = operation /\ e.status = credential.status
      /\ e.committed = Committed /\ e.process = effectPid
  BY <1>1, <1>3 DEF Events, Operations
<1> HIDE DEF e
<1>5. events' \in Seq(Events) /\ Logged(e)
  BY <1>2, <1>4, Appended
<1>6. e.operation # "revoke"
  BY <1>3, <1>4
<1>7. StatusesInv'
  BY <1>1, <1>2, <1>4, <1>5, <1>6, StatusKept DEF LogInv
<1>8. /\ Commits' = {Len(events) + 1} /\ Len(events') = Len(events) + 1
      /\ \A n \in Commits' : RevokedBefore(n)' <=> Revocations # {}
      /\ events'[Len(events) + 1] = e
  BY <1>3, <1>4, <1>5 DEF Logged
<1>9. \A n \in Commits' : Committed <=> (Guarded' => ~ RevokedBefore(n)')
  BY <1>1, <1>8 DEF Committed, Guarded, LogInv, StatusesInv
<1>10. effects' = IF Committed THEN {Len(events) + 1} ELSE {}
  BY <1>2, <1>8 DEF KeyIsNew, Last
<1>11. EffectsInv'
  <2>1. \A n \in Commits' : events'[n].committed <=> Committed
    BY <1>4, <1>8
  <2>2. effects' = {c \in Commits' : events'[c].committed}
    BY <1>8, <1>10, <2>1
  <2> QED BY <1>9, <2>1, <2>2 DEF EffectsInv
<1>12. CommitResponse = [event |-> Len(events) + 1, replay |-> FALSE]
  BY DEF CommitResponse
<1>13. effects' \subseteq 1..Len(events')
  BY <1>8, <1>10, PositionsTyped
<1>14. e.operation \in {"guarded_commit", "unguarded_commit"}
  BY <1>3, <1>4
<1> QED BY <1>2, <1>4, <1>5, <1>7, <1>8, <1>11, <1>12, <1>13, <1>14 DEF LogInv

(* What the store's tables say stays true while they do not change. *)
LEMMA StoreKept ==
  ASSUME TypeOK, LogInv, UNCHANGED <<plan, store>>
  PROVE  /\ LogKept /\ LogInv' /\ UNCHANGED <<Revocations, Reads, Commits>>
         /\ Len(events') = Len(events)
<1>1. UNCHANGED <<Revocations, Reads, Commits>> /\ \A n : RevokedBefore(n)' <=> RevokedBefore(n)
  BY DEF store, Revocations, Reads, Commits, At, RevokedBefore
<1>2. LogKept
  BY <1>1, PositionsTyped DEF LogKept, store
<1>3. LogInv'
  BY <1>1 DEF LogInv, StatusesInv, EffectsInv, Guarded, store
<1> QED BY <1>1, <1>2, <1>3 DEF store

-----------------------------------------------------------------------------
(* The steps of the case.                                                  *)

LEMMA PlanTyped ==
  ASSUME TypeOK
  PROVE  /\ plan.profile \in Profiles
         /\ plan.placement \in Placements \cup {"active_commit"}
         /\ plan.fault \in {"none"} \cup Faults
         /\ plan.fault = "none" <=> plan.placement # "active_commit"
         /\ plan.fault # "none" => plan.placement = "active_commit"
BY DEF TypeOK, Cases, Placements, Profiles, Faults

LEMMA InitEstablishes ==
  ASSUME Init
  PROVE  CaseInv
<1>1. Len(events) = 0 /\ events = <<>> /\ events \in Seq(Events)
  BY DEF Init
<1>2. Revocations = {} /\ Reads = {} /\ Commits = {}
  BY <1>1 DEF Revocations, Reads, Commits, At
<1>3. TypeOK
  BY <1>1 DEF Init, TypeOK, Points, Fresh, NoEffect, NoVerdict
<1>4. LogInv
  BY <1>1, <1>2 DEF Init, LogInv, StatusesInv, EffectsInv
<1>5. PlanInv /\ FlightInv /\ FaultInv /\ VerdictInv
  BY <1>1, <1>2 DEF Init, PlanInv, FlightInv, FaultInv, VerdictInv, Retries, Waits, Ends
<1>6. PlacedInv
  BY <1>2, <1>3, PlanTyped DEF Init, PlacedInv, NotYet, Fresh, Early, Points, Placements
<1>7. ReadsInv /\ PlacedReadsInv
  BY <1>2 DEF Init, ReadsInv, PlacedReadsInv, Fresh, Appraised
<1>8. CommitsInv
  BY <1>2 DEF Init, CommitsInv, Retries, Ends
<1> QED BY <1>3, <1>4, <1>5, <1>6, <1>7, <1>8 DEF CaseInv, ScheduleInv

LEMMA InitializeCredentialStep ==
  ASSUME CaseInv, InitializeCredential
  PROVE  CaseInv'
<1> USE DEF CaseInv, ScheduleInv
<1>1. /\ pc = "initialize" /\ pc' = "before_appraisal" /\ events = <<>>
      /\ UNCHANGED <<plan, effects, effectPid, flight, reply, effect, verdict>>
      /\ trace' = Append(trace, Len(events')) /\ Initialize
  BY DEF InitializeCredential, Goto, PlanInv, Last, Initialize
<1>2. /\ LogInv' /\ events' \in Seq(Events)
      /\ credential' = [status |-> "active", sequence |-> 1]
  BY <1>1, InitializeLogged
<1>3. Len(events) = 0 /\ Revocations = {} /\ Reads = {} /\ Commits = {}
  BY <1>1 DEF Revocations, Reads, Commits, At
<1>4. Len(events') = 1 /\ events' # <<>> /\ Revocations' = {} /\ Reads' = {} /\ Commits' = {}
  BY <1>1, <1>3, InitializeLogged DEF Logged, LogKept
<1>5. TypeOK'
  BY <1>1, <1>2, <1>4 DEF TypeOK, Points, Fresh
<1>6. PlanInv' /\ FlightInv' /\ FaultInv' /\ VerdictInv'
  BY <1>1, <1>4 DEF PlanInv, FlightInv, FaultInv, VerdictInv, Retries, Waits, Ends
<1>7. PlacedInv'
  BY <1>1, <1>3, <1>4, PlanTyped DEF PlacedInv, NotYet, Fresh, Early, Points, Placements
<1>8. ReadsInv' /\ PlacedReadsInv'
  BY <1>1, <1>4 DEF ReadsInv, PlacedReadsInv, Fresh, Appraised
<1>9. CommitsInv'
  BY <1>1, <1>4 DEF CommitsInv, Fresh, Early, Retries, Ends
<1> QED BY <1>2, <1>5, <1>6, <1>7, <1>8, <1>9

LEMMA QuietStep ==
  ASSUME CaseInv, UNCHANGED <<plan, store>>
  PROVE  /\ LogKept /\ LogInv' /\ UNCHANGED <<Revocations, Reads, Commits>>
         /\ UNCHANGED <<plan, credential, events, effects>>
         /\ Len(events') = Len(events)
         /\ Reads \subseteq 1..Len(events) /\ Commits \subseteq 1..Len(events)
         /\ \A n \in 1..Len(events) : events'[n] = events[n] /\ (RevokedBefore(n)' <=> RevokedBefore(n))
         /\ events = <<>> <=> pc = "initialize"
BY StoreKept, PositionsTyped DEF CaseInv, ScheduleInv, PlanInv, store, LogKept

LEMMA PlacementPassed ==
  ASSUME CaseInv, PlacedRevocation, plan.placement \notin Placed[pc]
  PROVE  CaseInv'
<1> USE DEF CaseInv, ScheduleInv
<1>1. /\ pc \in {"before_appraisal", "appraised", "decided", "committed"}
      /\ pc' = Following[pc]
      /\ UNCHANGED <<plan, store, trace, effectPid, flight, reply, effect, verdict>>
  BY DEF PlacedRevocation, Placed
<1>2. /\ pc = "before_appraisal" => pc' = "appraise" /\ plan.placement # "before_appraisal"
      /\ pc = "appraised" => /\ pc' = "decide"
                             /\ plan.placement # "between_appraisal_and_commit"
                             /\ plan.placement # "after_cache_expiry"
      /\ pc = "decided" => pc' = "commit" /\ plan.placement # "after_final_read"
      /\ pc = "committed" => pc' = "tally" /\ plan.placement # "after_commit"
  BY <1>1 DEF Placed, Following
<1>3. /\ LogKept /\ LogInv' /\ UNCHANGED <<Revocations, Reads, Commits>>
      /\ UNCHANGED <<credential, events, effects>>
      /\ Len(events') = Len(events)
      /\ Reads \subseteq 1..Len(events) /\ Commits \subseteq 1..Len(events)
      /\ \A n \in 1..Len(events) : events'[n] = events[n] /\ (RevokedBefore(n)' <=> RevokedBefore(n))
  BY <1>1, QuietStep
<1>4. TypeOK'
  BY <1>1, <1>2, <1>3 DEF TypeOK, Points, Fresh, Appraised, Reread, Ends
<1>5. PlanInv'
  BY <1>1, <1>2, <1>3 DEF PlanInv, Retries
<1>6. PlacedInv'
  BY <1>1, <1>2, <1>3, PlanTyped DEF PlacedInv, NotYet, Fresh, Appraised, Reread, Early, Points, Placements, Ends
<1>7. ReadsInv'
  BY <1>1, <1>2, <1>3 DEF ReadsInv, Fresh, Appraised, Reread, Ends, ReadsAgain, CommitsInv
<1>8. PlacedReadsInv'
  BY <1>1, <1>3 DEF PlacedReadsInv
<1>9. CommitsInv'
  BY <1>1, <1>2, <1>3 DEF CommitsInv, Fresh, Appraised, Reread, Early, Retries, Waits, Ends
<1>10. FlightInv' /\ VerdictInv'
  BY <1>1, <1>2, <1>3 DEF FlightInv, VerdictInv, Waits
<1>11. FaultInv'
  BY <1>1, <1>2, <1>3 DEF FaultInv, Ends
<1> QED BY <1>3, <1>4, <1>5, <1>6, <1>7, <1>8, <1>9, <1>10, <1>11

LEMMA PlacementRevokes ==
  ASSUME CaseInv, PlacedRevocation, plan.placement \in Placed[pc]
  PROVE  CaseInv'
<1> USE DEF CaseInv, ScheduleInv
<1>1. /\ pc \in {"before_appraisal", "appraised", "decided", "committed"}
      /\ pc' = Following[pc]
      /\ Revoke /\ trace' = Append(trace, Len(events'))
      /\ UNCHANGED <<plan, effectPid, flight, reply, effect, verdict>>
  BY DEF PlacedRevocation, Placed, Last
<1>2. /\ pc = "before_appraisal" => pc' = "appraise" /\ plan.placement = "before_appraisal"
      /\ pc = "appraised" => /\ pc' = "decide"
                             /\ plan.placement \in {"between_appraisal_and_commit", "after_cache_expiry"}
      /\ pc = "decided" => pc' = "commit" /\ plan.placement = "after_final_read"
      /\ pc = "committed" => pc' = "tally" /\ plan.placement = "after_commit"
  BY <1>1 DEF Placed, Following
<1>3. events # <<>>
  BY <1>1 DEF PlanInv
<1>4. /\ LogInv' /\ events' \in Seq(Events) /\ UNCHANGED effects
      /\ credential' \in [status : {"absent", "active", "revoked"}, sequence : Nat]
  BY <1>1, <1>3, RevokeLogged
<1>5. /\ LogKept /\ Len(events') = Len(events) + 1
      /\ Revocations' = Revocations \cup {Len(events) + 1}
      /\ Reads' = Reads /\ Commits' = Commits
      /\ Reads \subseteq 1..Len(events) /\ Commits \subseteq 1..Len(events)
      /\ \A n \in 1..Len(events) : events'[n] = events[n] /\ (RevokedBefore(n)' <=> RevokedBefore(n))
  BY <1>1, <1>3, RevokeLogged, PositionsTyped DEF Logged, LogKept
<1>6. TypeOK'
  <2>1. Len(events') \in Nat /\ trace' \in Seq(Nat) /\ effects' \subseteq 1..Len(events')
    BY <1>1, <1>4, <1>5, PositionsTyped DEF TypeOK
  <2> QED BY <1>1, <1>2, <1>4, <1>5, <2>1 DEF TypeOK, Points, Fresh, Appraised, Reread, Ends
<1>7. PlanInv'
  BY <1>1, <1>2, <1>3, <1>5 DEF PlanInv, Retries, LogKept
<1>8. PlacedInv'
  BY <1>1, <1>2, <1>5, PlanTyped DEF PlacedInv, NotYet, Fresh, Appraised, Reread, Early, Points, Placements, Ends
<1>9. ReadsInv'
  BY <1>1, <1>2, <1>5 DEF ReadsInv, Fresh, Appraised, Reread, Ends, ReadsAgain, CommitsInv
<1>10. PlacedReadsInv'
  BY <1>1, <1>5 DEF PlacedReadsInv
<1>11. CommitsInv'
  BY <1>1, <1>2, <1>5 DEF CommitsInv, Fresh, Appraised, Reread, Early, Retries, Waits, Ends
<1>12. FlightInv' /\ VerdictInv'
  BY <1>1, <1>2, <1>5 DEF FlightInv, VerdictInv, Waits
<1>13. FaultInv'
  BY <1>1, <1>2, <1>5 DEF FaultInv, Ends
<1> QED BY <1>4, <1>6, <1>7, <1>8, <1>9, <1>10, <1>11, <1>12, <1>13

(* A status read puts its event at the end of the log and of the trace. *)
LEMMA ReadStep ==
  ASSUME CaseInv, NEW next, ReadAndGoto(next), UNCHANGED plan, pc # "initialize"
  PROVE  /\ LogInv' /\ events' \in Seq(Events) /\ UNCHANGED <<credential, effects>>
         /\ LogKept /\ Len(events') = Len(events) + 1 /\ Len(events) \in Nat
         /\ Revocations' = Revocations /\ Commits' = Commits
         /\ Reads' = Reads \cup {Len(events) + 1}
         /\ Reads \subseteq 1..Len(events) /\ Commits \subseteq 1..Len(events)
         /\ \A n \in 1..Len(events) : events'[n] = events[n] /\ (RevokedBefore(n)' <=> RevokedBefore(n))
         /\ \A n \in {Len(events) + 1} : RevokedBefore(n)' <=> Revocations # {}
         /\ pc' = IF Revocations # {} THEN "tally" ELSE next
         /\ trace' \in Seq(Nat) /\ trace' # <<>>
         /\ trace'[Len(trace')] = Len(events) + 1
<1>1. /\ ReadStatus /\ events # <<>>
      /\ trace' = Append(trace, Len(events'))
      /\ pc' = IF credential.status = "revoked" THEN "tally" ELSE next
  BY DEF ReadAndGoto, Last, CaseInv, ScheduleInv, PlanInv
<1>2. /\ LogInv' /\ events' \in Seq(Events) /\ UNCHANGED <<credential, effects>>
      /\ credential.status = "revoked" <=> Revocations # {}
      /\ \E e \in Events : e.operation = "status_read" /\ Logged(e)
  BY <1>1, ReadLogged DEF CaseInv
<1>3. /\ LogKept /\ Len(events') = Len(events) + 1
      /\ Revocations' = Revocations /\ Commits' = Commits
      /\ Reads' = Reads \cup {Len(events) + 1}
      /\ \A n \in {Len(events) + 1} : RevokedBefore(n)' <=> Revocations # {}
  BY <1>2 DEF Logged
<1>4. Len(events) \in Nat /\ Reads \subseteq 1..Len(events) /\ Commits \subseteq 1..Len(events)
  BY PositionsTyped DEF CaseInv
<1>5. trace' \in Seq(Nat) /\ trace' # <<>> /\ trace'[Len(trace')] = Len(events')
  BY <1>1, <1>3, <1>4 DEF CaseInv, TypeOK
<1> QED BY <1>1, <1>2, <1>3, <1>4, <1>5 DEF LogKept

LEMMA AppraiseStep ==
  ASSUME CaseInv, Appraise
  PROVE  CaseInv'
<1> USE DEF CaseInv, ScheduleInv
<1>1. /\ pc = "appraise" /\ ReadAndGoto("appraised")
      /\ UNCHANGED <<plan, effectPid, flight, reply, effect, verdict>>
  BY DEF Appraise
<1> DEFINE r == Len(events) + 1
<1>2. /\ LogInv' /\ events' \in Seq(Events) /\ UNCHANGED <<credential, effects>>
      /\ LogKept /\ Len(events') = r /\ Len(events) \in Nat
      /\ Revocations' = Revocations /\ Commits' = Commits
      /\ Reads' = Reads \cup {r}
      /\ Reads \subseteq 1..Len(events) /\ Commits \subseteq 1..Len(events)
      /\ \A n \in 1..Len(events) : events'[n] = events[n] /\ (RevokedBefore(n)' <=> RevokedBefore(n))
      /\ \A n \in {r} : RevokedBefore(n)' <=> Revocations # {}
      /\ pc' = IF Revocations # {} THEN "tally" ELSE "appraised"
      /\ trace' \in Seq(Nat) /\ trace' # <<>>
      /\ trace'[Len(trace')] = r
  BY <1>1, ReadStep
<1>3. r \in Nat /\ Commits = {} /\ effect = NoEffect
  BY <1>1, <1>2 DEF CommitsInv, Early, Fresh
<1>4. Reads' = {r}
  BY <1>1, <1>2 DEF ReadsInv, Fresh
<1> HIDE DEF r
<1>5. TypeOK'
  <2>1. effects' \subseteq 1..Len(events') /\ pc' \in Points
    BY <1>2 DEF TypeOK, LogKept, Points, Appraised, Ends
  <2> QED BY <1>1, <1>2, <2>1 DEF TypeOK
<1>6. PlanInv'
  BY <1>1, <1>2, <1>3 DEF PlanInv, Retries, LogKept
<1>7. PlacedInv'
  BY <1>1, <1>2, PlanTyped DEF PlacedInv, NotYet, Fresh, Appraised, Early, Points, Placements, Ends
<1>8. ReadsInv'
  BY <1>1, <1>2, <1>3, <1>4, SMTT(30) DEF ReadsInv, Fresh, Appraised, Ends, ReadsAgain
<1>9. PlacedReadsInv'
  BY <1>1, <1>2, <1>3, <1>4, PlanTyped DEF PlacedReadsInv, PlacedInv, NotYet, Fresh, Appraised, Early, Points, Placements
<1>10. CommitsInv'
  BY <1>1, <1>2, <1>3 DEF CommitsInv, Appraised, Early, Retries, Waits, Ends
<1>11. FlightInv' /\ VerdictInv'
  BY <1>1, <1>2 DEF FlightInv, VerdictInv, Waits
<1>12. FaultInv'
  BY <1>1, <1>2, <1>3, PlanTyped DEF FaultInv, PlacedInv, NotYet, Points, Fresh, Ends
<1> QED BY <1>2, <1>5, <1>6, <1>7, <1>8, <1>9, <1>10, <1>11, <1>12

LEMMA RereadStep ==
  ASSUME CaseInv, pc = "decide", ReadAndGoto("decided"),
         plan.profile \in {"double_read", "ttl_cache"},
         UNCHANGED <<plan, effectPid, flight, reply, effect, verdict>>
  PROVE  CaseInv'
<1> USE DEF CaseInv, ScheduleInv
<1> DEFINE s == Len(events) + 1
<1>2. /\ LogInv' /\ events' \in Seq(Events) /\ UNCHANGED <<credential, effects>>
      /\ LogKept /\ Len(events') = s /\ Len(events) \in Nat
      /\ Revocations' = Revocations /\ Commits' = Commits
      /\ Reads' = Reads \cup {s}
      /\ Reads \subseteq 1..Len(events) /\ Commits \subseteq 1..Len(events)
      /\ \A n \in 1..Len(events) : events'[n] = events[n] /\ (RevokedBefore(n)' <=> RevokedBefore(n))
      /\ \A n \in {s} : RevokedBefore(n)' <=> Revocations # {}
      /\ pc' = IF Revocations # {} THEN "tally" ELSE "decided"
      /\ trace' \in Seq(Nat) /\ trace' # <<>>
      /\ trace'[Len(trace')] = s
  BY ReadStep
<1>3. s \in Nat /\ Commits = {} /\ effect = NoEffect
  BY <1>2 DEF CommitsInv, Early, Appraised
<1>4. PICK r \in Reads : Reads = {r} /\ ~ RevokedBefore(r)
  BY DEF ReadsInv, Appraised
<1>5. Reads' = {r, s} /\ r < s /\ r \in Nat /\ ~ RevokedBefore(r)'
  BY <1>2, <1>4
<1> HIDE DEF s
<1>6. TypeOK'
  <2>1. effects' \subseteq 1..Len(events') /\ pc' \in Points
    BY <1>2 DEF TypeOK, LogKept, Points, Reread, Ends
  <2> QED BY <1>2, <2>1 DEF TypeOK
<1>7. PlanInv'
  BY <1>2, <1>3 DEF PlanInv, Retries, LogKept
<1>8. PlacedInv'
  BY <1>2, PlanTyped, SMTT(30) DEF PlacedInv, NotYet, Fresh, Appraised, Reread, Early, Points, Placements, Ends
<1>9. ReadsInv'
  BY <1>2, <1>3, <1>5 DEF ReadsInv, Fresh, Appraised, Ends, ReadsAgain
<1>10. PlacedReadsInv'
  BY <1>2, <1>3, <1>4, <1>5, PlanTyped, SMTT(30)
  DEF PlacedReadsInv, PlacedInv, NotYet, Fresh, Appraised, Reread, Early, Points, Placements
<1>11. CommitsInv'
  BY <1>2, <1>3 DEF CommitsInv, Reread, Early, Retries, Waits, Ends
<1>12. FlightInv' /\ VerdictInv'
  BY <1>2 DEF FlightInv, VerdictInv, Waits
<1>13. FaultInv'
  BY <1>2, <1>3, PlanTyped DEF FaultInv, PlacedInv, NotYet, Points, Appraised, Ends
<1> QED BY <1>2, <1>6, <1>7, <1>8, <1>9, <1>10, <1>11, <1>12, <1>13

(* The case goes on without a second read. *)
LEMMA NoRereadStep ==
  ASSUME CaseInv, pc = "decide", pc' = "decided", ~ ReadsAgain,
         UNCHANGED <<plan, store, trace, effectPid, flight, reply, effect, verdict>>
  PROVE  CaseInv'
<1> USE DEF CaseInv, ScheduleInv
<1>1. /\ LogKept /\ LogInv' /\ UNCHANGED <<Revocations, Reads, Commits>>
      /\ UNCHANGED <<credential, events, effects>>
      /\ Len(events') = Len(events)
      /\ Reads \subseteq 1..Len(events) /\ Commits \subseteq 1..Len(events)
      /\ \A n \in 1..Len(events) : events'[n] = events[n] /\ (RevokedBefore(n)' <=> RevokedBefore(n))
  BY QuietStep
<1>2. Commits = {} /\ effect = NoEffect
  BY DEF CommitsInv, Early, Appraised
<1>3. TypeOK'
  BY <1>1 DEF TypeOK, Points, Reread
<1>4. PlanInv'
  BY <1>1 DEF PlanInv, Retries
<1>5. PlacedInv'
  BY <1>1, PlanTyped DEF PlacedInv, NotYet, Fresh, Appraised, Reread, Early, Points, Placements
<1>6. ReadsInv'
  <2>1. PICK r \in Reads : Reads = {r} /\ ~ RevokedBefore(r)
    BY DEF ReadsInv, Appraised
  <2>2. r \in Nat /\ Reads' = {r} /\ ~ RevokedBefore(r)' /\ ~ ReadsAgain'
    BY <1>1, <2>1 DEF ReadsAgain
  <2> QED BY <2>2 DEF ReadsInv, Fresh, Appraised, Ends
<1>7. PlacedReadsInv'
  BY <1>1 DEF PlacedReadsInv
<1>8. CommitsInv'
  BY <1>1, <1>2 DEF CommitsInv, Reread, Early, Retries, Waits, Ends
<1>9. FlightInv' /\ VerdictInv'
  BY <1>1 DEF FlightInv, VerdictInv, Waits
<1>10. FaultInv'
  BY <1>1, <1>2 DEF FaultInv, Ends
<1> QED BY <1>1, <1>3, <1>4, <1>5, <1>6, <1>7, <1>8, <1>9, <1>10

LEMMA DecideStep ==
  ASSUME CaseInv, Decide
  PROVE  CaseInv'
<1>1. PICK age \in Ages :
        /\ plan.placement = "after_cache_expiry" => age >= ExpirySleep
        /\ IF Rereads(age) THEN ReadAndGoto("decided")
           ELSE pc' = "decided" /\ UNCHANGED <<store, trace>>
  BY DEF Decide
<1>2. pc = "decide" /\ UNCHANGED <<plan, effectPid, flight, reply, effect, verdict>>
  BY DEF Decide
<1>3. CASE Rereads(age)
  <2>1. plan.profile \in {"double_read", "ttl_cache"}
    BY <1>3 DEF Rereads
  <2> QED BY <1>1, <1>2, <1>3, <2>1, RereadStep
<1>4. CASE ~ Rereads(age)
  <2>1. ~ ReadsAgain
    BY <1>1, <1>4, AgesAssumption DEF Rereads, ReadsAgain, ExpirySleep, TTL
  <2> QED BY <1>1, <1>2, <1>4, <2>1, NoRereadStep
<1> QED BY <1>3, <1>4

(* The one commit of a case, whoever calls it, under a key that is new. *)
LEMMA CommitStep ==
  ASSUME CaseInv, CommitEffect, UNCHANGED plan, Commits = {}, pc # "initialize"
  PROVE  /\ LogInv' /\ events' \in Seq(Events) /\ UNCHANGED credential
         /\ effects' \subseteq 1..Len(events')
         /\ LogKept /\ Len(events') = Len(events) + 1 /\ Len(events) \in Nat
         /\ Revocations' = Revocations /\ Reads' = Reads
         /\ Commits' = {Len(events) + 1}
         /\ Reads \subseteq 1..Len(events)
         /\ \A n \in 1..Len(events) : events'[n] = events[n] /\ (RevokedBefore(n)' <=> RevokedBefore(n))
         /\ \A n \in {Len(events) + 1} : RevokedBefore(n)' <=> Revocations # {}
         /\ events'[Len(events) + 1].process = effectPid
         /\ CommitResponse = [event |-> Len(events) + 1, replay |-> FALSE]
<1>1. events # <<>> /\ KeyIsNew
  BY DEF CaseInv, ScheduleInv, PlanInv, LogInv, EffectsInv, KeyIsNew
<1>2. /\ LogInv' /\ events' \in Seq(Events) /\ UNCHANGED credential
      /\ effects' \subseteq 1..Len(events')
      /\ events'[Len(events) + 1].process = effectPid
      /\ CommitResponse = [event |-> Len(events) + 1, replay |-> FALSE]
      /\ \E e \in Events : e.operation \in {"guarded_commit", "unguarded_commit"} /\ Logged(e)
  BY <1>1, CommitLogged DEF CaseInv
<1>3. /\ LogKept /\ Len(events') = Len(events) + 1
      /\ Revocations' = Revocations /\ Reads' = Reads
      /\ Commits' = {Len(events) + 1}
      /\ \A n \in {Len(events) + 1} : RevokedBefore(n)' <=> Revocations # {}
  BY <1>2 DEF Logged
<1>4. Len(events) \in Nat /\ Reads \subseteq 1..Len(events)
  BY PositionsTyped DEF CaseInv
<1> QED BY <1>2, <1>3, <1>4 DEF LogKept

(* The retry finds the effect of the aborted request. *)
LEMMA ReplayStep ==
  ASSUME CaseInv, pc \in Retries
  PROVE  /\ \E c \in Commits : Commits = {c} /\ effects = {c} /\ events[c].committed
         /\ ~ KeyIsNew /\ plan.fault # "none"
         /\ \E c \in Commits : Commits = {c} /\ CommitResponse = [event |-> c, replay |-> TRUE]
<1>1. /\ plan.placement = "active_commit" /\ plan.fault # "none"
      /\ Commits # {} /\ \A c, d \in Commits : c = d
      /\ \A c \in Commits : ~ RevokedBefore(c)
  BY PlanTyped DEF CaseInv, ScheduleInv, PlanInv, CommitsInv
<1>2. PICK c \in Commits : Commits = {c} /\ ~ RevokedBefore(c)
  BY <1>1
<1>3. effects = {c} /\ events[c].committed
  BY <1>2 DEF CaseInv, LogInv, EffectsInv
<1>4. ~ KeyIsNew
  BY <1>3 DEF KeyIsNew
<1>5. (CHOOSE e \in effects : TRUE) = c
  BY <1>3
<1>6. CommitResponse = [event |-> c, replay |-> TRUE]
  BY <1>4, <1>5 DEF CommitResponse
<1> QED BY <1>1, <1>2, <1>3, <1>4, <1>6

LEMMA FirstCommitCallStep ==
  ASSUME CaseInv, CommitCall, pc = "commit"
  PROVE  CaseInv'
<1> USE DEF CaseInv, ScheduleInv
<1> DEFINE c == Len(events) + 1
<1>1. /\ plan.placement # "simultaneous" /\ plan.fault = "none" /\ CommitEffect
      /\ effect' = CommitResponse /\ trace' = Append(trace, effect'.event) /\ pc' = "committed"
      /\ UNCHANGED <<plan, effectPid, flight, reply, verdict>>
  BY DEF CommitCall
<1>2. Commits = {}
  BY DEF CommitsInv, Early, Reread
<1>3. /\ LogInv' /\ events' \in Seq(Events) /\ UNCHANGED credential
      /\ effects' \subseteq 1..Len(events')
      /\ LogKept /\ Len(events') = c /\ Len(events) \in Nat
      /\ Revocations' = Revocations /\ Reads' = Reads
      /\ Commits' = {c}
      /\ Reads \subseteq 1..Len(events)
      /\ \A n \in 1..Len(events) : events'[n] = events[n] /\ (RevokedBefore(n)' <=> RevokedBefore(n))
      /\ \A n \in {c} : RevokedBefore(n)' <=> Revocations # {}
      /\ effect' = [event |-> c, replay |-> FALSE]
  BY <1>1, <1>2, CommitStep
<1>4. c \in Nat /\ c # 0
  BY <1>3
<1> HIDE DEF c
<1>5. TypeOK'
  <2>1. trace' \in Seq(Nat) /\ effect' \in [event : Nat, replay : BOOLEAN]
    BY <1>1, <1>3, <1>4 DEF TypeOK
  <2> QED BY <1>1, <1>3, <2>1 DEF TypeOK, Points
<1>6. PlanInv'
  BY <1>1, <1>3, <1>4 DEF PlanInv, Retries
<1>7. PlacedInv'
  <2>1. Revocations = {} <=> pc \in NotYet[plan.placement]
    BY <1>1 DEF PlacedInv
  <2>2. pc \in NotYet[plan.placement] <=> pc' \in NotYet[plan.placement]
    BY <1>1, PlanTyped DEF NotYet, Fresh, Appraised, Reread, Early, Points, Placements
  <2> QED BY <1>1, <1>3, <2>1, <2>2 DEF PlacedInv
<1>8. ReadsInv'
  BY <1>1, <1>3 DEF ReadsInv, Fresh, Appraised, Reread, Ends, ReadsAgain
<1>9. PlacedReadsInv'
  BY <1>1, <1>3 DEF PlacedReadsInv
<1>10. CommitsInv'
  <2>1. plan.placement = "before_appraisal" => FALSE
    BY DEF ReadsInv, PlacedReadsInv, Fresh, Appraised, Ends
  <2>2. /\ plan.placement \in {"between_appraisal_and_commit", "after_cache_expiry", "after_final_read"}
             => Revocations # {}
        /\ plan.placement \in {"after_commit", "active_commit"} => Revocations = {}
    BY PlanTyped DEF PlacedInv, NotYet, Fresh, Appraised, Reread, Early, Points, Placements
  <2> QED BY <1>1, <1>3, <2>1, <2>2
      DEF CommitsInv, Fresh, Appraised, Reread, Early, Retries, Waits, Ends
<1>11. FlightInv' /\ VerdictInv'
  BY <1>1, <1>3 DEF FlightInv, VerdictInv, Waits
<1>12. FaultInv'
  BY <1>1, <1>3 DEF FaultInv, Ends
<1> QED BY <1>3, <1>5, <1>6, <1>7, <1>8, <1>9, <1>10, <1>11, <1>12

LEMMA RetryStep ==
  ASSUME CaseInv, CommitCall, pc = "retry"
  PROVE  CaseInv'
<1> USE DEF CaseInv, ScheduleInv
<1>1. /\ CommitEffect /\ effect' = CommitResponse
      /\ trace' = Append(trace, effect'.event) /\ pc' = "committed"
      /\ UNCHANGED <<plan, effectPid, flight, reply, verdict>>
  BY DEF CommitCall
<1>2. PICK c \in Commits : Commits = {c} /\ CommitResponse = [event |-> c, replay |-> TRUE]
  BY ReplayStep DEF Retries
<1>3. UNCHANGED store /\ plan.fault # "none"
  BY <1>1, ReplayStep DEF CommitEffect, Retries
<1>4. /\ LogKept /\ LogInv' /\ UNCHANGED <<Revocations, Reads, Commits>>
      /\ UNCHANGED <<credential, events, effects>>
      /\ Len(events') = Len(events)
      /\ Reads \subseteq 1..Len(events) /\ Commits \subseteq 1..Len(events)
      /\ \A n \in 1..Len(events) : events'[n] = events[n] /\ (RevokedBefore(n)' <=> RevokedBefore(n))
  BY <1>1, <1>3, QuietStep
<1>5. c \in Nat /\ c # 0 /\ effect' = [event |-> c, replay |-> TRUE]
  BY <1>1, <1>2, <1>4, PositionsTyped
<1>6. TypeOK'
  <2>1. trace' \in Seq(Nat) /\ effect' \in [event : Nat, replay : BOOLEAN]
    BY <1>1, <1>5 DEF TypeOK
  <2> QED BY <1>1, <1>4, <2>1 DEF TypeOK, Points
<1>7. PlanInv'
  BY <1>1, <1>4 DEF PlanInv, Retries
<1>8. PlacedInv'
  <2>1. Revocations = {} <=> pc \in NotYet[plan.placement]
    BY <1>3, PlanTyped DEF PlacedInv
  <2>2. pc \in NotYet[plan.placement] <=> pc' \in NotYet[plan.placement]
    BY <1>1, <1>3, PlanTyped DEF NotYet, Points, Retries
  <2> QED BY <1>1, <1>3, <1>4, <2>1, <2>2, PlanTyped DEF PlacedInv
<1>9. ReadsInv'
  BY <1>1, <1>4 DEF ReadsInv, Fresh, Appraised, Reread, Ends, ReadsAgain
<1>10. PlacedReadsInv'
  BY <1>1, <1>4 DEF PlacedReadsInv
<1>11. CommitsInv'
  BY <1>1, <1>2, <1>4, <1>5 DEF CommitsInv, Fresh, Appraised, Reread, Early, Retries, Waits, Ends
<1>12. FlightInv' /\ VerdictInv'
  BY <1>1, <1>4 DEF FlightInv, VerdictInv, Waits
<1>13. FaultInv'
  <2>1. effect'.replay
    BY <1>5
  <2>2. \A c0 \in Commits' : events'[c0].process = "effect"
    BY <1>3, <1>4 DEF FaultInv
  <2> QED BY <1>1, <1>4, <2>1, <2>2 DEF FaultInv, Ends
<1> QED BY <1>4, <1>6, <1>7, <1>8, <1>9, <1>10, <1>11, <1>12, <1>13

LEMMA CommitCallStep ==
  ASSUME CaseInv, CommitCall
  PROVE  CaseInv'
BY FirstCommitCallStep, RetryStep DEF CommitCall

LEMMA ReleaseContendersStep ==
  ASSUME CaseInv, ReleaseContenders
  PROVE  CaseInv'
<1> USE DEF CaseInv, ScheduleInv
<1>1. /\ pc = "commit" /\ pc' = "contend" /\ plan.placement = "simultaneous"
      /\ flight' = {"revoke", "commit"}
      /\ UNCHANGED <<plan, store, effectPid, reply, trace, effect, verdict>>
  BY DEF ReleaseContenders, Goto
<1>2. /\ LogKept /\ LogInv' /\ UNCHANGED <<Revocations, Reads, Commits>>
      /\ UNCHANGED <<credential, events, effects>>
      /\ Len(events') = Len(events)
      /\ Reads \subseteq 1..Len(events) /\ Commits \subseteq 1..Len(events)
      /\ \A n \in 1..Len(events) : events'[n] = events[n] /\ (RevokedBefore(n)' <=> RevokedBefore(n))
  BY <1>1, QuietStep
<1>3. Commits = {} /\ Revocations = {} /\ effect = NoEffect /\ plan.fault = "none"
  BY <1>1, PlanTyped DEF CommitsInv, PlacedInv, Early, Reread
<1>4. TypeOK'
  BY <1>1, <1>2 DEF TypeOK, Points, Waits
<1>5. PlanInv'
  BY <1>1, <1>2 DEF PlanInv, Retries
<1>6. PlacedInv'
  BY <1>1, <1>2, <1>3 DEF PlacedInv
<1>7. ReadsInv'
  BY <1>1, <1>2 DEF ReadsInv, Fresh, Appraised, Reread, Ends, ReadsAgain
<1>8. PlacedReadsInv'
  BY <1>1, <1>2 DEF PlacedReadsInv
<1>9. CommitsInv'
  BY <1>1, <1>2, <1>3 DEF CommitsInv, Fresh, Appraised, Reread, Early, Retries, Waits, Ends
<1>10. FlightInv' /\ VerdictInv'
  BY <1>1, <1>2, <1>3 DEF FlightInv, VerdictInv, Waits
<1>11. FaultInv'
  BY <1>1, <1>2, <1>3 DEF FaultInv, Ends
<1> QED BY <1>2, <1>4, <1>5, <1>6, <1>7, <1>8, <1>9, <1>10, <1>11

(* A contender is in flight only while the runner waits for both, or after *)
(* it has given up.                                                        *)
LEMMA ContenderWaits ==
  ASSUME CaseInv, flight \cap {"revoke", "commit"} # {}
  PROVE  /\ pc \in {"contend", "raised"} /\ plan.placement = "simultaneous"
         /\ plan.fault = "none" /\ events # <<>> /\ effectPid = "effect"
         /\ "commit" \in flight <=> Commits = {}
         /\ "revoke" \in flight <=> Revocations = {}
         /\ "aborted" \notin flight
<1> USE DEF CaseInv, ScheduleInv
<1>1. pc \in Waits /\ plan.fault = "none"
  BY PlanTyped DEF FlightInv
<1>2. pc \in {"contend", "raised"} /\ plan.placement = "simultaneous"
  BY <1>1 DEF PlanInv, Waits
<1>3. events # <<>> /\ effectPid = "effect"
  BY <1>1, <1>2 DEF PlanInv, FaultInv, TypeOK
<1>4. flight = (IF Commits = {} THEN {"commit"} ELSE {}) \cup (IF Revocations = {} THEN {"revoke"} ELSE {})
  BY <1>1 DEF FlightInv
<1> QED BY <1>1, <1>2, <1>3, <1>4

LEMMA ContenderRevokesStep ==
  ASSUME CaseInv, ContenderRevokes
  PROVE  CaseInv'
<1> USE DEF CaseInv, ScheduleInv
<1>1. /\ "revoke" \in flight /\ flight' = flight \ {"revoke"} /\ Revoke
      /\ reply' = [reply EXCEPT !.revoke = Len(events')]
      /\ UNCHANGED <<plan, pc, trace, effect, verdict, effectPid>>
  BY DEF ContenderRevokes, runner, Last
<1>2. /\ pc \in {"contend", "raised"} /\ plan.placement = "simultaneous"
      /\ plan.fault = "none" /\ events # <<>> /\ effectPid = "effect"
      /\ "commit" \in flight <=> Commits = {}
      /\ Revocations = {} /\ "aborted" \notin flight
  BY <1>1, ContenderWaits
<1>3. /\ LogInv' /\ events' \in Seq(Events) /\ UNCHANGED effects
      /\ credential' \in [status : {"absent", "active", "revoked"}, sequence : Nat]
  BY <1>1, <1>2, RevokeLogged
<1>4. /\ LogKept /\ Len(events') = Len(events) + 1 /\ Len(events) \in Nat
      /\ Revocations' = Revocations \cup {Len(events) + 1}
      /\ Reads' = Reads /\ Commits' = Commits
      /\ Reads \subseteq 1..Len(events) /\ Commits \subseteq 1..Len(events)
      /\ \A n \in 1..Len(events) : events'[n] = events[n] /\ (RevokedBefore(n)' <=> RevokedBefore(n))
  BY <1>1, <1>2, RevokeLogged, PositionsTyped DEF Logged, LogKept
<1>5. /\ reply' \in [revoke : Nat, commit : Nat]
      /\ reply'.revoke # 0 /\ reply'.commit = reply.commit
  BY <1>1, <1>4, SMTT(30) DEF TypeOK
<1>6. TypeOK'
  <2>1. effects' \subseteq 1..Len(events')
    BY <1>3, <1>4 DEF TypeOK
  <2> QED BY <1>1, <1>3, <1>5, <2>1 DEF TypeOK
<1>7. PlanInv'
  BY <1>1, <1>2, <1>4 DEF PlanInv, Retries, LogKept
<1>8. PlacedInv'
  BY <1>1, <1>2, <1>4, <1>5 DEF PlacedInv, Early, Fresh, Appraised, Reread
<1>9. ReadsInv'
  BY <1>1, <1>2, <1>4 DEF ReadsInv, Fresh, Appraised, Ends, ReadsAgain
<1>10. PlacedReadsInv'
  BY <1>1, <1>2, <1>4 DEF PlacedReadsInv
<1>11. CommitsInv'
  BY <1>1, <1>2, <1>4 DEF CommitsInv, Fresh, Appraised, Reread, Early, Retries, Waits, Ends
<1>12. FlightInv'
  <2>1. flight' = (IF Commits' = {} THEN {"commit"} ELSE {})
    BY <1>1, <1>2, <1>4 DEF TypeOK
  <2> QED BY <1>1, <1>2, <1>4, <2>1 DEF FlightInv, Waits
<1>13. FaultInv' /\ VerdictInv'
  BY <1>1, <1>2, <1>4 DEF FaultInv, VerdictInv, Ends
<1> QED BY <1>3, <1>6, <1>7, <1>8, <1>9, <1>10, <1>11, <1>12, <1>13

LEMMA ContenderCommitsStep ==
  ASSUME CaseInv, ContenderCommits
  PROVE  CaseInv'
<1> USE DEF CaseInv, ScheduleInv
<1> DEFINE c == Len(events) + 1
<1>1. /\ "commit" \in flight /\ flight' = flight \ {"commit"} /\ CommitEffect
      /\ reply' = [reply EXCEPT !.commit = CommitResponse.event]
      /\ UNCHANGED <<plan, pc, trace, effect, verdict, effectPid>>
  BY DEF ContenderCommits, runner
<1>2. /\ pc \in {"contend", "raised"} /\ plan.placement = "simultaneous"
      /\ plan.fault = "none" /\ events # <<>> /\ effectPid = "effect"
      /\ Commits = {} /\ "aborted" \notin flight
      /\ "revoke" \in flight <=> Revocations = {}
  BY <1>1, ContenderWaits
<1>3. /\ LogInv' /\ events' \in Seq(Events) /\ UNCHANGED credential
      /\ effects' \subseteq 1..Len(events')
      /\ LogKept /\ Len(events') = c /\ Len(events) \in Nat
      /\ Revocations' = Revocations /\ Reads' = Reads
      /\ Commits' = {c}
      /\ Reads \subseteq 1..Len(events)
      /\ \A n \in 1..Len(events) : events'[n] = events[n] /\ (RevokedBefore(n)' <=> RevokedBefore(n))
      /\ CommitResponse = [event |-> c, replay |-> FALSE]
  BY <1>1, <1>2, CommitStep
<1>4. c \in Nat /\ c # 0
  BY <1>3
<1> HIDE DEF c
<1>5. /\ reply' \in [revoke : Nat, commit : Nat]
      /\ reply'.commit = c /\ reply'.revoke = reply.revoke
  BY <1>1, <1>3, <1>4 DEF TypeOK
<1>6. TypeOK'
  BY <1>1, <1>3, <1>5 DEF TypeOK
<1>7. PlanInv'
  BY <1>1, <1>2, <1>3, <1>4 DEF PlanInv, Retries
<1>8. PlacedInv'
  BY <1>1, <1>2, <1>3, <1>4, <1>5 DEF PlacedInv, Early, Fresh, Appraised, Reread
<1>9. ReadsInv'
  BY <1>1, <1>2, <1>3 DEF ReadsInv, Fresh, Appraised, Ends, ReadsAgain
<1>10. PlacedReadsInv'
  BY <1>1, <1>2, <1>3 DEF PlacedReadsInv
<1>11. CommitsInv'
  BY <1>1, <1>2, <1>3 DEF CommitsInv, Fresh, Appraised, Reread, Early, Retries, Waits, Ends
<1>12. FlightInv'
  <2>1. flight' = (IF Revocations' = {} THEN {"revoke"} ELSE {})
    BY <1>1, <1>2, <1>3 DEF TypeOK
  <2> QED BY <1>1, <1>2, <1>3, <2>1 DEF FlightInv, Waits
<1>13. FaultInv' /\ VerdictInv'
  BY <1>1, <1>2, <1>3 DEF FaultInv, VerdictInv, Ends
<1> QED BY <1>3, <1>6, <1>7, <1>8, <1>9, <1>10, <1>11, <1>12, <1>13

LEMMA JoinContendersStep ==
  ASSUME CaseInv, JoinContenders
  PROVE  CaseInv'
<1> USE DEF CaseInv, ScheduleInv
<1>1. /\ pc = "contend" /\ pc' = "committed" /\ reply.revoke # 0 /\ reply.commit # 0
      /\ trace' = trace \o <<reply.revoke, reply.commit>>
      /\ effect' = [event |-> reply.commit, replay |-> FALSE]
      /\ UNCHANGED <<plan, store, effectPid, flight, reply, verdict>>
  BY DEF JoinContenders, Goto
<1>2. /\ LogKept /\ LogInv' /\ UNCHANGED <<Revocations, Reads, Commits>>
      /\ UNCHANGED <<credential, events, effects>>
      /\ Len(events') = Len(events)
      /\ Reads \subseteq 1..Len(events) /\ Commits \subseteq 1..Len(events)
      /\ \A n \in 1..Len(events) : events'[n] = events[n] /\ (RevokedBefore(n)' <=> RevokedBefore(n))
  BY <1>1, QuietStep
<1>3. /\ plan.placement = "simultaneous" /\ plan.fault = "none"
      /\ Commits = {reply.commit} /\ Revocations # {} /\ flight = {}
  <2>1. plan.placement = "simultaneous" /\ plan.fault = "none"
    BY <1>1, PlanTyped DEF PlanInv
  <2>2. Commits = {reply.commit} /\ Revocations # {}
    BY <1>1, <2>1 DEF PlacedInv
  <2> QED BY <1>1, <2>1, <2>2 DEF FlightInv, Waits
<1>4. TypeOK'
  <2>1. reply.revoke \in Nat /\ reply.commit \in Nat
    BY DEF TypeOK
  <2>2. trace' \in Seq(Nat) /\ effect' \in [event : Nat, replay : BOOLEAN]
    BY <1>1, <2>1 DEF TypeOK
  <2> QED BY <1>1, <1>2, <2>2 DEF TypeOK, Points
<1>5. PlanInv'
  BY <1>1, <1>2 DEF PlanInv, Retries
<1>6. PlacedInv'
  BY <1>1, <1>2, <1>3 DEF PlacedInv, Early, Fresh, Appraised, Reread
<1>7. ReadsInv'
  BY <1>1, <1>2 DEF ReadsInv, Fresh, Appraised, Reread, Ends, ReadsAgain
<1>8. PlacedReadsInv'
  BY <1>1, <1>2 DEF PlacedReadsInv
<1>9. CommitsInv'
  BY <1>1, <1>2, <1>3 DEF CommitsInv, Fresh, Appraised, Reread, Early, Retries, Waits, Ends
<1>10. FlightInv' /\ VerdictInv'
  BY <1>1, <1>2, <1>3 DEF FlightInv, VerdictInv, Waits
<1>11. FaultInv'
  BY <1>1, <1>2, <1>3 DEF FaultInv, Ends
<1> QED BY <1>2, <1>4, <1>5, <1>6, <1>7, <1>8, <1>9, <1>10, <1>11

LEMMA NotYetActive == NotYet["active_commit"] = Points
BY DEF NotYet

(* A case with a fault revokes nothing. *)
LEMMA FaultyCase ==
  ASSUME CaseInv, plan.fault # "none"
  PROVE  plan.placement = "active_commit" /\ Revocations = {} /\ \A c \in Commits : ~ RevokedBefore(c)
<1> USE DEF CaseInv, ScheduleInv
<1>1. plan.placement = "active_commit"
  BY PlanTyped
<1>2. Revocations = {}
  BY <1>1 DEF PlacedInv, NotYet, TypeOK
<1> QED BY <1>1, <1>2 DEF RevokedBefore

LEMMA FireAndAbortStep ==
  ASSUME CaseInv, FireAndAbort
  PROVE  CaseInv'
<1> USE DEF CaseInv, ScheduleInv
<1>1. /\ pc = "commit" /\ pc' = "poll" /\ plan.fault # "none"
      /\ flight' = flight \cup {"aborted"}
      /\ UNCHANGED <<plan, store, effectPid, reply, trace, effect, verdict>>
  BY DEF FireAndAbort, Goto
<1>2. /\ LogKept /\ LogInv' /\ UNCHANGED <<Revocations, Reads, Commits>>
      /\ UNCHANGED <<credential, events, effects>>
      /\ Len(events') = Len(events)
      /\ Reads \subseteq 1..Len(events) /\ Commits \subseteq 1..Len(events)
      /\ \A n \in 1..Len(events) : events'[n] = events[n] /\ (RevokedBefore(n)' <=> RevokedBefore(n))
  BY <1>1, QuietStep
<1>3. Commits = {} /\ effect = NoEffect /\ flight' = {"aborted"}
  BY <1>1 DEF CommitsInv, FlightInv, Early, Reread, Waits
<1>4. plan.placement = "active_commit" /\ Revocations = {}
  BY <1>1, FaultyCase
<1>5. TypeOK'
  BY <1>1, <1>2, <1>3 DEF TypeOK, Points, Waits
<1>6. PlanInv'
  BY <1>1, <1>2 DEF PlanInv, Retries
<1>7. PlacedInv'
  <2>1. plan'.placement = "active_commit" /\ pc' \in Points /\ Revocations' = {}
    BY <1>1, <1>2, <1>4, <1>5 DEF TypeOK
  <2> QED BY <2>1, NotYetActive DEF PlacedInv
<1>8. ReadsInv'
  BY <1>1, <1>2 DEF ReadsInv, Fresh, Appraised, Reread, Ends, ReadsAgain
<1>9. PlacedReadsInv'
  BY <1>1, <1>2 DEF PlacedReadsInv
<1>10. CommitsInv'
  BY <1>1, <1>2, <1>3 DEF CommitsInv, Early, Fresh, Appraised, Reread, Retries, Ends
<1>11. FlightInv' /\ VerdictInv'
  BY <1>1, <1>2, <1>3 DEF FlightInv, VerdictInv, Waits
<1>12. FaultInv'
  BY <1>1, <1>2, <1>3 DEF FaultInv, Ends
<1> QED BY <1>2, <1>5, <1>6, <1>7, <1>8, <1>9, <1>10, <1>11, <1>12

LEMMA ServeAbortedStep ==
  ASSUME CaseInv, ServeAborted
  PROVE  CaseInv'
<1> USE DEF CaseInv, ScheduleInv
<1> DEFINE c == Len(events) + 1
<1>1. /\ "aborted" \in flight /\ flight' = flight \ {"aborted"} /\ CommitEffect
      /\ UNCHANGED <<plan, pc, trace, effect, verdict, effectPid, reply>>
  BY DEF ServeAborted, runner
<1>2. pc \in Waits /\ plan.fault # "none" /\ Commits = {} /\ flight' = {}
  BY <1>1 DEF FlightInv
<1>3. plan.placement = "active_commit" /\ Revocations = {}
  BY <1>2, FaultyCase
<1>4. pc \in {"poll", "raised"} /\ effectPid = "effect" /\ events # <<>>
  BY <1>2, <1>3 DEF PlanInv, FaultInv, TypeOK, Waits, Ends
<1>5. /\ LogInv' /\ events' \in Seq(Events) /\ UNCHANGED credential
      /\ effects' \subseteq 1..Len(events')
      /\ LogKept /\ Len(events') = c /\ Len(events) \in Nat
      /\ Revocations' = Revocations /\ Reads' = Reads
      /\ Commits' = {c}
      /\ Reads \subseteq 1..Len(events)
      /\ \A n \in 1..Len(events) : events'[n] = events[n] /\ (RevokedBefore(n)' <=> RevokedBefore(n))
      /\ \A n \in {c} : RevokedBefore(n)' <=> Revocations # {}
      /\ events'[c].process = effectPid
  BY <1>1, <1>2, <1>4, CommitStep
<1>6. c \in Nat /\ c # 0
  BY <1>5
<1> HIDE DEF c
<1>7. TypeOK'
  BY <1>1, <1>2, <1>5 DEF TypeOK
<1>8. PlanInv'
  BY <1>1, <1>4, <1>5, <1>6 DEF PlanInv, Retries
<1>9. PlacedInv'
  BY <1>1, <1>3, <1>5, <1>7 DEF PlacedInv, NotYet, TypeOK
<1>10. ReadsInv'
  BY <1>1, <1>4, <1>5 DEF ReadsInv, Fresh, Appraised, Ends, ReadsAgain
<1>11. PlacedReadsInv'
  BY <1>1, <1>5 DEF PlacedReadsInv
<1>12. CommitsInv'
  BY <1>1, <1>3, <1>4, <1>5 DEF CommitsInv, Early, Fresh, Appraised, Reread, Retries, Waits, Ends
<1>13. FlightInv' /\ VerdictInv'
  BY <1>1, <1>2, <1>4, <1>5 DEF FlightInv, VerdictInv
<1>14. FaultInv'
  BY <1>1, <1>2, <1>4, <1>5 DEF FaultInv, Ends
<1> QED BY <1>5, <1>7, <1>8, <1>9, <1>10, <1>11, <1>12, <1>13, <1>14

LEMMA PollEffectStep ==
  ASSUME CaseInv, PollEffect
  PROVE  CaseInv'
<1> USE DEF CaseInv, ScheduleInv
<1>1. /\ pc = "poll"
      /\ pc' = IF plan.fault = "restart_after_commit" THEN "restart" ELSE "retry"
      /\ EffectIsDurable /\ plan.fault # "none"
      /\ UNCHANGED <<plan, store, effectPid, flight, reply, trace, effect, verdict>>
  BY DEF PollEffect, Goto, PlanInv
<1>2. /\ LogKept /\ LogInv' /\ UNCHANGED <<Revocations, Reads, Commits>>
      /\ UNCHANGED <<credential, events, effects>>
      /\ Len(events') = Len(events)
      /\ Reads \subseteq 1..Len(events) /\ Commits \subseteq 1..Len(events)
      /\ \A n \in 1..Len(events) : events'[n] = events[n] /\ (RevokedBefore(n)' <=> RevokedBefore(n))
  BY <1>1, QuietStep
<1>3. plan.placement = "active_commit" /\ Revocations = {}
  BY <1>1, FaultyCase
<1>4. Commits # {} /\ effect = NoEffect /\ flight = {}
  <2>1. effects # {}
    BY <1>1, FS_EmptySet DEF EffectIsDurable
  <2>2. Commits # {}
    BY <2>1 DEF LogInv, EffectsInv
  <2> QED BY <1>1, <2>2 DEF CommitsInv, FlightInv, Waits
<1>5. TypeOK'
  BY <1>1, <1>2 DEF TypeOK, Points, Retries
<1>6. PlanInv'
  BY <1>1, <1>2 DEF PlanInv, Retries
<1>7. PlacedInv'
  <2>1. plan'.placement = "active_commit" /\ pc' \in Points /\ Revocations' = {}
    BY <1>1, <1>2, <1>3, <1>5 DEF TypeOK
  <2> QED BY <2>1, NotYetActive DEF PlacedInv
<1>8. ReadsInv'
  BY <1>1, <1>2 DEF ReadsInv, Fresh, Appraised, Ends, ReadsAgain
<1>9. PlacedReadsInv'
  BY <1>1, <1>2 DEF PlacedReadsInv
<1>10. CommitsInv'
  BY <1>1, <1>2, <1>4 DEF CommitsInv, Early, Fresh, Appraised, Reread, Retries, Waits, Ends
<1>11. FlightInv' /\ VerdictInv'
  BY <1>1, <1>2, <1>4 DEF FlightInv, VerdictInv, Waits
<1>12. FaultInv'
  BY <1>1, <1>2 DEF FaultInv, Ends
<1> QED BY <1>2, <1>5, <1>6, <1>7, <1>8, <1>9, <1>10, <1>11, <1>12

LEMMA RestartEffectStep ==
  ASSUME CaseInv, RestartEffect
  PROVE  CaseInv'
<1> USE DEF CaseInv, ScheduleInv
<1>1. /\ pc = "restart" /\ pc' = "retry" /\ effectPid' = "restarted" /\ flight' = {}
      /\ plan.fault = "restart_after_commit"
      /\ UNCHANGED <<plan, store, reply, trace, effect, verdict>>
  BY DEF RestartEffect, Goto, PlanInv
<1>2. /\ LogKept /\ LogInv' /\ UNCHANGED <<Revocations, Reads, Commits>>
      /\ UNCHANGED <<credential, events, effects>>
      /\ Len(events') = Len(events)
      /\ Reads \subseteq 1..Len(events) /\ Commits \subseteq 1..Len(events)
      /\ \A n \in 1..Len(events) : events'[n] = events[n] /\ (RevokedBefore(n)' <=> RevokedBefore(n))
  BY <1>1, QuietStep
<1>3. plan.placement = "active_commit" /\ Revocations = {}
  BY <1>1, FaultyCase
<1>5. TypeOK'
  BY <1>1, <1>2 DEF TypeOK, Points, Retries
<1>6. PlanInv'
  BY <1>1, <1>2 DEF PlanInv, Retries
<1>7. PlacedInv'
  <2>1. plan'.placement = "active_commit" /\ pc' \in Points /\ Revocations' = {}
    BY <1>1, <1>2, <1>3, <1>5 DEF TypeOK
  <2> QED BY <2>1, NotYetActive DEF PlacedInv
<1>8. ReadsInv'
  BY <1>1, <1>2 DEF ReadsInv, Fresh, Appraised, Ends, ReadsAgain
<1>9. PlacedReadsInv'
  BY <1>1, <1>2 DEF PlacedReadsInv
<1>10. CommitsInv'
  BY <1>1, <1>2 DEF CommitsInv, Early, Fresh, Appraised, Reread, Retries, Waits, Ends
<1>11. FlightInv' /\ VerdictInv'
  BY <1>1, <1>2 DEF FlightInv, VerdictInv, Waits
<1>12. FaultInv'
  BY <1>1, <1>2 DEF FaultInv, Ends
<1> QED BY <1>2, <1>5, <1>6, <1>7, <1>8, <1>9, <1>10, <1>11, <1>12

LEMMA WaitRunsOutStep ==
  ASSUME CaseInv, WaitRunsOut
  PROVE  CaseInv'
<1> USE DEF CaseInv, ScheduleInv
<1>1. /\ pc \in {"poll", "contend"} /\ pc' = "raised"
      /\ UNCHANGED <<plan, store, effectPid, flight, reply, trace, effect, verdict>>
  BY DEF WaitRunsOut
<1>2. /\ LogKept /\ LogInv' /\ UNCHANGED <<Revocations, Reads, Commits>>
      /\ UNCHANGED <<credential, events, effects>>
      /\ Len(events') = Len(events)
      /\ Reads \subseteq 1..Len(events) /\ Commits \subseteq 1..Len(events)
      /\ \A n \in 1..Len(events) : events'[n] = events[n] /\ (RevokedBefore(n)' <=> RevokedBefore(n))
  BY <1>1, QuietStep
<1>3. \/ plan.placement = "simultaneous"
      \/ plan.placement = "active_commit" /\ Revocations = {}
  <2>1. pc = "contend" => plan.placement = "simultaneous"
    BY DEF PlanInv
  <2>2. pc = "poll" => plan.fault # "none"
    BY DEF PlanInv
  <2>3. plan.fault # "none" => plan.placement = "active_commit" /\ Revocations = {}
    BY FaultyCase
  <2> QED BY <1>1, <2>1, <2>2, <2>3
<1>5. TypeOK'
  BY <1>1, <1>2 DEF TypeOK, Points, Waits
<1>6. PlanInv'
  BY <1>1, <1>2 DEF PlanInv, Retries
<1>7. PlacedInv'
  BY <1>1, <1>2, <1>3, <1>5 DEF PlacedInv, NotYet, TypeOK, Early, Fresh, Appraised, Reread
<1>8. ReadsInv'
  BY <1>1, <1>2 DEF ReadsInv, Fresh, Appraised, Ends, ReadsAgain
<1>9. PlacedReadsInv'
  BY <1>1, <1>2 DEF PlacedReadsInv
<1>10. CommitsInv'
  BY <1>1, <1>2 DEF CommitsInv, Early, Fresh, Appraised, Reread, Retries, Waits, Ends
<1>11. FlightInv' /\ VerdictInv'
  BY <1>1, <1>2 DEF FlightInv, VerdictInv, Waits
<1>12. FaultInv'
  BY <1>1, <1>2 DEF FaultInv, Ends
<1> QED BY <1>2, <1>5, <1>6, <1>7, <1>8, <1>9, <1>10, <1>11, <1>12

(* At its end a case has asked for a commit exactly when the log has one,  *)
(* and the effects table holds that commit exactly when it was committed.  *)
LEMMA CaseEnds ==
  ASSUME CaseInv, pc \in Ends
  PROVE  /\ effect.event # 0 <=> Commits # {}
         /\ Commits # {} => /\ Commits = {effect.event}
                            /\ effect.event \in 1..Len(events)
                            /\ effects = IF events[effect.event].committed THEN {effect.event} ELSE {}
                            /\ events[effect.event].committed \in BOOLEAN
         /\ Commits = {} => effects = {} /\ trace # <<>> /\ trace[Len(trace)] \in Reads
<1> USE DEF CaseInv, ScheduleInv
<1>1. Commits # {} => Commits = {effect.event} /\ effect.event \in 1..Len(events)
  BY PositionsTyped DEF CommitsInv
<1>2. Commits = {} => effect.event = 0 /\ effects = {}
  BY DEF CommitsInv, NoEffect, LogInv, EffectsInv
<1>3. Commits # {} => /\ effects = IF events[effect.event].committed THEN {effect.event} ELSE {}
                      /\ events[effect.event].committed \in BOOLEAN
  <2>1. SUFFICES ASSUME Commits # {}
                 PROVE  /\ effects = IF events[effect.event].committed THEN {effect.event} ELSE {}
                        /\ events[effect.event].committed \in BOOLEAN
    OBVIOUS
  <2>2. events[effect.event] \in Events
    BY <1>1, <2>1 DEF TypeOK
  <2>3. effects = {c \in {effect.event} : events[c].committed}
    BY <1>1, <2>1 DEF LogInv, EffectsInv
  <2> QED BY <2>2, <2>3 DEF Events
<1>4. Commits = {} => trace # <<>> /\ trace[Len(trace)] \in Reads
  BY DEF ReadsInv, Fresh, Appraised, Ends
<1>5. effect.event # 0 <=> Commits # {}
  BY <1>1, <1>2
<1> QED BY <1>1, <1>2, <1>3, <1>4, <1>5

LEMMA FinalizeStep ==
  ASSUME CaseInv, Finalize
  PROVE  CaseInv'
<1> USE DEF CaseInv, ScheduleInv
<1> DEFINE asked == effect.event # 0
           accepted == asked /\ events[effect.event].committed
           oracle == events[IF asked THEN effect.event ELSE trace[Len(trace)]].status = "active"
           count == Cardinality(effects)
           duplicates == IF count > 0 /\ asked THEN count - (IF accepted THEN 1 ELSE 0) ELSE 0
           recovery == asked /\ plan.fault # "none" => effect.replay /\ count = 1
<1>1. /\ pc = "tally" /\ pc' = "done"
      /\ verdict' = [accepted |-> accepted, oracle |-> oracle,
                     duplicates |-> duplicates, recovery |-> recovery]
      /\ UNCHANGED <<plan, store, effectPid, flight, reply, trace, effect>>
  BY DEF Finalize, Goto
<1>2. /\ LogKept /\ LogInv' /\ UNCHANGED <<Revocations, Reads, Commits>>
      /\ UNCHANGED <<credential, events, effects>>
      /\ Len(events') = Len(events)
      /\ Reads \subseteq 1..Len(events) /\ Commits \subseteq 1..Len(events)
      /\ \A n \in 1..Len(events) : events'[n] = events[n] /\ (RevokedBefore(n)' <=> RevokedBefore(n))
  BY <1>1, QuietStep
<1>3. /\ asked <=> Commits # {}
      /\ Commits # {} => /\ Commits = {effect.event}
                         /\ effects = IF events[effect.event].committed THEN {effect.event} ELSE {}
                         /\ events[effect.event].committed \in BOOLEAN
  BY <1>1, CaseEnds DEF Ends
<1>4. accepted \in BOOLEAN /\ oracle \in BOOLEAN /\ recovery \in BOOLEAN
  BY <1>3
<1>5. duplicates = 0
  <2>1. CASE asked
    <3>1. effects = IF accepted THEN {effect.event} ELSE {}
      BY <1>3, <2>1
    <3>2. count = IF accepted THEN 1 ELSE 0
      BY <3>1, FS_EmptySet, FS_Singleton
    <3> QED BY <1>4, <3>2
  <2>2. CASE ~ asked
    BY <2>2
  <2> QED BY <2>1, <2>2
<1>6. plan.fault # "none" => recovery
  <2>1. SUFFICES ASSUME plan.fault # "none", asked
                 PROVE  effect.replay /\ count = 1
    OBVIOUS
  <2>2. effect.replay
    BY <1>1, <2>1 DEF FaultInv, Ends
  <2>3. ~ RevokedBefore(effect.event)
    BY <1>3, <2>1, FaultyCase
  <2>4. events[effect.event].committed
    BY <1>3, <2>1, <2>3 DEF LogInv, EffectsInv
  <2>5. count = 1
    BY <1>3, <2>1, <2>4, FS_Singleton
  <2> QED BY <2>2, <2>5
<1>7. VerdictInv'
  <2>1. /\ verdict'.accepted = accepted /\ verdict'.oracle = oracle
        /\ verdict'.duplicates = duplicates /\ verdict'.recovery = recovery
    BY <1>1
  <2>2. accepted <=> Commits # {} /\ events[effect.event].committed
    BY <1>3
  <2>3. oracle <=>
         events[IF Commits # {} THEN effect.event ELSE trace[Len(trace)]].status = "active"
    BY <1>3
  <2> HIDE DEF asked, accepted, oracle, duplicates, recovery
  <2> QED BY <1>1, <1>2, <1>5, <1>6, <2>1, <2>2, <2>3 DEF VerdictInv
<1>8. TypeOK'
  <2>1. verdict' \in [accepted : BOOLEAN, oracle : BOOLEAN, duplicates : Nat, recovery : BOOLEAN]
    <3> HIDE DEF accepted, oracle, duplicates, recovery
    <3> QED BY <1>1, <1>4, <1>5
  <2> QED BY <1>1, <1>2, <2>1 DEF TypeOK, Points, Ends
<1> HIDE DEF accepted, oracle, duplicates, recovery
<1>9. PlanInv'
  BY <1>1, <1>2 DEF PlanInv, Retries
<1>10. PlacedInv'
  <2>1. plan.placement # "simultaneous" =>
           (pc \in NotYet[plan.placement] <=> pc' \in NotYet[plan.placement])
    BY <1>1, PlanTyped DEF NotYet, Fresh, Appraised, Reread, Early, Points, Placements, Ends
  <2> QED BY <1>1, <1>2, <2>1 DEF PlacedInv, Early, Fresh, Appraised, Reread
<1>11. ReadsInv'
  BY <1>1, <1>2 DEF ReadsInv, Fresh, Appraised, Ends, ReadsAgain
<1>12. PlacedReadsInv'
  BY <1>1, <1>2 DEF PlacedReadsInv
<1>13. CommitsInv'
  BY <1>1, <1>2 DEF CommitsInv, Early, Fresh, Appraised, Reread, Waits, Retries, Ends
<1>14. FlightInv'
  BY <1>1, <1>2 DEF FlightInv, Waits
<1>15. FaultInv'
  BY <1>1, <1>2 DEF FaultInv, Ends
<1> QED BY <1>2, <1>7, <1>8, <1>9, <1>10, <1>11, <1>12, <1>13, <1>14, <1>15

LEMMA CaseStutters ==
  ASSUME CaseInv, UNCHANGED vars
  PROVE  CaseInv'
<1> USE DEF CaseInv, ScheduleInv
<1>1. UNCHANGED <<plan, pc, store, effectPid, flight, reply, trace, effect, verdict>>
  BY DEF vars, runner
<1>2. /\ LogKept /\ LogInv' /\ UNCHANGED <<Revocations, Reads, Commits>>
      /\ UNCHANGED <<credential, events, effects>>
      /\ Reads \subseteq 1..Len(events) /\ Commits \subseteq 1..Len(events)
      /\ \A n \in 1..Len(events) : events'[n] = events[n] /\ (RevokedBefore(n)' <=> RevokedBefore(n))
  BY <1>1, QuietStep
<1>3. TypeOK' /\ PlanInv' /\ PlacedInv' /\ FlightInv' /\ FaultInv' /\ VerdictInv'
  BY <1>1, <1>2 DEF TypeOK, PlanInv, PlacedInv, FlightInv, FaultInv, VerdictInv
<1>4. ReadsInv' /\ PlacedReadsInv' /\ CommitsInv'
  BY <1>1, <1>2 DEF ReadsInv, ReadsAgain, PlacedReadsInv, CommitsInv
<1> QED BY <1>2, <1>3, <1>4

(* Every state of a case satisfies the two layers of the invariant. *)
THEOREM CaseInvariant == Spec => []CaseInv
<1>1. Init => CaseInv
  BY InitEstablishes
<1>2. CaseInv /\ [Next]_vars => CaseInv'
  <2> SUFFICES ASSUME CaseInv, [Next]_vars PROVE CaseInv'
    OBVIOUS
  <2>1. CASE InitializeCredential BY <2>1, InitializeCredentialStep
  <2>2. CASE PlacedRevocation BY <2>2, PlacementPassed, PlacementRevokes
  <2>3. CASE Appraise BY <2>3, AppraiseStep
  <2>4. CASE Decide BY <2>4, DecideStep
  <2>5. CASE CommitCall BY <2>5, CommitCallStep
  <2>6. CASE ReleaseContenders BY <2>6, ReleaseContendersStep
  <2>7. CASE JoinContenders BY <2>7, JoinContendersStep
  <2>8. CASE FireAndAbort BY <2>8, FireAndAbortStep
  <2>9. CASE PollEffect BY <2>9, PollEffectStep
  <2>10. CASE RestartEffect BY <2>10, RestartEffectStep
  <2>11. CASE Finalize BY <2>11, FinalizeStep
  <2>12. CASE WaitRunsOut BY <2>12, WaitRunsOutStep
  <2>13. CASE ContenderRevokes BY <2>13, ContenderRevokesStep
  <2>14. CASE ContenderCommits BY <2>14, ContenderCommitsStep
  <2>15. CASE ServeAborted BY <2>15, ServeAbortedStep
  <2>16. CASE UNCHANGED vars BY <2>16, CaseStutters
  <2> QED BY <2>1, <2>2, <2>3, <2>4, <2>5, <2>6, <2>7, <2>8, <2>9, <2>10, <2>11, <2>12,
             <2>13, <2>14, <2>15, <2>16 DEF Next, Runner
<1> QED BY <1>1, <1>2, PTL DEF Spec

-----------------------------------------------------------------------------
(* The verdict.                                                            *)

(* The bounds of the reads are the reads the invariant names. *)
LEMMA ReadBounds ==
  ASSUME CaseInv, NEW r \in Reads, NEW s \in Reads, Reads = {r, s}, r <= s
  PROVE  FirstRead = r /\ LastRead = s
<1>1. r \in Nat /\ s \in Nat
  BY PositionsTyped DEF CaseInv
<1>2. \A n \in Reads : (\A m \in Reads : n <= m) => n = r
  BY <1>1
<1>3. \A n \in Reads : (\A m \in Reads : m <= n) => n = s
  BY <1>1
<1>4. FirstRead = r
  BY <1>1, <1>2 DEF FirstRead
<1>5. LastRead = s
  BY <1>1, <1>3 DEF LastRead
<1> QED BY <1>4, <1>5

(* The reads of a finished case. *)
LEMMA ReadsAtEnd ==
  ASSUME CaseInv, Decided
  PROVE  /\ Reads # {} /\ FirstRead \in Reads /\ LastRead \in Reads
         /\ Reads = {FirstRead, LastRead} /\ FirstRead <= LastRead
         /\ FirstRead < LastRead => plan.profile \in {"double_read", "ttl_cache"}
                                    /\ ~ RevokedBefore(FirstRead)
         /\ ReadsAgain /\ ~ RevokedBefore(FirstRead) => FirstRead < LastRead
         /\ RevokedBefore(LastRead) <=> Commits = {}
         /\ Commits = {} => trace[Len(trace)] = LastRead
<1>1. PICK r, s \in Reads :
          /\ Reads = {r, s} /\ r <= s
          /\ r < s => plan.profile \in {"double_read", "ttl_cache"} /\ ~ RevokedBefore(r)
          /\ ReadsAgain /\ ~ RevokedBefore(r) => r < s
          /\ RevokedBefore(s) <=> Commits = {}
          /\ Commits = {} => trace[Len(trace)] = s
  BY DEF CaseInv, ScheduleInv, ReadsInv, Decided, Fresh, Appraised, Ends
<1>2. FirstRead = r /\ LastRead = s
  BY <1>1, ReadBounds
<1> QED BY <1>1, <1>2

LEMMA RevocationIsMonotone ==
  ASSUME CaseInv, NEW m \in 1..Len(events), NEW n \in 1..Len(events), m <= n, RevokedBefore(m)
  PROVE  RevokedBefore(n)
BY PositionsTyped DEF CaseInv, RevokedBefore

(* The read the profile relies on is active exactly when it committed. *)
LEMMA ReliedReadDecides ==
  ASSUME CaseInv, Decided
  PROVE  ~ RevokedBefore(ReliedRead) <=> Commits # {}
<1>1. /\ Reads = {FirstRead, LastRead} /\ FirstRead <= LastRead
      /\ FirstRead < LastRead => plan.profile \in {"double_read", "ttl_cache"}
      /\ RevokedBefore(LastRead) <=> Commits = {}
      /\ FirstRead \in 1..Len(events) /\ LastRead \in 1..Len(events)
  BY ReadsAtEnd, PositionsTyped DEF CaseInv
<1>2. Len(events) \in Nat
  BY PositionsTyped DEF CaseInv
<1>3. RevokedBefore(FirstRead) => RevokedBefore(LastRead)
  BY <1>1, RevocationIsMonotone
<1>4. plan.profile \in {"atomic_guard", "single_read"} => FirstRead = LastRead
  BY <1>1, <1>2
<1> QED BY <1>1, <1>3, <1>4 DEF ReliedRead

(* The verdict of a finished case in terms of its log. *)
LEMMA VerdictAtEnd ==
  ASSUME CaseInv, Decided
  PROVE  /\ verdict.accepted <=> Commits # {} /\ (Guarded => \A c \in Commits : ~ RevokedBefore(c))
         /\ verdict.oracle <=> Commits # {} /\ \A c \in Commits : ~ RevokedBefore(c)
         /\ verdict.duplicates = 0
         /\ plan.fault # "none" => verdict.recovery
         /\ verdict.accepted \in BOOLEAN /\ verdict.oracle \in BOOLEAN
<1> USE DEF CaseInv, ScheduleInv
<1>1. /\ verdict.accepted <=> Commits # {} /\ events[effect.event].committed
      /\ verdict.oracle <=>
           events[IF Commits # {} THEN effect.event ELSE trace[Len(trace)]].status = "active"
      /\ verdict.duplicates = 0
      /\ plan.fault # "none" => verdict.recovery
  BY DEF Decided, VerdictInv
<1>2. verdict.accepted \in BOOLEAN /\ verdict.oracle \in BOOLEAN
  BY DEF TypeOK
<1>3. \A n \in 1..Len(events) : events[n].status = "active" <=> ~ (RevokedBefore(n) \/ n \in Revocations)
  <2>1. ASSUME NEW n \in 1..Len(events) PROVE events[n].status \in {"active", "revoked"}
    <3>1. events[n] \in Events
      BY DEF TypeOK
    <3> QED BY <3>1 DEF Events
  <2> QED BY <2>1 DEF LogInv, StatusesInv
<1>4. CASE Commits # {}
  <2>1. Commits = {effect.event} /\ effect.event \in 1..Len(events)
    BY <1>4, CaseEnds DEF Decided, Ends
  <2>2. events[effect.event].committed <=> (Guarded => ~ RevokedBefore(effect.event))
    BY <2>1 DEF LogInv, EffectsInv
  <2>3. effect.event \notin Revocations
    BY <2>1 DEF Commits, Revocations, At
  <2>4. verdict.oracle <=> ~ RevokedBefore(effect.event)
    BY <1>1, <1>3, <1>4, <2>1, <2>3
  <2> QED BY <1>1, <1>2, <1>4, <2>1, <2>2, <2>4
<1>5. CASE Commits = {}
  <2>1. trace[Len(trace)] = LastRead /\ LastRead \in 1..Len(events) /\ RevokedBefore(LastRead)
    BY <1>5, ReadsAtEnd, PositionsTyped
  <2>2. ~ verdict.oracle
    BY <1>1, <1>3, <1>5, <2>1
  <2> QED BY <1>1, <1>2, <1>5, <2>2
<1> QED BY <1>4, <1>5

LEMMA ScheduleDecides ==
  ASSUME CaseInv
  PROVE  VerdictFollowsSchedule
<1> SUFFICES ASSUME Decided PROVE VerdictFollowsSchedule
  BY DEF VerdictFollowsSchedule
<1> DEFINE active == ~ RevokedBefore(ReliedRead)
<1>1. active <=> Commits # {}
  BY ReliedReadDecides
<1>2. /\ Reads # {}
      /\ ReadsAgain /\ ~ RevokedBefore(FirstRead) => FirstRead < LastRead
  BY ReadsAtEnd
<1>3. /\ verdict.accepted <=> Commits # {} /\ (Guarded => \A c \in Commits : ~ RevokedBefore(c))
      /\ verdict.oracle <=> Commits # {} /\ \A c \in Commits : ~ RevokedBefore(c)
      /\ verdict.duplicates = 0
      /\ verdict.accepted \in BOOLEAN /\ verdict.oracle \in BOOLEAN
  BY VerdictAtEnd
<1>4. \A c, d \in Commits : c = d
  BY DEF CaseInv, ScheduleInv, CommitsInv
<1> HIDE DEF active
<1>5. FalseAllow <=> active /\ ~ Guarded /\ \E c \in Commits : RevokedBefore(c)
  BY <1>1, <1>3, <1>4 DEF FalseAllow
<1>6. ~ FalseDeny
  BY <1>3 DEF FalseDeny
<1>7. verdict.accepted <=> active /\ (Guarded => \A c \in Commits : ~ RevokedBefore(c))
  BY <1>1, <1>3
<1>8. /\ active <=> Commits # {}
      /\ verdict.accepted <=> active /\ (Guarded => \A c \in Commits : ~ RevokedBefore(c))
      /\ FalseAllow <=> active /\ ~ Guarded /\ \E c \in Commits : RevokedBefore(c)
  BY <1>1, <1>5, <1>7
<1> USE DEF active
<1> QED BY <1>2, <1>3, <1>6, <1>8 DEF VerdictFollowsSchedule

(* Where the revocation of a placement lies, seen from the first and last  *)
(* read and from the commit.                                               *)
LEMMA PlacedAtEnd ==
  ASSUME CaseInv, Decided
  PROVE  /\ plan.placement = "before_appraisal" => Commits = {}
         /\ plan.placement \in {"between_appraisal_and_commit", "after_cache_expiry"} =>
              /\ Commits # {} <=> FirstRead = LastRead
              /\ \A c \in Commits : RevokedBefore(c)
         /\ plan.placement = "after_final_read" =>
              Commits # {} /\ \A c \in Commits : RevokedBefore(c)
         /\ plan.placement \in {"after_commit", "active_commit"} =>
              Commits # {} /\ \A c \in Commits : ~ RevokedBefore(c)
         /\ plan.placement = "simultaneous" => Commits # {}
<1> USE DEF CaseInv, ScheduleInv
<1>1. /\ Reads = {FirstRead, LastRead} /\ FirstRead <= LastRead
      /\ FirstRead \in Nat /\ LastRead \in Nat
      /\ RevokedBefore(LastRead) <=> Commits = {}
  BY ReadsAtEnd, PositionsTyped
<1>2. /\ plan.placement = "before_appraisal" => Commits = {}
      /\ plan.placement \in {"between_appraisal_and_commit", "after_cache_expiry", "after_final_read"} =>
           \A c \in Commits : RevokedBefore(c)
      /\ plan.placement \in {"after_commit", "active_commit"} => \A c \in Commits : ~ RevokedBefore(c)
  BY DEF CommitsInv
<1>3. plan.placement \in {"between_appraisal_and_commit", "after_cache_expiry"} =>
        (Commits # {} <=> FirstRead = LastRead)
  <2>1. SUFFICES ASSUME plan.placement \in {"between_appraisal_and_commit", "after_cache_expiry"}
                 PROVE  Commits # {} <=> FirstRead = LastRead
    OBVIOUS
  <2>2. CASE FirstRead = LastRead
    <3>1. ~ RevokedBefore(LastRead)
      BY <1>1, <2>1, <2>2 DEF PlacedReadsInv
    <3> QED BY <1>1, <2>2, <3>1
  <2>3. CASE FirstRead < LastRead
    <3>1. RevokedBefore(LastRead)
      BY <1>1, <2>1, <2>3 DEF PlacedReadsInv
    <3> QED BY <1>1, <2>3, <3>1
  <2> QED BY <1>1, <2>2, <2>3
<1>4. plan.placement \in {"after_final_read", "after_commit", "active_commit", "simultaneous"} =>
        Commits # {}
  BY <1>1 DEF PlacedReadsInv
<1> QED BY <1>2, <1>3, <1>4

LEMMA PlacementsShow ==
  ASSUME CaseInv
  PROVE  PlacementOutcomes
<1> SUFFICES ASSUME Decided, plan.fault = "none" PROVE PlacementOutcomes
  BY DEF PlacementOutcomes
<1>1. plan.placement \in Placements /\ plan.profile \in Profiles
  BY PlanTyped DEF CaseInv, Placements
<1>2. /\ verdict.accepted <=> Commits # {} /\ (Guarded => \A c \in Commits : ~ RevokedBefore(c))
      /\ verdict.oracle <=> Commits # {} /\ \A c \in Commits : ~ RevokedBefore(c)
  BY VerdictAtEnd
<1>3. /\ FirstRead < LastRead => plan.profile \in {"double_read", "ttl_cache"}
                                    /\ ~ RevokedBefore(FirstRead)
      /\ ReadsAgain /\ ~ RevokedBefore(FirstRead) => FirstRead < LastRead
      /\ FirstRead \in Nat /\ LastRead \in Nat /\ FirstRead <= LastRead
      /\ FirstRead \in Reads
      /\ RevokedBefore(LastRead) <=> Commits = {}
  BY ReadsAtEnd, PositionsTyped DEF CaseInv
<1>4. plan.placement = "before_appraisal" => ~ verdict.accepted /\ ~ verdict.oracle
  BY <1>2, PlacedAtEnd
<1>5. plan.placement \in {"between_appraisal_and_commit", "after_cache_expiry"} =>
        /\ plan.profile \in {"single_read", "atomic_guard"} => FirstRead = LastRead
        /\ ReadsAgain => FirstRead < LastRead
        /\ FalseAllow <=> FirstRead = LastRead /\ ~ Guarded
        /\ verdict.accepted => FirstRead = LastRead /\ ~ Guarded
  <2>1. SUFFICES ASSUME plan.placement \in {"between_appraisal_and_commit", "after_cache_expiry"}
                 PROVE  /\ plan.profile \in {"single_read", "atomic_guard"} => FirstRead = LastRead
                        /\ ReadsAgain => FirstRead < LastRead
                        /\ FalseAllow <=> FirstRead = LastRead /\ ~ Guarded
                        /\ verdict.accepted => FirstRead = LastRead /\ ~ Guarded
    OBVIOUS
  <2>2. ~ RevokedBefore(FirstRead)
    <3>1. CASE FirstRead < LastRead
      BY <1>3, <3>1
    <3>2. CASE FirstRead = LastRead
      BY <1>3, <2>1, <3>2, PlacedAtEnd
    <3> QED BY <1>3, <3>1, <3>2
  <2>3. plan.profile \in {"single_read", "atomic_guard"} => FirstRead = LastRead
    BY <1>3
  <2>4. /\ Commits # {} <=> FirstRead = LastRead
        /\ \A c \in Commits : RevokedBefore(c)
    BY <2>1, PlacedAtEnd
  <2> QED BY <1>2, <1>3, <2>2, <2>3, <2>4 DEF FalseAllow
<1>6. plan.placement = "after_final_read" => (FalseAllow <=> ~ Guarded)
  BY <1>2, PlacedAtEnd DEF FalseAllow
<1>7. plan.placement = "after_commit" => verdict.accepted /\ verdict.oracle
  BY <1>2, PlacedAtEnd
<1>8. plan.placement = "simultaneous" => verdict.accepted \/ Guarded
  BY <1>2, PlacedAtEnd
<1>9. plan.placement = "between_appraisal_and_commit" =>
         /\ plan.profile = "single_read" => FalseAllow
         /\ plan.profile \in {"double_read", "atomic_guard"} => ~ verdict.accepted
  BY <1>1, <1>3, <1>5 DEF ReadsAgain, Guarded
<1>10. plan.placement = "after_cache_expiry" => (FalseAllow <=> plan.profile = "single_read")
  BY <1>1, <1>3, <1>5 DEF ReadsAgain, Guarded, Profiles
<1> QED BY <1>1, <1>4, <1>6, <1>7, <1>8, <1>9, <1>10 DEF PlacementOutcomes, Placements

LEMMA FaultsAreRecovered ==
  ASSUME CaseInv
  PROVE  FaultsRecover
<1> SUFFICES ASSUME Decided, plan.fault # "none" PROVE FaultsRecover
  BY DEF FaultsRecover
<1>1. Commits # {} /\ \A c \in Commits : ~ RevokedBefore(c)
  BY PlacedAtEnd, PlanTyped DEF CaseInv
<1>2. verdict.recovery /\ verdict.accepted
  BY <1>1, VerdictAtEnd
<1>3. Commits = {effect.event}
  BY <1>1, CaseEnds DEF Decided, Ends
<1>4. /\ events[effect.event].process = "effect"
      /\ effectPid = "restarted" <=> plan.fault = "restart_after_commit"
  BY <1>3 DEF CaseInv, ScheduleInv, FaultInv, Decided, Ends
<1> QED BY <1>2, <1>3, <1>4 DEF FaultsRecover

(* Every finished case agrees with the schedule predicates: its verdict is *)
(* the one the order of read, revocation and commit in the log calls for.  *)
THEOREM EveryVerdictFollowsSchedule == Spec => []VerdictFollowsSchedule
BY CaseInvariant, ScheduleDecides, PTL

(* Every placement of the revocation has the outcome the lab reports for it. *)
THEOREM EveryPlacementShows == Spec => []PlacementOutcomes
BY CaseInvariant, PlacementsShow, PTL

(* A response lost with or without a restart is recovered by the retry. *)
THEOREM EveryFaultRecovers == Spec => []FaultsRecover
BY CaseInvariant, FaultsAreRecovered, PTL

-----------------------------------------------------------------------------
(* The refinement of the abstract service.                                 *)

LEMMA CaseStarts ==
  ASSUME Init
  PROVE  Promise!AbsInit
<1>1. CaseInv /\ credential.status = "absent" /\ pc = "initialize" /\ plan.profile \in Profiles
  BY InitEstablishes, PlanTyped DEF Init, CaseInv
<1>2. Commits = {}
  BY <1>1 DEF CaseInv, ScheduleInv, CommitsInv, Early, Fresh
<1>3. Outcome = "undecided" /\ ~ Decided
  BY <1>1, <1>2 DEF Outcome, Decided
<1>4. StatusMap = [c \in {"credential"} |-> "absent"]
  BY <1>1 DEF StatusMap
<1>5. OutcomeMap = [k \in Profiles |-> "undecided"]
  BY <1>3 DEF OutcomeMap
<1>6. HeardMap = [x \in Profiles |-> "nothing"]
  BY <1>3 DEF HeardMap
<1> QED BY <1>4, <1>5, <1>6 DEF Promise!AbsInit

(* What the caller has heard changes only when the case is finalized, and  *)
(* what is decided only when the log gains its commit.                     *)
LEMMA NothingHeard ==
  ASSUME UNCHANGED plan, ~ Decided, ~ Decided'
  PROVE  HeardMap' = HeardMap
BY DEF HeardMap

LEMMA NothingDecided ==
  ASSUME UNCHANGED <<plan, effects, Commits>>
  PROVE  OutcomeMap' = OutcomeMap
BY DEF OutcomeMap, Outcome

LEMMA StatusStays ==
  ASSUME UNCHANGED credential
  PROVE  StatusMap' = StatusMap
BY DEF StatusMap

LEMMA QuietRefines ==
  ASSUME CaseInv, UNCHANGED <<plan, store>>, ~ Decided, ~ Decided'
  PROVE  UNCHANGED Promise!absVars
<1>1. UNCHANGED <<plan, effects, Commits, credential>>
  BY QuietStep
<1> QED BY <1>1, NothingHeard, NothingDecided, StatusStays DEF Promise!absVars

LEMMA InitializeRefines ==
  ASSUME CaseInv, InitializeCredential
  PROVE  Promise!Enroll("credential")
<1>1. /\ pc = "initialize" /\ pc' = "before_appraisal" /\ events = <<>>
      /\ UNCHANGED <<plan, effects>> /\ Initialize
  BY DEF InitializeCredential, Goto, CaseInv, ScheduleInv, PlanInv, Initialize
<1>2. /\ credential' = [status |-> "active", sequence |-> 1] /\ credential.status = "absent"
      /\ Commits' = Commits
  BY <1>1, InitializeLogged DEF Logged, CaseInv, LogInv, StatusesInv
<1>3. HeardMap' = HeardMap /\ OutcomeMap' = OutcomeMap
  BY <1>1, <1>2, NothingHeard, NothingDecided DEF Decided
<1>4. StatusMap["credential"] = "absent" /\ StatusMap' = [StatusMap EXCEPT !["credential"] = "active"]
  BY <1>2 DEF StatusMap
<1> QED BY <1>3, <1>4 DEF Promise!Enroll

LEMMA RevokeRefines ==
  ASSUME CaseInv, Revoke, UNCHANGED plan, pc # "initialize", ~ Decided, ~ Decided'
  PROVE  Promise!Withdraw("credential") \/ UNCHANGED Promise!absVars
<1>1. events # <<>>
  BY DEF CaseInv, ScheduleInv, PlanInv
<1>2. /\ UNCHANGED effects /\ Commits' = Commits
      /\ credential'.status = "revoked" /\ credential.status # "absent"
  BY <1>1, RevokeLogged DEF Logged, CaseInv
<1>3. HeardMap' = HeardMap /\ OutcomeMap' = OutcomeMap
  BY <1>2, NothingHeard, NothingDecided
<1>4. credential.status \in {"active", "revoked"}
  BY <1>2 DEF CaseInv, TypeOK
<1>5. CASE credential.status = "active"
  <2>1. StatusMap["credential"] = "active" /\ StatusMap' = [StatusMap EXCEPT !["credential"] = "revoked"]
    BY <1>2, <1>5 DEF StatusMap
  <2> QED BY <1>3, <2>1 DEF Promise!Withdraw
<1>6. CASE credential.status = "revoked"
  <2>1. StatusMap' = StatusMap
    BY <1>2, <1>6 DEF StatusMap
  <2> QED BY <1>3, <2>1 DEF Promise!absVars
<1> QED BY <1>4, <1>5, <1>6

LEMMA ReadRefines ==
  ASSUME CaseInv, ReadStatus, UNCHANGED plan, pc # "initialize", ~ Decided, ~ Decided'
  PROVE  UNCHANGED Promise!absVars
<1>1. events # <<>>
  BY DEF CaseInv, ScheduleInv, PlanInv
<1>2. UNCHANGED <<credential, effects, Commits>>
  BY <1>1, ReadLogged DEF Logged, CaseInv
<1> QED BY <1>2, NothingHeard, NothingDecided, StatusStays DEF Promise!absVars

(* The one commit of the log decides the key, against the status of that   *)
(* instant if the profile is guarded.                                      *)
LEMMA CommitRefines ==
  ASSUME CaseInv, CommitEffect, UNCHANGED plan, Commits = {}, pc # "initialize",
         ~ Decided, ~ Decided'
  PROVE  Promise!Decide(plan.profile)
<1>1. /\ LogInv' /\ UNCHANGED credential /\ Commits' = {Len(events) + 1}
      /\ \A n \in Commits' : RevokedBefore(n)' <=> Revocations # {}
      /\ \A n \in Commits' : events'[n].committed <=> (Guarded' => ~ RevokedBefore(n)')
      /\ effects' = {c \in Commits' : events'[c].committed}
  BY CommitStep DEF LogInv, EffectsInv
<1>2. plan.profile \in Profiles
  BY PlanTyped DEF CaseInv
<1>3. credential.status # "absent" /\ (credential.status = "revoked" <=> Revocations # {})
  BY DEF CaseInv, ScheduleInv, PlanInv, LogInv, StatusesInv
<1>4. effects' # {} <=> ~ (plan.profile = "atomic_guard" /\ credential.status = "revoked")
  BY <1>1, <1>3 DEF Guarded
<1>5. Outcome = "undecided" /\ Outcome' = IF effects' # {} THEN "committed" ELSE "denied"
  BY <1>1 DEF Outcome
<1>6. OutcomeMap[plan.profile] = "undecided"
  BY <1>2, <1>5 DEF OutcomeMap
<1>7. Outcome' = IF plan.profile \in {"atomic_guard"} /\ credential.status = "revoked"
                 THEN "denied" ELSE "committed"
  BY <1>4, <1>5
<1>8. OutcomeMap' = [OutcomeMap EXCEPT ![plan.profile] = Outcome']
  BY <1>2 DEF OutcomeMap
<1>9. StatusMap["credential"] = credential.status /\ StatusMap' = StatusMap
  BY <1>1, StatusStays DEF StatusMap
<1>10. HeardMap' = HeardMap
  BY NothingHeard
<1>11. [p \in Profiles |-> "credential"][plan.profile] = "credential"
  BY <1>2
<1> QED BY <1>3, <1>6, <1>7, <1>8, <1>9, <1>10, <1>11 DEF Promise!Decide

(* finalize reports the outcome of the key, if a commit was asked for. *)
LEMMA FinalizeRefines ==
  ASSUME CaseInv, Finalize
  PROVE  Promise!Hear(plan.profile) \/ UNCHANGED Promise!absVars
<1>1. /\ pc = "tally" /\ pc' = "done" /\ UNCHANGED <<plan, store, effect>>
      /\ verdict'.accepted = (effect.event # 0 /\ events[effect.event].committed)
  BY DEF Finalize, Goto
<1>2. UNCHANGED <<plan, credential, effects, Commits>>
  BY <1>1, QuietStep
<1>3. StatusMap' = StatusMap /\ OutcomeMap' = OutcomeMap
  BY <1>2, NothingDecided, StatusStays
<1>4. ~ Decided /\ Decided' /\ plan.profile \in Profiles
  BY <1>1, PlanTyped DEF Decided, CaseInv
<1>5. /\ effect.event # 0 <=> Commits # {}
      /\ Commits # {} => /\ effects = IF events[effect.event].committed THEN {effect.event} ELSE {}
                         /\ events[effect.event].committed \in BOOLEAN
  BY <1>1, CaseEnds DEF Ends
<1>6. CASE effect.event = 0
  <2>1. HeardMap' = HeardMap
    BY <1>1, <1>4, <1>6 DEF HeardMap
  <2> QED BY <1>3, <2>1 DEF Promise!absVars
<1>7. CASE effect.event # 0
  <2>1. Outcome = IF verdict'.accepted THEN "committed" ELSE "denied"
    BY <1>1, <1>5, <1>7 DEF Outcome
  <2>2. OutcomeMap[plan.profile] = Outcome /\ Outcome # "undecided"
    BY <1>4, <1>5, <1>7 DEF OutcomeMap, Outcome
  <2>3. HeardMap[plan.profile] = "nothing"
    BY <1>4 DEF HeardMap
  <2>4. HeardMap' = [HeardMap EXCEPT ![plan.profile] = Outcome]
    BY <1>1, <1>2, <1>4, <1>7, <2>1 DEF HeardMap
  <2>5. OutcomeMap[[p \in Profiles |-> p][plan.profile]] = Outcome
    BY <1>4, <2>2
  <2> QED BY <1>3, <2>2, <2>3, <2>4, <2>5, Zenon DEF Promise!Hear
<1> QED BY <1>6, <1>7

LEMMA StepRefines ==
  ASSUME CaseInv, [Next]_vars
  PROVE  [Promise!AbsNext]_Promise!absVars
<1> DEFINE Abstract == [Promise!AbsNext]_Promise!absVars
<1>1. /\ Promise!Enroll("credential") \/ Promise!Withdraw("credential") => Promise!AbsNext
      /\ Promise!Decide(plan.profile) \/ Promise!Hear(plan.profile) => Promise!AbsNext
  BY PlanTyped DEF Promise!AbsNext, CaseInv
<1>2. CASE InitializeCredential
  BY <1>1, <1>2, InitializeRefines
<1>3. CASE PlacedRevocation
  <2>1. /\ pc \in {"before_appraisal", "appraised", "decided", "committed"}
        /\ pc' \in {"appraise", "decide", "commit", "tally"} /\ UNCHANGED plan
        /\ Revoke \/ UNCHANGED store
    BY <1>3 DEF PlacedRevocation, Placed, Following
  <2> QED BY <1>1, <2>1, RevokeRefines, QuietRefines DEF Decided
<1>4. CASE Appraise \/ Decide
  <2>1. /\ pc # "initialize" /\ ~ Decided /\ ~ Decided' /\ UNCHANGED plan
        /\ ReadStatus \/ UNCHANGED store
    BY <1>4 DEF Appraise, Decide, ReadAndGoto, Decided
  <2> QED BY <2>1, ReadRefines, QuietRefines
<1>5. CASE CommitCall
  <2>1. /\ pc \in {"commit", "retry"} /\ pc' = "committed" /\ UNCHANGED plan /\ CommitEffect
    BY <1>5 DEF CommitCall
  <2>2. CASE pc = "commit"
    <3>1. Commits = {}
      BY <2>2 DEF CaseInv, ScheduleInv, CommitsInv, Early, Reread
    <3> QED BY <1>1, <2>1, <2>2, <3>1, CommitRefines DEF Decided
  <2>3. CASE pc = "retry"
    <3>1. UNCHANGED store
      BY <2>1, <2>3, ReplayStep DEF CommitEffect, Retries
    <3> QED BY <2>1, <2>3, <3>1, QuietRefines DEF Decided
  <2> QED BY <2>1, <2>2, <2>3
<1>6. CASE ReleaseContenders \/ JoinContenders \/ FireAndAbort \/ PollEffect \/ RestartEffect \/ WaitRunsOut
  <2>1. UNCHANGED <<plan, store>> /\ ~ Decided /\ ~ Decided'
    BY <1>6 DEF ReleaseContenders, JoinContenders, FireAndAbort, PollEffect, RestartEffect, WaitRunsOut,
                Goto, Decided
  <2> QED BY <2>1, QuietRefines
<1>7. CASE ContenderRevokes
  <2>1. /\ pc \in {"contend", "raised"} /\ UNCHANGED <<plan, pc>> /\ Revoke
    BY <1>7, ContenderWaits DEF ContenderRevokes, runner
  <2> QED BY <1>1, <2>1, RevokeRefines DEF Decided
<1>8. CASE ContenderCommits
  <2>1. /\ pc \in {"contend", "raised"} /\ UNCHANGED <<plan, pc>> /\ CommitEffect /\ Commits = {}
    BY <1>8, ContenderWaits DEF ContenderCommits, runner
  <2> QED BY <1>1, <2>1, CommitRefines DEF Decided
<1>9. CASE ServeAborted
  <2>1. /\ UNCHANGED <<plan, pc>> /\ CommitEffect /\ pc \in Waits /\ Commits = {}
    BY <1>9 DEF ServeAborted, runner, CaseInv, ScheduleInv, FlightInv
  <2> QED BY <1>1, <2>1, CommitRefines DEF Decided, Waits
<1>10. CASE Finalize
  BY <1>1, <1>10, FinalizeRefines
<1>11. CASE UNCHANGED vars
  <2>1. UNCHANGED <<plan, pc, store, effect, verdict>>
    BY <1>11 DEF vars, runner
  <2>2. UNCHANGED <<effects, credential, Commits>>
    BY <2>1, QuietStep
  <2>3. HeardMap' = HeardMap
    BY <2>1 DEF HeardMap, Decided
  <2> QED BY <2>1, <2>2, <2>3, NothingDecided, StatusStays DEF Promise!absVars
<1> QED BY <1>2, <1>3, <1>4, <1>5, <1>6, <1>7, <1>8, <1>9, <1>10, <1>11 DEF Next, Runner

(* A case of the process-isolated lab is a run of the abstract service:    *)
(* its one effect is decided once, at one instant, whatever the fault.     *)
THEOREM CaseImplementsPromise == Spec => ImplementsPromise
<1>1. Init => Promise!AbsInit
  BY CaseStarts
<1>2. CaseInv /\ [Next]_vars => [Promise!AbsNext]_Promise!absVars
  BY StepRefines
<1> QED BY <1>1, <1>2, CaseInvariant, PTL DEF Spec, ImplementsPromise, Promise!AbsSpec
=============================================================================
