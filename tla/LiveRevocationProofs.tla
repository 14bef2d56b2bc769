------------------------ MODULE LiveRevocationProofs ------------------------
(***************************************************************************)
(* Proofs about the live revocation lab, for every number of races, every  *)
(* cache age and every interleaving of the two threads with their          *)
(* timeouts: the saved order of events explains every row, the verdict of  *)
(* the experiment depends on a cache hit and on no race, and the suite is  *)
(* a run of the abstract service AtomicDecision.                           *)
(*                                                                         *)
(* The invariant describes the case that is open, in terms of the          *)
(* positions of reads, revocations and commits in the service's log, and   *)
(* what the rows of the finished cases owe to it.                          *)
(***************************************************************************)
EXTENDS LiveRevocation, FiniteSetTheorems, TLAPS

Operations == {"status_read", "revoke", "guarded_commit", "unguarded_commit"}
Statuses == {"active", "revoked"}
Events == [linearization_index : Nat, operation : Operations, status : Statuses,
           sequence : Nat, effect_committed : BOOLEAN]
Contexts == [cache_hit : BOOLEAN, cache_refresh : BOOLEAN]
Rows == [case : Cases, accepted : BOOLEAN, oracle : BOOLEAN,
         decision_context : Contexts, event_order : Seq(Events)]
ThreadStates == {"idle", "sent", "gone", "answered", "failed"}

(* The points of execute_case, by what the log can hold at them. *)
Fresh     == {"before", "appraise"}
Appraised == {"appraised", "decide", "refresh"}
Reread    == {"decided", "commit"}
Early     == Fresh \cup Appraised \cup Reread
Open      == Early \cup {"join", "committed", "finalize", "raised"}
Over      == {"report", "done"}

TypeOK ==
  /\ position \in Nat \ {0}
  /\ pc \in Open \cup Over \cup {"initialize"}
  /\ pc \in Over <=> position = Len(Suite) + 1
  /\ pc \notin Over => position <= Len(Suite)
  /\ credentials \in [Cases -> [status : {"absent"} \cup Statuses, sequence : Nat]]
  /\ events \in Seq(Events)
  /\ trace \in Seq(Events)
  /\ context \in Contexts
  /\ threads \in [revoke : ThreadStates, commit : ThreadStates]
  /\ rows \in Seq(Rows)

-----------------------------------------------------------------------------
(* The log of the open case.                                               *)

ReadsAt == PositionsIn(events, {"status_read"})
RevokedAt == PositionsIn(events, {"revoke"})
CommitsAt == Commits(events)
RevokedBefore(n) == \E x \in RevokedAt : x < n

LogIsSound ==
  /\ credentials[Case].status = IF RevokedAt = {} THEN "active" ELSE "revoked"
  /\ \A n \in 1..Len(events) :
       /\ events[n].linearization_index = n
       /\ events[n].status = "revoked" <=> RevokedBefore(n) \/ n \in RevokedAt
  /\ \A c \in CommitsAt :
       events[c].effect_committed <=> (Case.profile = "atomic_guard" => ~ RevokedBefore(c))
  /\ \A c, d \in CommitsAt : c = d

LogInv == pc \in Open => LogIsSound

UnstartedInv ==
  \A k \in 1..Len(Suite) :
    k > position \/ (k = position /\ pc = "initialize") => credentials[Suite[k]].status = "absent"

-----------------------------------------------------------------------------
(* The open case.                                                          *)

TraceInv ==
  /\ pc \in Early \cup {"committed"} => trace = events
  /\ pc = "join" =>
       /\ Len(trace) <= Len(events)
       /\ \A n \in 1..Len(trace) : trace[n] = events[n]
       /\ RevokedAt \cup CommitsAt = (Len(trace) + 1)..Len(events)
       /\ \A x, y \in RevokedAt : x = y
  /\ pc = "finalize" =>
       \/ trace = events
       \/ \E x \in RevokedAt, c \in CommitsAt :
            /\ {x, c} = {Len(events) - 1, Len(events)} /\ Len(trace) = Len(events)
            /\ trace[Len(events) - 1] = events[x] /\ trace[Len(events)] = events[c]
            /\ \A n \in 1..(Len(events) - 2) : trace[n] = events[n]

ThreadsInv ==
  /\ pc = "join" => threads.revoke # "idle" /\ Case.placement = "simultaneous"
  /\ threads.revoke # "idle" <=> threads.commit # "idle"
  /\ threads.revoke # "idle" =>
       /\ pc \in {"join", "raised"}
       /\ threads.revoke \in {"sent", "gone"} <=> RevokedAt = {}
       /\ threads.commit \in {"sent", "gone"} <=> CommitsAt = {}

ReadsInv ==
  /\ pc \in Fresh => ReadsAt = {}
  /\ pc \in Appraised \cup Reread \cup {"join", "committed", "finalize"} => ReadsAt # {}
  /\ pc \in Appraised \cup Reread \cup {"join", "committed"} => \A r \in ReadsAt : ~ RevokedBefore(r)
  /\ pc = "refresh" => Case.profile = "ttl_cache"
  /\ pc = "finalize" /\ CommitsAt # {} => \A r \in ReadsAt : ~ RevokedBefore(r)
  /\ pc = "finalize" /\ CommitsAt = {} =>
       trace = events /\ Len(events) \in ReadsAt /\ RevokedBefore(Len(events))

PlacedInv ==
  /\ pc \in Early => CommitsAt = {}
  /\ pc = "committed" => CommitsAt # {}
  /\ pc \in Early /\ Case.placement = "simultaneous" => RevokedAt = {}
  /\ pc \in Early \cup {"committed", "finalize"} /\ Case.placement = "after_final_read" =>
       /\ RevokedAt = {} <=> pc \in Fresh \cup Appraised \cup {"decided"}
       /\ pc = "finalize" => CommitsAt # {}
       /\ \A c \in CommitsAt : RevokedBefore(c)
  /\ pc \in Early \cup {"committed", "finalize"} /\ Case.placement = "after_cache_expiry" =>
       /\ RevokedAt = {} <=> pc \in Fresh \cup {"appraised"}
       /\ Case.profile = "single_read" =>
            /\ pc = "finalize" => CommitsAt # {}
            /\ \A c \in CommitsAt : RevokedBefore(c)
       /\ Case.profile = "ttl_cache" =>
            /\ pc \notin Reread \cup {"committed"}
            /\ pc \in {"refresh", "finalize"} => context.cache_refresh /\ CommitsAt = {}

-----------------------------------------------------------------------------
(* The rows of the finished cases.                                         *)

RowInv(row) ==
  /\ RowIsExplained(row)
  /\ row.accepted <=> Commits(row.event_order) # {} /\ CommitIn(row.event_order).effect_committed
  /\ row.case.placement = "after_final_read" /\ row.case.profile # "atomic_guard" => FalseAllow(row)
  /\ row.case.placement = "after_cache_expiry" =>
       /\ row.case.profile = "single_read" => FalseAllow(row)
       /\ row.case.profile = "ttl_cache" => row.decision_context.cache_refresh /\ ~ FalseAllow(row)

RowsInv ==
  /\ Len(rows) = position - 1
  /\ \A n \in 1..Len(rows) : rows[n].case = Suite[n] /\ RowInv(rows[n])

ReportInv == pc = "done" => (report = "passed" <=> SomeHit)

SuiteInv ==
  /\ TypeOK /\ LogInv /\ UnstartedInv /\ TraceInv /\ ThreadsInv /\ ReadsInv /\ PlacedInv
  /\ RowsInv /\ ReportInv

-----------------------------------------------------------------------------
(* The suite.                                                              *)

(* The cases of one profile, and the place of each in the suite. *)
Length == 5 + Trials

LEMMA DeterministicCases ==
  /\ Len(Deterministic) = 5
  /\ Deterministic[1] = "before_appraisal"
  /\ Deterministic[2] = "between_appraisal_and_commit"
  /\ Deterministic[3] = "after_cache_expiry"
  /\ Deterministic[4] = "after_final_read"
  /\ Deterministic[5] = "after_commit"
BY DEF Deterministic

LEMMA ProfileNames ==
  /\ Profiles[1] = "atomic_guard"
  /\ Profiles[2] = "double_read"
  /\ Profiles[3] = "single_read"
  /\ Profiles[4] = "ttl_cache"
BY DEF Profiles

LEMMA CasesOfProfile ==
  ASSUME NEW profile
  PROVE  /\ Length \in Nat /\ Len(CasesOf(profile)) = Length
         /\ CasesOf(profile) = [n \in 1..Length |-> CasesOf(profile)[n]]
         /\ \A n \in 1..Length :
              CasesOf(profile)[n] =
                IF n <= 5 THEN CaseOf(profile, Deterministic[n], n - 1)
                ELSE CaseOf(profile, "simultaneous", n - 6)
<1>1. Length \in Nat /\ Len(Deterministic) = 5
  BY SuiteAssumption, DeterministicCases DEF Length
<1>2. CasesOf(profile) = [n \in 1..Length |->
          IF n <= 5 THEN CaseOf(profile, Deterministic[n], n - 1)
          ELSE CaseOf(profile, "simultaneous", n - 5 - 1)]
  BY <1>1 DEF CasesOf, Length
<1>3. \A n \in 1..Length : n - 5 - 1 = n - 6
  BY <1>1
<1> QED BY <1>1, <1>2, <1>3

LEMMA CaseFields ==
  ASSUME NEW a, NEW b, NEW c, NEW d, NEW e, NEW f
  PROVE  /\ CaseOf(a, b, c).profile = a /\ CaseOf(a, b, c).placement = b
         /\ CaseOf(a, b, c) = CaseOf(d, e, f) => a = d /\ b = e /\ c = f
<1>1. CaseOf(a, b, c).profile = a /\ CaseOf(a, b, c).placement = b /\ CaseOf(a, b, c).serial = c
  BY DEF CaseOf
<1>2. CaseOf(d, e, f).profile = d /\ CaseOf(d, e, f).placement = e /\ CaseOf(d, e, f).serial = f
  BY DEF CaseOf
<1> QED BY <1>1, <1>2

LEMMA ConcatAt ==
  ASSUME NEW S, NEW s \in Seq(S), NEW t \in Seq(S)
  PROVE  /\ s \o t \in Seq(S) /\ Len(s \o t) = Len(s) + Len(t)
         /\ \A n \in 1..Len(s) : (s \o t)[n] = s[n]
         /\ \A n \in 1..Len(t) : (s \o t)[Len(s) + n] = t[n]
OBVIOUS

LEMMA SuiteOfProfiles ==
  /\ Len(Suite) = 4 * Length
  /\ \A n \in 1..Length :
       /\ Suite[n] = CasesOf(Profiles[1])[n]
       /\ Suite[Length + n] = CasesOf(Profiles[2])[n]
       /\ Suite[2 * Length + n] = CasesOf(Profiles[3])[n]
       /\ Suite[3 * Length + n] = CasesOf(Profiles[4])[n]
  /\ DOMAIN Suite = 1..Len(Suite)
<1> DEFINE s(p) == CasesOf(Profiles[p])
           S == {s(p)[n] : p \in 1..4, n \in 1..Length}
<1>1. Length \in Nat
  BY SuiteAssumption DEF Length
<1>2. \A p \in 1..4 : s(p) \in Seq(S) /\ Len(s(p)) = Length
  <2> SUFFICES ASSUME NEW p \in 1..4 PROVE s(p) \in Seq(S) /\ Len(s(p)) = Length
    OBVIOUS
  <2>1. s(p) = [n \in 1..Length |-> s(p)[n]] /\ Len(s(p)) = Length
    BY CasesOfProfile
  <2>2. \A n \in 1..Length : s(p)[n] \in S
    OBVIOUS
  <2> HIDE DEF s, S
  <2> QED BY <1>1, <2>1, <2>2
<1>3. Suite = s(1) \o s(2) \o s(3) \o s(4)
  BY DEF Suite
<1>4. s(1) \in Seq(S) /\ s(2) \in Seq(S) /\ s(3) \in Seq(S) /\ s(4) \in Seq(S)
      /\ Len(s(1)) = Length /\ Len(s(2)) = Length /\ Len(s(3)) = Length /\ Len(s(4)) = Length
  BY <1>2
<1> HIDE DEF s, S
<1>8. \A a, b \in Seq(S) :
        /\ a \o b \in Seq(S) /\ Len(a \o b) = Len(a) + Len(b)
        /\ \A n \in 1..Len(a) : (a \o b)[n] = a[n]
        /\ \A n \in 1..Len(b) : (a \o b)[Len(a) + n] = b[n]
  BY ConcatAt
<1> DEFINE s2 == s(1) \o s(2)
           s3 == s2 \o s(3)
<1>5. /\ s2 \in Seq(S) /\ Len(s2) = 2 * Length
      /\ \A n \in 1..Length : s2[n] = s(1)[n] /\ s2[Length + n] = s(2)[n]
  <2>1. /\ s2 \in Seq(S) /\ Len(s2) = Length + Length
        /\ \A n \in 1..Length : s2[n] = s(1)[n]
        /\ \A n \in 1..Length : s2[Length + n] = s(2)[n]
    BY <1>1, <1>4
  <2> QED BY <1>1, <2>1
<1> HIDE DEF s2
<1>6. /\ s3 \in Seq(S) /\ Len(s3) = 3 * Length
      /\ \A n \in 1..Length : /\ s3[n] = s(1)[n] /\ s3[Length + n] = s(2)[n]
                              /\ s3[2 * Length + n] = s(3)[n]
  <2>3. /\ s3 \in Seq(S) /\ Len(s3) = Len(s2) + Len(s(3))
        /\ \A n \in 1..Len(s2) : s3[n] = s2[n]
        /\ \A n \in 1..Len(s(3)) : s3[Len(s2) + n] = s(3)[n]
    BY <1>4, <1>5, <1>8
  <2> HIDE DEF s3
  <2>1. /\ s3 \in Seq(S) /\ Len(s3) = 2 * Length + Length
        /\ \A n \in 1..(2 * Length) : s3[n] = s2[n]
        /\ \A n \in 1..Length : s3[2 * Length + n] = s(3)[n]
    BY <1>4, <1>5, <2>3
  <2>2. \A n \in 1..Length : n \in 1..(2 * Length) /\ Length + n \in 1..(2 * Length)
    BY <1>1
  <2> QED BY <1>1, <1>5, <2>1, <2>2
<1> HIDE DEF s3
<1>7. /\ Suite \in Seq(S) /\ Len(Suite) = 4 * Length
      /\ \A n \in 1..Length : /\ Suite[n] = s(1)[n]
                              /\ Suite[Length + n] = s(2)[n]
                              /\ Suite[2 * Length + n] = s(3)[n]
                              /\ Suite[3 * Length + n] = s(4)[n]
  <2>3. Suite = s3 \o s(4)
    BY <1>3 DEF s2, s3
  <2>4. /\ Suite \in Seq(S) /\ Len(Suite) = Len(s3) + Len(s(4))
        /\ \A n \in 1..Len(s3) : Suite[n] = s3[n]
        /\ \A n \in 1..Len(s(4)) : Suite[Len(s3) + n] = s(4)[n]
    BY <1>4, <1>6, <1>8, <2>3, ZenonT(30)
  <2>1. /\ Suite \in Seq(S) /\ Len(Suite) = 3 * Length + Length
        /\ \A n \in 1..(3 * Length) : Suite[n] = s3[n]
        /\ \A n \in 1..Length : Suite[3 * Length + n] = s(4)[n]
    BY <1>4, <1>6, <2>4
  <2>2. \A n \in 1..Length : /\ n \in 1..(3 * Length) /\ Length + n \in 1..(3 * Length)
                              /\ 2 * Length + n \in 1..(3 * Length)
    BY <1>1
  <2> QED BY <1>1, <1>6, <2>1, <2>2
<1> QED BY <1>7 DEF s

(* Every position of the suite is the place of one case of one profile. *)
LEMMA SuitePositions ==
  ASSUME NEW k \in 1..Len(Suite)
  PROVE  /\ Suite[k] \in Cases
         /\ \E p \in 1..4, n \in 1..Length :
              k = (p - 1) * Length + n /\ Suite[k] = CasesOf(Profiles[p])[n]
<1>1. Length \in Nat /\ Len(Suite) = 4 * Length /\ k \in DOMAIN Suite
  BY SuiteAssumption, SuiteOfProfiles DEF Length
<1>2. Suite[k] \in Cases
  BY <1>1 DEF Cases
<1>3. CASE k <= Length
  <2>1. k \in 1..Length /\ k = (1 - 1) * Length + k
    BY <1>1, <1>3
  <2> QED BY <1>2, <2>1, SuiteOfProfiles
<1>4. CASE Length < k /\ k <= 2 * Length
  <2>1. k - Length \in 1..Length /\ k = (2 - 1) * Length + (k - Length) /\ k = Length + (k - Length)
    BY <1>1, <1>4
  <2> QED BY <1>2, <2>1, SuiteOfProfiles
<1>5. CASE 2 * Length < k /\ k <= 3 * Length
  <2>1. k - 2 * Length \in 1..Length /\ k = (3 - 1) * Length + (k - 2 * Length)
        /\ k = 2 * Length + (k - 2 * Length)
    BY <1>1, <1>5
  <2> QED BY <1>2, <2>1, SuiteOfProfiles
<1>6. CASE 3 * Length < k
  <2>1. k - 3 * Length \in 1..Length /\ k = (4 - 1) * Length + (k - 3 * Length)
        /\ k = 3 * Length + (k - 3 * Length)
    BY <1>1, <1>6
  <2> QED BY <1>2, <2>1, SuiteOfProfiles
<1> QED BY <1>1, <1>3, <1>4, <1>5, <1>6

LEMMA CasesDiffer ==
  ASSUME NEW p \in 1..4, NEW q \in 1..4, NEW m \in 1..Length, NEW n \in 1..Length,
         CasesOf(Profiles[p])[m] = CasesOf(Profiles[q])[n]
  PROVE  p = q /\ m = n
<1>1. Length \in Nat /\ m \in Nat /\ n \in Nat
  BY SuiteAssumption DEF Length
<1>2. /\ CasesOf(Profiles[p])[m] = CaseOf(Profiles[p], IF m <= 5 THEN Deterministic[m] ELSE "simultaneous",
                                         IF m <= 5 THEN m - 1 ELSE m - 6)
      /\ CasesOf(Profiles[q])[n] = CaseOf(Profiles[q], IF n <= 5 THEN Deterministic[n] ELSE "simultaneous",
                                         IF n <= 5 THEN n - 1 ELSE n - 6)
  BY CasesOfProfile
<1> DEFINE placement(i) == IF i <= 5 THEN Deterministic[i] ELSE "simultaneous"
           serial(i) == IF i <= 5 THEN i - 1 ELSE i - 6
<1>9. CaseOf(Profiles[p], placement(m), serial(m)) = CaseOf(Profiles[q], placement(n), serial(n))
  BY <1>2
<1>8. Profiles[p] = Profiles[q] /\ placement(m) = placement(n) /\ serial(m) = serial(n)
  <2> HIDE DEF placement, serial
  <2> QED BY <1>9, CaseFields
<1>3. /\ Profiles[p] = Profiles[q]
      /\ (IF m <= 5 THEN Deterministic[m] ELSE "simultaneous") =
           (IF n <= 5 THEN Deterministic[n] ELSE "simultaneous")
      /\ (IF m <= 5 THEN m - 1 ELSE m - 6) = (IF n <= 5 THEN n - 1 ELSE n - 6)
  BY <1>8
<1>4. p = q
  BY <1>3, ProfileNames
<1>5. \A j \in 1..5 : Deterministic[j] # "simultaneous"
  BY DeterministicCases
<1>6. m <= 5 <=> n <= 5
  BY <1>1, <1>3, <1>5
<1>7. m = n
  BY <1>1, <1>3, <1>6
<1> QED BY <1>4, <1>7

LEMMA SuiteIsInjective ==
  ASSUME NEW j \in 1..Len(Suite), NEW k \in 1..Len(Suite), Suite[j] = Suite[k]
  PROVE  j = k
<1>1. PICK p \in 1..4, m \in 1..Length : j = (p - 1) * Length + m /\ Suite[j] = CasesOf(Profiles[p])[m]
  BY SuitePositions
<1>2. PICK q \in 1..4, n \in 1..Length : k = (q - 1) * Length + n /\ Suite[k] = CasesOf(Profiles[q])[n]
  BY SuitePositions
<1>3. p = q /\ m = n
  <2>1. CasesOf(Profiles[p])[m] = CasesOf(Profiles[q])[n]
    BY <1>1, <1>2
  <2> QED BY <2>1, CasesDiffer
<1> QED BY <1>1, <1>2, <1>3

(* Every profile has one case of each deterministic placement. *)
LEMMA SuiteHas ==
  ASSUME NEW p \in 1..4, NEW n \in 1..5
  PROVE  \E k \in 1..Len(Suite) :
           Suite[k].profile = Profiles[p] /\ Suite[k].placement = Deterministic[n]
<1>1. Length \in Nat /\ n \in 1..Length /\ Len(Suite) = 4 * Length
  BY SuiteAssumption, SuiteOfProfiles DEF Length
<1> DEFINE k == (p - 1) * Length + n
<1>2. k \in 1..Len(Suite) /\ Suite[k] = CasesOf(Profiles[p])[n]
  <2>1. CASE p = 1 BY <1>1, <2>1, SuiteOfProfiles
  <2>2. CASE p = 2 BY <1>1, <2>2, SuiteOfProfiles
  <2>3. CASE p = 3 BY <1>1, <2>3, SuiteOfProfiles
  <2>4. CASE p = 4 BY <1>1, <2>4, SuiteOfProfiles
  <2> QED BY <2>1, <2>2, <2>3, <2>4
<1>3. Suite[k].profile = Profiles[p] /\ Suite[k].placement = Deterministic[n]
  <2>1. CasesOf(Profiles[p])[n] = CaseOf(Profiles[p], Deterministic[n], n - 1)
    BY <1>1, CasesOfProfile
  <2> QED BY <1>2, <2>1, CaseFields
<1> QED BY <1>2, <1>3

-----------------------------------------------------------------------------
(* What the service does under its lock.                                   *)

LEMMA CaseTyped ==
  ASSUME TypeOK, pc \notin Over
  PROVE  Case \in Cases /\ position \in 1..Len(Suite)
<1>1. position \in 1..Len(Suite)
  BY SuiteOfProfiles, SuiteAssumption DEF TypeOK, Length
<1> QED BY <1>1, SuitePositions DEF Case

LEMMA PositionsTyped ==
  ASSUME TypeOK
  PROVE  /\ Len(events) \in Nat
         /\ RevokedAt \subseteq 1..Len(events)
         /\ ReadsAt \subseteq 1..Len(events)
         /\ CommitsAt \subseteq 1..Len(events)
BY DEF TypeOK, RevokedAt, ReadsAt, CommitsAt, Commits, PositionsIn

LEMMA PositionsAppended ==
  ASSUME NEW S, NEW order \in Seq(S), NEW e \in S, NEW operations
  PROVE  PositionsIn(Append(order, e), operations) =
           PositionsIn(order, operations) \cup
             (IF e.operation \in operations THEN {Len(order) + 1} ELSE {})
BY DEF PositionsIn

LogKept ==
  /\ Len(events) \in Nat /\ Len(events') \in Nat /\ Len(events) <= Len(events')
  /\ \A n \in 1..Len(events) : events'[n] = events[n] /\ (RevokedBefore(n)' <=> RevokedBefore(n))

(* The operation has been served, and its event e is the last of the log. *)
Logged(operation, e) ==
  /\ e = EventOf(operation) /\ e \in Events
  /\ events' \in Seq(Events) /\ events' = Append(events, e)
  /\ LogKept /\ Len(events') = Len(events) + 1 /\ events'[Len(events) + 1] = e
  /\ RevokedAt' = RevokedAt \cup (IF operation = "revoke" THEN {Len(events) + 1} ELSE {})
  /\ ReadsAt' = ReadsAt \cup (IF operation = "status_read" THEN {Len(events) + 1} ELSE {})
  /\ CommitsAt' = CommitsAt \cup (IF operation \in {"guarded_commit", "unguarded_commit"}
                                  THEN {Len(events) + 1} ELSE {})
  /\ \A n \in {Len(events) + 1} : RevokedBefore(n)' <=> RevokedAt # {}
  /\ credentials' \in [Cases -> [status : {"absent"} \cup Statuses, sequence : Nat]]
  /\ credentials'[Case].status = IF RevokedAt' = {} THEN "active" ELSE "revoked"
  /\ \A c \in Cases : c # Case => credentials'[c] = credentials[c]
  /\ e.operation = operation /\ e.linearization_index = Len(events) + 1
  /\ e.status = credentials'[Case].status /\ e.effect_committed = Effect(operation, credentials'[Case])

LEMMA ServeLogs ==
  ASSUME TypeOK, LogIsSound, pc \in Open, NEW operation \in Operations, Serve(operation)
  PROVE  \E e \in Events : Logged(operation, e)
<1> DEFINE before == credentials[Case]
           after == IF operation = "revoke" THEN Revoked(before) ELSE before
           e == EventOf(operation)
<1>1. Case \in Cases /\ before \in [status : {"absent"} \cup Statuses, sequence : Nat]
  BY CaseTyped DEF TypeOK, Open, Over, Early, Fresh, Appraised, Reread
<1>2. before.status = (IF RevokedAt = {} THEN "active" ELSE "revoked") /\ before.status \in Statuses
  BY DEF LogIsSound, Statuses
<1>3. /\ after \in [status : {"absent"} \cup Statuses, sequence : Nat]
      /\ after.status \in Statuses /\ after.sequence \in Nat
      /\ operation = "revoke" => after.status = "revoked"
      /\ operation # "revoke" => after.status = before.status
  BY <1>1, <1>2 DEF Revoked, Statuses
<1>4. credentials' = [credentials EXCEPT ![Case] = after]
  BY <1>1 DEF Serve, TypeOK
<1>5. /\ credentials' \in [Cases -> [status : {"absent"} \cup Statuses, sequence : Nat]]
      /\ credentials'[Case] = after
      /\ \A c \in Cases : c # Case => credentials'[c] = credentials[c]
  BY <1>1, <1>3, <1>4 DEF TypeOK
<1>6. e = [linearization_index |-> Len(events) + 1, operation |-> operation,
           status |-> after.status, sequence |-> after.sequence,
           effect_committed |-> Effect(operation, after)]
  BY DEF EventOf
<1>7. events' = Append(events, e)
  BY DEF Serve
<1> HIDE DEF e, after
<1>8. Effect(operation, after) \in BOOLEAN /\ Len(events) \in Nat
  BY DEF Effect, TypeOK
<1>9. /\ e \in Events /\ e.operation = operation /\ e.linearization_index = Len(events) + 1
      /\ e.status = after.status /\ e.effect_committed = Effect(operation, after)
  BY <1>3, <1>6, <1>8 DEF Events
<1>10. /\ events' \in Seq(Events) /\ Len(events') = Len(events) + 1
       /\ \A n \in 1..Len(events) : events'[n] = events[n]
       /\ events'[Len(events) + 1] = e
  BY <1>7, <1>9 DEF TypeOK
<1>11. /\ RevokedAt' = RevokedAt \cup (IF operation = "revoke" THEN {Len(events) + 1} ELSE {})
       /\ ReadsAt' = ReadsAt \cup (IF operation = "status_read" THEN {Len(events) + 1} ELSE {})
       /\ CommitsAt' = CommitsAt \cup (IF operation \in {"guarded_commit", "unguarded_commit"}
                                  THEN {Len(events) + 1} ELSE {})
  <2>1. \A operations : PositionsIn(events', operations) =
           PositionsIn(events, operations) \cup
             (IF operation \in operations THEN {Len(events) + 1} ELSE {})
    BY <1>7, <1>9, PositionsAppended DEF TypeOK
  <2> QED BY <2>1 DEF RevokedAt, ReadsAt, CommitsAt, Commits, ThreadOf
<1>12. \A x \in RevokedAt : x \in Nat /\ x < Len(events) + 1
  BY <1>8, PositionsTyped
<1>13. \A n : RevokedBefore(n)' <=> \E x \in RevokedAt' : x < n
  BY DEF RevokedBefore
<1>14. ASSUME NEW n \in 1..Len(events)
       PROVE  RevokedBefore(n)' <=> RevokedBefore(n)
  <2>1. ~ (Len(events) + 1 < n)
    BY <1>8
  <2> QED BY <1>11, <1>13, <2>1 DEF RevokedBefore
<1>15. ASSUME NEW n \in {Len(events) + 1}
       PROVE  RevokedBefore(n)' <=> RevokedAt # {}
  <2>1. ~ (Len(events) + 1 < n)
    BY <1>8
  <2> QED BY <1>11, <1>12, <1>13, <2>1
<1>16. LogKept
  BY <1>8, <1>10, <1>14 DEF LogKept
<1>17. credentials'[Case].status = IF RevokedAt' = {} THEN "active" ELSE "revoked"
  BY <1>2, <1>3, <1>5, <1>11
<1> QED BY <1>5, <1>7, <1>9, <1>10, <1>11, <1>15, <1>16, <1>17 DEF Logged, e

(* Served in the open case, an operation leaves the log sound: a commit is *)
(* the one of the case, and is of the kind its profile calls for.          *)
LEMMA SoundAfter ==
  ASSUME TypeOK, LogIsSound, pc \in Open, UNCHANGED position,
         NEW operation \in Operations, NEW e \in Events, Logged(operation, e),
         operation \in {"guarded_commit", "unguarded_commit"} =>
           CommitsAt = {} /\ operation = CommitOf(Case.profile)
  PROVE  LogIsSound'
<1>1. Case' = Case
  BY DEF Case
<1>2. credentials'[Case].status = IF RevokedAt' = {} THEN "active" ELSE "revoked"
  BY DEF Logged
<1>3. ASSUME NEW n \in 1..Len(events')
      PROVE  /\ events'[n].linearization_index = n
             /\ events'[n].status = "revoked" <=> RevokedBefore(n)' \/ n \in RevokedAt'
  <2>1. CASE n \in 1..Len(events)
    <3>1. n # Len(events) + 1
      BY <2>1, PositionsTyped
    <3> QED BY <2>1, <3>1 DEF Logged, LogKept, LogIsSound
  <2>2. CASE n = Len(events) + 1
    <3>1. n \notin RevokedAt
      BY <2>2, PositionsTyped
    <3>2. /\ events'[n].linearization_index = n
          /\ events'[n].status = credentials'[Case].status
          /\ RevokedAt' = RevokedAt \cup (IF operation = "revoke" THEN {n} ELSE {})
          /\ RevokedBefore(n)' <=> RevokedAt # {}
      BY <2>2 DEF Logged
    <3>3. CASE operation = "revoke"
      BY <1>2, <3>1, <3>2, <3>3
    <3>4. CASE operation # "revoke"
      BY <1>2, <3>1, <3>2, <3>4
    <3> QED BY <3>3, <3>4
  <2> QED BY <2>1, <2>2, <1>3, PositionsTyped DEF Logged
<1>4. ASSUME NEW c \in CommitsAt'
      PROVE  events'[c].effect_committed <=> (Case.profile = "atomic_guard" => ~ RevokedBefore(c)')
  <2>1. CASE c \in CommitsAt
    BY <2>1, PositionsTyped DEF Logged, LogKept, LogIsSound
  <2>2. CASE c \notin CommitsAt
    <3>1. c = Len(events) + 1 /\ operation \in {"guarded_commit", "unguarded_commit"}
      BY <2>2 DEF Logged
    <3>2. operation = CommitOf(Case.profile)
      BY <3>1
    <3>3. /\ events'[c].effect_committed = Effect(operation, credentials'[Case])
          /\ RevokedBefore(c)' <=> RevokedAt # {}
          /\ RevokedAt' = RevokedAt
      BY <3>1 DEF Logged
    <3>4. Effect(operation, credentials'[Case]) <=>
             (Case.profile = "atomic_guard" => credentials'[Case].status = "active")
      BY <3>1, <3>2 DEF Effect, CommitOf
    <3> QED BY <1>2, <3>3, <3>4
  <2> QED BY <2>1, <2>2
<1>5. \A c, d \in CommitsAt' : c = d
  BY DEF Logged, LogIsSound
<1> QED BY <1>1, <1>2, <1>3, <1>4, <1>5 DEF LogIsSound

(* Nothing about the log changes while the service serves nothing. *)
LEMMA LogStays ==
  ASSUME TypeOK, UNCHANGED service
  PROVE  /\ UNCHANGED <<credentials, events, RevokedAt, ReadsAt, CommitsAt>> /\ LogKept
         /\ \A n : RevokedBefore(n)' <=> RevokedBefore(n)
         /\ UNCHANGED position /\ LogIsSound => LogIsSound'
<1>1. UNCHANGED <<credentials, events, RevokedAt, ReadsAt, CommitsAt>>
  BY DEF service, RevokedAt, ReadsAt, CommitsAt
<1>2. \A n : RevokedBefore(n)' <=> RevokedBefore(n)
  BY <1>1 DEF RevokedBefore
<1>3. LogKept
  BY <1>1, <1>2, PositionsTyped DEF LogKept
<1>4. UNCHANGED position /\ LogIsSound => LogIsSound'
  BY <1>1, <1>2 DEF LogIsSound, Case
<1> QED BY <1>1, <1>2, <1>3, <1>4

-----------------------------------------------------------------------------
(* What holds of the suite while one of its cases goes on.                 *)

Around == TypeOK /\ LogInv /\ UnstartedInv /\ RowsInv /\ ReportInv

LEMMA CaseGoesOn ==
  ASSUME SuiteInv, pc \in Open, pc' \in Open, LogIsSound',
         UNCHANGED <<position, rows, report>>,
         credentials' \in [Cases -> [status : {"absent"} \cup Statuses, sequence : Nat]],
         \A c \in Cases : c # Case => credentials'[c] = credentials[c],
         events' \in Seq(Events), trace' \in Seq(Events), context' \in Contexts,
         threads' \in [revoke : ThreadStates, commit : ThreadStates]
  PROVE  Around'
<1>1. /\ position' = position /\ rows' = rows /\ pc \notin Over /\ pc' \notin Over
      /\ pc' # "initialize" /\ pc' # "done"
  BY DEF Open, Over, Early, Fresh, Appraised, Reread
<1>2. TypeOK'
  BY <1>1 DEF SuiteInv, TypeOK
<1>3. UnstartedInv'
  <2> SUFFICES ASSUME NEW k \in 1..Len(Suite), k > position
               PROVE  credentials'[Suite[k]].status = "absent"
    BY <1>1 DEF UnstartedInv
  <2>1. position \in 1..Len(Suite) /\ k # position
    BY <1>1, CaseTyped DEF SuiteInv, TypeOK
  <2>2. Suite[k] # Suite[position] /\ Suite[k] \in Cases
    BY <2>1, SuiteIsInjective, SuitePositions
  <2>3. credentials[Suite[k]].status = "absent"
    BY DEF SuiteInv, UnstartedInv
  <2> QED BY <2>2, <2>3 DEF Case
<1>4. RowsInv'
  BY <1>1 DEF SuiteInv, RowsInv
<1> QED BY <1>1, <1>2, <1>3, <1>4 DEF Around, LogInv, ReportInv

LEMMA ThreadsIdle ==
  ASSUME SuiteInv, pc \in Early \cup {"committed", "finalize"}, UNCHANGED threads, pc' # "join"
  PROVE  ThreadsInv'
<1>1. threads.revoke = "idle" /\ threads.commit = "idle"
  BY DEF SuiteInv, ThreadsInv, Early, Fresh, Appraised, Reread
<1> QED BY <1>1 DEF ThreadsInv

(* The service has done what the runner has asked for. *)
LEMMA Served ==
  ASSUME SuiteInv, pc \in Early \cup {"committed"}, pc' \in Open \ {"join"},
         NEW operation \in Operations, Serve(operation),
         trace' \in {trace, Append(trace, EventOf(operation))},
         UNCHANGED <<position, context, rows, threads, report>>,
         operation \in {"guarded_commit", "unguarded_commit"} =>
           CommitsAt = {} /\ operation = CommitOf(Case.profile)
  PROVE  Around' /\ ThreadsInv' /\ \E e \in Events : Logged(operation, e)
<1>1. pc \in Open /\ TypeOK /\ LogIsSound
  BY DEF SuiteInv, LogInv, Open
<1>2. PICK e \in Events : Logged(operation, e)
  BY <1>1, ServeLogs
<1>3. LogIsSound'
  BY <1>1, <1>2, SoundAfter
<1>4. EventOf(operation) \in Events
  BY <1>2 DEF Logged
<1>5. trace' \in Seq(Events)
  <2>1. \A f \in Events : Append(trace, f) \in Seq(Events)
    BY <1>1 DEF TypeOK
  <2>2. trace \in Seq(Events) /\ Append(trace, EventOf(operation)) \in Seq(Events)
    BY <1>1, <1>4, <2>1 DEF TypeOK
  <2> QED BY <2>2
<1>6. context' \in Contexts /\ threads' \in [revoke : ThreadStates, commit : ThreadStates]
  BY <1>1 DEF TypeOK
<1>7. Around'
  BY <1>1, <1>2, <1>3, <1>5, <1>6, CaseGoesOn DEF Logged
<1>8. ThreadsInv'
  BY ThreadsIdle
<1> QED BY <1>2, <1>7, <1>8

(* The runner has the answer, in the order of the log. *)
LEMMA Called ==
  ASSUME SuiteInv, pc \in Early \cup {"committed"}, NEW step \in Open \ {"join"},
         NEW operation \in Operations, Call(operation, step),
         operation \in {"guarded_commit", "unguarded_commit"} =>
           CommitsAt = {} /\ operation = CommitOf(Case.profile)
  PROVE  /\ Around' /\ ThreadsInv' /\ TraceInv' /\ \E e \in Events : Logged(operation, e)
         /\ pc' = step /\ trace' = events' /\ Case' = Case
<1>1. /\ pc' = step /\ Serve(operation) /\ trace' = Append(trace, EventOf(operation))
      /\ UNCHANGED <<position, context, rows, threads, report>>
  BY DEF Call
<1>2. Around' /\ ThreadsInv' /\ \E e \in Events : Logged(operation, e)
  BY <1>1, Served
<1>3. trace = events
  BY DEF SuiteInv, TraceInv
<1>4. trace' = events'
  BY <1>1, <1>3 DEF Serve
<1>5. TraceInv'
  BY <1>1, <1>4 DEF TraceInv
<1> QED BY <1>1, <1>2, <1>4, <1>5 DEF Case

(* The runner goes on without a call. *)
LEMMA Moved ==
  ASSUME SuiteInv, pc \in Early \cup {"committed"}, pc' \in Open \ {"join"},
         UNCHANGED <<service, position, trace, rows, threads, report>>, context' \in Contexts
  PROVE  /\ Around' /\ ThreadsInv' /\ TraceInv'
         /\ UNCHANGED <<events, RevokedAt, ReadsAt, CommitsAt, Case>>
         /\ \A n : RevokedBefore(n)' <=> RevokedBefore(n)
<1>1. pc \in Open /\ TypeOK /\ LogIsSound
  BY DEF SuiteInv, LogInv, Open
<1>2. /\ UNCHANGED <<credentials, events, RevokedAt, ReadsAt, CommitsAt>>
      /\ \A n : RevokedBefore(n)' <=> RevokedBefore(n)
      /\ LogIsSound'
  BY <1>1, LogStays
<1>3. /\ credentials' \in [Cases -> [status : {"absent"} \cup Statuses, sequence : Nat]]
      /\ events' \in Seq(Events) /\ trace' \in Seq(Events)
      /\ threads' \in [revoke : ThreadStates, commit : ThreadStates]
      /\ \A c \in Cases : c # Case => credentials'[c] = credentials[c]
  BY <1>1, <1>2 DEF TypeOK
<1>4. Around'
  BY <1>1, <1>2, <1>3, CaseGoesOn
<1>5. ThreadsInv'
  BY ThreadsIdle
<1>6. trace' = events'
  BY <1>2 DEF SuiteInv, TraceInv
<1>7. TraceInv'
  BY <1>6 DEF TraceInv
<1> QED BY <1>2, <1>4, <1>5, <1>7 DEF Case

-----------------------------------------------------------------------------
(* The runner's own steps, one at a time.                                  *)

LEMMA InvInit == Init => SuiteInv
<1> SUFFICES ASSUME Init PROVE SuiteInv
  OBVIOUS
<1> USE DEF Init
<1>1. Len(Suite) \in Nat \ {0}
  BY SuiteOfProfiles, SuiteAssumption DEF Length
<1>2. TypeOK
  BY <1>1 DEF TypeOK, Over, Open, Early, Fresh, Appraised, Reread, Contexts, NoContext, Idle,
              ThreadStates
<1>3. LogInv /\ UnstartedInv
  BY SuitePositions DEF LogInv, UnstartedInv, Open, Early, Fresh, Appraised, Reread
<1>4. TraceInv /\ ThreadsInv
  BY DEF TraceInv, ThreadsInv, Early, Fresh, Appraised, Reread, Idle
<1>5. ReadsInv /\ PlacedInv
  BY DEF ReadsInv, PlacedInv, Early, Fresh, Appraised, Reread
<1>6. RowsInv /\ ReportInv
  BY DEF RowsInv, ReportInv
<1> QED BY <1>2, <1>3, <1>4, <1>5, <1>6 DEF SuiteInv

LEMMA InitializeKeeps ==
  ASSUME SuiteInv, InitializeCredential
  PROVE  SuiteInv'
<1>1. /\ pc = "initialize" /\ pc' = "before" /\ events' = <<>> /\ trace' = <<>>
      /\ credentials' = [credentials EXCEPT ![Case] = Active]
      /\ UNCHANGED <<position, rows, threads, report>> /\ context' = NoContext
      /\ pc \notin Over
  BY DEF InitializeCredential, Over
<1>2. Case \in Cases /\ position \in 1..Len(Suite) /\ Case' = Case
  BY <1>1, CaseTyped DEF SuiteInv, Case
<1>3. /\ credentials' \in [Cases -> [status : {"absent"} \cup Statuses, sequence : Nat]]
      /\ credentials'[Case].status = "active"
      /\ \A c \in Cases : c # Case => credentials'[c] = credentials[c]
  BY <1>1, <1>2 DEF SuiteInv, TypeOK, Active, Statuses
<1>4. TypeOK'
  BY <1>1, <1>2, <1>3 DEF SuiteInv, TypeOK, Over, Open, Early, Fresh, Contexts, NoContext
<1>5. RevokedAt' = {} /\ ReadsAt' = {} /\ CommitsAt' = {} /\ Len(events') = 0
  BY <1>1 DEF RevokedAt, ReadsAt, CommitsAt, Commits, PositionsIn
<1>6. LogInv'
  BY <1>2, <1>3, <1>5 DEF LogInv, LogIsSound
<1>7. UnstartedInv'
  <2> SUFFICES ASSUME NEW k \in 1..Len(Suite), k > position
               PROVE  credentials'[Suite[k]].status = "absent"
    BY <1>1 DEF UnstartedInv
  <2>1. Suite[k] # Suite[position] /\ Suite[k] \in Cases
    BY <1>2, SuiteIsInjective, SuitePositions
  <2>2. credentials[Suite[k]].status = "absent"
    BY DEF SuiteInv, UnstartedInv
  <2> QED BY <1>3, <2>1, <2>2 DEF Case
<1>8. TraceInv'
  BY <1>1 DEF TraceInv
<1>9. threads.revoke = "idle" /\ threads.commit = "idle"
  BY <1>1 DEF SuiteInv, ThreadsInv
<1>10. ThreadsInv'
  BY <1>1, <1>9 DEF ThreadsInv
<1>11. ReadsInv'
  BY <1>1, <1>5 DEF ReadsInv, Fresh, Appraised, Reread
<1>12. PlacedInv'
  BY <1>1, <1>5 DEF PlacedInv, Early, Fresh, Appraised, Reread
<1>13. RowsInv' /\ ReportInv'
  BY <1>1 DEF SuiteInv, RowsInv, ReportInv
<1> QED BY <1>4, <1>6, <1>7, <1>8, <1>10, <1>11, <1>12, <1>13 DEF SuiteInv

(* A read at a point whose next step is one where a read has been made.    *)
LEMMA ReadKeeps ==
  ASSUME SuiteInv, NEW step \in {"appraised", "decided"}, Read(step),
         \/ pc = "appraise" /\ step = "appraised"
         \/ pc = "decide" /\ step = "decided" /\ Case.profile = "double_read"
         \/ pc = "refresh" /\ step = "decided"
  PROVE  SuiteInv'
<1> DEFINE next == IF credentials[Case].status = "revoked" THEN "finalize" ELSE step
<1>1. Call("status_read", next) /\ next \in Open \ {"join"}
  BY DEF Read, Open, Early, Appraised, Reread
<1>2. pc \in Early \cup {"committed"} /\ "status_read" \in Operations /\ pc \in Open
  BY DEF Early, Fresh, Appraised, Operations, Open
<1>3. /\ Around' /\ ThreadsInv' /\ TraceInv' /\ \E e \in Events : Logged("status_read", e)
      /\ pc' = next /\ trace' = events' /\ Case' = Case /\ UNCHANGED context
  BY <1>1, <1>2, Called DEF Call
<1>4. PICK e \in Events : Logged("status_read", e)
  BY <1>3
<1>5. /\ RevokedAt' = RevokedAt /\ CommitsAt' = CommitsAt
      /\ ReadsAt' = ReadsAt \cup {Len(events) + 1}
      /\ Len(events') = Len(events) + 1 /\ Len(events) \in Nat
      /\ \A n \in 1..Len(events) : RevokedBefore(n)' <=> RevokedBefore(n)
      /\ \A n \in {Len(events) + 1} : RevokedBefore(n)' <=> RevokedAt # {}
  BY <1>4 DEF Logged, LogKept
<1>6. RevokedAt = {} <=> credentials[Case].status # "revoked"
  BY <1>2 DEF SuiteInv, LogInv, LogIsSound
<1>7. CommitsAt = {} /\ ReadsAt \subseteq 1..Len(events)
  BY <1>2, PositionsTyped DEF SuiteInv, PlacedInv, Early, Fresh, Appraised
<1>8. RevokedAt = {} => \A r \in ReadsAt' : ~ RevokedBefore(r)'
  BY <1>5, <1>7 DEF RevokedBefore
<1>9. ReadsInv'
  <2>1. CASE RevokedAt = {}
    BY <2>1, <1>3, <1>5, <1>6, <1>8 DEF ReadsInv, Fresh, Appraised, Reread
  <2>2. CASE RevokedAt # {}
    BY <2>2, <1>3, <1>5, <1>6, <1>7 DEF ReadsInv, Fresh, Appraised, Reread
  <2> QED BY <2>1, <2>2
<1>10. PlacedInv'
  <2>1. CASE RevokedAt = {}
    BY <2>1, <1>3, <1>5, <1>6, <1>7 DEF SuiteInv, PlacedInv, Early, Fresh, Appraised, Reread
  <2>2. CASE RevokedAt # {}
    <3>2. Case.placement # "after_final_read"
      BY <2>2 DEF SuiteInv, PlacedInv, Early, Fresh, Appraised, Reread
    <3>3. /\ pc' = "finalize" /\ RevokedAt' # {} /\ CommitsAt' = {} /\ Case' = Case
          /\ context' = context
      BY <2>2, <1>3, <1>5, <1>6, <1>7
    <3>4. Case.placement = "after_cache_expiry" =>
            /\ pc # "appraise" /\ Case.profile # "single_read"
            /\ Case.profile = "ttl_cache" => pc = "refresh" /\ context.cache_refresh
      BY <2>2 DEF SuiteInv, PlacedInv, ReadsInv, Early, Fresh, Appraised
    <3> QED BY <3>2, <3>3, <3>4 DEF PlacedInv, Early, Fresh, Appraised, Reread
  <2> QED BY <2>1, <2>2
<1> QED BY <1>3, <1>9, <1>10 DEF SuiteInv, Around

LEMMA AppraiseKeeps ==
  ASSUME SuiteInv, Appraise
  PROVE  SuiteInv'
<1>1. pc = "appraise" /\ Read("appraised")
  BY DEF Appraise
<1>2. "appraised" \in {"appraised", "decided"}
  OBVIOUS
<1> QED BY <1>1, <1>2, ReadKeeps

LEMMA DoubleReadKeeps ==
  ASSUME SuiteInv, DoubleRead \/ Refresh
  PROVE  SuiteInv'
<1>1. Read("decided") /\ ((pc = "decide" /\ Case.profile = "double_read") \/ pc = "refresh")
  BY DEF DoubleRead, Refresh
<1>2. "decided" \in {"appraised", "decided"}
  OBVIOUS
<1> QED BY <1>1, <1>2, ReadKeeps

(* A revocation that has its place here, or none. *)
LEMMA PlaceRevokes ==
  ASSUME SuiteInv, pc \in DOMAIN PlacesAt, Case.placement \in PlacesAt[pc],
         Call("revoke", AfterPlace[pc])
  PROVE  SuiteInv'
<1>1. /\ pc = "before" => Case.placement = "before_appraisal" /\ AfterPlace[pc] = "appraise"
      /\ pc = "appraised" => /\ Case.placement \in {"between_appraisal_and_commit", "after_cache_expiry"}
                             /\ AfterPlace[pc] = "decide"
      /\ pc = "decided" => Case.placement = "after_final_read" /\ AfterPlace[pc] = "commit"
      /\ pc = "committed" => Case.placement = "after_commit" /\ AfterPlace[pc] = "finalize"
      /\ pc \in {"before", "appraised", "decided", "committed"}
  BY DEF PlacesAt, AfterPlace
<1>2. /\ AfterPlace[pc] \in Open \ {"join"} /\ pc \in Early \cup {"committed"}
      /\ "revoke" \in Operations
  BY <1>1 DEF Open, Early, Fresh, Appraised, Reread, Operations
<1>3. /\ Around' /\ ThreadsInv' /\ TraceInv' /\ \E e \in Events : Logged("revoke", e)
      /\ pc' = AfterPlace[pc] /\ Case' = Case /\ UNCHANGED context
  BY <1>2, Called DEF Call
<1>4. PICK e \in Events : Logged("revoke", e)
  BY <1>3
<1>5. /\ RevokedAt' # {} /\ CommitsAt' = CommitsAt /\ ReadsAt' = ReadsAt
      /\ \A n \in 1..Len(events) : RevokedBefore(n)' <=> RevokedBefore(n)
      /\ ReadsAt \subseteq 1..Len(events) /\ CommitsAt \subseteq 1..Len(events)
  BY <1>4, PositionsTyped DEF SuiteInv, Logged, LogKept
<1>6. /\ pc \in {"appraised", "decided", "committed"} => ReadsAt # {} /\ \A r \in ReadsAt : ~ RevokedBefore(r)'
      /\ pc = "before" => ReadsAt = {}
      /\ pc # "committed" <=> CommitsAt = {}
  BY <1>1, <1>5 DEF SuiteInv, ReadsInv, PlacedInv, Early, Fresh, Appraised, Reread
<1>7. ReadsInv'
  <2>1. CASE pc = "before"
    BY <2>1, <1>1, <1>3, <1>5, <1>6 DEF ReadsInv, Fresh, Appraised, Reread
  <2>2. CASE pc # "before"
    BY <2>2, <1>1, <1>3, <1>5, <1>6 DEF ReadsInv, Fresh, Appraised, Reread
  <2> QED BY <2>1, <2>2
<1>8. PlacedInv'
  <2> USE DEF PlacedInv, Early, Fresh, Appraised, Reread
  <2>1. CASE pc \in {"before", "committed"}
    BY <2>1, <1>1, <1>3, <1>5, <1>6
  <2>2. CASE pc = "appraised"
    BY <2>2, <1>1, <1>3, <1>5, <1>6
  <2>3. CASE pc = "decided"
    BY <2>3, <1>1, <1>3, <1>5, <1>6
  <2> QED BY <2>1, <2>2, <2>3, <1>1
<1> QED BY <1>3, <1>7, <1>8 DEF SuiteInv, Around

LEMMA PlacePasses ==
  ASSUME SuiteInv, pc \in DOMAIN PlacesAt, Case.placement \notin PlacesAt[pc], Goto(AfterPlace[pc])
  PROVE  SuiteInv'
<1>1. /\ pc = "before" => AfterPlace[pc] = "appraise"
      /\ pc = "appraised" => Case.placement # "after_cache_expiry" /\ AfterPlace[pc] = "decide"
      /\ pc = "decided" => Case.placement # "after_final_read" /\ AfterPlace[pc] = "commit"
      /\ pc = "committed" => AfterPlace[pc] = "finalize"
      /\ pc \in {"before", "appraised", "decided", "committed"}
  BY DEF PlacesAt, AfterPlace
<1>2. AfterPlace[pc] \in Open \ {"join"} /\ pc \in Early \cup {"committed"}
  BY <1>1 DEF Open, Early, Fresh, Appraised, Reread
<1>3. pc' = AfterPlace[pc] /\ UNCHANGED <<service, position, trace, context, rows, threads, report>>
  BY DEF Goto
<1>4. context' \in Contexts
  BY <1>3 DEF SuiteInv, TypeOK
<1>5. /\ Around' /\ ThreadsInv' /\ TraceInv' /\ UNCHANGED <<RevokedAt, ReadsAt, CommitsAt, Case>>
      /\ \A n : RevokedBefore(n)' <=> RevokedBefore(n)
  BY <1>2, <1>3, <1>4, Moved
<1>6. CommitsAt # {} <=> pc = "committed"
  BY <1>1 DEF SuiteInv, PlacedInv, Early, Fresh, Appraised, Reread
<1>7. ReadsInv'
  BY <1>1, <1>3, <1>5, <1>6 DEF SuiteInv, ReadsInv, Fresh, Appraised, Reread
<1>8. PlacedInv'
  <2> USE DEF SuiteInv, PlacedInv, Early, Fresh, Appraised, Reread
  <2>1. CASE pc = "before"
    BY <2>1, <1>1, <1>3, <1>5, <1>6
  <2>2. CASE pc = "appraised"
    BY <2>2, <1>1, <1>3, <1>5, <1>6
  <2>3. CASE pc = "decided"
    BY <2>3, <1>1, <1>3, <1>5, <1>6
  <2>4. CASE pc = "committed"
    BY <2>4, <1>1, <1>3, <1>5, <1>6
  <2> QED BY <2>1, <2>2, <2>3, <2>4, <1>1
<1> QED BY <1>5, <1>7, <1>8 DEF SuiteInv, Around

LEMMA PlaceKeeps ==
  ASSUME SuiteInv, Place
  PROVE  SuiteInv'
BY PlaceRevokes, PlacePasses DEF Place

LEMMA NoSecondReadKeeps ==
  ASSUME SuiteInv, NoSecondRead
  PROVE  SuiteInv'
<1>1. /\ pc = "decide" /\ pc' = "decided" /\ Case.profile # "ttl_cache"
      /\ UNCHANGED <<service, position, trace, context, rows, threads, report>>
  BY DEF NoSecondRead, Goto
<1>2. /\ context' \in Contexts /\ pc \in Early \cup {"committed"} /\ pc' \in Open \ {"join"}
  BY <1>1 DEF SuiteInv, TypeOK, Open, Early, Appraised, Reread
<1>3. /\ Around' /\ ThreadsInv' /\ TraceInv' /\ UNCHANGED <<RevokedAt, ReadsAt, CommitsAt, Case>>
      /\ \A n : RevokedBefore(n)' <=> RevokedBefore(n)
  BY <1>1, <1>2, Moved
<1>4. ReadsInv'
  BY <1>1, <1>3 DEF SuiteInv, ReadsInv, Fresh, Appraised, Reread
<1>5. PlacedInv'
  BY <1>1, <1>3 DEF SuiteInv, PlacedInv, Early, Fresh, Appraised, Reread
<1> QED BY <1>3, <1>4, <1>5 DEF SuiteInv, Around

LEMMA ReadCacheKeeps ==
  ASSUME SuiteInv, ReadCache
  PROVE  SuiteInv'
<1>1. PICK age \in Ages :
        /\ Case.placement = "after_cache_expiry" => age >= ExpiryDelay
        /\ context' = [cache_hit |-> CacheHit(age), cache_refresh |-> ~ CacheHit(age)]
        /\ pc' = IF CacheHit(age) THEN "decided" ELSE "refresh"
  BY DEF ReadCache
<1>2. /\ pc = "decide" /\ Case.profile = "ttl_cache"
      /\ UNCHANGED <<service, position, trace, rows, threads, report>>
  BY DEF ReadCache
<1>3. CacheHit(age) \in BOOLEAN /\ (Case.placement = "after_cache_expiry" => ~ CacheHit(age))
  BY <1>1, SuiteAssumption DEF CacheHit, TTL, ExpiryDelay
<1>4. context' \in Contexts /\ context'.cache_refresh = ~ CacheHit(age)
  BY <1>1, <1>3 DEF Contexts
<1>5. /\ pc \in Early \cup {"committed"} /\ pc' \in Open \ {"join"}
      /\ pc' \in {"decided", "refresh"}
      /\ Case.placement = "after_cache_expiry" => pc' = "refresh" /\ context'.cache_refresh
  BY <1>1, <1>2, <1>3, <1>4 DEF Open, Early, Appraised, Reread
<1>6. /\ Around' /\ ThreadsInv' /\ TraceInv' /\ UNCHANGED <<RevokedAt, ReadsAt, CommitsAt, Case>>
      /\ \A n : RevokedBefore(n)' <=> RevokedBefore(n)
  BY <1>2, <1>4, <1>5, Moved
<1>7. ReadsInv'
  BY <1>2, <1>5, <1>6 DEF SuiteInv, ReadsInv, Fresh, Appraised, Reread
<1>8. PlacedInv'
  BY <1>2, <1>5, <1>6 DEF SuiteInv, PlacedInv, Early, Fresh, Appraised, Reread
<1> QED BY <1>6, <1>7, <1>8 DEF SuiteInv, Around

LEMMA CommitKeeps ==
  ASSUME SuiteInv, Commit
  PROVE  SuiteInv'
<1> DEFINE operation == CommitOf(Case.profile)
<1>1. pc = "commit" /\ Call(operation, "committed")
  BY DEF Commit
<1>2. /\ operation \in {"guarded_commit", "unguarded_commit"} /\ operation \in Operations
      /\ pc \in Early \cup {"committed"} /\ "committed" \in Open \ {"join"} /\ pc \in Open
  BY <1>1 DEF CommitOf, Operations, Open, Early, Reread
<1>3. CommitsAt = {}
  BY <1>1 DEF SuiteInv, PlacedInv, Early, Reread
<1> HIDE DEF operation
<1>4. /\ Around' /\ ThreadsInv' /\ TraceInv' /\ \E e \in Events : Logged(operation, e)
      /\ pc' = "committed" /\ Case' = Case
  BY <1>1, <1>2, <1>3, Called DEF operation
<1>5. PICK e \in Events : Logged(operation, e)
  BY <1>4
<1>6. /\ RevokedAt' = RevokedAt /\ ReadsAt' = ReadsAt /\ CommitsAt' = {Len(events) + 1}
      /\ \A n \in 1..Len(events) : RevokedBefore(n)' <=> RevokedBefore(n)
      /\ \A n \in {Len(events) + 1} : RevokedBefore(n)' <=> RevokedAt # {}
      /\ ReadsAt \subseteq 1..Len(events)
  BY <1>2, <1>3, <1>5, PositionsTyped DEF SuiteInv, Logged, LogKept
<1>7. ReadsInv'
  BY <1>1, <1>4, <1>6 DEF SuiteInv, ReadsInv, Fresh, Appraised, Reread
<1>8. /\ CommitsAt' # {} /\ (RevokedAt # {} => \A c \in CommitsAt' : RevokedBefore(c)')
  BY <1>6
<1>9. PlacedInv'
  BY <1>1, <1>4, <1>6, <1>8 DEF SuiteInv, PlacedInv, Early, Fresh, Appraised, Reread
<1> QED BY <1>4, <1>7, <1>9 DEF SuiteInv, Around

LEMMA ReleaseKeeps ==
  ASSUME SuiteInv, ReleaseThreads
  PROVE  SuiteInv'
<1>1. /\ pc = "commit" /\ Case.placement = "simultaneous" /\ pc' = "join"
      /\ threads' = [revoke |-> "sent", commit |-> "sent"]
      /\ UNCHANGED <<service, position, trace, context, rows, report>>
  BY DEF ReleaseThreads
<1>2. /\ pc \in Open /\ pc' \in Open /\ pc \in Early /\ TypeOK /\ LogIsSound
  BY <1>1 DEF SuiteInv, LogInv, Open, Early, Reread
<1>3. /\ UNCHANGED <<credentials, events, RevokedAt, ReadsAt, CommitsAt>>
      /\ \A n : RevokedBefore(n)' <=> RevokedBefore(n)
      /\ LogIsSound'
  BY <1>1, <1>2, LogStays
<1>4. /\ credentials' \in [Cases -> [status : {"absent"} \cup Statuses, sequence : Nat]]
      /\ events' \in Seq(Events) /\ trace' \in Seq(Events) /\ context' \in Contexts
      /\ threads' \in [revoke : ThreadStates, commit : ThreadStates]
      /\ \A c \in Cases : c # Case => credentials'[c] = credentials[c]
  BY <1>1, <1>2, <1>3 DEF TypeOK, ThreadStates
<1>5. Around'
  BY <1>1, <1>2, <1>3, <1>4, CaseGoesOn
<1>6. /\ RevokedAt = {} /\ CommitsAt = {} /\ trace = events /\ Case' = Case
      /\ Len(events) \in Nat
  BY <1>1, <1>2, PositionsTyped DEF SuiteInv, PlacedInv, TraceInv, Case
<1>7. TraceInv'
  <2>1. (Len(events) + 1)..Len(events) = {}
    BY <1>6
  <2> QED BY <1>1, <1>3, <1>6, <2>1 DEF TraceInv, Early, Fresh, Appraised, Reread
<1>8. ThreadsInv'
  BY <1>1, <1>3, <1>6 DEF ThreadsInv
<1>9. ReadsInv'
  BY <1>1, <1>3 DEF SuiteInv, ReadsInv, Fresh, Appraised, Reread
<1>10. PlacedInv'
  BY <1>1 DEF PlacedInv, Early, Fresh, Appraised, Reread
<1> QED BY <1>5, <1>7, <1>8, <1>9, <1>10 DEF SuiteInv, Around

LEMMA HandleKeeps ==
  ASSUME SuiteInv, NEW t \in DOMAIN threads, HandleThread(t)
  PROVE  SuiteInv'
<1> DEFINE operation == IF t = "revoke" THEN "revoke" ELSE CommitOf(Case.profile)
<1>1. /\ t \in {"revoke", "commit"} /\ threads[t] \in {"sent", "gone"}
      /\ threads \in [revoke : ThreadStates, commit : ThreadStates]
      /\ threads["revoke"] = threads.revoke /\ threads["commit"] = threads.commit
  BY DEF SuiteInv, TypeOK, HandleThread
<1>2. /\ Serve(operation) /\ UNCHANGED <<position, pc, trace, context, rows, report>>
      /\ threads' = [threads EXCEPT ![t] = IF @ = "sent" THEN "answered" ELSE "failed"]
  BY DEF HandleThread, runner
<1>3. /\ pc \in {"join", "raised"} /\ threads.revoke # "idle" /\ threads.commit # "idle"
      /\ t = "revoke" => RevokedAt = {}
      /\ t = "commit" => CommitsAt = {}
  BY <1>1 DEF SuiteInv, ThreadsInv
<1>4. /\ operation \in Operations /\ pc \in Open /\ TypeOK /\ LogIsSound
      /\ t = "commit" => operation \in {"guarded_commit", "unguarded_commit"}
      /\ operation \in {"guarded_commit", "unguarded_commit"} =>
           CommitsAt = {} /\ operation = CommitOf(Case.profile)
  BY <1>1, <1>3 DEF SuiteInv, LogInv, Open, Operations, CommitOf
<1> HIDE DEF operation
<1>5. PICK e \in Events : Logged(operation, e)
  BY <1>2, <1>4, ServeLogs
<1>6. LogIsSound' /\ Case' = Case
  BY <1>2, <1>4, <1>5, SoundAfter DEF Case
<1>7. /\ threads' \in [revoke : ThreadStates, commit : ThreadStates]
      /\ threads'[t] \in {"answered", "failed"}
      /\ \A u \in {"revoke", "commit"} : u # t => threads'[u] = threads[u]
      /\ threads'["revoke"] = threads'.revoke /\ threads'["commit"] = threads'.commit
  BY <1>1, <1>2 DEF ThreadStates
<1>8. /\ trace' \in Seq(Events) /\ context' \in Contexts /\ pc' \in Open
      /\ events' \in Seq(Events)
      /\ credentials' \in [Cases -> [status : {"absent"} \cup Statuses, sequence : Nat]]
      /\ \A c \in Cases : c # Case => credentials'[c] = credentials[c]
  BY <1>2, <1>4, <1>5 DEF TypeOK, Logged
<1>9. Around'
  BY <1>2, <1>4, <1>6, <1>7, <1>8, CaseGoesOn
<1>10. /\ RevokedAt' = RevokedAt \cup (IF t = "revoke" THEN {Len(events) + 1} ELSE {})
       /\ CommitsAt' = CommitsAt \cup (IF t = "commit" THEN {Len(events) + 1} ELSE {})
       /\ ReadsAt' = ReadsAt /\ Len(events') = Len(events) + 1
       /\ \A n \in 1..Len(events) : /\ events'[n] = events[n]
                                    /\ RevokedBefore(n)' <=> RevokedBefore(n)
       /\ Len(events) \in Nat /\ Len(trace) \in Nat /\ ReadsAt \subseteq 1..Len(events)
  <2>1. /\ operation = "revoke" <=> t = "revoke"
        /\ operation \in {"guarded_commit", "unguarded_commit"} <=> t = "commit"
        /\ operation # "status_read"
    BY <1>1, <1>4 DEF operation
  <2>2. Len(trace) \in Nat
    BY <1>4 DEF TypeOK
  <2> QED BY <1>4, <1>5, <2>1, <2>2, PositionsTyped DEF Logged, LogKept
<1>11. TraceInv'
  <2>1. SUFFICES ASSUME pc = "join"
                 PROVE  /\ Len(trace) <= Len(events')
                        /\ \A n \in 1..Len(trace) : trace[n] = events'[n]
                        /\ RevokedAt' \cup CommitsAt' = (Len(trace) + 1)..Len(events')
                        /\ \A x, y \in RevokedAt' : x = y
    BY <1>2, <1>3 DEF TraceInv, Early, Fresh, Appraised, Reread
  <2>2. /\ Len(trace) <= Len(events)
        /\ \A n \in 1..Len(trace) : trace[n] = events[n]
        /\ RevokedAt \cup CommitsAt = (Len(trace) + 1)..Len(events)
        /\ \A x, y \in RevokedAt : x = y
    BY <2>1 DEF SuiteInv, TraceInv
  <2>3. RevokedAt' \cup CommitsAt' = (RevokedAt \cup CommitsAt) \cup {Len(events) + 1}
    BY <1>1, <1>10
  <2>4. (Len(trace) + 1)..(Len(events) + 1) = ((Len(trace) + 1)..Len(events)) \cup {Len(events) + 1}
    BY <1>10, <2>2
  <2>5. \A x, y \in RevokedAt' : x = y
    BY <1>1, <1>3, <1>10, <2>2
  <2>6. \A n \in 1..Len(trace) : n \in 1..Len(events)
    BY <1>10, <2>2
  <2> QED BY <1>10, <2>2, <2>3, <2>4, <2>5, <2>6
<1>12. ThreadsInv'
  <2>1. /\ t = "revoke" => RevokedAt' # {} /\ CommitsAt' = CommitsAt
        /\ t = "commit" => CommitsAt' # {} /\ RevokedAt' = RevokedAt
    BY <1>10
  <2>2. CASE t = "revoke"
    BY <2>1, <2>2, <1>2, <1>3, <1>6, <1>7 DEF SuiteInv, ThreadsInv
  <2>3. CASE t = "commit"
    BY <2>1, <2>3, <1>2, <1>3, <1>6, <1>7 DEF SuiteInv, ThreadsInv
  <2> QED BY <1>1, <2>2, <2>3
<1>13. ReadsInv'
  BY <1>2, <1>3, <1>10 DEF SuiteInv, ReadsInv, Fresh, Appraised, Reread
<1>14. PlacedInv'
  BY <1>2, <1>3 DEF PlacedInv, Early, Fresh, Appraised, Reread
<1> QED BY <1>9, <1>11, <1>12, <1>13, <1>14 DEF SuiteInv, Around

(* The threads lose their answers, and the service does nothing. *)
LEMMA ThreadsGoOn ==
  ASSUME SuiteInv, pc = "join", pc' \in {"join", "raised"}, 
         UNCHANGED <<service, position, trace, context, rows, report>>,
         threads' \in [revoke : ThreadStates, commit : ThreadStates],
         threads'.revoke # "idle", threads'.commit # "idle",
         threads'.revoke \in {"sent", "gone"} <=> threads.revoke \in {"sent", "gone"},
         threads'.commit \in {"sent", "gone"} <=> threads.commit \in {"sent", "gone"}
  PROVE  SuiteInv'
<1>1. pc \in Open /\ pc' \in Open /\ TypeOK /\ LogIsSound
  BY DEF SuiteInv, LogInv, Open
<1>2. /\ UNCHANGED <<credentials, events, RevokedAt, ReadsAt, CommitsAt, Case>>
      /\ \A n : RevokedBefore(n)' <=> RevokedBefore(n)
      /\ LogIsSound'
  BY <1>1, LogStays DEF Case
<1>3. /\ credentials' \in [Cases -> [status : {"absent"} \cup Statuses, sequence : Nat]]
      /\ events' \in Seq(Events) /\ trace' \in Seq(Events) /\ context' \in Contexts
      /\ \A c \in Cases : c # Case => credentials'[c] = credentials[c]
  BY <1>1, <1>2 DEF TypeOK
<1>4. Around'
  BY <1>1, <1>2, <1>3, CaseGoesOn
<1>5. TraceInv'
  BY <1>2 DEF SuiteInv, TraceInv, Early, Fresh, Appraised, Reread
<1>6. ThreadsInv'
  BY <1>2 DEF SuiteInv, ThreadsInv
<1>7. ReadsInv'
  BY <1>2 DEF SuiteInv, ReadsInv, Fresh, Appraised, Reread
<1>8. PlacedInv'
  BY DEF PlacedInv, Early, Fresh, Appraised, Reread
<1> QED BY <1>4, <1>5, <1>6, <1>7, <1>8 DEF SuiteInv, Around

LEMMA TimesOutKeeps ==
  ASSUME SuiteInv, NEW t \in DOMAIN threads, ThreadTimesOut(t)
  PROVE  SuiteInv'
<1>1. /\ t \in {"revoke", "commit"} /\ threads[t] \in {"sent", "answered"}
      /\ threads \in [revoke : ThreadStates, commit : ThreadStates]
      /\ threads["revoke"] = threads.revoke /\ threads["commit"] = threads.commit
  BY DEF SuiteInv, TypeOK, ThreadTimesOut
<1>2. /\ pc = "join" /\ UNCHANGED <<service, position, pc, trace, context, rows, report>>
      /\ threads' = [threads EXCEPT ![t] = IF @ = "sent" THEN "gone" ELSE "failed"]
  BY DEF ThreadTimesOut, runner
<1>3. threads.revoke # "idle" /\ threads.commit # "idle"
  BY <1>2 DEF SuiteInv, ThreadsInv
<1>4. /\ threads' \in [revoke : ThreadStates, commit : ThreadStates]
      /\ threads'[t] = (IF threads[t] = "sent" THEN "gone" ELSE "failed")
      /\ \A u \in {"revoke", "commit"} : u # t => threads'[u] = threads[u]
      /\ threads'["revoke"] = threads'.revoke /\ threads'["commit"] = threads'.commit
  BY <1>1, <1>2 DEF ThreadStates
<1>5. /\ threads'.revoke # "idle" /\ threads'.commit # "idle"
      /\ threads'.revoke \in {"sent", "gone"} <=> threads.revoke \in {"sent", "gone"}
      /\ threads'.commit \in {"sent", "gone"} <=> threads.commit \in {"sent", "gone"}
  BY <1>1, <1>3, <1>4
<1> QED BY <1>2, <1>4, <1>5, ThreadsGoOn

(* What the runner appends when both threads have ended well. *)
LEMMA AnswersOfThreads ==
  ASSUME SuiteInv, pc = "join", threads.revoke = "answered", threads.commit = "answered"
  PROVE  \E x \in RevokedAt, c \in CommitsAt :
           /\ x # c /\ {x, c} = {Len(trace) + 1, Len(trace) + 2}
           /\ Len(events) = Len(trace) + 2 /\ Len(trace) \in Nat
           /\ AnswerTo("revoke") = events[x] /\ AnswerTo("commit") = events[c]
<1>1. /\ RevokedAt # {} /\ CommitsAt # {} /\ Len(trace) <= Len(events)
      /\ RevokedAt \cup CommitsAt = (Len(trace) + 1)..Len(events)
      /\ \A x, y \in RevokedAt : x = y
      /\ \A c, d \in CommitsAt : c = d
  BY DEF SuiteInv, ThreadsInv, TraceInv, LogInv, LogIsSound, Open
<1>2. PICK x \in RevokedAt, c \in CommitsAt : TRUE
  BY <1>1
<1>3. RevokedAt = {x} /\ CommitsAt = {c}
  BY <1>1, <1>2
<1>4. /\ events \in Seq(Events) /\ Len(events) \in Nat /\ Len(trace) \in Nat
      /\ x \in 1..Len(events) /\ c \in 1..Len(events)
  BY PositionsTyped DEF SuiteInv, TypeOK
<1>5. /\ \A n \in DOMAIN events : events[n].operation \in {"revoke"} <=> n = x
      /\ \A n \in DOMAIN events :
           events[n].operation \in {"guarded_commit", "unguarded_commit"} <=> n = c
  BY <1>3 DEF RevokedAt, CommitsAt, Commits, PositionsIn, ThreadOf
<1>6. x # c
  BY <1>4, <1>5
<1>7. Len(events) = Len(trace) + 2
  <2>1. \A n \in (Len(trace) + 1)..Len(events) : n = x \/ n = c
    BY <1>1, <1>3
  <2>2. x \in (Len(trace) + 1)..Len(events) /\ c \in (Len(trace) + 1)..Len(events)
    BY <1>1, <1>3
  <2> QED BY <1>4, <1>6, <2>1, <2>2
<1>8. {x, c} = {Len(trace) + 1, Len(trace) + 2}
  <2>1. {x, c} = (Len(trace) + 1)..(Len(trace) + 2)
    BY <1>1, <1>3, <1>7
  <2> QED BY <1>4, <2>1
<1>9. AnswerTo("revoke") = events[x] /\ AnswerTo("commit") = events[c]
  <2>1. /\ \A e \in {events[n] : n \in DOMAIN events} :
             e.operation \in ThreadOf["revoke"] <=> e = events[x]
        /\ events[x] \in {events[n] : n \in DOMAIN events}
    BY <1>4, <1>5 DEF ThreadOf
  <2>2. /\ \A e \in {events[n] : n \in DOMAIN events} :
             e.operation \in ThreadOf["commit"] <=> e = events[c]
        /\ events[c] \in {events[n] : n \in DOMAIN events}
    BY <1>4, <1>5 DEF ThreadOf
  <2> QED BY <2>1, <2>2 DEF AnswerTo
<1> QED BY <1>2, <1>4, <1>6, <1>7, <1>8, <1>9

LEMMA JoinKeeps ==
  ASSUME SuiteInv, JoinThreads
  PROVE  SuiteInv'
<1>1. /\ pc = "join" /\ DOMAIN threads = {"revoke", "commit"}
      /\ threads["revoke"] = threads.revoke /\ threads["commit"] = threads.commit
      /\ threads \in [revoke : ThreadStates, commit : ThreadStates]
  BY DEF JoinThreads, SuiteInv, TypeOK
<1>2. CASE ~ \A t \in DOMAIN threads : threads[t] = "answered"
  <2>1. /\ pc' = "raised"
        /\ UNCHANGED <<service, position, trace, context, rows, threads, report>>
    BY <1>2 DEF JoinThreads, Goto
  <2>2. threads.revoke # "idle" /\ threads.commit # "idle"
    BY <1>1 DEF SuiteInv, ThreadsInv
  <2> QED BY <1>1, <2>1, <2>2, ThreadsGoOn
<1>3. CASE \A t \in DOMAIN threads : threads[t] = "answered"
  <2>1. threads.revoke = "answered" /\ threads.commit = "answered"
    BY <1>1, <1>3
  <2>2. /\ trace' = trace \o <<AnswerTo("revoke"), AnswerTo("commit")>>
        /\ pc' = "finalize" /\ threads' = Idle
        /\ UNCHANGED <<service, position, context, rows, report>>
    BY <1>3 DEF JoinThreads
  <2>3. PICK x \in RevokedAt, c \in CommitsAt :
           /\ x # c /\ {x, c} = {Len(trace) + 1, Len(trace) + 2}
           /\ Len(events) = Len(trace) + 2 /\ Len(trace) \in Nat
           /\ AnswerTo("revoke") = events[x] /\ AnswerTo("commit") = events[c]
    BY <1>1, <2>1, AnswersOfThreads
  <2>4. pc \in Open /\ pc' \in Open /\ TypeOK /\ LogIsSound
    BY <1>1, <2>2 DEF SuiteInv, LogInv, Open
  <2>5. /\ UNCHANGED <<credentials, events, RevokedAt, ReadsAt, CommitsAt, Case>>
        /\ \A n : RevokedBefore(n)' <=> RevokedBefore(n)
        /\ LogIsSound'
    BY <2>2, <2>4, LogStays DEF Case
  <2>6. /\ events \in Seq(Events) /\ trace \in Seq(Events)
        /\ x \in 1..Len(events) /\ c \in 1..Len(events)
        /\ events[x] \in Events /\ events[c] \in Events
    BY <2>4, PositionsTyped DEF TypeOK
  <2>7. trace' = trace \o <<events[x], events[c]>>
    BY <2>2, <2>3
  <2>8. /\ trace' \in Seq(Events) /\ Len(trace') = Len(trace) + 2
        /\ \A n \in 1..Len(trace) : trace'[n] = trace[n]
        /\ trace'[Len(trace) + 1] = events[x] /\ trace'[Len(trace) + 2] = events[c]
    BY <2>3, <2>6, <2>7
  <2>9. /\ credentials' \in [Cases -> [status : {"absent"} \cup Statuses, sequence : Nat]]
        /\ events' \in Seq(Events) /\ context' \in Contexts
        /\ threads' \in [revoke : ThreadStates, commit : ThreadStates]
        /\ \A k \in Cases : k # Case => credentials'[k] = credentials[k]
    BY <2>2, <2>4, <2>5 DEF TypeOK, Idle, ThreadStates
  <2>10. Around'
    BY <2>2, <2>4, <2>5, <2>8, <2>9, CaseGoesOn
  <2>11. TraceInv'
    <3>1. \A n \in 1..Len(trace) : trace[n] = events[n]
      BY <1>1 DEF SuiteInv, TraceInv
    <3>2. Len(events) - 1 = Len(trace) + 1 /\ Len(events) - 2 = Len(trace)
      BY <2>3
    <3>3. /\ {x, c} = {Len(events') - 1, Len(events')} /\ Len(trace') = Len(events')
          /\ trace'[Len(events') - 1] = events'[x] /\ trace'[Len(events')] = events'[c]
          /\ \A n \in 1..(Len(events') - 2) : trace'[n] = events'[n]
      BY <2>3, <2>5, <2>8, <3>1, <3>2
    <3>4. x \in RevokedAt' /\ c \in CommitsAt'
      BY <2>5
    <3> QED BY <2>2, <3>3, <3>4 DEF TraceInv, Early, Fresh, Appraised, Reread
  <2>12. ThreadsInv'
    BY <2>2 DEF ThreadsInv, Idle
  <2>13. ReadsInv'
    BY <1>1, <2>2, <2>5 DEF SuiteInv, ReadsInv, Fresh, Appraised, Reread
  <2>14. PlacedInv'
    BY <1>1, <2>2, <2>5 DEF SuiteInv, ThreadsInv, PlacedInv, Early, Fresh, Appraised, Reread
  <2> QED BY <2>10, <2>11, <2>12, <2>13, <2>14 DEF SuiteInv, Around
<1> QED BY <1>2, <1>3

LEMMA WaitingTyped ==
  ASSUME SuiteInv, Waiting # {}
  PROVE  /\ pc \in Early \cup {"committed"}
         /\ Waiting \subseteq Operations
         /\ \A operation \in Waiting : operation \in {"guarded_commit", "unguarded_commit"} =>
              CommitsAt = {} /\ operation = CommitOf(Case.profile)
<1>1. /\ pc \in {"appraise", "refresh", "decide", "commit"} \cup DOMAIN PlacesAt
      /\ pc # "commit" => Waiting \subseteq {"status_read", "revoke"}
      /\ pc = "commit" => Waiting = {CommitOf(Case.profile)}
  BY DEF Waiting, PlacesAt
<1>2. pc = "commit" => CommitsAt = {}
  BY DEF SuiteInv, PlacedInv, Early, Reread
<1> QED BY <1>1, <1>2 DEF Early, Fresh, Appraised, Reread, Operations, CommitOf, PlacesAt

LEMMA CallTimesOutKeeps ==
  ASSUME SuiteInv, CallTimesOut
  PROVE  SuiteInv'
<1>1. /\ Waiting # {} /\ pc' = "raised"
      /\ UNCHANGED <<position, trace, context, rows, threads, report>>
  BY DEF CallTimesOut
<1>2. pc \in Early \cup {"committed"} /\ pc' \in Open \ {"join"}
  BY <1>1, WaitingTyped DEF Open
<1>3. Around' /\ ThreadsInv'
  <2>1. CASE \E operation \in Waiting : Serve(operation)
    <3>1. PICK operation \in Waiting : Serve(operation)
      BY <2>1
    <3>2. /\ operation \in Operations
          /\ operation \in {"guarded_commit", "unguarded_commit"} =>
               CommitsAt = {} /\ operation = CommitOf(Case.profile)
      BY <1>1, <3>1, WaitingTyped
    <3>3. trace' \in {trace, Append(trace, EventOf(operation))}
      BY <1>1
    <3> QED BY <1>1, <1>2, <3>1, <3>2, <3>3, Served
  <2>2. CASE UNCHANGED service
    <3>1. context' \in Contexts
      BY <1>1 DEF SuiteInv, TypeOK
    <3> QED BY <1>1, <1>2, <2>2, <3>1, Moved
  <2> QED BY <2>1, <2>2 DEF CallTimesOut
<1>4. TraceInv' /\ ReadsInv' /\ PlacedInv'
  BY <1>1 DEF TraceInv, ReadsInv, PlacedInv, Early, Fresh, Appraised, Reread
<1> QED BY <1>3, <1>4 DEF SuiteInv, Around

LEMMA StutterKeeps ==
  ASSUME SuiteInv, UNCHANGED vars
  PROVE  SuiteInv'
<1>1. UNCHANGED <<credentials, events, position, pc, trace, context, threads, rows, report>>
  BY DEF vars, service, runner
<1>2. /\ UNCHANGED <<RevokedAt, ReadsAt, CommitsAt, Case>>
      /\ \A n : RevokedBefore(n)' <=> RevokedBefore(n)
  BY <1>1 DEF RevokedAt, ReadsAt, CommitsAt, RevokedBefore, Case
<1>3. TypeOK' /\ LogInv' /\ UnstartedInv'
  BY <1>1, <1>2 DEF SuiteInv, TypeOK, LogInv, LogIsSound, UnstartedInv
<1>4. TraceInv' /\ ThreadsInv' /\ ReadsInv' /\ PlacedInv'
  BY <1>1, <1>2 DEF SuiteInv, TraceInv, ThreadsInv, ReadsInv, PlacedInv
<1>5. RowsInv' /\ ReportInv'
  BY <1>1 DEF SuiteInv, RowsInv, ReportInv, SomeHit, RowsOf
<1> QED BY <1>3, <1>4, <1>5 DEF SuiteInv

-----------------------------------------------------------------------------
(* Finalize puts the answers back into the order of the log.               *)

(* In a reordering that undoes itself, the rank of an answer is its index. *)
LEMMA RankOfIndex ==
  ASSUME NEW L \in Nat, NEW pi \in [1..L -> 1..L], \A n \in 1..L : pi[pi[n]] = n,
         NEW n \in 1..L
  PROVE  Cardinality({m \in 1..L : pi[m] < pi[n]}) = pi[n] - 1
<1> DEFINE q == pi[n]
           S == 1..(q - 1)
           T == {m \in 1..L : pi[m] < q}
           f == [k \in S |-> pi[k]]
<1>1. q \in 1..L /\ S \subseteq 1..L
  OBVIOUS
<1>2. f \in [S -> T]
  BY <1>1
<1>3. \A a, b \in S : f[a] = f[b] => a = b
  BY <1>1
<1>4. \A m \in T : \E k \in S : f[k] = m
  <2> TAKE m \in T
  <2>1. pi[m] \in S /\ f[pi[m]] = m
    BY <1>1
  <2> QED BY <2>1
<1>5. f \in Bijection(S, T)
  BY <1>2, <1>3, <1>4 DEF Bijection, Injection, Surjection, IsInjective
<1>6. IsFiniteSet(S) /\ Cardinality(S) = q - 1
  <2>1. \A b \in Int : /\ IsFiniteSet(1..b)
                        /\ Cardinality(1..b) = IF 1 > b THEN 0 ELSE b - 1 + 1
    BY FS_Interval
  <2>2. q \in Nat /\ q >= 1 /\ q - 1 \in Int
    BY <1>1
  <2> HIDE DEF q
  <2>3. IsFiniteSet(S) /\ Cardinality(S) = IF 1 > q - 1 THEN 0 ELSE q - 1 - 1 + 1
    BY <2>1, <2>2
  <2> QED BY <2>2, <2>3
<1> HIDE DEF S, T, f
<1>7. Cardinality(T) = Cardinality(S)
  BY <1>5, <1>6, FS_Bijection DEF ExistsBijection
<1> QED BY <1>6, <1>7 DEF T

Reorders(pi) ==
  /\ pi \in [1..Len(events) -> 1..Len(events)] /\ Len(trace) = Len(events)
  /\ \A n \in 1..Len(events) : pi[pi[n]] = n /\ trace[n] = events[pi[n]]

LEMMA TraceReorders ==
  ASSUME SuiteInv, pc = "finalize"
  PROVE  \E pi : Reorders(pi)
<1> DEFINE L == Len(events)
<1>1. L \in Nat /\ RevokedAt \subseteq 1..L /\ CommitsAt \subseteq 1..L
  BY PositionsTyped DEF SuiteInv
<1>2. CASE trace = events
  <2>1. Reorders([n \in 1..L |-> n])
    BY <1>2 DEF Reorders
  <2> QED BY <2>1
<1>3. CASE trace # events
  <2>1. PICK x \in RevokedAt, c \in CommitsAt :
            /\ {x, c} = {L - 1, L} /\ Len(trace) = L
            /\ trace[L - 1] = events[x] /\ trace[L] = events[c]
            /\ \A n \in 1..(L - 2) : trace[n] = events[n]
    BY <1>3 DEF SuiteInv, TraceInv
  <2> DEFINE pi == [n \in 1..L |-> IF n = L - 1 THEN x ELSE IF n = L THEN c ELSE n]
  <2>2. x \in 1..L /\ c \in 1..L /\ L - 1 \in 1..L
    BY <1>1, <2>1
  <2>3. (x = L - 1 /\ c = L) \/ (x = L /\ c = L - 1)
    BY <1>1, <2>1, <2>2
  <2>4. pi \in [1..L -> 1..L]
    BY <2>2
  <2>5. ASSUME NEW n \in 1..L PROVE pi[pi[n]] = n /\ trace[n] = events[pi[n]]
    <3>1. n = L - 1 \/ n = L \/ n \in 1..(L - 2)
      BY <1>1
    <3>2. CASE n = L - 1
      BY <1>1, <2>1, <2>2, <2>3, <3>2
    <3>3. CASE n = L
      BY <1>1, <2>1, <2>2, <2>3, <3>3
    <3>4. CASE n \in 1..(L - 2)
      BY <1>1, <2>1, <2>2, <3>4
    <3> QED BY <3>1, <3>2, <3>3, <3>4
  <2>6. Reorders(pi)
    BY <2>1, <2>4, <2>5 DEF Reorders
  <2> QED BY <2>6
<1> QED BY <1>2, <1>3

LEMMA EventOrderIsTheLog ==
  ASSUME SuiteInv, pc = "finalize", NEW pi, Reorders(pi)
  PROVE  EventOrder = events
<1> DEFINE L == Len(events)
<1>1. /\ L \in Nat /\ pi \in [1..L -> 1..L] /\ Len(trace) = L
      /\ \A n \in 1..L : pi[pi[n]] = n /\ trace[n] = events[pi[n]]
  BY PositionsTyped DEF SuiteInv, Reorders
<1>2. DOMAIN trace = 1..L /\ DOMAIN events = 1..L
  BY <1>1 DEF SuiteInv, TypeOK
<1>3. \A n \in 1..L : events[n].linearization_index = n
  BY DEF SuiteInv, LogInv, LogIsSound, Open
<1>4. \A n \in 1..L : trace[n].linearization_index = pi[n]
  BY <1>1, <1>3
<1>5. ASSUME NEW n \in 1..L
      PROVE  Cardinality(Before(n)) = pi[n] - 1
  <2>1. Before(n) = {m \in 1..L : pi[m] < pi[n]}
    BY <1>2, <1>4 DEF Before
  <2> HIDE DEF L
  <2> QED BY <1>1, <2>1, RankOfIndex, ZenonT(30)
<1>6. ASSUME NEW k \in 1..L
      PROVE  trace[CHOOSE n \in DOMAIN trace : Cardinality(Before(n)) = k - 1] = events[k]
  <2>1. \A n \in DOMAIN trace : Cardinality(Before(n)) = k - 1 <=> n = pi[k]
    <3> SUFFICES ASSUME NEW n \in 1..L
                 PROVE  Cardinality(Before(n)) = k - 1 <=> n = pi[k]
      BY <1>2
    <3>1. Cardinality(Before(n)) = pi[n] - 1 /\ pi[n] \in 1..L
      BY <1>1, <1>5
    <3>2. pi[n] = k <=> n = pi[k]
      BY <1>1
    <3> QED BY <1>1, <3>1, <3>2
  <2>2. pi[k] \in DOMAIN trace
    BY <1>1, <1>2
  <2>3. (CHOOSE n \in DOMAIN trace : Cardinality(Before(n)) = k - 1) = pi[k]
    BY <2>1, <2>2
  <2> QED BY <1>1, <2>3
<1>7. EventOrder = [k \in 1..L |-> events[k]]
  BY <1>2, <1>6 DEF EventOrder
<1> QED BY <1>2, <1>7 DEF SuiteInv, TypeOK

LEMMA EarliestOfOne == \A c \in Nat : Earliest({c}) = c
BY DEF Earliest

(* The commit that Finalize finds is the one of the log.                   *)
LEMMA CommitFound ==
  ASSUME SuiteInv, pc = "finalize"
  PROVE  /\ EventOrder = events
         /\ CommitsAt = {} => /\ Commits(trace) = {} /\ trace = events
                              /\ Len(events) \in 1..Len(events)
         /\ CommitsAt # {} => \E c \in CommitsAt :
              /\ CommitsAt = {c} /\ Commits(trace) # {}
              /\ CommitIn(trace) = events[c] /\ CommitIn(events) = events[c]
<1>1. PICK pi : Reorders(pi)
  BY TraceReorders
<1>2. EventOrder = events
  BY <1>1, EventOrderIsTheLog
<1> DEFINE L == Len(events)
<1>3. /\ L \in Nat /\ pi \in [1..L -> 1..L] /\ Len(trace) = L
      /\ \A n \in 1..L : pi[pi[n]] = n /\ trace[n] = events[pi[n]]
      /\ CommitsAt \subseteq 1..L /\ ReadsAt \subseteq 1..L
  BY <1>1, PositionsTyped DEF SuiteInv, Reorders
<1>4. DOMAIN trace = 1..L /\ DOMAIN events = 1..L
  BY <1>3 DEF SuiteInv, TypeOK
<1>5. \A c, d \in CommitsAt : c = d
  BY DEF SuiteInv, LogInv, LogIsSound, Open
<1>6. CASE CommitsAt = {}
  <2>1. trace = events /\ L \in ReadsAt
    BY <1>6 DEF SuiteInv, ReadsInv
  <2>2. Commits(trace) = {}
    BY <1>6, <2>1 DEF CommitsAt
  <2> QED BY <1>2, <1>3, <1>6, <2>1, <2>2
<1>7. CASE CommitsAt # {}
  <2>1. PICK c \in CommitsAt : CommitsAt = {c}
    BY <1>5, <1>7
  <2>2. c \in 1..L /\ \A n \in 1..L : n \in CommitsAt <=> n = c
    BY <1>3, <2>1
  <2>3. \A n \in 1..L : n \in Commits(trace) <=> pi[n] \in CommitsAt
    BY <1>3, <1>4 DEF Commits, CommitsAt, PositionsIn
  <2>4. Commits(trace) \subseteq 1..L
    BY <1>4 DEF Commits, PositionsIn
  <2>5. pi[c] \in 1..L /\ \A n \in 1..L : pi[n] \in CommitsAt <=> n = pi[c]
    BY <1>3, <2>2
  <2>6. Commits(trace) = {pi[c]}
    BY <2>3, <2>4, <2>5
  <2>7. Earliest(Commits(trace)) = pi[c] /\ Earliest(Commits(events)) = c
    BY <2>1, <2>2, <2>5, <2>6, EarliestOfOne DEF CommitsAt
  <2>8. CommitIn(trace) = events[c] /\ CommitIn(events) = events[c]
    BY <1>3, <2>2, <2>5, <2>7 DEF CommitIn
  <2> QED BY <1>2, <1>7, <2>1, <2>6, <2>8
<1> QED BY <1>6, <1>7

-----------------------------------------------------------------------------
(* The row of a finished case.                                             *)

LEMMA NewRow ==
  ASSUME SuiteInv, Finalize
  PROVE  \E row \in Rows :
           /\ rows' = Append(rows, row) /\ RowInv(row)
           /\ row.case = Case /\ row.event_order = events
<1>1. pc = "finalize" /\ pc \notin Over /\ pc \in Open
  BY DEF Finalize, Over, Open
<1> DEFINE asked == Commits(trace) # {}
           accepted == asked /\ CommitIn(trace).effect_committed
           oracle == (IF asked THEN CommitIn(trace) ELSE trace[Len(trace)]).status = "active"
           row == [case |-> Case, accepted |-> accepted, oracle |-> oracle,
                   decision_context |-> context, event_order |-> EventOrder]
<1>2. rows' = Append(rows, row)
  BY DEF Finalize
<1>3. EventOrder = events /\ TypeOK /\ LogIsSound
  BY <1>1, CommitFound DEF SuiteInv, LogInv
<1>4. /\ CommitsAt = {} => /\ ~ asked /\ trace = events
                           /\ Len(events) \in 1..Len(events)
      /\ CommitsAt # {} => \E c \in CommitsAt :
           /\ CommitsAt = {c} /\ asked
           /\ CommitIn(trace) = events[c] /\ CommitIn(events) = events[c]
  BY <1>1, CommitFound
<1>5. /\ Len(events) \in Nat /\ RevokedAt \subseteq 1..Len(events)
      /\ ReadsAt \subseteq 1..Len(events) /\ CommitsAt \subseteq 1..Len(events)
      /\ \A n \in 1..Len(events) : events[n] \in Events
  BY <1>3, PositionsTyped DEF TypeOK
<1>6. /\ accepted \in BOOLEAN /\ oracle \in BOOLEAN
  <2>1. asked => CommitIn(trace).effect_committed \in BOOLEAN
    BY <1>4, <1>5 DEF Events
  <2> QED BY <2>1
<1>7. Case \in Cases /\ context \in Contexts /\ events \in Seq(Events)
  BY <1>1, <1>3, CaseTyped DEF TypeOK
<1> HIDE DEF accepted, oracle, asked
<1>8. /\ row \in Rows /\ row.case = Case /\ row.event_order = events
      /\ row.accepted = accepted /\ row.oracle = oracle /\ row.decision_context = context
  BY <1>3, <1>6, <1>7 DEF Rows
<1> HIDE DEF row
<1>9. /\ PositionsIn(row.event_order, {"status_read"}) = ReadsAt
      /\ PositionsIn(row.event_order, {"revoke"}) = RevokedAt
      /\ Commits(row.event_order) = CommitsAt
  BY <1>8 DEF ReadsAt, RevokedAt, CommitsAt
<1>10. \A n \in 1..Len(events) :
         /\ events[n].status = "revoked" <=> RevokedBefore(n) \/ n \in RevokedAt
         /\ events[n].status \in {"active", "revoked"}
  BY <1>3, <1>5 DEF LogIsSound, Events, Statuses
<1> DEFINE guarded == Case.profile = "atomic_guard"
<1>11. CASE CommitsAt = {}
  <2>1. accepted = FALSE
    BY <1>4, <1>11 DEF accepted, asked
  <2>2. Len(events) \in ReadsAt /\ RevokedBefore(Len(events))
    BY <1>1, <1>11 DEF SuiteInv, ReadsInv
  <2>3. oracle = FALSE /\ ~ (events[Len(events)].status = "active")
    BY <1>4, <1>5, <1>10, <1>11, <2>2 DEF oracle, asked
  <2>4. ~ FalseAllow(row) /\ ~ FalseDeny(row)
    BY <1>8, <2>1, <2>3 DEF FalseAllow, FalseDeny
  <2>5. RecomputedLabel(row.event_order) = FALSE
    BY <1>8, <1>9, <1>11, <2>3 DEF RecomputedLabel
  <2>6. RowIsExplained(row)
    BY <1>8, <1>9, <1>11, <2>1, <2>3, <2>4, <2>5 DEF RowIsExplained
  <2>7. /\ Case.placement # "after_final_read"
        /\ Case.placement = "after_cache_expiry" =>
             /\ Case.profile # "single_read"
             /\ Case.profile = "ttl_cache" => context.cache_refresh
    BY <1>1, <1>11 DEF SuiteInv, PlacedInv
  <2>8. RowInv(row)
    BY <1>8, <1>9, <1>11, <2>1, <2>4, <2>6, <2>7 DEF RowInv
  <2> QED BY <1>2, <1>8, <2>8
<1>12. CASE CommitsAt # {}
  <2>1. PICK c \in CommitsAt :
           /\ CommitsAt = {c} /\ asked
           /\ CommitIn(trace) = events[c] /\ CommitIn(events) = events[c]
    BY <1>4, <1>12
  <2>2. c \in 1..Len(events) /\ c \notin RevokedAt /\ ReadsAt \cap RevokedAt = {}
    BY <1>5 DEF CommitsAt, Commits, ThreadOf, RevokedAt, ReadsAt, PositionsIn
  <2>3. accepted <=> (guarded => ~ RevokedBefore(c))
    BY <1>3, <2>1 DEF accepted, LogIsSound
  <2>4. oracle <=> ~ RevokedBefore(c)
    BY <1>10, <2>1, <2>2 DEF oracle
  <2>5. \A r \in ReadsAt : ~ RevokedBefore(r)
    BY <1>1, <1>12 DEF SuiteInv, ReadsInv
  <2>6. RevokedBefore(c) <=> \E x \in RevokedAt : x < c /\ \A r \in ReadsAt : r < x
    <3>1. \A x \in RevokedAt, r \in ReadsAt : r < x
      BY <1>5, <2>2, <2>5 DEF RevokedBefore
    <3> QED BY <3>1 DEF RevokedBefore
  <2>7. ~ RevokedBefore(c) <=> \A x \in RevokedAt : c < x
    BY <1>5, <2>2 DEF RevokedBefore
  <2>8. FalseAllow(row) <=> ~ guarded /\ RevokedBefore(c)
    BY <1>8, <2>3, <2>4 DEF FalseAllow
  <2>9. ~ FalseDeny(row)
    BY <1>8, <2>3, <2>4 DEF FalseDeny
  <2>10. RecomputedLabel(row.event_order) = (events[c].status = "active")
    BY <1>8, <1>9, <1>12, <2>1 DEF RecomputedLabel
  <2>11. row.oracle = RecomputedLabel(row.event_order)
    BY <1>6, <1>8, <1>10, <2>2, <2>4, <2>10
  <2>12. RowIsExplained(row)
    <3>1. FalseAllow(row) <=>
           /\ ~ guarded
           /\ \E x \in RevokedAt, d \in CommitsAt : x < d /\ \A r \in ReadsAt : r < x
      BY <2>1, <2>6, <2>8
    <3>2. guarded => (row.accepted <=> \E d \in CommitsAt : \A x \in RevokedAt : d < x)
      BY <1>8, <2>1, <2>3, <2>7
    <3> QED BY <1>8, <1>9, <2>9, <2>11, <3>1, <3>2 DEF RowIsExplained
  <2>13. /\ Case.placement = "after_final_read" => RevokedBefore(c)
         /\ Case.placement = "after_cache_expiry" =>
              /\ Case.profile = "single_read" => RevokedBefore(c)
              /\ Case.profile # "ttl_cache"
    BY <1>1, <1>12 DEF SuiteInv, PlacedInv
  <2>14. row.accepted <=> /\ Commits(row.event_order) # {}
                          /\ CommitIn(row.event_order).effect_committed
    BY <1>8, <1>9, <1>12, <2>1 DEF accepted
  <2>15. RowInv(row)
    BY <1>8, <2>8, <2>12, <2>13, <2>14 DEF RowInv
  <2> QED BY <1>2, <1>8, <2>15
<1> QED BY <1>11, <1>12

LEMMA FinalizeKeeps ==
  ASSUME SuiteInv, Finalize
  PROVE  SuiteInv'
<1>1. PICK row \in Rows : rows' = Append(rows, row) /\ RowInv(row) /\ row.case = Case
  BY NewRow
<1>2. /\ pc = "finalize" /\ pc \notin Over /\ position' = position + 1
      /\ pc' = IF position = Len(Suite) THEN "report" ELSE "initialize"
      /\ UNCHANGED <<service, trace, context, threads, report>>
  BY DEF Finalize, Over
<1>3. /\ position \in 1..Len(Suite) /\ Len(rows) = position - 1 /\ rows \in Seq(Rows)
      /\ Len(Suite) \in Nat /\ UNCHANGED <<credentials, events>>
  BY <1>2, CaseTyped, SuiteOfProfiles, SuiteAssumption DEF SuiteInv, RowsInv, TypeOK, service, Length
<1>4. /\ rows' \in Seq(Rows) /\ Len(rows') = position
      /\ \A n \in 1..Len(rows) : rows'[n] = rows[n]
      /\ rows'[position] = row
  BY <1>1, <1>3
<1>5. TypeOK'
  BY <1>2, <1>3, <1>4 DEF SuiteInv, TypeOK, Over, Open
<1>6. LogInv' /\ TraceInv' /\ PlacedInv' /\ ReportInv'
  BY <1>2 DEF LogInv, TraceInv, PlacedInv, ReportInv, Open, Early, Fresh, Appraised, Reread
<1>7. UnstartedInv'
  <2> SUFFICES ASSUME NEW k \in 1..Len(Suite), k >= position'
               PROVE  credentials'[Suite[k]].status = "absent"
    BY <1>2, <1>3 DEF UnstartedInv
  <2>1. k > position
    BY <1>2, <1>3
  <2> QED BY <1>3, <2>1 DEF SuiteInv, UnstartedInv
<1>8. ThreadsInv'
  BY <1>2, ThreadsIdle
<1>9. ReadsInv'
  BY <1>2 DEF ReadsInv, Fresh, Appraised, Reread
<1>10. RowsInv'
  <2> SUFFICES ASSUME NEW n \in 1..Len(rows')
               PROVE  rows'[n].case = Suite[n] /\ RowInv(rows'[n])
    BY <1>2, <1>3, <1>4 DEF RowsInv
  <2>1. CASE n = position
    BY <2>1, <1>1, <1>4 DEF Case
  <2>2. CASE n # position
    <3>1. n \in 1..Len(rows)
      BY <2>2, <1>3, <1>4
    <3> QED BY <3>1, <1>4 DEF SuiteInv, RowsInv
  <2> QED BY <2>1, <2>2
<1> QED BY <1>5, <1>6, <1>7, <1>8, <1>9, <1>10 DEF SuiteInv

-----------------------------------------------------------------------------
(* The verdict of the suite.                                               *)

(* A weak profile has shown its false allow where it must, and the cache   *)
(* its refresh; what is left of the verdict is whether the cache was hit.  *)
LEMMA VerdictIsSomeHit ==
  ASSUME SuiteInv, pc \in Over
  PROVE  (AtomicGuardHasNoErrors /\ IncompleteProfilesExposeFalseAllow /\ TtlIsDistinct)
           <=> SomeHit
<1>1. /\ Len(rows) = Len(Suite) /\ rows \in Seq(Rows) /\ Len(Suite) \in Nat
      /\ \A n \in 1..Len(rows) : rows[n].case = Suite[n] /\ RowInv(rows[n])
  BY SuiteOfProfiles, SuiteAssumption DEF SuiteInv, TypeOK, RowsInv, Length
<1>2. ASSUME NEW profile, NEW row \in RowsOf(profile)
      PROVE  row.case.profile = profile /\ RowInv(row)
  BY <1>1 DEF RowsOf
<1>3. ASSUME NEW p \in 1..4, NEW n \in 1..5
      PROVE  \E row \in RowsOf(Profiles[p]) : row.case.placement = Deterministic[n]
  <2>1. PICK k \in 1..Len(Suite) :
          Suite[k].profile = Profiles[p] /\ Suite[k].placement = Deterministic[n]
    BY SuiteHas
  <2>2. k \in DOMAIN rows /\ rows[k].case = Suite[k]
    BY <1>1
  <2> QED BY <2>1, <2>2 DEF RowsOf
<1>4. AtomicGuardHasNoErrors
  <2> SUFFICES ASSUME NEW row \in RowsOf("atomic_guard")
               PROVE  ~ FalseAllow(row) /\ ~ FalseDeny(row)
    BY DEF AtomicGuardHasNoErrors
  <2>1. row.case.profile = "atomic_guard" /\ RowIsExplained(row)
    BY <1>2 DEF RowInv
  <2> QED BY <2>1 DEF RowIsExplained
<1>5. ASSUME NEW p \in 2..4
      PROVE  \E row \in RowsOf(Profiles[p]) : FalseAllow(row)
  <2>1. PICK row \in RowsOf(Profiles[p]) : row.case.placement = Deterministic[4]
    <3>1. p \in 1..4 /\ 4 \in 1..5
      OBVIOUS
    <3> QED BY <1>3, <3>1
  <2>2. row.case.profile = Profiles[p] /\ RowInv(row)
    BY <1>2
  <2>3. Profiles[p] # "atomic_guard"
    <3>1. p = 2 \/ p = 3 \/ p = 4
      OBVIOUS
    <3> QED BY <3>1, ProfileNames
  <2> QED BY <2>1, <2>2, <2>3, DeterministicCases DEF RowInv
<1>6. IncompleteProfilesExposeFalseAllow
  <2>1. 2 \in 2..4 /\ 3 \in 2..4 /\ 4 \in 2..4
    OBVIOUS
  <2> QED BY <1>5, <2>1, ProfileNames DEF IncompleteProfilesExposeFalseAllow
<1>7. ASSUME NEW p \in 1..4
      PROVE  LET row == RowAt(Profiles[p], "after_cache_expiry")
             IN  /\ row \in RowsOf(Profiles[p])
                 /\ row.case.placement = "after_cache_expiry"
  <2>1. 3 \in 1..5
    OBVIOUS
  <2>2. \E row \in RowsOf(Profiles[p]) : row.case.placement = "after_cache_expiry"
    BY <1>3, <2>1, DeterministicCases
  <2> QED BY <2>2 DEF RowAt
<1>8. /\ RowAt("ttl_cache", "after_cache_expiry").decision_context.cache_refresh
      /\ ~ FalseAllow(RowAt("ttl_cache", "after_cache_expiry"))
  <2> DEFINE row == RowAt("ttl_cache", "after_cache_expiry")
  <2>1. 4 \in 1..4
    OBVIOUS
  <2>2. row \in RowsOf("ttl_cache") /\ row.case.placement = "after_cache_expiry"
    BY <1>7, <2>1, ProfileNames
  <2>3. row.case.profile = "ttl_cache" /\ RowInv(row)
    BY <1>2, <2>2
  <2> HIDE DEF row
  <2>4. row.decision_context.cache_refresh /\ ~ FalseAllow(row)
    BY <2>2, <2>3 DEF RowInv
  <2> QED BY <2>4 DEF row
<1>9. FalseAllow(RowAt("single_read", "after_cache_expiry"))
  <2> DEFINE row == RowAt("single_read", "after_cache_expiry")
  <2>1. 3 \in 1..4
    OBVIOUS
  <2>2. row \in RowsOf("single_read") /\ row.case.placement = "after_cache_expiry"
    BY <1>7, <2>1, ProfileNames
  <2>3. row.case.profile = "single_read" /\ RowInv(row)
    BY <1>2, <2>2
  <2> HIDE DEF row
  <2>4. FalseAllow(row)
    BY <2>2, <2>3 DEF RowInv
  <2> QED BY <2>4 DEF row
<1> QED BY <1>4, <1>6, <1>8, <1>9 DEF TtlIsDistinct

LEMMA ReportKeeps ==
  ASSUME SuiteInv, Report
  PROVE  SuiteInv'
<1>1. /\ pc = "report" /\ pc' = "done"
      /\ UNCHANGED <<credentials, events, position, trace, context, rows, threads>>
  BY DEF Report, service
<1>2. report' = "passed" <=> SomeHit
  <2>1. pc \in Over
    BY <1>1 DEF Over
  <2>2. report' = "passed" <=>
          (AtomicGuardHasNoErrors /\ IncompleteProfilesExposeFalseAllow /\ TtlIsDistinct)
    BY DEF Report
  <2> QED BY <2>1, <2>2, VerdictIsSomeHit
<1>3. SomeHit' <=> SomeHit
  BY <1>1 DEF SomeHit, RowsOf
<1>4. ReportInv'
  BY <1>2, <1>3 DEF ReportInv
<1>5. TypeOK'
  BY <1>1 DEF SuiteInv, TypeOK, Over, Open, Early, Fresh, Appraised, Reread
<1>6. LogInv' /\ TraceInv' /\ ReadsInv' /\ PlacedInv'
  BY <1>1 DEF LogInv, TraceInv, ReadsInv, PlacedInv, Open, Early, Fresh, Appraised, Reread
<1>7. UnstartedInv' /\ RowsInv'
  BY <1>1 DEF SuiteInv, UnstartedInv, RowsInv
<1>8. ThreadsInv'
  <2>1. threads.revoke = "idle" /\ threads.commit = "idle"
    BY <1>1 DEF SuiteInv, ThreadsInv
  <2> QED BY <1>1, <2>1 DEF ThreadsInv
<1> QED BY <1>4, <1>5, <1>6, <1>7, <1>8 DEF SuiteInv

-----------------------------------------------------------------------------
(* The invariant, and what it says of the rows and of the verdict.         *)

(* Every reachable state of the lab, whatever the number of races, the     *)
(* ages of the cache and the calls that time out, is as described above:   *)
(* the service's log is sound (RevocationState, run_live_races.py), the    *)
(* answers and the threads agree with it, and every row is explained.      *)
THEOREM SuiteInvariant == Spec => []SuiteInv
<1>1. SuiteInv /\ [Next]_vars => SuiteInv'
  <2> SUFFICES ASSUME SuiteInv, [Next]_vars PROVE SuiteInv'
    OBVIOUS
  <2>1. CASE InitializeCredential \/ Place \/ Appraise \/ DoubleRead \/ NoSecondRead
    BY <2>1, InitializeKeeps, PlaceKeeps, AppraiseKeeps, DoubleReadKeeps, NoSecondReadKeeps
  <2>2. CASE ReadCache \/ Refresh \/ Commit \/ ReleaseThreads
    BY <2>2, ReadCacheKeeps, DoubleReadKeeps, CommitKeeps, ReleaseKeeps
  <2>3. CASE \E t \in DOMAIN threads : HandleThread(t) \/ ThreadTimesOut(t)
    BY <2>3, HandleKeeps, TimesOutKeeps
  <2>4. CASE JoinThreads \/ CallTimesOut \/ Finalize \/ Report
    BY <2>4, JoinKeeps, CallTimesOutKeeps, FinalizeKeeps, ReportKeeps
  <2>5. CASE UNCHANGED vars
    BY <2>5, StutterKeeps
  <2> QED BY <2>1, <2>2, <2>3, <2>4, <2>5 DEF Next
<1> QED BY InvInit, <1>1, PTL DEF Spec

(* A set of numbers that is not empty has a least one: the set of its      *)
(* lower bounds is an interval, since it is finite.                        *)
LEMMA LeastExists ==
  ASSUME NEW S \in SUBSET Nat, S # {}
  PROVE  \E m \in S : \A n \in S : m <= n
<1> DEFINE T == {t \in Nat : \A n \in S : t <= n}
           k == Cardinality(T)
<1>1. PICK s \in S : TRUE
  OBVIOUS
<1>2. IsFiniteSet(T) /\ k \in Nat
  BY <1>1, FS_BoundedSetOfNaturals, FS_CardinalityType
<1>3. ASSUME NEW t \in T PROVE t < k
  <2>1. 0..t \subseteq T
    OBVIOUS
  <2>2. Cardinality(0..t) = t + 1
    BY FS_Interval
  <2>3. Cardinality(0..t) <= k
    BY <1>2, <2>1, FS_Subset
  <2> QED
    BY <1>2, <2>2, <2>3
<1>4. 0 \in T /\ k > 0
  <2>1. 0 \in T
    OBVIOUS
  <2> QED
    BY <1>2, <1>3, <2>1
<1> HIDE DEF T, k
<1>5. T = 0..k-1
  <2>1. T \subseteq 0..k-1
    BY <1>2, <1>3 DEF T
  <2>2. IsFiniteSet(0..k-1) /\ Cardinality(0..k-1) = k
    <3>1. 0 \in Int /\ k - 1 \in Int /\ ~ (0 > k - 1) /\ (k - 1) - 0 + 1 = k
      BY <1>2, <1>4
    <3> QED
      BY <3>1, FS_Interval
  <2> QED
    BY <1>2, <2>1, <2>2, FS_Subset DEF k
<1>6. k - 1 \in T /\ k \notin T
  BY <1>2, <1>4, <1>5
<1>7. PICK n \in S : n < k
  BY <1>2, <1>6 DEF T
<1>8. \A m \in S : k - 1 <= m
  BY <1>6 DEF T
<1>9. n = k - 1
  BY <1>2, <1>7, <1>8
<1> QED
  BY <1>8, <1>9

LEMMA GreatestExists ==
  ASSUME NEW L \in Nat, NEW S \in SUBSET (1..L), S # {}
  PROVE  \E m \in S : \A n \in S : n <= m
<1> DEFINE T == {L - n : n \in S}
<1>1. T \in SUBSET Nat /\ T # {}
  <2>1. \A n \in S : L - n \in Nat
    OBVIOUS
  <2> QED BY <2>1
<1>2. PICK t \in T : \A u \in T : t <= u
  BY <1>1, LeastExists
<1>3. PICK m \in S : t = L - m
  BY <1>2
<1>4. \A n \in S : L - m <= L - n
  BY <1>2, <1>3
<1>5. \A n \in S : n <= m
  BY <1>4
<1> QED BY <1>5

LEMMA CommitIsAsserted ==
  ASSUME SuiteInv, pc = "commit"
  PROVE  AssertionHolds
<1>1. /\ trace = events /\ ReadsAt # {} /\ \A r \in ReadsAt : ~ RevokedBefore(r)
      /\ LogIsSound /\ TypeOK
  BY DEF SuiteInv, TraceInv, ReadsInv, LogInv, Open, Early, Reread
<1>2. Reads = ReadsAt
  BY <1>1 DEF Reads, ReadsAt
<1>3. ReadsAt \in SUBSET (1..Len(events)) /\ Len(events) \in Nat /\ ReadsAt \in SUBSET Nat
  BY <1>1, PositionsTyped
<1>4. Earliest(ReadsAt) \in ReadsAt
  <2>1. \E m \in ReadsAt : \A n \in ReadsAt : m <= n
    BY <1>1, <1>3, LeastExists
  <2> QED BY <2>1 DEF Earliest
<1>5. Latest(ReadsAt) \in ReadsAt
  <2>1. \E m \in ReadsAt : \A n \in ReadsAt : n <= m
    BY <1>1, <1>3, GreatestExists
  <2> QED BY <2>1 DEF Latest
<1>6. ASSUME NEW r \in ReadsAt
      PROVE  events[r].status = "active"
  <2>1. r \in 1..Len(events) /\ r \notin RevokedAt
    BY <1>3 DEF ReadsAt, RevokedAt, PositionsIn
  <2>2. events[r].status # "revoked"
    BY <1>1, <2>1 DEF LogIsSound
  <2>3. events[r] \in Events
    BY <1>1, <2>1 DEF TypeOK
  <2> QED BY <2>2, <2>3 DEF Events, Statuses
<1> QED BY <1>1, <1>2, <1>4, <1>5, <1>6 DEF AssertionHolds, ReliedOn

(* RacesAreExplained: the assertions before a commit                       *)
(* (run_live_races.py:289-294) never fail, and the saved order of events   *)
(* explains every row of the suite, for any number of simultaneous cases.  *)
THEOREM EveryRaceIsExplained == Spec => []RacesAreExplained
<1>1. SuiteInv => RacesAreExplained
  <2> SUFFICES ASSUME SuiteInv PROVE RacesAreExplained
    OBVIOUS
  <2>1. \A n \in DOMAIN rows : RowIsExplained(rows[n])
    <3>1. DOMAIN rows = 1..Len(rows)
      BY DEF SuiteInv, TypeOK
    <3> QED BY <3>1 DEF SuiteInv, RowsInv, RowInv
  <2> QED BY <2>1, CommitIsAsserted DEF RacesAreExplained
<1> QED BY SuiteInvariant, <1>1, PTL

(* VerdictIgnoresRaces: however the races end, all_passed                  *)
(* (run_live_races.py:504-513) is what the first use of a cached status    *)
(* makes it.                                                               *)
THEOREM NoRaceDecidesVerdict == Spec => []VerdictIgnoresRaces
<1>1. SuiteInv => VerdictIgnoresRaces
  BY DEF SuiteInv, ReportInv, VerdictIgnoresRaces
<1> QED BY SuiteInvariant, <1>1, PTL

-----------------------------------------------------------------------------
(* The suite as a run of the abstract service.                             *)

StatusMap == [case \in Cases |-> credentials[case].status]
OutcomeMap == [case \in Cases |-> DecisionIn(EventsOf(case))]
HeardMap == [case \in Cases |-> HeardIn(case)]

(* The four kinds of step, by what they do to the service and to the rows. *)
Unseen ==
  /\ UNCHANGED <<credentials, events, position, rows>>
  /\ pc = "initialize" <=> pc' = "initialize"

Serves(operation) ==
  /\ operation \in Operations /\ Serve(operation)
  /\ pc \in Open /\ pc' \in Open /\ UNCHANGED <<position, rows>>
  /\ operation \in {"guarded_commit", "unguarded_commit"} =>
       CommitsAt = {} /\ operation = CommitOf(Case.profile)

LEMMA CallServes ==
  ASSUME pc \in Open, NEW step \in Open, NEW operation \in Operations, Call(operation, step),
         operation \in {"guarded_commit", "unguarded_commit"} =>
           CommitsAt = {} /\ operation = CommitOf(Case.profile)
  PROVE  Serves(operation)
BY DEF Call, Serves

LEMMA ReadServes ==
  ASSUME pc \in Open, NEW step \in Open, Read(step)
  PROVE  Serves("status_read")
<1> DEFINE next == IF credentials[Case].status = "revoked" THEN "finalize" ELSE step
<1>1. Call("status_read", next) /\ next \in Open /\ "status_read" \in Operations
  BY DEF Read, Open, Operations
<1> HIDE DEF next
<1> QED BY <1>1, CallServes

LEMMA StepKinds ==
  ASSUME SuiteInv, [Next]_vars
  PROVE  InitializeCredential \/ Finalize \/ Unseen \/ \E operation : Serves(operation)
<1> USE DEF Open, Early, Fresh, Appraised, Reread
<1>1. CASE Place
  <2>1. /\ pc \in {"before", "appraised", "decided", "committed"} /\ pc \in Open
        /\ AfterPlace[pc] \in Open /\ AfterPlace[pc] # "initialize" /\ "revoke" \in Operations
    BY <1>1 DEF Place, PlacesAt, AfterPlace, Operations
  <2>2. CASE Case.placement \in PlacesAt[pc]
    <3>1. Call("revoke", AfterPlace[pc])
      BY <1>1, <2>2 DEF Place
    <3>2. Serves("revoke")
      BY <2>1, <3>1, CallServes
    <3> QED BY <3>2
  <2>3. CASE Case.placement \notin PlacesAt[pc]
    <3>1. Goto(AfterPlace[pc])
      BY <1>1, <2>3 DEF Place
    <3> QED BY <2>1, <3>1 DEF Goto, Unseen, service
  <2> QED BY <2>2, <2>3
<1>2. CASE Appraise \/ DoubleRead \/ Refresh
  <2>1. /\ pc \in Open /\ "appraised" \in Open /\ "decided" \in Open
        /\ Read("appraised") \/ Read("decided")
    BY <1>2 DEF Appraise, DoubleRead, Refresh
  <2>2. Serves("status_read")
    BY <2>1, ReadServes
  <2> QED BY <2>2
<1>3. CASE NoSecondRead \/ ReadCache \/ ReleaseThreads \/ Report
  BY <1>3 DEF NoSecondRead, ReadCache, ReleaseThreads, Report, Goto, Unseen, service
<1>4. CASE Commit
  <2>1. /\ pc = "commit" /\ Call(CommitOf(Case.profile), "committed") /\ "committed" \in Open
        /\ CommitOf(Case.profile) \in Operations /\ pc \in Open
    BY <1>4 DEF Commit, CommitOf, Operations
  <2>2. CommitsAt = {}
    BY <2>1 DEF SuiteInv, PlacedInv
  <2>3. Serves(CommitOf(Case.profile))
    BY <2>1, <2>2, CallServes
  <2> QED BY <2>3
<1>5. ASSUME NEW t \in DOMAIN threads, HandleThread(t)
      PROVE  \E operation : Serves(operation)
  <2> DEFINE operation == IF t = "revoke" THEN "revoke" ELSE CommitOf(Case.profile)
  <2>1. /\ t \in {"revoke", "commit"} /\ threads[t] \in {"sent", "gone"}
        /\ threads["revoke"] = threads.revoke /\ threads["commit"] = threads.commit
        /\ Serve(operation) /\ UNCHANGED <<position, pc, rows>>
    BY <1>5 DEF HandleThread, runner, SuiteInv, TypeOK
  <2>2. /\ pc \in {"join", "raised"}
        /\ t = "commit" => CommitsAt = {}
    BY <2>1 DEF SuiteInv, ThreadsInv
  <2>3. /\ operation \in Operations
        /\ operation \in {"guarded_commit", "unguarded_commit"} =>
             t = "commit" /\ operation = CommitOf(Case.profile)
    BY <2>1 DEF Operations, CommitOf
  <2> HIDE DEF operation
  <2>4. Serves(operation)
    BY <2>1, <2>2, <2>3 DEF Serves
  <2> QED BY <2>4
<1>6. CASE \E t \in DOMAIN threads : ThreadTimesOut(t)
  BY <1>6 DEF ThreadTimesOut, Unseen, service, runner
<1>7. CASE JoinThreads
  BY <1>7 DEF JoinThreads, Goto, Unseen, service
<1>8. CASE CallTimesOut
  <2>1. /\ Waiting # {} /\ pc' = "raised" /\ UNCHANGED <<position, rows>>
        /\ (\E operation \in Waiting : Serve(operation)) \/ UNCHANGED service
    BY <1>8 DEF CallTimesOut
  <2>2. pc \in Open /\ pc # "initialize"
    BY <2>1, WaitingTyped
  <2>3. CASE UNCHANGED service
    BY <2>1, <2>2, <2>3 DEF Unseen, service
  <2>4. ASSUME NEW operation \in Waiting, Serve(operation)
        PROVE  Serves(operation)
    <3>1. /\ operation \in Operations
          /\ operation \in {"guarded_commit", "unguarded_commit"} =>
               CommitsAt = {} /\ operation = CommitOf(Case.profile)
      BY <2>1, WaitingTyped
    <3>2. pc' \in Open
      BY <2>1
    <3> QED BY <2>1, <2>2, <2>4, <3>1, <3>2 DEF Serves
  <2> QED BY <2>1, <2>3, <2>4
<1>9. CASE UNCHANGED vars
  BY <1>9 DEF vars, service, runner, Unseen
<1> QED BY <1>1, <1>2, <1>3, <1>4, <1>5, <1>6, <1>7, <1>8, <1>9 DEF Next

(* The case that runs has no row yet. *)
LEMMA RunningHasNoRow ==
  ASSUME SuiteInv, pc \notin Over
  PROVE  Finished(Case) = {} /\ Case \in Cases /\ position <= Len(Suite)
<1>1. /\ Case \in Cases /\ position \in 1..Len(Suite) /\ Len(Suite) \in Nat
      /\ Len(rows) = position - 1 /\ DOMAIN rows = 1..Len(rows)
      /\ \A n \in 1..Len(rows) : rows[n].case = Suite[n]
  BY CaseTyped, SuiteOfProfiles, SuiteAssumption, SMTT(30) DEF SuiteInv, TypeOK, RowsInv, Length
<1>2. ASSUME NEW n \in DOMAIN rows
      PROVE  rows[n].case # Case
  <2>1. n \in 1..Len(Suite) /\ n # position /\ rows[n].case = Suite[n]
    BY <1>1
  <2> QED BY <1>1, <2>1, SuiteIsInjective DEF Case
<1> QED BY <1>1, <1>2 DEF Finished

LEMMA NothingCommitted ==
  /\ Commits(<<>>) = {} /\ DecisionIn(<<>>) = "undecided"
BY DEF Commits, PositionsIn, DecisionIn

LEMMA UnseenStutters ==
  ASSUME Unseen
  PROVE  UNCHANGED <<StatusMap, OutcomeMap, HeardMap>>
<1>1. /\ \A case : Finished(case)' = Finished(case)
      /\ \A case : RowOf(case)' = RowOf(case)
  BY DEF Unseen, Finished, RowOf
<1>2. Case' = Case
  BY DEF Unseen, Case
<1>3. \A case : EventsOf(case)' = EventsOf(case)
  BY <1>1, <1>2 DEF Unseen, EventsOf
<1>4. \A case : HeardIn(case)' = HeardIn(case)
  BY <1>1, <1>3 DEF HeardIn
<1>5. \A case : DecisionIn(EventsOf(case))' = DecisionIn(EventsOf(case))
  BY <1>3 DEF DecisionIn
<1> QED BY <1>4, <1>5 DEF Unseen, StatusMap, OutcomeMap, HeardMap

(* What an operation does to the decision of its case, and to no other's.  *)
LEMMA OthersUndisturbed ==
  ASSUME SuiteInv, pc \notin Over, pc' \notin Over, UNCHANGED <<position, rows>>
  PROVE  /\ HeardMap' = HeardMap
         /\ OutcomeMap' = [OutcomeMap EXCEPT ![Case] =
              IF pc' = "initialize" THEN "undecided" ELSE DecisionIn(events')]
         /\ OutcomeMap[Case] = IF pc = "initialize" THEN "undecided" ELSE DecisionIn(events)
<1>1. /\ Finished(Case) = {} /\ Case \in Cases /\ position <= Len(Suite) /\ Case' = Case
  BY RunningHasNoRow DEF Case
<1>2. /\ \A case : Finished(case)' = Finished(case)
      /\ \A case : RowOf(case)' = RowOf(case)
  BY DEF Finished, RowOf
<1>3. \A case : case # Case => EventsOf(case)' = EventsOf(case)
  BY <1>1, <1>2 DEF EventsOf
<1>4. \A case : Finished(case) # {} => EventsOf(case)' = EventsOf(case)
  BY <1>1, <1>3
<1>5. \A case : HeardIn(case)' = HeardIn(case)
  BY <1>2, <1>4 DEF HeardIn
<1>6. /\ EventsOf(Case) = IF pc = "initialize" THEN <<>> ELSE events
      /\ \A case \in {Case} : EventsOf(case)' = IF pc' = "initialize" THEN <<>> ELSE events'
  BY <1>1, <1>2 DEF EventsOf
<1>7. \A case : case # Case => DecisionIn(EventsOf(case))' = DecisionIn(EventsOf(case))
  BY <1>3 DEF DecisionIn
<1>8. /\ DecisionIn(EventsOf(Case)) = IF pc = "initialize" THEN "undecided" ELSE DecisionIn(events)
      /\ \A case \in {Case} : DecisionIn(EventsOf(case))' =
                                IF pc' = "initialize" THEN "undecided" ELSE DecisionIn(events')
  BY <1>6, NothingCommitted DEF DecisionIn
<1>9. HeardMap' = HeardMap
  BY <1>5 DEF HeardMap
<1>10. OutcomeMap' = [OutcomeMap EXCEPT ![Case] =
                       IF pc' = "initialize" THEN "undecided" ELSE DecisionIn(events')]
  BY <1>1, <1>7, <1>8 DEF OutcomeMap
<1>11. OutcomeMap[Case] = IF pc = "initialize" THEN "undecided" ELSE DecisionIn(events)
  BY <1>1, <1>8 DEF OutcomeMap
<1> QED BY <1>9, <1>10, <1>11

LEMMA EnrollStep ==
  ASSUME SuiteInv, InitializeCredential
  PROVE  /\ Case \in Cases /\ StatusMap[Case] = "absent"
         /\ StatusMap' = [StatusMap EXCEPT ![Case] = "active"]
         /\ UNCHANGED <<OutcomeMap, HeardMap>>
<1>1. /\ pc = "initialize" /\ pc' = "before" /\ events' = <<>>
      /\ credentials' = [credentials EXCEPT ![Case] = Active]
      /\ UNCHANGED <<position, rows>> /\ pc \notin Over /\ pc' \notin Over
  BY DEF InitializeCredential, Over
<1>2. Case \in Cases /\ position \in 1..Len(Suite)
  BY <1>1, CaseTyped DEF SuiteInv
<1>3. credentials[Case].status = "absent"
  BY <1>1, <1>2 DEF SuiteInv, UnstartedInv, Case
<1>4. StatusMap' = [StatusMap EXCEPT ![Case] = "active"]
  BY <1>1, <1>2 DEF SuiteInv, TypeOK, StatusMap, Active
<1>5. HeardMap' = HeardMap /\ OutcomeMap' = [OutcomeMap EXCEPT ![Case] = "undecided"]
      /\ OutcomeMap[Case] = "undecided"
  BY <1>1, OthersUndisturbed, NothingCommitted
<1>6. OutcomeMap' = OutcomeMap
  BY <1>5 DEF OutcomeMap
<1> QED BY <1>2, <1>3, <1>4, <1>5, <1>6 DEF StatusMap

(* The decision in the log changes with the commit only, to what its event *)
(* says.                                                                   *)
LEMMA DecisionLogged ==
  ASSUME SuiteInv, pc \in Open, NEW operation, NEW e \in Events, Logged(operation, e),
         operation \in {"guarded_commit", "unguarded_commit"} => CommitsAt = {}
  PROVE  DecisionIn(events') =
           IF operation \in {"guarded_commit", "unguarded_commit"}
           THEN IF e.effect_committed THEN "committed" ELSE "denied"
           ELSE DecisionIn(events)
<1>1. /\ CommitsAt \subseteq 1..Len(events) /\ Len(events) \in Nat
      /\ \A c, d \in CommitsAt : c = d
      /\ CommitsAt' = Commits(events') /\ CommitsAt = Commits(events)
      /\ CommitsAt' = CommitsAt \cup (IF operation \in {"guarded_commit", "unguarded_commit"}
                                      THEN {Len(events) + 1} ELSE {})
      /\ events'[Len(events) + 1] = e
      /\ \A n \in 1..Len(events) : events'[n] = events[n]
  BY PositionsTyped DEF SuiteInv, LogInv, LogIsSound, Logged, LogKept, CommitsAt
<1>2. CASE operation \in {"guarded_commit", "unguarded_commit"}
  <2>1. Commits(events') = {Len(events) + 1} /\ Len(events) + 1 \in Nat
    BY <1>1, <1>2
  <2>2. CommitIn(events') = e
    BY <1>1, <2>1, EarliestOfOne DEF CommitIn
  <2> QED BY <1>2, <2>1, <2>2 DEF DecisionIn
<1>3. CASE operation \notin {"guarded_commit", "unguarded_commit"} /\ CommitsAt = {}
  BY <1>1, <1>3 DEF DecisionIn
<1>4. CASE operation \notin {"guarded_commit", "unguarded_commit"} /\ CommitsAt # {}
  <2>1. PICK c \in 1..Len(events) : Commits(events) = {c} /\ Commits(events') = {c}
    BY <1>1, <1>4
  <2>2. CommitIn(events') = CommitIn(events)
    BY <1>1, <2>1, EarliestOfOne DEF CommitIn
  <2> QED BY <1>4, <2>1, <2>2 DEF DecisionIn
<1> QED BY <1>2, <1>3, <1>4

LEMMA ServeStep ==
  ASSUME SuiteInv, NEW operation, Serves(operation)
  PROVE  /\ Case \in Cases /\ HeardMap' = HeardMap
         /\ \/ /\ StatusMap[Case] = "active"
               /\ StatusMap' = [StatusMap EXCEPT ![Case] = "revoked"]
               /\ OutcomeMap' = OutcomeMap
            \/ UNCHANGED <<StatusMap, OutcomeMap>>
            \/ /\ StatusMap[Case] # "absent" /\ StatusMap' = StatusMap
               /\ OutcomeMap[Case] = "undecided"
               /\ OutcomeMap' = [OutcomeMap EXCEPT ![Case] =
                    IF Case.profile = "atomic_guard" /\ StatusMap[Case] = "revoked"
                    THEN "denied" ELSE "committed"]
<1>1. /\ operation \in Operations /\ Serve(operation) /\ pc \in Open /\ pc' \in Open
      /\ UNCHANGED <<position, rows>> /\ TypeOK /\ LogIsSound
      /\ operation \in {"guarded_commit", "unguarded_commit"} =>
           CommitsAt = {} /\ operation = CommitOf(Case.profile)
  BY DEF Serves, SuiteInv, LogInv
<1>2. PICK e \in Events : Logged(operation, e)
  BY <1>1, ServeLogs
<1>3. pc \notin Over /\ pc' \notin Over /\ pc # "initialize" /\ pc' # "initialize"
  BY <1>1 DEF Open, Over, Early, Fresh, Appraised, Reread
<1>4. /\ Case \in Cases /\ HeardMap' = HeardMap
      /\ OutcomeMap' = [OutcomeMap EXCEPT ![Case] = DecisionIn(events')]
      /\ OutcomeMap[Case] = DecisionIn(events)
  BY <1>1, <1>3, OthersUndisturbed, RunningHasNoRow
<1>5. OutcomeMap = [OutcomeMap EXCEPT ![Case] = DecisionIn(events)]
  BY <1>4 DEF OutcomeMap
<1>6. DecisionIn(events') =
           IF operation \in {"guarded_commit", "unguarded_commit"}
           THEN IF e.effect_committed THEN "committed" ELSE "denied"
           ELSE DecisionIn(events)
  BY <1>1, <1>2, DecisionLogged
<1>7. /\ StatusMap = [case \in Cases |-> credentials[case].status]
      /\ StatusMap' = [case \in Cases |-> credentials'[case].status]
      /\ \A case \in Cases : case # Case => credentials'[case].status = credentials[case].status
      /\ StatusMap[Case] = credentials[Case].status
      /\ credentials[Case].status = (IF RevokedAt = {} THEN "active" ELSE "revoked")
      /\ credentials'[Case].status = (IF RevokedAt' = {} THEN "active" ELSE "revoked")
      /\ RevokedAt' = RevokedAt \cup (IF operation = "revoke" THEN {Len(events) + 1} ELSE {})
  BY <1>1, <1>2, <1>4 DEF StatusMap, Logged, LogIsSound
<1>8. CASE operation \in {"guarded_commit", "unguarded_commit"}
  <2>1. credentials'[Case].status = credentials[Case].status
    BY <1>7, <1>8
  <2>2. StatusMap' = StatusMap
    BY <1>7, <2>1
  <2>3. e.effect_committed = (Case.profile = "atomic_guard" => StatusMap[Case] = "active")
    BY <1>1, <1>2, <1>7, <1>8, <2>1 DEF Logged, Effect, CommitOf
  <2>4. DecisionIn(events) = "undecided"
    BY <1>1, <1>8 DEF DecisionIn, CommitsAt
  <2>5. DecisionIn(events') = IF Case.profile = "atomic_guard" /\ StatusMap[Case] = "revoked"
                              THEN "denied" ELSE "committed"
    BY <1>6, <1>7, <1>8, <2>3
  <2>6. StatusMap[Case] # "absent"
    BY <1>7
  <2> QED BY <1>4, <2>2, <2>4, <2>5, <2>6
<1>9. CASE operation \notin {"guarded_commit", "unguarded_commit"}
  <2>1. OutcomeMap' = OutcomeMap
    BY <1>4, <1>5, <1>6, <1>9
  <2>2. CASE operation = "revoke" /\ RevokedAt = {}
    <3>1. credentials'[Case].status = "revoked" /\ StatusMap[Case] = "active"
      BY <1>7, <2>2
    <3>2. StatusMap' = [StatusMap EXCEPT ![Case] = "revoked"]
      BY <1>4, <1>7, <3>1
    <3> QED BY <1>4, <2>1, <3>1, <3>2
  <2>3. CASE ~ (operation = "revoke" /\ RevokedAt = {})
    <3>1. credentials'[Case].status = credentials[Case].status
      BY <1>7, <2>3
    <3>2. StatusMap' = StatusMap
      BY <1>7, <3>1
    <3> QED BY <1>4, <2>1, <3>2
  <2> QED BY <2>2, <2>3
<1> QED BY <1>8, <1>9

LEMMA HearStep ==
  ASSUME SuiteInv, Finalize
  PROVE  /\ Case \in Cases /\ UNCHANGED <<StatusMap, OutcomeMap>>
         /\ \/ HeardMap' = HeardMap
            \/ /\ HeardMap[Case] = "nothing" /\ OutcomeMap[Case] # "undecided"
               /\ HeardMap' = [HeardMap EXCEPT ![Case] = OutcomeMap[Case]]
<1>1. /\ pc = "finalize" /\ pc \notin Over /\ pc # "initialize" /\ position' = position + 1
      /\ pc' = (IF position = Len(Suite) THEN "report" ELSE "initialize")
      /\ UNCHANGED service
  BY DEF Finalize, Over
<1>2. PICK row \in Rows : /\ rows' = Append(rows, row) /\ RowInv(row)
                          /\ row.case = Case /\ row.event_order = events
  BY NewRow
<1>3. /\ Finished(Case) = {} /\ Case \in Cases /\ position <= Len(Suite)
      /\ position \in Nat /\ Len(Suite) \in Nat /\ rows \in Seq(Rows)
  BY <1>1, RunningHasNoRow, SuiteOfProfiles, SuiteAssumption, SMTT(30) DEF SuiteInv, TypeOK, Length
<1>4. \A case : Finished(case)' = Finished(case) \cup (IF case = Case THEN {row} ELSE {})
  <2>1. /\ DOMAIN rows' = (DOMAIN rows) \cup {Len(rows) + 1}
        /\ \A n \in DOMAIN rows : rows'[n] = rows[n]
        /\ rows'[Len(rows) + 1] = row
    BY <1>2, <1>3
  <2> QED BY <1>2, <2>1 DEF Finished
<1>5. /\ \A case : case # Case => Finished(case)' = Finished(case) /\ RowOf(case)' = RowOf(case)
      /\ \A case \in {Case} : Finished(case)' = {row} /\ RowOf(case)' = row
  BY <1>3, <1>4 DEF RowOf
<1>6. \A case : case # Case => EventsOf(case)' = EventsOf(case)
  BY <1>1, <1>3, <1>5 DEF EventsOf, Case
<1>7. /\ EventsOf(Case) = events
      /\ \A case \in {Case} : EventsOf(case)' = events
  BY <1>1, <1>2, <1>3, <1>5 DEF EventsOf
<1>8. \A case : EventsOf(case)' = EventsOf(case)
  BY <1>6, <1>7
<1>9. \A case : DecisionIn(EventsOf(case))' = DecisionIn(EventsOf(case))
  BY <1>8 DEF DecisionIn
<1>10. UNCHANGED <<StatusMap, OutcomeMap>> /\ OutcomeMap[Case] = DecisionIn(events)
  BY <1>1, <1>3, <1>7, <1>9 DEF StatusMap, OutcomeMap, service
<1>11. /\ \A case : case # Case => HeardIn(case)' = HeardIn(case)
       /\ HeardIn(Case) = "nothing"
  BY <1>3, <1>5, <1>6 DEF HeardIn
<1>12. \A case \in {Case} : HeardIn(case)' =
          IF Commits(events) = {} THEN "nothing" ELSE IF row.accepted THEN "committed" ELSE "denied"
  BY <1>5, <1>7 DEF HeardIn
<1>13. row.accepted <=> Commits(events) # {} /\ CommitIn(events).effect_committed
  BY <1>2 DEF RowInv
<1>14. HeardMap[Case] = "nothing" /\ HeardMap = [HeardMap EXCEPT ![Case] = "nothing"]
  BY <1>3, <1>11 DEF HeardMap
<1>15. CASE Commits(events) = {}
  <2>1. HeardMap' = HeardMap
    BY <1>11, <1>12, <1>15 DEF HeardMap
  <2> QED BY <1>3, <1>10, <2>1
<1>16. CASE Commits(events) # {}
  <2>1. /\ DecisionIn(events) # "undecided"
        /\ \A case \in {Case} : HeardIn(case)' = DecisionIn(events)
    BY <1>12, <1>13, <1>16 DEF DecisionIn
  <2>2. HeardMap' = [HeardMap EXCEPT ![Case] = DecisionIn(events)]
    BY <1>3, <1>11, <2>1 DEF HeardMap
  <2> QED BY <1>3, <1>10, <1>14, <2>1, <2>2
<1> QED BY <1>15, <1>16

LEMMA PromiseStep ==
  ASSUME SuiteInv, [Next]_vars
  PROVE  [Promise!AbsNext]_Promise!absVars
<1> DEFINE identity == [case \in Cases |-> case]
<1>1. Case \in Cases => identity[Case] = Case
  OBVIOUS
<1>2. ASSUME UNCHANGED <<StatusMap, OutcomeMap, HeardMap>>
      PROVE  UNCHANGED Promise!absVars
  BY <1>2 DEF Promise!absVars, StatusMap, OutcomeMap, HeardMap
<1>7. \A c \in Cases : (Promise!Enroll(c) \/ Promise!Withdraw(c)) => Promise!AbsNext
  BY DEF Promise!AbsNext
<1>3. CASE InitializeCredential
  <2>1. /\ Case \in Cases /\ StatusMap[Case] = "absent"
        /\ StatusMap' = [StatusMap EXCEPT ![Case] = "active"]
        /\ UNCHANGED <<OutcomeMap, HeardMap>>
    BY <1>3, EnrollStep
  <2> PICK c \in Cases : c = Case
    BY <2>1
  <2>2. Promise!Enroll(c)
    BY <2>1, Zenon DEF Promise!Enroll, StatusMap, OutcomeMap, HeardMap
  <2> QED BY <1>7, <2>1, <2>2
<1>4. CASE \E operation : Serves(operation)
  <2>1. /\ Case \in Cases /\ HeardMap' = HeardMap
         /\ \/ /\ StatusMap[Case] = "active"
               /\ StatusMap' = [StatusMap EXCEPT ![Case] = "revoked"]
               /\ OutcomeMap' = OutcomeMap
            \/ UNCHANGED <<StatusMap, OutcomeMap>>
            \/ /\ StatusMap[Case] # "absent" /\ StatusMap' = StatusMap
               /\ OutcomeMap[Case] = "undecided"
               /\ OutcomeMap' = [OutcomeMap EXCEPT ![Case] =
                    IF Case.profile = "atomic_guard" /\ StatusMap[Case] = "revoked"
                    THEN "denied" ELSE "committed"]
    BY <1>4, ServeStep
  <2>2. CASE StatusMap[Case] = "active" /\ StatusMap' = [StatusMap EXCEPT ![Case] = "revoked"]
             /\ OutcomeMap' = OutcomeMap
    <3> PICK c \in Cases : c = Case
      BY <2>1
    <3>1. Promise!Withdraw(c)
      BY <2>1, <2>2, Zenon DEF Promise!Withdraw, StatusMap, OutcomeMap, HeardMap
    <3> QED BY <1>7, <2>1, <3>1
  <2>3. CASE UNCHANGED <<StatusMap, OutcomeMap>>
    BY <1>2, <2>1, <2>3
  <2>4. CASE /\ StatusMap[Case] # "absent" /\ StatusMap' = StatusMap
             /\ OutcomeMap[Case] = "undecided"
             /\ OutcomeMap' = [OutcomeMap EXCEPT ![Case] =
                  IF Case.profile = "atomic_guard" /\ StatusMap[Case] = "revoked"
                  THEN "denied" ELSE "committed"]
    <3>1. Case \in {case \in Cases : case.profile = "atomic_guard"} <=> Case.profile = "atomic_guard"
      BY <2>1
    <3>2. OutcomeMap' = [OutcomeMap EXCEPT ![Case] =
            IF /\ Case \in {case \in Cases : case.profile = "atomic_guard"}
               /\ StatusMap[identity[Case]] = "revoked"
            THEN "denied" ELSE "committed"]
      BY <1>1, <2>1, <2>4, <3>1
    <3>3. StatusMap[identity[Case]] # "absent"
      BY <1>1, <2>1, <2>4
    <3>4. Promise!Decide(Case)
      BY <2>1, <2>4, <3>2, <3>3, Zenon DEF Promise!Decide, StatusMap, OutcomeMap, HeardMap
    <3> QED BY <2>1, <3>4 DEF Promise!AbsNext
  <2> QED BY <2>1, <2>2, <2>3, <2>4
<1>5. CASE Finalize
  <2>1. /\ Case \in Cases /\ UNCHANGED <<StatusMap, OutcomeMap>>
        /\ \/ HeardMap' = HeardMap
           \/ /\ HeardMap[Case] = "nothing" /\ OutcomeMap[Case] # "undecided"
              /\ HeardMap' = [HeardMap EXCEPT ![Case] = OutcomeMap[Case]]
    BY <1>5, HearStep
  <2>2. CASE HeardMap' = HeardMap
    BY <1>2, <2>1, <2>2
  <2>3. CASE /\ HeardMap[Case] = "nothing" /\ OutcomeMap[Case] # "undecided"
             /\ HeardMap' = [HeardMap EXCEPT ![Case] = OutcomeMap[Case]]
    <3>1. /\ OutcomeMap[identity[Case]] # "undecided"
          /\ HeardMap' = [HeardMap EXCEPT ![Case] = OutcomeMap[identity[Case]]]
      BY <1>1, <2>1, <2>3
    <3>2. Promise!Hear(Case)
      BY <2>1, <2>3, <3>1, Zenon DEF Promise!Hear, StatusMap, OutcomeMap, HeardMap
    <3> QED BY <2>1, <3>2 DEF Promise!AbsNext
  <2> QED BY <2>1, <2>2, <2>3
<1>6. CASE Unseen
  BY <1>2, <1>6, UnseenStutters
<1> QED BY <1>3, <1>4, <1>5, <1>6, StepKinds

LEMMA PromiseInit ==
  ASSUME Init
  PROVE  Promise!AbsInit
<1>1. rows = <<>> /\ pc = "initialize" /\ \A case \in Cases : credentials[case].status = "absent"
  BY DEF Init
<1>2. \A case : Finished(case) = {}
  BY <1>1 DEF Finished
<1>3. \A case : EventsOf(case) = <<>> /\ HeardIn(case) = "nothing"
  BY <1>1, <1>2 DEF EventsOf, HeardIn
<1>4. \A case : DecisionIn(EventsOf(case)) = "undecided"
  BY <1>3, NothingCommitted
<1> QED BY <1>1, <1>3, <1>4 DEF Promise!AbsInit

(* ImplementsPromise: the in-process lab implements AtomicDecision, the    *)
(* same abstract service as the process and container labs, over its whole *)
(* suite: revoke and commit under the lock of RevocationState are the      *)
(* decisions, and a row's accepted (run_live_races.py:318-336) is what its *)
(* caller hears.                                                           *)
THEOREM SuiteImplementsPromise == Spec => ImplementsPromise
<1>1. Init => Promise!AbsInit
  BY PromiseInit
<1>2. SuiteInv /\ [Next]_vars => [Promise!AbsNext]_Promise!absVars
  BY PromiseStep
<1> QED BY <1>1, <1>2, SuiteInvariant, PTL DEF Spec, ImplementsPromise, Promise!AbsSpec
=============================================================================
