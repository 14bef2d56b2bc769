--------------------- MODULE ContainerRevocationProofs ---------------------
(***************************************************************************)
(* Safety of the containerised revocation service for every set of         *)
(* credentials, keys, instances and calls, and every number of outages.    *)
(***************************************************************************)
EXTENDS ContainerRevocation, TLAPS

LEMMA RequestFacts ==
  ASSUME NEW x \in Calls
  PROVE  /\ Op(x) \in StatusOps \cup CommitOps
         /\ Cred(x) \in Creds
         /\ Key(x) \in Keys \cup {NoKey}
         /\ request[x].instance \in Instances
         /\ x \in CommitCalls <=> Key(x) \in Keys
         /\ x \in CommitCalls <=> Op(x) \in CommitOps
  BY ConstantsAssumption DEF RequestType, Op, Cred, Key, CommitCalls

LEMMA RowIsTyped ==
  ASSUME NEW x \in Calls, NEW status \in {"active", "revoked"},
         NEW sequence \in 1..2, NEW effect \in {"null", "committed", "denied"}
  PROVE  Row(x, status, sequence, effect) \in EventRow
  BY RequestFacts DEF Row, EventRow

LEMMA PresentRow ==
  ASSUME NEW row \in CredentialRow, row # Absent
  PROVE  row.status \in {"active", "revoked"} /\ row.sequence \in 1..2
  BY DEF CredentialRow, Absent, ActiveRow, RevokedRow

LEMMA TypeInit == Init => TypeOK
  BY ConstantsAssumption, SMTT(30) DEF Init, TypeOK, NoRead, NoAnswer, CredentialRow, Absent

LEMMA TypeStep == TypeOK /\ [Next]_vars => TypeOK'
  <1> SUFFICES ASSUME TypeOK, [Next]_vars PROVE TypeOK'
    OBVIOUS
  <1> USE DEF TypeOK
  <1>1. ASSUME NEW x \in Calls, Send(x) PROVE TypeOK'
    <2>1. client' \in [Calls -> {"unsent", "waiting", "answered", "failed"}]
      BY <1>1 DEF Send
    <2>2. server' \in [Calls -> {"idle", "proxied", "queued", "writing", "finished", "closed"}]
      <3>1. \E s \in {"queued", "proxied"} : server' = [server EXCEPT ![x] = s]
        BY <1>1 DEF Send
      <3> QED BY <3>1
    <2>3. fault' \in [Calls -> {"none", "drop_before_forward", "drop_after_forward"}]
      <3>1. \/ fault' = fault
            \/ \E f \in Faults : fault' = [fault EXCEPT ![x] = f]
        BY <1>1 DEF Send
      <3> QED BY <3>1, ConstantsAssumption
    <2> QED
      BY <1>1, <2>1, <2>2, <2>3 DEF Send, tables, lock
  <1>2. ASSUME NEW x \in Calls, DropRequest(x) PROVE TypeOK'
    BY <1>2 DEF DropRequest, Lost, tables, lock
  <1>3. ASSUME NEW x \in Calls, Forward(x) PROVE TypeOK'
    BY <1>3 DEF Forward, tables, lock
  <1>4. ASSUME NEW x \in Calls, GiveUp(x) PROVE TypeOK'
    BY <1>4, ConstantsAssumption DEF GiveUp, tables, lock
  <1>5. ASSUME NEW x \in Calls, Begin(x) PROVE TypeOK'
    BY <1>5, RequestFacts DEF Begin, PriorDecision, tables
  <1>6. ASSUME NEW x \in Calls, LockTimeout(x) PROVE TypeOK'
    BY <1>6, ConstantsAssumption DEF LockTimeout, Lost, tables, lock
  <1>7. ASSUME NEW x \in Calls, Initialize(x) PROVE TypeOK'
    <2>1. events' \in Seq(EventRow)
      BY <1>7, RowIsTyped DEF Initialize, Log
    <2>2. credentials' \in [Creds -> CredentialRow]
      BY <1>7, RequestFacts DEF Initialize, CredentialRow, ActiveRow
    <2> QED
      BY <1>7, <2>1, <2>2 DEF Initialize, Finish, NoRead, CredentialRow
  <1>8. ASSUME NEW x \in Calls, StatusRead(x) PROVE TypeOK'
    <2>1. held[x].item \in CredentialRow /\ held[x].item # Absent
      BY <1>8 DEF StatusRead
    <2>2. held[x].item.status \in {"active", "revoked"} /\ held[x].item.sequence \in 1..2
      BY <2>1, PresentRow
    <2>3. Row(x, held[x].item.status, held[x].item.sequence, "null") \in EventRow
      BY <2>2, RowIsTyped
    <2>4. events' \in Seq(EventRow)
      BY <1>8, <2>3 DEF StatusRead, Log
    <2> QED
      BY <1>8, <2>4 DEF StatusRead, Finish, NoRead, CredentialRow
  <1>9. ASSUME NEW x \in Calls, Revoke(x) PROVE TypeOK'
    <2>1. RevokedSequence(x) = 2
      <3>1. held[x].item \in {ActiveRow, RevokedRow}
        BY <1>9 DEF Revoke, CredentialRow
      <3>2. CASE held[x].item = ActiveRow
        BY <3>2 DEF RevokedSequence, ActiveRow
      <3>3. CASE held[x].item = RevokedRow
        BY <3>3 DEF RevokedSequence, RevokedRow
      <3> QED
        BY <3>1, <3>2, <3>3
    <2>2. events' \in Seq(EventRow)
      BY <1>9, <2>1, RowIsTyped DEF Revoke, Log
    <2>3. credentials' \in [Creds -> CredentialRow]
      BY <1>9, <2>1, RequestFacts DEF Revoke, CredentialRow, RevokedRow
    <2> QED
      BY <1>9, <2>2, <2>3 DEF Revoke, Finish, NoRead, CredentialRow
  <1>10. ASSUME NEW x \in Calls, Replay(x) PROVE TypeOK'
    BY <1>10 DEF Replay, Finish, NoRead, CredentialRow, tables
  <1>11. ASSUME NEW x \in Calls, Commit(x) PROVE TypeOK'
    <2>1. events' \in Seq(EventRow)
      <3> DEFINE effect == IF Allowed(x) THEN "committed" ELSE "denied"
      <3>1. held[x].item \in CredentialRow /\ held[x].item # Absent
        BY <1>11 DEF Commit
      <3>2. held[x].item.status \in {"active", "revoked"} /\ held[x].item.sequence \in 1..2
        BY <3>1, PresentRow
      <3>3. Row(x, held[x].item.status, held[x].item.sequence, effect) \in EventRow
        BY <3>2, RowIsTyped
      <3> QED
        BY <1>11, <3>3 DEF Commit, Log
    <2>2. decisions' \in [Keys -> Nat] /\ effects' \in [Keys -> Nat]
      BY <1>11, RequestFacts DEF Commit, Decided
    <2> QED
      BY <1>11, <2>1, <2>2 DEF Commit, Finish, NoRead, CredentialRow
  <1>12. ASSUME NEW x \in Calls, Reject(x) PROVE TypeOK'
    BY <1>12 DEF Reject, Lost, NoRead, CredentialRow, tables
  <1>13. ASSUME NEW x \in Calls, Respond(x) PROVE TypeOK'
    BY <1>13 DEF Respond, tables, lock
  <1>14. ASSUME NEW i \in Instances, Stop(i) PROVE TypeOK'
    BY <1>14, ConstantsAssumption DEF Stop, NoRead, CredentialRow, tables
  <1>15. CASE UNCHANGED vars
    BY <1>15 DEF vars, tables, lock
  <1> QED
    BY <1>1, <1>2, <1>3, <1>4, <1>5, <1>6, <1>7, <1>8, <1>9, <1>10, <1>11,
       <1>12, <1>13, <1>14, <1>15 DEF Next

(* The store, the lock, the handlers and the clients keep their types, and *)
(* a credential never has a row other than the two the code writes.        *)
THEOREM TypeCorrect == Spec => []TypeOK
  BY TypeInit, TypeStep, PTL DEF Spec

-----------------------------------------------------------------------------
(* How a transaction changes the log.                                      *)

LEMMA LogGrows ==
  ASSUME events \in Seq(EventRow), NEW e \in EventRow, events' = Append(events, e)
  PROVE  /\ Len(events) \in Nat
         /\ Len(events') = Len(events) + 1
         /\ \A n \in 1..Len(events) : events'[n] = events[n]
         /\ events'[Len(events) + 1] = e
  OBVIOUS

(* Appending a sound event that carries the credential's new sequence      *)
(* number keeps the log sound.                                             *)
LEMMA LogStep ==
  ASSUME TypeOK, LogIsSound, NEW e \in EventRow, events' = Append(events, e),
         EventIsSound(e), credentials' \in [Creds -> CredentialRow],
         \A c \in Creds : credentials[c].sequence <= credentials'[c].sequence,
         e.sequence = credentials'[e.credential].sequence,
         e.operation = "initialize" => credentials[e.credential].sequence = 0
  PROVE  LogIsSound'
  <1> DEFINE L == Len(events)
  <1>1. /\ L \in Nat
        /\ Len(events') = L + 1
        /\ \A n \in 1..L : events'[n] = events[n]
        /\ events'[L + 1] = e
    BY LogGrows DEF TypeOK
  <1>2. \A n \in 1..L : events[n] \in EventRow
    BY DEF TypeOK
  <1>3. \A c \in Creds : credentials[c].sequence \in 0..2 /\ credentials'[c].sequence \in 0..2
    BY DEF TypeOK, CredentialRow, Absent, ActiveRow, RevokedRow
  <1>4. e.credential \in Creds /\ e.sequence \in 1..2
    BY DEF EventRow
  <1>5. \A n \in 1..L : events[n].credential \in Creds /\ events[n].sequence \in 1..2
    BY <1>2 DEF EventRow
  <1>6. ASSUME NEW n \in 1..(L + 1)
        PROVE  EventIsSound(events'[n])
    BY <1>1 DEF LogIsSound
  <1>7. ASSUME NEW n \in 1..(L + 1)
        PROVE  events'[n].sequence <= credentials'[events'[n].credential].sequence
    <2>1. CASE n = L + 1
      BY <2>1, <1>1, <1>3, <1>4
    <2>2. CASE n \in 1..L
      <3>1. events[n].sequence <= credentials[events[n].credential].sequence
        BY <2>2 DEF LogIsSound
      <3> QED
        BY <3>1, <2>2, <1>1, <1>3, <1>5
    <2> QED
      BY <2>1, <2>2, <1>1
  <1>8. ASSUME NEW n \in 1..(L + 1), NEW m \in 1..(L + 1),
               m < n, events'[m].credential = events'[n].credential
        PROVE  events'[m].sequence <= events'[n].sequence /\ events'[n].operation # "initialize"
    <2>1. CASE n \in 1..L
      BY <2>1, <1>1, <1>8 DEF LogIsSound
    <2>2. CASE n = L + 1
      <3>1. m \in 1..L
        BY <2>2, <1>1, <1>8
      <3>2. events[m].credential = e.credential
        BY <2>2, <3>1, <1>1, <1>8
      <3>3. events[m].sequence <= credentials[e.credential].sequence
        BY <3>1, <3>2 DEF LogIsSound
      <3>4. credentials[e.credential].sequence # 0
        BY <3>1, <3>3, <1>3, <1>4, <1>5
      <3>5. events[m].sequence <= e.sequence
        BY <3>1, <3>3, <1>3, <1>4, <1>5
      <3> QED
        BY <2>2, <3>1, <3>4, <3>5, <1>1
    <2> QED
      BY <2>1, <2>2, <1>1
  <1> QED
    BY <1>1, <1>6, <1>7, <1>8 DEF LogIsSound

LEMMA OnlyTransactionsWrite ==
  [Next]_vars => \/ UNCHANGED tables
                 \/ \E x \in Calls : Initialize(x) \/ StatusRead(x) \/ Revoke(x) \/ Commit(x)
  BY DEF Next, vars, Send, DropRequest, Forward, GiveUp, Begin, LockTimeout,
         Replay, Reject, Respond, Stop

(* What the four writing transactions find, given that their reads are     *)
(* current.                                                                *)
LEMMA TransactionReads ==
  ASSUME TypeOK, ReadsAreCurrent, NEW x \in Calls, server[x] = "writing"
  PROVE  /\ held[x].item = credentials[Cred(x)]
         /\ credentials[Cred(x)] \in CredentialRow
         /\ x \in CommitCalls => held[x].prior = decisions[Key(x)]
  BY RequestFacts DEF TypeOK, ReadsAreCurrent

LEMMA LogStaysSound == TypeOK /\ TypeOK' /\ ReadsAreCurrent /\ LogIsSound /\ [Next]_vars => LogIsSound'
  <1> SUFFICES ASSUME TypeOK, TypeOK', ReadsAreCurrent, LogIsSound, [Next]_vars
               PROVE  LogIsSound'
    OBVIOUS
  <1>t. credentials' \in [Creds -> CredentialRow] /\ credentials \in [Creds -> CredentialRow]
    BY DEF TypeOK
  <1>r. \A row \in CredentialRow : row.sequence \in 0..2
    BY DEF CredentialRow, Absent, ActiveRow, RevokedRow
  <1>1. CASE UNCHANGED tables
    BY <1>1 DEF LogIsSound, tables
  <1>2. ASSUME NEW x \in Calls, Initialize(x) PROVE LogIsSound'
    <2> DEFINE e == Row(x, "active", 1, "null")
    <2>1. e \in EventRow
      BY RowIsTyped
    <2>2. server[x] = "writing" /\ credentials[Cred(x)] = Absent
      BY <1>2, TransactionReads DEF Initialize, Finish
    <2>3. EventIsSound(e) /\ e.credential = Cred(x) /\ e.sequence = 1
      BY <1>2 DEF Initialize, Row, EventIsSound, CommitOps
    <2>4. \A c \in Creds : credentials[c].sequence <= credentials'[c].sequence
      BY <1>2, <1>t, <1>r, <2>2, RequestFacts DEF Initialize, Absent
    <2>5. credentials'[Cred(x)].sequence = 1 /\ credentials[Cred(x)].sequence = 0
      BY <1>2, <1>t, <2>2, RequestFacts DEF Initialize, Absent
    <2>6. events' = Append(events, e)
      BY <1>2 DEF Initialize, Log
    <2> QED
      BY <1>t, <2>1, <2>3, <2>4, <2>5, <2>6, LogStep
  <1>3. ASSUME NEW x \in Calls, StatusRead(x) PROVE LogIsSound'
    <2> DEFINE e == Row(x, held[x].item.status, held[x].item.sequence, "null")
    <2>1. server[x] = "writing" /\ held[x].item # Absent /\ Op(x) = "status_read"
      BY <1>3 DEF StatusRead, Finish
    <2>2. held[x].item = credentials[Cred(x)] /\ held[x].item \in {ActiveRow, RevokedRow}
      BY <2>1, TransactionReads DEF CredentialRow
    <2>3. held[x].item.status \in {"active", "revoked"} /\ held[x].item.sequence \in 1..2
      BY <2>2 DEF ActiveRow, RevokedRow
    <2>4. e \in EventRow
      BY <2>3, RowIsTyped
    <2>5. EventIsSound(e) /\ e.credential = Cred(x) /\ e.sequence = held[x].item.sequence
          /\ e.operation # "initialize"
      BY <2>1, <2>2 DEF Row, EventIsSound, CommitOps, ActiveRow, RevokedRow
    <2>6. \A c \in Creds : credentials[c].sequence <= credentials'[c].sequence
      BY <1>3, <1>t, <1>r DEF StatusRead
    <2>7. e.sequence = credentials'[e.credential].sequence
      BY <1>3, <2>2, <2>5 DEF StatusRead
    <2>8. events' = Append(events, e)
      BY <1>3 DEF StatusRead, Log
    <2> QED
      BY <1>t, <2>4, <2>5, <2>6, <2>7, <2>8, LogStep
  <1>4. ASSUME NEW x \in Calls, Revoke(x) PROVE LogIsSound'
    <2> DEFINE e == Row(x, "revoked", RevokedSequence(x), "null")
    <2>1. server[x] = "writing" /\ held[x].item # Absent /\ Op(x) = "revoke"
      BY <1>4 DEF Revoke, Finish
    <2>2. held[x].item = credentials[Cred(x)] /\ held[x].item \in {ActiveRow, RevokedRow}
      BY <2>1, TransactionReads DEF CredentialRow
    <2>3. RevokedSequence(x) = 2
      BY <2>2 DEF RevokedSequence, ActiveRow, RevokedRow
    <2>4. e \in EventRow
      BY <2>3, RowIsTyped
    <2>5. EventIsSound(e) /\ e.credential = Cred(x) /\ e.sequence = 2
          /\ e.operation # "initialize"
      BY <2>1, <2>3 DEF Row, EventIsSound, CommitOps
    <2>6. credentials' = [credentials EXCEPT ![Cred(x)] = [status |-> "revoked", sequence |-> 2]]
      BY <1>4, <2>3 DEF Revoke
    <2>7. \A c \in Creds : credentials[c].sequence <= credentials'[c].sequence
      BY <2>6, <1>t, <1>r, RequestFacts
    <2>8. credentials'[Cred(x)].sequence = 2
      BY <2>6, <1>t, RequestFacts
    <2>9. events' = Append(events, e)
      BY <1>4 DEF Revoke, Log
    <2> QED
      BY <1>t, <2>4, <2>5, <2>7, <2>8, <2>9, LogStep
  <1>5. ASSUME NEW x \in Calls, Commit(x) PROVE LogIsSound'
    <2> DEFINE effect == IF Allowed(x) THEN "committed" ELSE "denied"
               e == Row(x, held[x].item.status, held[x].item.sequence, effect)
    <2>1. server[x] = "writing" /\ held[x].item # Absent /\ x \in CommitCalls
      BY <1>5 DEF Commit, Finish
    <2>2. held[x].item = credentials[Cred(x)] /\ held[x].item \in {ActiveRow, RevokedRow}
      BY <2>1, TransactionReads DEF CredentialRow
    <2>3. held[x].item.status \in {"active", "revoked"} /\ held[x].item.sequence \in 1..2
          /\ (held[x].item.sequence = 1 <=> held[x].item.status = "active")
      BY <2>2 DEF ActiveRow, RevokedRow
    <2>4. e \in EventRow
      BY <2>3, RowIsTyped
    <2>5. Op(x) \in CommitOps /\ Key(x) \in Keys
      BY <2>1, RequestFacts
    <2>6. Op(x) = "guarded_commit" => (effect = "committed" <=> held[x].item.status = "active")
      BY DEF Allowed
    <2>7. EventIsSound(e) /\ e.credential = Cred(x) /\ e.sequence = held[x].item.sequence
          /\ e.operation # "initialize"
      BY <2>3, <2>5, <2>6 DEF Row, EventIsSound, CommitOps
    <2>8. \A c \in Creds : credentials[c].sequence <= credentials'[c].sequence
      BY <1>5, <1>t, <1>r DEF Commit
    <2>9. e.sequence = credentials'[e.credential].sequence
      BY <1>5, <2>2, <2>7 DEF Commit
    <2>10. events' = Append(events, e)
      BY <1>5 DEF Commit, Log
    <2> QED
      BY <1>t, <2>4, <2>7, <2>8, <2>9, <2>10, LogStep
  <1> QED
    BY <1>1, <1>2, <1>3, <1>4, <1>5, OnlyTransactionsWrite

LEMMA TablesStayMatched ==
  TypeOK /\ TypeOK' /\ ReadsAreCurrent /\ TablesMatchLog /\ [Next]_vars => TablesMatchLog'
  <1> SUFFICES ASSUME TypeOK, TypeOK', ReadsAreCurrent, TablesMatchLog, [Next]_vars
               PROVE  TablesMatchLog'
    OBVIOUS
  <1> DEFINE L == Len(events)
  <1>0. L \in Nat /\ events \in Seq(EventRow)
    BY DEF TypeOK
  <1>1. CASE UNCHANGED tables
    BY <1>1 DEF TablesMatchLog, IsCommit, tables
  <1>2. ASSUME NEW x \in Calls, Initialize(x) \/ StatusRead(x) \/ Revoke(x)
        PROVE  TablesMatchLog'
    <2>1. PICK e : events' = Append(events, e) /\ e.operation \in StatusOps
      <3>1. Op(x) \in StatusOps
        BY <1>2 DEF Initialize, StatusRead, Revoke, StatusOps
      <3>2. \A status, sequence, effect : Row(x, status, sequence, effect).operation = Op(x)
        BY DEF Row
      <3>3. \E status, sequence : events' = Append(events, Row(x, status, sequence, "null"))
        BY <1>2 DEF Initialize, StatusRead, Revoke, Log
      <3> QED
        BY <3>1, <3>2, <3>3
    <2>2. UNCHANGED <<decisions, effects>>
      BY <1>2 DEF Initialize, StatusRead, Revoke
    <2>3. /\ Len(events') = L + 1
          /\ \A n \in 1..L : events'[n] = events[n]
          /\ events'[L + 1] = e
      BY <1>0, <2>1
    <2>4. e.operation \notin CommitOps
      BY <2>1 DEF StatusOps, CommitOps
    <2>5. ASSUME NEW n \in 1..(L + 1), events'[n].operation \in CommitOps
          PROVE  decisions'[events'[n].key] = n
      BY <1>0, <2>2, <2>3, <2>4, <2>5 DEF TablesMatchLog, IsCommit
    <2>6. ASSUME NEW k \in Keys
          PROVE  /\ decisions'[k] # 0 =>
                      /\ decisions'[k] \in 1..(L + 1)
                      /\ events'[decisions'[k]].key = k
                      /\ events'[decisions'[k]].operation \in CommitOps
                 /\ effects'[k] = IF decisions'[k] # 0 /\ events'[decisions'[k]].effect = "committed"
                                  THEN decisions'[k] ELSE 0
      BY <1>0, <2>2, <2>3 DEF TablesMatchLog, IsCommit
    <2> QED
      BY <2>3, <2>5, <2>6 DEF TablesMatchLog, IsCommit
  <1>3. ASSUME NEW x \in Calls, Commit(x) PROVE TablesMatchLog'
    <2> DEFINE effect == IF Allowed(x) THEN "committed" ELSE "denied"
               e == Row(x, held[x].item.status, held[x].item.sequence, effect)
    <2>1. /\ events' = Append(events, e)
          /\ decisions' = [decisions EXCEPT ![Key(x)] = L + 1]
          /\ effects' = IF Allowed(x) THEN [effects EXCEPT ![Key(x)] = L + 1] ELSE effects
      BY <1>3 DEF Commit, Log, Decided
    <2>2. Key(x) \in Keys /\ Op(x) \in CommitOps /\ decisions[Key(x)] = 0
      BY <1>3, RequestFacts, TransactionReads DEF Commit, Finish
    <2>3. e.key = Key(x) /\ e.operation = Op(x) /\ e.effect = effect
      BY DEF Row
    <2>4. /\ Len(events') = L + 1
          /\ \A n \in 1..L : events'[n] = events[n]
          /\ events'[L + 1] = e
      BY <1>0, <2>1
    <2>5. decisions \in [Keys -> Nat] /\ effects \in [Keys -> Nat]
      BY DEF TypeOK
    <2>6. ASSUME NEW n \in 1..(L + 1), events'[n].operation \in CommitOps
          PROVE  decisions'[events'[n].key] = n
      <3>1. CASE n = L + 1
        BY <3>1, <2>1, <2>2, <2>3, <2>4, <2>5
      <3>2. CASE n \in 1..L
        <4>1. decisions[events[n].key] = n /\ events'[n] = events[n]
          BY <3>2, <2>4, <2>6 DEF TablesMatchLog, IsCommit
        <4>2. events[n].key # Key(x)
          BY <4>1, <2>2, <3>2
        <4> QED
          BY <4>1, <4>2, <2>1, <2>5
      <3> QED
        BY <3>1, <3>2, <1>0
    <2>7. ASSUME NEW k \in Keys
          PROVE  /\ decisions'[k] # 0 =>
                      /\ decisions'[k] \in 1..(L + 1)
                      /\ events'[decisions'[k]].key = k
                      /\ events'[decisions'[k]].operation \in CommitOps
                 /\ effects'[k] = IF decisions'[k] # 0 /\ events'[decisions'[k]].effect = "committed"
                                  THEN decisions'[k] ELSE 0
      <3>1. CASE k = Key(x)
        <4>1. decisions'[k] = L + 1 /\ events'[decisions'[k]] = e
          BY <3>1, <2>1, <2>4, <2>5
        <4>2. effects[k] = 0
          BY <3>1, <2>2 DEF TablesMatchLog
        <4>3. effects'[k] = IF Allowed(x) THEN L + 1 ELSE 0
          BY <3>1, <4>2, <2>1, <2>5
        <4>4. e.effect = "committed" <=> Allowed(x)
          BY <2>3
        <4> QED
          BY <1>0, <3>1, <4>1, <4>3, <4>4, <2>2, <2>3
      <3>2. CASE k # Key(x)
        <4>1. decisions'[k] = decisions[k] /\ effects'[k] = effects[k]
          BY <3>2, <2>1, <2>5
        <4> QED
          BY <4>1, <2>4, <1>0 DEF TablesMatchLog, IsCommit
      <3> QED
        BY <3>1, <3>2
    <2> QED
      BY <2>4, <2>6, <2>7 DEF TablesMatchLog, IsCommit
  <1> QED
    BY <1>1, <1>2, <1>3, OnlyTransactionsWrite

-----------------------------------------------------------------------------
(* The lock and the answers.                                               *)

LEMMA ReadsStayCurrent ==
  TypeOK /\ ReadsAreCurrent /\ AnswersAreDecisions /\ [Next]_vars => ReadsAreCurrent'
  <1> SUFFICES ASSUME TypeOK, ReadsAreCurrent, AnswersAreDecisions, [Next]_vars
               PROVE  ReadsAreCurrent'
    OBVIOUS
  <1> USE DEF ReadsAreCurrent
  <1>t. /\ server \in [Calls -> {"idle", "proxied", "queued", "writing", "finished", "closed"}]
        /\ held \in [Calls -> [prior : Nat, item : CredentialRow]]
        /\ NoCall \notin Calls
    BY ConstantsAssumption DEF TypeOK
  <1>1. ASSUME NEW x \in Calls, Send(x) \/ DropRequest(x) \/ Forward(x) \/ GiveUp(x)
                               \/ LockTimeout(x) \/ Respond(x)
        PROVE  ReadsAreCurrent'
    <2>1. UNCHANGED tables /\ UNCHANGED lock
      BY <1>1 DEF Send, DropRequest, Forward, GiveUp, LockTimeout, Respond
    <2>2. \A y \in Calls : server'[y] = "writing" <=> server[y] = "writing"
      <3>1. CASE GiveUp(x)
        BY <3>1 DEF GiveUp
      <3>2. CASE ~ GiveUp(x)
        <4>1. PICK p : p # "writing" /\ server' = [server EXCEPT ![x] = p]
          BY <1>1, <3>2 DEF Send, DropRequest, Forward, LockTimeout, Respond
        <4>2. server[x] # "writing"
          <5>1. CASE Send(x)
            BY <5>1 DEF Send, AnswersAreDecisions
          <5> QED
            BY <1>1, <3>2, <5>1 DEF DropRequest, Forward, LockTimeout, Respond
        <4> QED
          BY <4>1, <4>2, <1>t
      <3> QED
        BY <3>1, <3>2
    <2> QED
      BY <2>1, <2>2 DEF tables, lock
  <1>2. ASSUME NEW x \in Calls, Begin(x) PROVE ReadsAreCurrent'
    BY <1>2, <1>t DEF Begin, LockIsFree, PriorDecision, tables
  <1>3. ASSUME NEW x \in Calls, Transact(x) PROVE ReadsAreCurrent'
    <2>1. /\ server[x] = "writing"
          /\ writer' = NoCall
          /\ \E p \in {"finished", "closed"} : server' = [server EXCEPT ![x] = p]
      BY <1>3 DEF Transact, Initialize, StatusRead, Revoke, Replay, Commit, Reject, Finish
    <2>2. \A y \in Calls : server'[y] # "writing"
      BY <2>1, <1>t
    <2> QED
      BY <2>1, <2>2, <1>t
  <1>4. ASSUME NEW i \in Instances, Stop(i) PROVE ReadsAreCurrent'
    <2> DEFINE Killed(x) == /\ request[x].instance = i
                            /\ server[x] \in {"queued", "writing", "finished"}
    <2>1. /\ server' = [x \in Calls |-> IF Killed(x) THEN "closed" ELSE server[x]]
          /\ writer' = IF \E x \in Calls : Killed(x) /\ x = writer THEN NoCall ELSE writer
          /\ held' = [x \in Calls |-> IF Killed(x) THEN NoRead ELSE held[x]]
          /\ UNCHANGED tables
      BY <1>4 DEF Stop
    <2>2. ASSUME NEW y \in Calls
          PROVE  server'[y] = "writing" <=> writer' = y
      BY <2>1, <1>t
    <2>3. ASSUME NEW y \in Calls, server'[y] = "writing"
          PROVE  server[y] = "writing" /\ held'[y] = held[y]
      BY <2>1, <2>3, <1>t
    <2> QED
      BY <2>1, <2>2, <2>3 DEF tables
  <1>5. CASE UNCHANGED vars
    BY <1>5 DEF vars, tables, lock
  <1> QED
    BY <1>1, <1>2, <1>3, <1>4, <1>5 DEF Next, Transact

LEMMA AnswersStayDecisions ==
  TypeOK /\ TypeOK' /\ ReadsAreCurrent /\ AnswersAreDecisions /\ [Next]_vars
    => AnswersAreDecisions'
  <1> SUFFICES ASSUME TypeOK, TypeOK', ReadsAreCurrent, AnswersAreDecisions, [Next]_vars
               PROVE  AnswersAreDecisions'
    OBVIOUS
  <1> USE DEF AnswersAreDecisions
  <1>t. /\ server \in [Calls -> {"idle", "proxied", "queued", "writing", "finished", "closed"}]
        /\ client \in [Calls -> {"unsent", "waiting", "answered", "failed"}]
        /\ answer \in [Calls -> [event : Nat, replay : BOOLEAN]]
        /\ decisions \in [Keys -> Nat]
        /\ \A y \in CommitCalls : y \in Calls /\ Key(y) \in Keys
    BY RequestFacts DEF TypeOK, CommitCalls
  <1>1. ASSUME NEW x \in Calls, Send(x) PROVE AnswersAreDecisions'
    <2>1. /\ client' = [client EXCEPT ![x] = "waiting"]
          /\ \E p \in {"queued", "proxied"} : server' = [server EXCEPT ![x] = p]
          /\ UNCHANGED <<answer, decisions>>
      BY <1>1 DEF Send, tables
    <2> QED
      BY <2>1, <1>t
  <1>2. ASSUME NEW x \in Calls, DropRequest(x) \/ LockTimeout(x) \/ Reject(x)
        PROVE  AnswersAreDecisions'
    <2>1. /\ client' = [client EXCEPT ![x] = IF @ = "waiting" THEN "failed" ELSE @]
          /\ server' = [server EXCEPT ![x] = "closed"]
          /\ server[x] \notin {"idle", "closed"}
          /\ UNCHANGED <<answer, decisions>>
      BY <1>2 DEF DropRequest, LockTimeout, Reject, Lost, tables
    <2> QED
      BY <2>1, <1>t
  <1>3. ASSUME NEW x \in Calls, Forward(x) \/ Begin(x) PROVE AnswersAreDecisions'
    <2>1. /\ \E p \in {"queued", "writing"} : server' = [server EXCEPT ![x] = p]
          /\ server[x] \notin {"idle", "closed"}
          /\ UNCHANGED <<answer, client, decisions>>
      BY <1>3 DEF Forward, Begin, tables
    <2> QED
      BY <2>1, <1>t
  <1>4. ASSUME NEW x \in Calls, GiveUp(x) PROVE AnswersAreDecisions'
    BY <1>4, <1>t DEF GiveUp, tables
  <1>5. ASSUME NEW x \in Calls, Initialize(x) \/ StatusRead(x) \/ Revoke(x)
        PROVE  AnswersAreDecisions'
    <2>1. /\ x \notin CommitCalls
          /\ server[x] = "writing"
          /\ server' = [server EXCEPT ![x] = "finished"]
          /\ \E a : answer' = [answer EXCEPT ![x] = a]
          /\ UNCHANGED <<client, decisions>>
      BY <1>5 DEF Initialize, StatusRead, Revoke, Finish, CommitCalls, CommitOps
    <2> QED
      BY <2>1, <1>t
  <1>6. ASSUME NEW x \in Calls, Replay(x) PROVE AnswersAreDecisions'
    <2>1. /\ server[x] = "writing"
          /\ server' = [server EXCEPT ![x] = "finished"]
          /\ answer' = [answer EXCEPT ![x] = [event |-> held[x].prior, replay |-> TRUE]]
          /\ held[x].prior # 0
          /\ UNCHANGED <<client, decisions>>
      BY <1>6 DEF Replay, Finish, tables
    <2>2. x \in CommitCalls => held[x].prior = decisions[Key(x)]
      BY <2>1, TransactionReads
    <2> QED
      BY <2>1, <2>2, <1>t
  <1>7. ASSUME NEW x \in Calls, Commit(x) PROVE AnswersAreDecisions'
    <2> DEFINE n == Len(events) + 1
    <2>1. /\ server[x] = "writing"
          /\ server' = [server EXCEPT ![x] = "finished"]
          /\ answer' = [answer EXCEPT ![x] = [event |-> n, replay |-> FALSE]]
          /\ decisions' = [decisions EXCEPT ![Key(x)] = n]
          /\ UNCHANGED client
      BY <1>7 DEF Commit, Finish, Decided
    <2>2. n \in Nat /\ n # 0
      BY DEF TypeOK
    <2>3. decisions[Key(x)] = 0 /\ x \in CommitCalls
      BY <1>7, <2>1, TransactionReads DEF Commit
    <2>4. ASSUME NEW y \in CommitCalls, server'[y] = "finished" \/ client'[y] = "answered"
          PROVE  answer'[y].event = decisions'[Key(y)] /\ decisions'[Key(y)] # 0
      <3>1. CASE y = x
        BY <3>1, <2>1, <2>2, <2>3, <1>t
      <3>2. CASE y # x
        <4>1. answer[y].event = decisions[Key(y)] /\ decisions[Key(y)] # 0
          BY <3>2, <2>1, <2>4, <1>t
        <4>2. Key(y) # Key(x)
          BY <4>1, <2>3
        <4> QED
          BY <3>2, <4>1, <4>2, <2>1, <1>t
      <3> QED
        BY <3>1, <3>2
    <2>5. ASSUME NEW y \in Calls
          PROVE  /\ client'[y] = "unsent" => server'[y] = "idle"
                 /\ client'[y] = "answered" => server'[y] = "closed"
      BY <2>1, <1>t
    <2> QED
      BY <2>4, <2>5
  <1>8. ASSUME NEW x \in Calls, Respond(x) PROVE AnswersAreDecisions'
    <2>1. /\ server[x] = "finished"
          /\ server' = [server EXCEPT ![x] = "closed"]
          /\ \E c : c # "unsent" /\ (client[x] # "unsent" => client' = [client EXCEPT ![x] = c])
          /\ UNCHANGED <<answer, decisions>>
      BY <1>8, <1>t DEF Respond, tables
    <2> QED
      BY <2>1, <1>t
  <1>9. ASSUME NEW i \in Instances, Stop(i) PROVE AnswersAreDecisions'
    <2> DEFINE Killed(x) == /\ request[x].instance = i
                            /\ server[x] \in {"queued", "writing", "finished"}
    <2>1. /\ server' = [x \in Calls |-> IF Killed(x) THEN "closed" ELSE server[x]]
          /\ client' = [x \in Calls |->
               IF Killed(x) /\ client[x] = "waiting" THEN "failed" ELSE client[x]]
          /\ UNCHANGED <<answer, decisions>>
      BY <1>9 DEF Stop, tables
    <2> QED
      BY <2>1, <1>t
  <1>10. CASE UNCHANGED vars
    BY <1>10 DEF vars, tables, lock
  <1> QED
    BY <1>1, <1>2, <1>3, <1>4, <1>5, <1>6, <1>7, <1>8, <1>9, <1>10 DEF Next

-----------------------------------------------------------------------------
(* The theorems.                                                           *)

LEMMA IInvInit == Init => IInv
  <1> SUFFICES ASSUME Init PROVE IInv
    OBVIOUS
  <1>1. TypeOK
    BY TypeInit
  <1>2. ReadsAreCurrent /\ AnswersAreDecisions
    BY ConstantsAssumption, RequestFacts DEF Init, ReadsAreCurrent, AnswersAreDecisions
  <1>3. Len(events) = 0
    BY DEF Init
  <1>4. LogIsSound /\ TablesMatchLog
    BY <1>3 DEF Init, LogIsSound, TablesMatchLog
  <1> QED
    BY <1>1, <1>2, <1>4 DEF IInv

LEMMA IInvStep == IInv /\ [Next]_vars => IInv'
  BY TypeStep, LogStaysSound, TablesStayMatched, ReadsStayCurrent, AnswersStayDecisions
  DEF IInv

(* The inductive invariant holds throughout. *)
THEOREM Invariance == Spec => []IInv
  BY IInvInit, IInvStep, PTL DEF Spec

(* The safety properties of a state follow from the inductive invariant. *)
LEMMA IInvImpliesSafety ==
  IInv => NoFalseAllow /\ OneDecisionPerKey /\ AnswersAreDurable /\ LogIsLinear
  <1> SUFFICES ASSUME IInv
               PROVE  NoFalseAllow /\ OneDecisionPerKey /\ AnswersAreDurable /\ LogIsLinear
    OBVIOUS
  <1> USE DEF IInv
  <1>t. /\ Len(events) \in Nat
        /\ \A n \in 1..Len(events) :
             events[n].sequence \in 1..2 /\ events[n].status \in {"active", "revoked"}
    <2>1. Len(events) \in Nat /\ \A n \in 1..Len(events) : events[n] \in EventRow
      BY DEF TypeOK
    <2> QED
      BY <2>1 DEF EventRow
  <1>s. \A n \in 1..Len(events) : EventIsSound(events[n])
    BY DEF LogIsSound
  <1>1. LogIsLinear
    BY <1>t, <1>s DEF LogIsLinear, LogIsSound, EventIsSound
  <1>2. NoFalseAllow
    <2> SUFFICES ASSUME NEW r \in 1..Len(events), NEW n \in 1..Len(events),
                        r < n, events[r].operation = "revoke",
                        events[n].operation = "guarded_commit",
                        events[n].effect = "committed",
                        events[r].credential = events[n].credential
                 PROVE  FALSE
      BY DEF NoFalseAllow
    <2>1. events[r].sequence = 2 /\ events[n].sequence = 1
      BY <1>t, <1>s DEF EventIsSound
    <2>2. events[r].sequence <= events[n].sequence
      BY DEF LogIsSound
    <2> QED
      BY <2>1, <2>2
  <1>3. OneDecisionPerKey
    <2> SUFFICES ASSUME NEW n \in 1..Len(events), IsCommit(n)
                 PROVE  /\ decisions[events[n].key] = n
                        /\ effects[events[n].key] = IF events[n].effect = "committed" THEN n ELSE 0
      BY DEF OneDecisionPerKey
    <2>1. decisions[events[n].key] = n /\ n # 0
      BY <1>t DEF TablesMatchLog
    <2>2. events[n].key \in Keys
      BY <1>s DEF EventIsSound, IsCommit
    <2> QED
      BY <2>1, <2>2 DEF TablesMatchLog
  <1>4. AnswersAreDurable
    <2> SUFFICES ASSUME NEW x \in Calls, Answered(x)
                 PROVE  /\ answer[x].event = decisions[Key(x)]
                        /\ answer[x].event \in 1..Len(events)
                        /\ (events[answer[x].event].effect = "committed") <=> (effects[Key(x)] # 0)
      BY DEF AnswersAreDurable
    <2>1. x \in CommitCalls /\ Key(x) \in Keys
      BY RequestFacts DEF Answered
    <2>2. answer[x].event = decisions[Key(x)] /\ decisions[Key(x)] # 0
      BY <2>1 DEF AnswersAreDecisions, Answered
    <2> QED
      BY <2>1, <2>2 DEF TablesMatchLog
  <1> QED
    BY <1>1, <1>2, <1>3, <1>4

(* For every set of clients and every number of outages, no guarded commit *)
(* takes effect after the revocation of its credential.                    *)
THEOREM GuardIsSafe == Spec => []NoFalseAllow
  BY Invariance, IInvImpliesSafety, PTL

(* For every set of clients, a key is decided once and the tables say so. *)
THEOREM DecidedOnce == Spec => []OneDecisionPerKey
  BY Invariance, IInvImpliesSafety, PTL

(* Whatever any caller was ever told about a key is the durable decision. *)
THEOREM AnswersNeverDisagree == Spec => []AnswersAreDurable
  BY Invariance, IInvImpliesSafety, PTL

(* The event log is one linear history of every credential. *)
THEOREM LogLinear == Spec => []LogIsLinear
  BY Invariance, IInvImpliesSafety, PTL

-----------------------------------------------------------------------------
(* The containers implement the abstract service.                          *)

LEMMA MappedInit == Init => Promise!AbsInit
  BY RequestFacts DEF Init, Promise!AbsInit, StatusMap, OutcomeMap, HeardMap, Decision,
     Absent, NoAnswer, CommitCalls

(* A call that carries a key asks for the effect of the key's credential   *)
(* in the key's profile.                                                   *)
LEMMA KeyFacts ==
  ASSUME NEW x \in CommitCalls
  PROVE  /\ x \in Calls
         /\ Key(x) \in Keys
         /\ KeyCred[Key(x)] = Cred(x)
         /\ Key(x) \in GuardedKeys <=> Op(x) = "guarded_commit"
  <1>1. x \in Calls /\ Key(x) \in Keys
    BY RequestFacts DEF CommitCalls
  <1> DEFINE y == CHOOSE y \in CommitCalls : Key(y) = Key(x)
  <1>2. y \in CommitCalls /\ Key(y) = Key(x)
    OBVIOUS
  <1>3. y \in Calls
    BY <1>2 DEF CommitCalls
  <1>4. Cred(y) = Cred(x)
    BY <1>1, <1>2, <1>3, KeyAssumption DEF Key, Cred
  <1>5. KeyCred[Key(x)] = Cred(y)
    BY <1>1 DEF KeyCred
  <1>6. Key(x) \in GuardedKeys <=> Op(x) = "guarded_commit"
    BY <1>1, KeyAssumption DEF GuardedKeys, Key, Op
  <1> QED
    BY <1>1, <1>4, <1>5, <1>6

(* What a step does to the mapped variables when it only appends to the    *)
(* log.                                                                    *)
LEMMA DecisionsKeepTheirMeaning ==
  ASSUME TypeOK, NEW e, events' = Append(events, e), NEW n \in 0..Len(events)
  PROVE  Decision(n)' = Decision(n)
  <1>1. n # 0 => events'[n] = events[n]
    BY DEF TypeOK
  <1> QED
    BY <1>1 DEF Decision

LEMMA MappedRanges ==
  ASSUME IInv
  PROVE  /\ \A k \in Keys : decisions[k] \in 0..Len(events)
         /\ \A x \in CommitCalls : client[x] = "answered" => answer[x].event \in 0..Len(events)
         /\ \A x \in CommitCalls : x \in Calls /\ Key(x) \in Keys
  <1>1. Len(events) \in Nat
    BY DEF IInv, TypeOK
  <1>2. \A k \in Keys : decisions[k] \in 0..Len(events)
    BY <1>1 DEF IInv, TablesMatchLog
  <1>3. \A x \in CommitCalls : x \in Calls /\ Key(x) \in Keys
    BY RequestFacts DEF CommitCalls
  <1> QED
    BY <1>2, <1>3 DEF IInv, AnswersAreDecisions

LEMMA MappedStep == IInv /\ IInv' /\ [Next]_vars => [Promise!AbsNext]_(Promise!absVars)
  <1> SUFFICES ASSUME IInv, IInv', [Next]_vars
               PROVE  Promise!AbsNext \/ UNCHANGED <<StatusMap, OutcomeMap, HeardMap>>
    BY DEF Promise!absVars
  <1>t. /\ TypeOK
        /\ server \in [Calls -> {"idle", "proxied", "queued", "writing", "finished", "closed"}]
        /\ client \in [Calls -> {"unsent", "waiting", "answered", "failed"}]
        /\ credentials \in [Creds -> CredentialRow]
        /\ decisions \in [Keys -> Nat]
        /\ AnswersAreDecisions
        /\ ReadsAreCurrent
    BY DEF IInv, TypeOK
  \* A step that touches neither the tables nor the set of answered calls.
  <1>q. ASSUME UNCHANGED tables,
               \A y \in CommitCalls : client'[y] = "answered" <=> client[y] = "answered",
               \A y \in CommitCalls : client[y] = "answered" => answer'[y] = answer[y]
        PROVE  UNCHANGED <<StatusMap, OutcomeMap, HeardMap>>
    BY <1>q DEF tables, StatusMap, OutcomeMap, HeardMap, Decision
  <1>1. ASSUME NEW x \in Calls,
               Send(x) \/ DropRequest(x) \/ Forward(x) \/ GiveUp(x) \/ Begin(x)
                 \/ LockTimeout(x) \/ Reject(x)
        PROVE  UNCHANGED <<StatusMap, OutcomeMap, HeardMap>>
    <2>1. UNCHANGED tables /\ UNCHANGED answer
      BY <1>1 DEF Send, DropRequest, Forward, GiveUp, Begin, LockTimeout, Reject
    <2>2. \/ UNCHANGED client
          \/ /\ client[x] # "answered"
             /\ \E c : c # "answered" /\ client' = [client EXCEPT ![x] = c]
      BY <1>1, <1>t DEF Send, DropRequest, Forward, GiveUp, Begin, LockTimeout, Reject, Lost
    <2>3. \A y \in CommitCalls : client'[y] = "answered" <=> client[y] = "answered"
      BY <2>2, <1>t DEF CommitCalls
    <2> QED
      BY <2>1, <2>3, <1>q
  <1>2. ASSUME NEW x \in Calls, Replay(x)
        PROVE  UNCHANGED <<StatusMap, OutcomeMap, HeardMap>>
    <2>1. /\ UNCHANGED tables /\ UNCHANGED client
          /\ server[x] = "writing"
          /\ \E a : answer' = [answer EXCEPT ![x] = a]
      BY <1>2 DEF Replay, Finish
    <2>2. client[x] # "answered"
      BY <2>1, <1>t DEF AnswersAreDecisions
    <2>3. \A y \in CommitCalls : client[y] = "answered" => answer'[y] = answer[y]
      BY <2>1, <2>2 DEF CommitCalls, IInv, TypeOK
    <2> QED
      BY <2>1, <2>3, <1>q
  <1>3. ASSUME NEW i \in Instances, Stop(i)
        PROVE  UNCHANGED <<StatusMap, OutcomeMap, HeardMap>>
    <2>1. UNCHANGED tables /\ UNCHANGED answer
      BY <1>3 DEF Stop
    <2>2. \A y \in CommitCalls : client'[y] = "answered" <=> client[y] = "answered"
      BY <1>3, <1>t DEF Stop, CommitCalls
    <2> QED
      BY <2>1, <2>2, <1>q
  \* A transaction that appends an event and decides no key.
  <1>4. ASSUME NEW x \in Calls, Initialize(x) \/ StatusRead(x) \/ Revoke(x)
        PROVE  UNCHANGED <<OutcomeMap, HeardMap>>
    <2>1. \E e : events' = Append(events, e)
      BY <1>4 DEF Initialize, StatusRead, Revoke, Log
    <2>2. UNCHANGED <<decisions, client>> /\ x \notin CommitCalls
          /\ \E a : answer' = [answer EXCEPT ![x] = a]
      BY <1>4 DEF Initialize, StatusRead, Revoke, Finish, CommitCalls, CommitOps
    <2>3. \A y \in CommitCalls : answer'[y] = answer[y]
      BY <2>2 DEF CommitCalls, IInv, TypeOK
    <2>4. \A n \in 0..Len(events) : Decision(n)' = Decision(n)
      BY <2>1, <1>t, DecisionsKeepTheirMeaning
    <2>5. UNCHANGED OutcomeMap
      BY <2>2, <2>4, MappedRanges DEF OutcomeMap, Decision
    <2>6. UNCHANGED HeardMap
      BY <2>2, <2>3, <2>4, MappedRanges DEF HeardMap, Decision
    <2> QED
      BY <2>5, <2>6
  <1>5. ASSUME NEW x \in Calls, Initialize(x) PROVE Promise!AbsNext
    <2>1. credentials[Cred(x)] = Absent /\ Cred(x) \in Creds
      BY <1>5, <1>t, TransactionReads, RequestFacts DEF Initialize, Finish
    <2>2. credentials' = [credentials EXCEPT ![Cred(x)] = [status |-> "active", sequence |-> 1]]
      BY <1>5 DEF Initialize
    <2>3. UNCHANGED <<OutcomeMap, HeardMap>>
      BY <1>4, <1>5
    <2>4. StatusMap[Cred(x)] = "absent"
      BY <2>1 DEF StatusMap, Absent
    <2>5. StatusMap' = [StatusMap EXCEPT ![Cred(x)] = "active"]
      BY <2>1, <2>2, <1>t DEF StatusMap
    <2>6. Promise!Enroll(Cred(x))
      BY <2>3, <2>4, <2>5 DEF Promise!Enroll
    <2> QED
      BY <2>1, <2>6 DEF Promise!AbsNext
  <1>6. ASSUME NEW x \in Calls, StatusRead(x)
        PROVE  UNCHANGED <<StatusMap, OutcomeMap, HeardMap>>
    BY <1>6, <1>4 DEF StatusRead, StatusMap
  <1>7. ASSUME NEW x \in Calls, Revoke(x)
        PROVE  Promise!AbsNext \/ UNCHANGED <<StatusMap, OutcomeMap, HeardMap>>
    <2>1. credentials[Cred(x)] \in {ActiveRow, RevokedRow} /\ Cred(x) \in Creds
      BY <1>7, <1>t, TransactionReads, RequestFacts DEF Revoke, Finish, CredentialRow
    <2>2. credentials' = [credentials EXCEPT ![Cred(x)] =
                            [status |-> "revoked", sequence |-> RevokedSequence(x)]]
      BY <1>7 DEF Revoke
    <2>3. CASE credentials[Cred(x)] = ActiveRow
      <3>1. UNCHANGED <<OutcomeMap, HeardMap>>
        BY <1>4, <1>7
      <3>2. StatusMap[Cred(x)] = "active"
        BY <2>1, <2>3 DEF StatusMap, ActiveRow
      <3>3. StatusMap' = [StatusMap EXCEPT ![Cred(x)] = "revoked"]
        BY <2>1, <2>2, <1>t DEF StatusMap
      <3>4. Promise!Withdraw(Cred(x))
        BY <3>1, <3>2, <3>3 DEF Promise!Withdraw
      <3> QED
        BY <2>1, <3>4 DEF Promise!AbsNext
    <2>4. CASE credentials[Cred(x)] = RevokedRow
      <3>1. UNCHANGED StatusMap
        BY <2>1, <2>2, <2>4, <1>t DEF StatusMap, RevokedRow
      <3> QED
        BY <3>1, <1>4, <1>7
    <2> QED
      BY <2>1, <2>3, <2>4
  <1>8. ASSUME NEW x \in Calls, Commit(x) PROVE Promise!AbsNext
    <2> DEFINE k == Key(x)
               n == Len(events) + 1
               effect == IF Allowed(x) THEN "committed" ELSE "denied"
               e == Row(x, held[x].item.status, held[x].item.sequence, effect)
    <2>1. /\ x \in CommitCalls
          /\ server[x] = "writing"
          /\ held[x].item # Absent
          /\ events' = Append(events, e)
          /\ decisions' = [decisions EXCEPT ![k] = n]
          /\ answer' = [answer EXCEPT ![x] = [event |-> n, replay |-> FALSE]]
          /\ UNCHANGED <<credentials, client>>
      BY <1>8 DEF Commit, Finish, Log, Decided
    <2>2. held[x].item = credentials[Cred(x)] /\ decisions[k] = 0
      BY <1>8, <2>1, <1>t, TransactionReads DEF Commit
    <2>3. k \in Keys /\ KeyCred[k] = Cred(x) /\ Cred(x) \in Creds
          /\ (k \in GuardedKeys <=> Op(x) = "guarded_commit")
      BY <2>1, KeyFacts, RequestFacts
    <2>4. \A m \in 0..Len(events) : Decision(m)' = Decision(m)
      BY <2>1, <1>t, DecisionsKeepTheirMeaning
    <2>5. events'[n] = e /\ n # 0 /\ e.effect = effect
      BY <2>1, <1>t DEF TypeOK, Row
    <2>6. OutcomeMap' = [OutcomeMap EXCEPT ![k] = effect]
      <3>1. ASSUME NEW j \in Keys, j # k
            PROVE  Decision(decisions[j])' = Decision(decisions[j])
        <4>1. decisions'[j] = decisions[j] /\ decisions[j] \in 0..Len(events)
          BY <3>1, <2>1, <1>t, MappedRanges
        <4> QED
          BY <4>1, <2>4 DEF Decision
      <3>2. Decision(decisions[k])' = effect
        BY <2>1, <2>3, <2>5, <1>t DEF Decision
      <3> QED
        BY <3>1, <3>2 DEF OutcomeMap
    <2>7. UNCHANGED HeardMap
      <3>1. client[x] # "answered"
        BY <2>1, <1>t DEF AnswersAreDecisions
      <3>2. \A y \in CommitCalls : client[y] = "answered" => answer'[y] = answer[y]
        BY <2>1, <3>1 DEF CommitCalls, IInv, TypeOK
      <3> QED
        BY <2>1, <2>4, <3>2, MappedRanges DEF HeardMap, Decision
    <2>8. UNCHANGED StatusMap
      BY <2>1 DEF StatusMap
    <2>9. credentials[Cred(x)].status \in {"active", "revoked"}
      BY <2>1, <2>2, <2>3, <1>t, PresentRow
    <2>10. effect = IF k \in GuardedKeys /\ StatusMap[KeyCred[k]] = "revoked"
                    THEN "denied" ELSE "committed"
      BY <2>2, <2>3, <2>9 DEF Allowed, StatusMap
    <2>11. OutcomeMap[k] = "undecided" /\ StatusMap[KeyCred[k]] # "absent"
      BY <2>2, <2>3, <2>9 DEF OutcomeMap, Decision, StatusMap
    <2>12. Promise!Decide(k)
      BY <2>3, <2>6, <2>7, <2>8, <2>10, <2>11 DEF Promise!Decide
    <2> QED
      BY <2>3, <2>12 DEF Promise!AbsNext
  <1>9. ASSUME NEW x \in Calls, Respond(x)
        PROVE  Promise!AbsNext \/ UNCHANGED <<StatusMap, OutcomeMap, HeardMap>>
    <2>1. /\ server[x] = "finished"
          /\ UNCHANGED tables /\ UNCHANGED answer
          /\ client' = [client EXCEPT ![x] =
               IF @ # "waiting" THEN @
               ELSE IF fault[x] = "drop_after_forward" THEN "failed" ELSE "answered"]
      BY <1>9 DEF Respond
    <2>2. UNCHANGED <<StatusMap, OutcomeMap>>
      BY <2>1 DEF tables, StatusMap, OutcomeMap, Decision
    <2>3. CASE x \in CommitCalls /\ client'[x] = "answered" /\ client[x] # "answered"
      <3>1. HeardMap[x] = "nothing"
        BY <2>3 DEF HeardMap
      <3>2. answer[x].event = decisions[Key(x)] /\ decisions[Key(x)] # 0 /\ Key(x) \in Keys
        BY <2>1, <2>3, <1>t, KeyFacts DEF AnswersAreDecisions
      <3>3. OutcomeMap[Key(x)] = Decision(answer[x].event)
        BY <3>2 DEF OutcomeMap
      <3>4. OutcomeMap[Key(x)] # "undecided"
        <4>1. decisions[Key(x)] \in 1..Len(events) /\ IsCommit(decisions[Key(x)])
          BY <3>2 DEF IInv, TablesMatchLog
        <4>2. events[decisions[Key(x)]] \in EventRow
          BY <4>1, <1>t DEF TypeOK
        <4> QED
          BY <3>2, <4>2 DEF OutcomeMap, Decision, EventRow
      <3>5. HeardMap' = [HeardMap EXCEPT ![x] = OutcomeMap[Key(x)]]
        BY <2>1, <2>3, <3>3, <1>t DEF HeardMap, Decision, CommitCalls, tables
      <3>6. CallKey[x] = Key(x)
        BY <2>3 DEF CallKey
      <3>7. Promise!Hear(x)
        BY <2>2, <3>1, <3>4, <3>5, <3>6 DEF Promise!Hear
      <3> QED
        BY <2>3, <3>7 DEF Promise!AbsNext
    <2>4. CASE ~ (x \in CommitCalls /\ client'[x] = "answered" /\ client[x] # "answered")
      <3>1. \A y \in CommitCalls : client'[y] = "answered" <=> client[y] = "answered"
        BY <2>1, <2>4, <1>t DEF CommitCalls
      <3> QED
        BY <2>1, <3>1, <1>q
    <2> QED
      BY <2>3, <2>4
  <1>10. CASE UNCHANGED vars
    BY <1>10, <1>q DEF vars
  <1> QED
    BY <1>1, <1>2, <1>3, <1>5, <1>6, <1>7, <1>8, <1>9, <1>10 DEF Next

(* The containers, the proxy and the clients implement AtomicDecision: no  *)
(* interleaving, loss, retry or stop shows a caller anything the abstract  *)
(* service could not have shown it.                                        *)
THEOREM Refinement == Spec => ImplementsPromise
  <1>1. Init => Promise!AbsInit
    BY MappedInit
  <1>2. IInv /\ IInv' /\ [Next]_vars => [Promise!AbsNext]_(Promise!absVars)
    BY MappedStep
  <1> QED
    BY <1>1, <1>2, Invariance, PTL DEF Spec, ImplementsPromise, Promise!AbsSpec

-----------------------------------------------------------------------------
(* Revocations that have been acknowledged.                                *)

(* A revoke that was served has revoked its credential for good, and a key *)
(* that is decided has been asked for.                                     *)
ServedRevokes ==
  \A y \in Calls :
    Op(y) = "revoke" /\ (server[y] = "finished" \/ client[y] = "answered") =>
      credentials[Cred(y)].status = "revoked"

DecidedWasSent ==
  \A k \in Keys : decisions[k] # 0 =>
    \E x \in CommitCalls : Key(x) = k /\ client[x] # "unsent"

(* A credential that is revoked stays so: only initialize makes one active. *)
LEMMA RevokedForGood ==
  ASSUME IInv, [Next]_vars, NEW c \in Creds, credentials[c].status = "revoked"
  PROVE  credentials'[c].status = "revoked"
  <1>1. credentials \in [Creds -> CredentialRow]
    BY DEF IInv, TypeOK
  <1>2. CASE UNCHANGED tables
    BY <1>2 DEF tables
  <1>3. ASSUME NEW x \in Calls, Initialize(x) PROVE credentials'[c].status = "revoked"
    <2>1. credentials[Cred(x)] = Absent /\ Cred(x) \in Creds
      BY <1>3, TransactionReads, RequestFacts DEF Initialize, Finish, IInv
    <2>2. c # Cred(x)
      BY <2>1 DEF Absent
    <2> QED
      BY <1>1, <1>3, <2>1, <2>2 DEF Initialize
  <1>4. ASSUME NEW x \in Calls, Revoke(x) PROVE credentials'[c].status = "revoked"
    <2>1. \E s : credentials' =
            [credentials EXCEPT ![Cred(x)] = [status |-> "revoked", sequence |-> s]]
      BY <1>4 DEF Revoke
    <2> QED
      BY <1>1, <2>1
  <1>5. ASSUME NEW x \in Calls, StatusRead(x) \/ Commit(x)
        PROVE  credentials'[c].status = "revoked"
    BY <1>5 DEF StatusRead, Commit
  <1> QED
    BY <1>2, <1>3, <1>4, <1>5, OnlyTransactionsWrite

LEMMA ServedRevokesStep == IInv /\ ServedRevokes /\ [Next]_vars => ServedRevokes'
  <1> SUFFICES ASSUME IInv, ServedRevokes, [Next]_vars,
                      NEW y \in Calls, Op(y) = "revoke",
                      server'[y] = "finished" \/ client'[y] = "answered"
               PROVE  credentials'[Cred(y)].status = "revoked"
    BY DEF ServedRevokes
  <1>t. /\ server \in [Calls -> {"idle", "proxied", "queued", "writing", "finished", "closed"}]
        /\ client \in [Calls -> {"unsent", "waiting", "answered", "failed"}]
        /\ credentials \in [Creds -> CredentialRow]
        /\ Cred(y) \in Creds /\ y \notin CommitCalls
    BY RequestFacts DEF IInv, TypeOK, CommitCalls, CommitOps
  <1>1. CASE server[y] = "finished" \/ client[y] = "answered"
    BY <1>1, <1>t, RevokedForGood DEF ServedRevokes
  <1>2. CASE server[y] # "finished" /\ client[y] # "answered"
    <2>1. ASSUME NEW x \in Calls,
                 \/ Send(x) \/ DropRequest(x) \/ Forward(x) \/ GiveUp(x) \/ Begin(x)
                 \/ LockTimeout(x) \/ Reject(x) \/ Respond(x)
          PROVE  FALSE
      <3>1. server'[y] # "finished"
        BY <1>2, <1>t, <2>1 DEF Send, DropRequest, Forward, GiveUp, Begin, LockTimeout,
           Reject, Respond
      <3>2. client'[y] = "answered" => Respond(x) /\ x = y
        BY <1>2, <1>t, <2>1 DEF Send, DropRequest, Forward, GiveUp, Begin, LockTimeout,
           Reject, Respond, Lost
      <3> QED
        BY <1>2, <3>1, <3>2 DEF Respond
    <2>2. ASSUME NEW x \in Calls,
                 Initialize(x) \/ StatusRead(x) \/ Revoke(x) \/ Replay(x) \/ Commit(x)
          PROVE  x = y /\ Revoke(y)
      <3>1. /\ server' = [server EXCEPT ![x] = "finished"] /\ client' = client
        BY <2>2 DEF Initialize, StatusRead, Revoke, Replay, Commit, Finish
      <3>2. x = y
        BY <1>2, <1>t, <3>1
      <3> QED
        BY <1>t, <2>2, <3>2 DEF Initialize, StatusRead, Replay, Commit
    <2>3. ASSUME NEW i \in Instances, Stop(i) PROVE FALSE
      <3>1. server'[y] # "finished"
        BY <1>2, <1>t, <2>3 DEF Stop
      <3>2. client'[y] # "answered"
        BY <1>2, <1>t, <2>3 DEF Stop
      <3> QED
        BY <3>1, <3>2
    <2>4. CASE UNCHANGED vars
      BY <1>2, <2>4 DEF vars
    <2>5. CASE Revoke(y)
      BY <1>t, <2>5 DEF Revoke
    <2> QED
      BY <2>1, <2>2, <2>3, <2>4, <2>5 DEF Next
  <1> QED
    BY <1>1, <1>2

LEMMA SentForGood ==
  ASSUME TypeOK, [Next]_vars, NEW x \in Calls, client[x] # "unsent"
  PROVE  client'[x] # "unsent"
  <1>t. client \in [Calls -> {"unsent", "waiting", "answered", "failed"}]
    BY DEF TypeOK
  <1>1. ASSUME NEW y \in Calls,
               Send(y) \/ DropRequest(y) \/ GiveUp(y) \/ LockTimeout(y) \/ Reject(y) \/ Respond(y)
        PROVE  client'[x] # "unsent"
    <2>1. \E c \in {"waiting", "answered", "failed", client[y]} :
            client' = [client EXCEPT ![y] = c]
      BY <1>1 DEF Send, DropRequest, GiveUp, LockTimeout, Reject, Respond, Lost
    <2> QED
      BY <1>t, <2>1
  <1>2. ASSUME NEW y \in Calls,
               \/ Forward(y) \/ Begin(y) \/ Initialize(y) \/ StatusRead(y) \/ Revoke(y)
               \/ Replay(y) \/ Commit(y)
        PROVE  client' = client
    BY <1>2 DEF Forward, Begin, Initialize, StatusRead, Revoke, Replay, Commit, Finish
  <1>3. ASSUME NEW i \in Instances, Stop(i) PROVE client'[x] # "unsent"
    BY <1>3, <1>t DEF Stop
  <1>4. CASE UNCHANGED vars
    BY <1>4 DEF vars
  <1> QED
    BY <1>1, <1>2, <1>3, <1>4 DEF Next

LEMMA DecidedWasSentStep == IInv /\ DecidedWasSent /\ [Next]_vars => DecidedWasSent'
  <1> SUFFICES ASSUME IInv, DecidedWasSent, [Next]_vars, NEW k \in Keys, decisions'[k] # 0
               PROVE  \E x \in CommitCalls : Key(x) = k /\ client'[x] # "unsent"
    BY DEF DecidedWasSent
  <1>t. decisions \in [Keys -> Nat] /\ CommitCalls \subseteq Calls
    BY DEF IInv, TypeOK, CommitCalls
  <1>1. CASE decisions[k] # 0
    <2>1. PICK x \in CommitCalls : Key(x) = k /\ client[x] # "unsent"
      BY <1>1 DEF DecidedWasSent
    <2> QED
      BY <1>t, <2>1, SentForGood DEF IInv
  <1>2. CASE decisions[k] = 0
    <2>1. PICK x \in Calls : Commit(x)
      BY <1>2, OnlyTransactionsWrite DEF tables, Initialize, StatusRead, Revoke
    <2>2. /\ x \in CommitCalls /\ server[x] = "writing" /\ client' = client
          /\ decisions' = [decisions EXCEPT ![Key(x)] = Len(events) + 1]
      BY <2>1 DEF Commit, Finish, Decided
    <2>3. Key(x) = k
      BY <1>2, <1>t, <2>2
    <2>4. client[x] # "unsent"
      BY <2>2 DEF IInv, AnswersAreDecisions
    <2> QED
      BY <2>2, <2>3, <2>4
  <1> QED
    BY <1>1, <1>2

LEMMA RevokesAndDecisions == Spec => [](IInv /\ ServedRevokes /\ DecidedWasSent)
  <1>1. Init => ServedRevokes /\ DecidedWasSent
    BY DEF Init, ServedRevokes, DecidedWasSent
  <1> QED
    BY <1>1, Invariance, ServedRevokesStep, DecidedWasSentStep, PTL DEF Spec

(* Nothing is left that could give the key of x its effect. *)
Barred(x) == credentials[Cred(x)].status = "revoked" /\ effects[Key(x)] = 0

LEMMA BarredForGood ==
  ASSUME NEW x \in CommitCalls, Op(x) = "guarded_commit", IInv, Barred(x), [Next]_vars
  PROVE  Barred(x)'
  <1>t. /\ effects \in [Keys -> Nat] /\ x \in Calls /\ Key(x) \in Keys /\ Cred(x) \in Creds
    BY RequestFacts DEF IInv, TypeOK, CommitCalls
  <1>1. credentials'[Cred(x)].status = "revoked"
    BY <1>t, RevokedForGood DEF Barred
  <1>2. effects'[Key(x)] = 0
    <2>1. CASE effects' = effects
      BY <2>1 DEF Barred
    <2>2. ASSUME NEW y \in Calls, Commit(y) PROVE effects'[Key(x)] = 0
      <3>1. /\ y \in CommitCalls /\ held[y].item = credentials[Cred(y)]
            /\ effects' = effects \/ effects' = [effects EXCEPT ![Key(y)] = Len(events) + 1]
            /\ ~ Allowed(y) => effects' = effects
        BY <2>2, TransactionReads DEF Commit, Finish, IInv
      <3>2. CASE Key(y) = Key(x)
        <4>1. Op(y) = "guarded_commit" /\ Cred(y) = Cred(x)
          BY <1>t, <3>2, KeyAssumption DEF Key, Cred, Op
        <4>2. ~ Allowed(y)
          BY <3>1, <4>1 DEF Allowed, Barred
        <4> QED
          BY <2>1, <3>1, <4>2
      <3>3. CASE Key(y) # Key(x)
        BY <1>t, <3>1, <3>3 DEF Barred
      <3> QED
        BY <3>2, <3>3
    <2> QED
      BY <2>1, <2>2, OnlyTransactionsWrite DEF tables, Initialize, StatusRead, Revoke
  <1> QED
    BY <1>1, <1>2 DEF Barred

LEMMA AcknowledgedBars ==
  ASSUME NEW x \in CommitCalls, IInv, ServedRevokes, DecidedWasSent,
         RevokeAcknowledged(Cred(x)), Untried(Key(x))
  PROVE  Barred(x)
  <1>1. credentials[Cred(x)].status = "revoked"
    BY DEF ServedRevokes, RevokeAcknowledged
  <1>2. x \in Calls /\ Key(x) \in Keys
    BY RequestFacts DEF CommitCalls
  <1>3. decisions[Key(x)] = 0
    BY <1>2 DEF DecidedWasSent, Untried
  <1>4. effects[Key(x)] = 0
    BY <1>2, <1>3 DEF IInv, TablesMatchLog
  <1> QED
    BY <1>1, <1>4 DEF Barred

(* For every set of clients, instances and faults: what is first asked for *)
(* after the acknowledgement of a revocation never takes effect.           *)
THEOREM RevocationHolds == Spec => RevocationIsRespected
  <1>1. ASSUME NEW x \in CommitCalls, Op(x) = "guarded_commit"
        PROVE  Spec => [](RevokeAcknowledged(Cred(x)) /\ Untried(Key(x))
                            => [](effects[Key(x)] = 0))
    <2>1. IInv /\ ServedRevokes /\ DecidedWasSent /\ RevokeAcknowledged(Cred(x))
            /\ Untried(Key(x)) => Barred(x)
      BY AcknowledgedBars
    <2>2. IInv /\ Barred(x) /\ [Next]_vars => Barred(x)'
      BY <1>1, BarredForGood
    <2>3. Barred(x) => effects[Key(x)] = 0
      BY DEF Barred
    <2> QED
      BY <2>1, <2>2, <2>3, RevokesAndDecisions, PTL DEF Spec
  <1> QED
    BY <1>1 DEF RevocationIsRespected

-----------------------------------------------------------------------------
(* Retried requests, when nothing times out and no container stops.        *)

(* The two sides of a call end together, and no call has a fault before it *)
(* is sent.                                                                *)
SidesAgree ==
  \A z \in Calls :
    /\ server[z] = "closed" <=> client[z] \in {"answered", "failed"}
    /\ server[z] = "idle" <=> client[z] = "unsent"
    /\ client[z] = "unsent" => fault[z] = "none"

(* A status operation that succeeded has found or made a credential. *)
ServedIsPresent ==
  \A z \in Calls \ CommitCalls :
    server[z] = "finished" \/ client[z] = "answered" => credentials[Cred(z)] # Absent

DecidedBy(x) ==
  /\ server[x] \in {"finished", "closed"}
  /\ events[decisions[Key(x)]].instance = request[x].instance

(* How far a request and its retry have come: the retry waits for the      *)
(* first attempt, a lost request leaves the decision to the retry, any     *)
(* other is decided by the first attempt before that ends, and the answer  *)
(* of the retry is a replay exactly in the second case.                    *)
RetryHistory(x, y) ==
  /\ client[y] # "unsent" => client[x] \in {"answered", "failed"}
  /\ client[x] # "unsent" => credentials[Cred(x)] # Absent
  /\ fault[x] = "drop_before_forward" => server[x] \in {"proxied", "closed"}
  /\ decisions[Key(x)] # 0 =>
       IF fault[x] = "drop_before_forward" THEN DecidedBy(y) ELSE DecidedBy(x)
  /\ server[x] \in {"finished", "closed"} /\ fault[x] # "drop_before_forward" =>
       decisions[Key(x)] # 0
  /\ server[y] = "finished" \/ client[y] = "answered" =>
       (answer[y].replay <=> fault[x] # "drop_before_forward")

RetryInv ==
  /\ SidesAgree
  /\ ServedIsPresent
  /\ \A x, y \in CommitCalls : request[y].retries = x => RetryHistory(x, y)

(* Without outages a step is a client's, the proxy's or a handler's. *)
LEMMA StepsWithoutOutages ==
  ASSUME TypeOK, MaxOutages = 0, [Next]_vars
  PROVE  \/ UNCHANGED vars
         \/ \E z \in Calls :
              \/ Send(z) \/ DropRequest(z) \/ Forward(z) \/ Begin(z)
              \/ Initialize(z) \/ StatusRead(z) \/ Revoke(z)
              \/ Replay(z) \/ Commit(z) \/ Reject(z) \/ Respond(z)
  <1>1. ~ (outages < MaxOutages)
    BY DEF TypeOK
  <1> QED
    BY <1>1 DEF Next, GiveUp, LockTimeout, Stop

LEMMA SidesStay == TypeOK /\ SidesAgree /\ MaxOutages = 0 /\ [Next]_vars => SidesAgree'
  <1> SUFFICES ASSUME TypeOK, SidesAgree, MaxOutages = 0, [Next]_vars PROVE SidesAgree'
    OBVIOUS
  <1> USE DEF SidesAgree
  <1>t. /\ server \in [Calls -> {"idle", "proxied", "queued", "writing", "finished", "closed"}]
        /\ client \in [Calls -> {"unsent", "waiting", "answered", "failed"}]
        /\ fault \in [Calls -> {"none", "drop_before_forward", "drop_after_forward"}]
    BY DEF TypeOK
  <1>1. CASE UNCHANGED vars
    BY <1>1 DEF vars
  <1>2. ASSUME NEW x \in Calls, Send(x) PROVE SidesAgree'
    <2>1. /\ client' = [client EXCEPT ![x] = "waiting"]
          /\ \E s \in {"queued", "proxied"} : server' = [server EXCEPT ![x] = s]
          /\ fault' = fault \/ \E f \in Faults : fault' = [fault EXCEPT ![x] = f]
      BY <1>2 DEF Send
    <2> QED
      BY <1>t, <2>1
  <1>3. ASSUME NEW x \in Calls, DropRequest(x) \/ Reject(x) \/ Respond(x) PROVE SidesAgree'
    <2>1. /\ server[x] \in {"proxied", "writing", "finished"}
          /\ server' = [server EXCEPT ![x] = "closed"]
          /\ fault' = fault
      BY <1>3 DEF DropRequest, Reject, Respond
    <2>2. client[x] = "waiting"
      BY <1>t, <2>1
    <2>3. \E c \in {"answered", "failed"} : client' = [client EXCEPT ![x] = c]
      BY <1>3, <2>2 DEF DropRequest, Reject, Respond, Lost
    <2> QED
      BY <1>t, <2>1, <2>3
  <1>4. ASSUME NEW x \in Calls,
               \/ Forward(x) \/ Begin(x) \/ Initialize(x) \/ StatusRead(x) \/ Revoke(x)
               \/ Replay(x) \/ Commit(x)
        PROVE  SidesAgree'
    <2>1. /\ server[x] \in {"proxied", "queued", "writing"}
          /\ \E s \in {"queued", "writing", "finished"} : server' = [server EXCEPT ![x] = s]
          /\ fault' = fault /\ client' = client
      BY <1>4 DEF Forward, Begin, Initialize, StatusRead, Revoke, Replay, Commit, Finish
    <2> QED
      BY <1>t, <2>1
  <1> QED
    BY <1>1, <1>2, <1>3, <1>4, StepsWithoutOutages

(* No operation deletes a credential. *)
LEMMA PresentForGood ==
  ASSUME TypeOK, [Next]_vars, NEW c \in Creds, credentials[c] # Absent
  PROVE  credentials'[c] # Absent
  <1>1. credentials \in [Creds -> CredentialRow]
    BY DEF TypeOK
  <1>2. CASE UNCHANGED tables
    BY <1>2 DEF tables
  <1>3. ASSUME NEW x \in Calls, Initialize(x) \/ Revoke(x) PROVE credentials'[c] # Absent
    <2>1. \E status \in {"active", "revoked"} : \E sequence : credentials' =
            [credentials EXCEPT ![Cred(x)] = [status |-> status, sequence |-> sequence]]
      BY <1>3 DEF Initialize, Revoke
    <2> QED
      BY <1>1, <2>1 DEF Absent
  <1>4. ASSUME NEW x \in Calls, StatusRead(x) \/ Commit(x) PROVE credentials'[c] # Absent
    BY <1>4 DEF StatusRead, Commit
  <1> QED
    BY <1>2, <1>3, <1>4, OnlyTransactionsWrite

LEMMA ServedStayPresent ==
  IInv /\ SidesAgree /\ ServedIsPresent /\ MaxOutages = 0 /\ [Next]_vars => ServedIsPresent'
  <1> SUFFICES ASSUME IInv, SidesAgree, ServedIsPresent, MaxOutages = 0, [Next]_vars,
                      NEW z \in Calls \ CommitCalls,
                      server'[z] = "finished" \/ client'[z] = "answered"
               PROVE  credentials'[Cred(z)] # Absent
    BY DEF ServedIsPresent
  <1>t. /\ server \in [Calls -> {"idle", "proxied", "queued", "writing", "finished", "closed"}]
        /\ client \in [Calls -> {"unsent", "waiting", "answered", "failed"}]
        /\ credentials \in [Creds -> CredentialRow]
        /\ Cred(z) \in Creds /\ z \in Calls /\ TypeOK
    BY RequestFacts DEF IInv, TypeOK
  <1>1. CASE server[z] = "finished" \/ client[z] = "answered"
    BY <1>1, <1>t, PresentForGood DEF ServedIsPresent
  <1>2. CASE server[z] # "finished" /\ client[z] # "answered"
    <2>1. CASE UNCHANGED vars
      BY <1>2, <2>1 DEF vars
    <2>2. ASSUME NEW x \in Calls,
                 \/ Send(x) \/ DropRequest(x) \/ Forward(x) \/ Begin(x)
                 \/ Reject(x) \/ Respond(x)
          PROVE  FALSE
      <3>1. server'[z] # "finished"
        BY <1>2, <1>t, <2>2 DEF Send, DropRequest, Forward, Begin, Reject, Respond
      <3>2. client'[z] = "answered" => Respond(x) /\ x = z
        BY <1>2, <1>t, <2>2 DEF Send, DropRequest, Forward, Begin, Reject, Respond, Lost
      <3> QED
        BY <1>2, <3>1, <3>2 DEF Respond
    <2>3. ASSUME NEW x \in Calls,
                 Initialize(x) \/ StatusRead(x) \/ Revoke(x) \/ Replay(x) \/ Commit(x)
          PROVE  credentials'[Cred(z)] # Absent
      <3>1. /\ server[x] = "writing" /\ server' = [server EXCEPT ![x] = "finished"]
            /\ client' = client
        BY <2>3 DEF Initialize, StatusRead, Revoke, Replay, Commit, Finish
      <3>2. x = z
        BY <1>2, <1>t, <3>1
      <3>3. held[z].item = credentials[Cred(z)]
        BY <3>1, <3>2, TransactionReads DEF IInv
      <3>4. CASE Initialize(z)
        BY <1>t, <3>4 DEF Initialize, Absent
      <3>5. CASE StatusRead(z)
        BY <3>3, <3>5 DEF StatusRead
      <3>6. CASE Revoke(z)
        BY <1>t, <3>6 DEF Revoke, Absent
      <3> QED
        BY <2>3, <3>2, <3>4, <3>5, <3>6 DEF Replay, Commit
    <2> QED
      BY <1>t, <2>1, <2>2, <2>3, StepsWithoutOutages
  <1> QED
    BY <1>1, <1>2

(* Appending to the log leaves the events that decisions point at alone. *)
LEMMA DecidedForGood ==
  ASSUME IInv, NEW k \in Keys, NEW e, events' = Append(events, e)
  PROVE  decisions[k] # 0 => events'[decisions[k]] = events[decisions[k]]
  <1>1. decisions[k] # 0 => decisions[k] \in 1..Len(events)
    BY DEF IInv, TablesMatchLog
  <1> QED
    BY <1>1 DEF IInv, TypeOK

LEMMA HistoryStays ==
  ASSUME IInv, SidesAgree, ServedIsPresent, RetriesAreScripted, MaxOutages = 0, [Next]_vars,
         NEW x \in CommitCalls, NEW y \in CommitCalls, request[y].retries = x,
         RetryHistory(x, y)
  PROVE  RetryHistory(x, y)'
  <1> DEFINE k == Key(x)
  <1>t. /\ server \in [Calls -> {"idle", "proxied", "queued", "writing", "finished", "closed"}]
        /\ client \in [Calls -> {"unsent", "waiting", "answered", "failed"}]
        /\ fault \in [Calls -> {"none", "drop_before_forward", "drop_after_forward"}]
        /\ answer \in [Calls -> [event : Nat, replay : BOOLEAN]]
        /\ credentials \in [Creds -> CredentialRow]
        /\ decisions \in [Keys -> Nat]
        /\ Len(events) \in Nat
        /\ TypeOK
    BY DEF IInv, TypeOK
  <1>k. /\ x \in Calls /\ y \in Calls /\ x # y
        /\ k \in Keys /\ Key(y) = k /\ Cred(x) \in Creds /\ Cred(y) = Cred(x)
        /\ \A z \in CommitCalls : Key(z) = k => z \in {x, y}
    <2>1. x \in Calls /\ y \in Calls /\ k \in Keys /\ Cred(x) \in Creds
      BY RequestFacts DEF CommitCalls
    <2>2. x # y
      BY <2>1, ConstantsAssumption DEF RetriesAreScripted
    <2>3. Key(y) = k /\ \A z \in CommitCalls : Key(z) = k => z \in {x, y}
      BY DEF RetriesAreScripted
    <2>4. Cred(y) = Cred(x)
      BY <2>1, <2>3, KeyAssumption DEF Key, Cred
    <2> QED
      BY <2>1, <2>2, <2>3, <2>4
  <1>h. /\ client[y] # "unsent" => client[x] \in {"answered", "failed"}
        /\ client[x] # "unsent" => credentials[Cred(x)] # Absent
        /\ fault[x] = "drop_before_forward" => server[x] \in {"proxied", "closed"}
        /\ decisions[k] # 0 =>
             IF fault[x] = "drop_before_forward"
             THEN server[y] \in {"finished", "closed"}
                  /\ events[decisions[k]].instance = request[y].instance
             ELSE server[x] \in {"finished", "closed"}
                  /\ events[decisions[k]].instance = request[x].instance
        /\ server[x] \in {"finished", "closed"} /\ fault[x] # "drop_before_forward" =>
             decisions[k] # 0
        /\ server[y] = "finished" \/ client[y] = "answered" =>
             (answer[y].replay <=> fault[x] # "drop_before_forward")
    BY <1>k DEF RetryHistory, DecidedBy
  <1>s. \A z \in Calls : /\ server[z] = "closed" <=> client[z] \in {"answered", "failed"}
                         /\ server[z] = "idle" <=> client[z] = "unsent"
                         /\ client[z] = "unsent" => fault[z] = "none"
    BY DEF SidesAgree
  <1>p. credentials[Cred(x)] # Absent => credentials'[Cred(x)] # Absent
    BY <1>k, <1>t, PresentForGood
  (* What remains to be shown, with the definitions expanded. *)
  <1> DEFINE Goal ==
        /\ client'[y] # "unsent" => client'[x] \in {"answered", "failed"}
        /\ client'[x] # "unsent" => credentials'[Cred(x)] # Absent
        /\ fault'[x] = "drop_before_forward" => server'[x] \in {"proxied", "closed"}
        /\ decisions'[k] # 0 =>
             IF fault'[x] = "drop_before_forward"
             THEN server'[y] \in {"finished", "closed"}
                  /\ events'[decisions'[k]].instance = request[y].instance
             ELSE server'[x] \in {"finished", "closed"}
                  /\ events'[decisions'[k]].instance = request[x].instance
        /\ server'[x] \in {"finished", "closed"} /\ fault'[x] # "drop_before_forward" =>
             decisions'[k] # 0
        /\ server'[y] = "finished" \/ client'[y] = "answered" =>
             (answer'[y].replay <=> fault'[x] # "drop_before_forward")
  <1>g. Goal => RetryHistory(x, y)'
    BY <1>k DEF RetryHistory, DecidedBy
  <1>1. CASE UNCHANGED vars
    BY <1>1, <1>g, <1>h DEF vars, tables
  <1>2. ASSUME NEW z \in Calls, Send(z) PROVE Goal
    <2>1. /\ client[z] = "unsent" /\ server[z] = "idle"
          /\ client' = [client EXCEPT ![z] = "waiting"]
          /\ \/ /\ server' = [server EXCEPT ![z] = "queued"]
                /\ fault' = fault
             \/ /\ server' = [server EXCEPT ![z] = "proxied"]
                /\ \E f \in Faults : fault' = [fault EXCEPT ![z] = f]
          /\ events' = events /\ decisions' = decisions /\ credentials' = credentials
          /\ answer' = answer
      BY <1>2, <1>s DEF Send, tables
    <2>2. CASE z = x
      <3>1. credentials[Cred(x)] # Absent
        <4>1. PICK n \in request[x].needs : n \notin CommitCalls /\ Cred(n) = Cred(x)
          BY DEF RetriesAreScripted
        <4>2. n \in Calls
          BY <1>k, <4>1, ConstantsAssumption DEF RequestType
        <4>3. client[n] = "answered"
          BY <1>2, <2>2, <4>1 DEF Send
        <4> QED
          BY <4>1, <4>2, <4>3 DEF ServedIsPresent
      <3>2. client[y] = "unsent" /\ server[y] = "idle" /\ decisions[k] = 0 /\ fault[x] = "none"
        BY <1>h, <1>k, <1>s, <1>t, <2>1, <2>2
      <3> QED
        BY <1>k, <1>t, <2>1, <2>2, <3>1, <3>2
    <2>3. CASE z = y
      <3>1. client[x] \in {"answered", "failed"}
        BY <1>2, <1>k, <2>3, ConstantsAssumption DEF Send
      <3> QED
        BY <1>h, <1>k, <1>t, <2>1, <2>3, <3>1
    <2>4. CASE z # x /\ z # y
      BY <1>h, <1>k, <1>t, <2>1, <2>4
    <2> QED
      BY <2>2, <2>3, <2>4
  <1>3. ASSUME NEW z \in Calls, DropRequest(z) \/ Forward(z) \/ Begin(z) PROVE Goal
    <2>1. server[z] \in {"proxied", "queued"} /\ UNCHANGED <<tables, answer, fault>>
      BY <1>3 DEF DropRequest, Forward, Begin
    <2>2. client[z] = "waiting"
      BY <1>s, <1>t, <2>1
    <2>3. \/ /\ fault[z] = "drop_before_forward" /\ server[z] = "proxied"
             /\ server' = [server EXCEPT ![z] = "closed"]
             /\ client' = [client EXCEPT ![z] = "failed"]
          \/ /\ fault[z] # "drop_before_forward" \/ server[z] = "queued"
             /\ \E s \in {"queued", "writing"} : server' = [server EXCEPT ![z] = s]
             /\ client' = client
      BY <1>3, <2>2 DEF DropRequest, Forward, Begin, Lost
    <2> QED
      BY <1>h, <1>k, <1>t, <2>1, <2>2, <2>3 DEF tables
  <1>4. ASSUME NEW z \in Calls, Reject(z) PROVE Goal
    <2>1. server[z] = "writing" /\ client[z] = "waiting"
      BY <1>4, <1>s, <1>t DEF Reject
    <2>2. z # x /\ z # y
      <3>1. held[z].item = credentials[Cred(z)]
        BY <2>1, TransactionReads DEF IInv
      <3>2. z \in {x, y} => Cred(z) = Cred(x) /\ credentials[Cred(x)] # Absent
        BY <1>h, <1>k, <2>1
      <3>3. z \in {x, y} => Op(z) # "initialize"
        BY <1>k, RequestFacts DEF CommitOps
      <3> QED
        BY <1>4, <3>1, <3>2, <3>3 DEF Reject
    <2>3. /\ server' = [server EXCEPT ![z] = "closed"]
          /\ client' = [client EXCEPT ![z] = "failed"]
          /\ UNCHANGED <<tables, answer, fault>>
      BY <1>4, <2>1 DEF Reject, Lost
    <2> QED
      BY <1>h, <1>k, <1>t, <2>2, <2>3 DEF tables
  <1>5. ASSUME NEW z \in Calls, Respond(z) PROVE Goal
    <2>1. server[z] = "finished" /\ client[z] = "waiting"
      BY <1>5, <1>s, <1>t DEF Respond
    <2>2. /\ server' = [server EXCEPT ![z] = "closed"]
          /\ \E c \in {"answered", "failed"} : client' = [client EXCEPT ![z] = c]
          /\ UNCHANGED <<tables, answer, fault>>
      BY <1>5, <2>1 DEF Respond
    <2> QED
      BY <1>h, <1>k, <1>t, <2>1, <2>2 DEF tables
  <1>6. ASSUME NEW z \in Calls, Initialize(z) \/ StatusRead(z) \/ Revoke(z) PROVE Goal
    <2>1. /\ \E e : events' = Append(events, e)
          /\ \E a : answer' = [answer EXCEPT ![z] = a]
          /\ server' = [server EXCEPT ![z] = "finished"]
          /\ UNCHANGED <<client, fault, decisions>>
      BY <1>6 DEF Initialize, StatusRead, Revoke, Finish, Log
    <2>2. z # x /\ z # y
      BY <1>6 DEF Initialize, StatusRead, Revoke, CommitCalls, CommitOps
    <2>3. decisions[k] # 0 => events'[decisions[k]] = events[decisions[k]]
      BY <1>k, <2>1, DecidedForGood
    <2> QED
      BY <1>h, <1>k, <1>p, <1>t, <2>1, <2>2, <2>3
  <1>7. ASSUME NEW z \in Calls, Replay(z) PROVE Goal
    <2>1. /\ z \in CommitCalls /\ server[z] = "writing" /\ held[z].prior # 0
          /\ answer' = [answer EXCEPT ![z] = [event |-> held[z].prior, replay |-> TRUE]]
          /\ server' = [server EXCEPT ![z] = "finished"]
          /\ UNCHANGED <<tables, client, fault>>
      BY <1>7 DEF Replay, Finish
    <2>2. decisions[Key(z)] # 0 /\ client[z] = "waiting"
      BY <1>s, <1>t, <2>1, TransactionReads DEF IInv
    <2>3. CASE z = x
      BY <1>h, <1>k, <1>t, <2>1, <2>2, <2>3 DEF tables
    <2>4. CASE z = y
      BY <1>h, <1>k, <1>t, <2>1, <2>2, <2>4 DEF tables
    <2>5. CASE z # x /\ z # y
      BY <1>h, <1>k, <1>t, <2>1, <2>5 DEF tables
    <2> QED
      BY <2>3, <2>4, <2>5
  <1>8. ASSUME NEW z \in Calls, Commit(z) PROVE Goal
    <2> DEFINE L == Len(events)
    <2>1. /\ z \in CommitCalls /\ server[z] = "writing" /\ held[z].prior = 0
          /\ answer' = [answer EXCEPT ![z] = [event |-> L + 1, replay |-> FALSE]]
          /\ server' = [server EXCEPT ![z] = "finished"]
          /\ decisions' = [decisions EXCEPT ![Key(z)] = L + 1]
          /\ UNCHANGED <<credentials, client, fault>>
      BY <1>8 DEF Commit, Finish, Decided
    <2>2. decisions[Key(z)] = 0 /\ client[z] = "waiting" /\ Key(z) \in Keys
      BY <1>s, <1>t, <2>1, TransactionReads, RequestFacts DEF IInv
    <2>3. PICK e : events' = Append(events, e) /\ e.instance = request[z].instance
      BY <1>8 DEF Commit, Log, Row
    <2>4. events'[L + 1] = e
      BY <1>t, <2>3 DEF TypeOK
    <2>5. CASE z = x
      <3>1. fault[x] # "drop_before_forward" /\ client[y] = "unsent" /\ server[y] = "idle"
        BY <1>h, <1>k, <1>s, <2>1, <2>2, <2>5
      <3>2. decisions'[k] = L + 1 /\ server'[x] = "finished" /\ server'[y] = "idle"
        BY <1>k, <1>t, <2>1, <2>5, <3>1
      <3>3. L + 1 # 0
        BY <1>t
      <3>4. events'[decisions'[k]].instance = request[x].instance
        BY <2>3, <2>4, <2>5, <3>2
      <3>5. fault' = fault /\ client' = client /\ credentials' = credentials
        BY <2>1
      <3> HIDE DEF L
      <3> QED
        BY <1>h, <3>1, <3>2, <3>3, <3>4, <3>5
    <2>6. CASE z = y
      <3>1. client[x] \in {"answered", "failed"} /\ server[x] = "closed"
        BY <1>h, <1>k, <1>s, <2>2, <2>6
      <3>2. fault[x] = "drop_before_forward"
        BY <1>h, <1>k, <2>2, <2>6, <3>1
      <3>3. decisions'[k] = L + 1 /\ server'[y] = "finished" /\ server'[x] = "closed"
        BY <1>k, <1>t, <2>1, <2>6, <3>1
      <3>4. answer'[y].replay = FALSE
        BY <1>k, <1>t, <2>1, <2>6
      <3>5. events'[decisions'[k]].instance = request[y].instance
        BY <2>3, <2>4, <2>6, <3>3
      <3>6. fault' = fault /\ client' = client /\ credentials' = credentials
        BY <2>1
      <3> HIDE DEF L
      <3> QED
        BY <1>h, <3>1, <3>2, <3>3, <3>4, <3>5, <3>6
    <2>7. CASE z # x /\ z # y
      <3>1. decisions'[k] = decisions[k]
        BY <1>k, <1>t, <2>1, <2>7
      <3>2. decisions[k] # 0 => events'[decisions[k]] = events[decisions[k]]
        BY <1>k, <2>3, DecidedForGood
      <3>3. /\ server'[x] = server[x] /\ server'[y] = server[y]
            /\ answer'[y] = answer[y]
        BY <1>k, <1>t, <2>1, <2>7
      <3> QED
        BY <1>h, <2>1, <3>1, <3>2, <3>3
    <2> QED
      BY <2>5, <2>6, <2>7
  <1> HIDE DEF Goal
  <1> QED
    BY <1>g, <1>t, <1>1, <1>2, <1>3, <1>4, <1>5, <1>6, <1>7, <1>8, StepsWithoutOutages

LEMMA RetryInvInit == Init /\ RetriesAreScripted => RetryInv
  <1> SUFFICES ASSUME Init, RetriesAreScripted PROVE RetryInv
    OBVIOUS
  <1>1. SidesAgree /\ ServedIsPresent
    BY DEF Init, SidesAgree, ServedIsPresent
  <1>2. ASSUME NEW x \in CommitCalls, NEW y \in CommitCalls, request[y].retries = x
        PROVE  RetryHistory(x, y)
    <2>1. x \in Calls /\ y \in Calls /\ Key(x) \in Keys
      BY RequestFacts DEF CommitCalls
    <2> QED
      BY <2>1 DEF Init, RetryHistory
  <1> QED
    BY <1>1, <1>2 DEF RetryInv

LEMMA RetryInvStep ==
  ASSUME MaxOutages = 0, RetriesAreScripted
  PROVE  IInv /\ RetryInv /\ [Next]_vars => RetryInv'
  <1> SUFFICES ASSUME IInv, RetryInv, [Next]_vars PROVE RetryInv'
    OBVIOUS
  <1>1. SidesAgree' /\ ServedIsPresent'
    BY SidesStay, ServedStayPresent DEF RetryInv, IInv
  <1>2. ASSUME NEW x \in CommitCalls, NEW y \in CommitCalls, request[y].retries = x
        PROVE  RetryHistory(x, y)'
    BY <1>2, HistoryStays DEF RetryInv
  <1> QED
    BY <1>1, <1>2 DEF RetryInv

LEMMA RetryInvImplies ==
  ASSUME IInv, RetryInv, RetriesAreScripted
  PROVE  FaultsAreRecovered
  <1> SUFFICES ASSUME NEW x \in CommitCalls, NEW y \in CommitCalls,
                      request[y].retries = x, Answered(y)
               PROVE  LET origin == events[answer[y].event].instance
                      IN  /\ fault[x] = "drop_before_forward" =>
                               ~ answer[y].replay /\ origin = request[y].instance
                          /\ fault[x] = "drop_after_forward" =>
                               answer[y].replay /\ origin = request[x].instance
    BY DEF FaultsAreRecovered
  <1>1. client[y] = "answered" /\ y \in Calls /\ Key(y) = Key(x)
    BY DEF Answered, CommitCalls, RetriesAreScripted
  <1>2. answer[y].event = decisions[Key(x)] /\ decisions[Key(x)] # 0
    BY <1>1 DEF IInv, AnswersAreDecisions
  <1>3. RetryHistory(x, y)
    BY DEF RetryInv
  <1> QED
    BY <1>1, <1>2, <1>3 DEF RetryHistory, DecidedBy

(* When nothing times out and no container stops, and each retried request *)
(* has a key of its own and a credential that was served before it, as in  *)
(* run_matrix.py, the retry of a lost request makes the decision itself    *)
(* and the retry after a lost response is given the decision the first     *)
(* attempt made.                                                           *)
THEOREM FaultsRecovered ==
  ASSUME MaxOutages = 0, RetriesAreScripted
  PROVE  Spec => []FaultsAreRecovered
  <1>1. Init => RetryInv
    BY RetryInvInit
  <1>2. IInv /\ RetryInv /\ [Next]_vars => RetryInv'
    BY RetryInvStep
  <1>3. IInv /\ RetryInv => FaultsAreRecovered
    BY RetryInvImplies
  <1> QED
    BY <1>1, <1>2, <1>3, Invariance, PTL DEF Spec
=============================================================================
