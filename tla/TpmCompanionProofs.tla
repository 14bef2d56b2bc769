------------------------- MODULE TpmCompanionProofs -------------------------
(***************************************************************************)
(* Proofs about the TPM companion, for any number of runs that share any   *)
(* number of slots, any corpus and any mutation plan.                      *)
(***************************************************************************)
EXTENDS TpmCompanion, SequenceTheorems, TLAPS

-----------------------------------------------------------------------------
(* Types.                                                                  *)

LEMMA FollowingIsStep ==
  ASSUME NEW r \in Runs,
         NEW s \in Reads \cup Creates \cup Flushes \cup {"transient-after"}
  PROVE  Following(r, s) \in Steps \ {"checkquote"}
<1>1. CASE s \in Reads
  BY <1>1 DEF Following, Steps, Reads, Creates, Flushes, Body, Finally
<1>2. CASE s \in Creates
  BY <1>2 DEF Following, Steps, Reads, Creates, Flushes, Body, Finally
<1>3. CASE s \in Flushes \cup {"transient-after"}
  BY <1>3 DEF Following, Steps, Reads, Creates, Flushes, Body, Finally
<1> QED
  BY <1>1, <1>2, <1>3

LEMMA InitType == Init => TypeOK
BY ConstantsAssumption
   DEF Init, TypeOK, Steps, Body, Reads, Finally, Flushes, Outer, Ended, Owners

(* What an exception does to the variables it sets, in each region.        *)
LEMMA RaiseInBodyType ==
  ASSUME TypeOK, NEW r \in Runs, RaiseInBody(r)
  PROVE  /\ pc' \in [Runs -> Steps]
         /\ error' \in [Runs -> {"none", "body", "cleanup"}]
         /\ challenges' \in [Runs -> Seq(Challenges)]
         /\ vectors' \in [Runs -> Seq(Evidence)]
         /\ candidate' \in [Runs -> Evidence \cup {Nothing}]
         /\ rows' \in [Runs -> Seq(BOOLEAN)]
         /\ \A q \in Runs : pc'[q] = "checkquote" => candidate'[q] \in Evidence
<1>1. "flush_ak" \in Steps
  BY DEF Steps, Finally, Flushes
<1>2. <<>> \in Seq(Evidence) /\ <<>> \in Seq(BOOLEAN) /\ <<>> \in Seq(Challenges)
  OBVIOUS
<1>3. /\ pc' \in [Runs -> Steps]
      /\ error' \in [Runs -> {"none", "body", "cleanup"}]
  BY <1>1 DEF TypeOK, RaiseInBody, Goto
<1>4. vectors' \in [Runs -> Seq(Evidence)] /\ challenges' \in [Runs -> Seq(Challenges)]
  BY <1>2 DEF TypeOK, RaiseInBody
<1>5. /\ candidate' \in [Runs -> Evidence \cup {Nothing}]
      /\ \A q \in Runs : pc'[q] = "checkquote" => candidate'[q] \in Evidence
  BY DEF TypeOK, RaiseInBody, Goto
<1>6. rows' \in [Runs -> Seq(BOOLEAN)]
  BY <1>2 DEF TypeOK, RaiseInBody
<1> QED
  BY <1>3, <1>4, <1>5, <1>6

(* A step that moves the control and may set the error.                    *)
LEMMA ControlType ==
  ASSUME TypeOK, NEW r \in Runs, NEW step \in Steps \ {"checkquote"},
         NEW e \in {"none", "body", "cleanup"},
         Goto(r, step), error' = error \/ error' = [error EXCEPT ![r] = e],
         candidate' = candidate
  PROVE  /\ pc' \in [Runs -> Steps]
         /\ error' \in [Runs -> {"none", "body", "cleanup"}]
         /\ \A q \in Runs : pc'[q] = "checkquote" => candidate'[q] \in Evidence
<1>1. /\ pc \in [Runs -> Steps]
      /\ error \in [Runs -> {"none", "body", "cleanup"}]
      /\ \A q \in Runs : pc[q] = "checkquote" => candidate[q] \in Evidence
  BY DEF TypeOK
<1>2. pc' = [pc EXCEPT ![r] = step]
  BY DEF Goto
<1>3. pc' \in [Runs -> Steps]
  BY <1>1, <1>2
<1>4. error' \in [Runs -> {"none", "body", "cleanup"}]
  BY <1>1
<1>5. ASSUME NEW q \in Runs, pc'[q] = "checkquote" PROVE candidate'[q] \in Evidence
  <2>1. pc[q] = "checkquote"
    BY <1>1, <1>2, <1>5
  <2> QED BY <1>1, <2>1
<1> QED
  BY <1>3, <1>4, <1>5

LEMMA StepType == TypeOK /\ [Next]_vars => TypeOK'
<1> SUFFICES ASSUME TypeOK, [Next]_vars PROVE TypeOK'
  OBVIOUS
<1> USE DEF TypeOK, cleanup, tpm, evidence
<1> DEFINE InSteps == {"flush_ak", "discard", "leave", "ended", "killed", "checkquote",
                       "quote", "mutation", "write", "version", "report", "manifest",
                       "hashes", "rename", "renamed"}
<1>s. InSteps \subseteq Steps
  BY DEF Steps, Body, Reads, Finally, Flushes, Outer, Ended
<1>1. ASSUME NEW r \in Runs, Start(r) PROVE TypeOK'
  <2>1. {"directory", "public", "environment"} \in SUBSET Files
    BY DEF Files
  <2>2. stage' \in [Runs -> SUBSET Files]
    BY <1>1, <2>1 DEF Start
  <2>3. /\ pc' \in [Runs -> Steps]
        /\ error' \in [Runs -> {"none", "body", "cleanup"}]
        /\ \A q \in Runs : pc'[q] = "checkquote" => candidate'[q] \in Evidence
    <3> HIDE DEF TypeOK
    <3>1. candidate' = candidate
      BY <1>1 DEF Start
    <3>2. "version" \in Steps \ {"checkquote"} /\ "ended" \in Steps \ {"checkquote"}
      BY <1>s
    <3>3. CASE Goto(r, "version") /\ error' = error
      BY <3>1, <3>2, <3>3, ControlType
    <3>4. CASE Goto(r, "ended") /\ error' = [error EXCEPT ![r] = "body"]
      BY <3>1, <3>2, <3>4, ControlType
    <3> QED BY <1>1, <3>3, <3>4 DEF Start
  <2> QED BY <1>1, <2>2, <2>3 DEF Start
<1>2. ASSUME NEW r \in Runs, Read(r) PROVE TypeOK'
  <2>1. Following(r, pc[r]) \in Steps \ {"checkquote"}
    BY <1>2, FollowingIsStep DEF Read
  <2>2. before' \in [Runs -> SUBSET Handles]
    BY <1>2 DEF Read, InUse
  <2> QED BY <1>2, <2>1, <2>2 DEF Read, Goto
<1>3. ASSUME NEW r \in Runs, Load(r) PROVE TypeOK'
  <2>1. pc[r] \in Creates /\ ObjectOf(pc[r]) \in Objects
    BY <1>3 DEF Load, ObjectOf, Objects
  <2>2. Following(r, pc[r]) \in Steps \ {"checkquote"}
    BY <2>1, FollowingIsStep
  <2>3. loaded' \in [Handles -> Owners]
    BY <1>3, <2>1 DEF Load, Owners
  <2>4. contexts' \in [Runs -> SUBSET Objects]
    BY <1>3, <2>1 DEF Load
  <2>5. CASE RaiseInBody(r)
    BY <1>3, <2>3, <2>4, <2>5, RaiseInBodyType DEF Load
  <2>6. CASE Goto(r, Following(r, pc[r])) /\ UNCHANGED <<error, evidence>>
    BY <1>3, <2>2, <2>3, <2>4, <2>6 DEF Load, Goto
  <2> QED BY <1>3, <2>5, <2>6 DEF Load
<1>4. ASSUME NEW r \in Runs, Quote(r) PROVE TypeOK'
  <2>1. /\ candidate' \in [Runs -> Evidence \cup {Nothing}]
        /\ \A q \in Runs : pc'[q] = "checkquote" => candidate'[q] \in Evidence
        /\ challenges' \in [Runs -> Seq(Challenges)]
    <3>1. PICK challenge \in Challenges \ Drawn(r) :
            LET envelope == Envelope(Transactions[Len(challenges[r]) + 1], challenge)
            IN /\ challenges' = [challenges EXCEPT ![r] = Append(@, challenge)]
               /\ \E signed \in {QualifyingData(envelope, "digest")} \cup OtherData :
                    candidate' = [candidate EXCEPT ![r] = Vector(envelope, signed)]
      BY <1>4 DEF Quote
    <3> DEFINE envelope == Envelope(Transactions[Len(challenges[r]) + 1], challenge)
    <3>2. PICK signed \in {QualifyingData(envelope, "digest")} \cup OtherData :
            candidate' = [candidate EXCEPT ![r] = Vector(envelope, signed)]
      BY <3>1
    <3>3. Transactions[Len(challenges[r]) + 1] \in STRING
      BY <1>4, ConstantsAssumption DEF Quote
    <3>5. envelope \in Envelopes
      BY <3>1, <3>3 DEF Envelopes, Envelope
    <3>6. signed \in [of : Envelopes, form : {"digest"}]
      <4>1. CASE signed \in OtherData
        <5>1. PICK i \in Indices, other \in Challenges :
                signed = QualifyingData(Envelope(Transactions[i], other), "digest")
          BY <4>1 DEF OtherData
        <5>2. Transactions[i] \in STRING
          BY ConstantsAssumption DEF Indices
        <5>3. Envelope(Transactions[i], other) \in Envelopes
          BY <5>2 DEF Envelope, Envelopes
        <5> QED BY <5>1, <5>3 DEF QualifyingData
      <4>2. CASE signed = QualifyingData(envelope, "digest")
        BY <3>5, <4>2 DEF QualifyingData
      <4> QED BY <3>2, <4>1, <4>2
    <3>7. Vector(envelope, signed) \in Evidence
      BY <3>5, <3>6 DEF Vector, Evidence
    <3>8. candidate' \in [Runs -> Evidence \cup {Nothing}]
      BY <3>2, <3>7
    <3>9. \A q \in Runs : pc'[q] = "checkquote" => candidate'[q] \in Evidence
      BY <1>4, <3>2, <3>7 DEF Quote, Goto
    <3>10. challenges' \in [Runs -> Seq(Challenges)]
      <4>1. Append(challenges[r], challenge) \in Seq(Challenges)
        BY <3>1
      <4> QED BY <3>1, <4>1
    <3> QED BY <3>8, <3>9, <3>10
  <2> QED BY <1>4, <1>s, <2>1 DEF Quote, Goto
<1>5. ASSUME NEW r \in Runs, CheckQuote(r) PROVE TypeOK'
  <2>1. candidate[r] \in Evidence
    BY <1>5 DEF CheckQuote
  <2> QED BY <1>5, <1>s, <2>1 DEF CheckQuote, Goto
<1>6. ASSUME NEW r \in Runs, Baseline(r) PROVE TypeOK'
  BY <1>6, <1>s DEF Baseline, Goto
<1>7. ASSUME NEW r \in Runs, TryMutation(r) PROVE TypeOK'
  BY <1>7 DEF TryMutation
<1>8. ASSUME NEW r \in Runs, MutationSuite(r) PROVE TypeOK'
  <2>1. CASE RaiseInBody(r)
    BY <1>8, <2>1, RaiseInBodyType DEF MutationSuite
  <2>2. CASE Goto(r, "write") /\ UNCHANGED <<error, evidence>>
    BY <1>8, <1>s, <2>2 DEF MutationSuite, Goto
  <2> QED BY <1>8, <2>1, <2>2 DEF MutationSuite
<1>9. ASSUME NEW r \in Runs, WriteEvidence(r) PROVE TypeOK'
  BY <1>9, <1>s DEF WriteEvidence, Goto, Add, Files
<1>10. ASSUME NEW r \in Runs, Flush(r) PROVE TypeOK'
  <2>1. pc[r] \in Flushes /\ ObjectOf(pc[r]) \in Objects
    BY <1>10 DEF Flush, ObjectOf, Objects
  <2>2. Following(r, pc[r]) \in Steps \ {"checkquote"}
    BY <2>1, FollowingIsStep
  <2>3. loaded' \in [Handles -> Owners]
    <3>1. Free \in Owners
      BY DEF Owners
    <3>2. CASE UNCHANGED loaded
      BY <3>2
    <3>3. CASE \E gone \in BOOLEAN :
                 loaded' = [h \in Handles |->
                              IF gone /\ loaded[h] = <<r, ObjectOf(pc[r])>>
                              THEN Free ELSE loaded[h]]
      BY <3>1, <3>3
    <3> QED BY <1>10, <3>2, <3>3 DEF Flush
  <2>4. attempted' \in [Runs -> SUBSET Objects]
    <3>1. \/ attempted' = [attempted EXCEPT ![r] = @ \cup {ObjectOf(pc[r])}]
          \/ attempted' = attempted
      BY <1>10 DEF Flush
    <3>2. attempted[r] \cup {ObjectOf(pc[r])} \in SUBSET Objects
      BY <2>1
    <3> QED BY <3>1, <3>2
  <2>5. /\ pc' \in [Runs -> Steps]
        /\ error' \in [Runs -> {"none", "body", "cleanup"}]
        /\ \A q \in Runs : pc'[q] = "checkquote" => candidate'[q] \in Evidence
    <3> HIDE DEF TypeOK
    <3>1. candidate' = candidate
      BY <1>10 DEF Flush
    <3>2. "discard" \in Steps \ {"checkquote"}
      BY <1>s
    <3>3. CASE Goto(r, Following(r, pc[r])) /\ error' = error
      BY <2>2, <3>1, <3>3, ControlType
    <3>4. CASE RaiseInFinally(r)
      BY <3>1, <3>2, <3>4, ControlType DEF RaiseInFinally
    <3> QED BY <1>10, <3>3, <3>4 DEF Flush
  <2> QED BY <1>10, <2>3, <2>4, <2>5 DEF Flush
<1>11. ASSUME NEW r \in Runs, TransientAfter(r) PROVE TypeOK'
  <2>1. Following(r, pc[r]) \in Steps \ {"checkquote"}
    BY <1>11, FollowingIsStep DEF TransientAfter
  <2>2. InUse \in SUBSET Handles
    BY DEF InUse
  <2> QED BY <1>11, <2>1, <2>2 DEF TransientAfter, Goto
<1>12. ASSUME NEW r \in Runs, PersistentAfter(r) PROVE TypeOK'
  BY <1>12, <1>s DEF PersistentAfter, Goto, NoNewHandle
<1>13. ASSUME NEW r \in Runs, Discard(r) PROVE TypeOK'
  BY <1>13, <1>s DEF Discard, Goto
<1>14. ASSUME NEW r \in Runs, Report(r) PROVE TypeOK'
  <2>1. {"command-audit", "cleanup", "summary"} \in SUBSET Files
    BY DEF Files
  <2>2. stage' \in [Runs -> SUBSET Files]
    <3>1. \E fs \in SUBSET Files : stage' = [stage EXCEPT ![r] = @ \cup fs]
      BY <1>14, <2>1 DEF Report
    <3> QED BY <3>1
  <2>3. /\ pc' \in [Runs -> Steps]
        /\ error' \in [Runs -> {"none", "body", "cleanup"}]
        /\ \A q \in Runs : pc'[q] = "checkquote" => candidate'[q] \in Evidence
    <3> HIDE DEF TypeOK
    <3>1. candidate' = candidate
      BY <1>14 DEF Report
    <3>2. "manifest" \in Steps \ {"checkquote"} /\ "leave" \in Steps \ {"checkquote"}
      BY <1>s
    <3>3. CASE Goto(r, "manifest") /\ error' = error
      BY <3>1, <3>2, <3>3, ControlType
    <3>4. CASE RaiseOutside(r)
      BY <3>1, <3>2, <3>4, ControlType DEF RaiseOutside
    <3> QED BY <1>14, <3>3, <3>4 DEF Report
  <2> QED BY <1>14, <2>2, <2>3 DEF Report
<1>15. ASSUME NEW r \in Runs, WriteManifest(r) PROVE TypeOK'
  BY <1>15, <1>s DEF WriteManifest, Goto, Add, Files
<1>16. ASSUME NEW r \in Runs, WriteHashes(r) PROVE TypeOK'
  BY <1>16, <1>s DEF WriteHashes, Goto, Add, Files
<1>17. ASSUME NEW r \in Runs, Rename(r) PROVE TypeOK'
  <2>1. [run |-> r, files |-> stage[r]] \in [run : Runs, files : SUBSET Files]
    OBVIOUS
  <2>2. /\ stage' \in [Runs -> SUBSET Files]
        /\ output' \in [run : Runs, files : SUBSET Files] \cup {Nothing}
    BY <1>17, <2>1 DEF Rename
  <2>3. /\ pc' \in [Runs -> Steps]
        /\ error' \in [Runs -> {"none", "body", "cleanup"}]
        /\ \A q \in Runs : pc'[q] = "checkquote" => candidate'[q] \in Evidence
    <3> HIDE DEF TypeOK
    <3>1. candidate' = candidate
      BY <1>17 DEF Rename
    <3>2. "renamed" \in Steps \ {"checkquote"} /\ "leave" \in Steps \ {"checkquote"}
      BY <1>s
    <3>3. CASE Goto(r, "renamed") /\ error' = error
      BY <3>1, <3>2, <3>3, ControlType
    <3>4. CASE RaiseOutside(r)
      BY <3>1, <3>2, <3>4, ControlType DEF RaiseOutside
    <3> QED BY <1>17, <3>3, <3>4 DEF Rename
  <2> QED BY <1>17, <2>2, <2>3 DEF Rename
<1>18. ASSUME NEW r \in Runs, Succeed(r) PROVE TypeOK'
  BY <1>18, <1>s DEF Succeed, Goto
<1>19. ASSUME NEW r \in Runs, Leave(r) PROVE TypeOK'
  BY <1>19, <1>s DEF Leave, Goto
<1>20. ASSUME NEW r \in Runs, Raise(r) PROVE TypeOK'
  <2>1. CASE RaiseInBody(r)
    BY <1>20, <2>1, RaiseInBodyType DEF Raise
  <2>2. CASE RaiseInFinally(r) /\ UNCHANGED evidence
    BY <1>20, <1>s, <2>2 DEF Raise, Goto, RaiseInFinally
  <2>3. CASE RaiseOutside(r) /\ UNCHANGED evidence
    BY <1>20, <1>s, <2>3 DEF Raise, Goto, RaiseOutside
  <2> QED BY <1>20, <2>1, <2>2, <2>3 DEF Raise
<1>21. ASSUME NEW r \in Runs, Kill(r) PROVE TypeOK'
  BY <1>21, <1>s DEF Kill, Goto
<1>22. CASE UNCHANGED vars
  BY <1>22 DEF vars
<1> QED
  BY <1>1, <1>2, <1>3, <1>4, <1>5, <1>6, <1>7, <1>8, <1>9, <1>10, <1>11, <1>12, <1>13,
     <1>14, <1>15, <1>16, <1>17, <1>18, <1>19, <1>20, <1>21, <1>22 DEF Next, Step

(* The types of all variables, for any number of runs and slots.           *)
THEOREM TypeCorrect == Spec => []TypeOK
BY InitType, StepType, PTL DEF Spec

-----------------------------------------------------------------------------
(* The inductive invariant: what a run has behind it at each statement.    *)

BeforePrimary == {"version", "transient", "persistent", "properties-fixed",
                  "properties-variable", "createprimary"}
BeforeAk      == BeforePrimary \cup {"readpublic-primary", "createak", "create", "load"}

(* Past the body without an exception, up to the published output.         *)
BodyDone(r) ==
  \/ pc[r] \in Finally \cup {"discard"} /\ error[r] = "none"
  \/ pc[r] \in Outer

(* Where exceptions are pending. *)
ErrorInv(r) ==
  /\ pc[r] \in {"start"} \cup Body \cup Outer => error[r] = "none"
  /\ pc[r] \in Finally => error[r] # "cleanup"

(* Which context files exist, and which flushes have been tried. *)
ContextInv(r) ==
  /\ pc[r] \in Body \ BeforePrimary => "primary" \in contexts[r]
  /\ pc[r] \in Body \ BeforeAk => "ak" \in contexts[r]
  /\ pc[r] \in Finally \cup {"discard"} /\ error[r] = "none" => contexts[r] = Objects
  /\ pc[r] \in {"start", "leave", "ended"} \cup Outer => contexts[r] = {}

FlushInv(r) ==
  /\ pc[r] = "flush_primary" => ("ak" \in contexts[r] => "ak" \in attempted[r])
  /\ pc[r] \in {"transient-after", "persistent-after"} => contexts[r] \subseteq attempted[r]
  /\ pc[r] = "discard" /\ error[r] # "cleanup" => contexts[r] \subseteq attempted[r]
  /\ pc[r] \in Outer => attempted[r] = Objects

(* Which files the stage has. *)
Opened == {"directory", "public", "environment"}

StageInv(r) ==
  /\ pc[r] \in {"start", "renamed", "ended"} => stage[r] = {}
  /\ pc[r] = "leave" /\ error[r] = "none" => stage[r] = {}
  /\ pc[r] \in Body => Opened \subseteq stage[r]
  /\ BodyDone(r) /\ pc[r] # "renamed" => Opened \cup {"vectors"} \subseteq stage[r]
  /\ pc[r] \in {"manifest", "hashes", "rename"} => Files \ {"manifest", "hashes"} \subseteq stage[r]
  /\ pc[r] \in {"hashes", "rename"} => "manifest" \in stage[r]
  /\ pc[r] = "rename" => "hashes" \in stage[r]

(* What the run has loaded, against its censuses. *)
Own(r) == {h \in Handles : loaded[h] \in {r} \X Objects}

CensusInv(r) ==
  /\ pc[r] = "persistent-after" /\ after[r] # Nothing => Own(r) \subseteq after[r]
  /\ verified[r] => pc[r] \notin {"start"} \cup Body \cup Finally
  /\ verified[r] => Own(r) \subseteq before[r] /\ after[r] # Nothing
  /\ pc[r] \in Outer \ {"report"} => verified[r]

(* A published run is past its rename. *)
PublishedInv(r) ==
  Published(r) =>
    /\ pc[r] \in {"renamed", "leave", "ended", "killed"}
    /\ output.files = Files
    /\ attempted[r] = Objects
    /\ verified[r]

RunInv(r) ==
  /\ ErrorInv(r)
  /\ ContextInv(r)
  /\ FlushInv(r)
  /\ StageInv(r)
  /\ CensusInv(r)
  /\ PublishedInv(r)

IInv == TypeOK /\ \A r \in Runs : RunInv(r)

(* Evidence. *)
Bound(r) ==
  /\ Len(vectors[r]) <= Len(Transactions)
  /\ \A i \in 1..Len(vectors[r]) :
       /\ vectors[r][i].envelope.transaction = Transactions[i]
       /\ vectors[r][i].signed = QualifyingData(vectors[r][i].envelope, "digest")
       /\ \A j \in 1..Len(vectors[r]) :
            j # i => vectors[r][j].envelope.challenge # vectors[r][i].envelope.challenge

(* The round of the loop and the quotes kept: none is forgotten.           *)
Quoted(r) == {vectors[r][i].envelope.challenge : i \in 1..Len(vectors[r])}

RoundInv(r) ==
  /\ pc[r] \in {"start", "quote"} \cup Reads \cup Creates =>
       Len(challenges[r]) = Len(vectors[r])
  /\ Quoted(r) \subseteq Drawn(r)
  /\ pc[r] = "checkquote" =>
       /\ Len(challenges[r]) = Len(vectors[r]) + 1
       /\ candidate[r].envelope.challenge \in Drawn(r)

CandidateInv(r) ==
  pc[r] = "checkquote" =>
    /\ Len(vectors[r]) < Len(Transactions)
    /\ candidate[r].envelope.transaction = Transactions[Len(vectors[r]) + 1]
    /\ candidate[r].envelope.challenge \notin Quoted(r)

CompleteInv(r) ==
  /\ pc[r] \in {"mutation", "write"} \/ BodyDone(r) \/ Published(r)
       => Len(vectors[r]) = Len(Transactions)
  /\ Len(rows[r]) <= Cases
  /\ pc[r] = "write" \/ BodyDone(r) \/ Published(r)
       => Len(rows[r]) = Cases /\ \A k \in 1..Cases : rows[r][k]

EvidenceInv ==
  \A r \in Runs : RoundInv(r) /\ Bound(r) /\ CandidateInv(r) /\ CompleteInv(r)

(* A step of one run leaves what belongs to another alone. *)
LEMMA Frame ==
  ASSUME TypeOK, NEW r \in Runs, NEW q \in Runs, q # r, Step(r) \/ Kill(r)
  PROVE  /\ pc'[q] = pc[q] /\ error'[q] = error[q] /\ contexts'[q] = contexts[q]
         /\ before'[q] = before[q] /\ after'[q] = after[q]
         /\ verified'[q] = verified[q] /\ attempted'[q] = attempted[q]
         /\ stage'[q] = stage[q]
         /\ challenges'[q] = challenges[q] /\ vectors'[q] = vectors[q]
         /\ candidate'[q] = candidate[q] /\ rows'[q] = rows[q]
<1> USE DEF TypeOK, cleanup, tpm, evidence
<1>1. CASE Start(r)
  BY <1>1 DEF Start, Goto
<1>2. CASE Read(r)
  BY <1>2 DEF Read, Goto
<1>3. CASE Load(r)
  BY <1>3 DEF Load, Goto, RaiseInBody
<1>4. CASE Quote(r)
  BY <1>4 DEF Quote, Goto
<1>5. CASE CheckQuote(r)
  BY <1>5 DEF CheckQuote, Goto
<1>6. CASE Baseline(r)
  BY <1>6 DEF Baseline, Goto
<1>7. CASE TryMutation(r)
  BY <1>7 DEF TryMutation
<1>8. CASE MutationSuite(r)
  BY <1>8 DEF MutationSuite, Goto, RaiseInBody
<1>9. CASE WriteEvidence(r)
  BY <1>9 DEF WriteEvidence, Goto, Add
<1>10. CASE Flush(r)
  BY <1>10 DEF Flush, Goto, RaiseInFinally
<1>11. CASE TransientAfter(r)
  BY <1>11 DEF TransientAfter, Goto
<1>12. CASE PersistentAfter(r)
  BY <1>12 DEF PersistentAfter, Goto
<1>13. CASE Discard(r)
  BY <1>13 DEF Discard, Goto
<1>14. CASE Report(r)
  BY <1>14 DEF Report, Goto, RaiseOutside
<1>15. CASE WriteManifest(r)
  BY <1>15 DEF WriteManifest, Goto, Add
<1>16. CASE WriteHashes(r)
  BY <1>16 DEF WriteHashes, Goto, Add
<1>17. CASE Rename(r)
  BY <1>17 DEF Rename, Goto, RaiseOutside
<1>18. CASE Succeed(r)
  BY <1>18 DEF Succeed, Goto
<1>19. CASE Leave(r)
  BY <1>19 DEF Leave, Goto
<1>20. CASE Raise(r)
  BY <1>20 DEF Raise, Goto, RaiseInBody, RaiseInFinally, RaiseOutside
<1>21. CASE Kill(r)
  BY <1>21 DEF Kill, Goto
<1> QED
  BY <1>1, <1>2, <1>3, <1>4, <1>5, <1>6, <1>7, <1>8, <1>9, <1>10, <1>11, <1>12, <1>13, <1>14, <1>15, <1>16, <1>17, <1>18, <1>19, <1>20, <1>21 DEF Step

(* What a step does to the control, the contexts and the stage of its run. *)
LEMMA LocalStep ==
  ASSUME TypeOK, NEW r \in Runs, Step(r) \/ Kill(r),
         ErrorInv(r), ContextInv(r), FlushInv(r), StageInv(r)
  PROVE  (ErrorInv(r) /\ ContextInv(r) /\ FlushInv(r) /\ StageInv(r))'
<1> USE DEF TypeOK, cleanup, tpm, evidence, Body, Reads, Creates, Finally, Flushes, Outer
<1>1. CASE Start(r)
  <2>1. ErrorInv(r)'
    BY <1>1 DEF Start, Goto, ErrorInv
  <2>2. ContextInv(r)'
    BY <1>1 DEF Start, Goto, ContextInv, Objects, BeforePrimary, BeforeAk, ErrorInv
  <2>3. FlushInv(r)'
    BY <1>1 DEF Start, Goto, FlushInv, ContextInv, Objects, ErrorInv
  <2>4. StageInv(r)'
    BY <1>1 DEF Start, Goto, StageInv, BodyDone, Opened, Files, ErrorInv
  <2> QED BY <2>1, <2>2, <2>3, <2>4
<1>2. CASE Read(r)
  <2>1. ErrorInv(r)'
    BY <1>2 DEF Read, Goto, Following, ErrorInv
  <2>2. ContextInv(r)'
    <3>1. /\ pc[r] \in Reads /\ pc'[r] = Following(r, pc[r])
          /\ contexts'[r] = contexts[r] /\ error'[r] = error[r]
      BY <1>2 DEF Read, Goto
    <3>2. /\ Following(r, pc[r]) \in Body
          /\ Following(r, pc[r]) \notin BeforePrimary => pc[r] \notin BeforePrimary
          /\ Following(r, pc[r]) \notin BeforeAk => pc[r] \notin BeforeAk
      BY <3>1 DEF Following, BeforePrimary, BeforeAk
    <3> QED BY <3>1, <3>2 DEF ContextInv
  <2>0. /\ pc[r] \in Reads /\ pc'[r] = Following(r, pc[r])
        /\ stage'[r] = stage[r] /\ Following(r, pc[r]) \in Body
    <3>1. pc[r] \in Reads /\ pc'[r] = Following(r, pc[r]) /\ stage'[r] = stage[r]
      BY <1>2 DEF Read, Goto
    <3>2. Following(r, pc[r]) \in Body
      BY <3>1 DEF Following
    <3> QED BY <3>1, <3>2
  <2>3. FlushInv(r)'
    BY <2>0 DEF FlushInv
  <2>4. StageInv(r)'
    BY <2>0 DEF StageInv, BodyDone
  <2> QED BY <2>1, <2>2, <2>3, <2>4
<1>3. CASE Load(r)
  <2>1. ErrorInv(r)'
    BY <1>3 DEF Load, Goto, RaiseInBody, Following, ObjectOf, ErrorInv
  <2>2. ContextInv(r)'
    BY <1>3 DEF Load, Goto, RaiseInBody, Following, ObjectOf, ContextInv, Objects, BeforePrimary, BeforeAk, ErrorInv
  <2>3. FlushInv(r)'
    <3>1. pc[r] \in Creates
          /\ (pc'[r] = "flush_ak" \/ pc'[r] = Following(r, pc[r]))
      BY <1>3 DEF Load, Goto, RaiseInBody
    <3>2. pc'[r] \in {"flush_ak"} \cup Body
      BY <3>1 DEF Following
    <3> QED BY <3>2 DEF FlushInv
  <2>4. StageInv(r)'
    BY <1>3 DEF Load, Goto, RaiseInBody, Following, ObjectOf, StageInv, BodyDone, Opened, Files, ErrorInv
  <2> QED BY <2>1, <2>2, <2>3, <2>4
<1>4. CASE Quote(r)
  <2>1. ErrorInv(r)'
    BY <1>4 DEF Quote, Goto, ErrorInv
  <2>2. ContextInv(r)'
    BY <1>4 DEF Quote, Goto, ContextInv, Objects, BeforePrimary, BeforeAk, ErrorInv
  <2>3. FlushInv(r)'
    BY <1>4 DEF Quote, Goto, FlushInv, ContextInv, Objects, ErrorInv
  <2>4. StageInv(r)'
    BY <1>4 DEF Quote, Goto, StageInv, BodyDone, Opened, Files, ErrorInv
  <2> QED BY <2>1, <2>2, <2>3, <2>4
<1>5. CASE CheckQuote(r)
  <2>1. ErrorInv(r)'
    BY <1>5 DEF CheckQuote, Goto, ErrorInv
  <2>2. ContextInv(r)'
    BY <1>5 DEF CheckQuote, Goto, ContextInv, Objects, BeforePrimary, BeforeAk, ErrorInv
  <2>3. FlushInv(r)'
    BY <1>5 DEF CheckQuote, Goto, FlushInv, ContextInv, Objects, ErrorInv
  <2>4. StageInv(r)'
    BY <1>5 DEF CheckQuote, Goto, StageInv, BodyDone, Opened, Files, ErrorInv
  <2> QED BY <2>1, <2>2, <2>3, <2>4
<1>6. CASE Baseline(r)
  <2>1. ErrorInv(r)'
    BY <1>6 DEF Baseline, Goto, ErrorInv
  <2>2. ContextInv(r)'
    BY <1>6 DEF Baseline, Goto, ContextInv, Objects, BeforePrimary, BeforeAk, ErrorInv
  <2>3. FlushInv(r)'
    BY <1>6 DEF Baseline, Goto, FlushInv, ContextInv, Objects, ErrorInv
  <2>4. StageInv(r)'
    BY <1>6 DEF Baseline, Goto, StageInv, BodyDone, Opened, Files, ErrorInv
  <2> QED BY <2>1, <2>2, <2>3, <2>4
<1>7. CASE TryMutation(r)
  <2>1. ErrorInv(r)'
    BY <1>7 DEF TryMutation, ErrorInv
  <2>2. ContextInv(r)'
    BY <1>7 DEF TryMutation, ContextInv, Objects, BeforePrimary, BeforeAk, ErrorInv
  <2>3. FlushInv(r)'
    BY <1>7 DEF TryMutation, FlushInv, ContextInv, Objects, ErrorInv
  <2>4. StageInv(r)'
    BY <1>7 DEF TryMutation, StageInv, BodyDone, Opened, Files, ErrorInv
  <2> QED BY <2>1, <2>2, <2>3, <2>4
<1>8. CASE MutationSuite(r)
  <2>1. ErrorInv(r)'
    BY <1>8 DEF MutationSuite, Goto, RaiseInBody, ErrorInv
  <2>2. ContextInv(r)'
    BY <1>8 DEF MutationSuite, Goto, RaiseInBody, ContextInv, Objects, BeforePrimary, BeforeAk, ErrorInv
  <2>3. FlushInv(r)'
    BY <1>8 DEF MutationSuite, Goto, RaiseInBody, FlushInv, ContextInv, Objects, ErrorInv
  <2>4. StageInv(r)'
    BY <1>8 DEF MutationSuite, Goto, RaiseInBody, StageInv, BodyDone, Opened, Files, ErrorInv
  <2> QED BY <2>1, <2>2, <2>3, <2>4
<1>9. CASE WriteEvidence(r)
  <2>1. ErrorInv(r)'
    BY <1>9 DEF WriteEvidence, Goto, Add, ErrorInv
  <2>2. ContextInv(r)'
    BY <1>9 DEF WriteEvidence, Goto, Add, ContextInv, Objects, BeforePrimary, BeforeAk, ErrorInv
  <2>3. FlushInv(r)'
    BY <1>9 DEF WriteEvidence, Goto, Add, FlushInv, ContextInv, Objects, ErrorInv
  <2>4. StageInv(r)'
    BY <1>9 DEF WriteEvidence, Goto, Add, StageInv, BodyDone, Opened, Files, ErrorInv
  <2> QED BY <2>1, <2>2, <2>3, <2>4
<1>10. CASE Flush(r)
  <2>1. ErrorInv(r)'
    BY <1>10 DEF Flush, Goto, Following, ObjectOf, RaiseInFinally, ErrorInv
  <2>2. ContextInv(r)'
    BY <1>10 DEF Flush, Goto, Following, ObjectOf, RaiseInFinally, ContextInv, Objects, BeforePrimary, BeforeAk, ErrorInv
  <2>3. FlushInv(r)'
    <3>1. contexts'[r] = contexts[r] /\ contexts[r] \subseteq {"primary", "ak"}
      BY <1>10 DEF Flush, Objects
    <3>2. CASE pc[r] = "flush_ak"
      <4>1. "ak" \in contexts[r] => "ak" \in attempted'[r]
        BY <1>10, <3>2 DEF Flush, ObjectOf
      <4>2. \/ pc'[r] = "flush_primary"
            \/ pc'[r] = "discard" /\ error'[r] = "cleanup"
        BY <1>10, <3>2 DEF Flush, Goto, Following, RaiseInFinally
      <4> QED BY <3>1, <4>1, <4>2 DEF FlushInv
    <3>3. CASE pc[r] = "flush_primary"
      <4>1. "ak" \in contexts[r] => "ak" \in attempted[r]
        BY <3>3 DEF FlushInv
      <4>2. contexts'[r] \subseteq attempted'[r]
        BY <1>10, <3>1, <3>3, <4>1 DEF Flush, ObjectOf
      <4>3. \/ pc'[r] = "transient-after"
            \/ pc'[r] = "discard" /\ error'[r] = "cleanup"
        BY <1>10, <3>3 DEF Flush, Goto, Following, RaiseInFinally
      <4> QED BY <4>2, <4>3 DEF FlushInv
    <3> QED BY <1>10, <3>2, <3>3 DEF Flush
  <2>4. StageInv(r)'
    BY <1>10 DEF Flush, Goto, Following, ObjectOf, RaiseInFinally, StageInv, BodyDone, Opened, Files, ErrorInv
  <2> QED BY <2>1, <2>2, <2>3, <2>4
<1>11. CASE TransientAfter(r)
  <2>1. ErrorInv(r)'
    BY <1>11 DEF TransientAfter, Goto, Following, ErrorInv
  <2>2. ContextInv(r)'
    BY <1>11 DEF TransientAfter, Goto, Following, ContextInv, Objects, BeforePrimary, BeforeAk, ErrorInv
  <2>3. FlushInv(r)'
    BY <1>11 DEF TransientAfter, Goto, Following, FlushInv, ContextInv, Objects, ErrorInv
  <2>4. StageInv(r)'
    BY <1>11 DEF TransientAfter, Goto, Following, StageInv, BodyDone, Opened, Files, ErrorInv
  <2> QED BY <2>1, <2>2, <2>3, <2>4
<1>12. CASE PersistentAfter(r)
  <2>1. ErrorInv(r)'
    BY <1>12 DEF PersistentAfter, Goto, ErrorInv
  <2>2. ContextInv(r)'
    BY <1>12 DEF PersistentAfter, Goto, ContextInv, Objects, BeforePrimary, BeforeAk, ErrorInv
  <2>3. FlushInv(r)'
    <3>1. /\ pc[r] = "persistent-after" /\ pc'[r] = "discard"
          /\ contexts'[r] = contexts[r] /\ attempted'[r] = attempted[r]
      BY <1>12 DEF PersistentAfter, Goto
    <3>2. contexts'[r] \subseteq attempted'[r]
      BY <3>1 DEF FlushInv
    <3> QED BY <3>1, <3>2 DEF FlushInv
  <2>4. StageInv(r)'
    BY <1>12 DEF PersistentAfter, Goto, StageInv, BodyDone, Opened, Files, ErrorInv
  <2> QED BY <2>1, <2>2, <2>3, <2>4
<1>13. CASE Discard(r)
  <2>1. ErrorInv(r)'
    BY <1>13 DEF Discard, Goto, ErrorInv
  <2>2. ContextInv(r)'
    BY <1>13 DEF Discard, Goto, ContextInv, Objects, BeforePrimary, BeforeAk, ErrorInv
  <2>3. FlushInv(r)'
    BY <1>13 DEF Discard, Goto, FlushInv, ContextInv, Objects, ErrorInv
  <2>4. StageInv(r)'
    BY <1>13 DEF Discard, Goto, StageInv, BodyDone, Opened, Files, ErrorInv
  <2> QED BY <2>1, <2>2, <2>3, <2>4
<1>14. CASE Report(r)
  <2>1. ErrorInv(r)'
    BY <1>14 DEF Report, Goto, RaiseOutside, ErrorInv
  <2>2. ContextInv(r)'
    BY <1>14 DEF Report, Goto, RaiseOutside, ContextInv, Objects, BeforePrimary, BeforeAk, ErrorInv
  <2>3. FlushInv(r)'
    BY <1>14 DEF Report, Goto, RaiseOutside, FlushInv, ContextInv, Objects, ErrorInv
  <2>4. StageInv(r)'
    BY <1>14 DEF Report, Goto, RaiseOutside, StageInv, BodyDone, Opened, Files, ErrorInv
  <2> QED BY <2>1, <2>2, <2>3, <2>4
<1>15. CASE WriteManifest(r)
  <2>1. ErrorInv(r)'
    BY <1>15 DEF WriteManifest, Goto, Add, ErrorInv
  <2>2. ContextInv(r)'
    BY <1>15 DEF WriteManifest, Goto, Add, ContextInv, Objects, BeforePrimary, BeforeAk, ErrorInv
  <2>3. FlushInv(r)'
    BY <1>15 DEF WriteManifest, Goto, Add, FlushInv, ContextInv, Objects, ErrorInv
  <2>4. StageInv(r)'
    BY <1>15 DEF WriteManifest, Goto, Add, StageInv, BodyDone, Opened, Files, ErrorInv
  <2> QED BY <2>1, <2>2, <2>3, <2>4
<1>16. CASE WriteHashes(r)
  <2>1. ErrorInv(r)'
    BY <1>16 DEF WriteHashes, Goto, Add, ErrorInv
  <2>2. ContextInv(r)'
    BY <1>16 DEF WriteHashes, Goto, Add, ContextInv, Objects, BeforePrimary, BeforeAk, ErrorInv
  <2>3. FlushInv(r)'
    BY <1>16 DEF WriteHashes, Goto, Add, FlushInv, ContextInv, Objects, ErrorInv
  <2>4. StageInv(r)'
    BY <1>16 DEF WriteHashes, Goto, Add, StageInv, BodyDone, Opened, Files, ErrorInv
  <2> QED BY <2>1, <2>2, <2>3, <2>4
<1>17. CASE Rename(r)
  <2>1. ErrorInv(r)'
    BY <1>17 DEF Rename, Goto, RaiseOutside, ErrorInv
  <2>2. ContextInv(r)'
    BY <1>17 DEF Rename, Goto, RaiseOutside, ContextInv, Objects, BeforePrimary, BeforeAk, ErrorInv
  <2>3. FlushInv(r)'
    BY <1>17 DEF Rename, Goto, RaiseOutside, FlushInv, ContextInv, Objects, ErrorInv
  <2>4. StageInv(r)'
    BY <1>17 DEF Rename, Goto, RaiseOutside, StageInv, BodyDone, Opened, Files, ErrorInv
  <2> QED BY <2>1, <2>2, <2>3, <2>4
<1>18. CASE Succeed(r)
  <2>1. ErrorInv(r)'
    BY <1>18 DEF Succeed, Goto, ErrorInv
  <2>2. ContextInv(r)'
    BY <1>18 DEF Succeed, Goto, ContextInv, Objects, BeforePrimary, BeforeAk, ErrorInv
  <2>3. FlushInv(r)'
    BY <1>18 DEF Succeed, Goto, FlushInv, ContextInv, Objects, ErrorInv
  <2>4. StageInv(r)'
    BY <1>18 DEF Succeed, Goto, StageInv, BodyDone, Opened, Files, ErrorInv
  <2> QED BY <2>1, <2>2, <2>3, <2>4
<1>19. CASE Leave(r)
  <2>1. ErrorInv(r)'
    BY <1>19 DEF Leave, Goto, ErrorInv
  <2>2. ContextInv(r)'
    BY <1>19 DEF Leave, Goto, ContextInv, Objects, BeforePrimary, BeforeAk, ErrorInv
  <2>3. FlushInv(r)'
    BY <1>19 DEF Leave, Goto, FlushInv, ContextInv, Objects, ErrorInv
  <2>4. StageInv(r)'
    BY <1>19 DEF Leave, Goto, StageInv, BodyDone, Opened, Files, ErrorInv
  <2> QED BY <2>1, <2>2, <2>3, <2>4
<1>20. CASE Raise(r)
  <2>1. ErrorInv(r)'
    BY <1>20 DEF Raise, Goto, RaiseInBody, RaiseInFinally, RaiseOutside, ErrorInv
  <2>2. ContextInv(r)'
    BY <1>20 DEF Raise, Goto, RaiseInBody, RaiseInFinally, RaiseOutside, ContextInv, Objects, BeforePrimary, BeforeAk, ErrorInv
  <2>3. FlushInv(r)'
    BY <1>20 DEF Raise, Goto, RaiseInBody, RaiseInFinally, RaiseOutside, FlushInv, ContextInv, Objects, ErrorInv
  <2>4. StageInv(r)'
    BY <1>20 DEF Raise, Goto, RaiseInBody, RaiseInFinally, RaiseOutside, StageInv, BodyDone, Opened, Files, ErrorInv
  <2> QED BY <2>1, <2>2, <2>3, <2>4
<1>21. CASE Kill(r)
  <2>1. ErrorInv(r)'
    BY <1>21 DEF Kill, Goto, ErrorInv
  <2>2. ContextInv(r)'
    BY <1>21 DEF Kill, Goto, ContextInv, Objects, BeforePrimary, BeforeAk, ErrorInv
  <2>3. FlushInv(r)'
    BY <1>21 DEF Kill, Goto, FlushInv, ContextInv, Objects, ErrorInv
  <2>4. StageInv(r)'
    BY <1>21 DEF Kill, Goto, StageInv, BodyDone, Opened, Files, ErrorInv
  <2> QED BY <2>1, <2>2, <2>3, <2>4
<1> QED
  BY <1>1, <1>2, <1>3, <1>4, <1>5, <1>6, <1>7, <1>8, <1>9, <1>10, <1>11, <1>12, <1>13, <1>14, <1>15, <1>16, <1>17, <1>18, <1>19, <1>20, <1>21 DEF Step

(* A slot comes to hold an object of a run only by a loading command of that run. *)
LEMMA OwnShrinks ==
  ASSUME TypeOK, NEW r \in Runs, NEW q \in Runs, Step(r) \/ Kill(r),
         q # r \/ pc[r] \notin Creates
  PROVE  Own(q)' \subseteq Own(q)
<1>1. CASE Load(r)
  <2>1. q # r
    BY <1>1 DEF Load
  <2>2. PICK h \in Handles, stays \in BOOLEAN :
          loaded' = IF stays THEN [loaded EXCEPT ![h] = <<r, ObjectOf(pc[r])>>] ELSE loaded
    BY <1>1 DEF Load
  <2>3. <<r, ObjectOf(pc[r])>> \notin {q} \X Objects
    BY <2>1
  <2> QED BY <2>2, <2>3 DEF Own, TypeOK
<1>2. CASE Flush(r)
  <2>1. \A h \in Handles : loaded'[h] \in {loaded[h], Free}
    BY <1>2 DEF Flush, TypeOK
  <2>2. Free \notin {q} \X Objects
    BY ConstantsAssumption
  <2> QED BY <2>1, <2>2 DEF Own
<1>3. CASE UNCHANGED loaded
  BY <1>3 DEF Own
<1> QED
  BY <1>1, <1>2, <1>3
     DEF Step, tpm, Start, Read, Quote, CheckQuote, Baseline, TryMutation, MutationSuite,
         WriteEvidence, TransientAfter, PersistentAfter, Discard, Report, WriteManifest,
         WriteHashes, Rename, Succeed, Leave, Raise, Kill

LEMMA OwnInUse ==
  ASSUME NEW r \in Runs PROVE Own(r) \subseteq InUse
BY ConstantsAssumption DEF Own, InUse

(* What a step does to the censuses of its run. *)
LEMMA CensusStep ==
  ASSUME TypeOK, NEW r \in Runs, Step(r) \/ Kill(r), CensusInv(r)
  PROVE  CensusInv(r)'
<1> USE DEF TypeOK, cleanup, tpm, evidence, Body, Reads, Creates, Finally, Flushes, Outer
<1>a. CASE pc[r] \notin Creates \cup {"transient", "transient-after", "persistent-after", "report"}
  <2>1. Own(r)' \subseteq Own(r)
    BY <1>a, OwnShrinks
  <2>2. /\ before'[r] = before[r] /\ after'[r] = after[r] /\ verified'[r] = verified[r]
        /\ pc'[r] \notin {"persistent-after"} \cup (Outer \ {"report"}) \/ pc[r] \in Outer \/ pc'[r] = pc[r]
        /\ pc[r] \notin {"start"} \cup Body \cup Finally
             => pc'[r] \notin {"start"} \cup Body \cup Finally
    <3> USE <1>a
    <3>1. CASE Start(r)
      BY <3>1 DEF Start, Goto
    <3>2. CASE Read(r)
      BY <3>2 DEF Read, Goto, Following
    <3>3. CASE Load(r)
      BY <3>3 DEF Load, Goto, RaiseInBody, Following, ObjectOf
    <3>4. CASE Quote(r)
      BY <3>4 DEF Quote, Goto
    <3>5. CASE CheckQuote(r)
      BY <3>5 DEF CheckQuote, Goto
    <3>6. CASE Baseline(r)
      BY <3>6 DEF Baseline, Goto
    <3>7. CASE TryMutation(r)
      BY <3>7 DEF TryMutation
    <3>8. CASE MutationSuite(r)
      BY <3>8 DEF MutationSuite, Goto, RaiseInBody
    <3>9. CASE WriteEvidence(r)
      BY <3>9 DEF WriteEvidence, Goto, Add
    <3>10. CASE Flush(r)
      BY <3>10 DEF Flush, Goto, Following, ObjectOf, RaiseInFinally
    <3>11. CASE TransientAfter(r)
      BY <3>11 DEF TransientAfter, Goto, Following
    <3>12. CASE PersistentAfter(r)
      BY <3>12 DEF PersistentAfter, Goto
    <3>13. CASE Discard(r)
      BY <3>13 DEF Discard, Goto
    <3>14. CASE Report(r)
      BY <3>14 DEF Report, Goto, RaiseOutside
    <3>15. CASE WriteManifest(r)
      BY <3>15 DEF WriteManifest, Goto, Add
    <3>16. CASE WriteHashes(r)
      BY <3>16 DEF WriteHashes, Goto, Add
    <3>17. CASE Rename(r)
      BY <3>17 DEF Rename, Goto, RaiseOutside
    <3>18. CASE Succeed(r)
      BY <3>18 DEF Succeed, Goto
    <3>19. CASE Leave(r)
      BY <3>19 DEF Leave, Goto
    <3>20. CASE Raise(r)
      <4>1. /\ before'[r] = before[r] /\ after'[r] = after[r] /\ verified'[r] = verified[r]
            /\ pc[r] \in Body \cup Finally \cup Outer
        BY <3>20 DEF Raise
      <4>2. pc'[r] \in {"flush_ak", "discard", "leave"}
        BY <3>20 DEF Raise, Goto, RaiseInBody, RaiseInFinally, RaiseOutside
      <4>3. pc[r] \notin {"start"} \cup Body \cup Finally => pc'[r] = "leave"
        BY <3>20 DEF Raise, Goto, RaiseOutside
      <4> QED BY <4>1, <4>2, <4>3
    <3>21. CASE Kill(r)
      BY <3>21 DEF Kill, Goto
    <3> QED
      BY <3>1, <3>2, <3>3, <3>4, <3>5, <3>6, <3>7, <3>8, <3>9, <3>10, <3>11, <3>12, <3>13, <3>14, <3>15, <3>16, <3>17, <3>18, <3>19, <3>20, <3>21 DEF Step
  <2>3. verified'[r] => verified[r]
    BY <2>2
  <2>4. pc'[r] = "persistent-after" => pc[r] = "persistent-after"
    BY <2>2
  <2>5. pc'[r] \in Outer \ {"report"} => pc[r] \in Outer \ {"report"}
    BY <1>a, <2>2
  <2> QED BY <2>1, <2>2, <2>3, <2>4, <2>5 DEF CensusInv
<1>b. CASE pc[r] \in Creates \cup {"transient", "transient-after"}
  <2>0. Load(r) \/ Read(r) \/ TransientAfter(r) \/ Raise(r) \/ Kill(r)
    BY <1>b DEF Step, Start, Quote, CheckQuote, Baseline, TryMutation, MutationSuite,
                WriteEvidence, PersistentAfter, Flush, Discard, Report,
                WriteManifest, WriteHashes, Rename, Succeed, Leave
  <2>a. /\ Load(r) => pc'[r] \in {"readpublic-primary", "readpublic-ak", "flush_ak"}
        /\ Read(r) /\ pc[r] = "transient" => pc'[r] = "persistent"
        /\ TransientAfter(r) => pc'[r] = "persistent-after"
        /\ Raise(r) => pc'[r] \in {"flush_ak", "discard"}
        /\ Kill(r) => pc'[r] = "killed"
    <3>1. Load(r) => pc'[r] \in {"readpublic-primary", "readpublic-ak", "flush_ak"}
      BY DEF Load, Goto, Following, RaiseInBody
    <3>2. Read(r) /\ pc[r] = "transient" => pc'[r] = "persistent"
      BY DEF Read, Goto, Following
    <3>3. TransientAfter(r) => pc'[r] = "persistent-after"
      BY DEF TransientAfter, Goto, Following
    <3>4. Raise(r) => pc'[r] \in {"flush_ak", "discard"}
      BY <1>b DEF Raise, Goto, RaiseInBody, RaiseInFinally
    <3>5. Kill(r) => pc'[r] = "killed"
      BY DEF Kill, Goto
    <3> QED BY <3>1, <3>2, <3>3, <3>4, <3>5
  <2>b. Read(r) => pc[r] = "transient"
    BY <1>b DEF Read
  <2>1. /\ ~verified[r] /\ verified'[r] = verified[r]
        /\ pc'[r] \in Body \cup Finally \cup {"discard", "killed"}
    <3>1. ~verified[r]
      BY <1>b DEF CensusInv
    <3>2. verified'[r] = verified[r]
      BY <2>0 DEF Load, Read, TransientAfter, Raise, Kill
    <3> QED BY <2>0, <2>a, <2>b, <3>1, <3>2
  <2>2. ASSUME pc'[r] = "persistent-after", after'[r] # Nothing
        PROVE  Own(r)' \subseteq after'[r]
    <3>1. TransientAfter(r)
      BY <2>0, <2>2, <2>a, <2>b
    <3>2. after'[r] = InUse /\ UNCHANGED loaded
      BY <2>2, <3>1 DEF TransientAfter
    <3> QED BY <3>2, OwnInUse DEF Own
  <2> QED BY <2>1, <2>2 DEF CensusInv
<1>c. CASE pc[r] = "persistent-after"
  <2>1. Own(r)' \subseteq Own(r)
    BY <1>c, OwnShrinks
  <2>2. ~verified[r]
    BY <1>c DEF CensusInv
  <2>3. \/ PersistentAfter(r)
        \/ pc'[r] \in {"discard", "killed"} /\ verified'[r] = verified[r]
    BY <1>c DEF Step, Load, Read, TransientAfter, Raise, Kill, Goto,
                RaiseInBody, RaiseInFinally, Start, Quote, CheckQuote, Baseline, TryMutation,
                MutationSuite, WriteEvidence, Flush, Discard, Report,
                WriteManifest, WriteHashes, Rename, Succeed, Leave
  <2>4. CASE PersistentAfter(r)
    <3>1. /\ pc'[r] = "discard" /\ after'[r] = after[r] /\ before'[r] = before[r]
          /\ verified'[r] => after[r] # Nothing /\ after[r] \subseteq before[r]
      BY <2>4 DEF PersistentAfter, Goto, NoNewHandle
    <3>2. verified'[r] => Own(r) \subseteq after[r]
      BY <1>c, <3>1 DEF CensusInv
    <3> QED BY <2>1, <3>1, <3>2 DEF CensusInv
  <2>5. CASE pc'[r] \in {"discard", "killed"} /\ verified'[r] = verified[r]
    BY <2>2, <2>5 DEF CensusInv
  <2> QED BY <2>3, <2>4, <2>5
<1>d. CASE pc[r] = "report"
  <2>1. Own(r)' \subseteq Own(r)
    BY <1>d, OwnShrinks
  <2>2. /\ before'[r] = before[r] /\ after'[r] = after[r] /\ verified'[r] = verified[r]
        /\ pc'[r] \in {"manifest", "leave", "killed"}
        /\ pc'[r] = "manifest" => verified[r]
    BY <1>d DEF Step, Load, Read, TransientAfter, Raise, Kill, Goto,
                RaiseOutside, Start, Quote, CheckQuote, Baseline, TryMutation,
                MutationSuite, WriteEvidence, PersistentAfter, Flush, Discard, Report,
                WriteManifest, WriteHashes, Rename, Succeed, Leave
  <2> QED BY <2>1, <2>2 DEF CensusInv
<1> QED
  BY <1>a, <1>b, <1>c, <1>d

LEMMA CensusFrame ==
  ASSUME TypeOK, NEW r \in Runs, NEW q \in Runs, q # r, Step(r) \/ Kill(r), CensusInv(q)
  PROVE  CensusInv(q)'
BY Frame, OwnShrinks DEF CensusInv

(* Only a rename publishes, and only where nothing is. *)
LEMMA OutputStep ==
  ASSUME TypeOK, NEW r \in Runs, Step(r) \/ Kill(r)
  PROVE  \/ output' = output
         \/ /\ output = Nothing /\ output' = [run |-> r, files |-> stage[r]]
            /\ pc[r] = "rename" /\ pc'[r] = "renamed"
            /\ attempted' = attempted /\ verified' = verified
            /\ UNCHANGED evidence
BY DEF Step, TypeOK, cleanup, evidence, tpm, Rename, Goto, RaiseOutside, Start, Read, Load, Quote,
       CheckQuote, Baseline, TryMutation, MutationSuite, WriteEvidence, Flush,
       TransientAfter, PersistentAfter, Discard, Report, WriteManifest, WriteHashes,
       Succeed, Leave, Raise, Kill

(* Past the rename a run only moves on. *)
LEMMA PastRename ==
  ASSUME TypeOK, NEW r \in Runs, Step(r) \/ Kill(r),
         pc[r] \in {"renamed", "leave", "ended", "killed"}
  PROVE  /\ pc'[r] \in {"renamed", "leave", "ended", "killed"}
         /\ attempted' = attempted /\ verified' = verified /\ output' = output
         /\ UNCHANGED evidence
BY DEF Step, TypeOK, cleanup, evidence, tpm, Rename, Goto, RaiseOutside, Start, Read, Load, Quote,
       CheckQuote, Baseline, TryMutation, MutationSuite, WriteEvidence, Flush,
       TransientAfter, PersistentAfter, Discard, Report, WriteManifest, WriteHashes,
       Succeed, Leave, Raise, Kill, Body, Reads, Creates, Finally, Flushes, Outer

LEMMA PublishedStep ==
  ASSUME TypeOK, NEW r \in Runs, Step(r) \/ Kill(r),
         FlushInv(r), StageInv(r), CensusInv(r), NEW q \in Runs, PublishedInv(q)
  PROVE  PublishedInv(q)'
<1>1. CASE output' = output
  <2>1. Published(q)' => Published(q)
    BY <1>1 DEF Published
  <2>2. CASE q = r
    BY <1>1, <2>1, <2>2, PastRename DEF PublishedInv
  <2>3. CASE q # r
    BY <1>1, <2>1, <2>3, Frame DEF PublishedInv
  <2> QED BY <2>2, <2>3
<1>2. CASE /\ output = Nothing /\ output' = [run |-> r, files |-> stage[r]]
           /\ pc[r] = "rename" /\ pc'[r] = "renamed"
           /\ attempted' = attempted /\ verified' = verified
  <2>1. output'.run = r /\ output'.files = stage[r]
    BY <1>2
  <2>2. stage[r] = Files
    <3>1. Files \ {"manifest", "hashes"} \subseteq stage[r]
          /\ "manifest" \in stage[r] /\ "hashes" \in stage[r]
      BY <1>2 DEF StageInv
    <3>2. stage[r] \subseteq Files
      BY DEF TypeOK
    <3> QED BY <3>1, <3>2
  <2>3. attempted[r] = Objects /\ verified[r]
    BY <1>2 DEF FlushInv, CensusInv, Outer
  <2> QED BY <1>2, <2>1, <2>2, <2>3 DEF PublishedInv, Published
<1> QED
  BY <1>1, <1>2, OutputStep

LEMMA InitInv == Init => IInv
<1> SUFFICES ASSUME Init, NEW r \in Runs PROVE RunInv(r)
  BY InitType DEF IInv
<1>1. ErrorInv(r) /\ ContextInv(r) /\ FlushInv(r)
  BY DEF Init, ErrorInv, ContextInv, FlushInv, Body, Reads, Creates, Finally, Flushes, Outer
<1>2. StageInv(r)
  BY DEF Init, StageInv, BodyDone, Body, Reads, Creates, Finally, Flushes, Outer
<1>3. CensusInv(r) /\ PublishedInv(r)
  BY DEF Init, CensusInv, PublishedInv, Published, Outer
<1> QED
  BY <1>1, <1>2, <1>3 DEF RunInv

LEMMA StepInv == IInv /\ [Next]_vars => IInv'
<1> SUFFICES ASSUME IInv, [Next]_vars PROVE IInv'
  OBVIOUS
<1>1. TypeOK /\ TypeOK'
  BY StepType DEF IInv
<1>2. ASSUME NEW r \in Runs, Step(r) \/ Kill(r), NEW q \in Runs PROVE RunInv(q)'
  <2>1. RunInv(r) /\ RunInv(q)
    BY DEF IInv
  <2>2. PublishedInv(q)'
    BY <1>1, <1>2, <2>1, PublishedStep DEF RunInv
  <2>3. CASE q = r
    BY <1>1, <1>2, <2>1, <2>2, <2>3, LocalStep, CensusStep DEF RunInv
  <2>4. CASE q # r
    <3>1. CensusInv(q)'
      BY <1>1, <1>2, <2>1, <2>4, CensusFrame DEF RunInv
    <3>2. /\ pc'[q] = pc[q] /\ error'[q] = error[q] /\ contexts'[q] = contexts[q]
          /\ attempted'[q] = attempted[q] /\ stage'[q] = stage[q]
      BY <1>1, <1>2, <2>4, Frame
    <3>3. (ErrorInv(q) /\ ContextInv(q) /\ FlushInv(q) /\ StageInv(q))'
      BY <2>1, <3>2 DEF RunInv, ErrorInv, ContextInv, FlushInv, StageInv, BodyDone
    <3> QED BY <2>2, <3>1, <3>3 DEF RunInv
  <2> QED BY <2>3, <2>4
<1>3. CASE UNCHANGED vars
  BY <1>1, <1>3 DEF IInv, RunInv, vars, tpm, cleanup, evidence, ErrorInv, ContextInv, FlushInv,
     StageInv, BodyDone, CensusInv, Own, PublishedInv, Published
<1> QED
  BY <1>1, <1>2, <1>3 DEF Next, IInv

(* The inductive invariant holds of every behaviour.                       *)
THEOREM Invariance == Spec => []IInv
BY InitInv, StepInv, PTL DEF Spec

-----------------------------------------------------------------------------
(* What follows from it.                                                   *)

(* An output is a whole tree of a run that tried both flushes and whose    *)
(* census was verified, whatever other runs and failures did.              *)
THEOREM WholeOrNothing == Spec => []PublishedIsWhole
<1>1. IInv => PublishedIsWhole
  BY DEF IInv, RunInv, PublishedInv, PublishedIsWhole
<1> QED
  BY <1>1, Invariance, PTL

(* The census of a published run bounds what the run has left in the TPM.  *)
THEOREM CensusIsSound == Spec => []PublishedLeavesNothingNew
<1>1. IInv => PublishedLeavesNothingNew
  BY DEF IInv, RunInv, PublishedInv, CensusInv, Own, PublishedLeavesNothingNew
<1> QED
  BY <1>1, Invariance, PTL

(* No run that ended has left a stage or a private directory.              *)
THEOREM NothingLeftBehind == Spec => []EndedRunsAreGone
<1>1. IInv => EndedRunsAreGone
  BY DEF IInv, RunInv, ContextInv, StageInv, EndedRunsAreGone
<1> QED
  BY <1>1, Invariance, PTL

(* An exception in the body does not skip the cleanup.                     *)
THEOREM CleanupAfterErrors == Spec => []BodyErrorsAreCleanedUp
<1>1. IInv => BodyErrorsAreCleanedUp
  BY DEF IInv, RunInv, FlushInv, CensusInv, BodyErrorsAreCleanedUp
<1> QED
  BY <1>1, Invariance, PTL

(* What has been published is never replaced.                              *)
THEOREM Exclusive == Spec => NeverOverwritten
<1>1. TypeOK /\ [Next]_vars => [output # Nothing => output' = output]_vars
  <2> SUFFICES ASSUME TypeOK, Next PROVE output # Nothing => output' = output
    OBVIOUS
  <2>1. PICK r \in Runs : Step(r) \/ Kill(r)
    BY DEF Next
  <2> QED BY <2>1, OutputStep
<1> QED
  BY <1>1, TypeCorrect, PTL DEF Spec, NeverOverwritten

-----------------------------------------------------------------------------
(* A run that has the TPM to itself.                                       *)

Early == {"start", "version", "transient"}

(* Other software keeps its slots, the first census sees no others, and    *)
(* until then the run has loaded nothing.                                  *)
AloneInv ==
  /\ \A h \in Handles : loaded[h] = Others <=> h \in Foreign
  /\ \A r \in Runs : before[r] \subseteq Foreign
  /\ \A r \in Runs : pc[r] \in Early => Own(r) = {}

LEMMA AloneStep ==
  ASSUME NEW alone, Runs = {alone}, IInv, AloneInv, [Next]_vars
  PROVE  AloneInv'
<1> USE DEF TypeOK, tpm, cleanup
<1>1. TypeOK
  BY DEF IInv
<1>2. ASSUME NEW r \in Runs, Step(r) \/ Kill(r) PROVE AloneInv'
  <2>1. \A h \in Handles : loaded'[h] = Others <=> h \in Foreign
    <3>1. CASE Load(r)
      <4>1. PICK h \in Handles, stays \in BOOLEAN :
              /\ stays => loaded[h] = Free
              /\ loaded' = IF stays THEN [loaded EXCEPT ![h] = <<r, ObjectOf(pc[r])>>] ELSE loaded
        BY <3>1 DEF Load
      <4>2. <<r, ObjectOf(pc[r])>> # Others /\ Free # Others
        BY ConstantsAssumption DEF ObjectOf, Objects
      <4> QED BY <1>1, <4>1, <4>2 DEF AloneInv
    <3>2. CASE Flush(r)
      <4>1. \A h \in Handles : \/ loaded'[h] = loaded[h]
                              \/ /\ loaded'[h] = Free
                                 /\ loaded[h] = <<r, ObjectOf(pc[r])>>
        BY <1>1, <3>2 DEF Flush
      <4>2. <<r, ObjectOf(pc[r])>> # Others /\ Free # Others
        BY ConstantsAssumption DEF ObjectOf, Objects
      <4> QED BY <4>1, <4>2 DEF AloneInv
    <3>3. CASE UNCHANGED loaded
      BY <3>3 DEF AloneInv
    <3> QED
      BY <1>2, <3>1, <3>2, <3>3
         DEF Step, Start, Read, Quote, CheckQuote, Baseline, TryMutation, MutationSuite,
             WriteEvidence, TransientAfter, PersistentAfter, Discard, Report,
             WriteManifest, WriteHashes, Rename, Succeed, Leave, Raise, Kill
  <2>2. pc'[r] \in Early => pc[r] \in Early /\ loaded' = loaded
    <3>1. CASE Start(r)
      BY <1>1, <3>1 DEF Start, Goto, Early
    <3>2. CASE Read(r)
      BY <1>1, <3>2 DEF Read, Reads, Goto, Following, Early
    <3>3. CASE Load(r)
      BY <1>1, <3>3 DEF Load, Creates, Goto, Following, RaiseInBody, Early
    <3>4. CASE Flush(r)
      BY <1>1, <3>4 DEF Flush, Flushes, Goto, Following, RaiseInFinally, Early
    <3>5. CASE Raise(r)
      BY <1>1, <3>5 DEF Raise, Goto, RaiseInBody, RaiseInFinally, RaiseOutside, Early
    <3>6. CASE TransientAfter(r)
      BY <1>1, <3>6 DEF TransientAfter, Goto, Following, Early
    <3>7. CASE Report(r) \/ Rename(r)
      BY <1>1, <3>7 DEF Report, Rename, Goto, RaiseOutside, Early
    <3>8. CASE MutationSuite(r)
      BY <1>1, <3>8 DEF MutationSuite, Goto, RaiseInBody, Early
    <3>9. CASE \/ Quote(r) \/ CheckQuote(r) \/ Baseline(r) \/ TryMutation(r)
               \/ WriteEvidence(r) \/ PersistentAfter(r) \/ Discard(r)
      BY <1>1, <3>9 DEF Quote, CheckQuote, Baseline, TryMutation, WriteEvidence,
                        PersistentAfter, Discard, Goto, Early
    <3>10. CASE \/ WriteManifest(r) \/ WriteHashes(r) \/ Succeed(r) \/ Leave(r) \/ Kill(r)
      BY <1>1, <3>10 DEF WriteManifest, WriteHashes, Succeed, Leave, Kill, Goto, Early
    <3> QED
      BY <1>2, <3>1, <3>2, <3>3, <3>4, <3>5, <3>6, <3>7, <3>8, <3>9, <3>10 DEF Step
  <2>3. before'[r] \subseteq Foreign
    <3>1. CASE Read(r) /\ pc[r] = "transient"
      <4>1. Own(r) = {}
        BY <3>1 DEF AloneInv, Early
      <4>2. \A h \in InUse : loaded[h] \in {Others} \cup ({r} \X Objects)
        BY <1>1 DEF InUse, Owners
      <4>3. InUse \subseteq Foreign
        BY <4>1, <4>2 DEF AloneInv, Own, InUse
      <4>4. before'[r] = InUse
        BY <1>1, <3>1 DEF Read
      <4> QED BY <4>3, <4>4
    <3>2. CASE before' = before
      BY <3>2 DEF AloneInv
    <3> QED
      BY <1>2, <3>1, <3>2
         DEF Step, Start, Read, Load, Quote, CheckQuote, Baseline, TryMutation, MutationSuite,
             WriteEvidence, Flush, TransientAfter, PersistentAfter, Discard, Report,
             WriteManifest, WriteHashes, Rename, Succeed, Leave, Raise, Kill
  <2>4. pc'[r] \in Early => Own(r)' = {}
    BY <2>2 DEF AloneInv, Own
  <2>5. Runs = {r}
    BY <1>2
  <2> QED BY <2>1, <2>3, <2>4, <2>5 DEF AloneInv
<1>3. CASE UNCHANGED vars
  BY <1>3 DEF AloneInv, Own, vars
<1> QED
  BY <1>2, <1>3 DEF Next

(* A run that has the TPM to itself and publishes has left nothing loaded. *)
THEOREM AloneLeavesNothing ==
  ASSUME NEW alone, Runs = {alone}
  PROVE  Spec => []PublishedLeavesNothing
<1>1. Init => AloneInv
  BY ConstantsAssumption DEF Init, AloneInv, Own
<1>2. IInv /\ AloneInv /\ [Next]_vars => AloneInv'
  BY AloneStep
<1>3. IInv /\ AloneInv => PublishedLeavesNothing
  <2> SUFFICES ASSUME IInv, AloneInv, NEW r \in Runs, Published(r), NEW h \in Handles,
                      loaded[h] \in {r} \X Objects
               PROVE  FALSE
    BY DEF PublishedLeavesNothing
  <2>1. h \in before[r]
    BY DEF IInv, RunInv, PublishedInv, CensusInv, Own
  <2>2. loaded[h] = Others
    BY <2>1 DEF AloneInv
  <2> QED BY <2>2, ConstantsAssumption
<1> QED
  BY <1>1, <1>2, <1>3, Invariance, PTL DEF Spec

-----------------------------------------------------------------------------
(* The published evidence.                                                 *)

LEMMA EvidenceFrame ==
  ASSUME TypeOK, NEW r \in Runs, NEW q \in Runs, q # r, Step(r) \/ Kill(r),
         RoundInv(q), Bound(q), CandidateInv(q), CompleteInv(q)
  PROVE  (RoundInv(q) /\ Bound(q) /\ CandidateInv(q) /\ CompleteInv(q))'
<1>1. /\ pc'[q] = pc[q] /\ error'[q] = error[q]
      /\ challenges'[q] = challenges[q] /\ vectors'[q] = vectors[q]
      /\ candidate'[q] = candidate[q] /\ rows'[q] = rows[q]
  BY Frame
<1>2. Published(q)' => Published(q)
  BY OutputStep DEF Published
<1>3. Quoted(q)' = Quoted(q) /\ Drawn(q)' = Drawn(q)
  BY <1>1 DEF Quoted, Drawn
<1>4. RoundInv(q)' /\ Bound(q)' /\ CandidateInv(q)'
  BY <1>1, <1>3 DEF RoundInv, Bound, CandidateInv
<1>5. CompleteInv(q)'
  BY <1>1, <1>2 DEF CompleteInv, BodyDone
<1> QED
  BY <1>4, <1>5

LEMMA CasesIsNat == Cases \in Nat
<1>1. Len(Representatives) \in Nat /\ Len(Mutations) \in Nat
  BY ConstantsAssumption
<1> QED
  BY <1>1 DEF Cases

(* An exception in the body leaves no evidence, and nothing published. *)
LEMMA RaiseEvidence ==
  ASSUME TypeOK, NEW r \in Runs, RaiseInBody(r), pc[r] \in Body, PublishedInv(r),
         UNCHANGED output
  PROVE  (Bound(r) /\ CandidateInv(r) /\ CompleteInv(r))'
<1>1. /\ vectors'[r] = <<>> /\ rows'[r] = <<>> /\ pc'[r] = "flush_ak" /\ error'[r] = "body"
  BY DEF RaiseInBody, Goto, TypeOK
<1>2. ~Published(r)'
  BY DEF PublishedInv, Published, Body, Reads, Creates
<1>3. Len(Transactions) \in Nat
  BY ConstantsAssumption
<1> QED
  BY <1>1, <1>2, <1>3, CasesIsNat DEF Bound, CandidateInv, CompleteInv, BodyDone, Outer

(* The challenges drawn, step by step.                                     *)
LEMMA RoundStep ==
  ASSUME TypeOK, NEW r \in Runs, Step(r) \/ Kill(r), RoundInv(r)
  PROVE  RoundInv(r)'
<1> USE DEF TypeOK, evidence, tpm, cleanup
<1>a. vectors[r] \in Seq(Evidence) /\ challenges[r] \in Seq(Challenges)
  OBVIOUS
<1>1. CASE Quote(r)
  <2>1. PICK challenge \in Challenges \ Drawn(r) :
          LET envelope == Envelope(Transactions[Len(challenges[r]) + 1], challenge)
          IN /\ challenges' = [challenges EXCEPT ![r] = Append(@, challenge)]
             /\ \E signed \in {QualifyingData(envelope, "digest")} \cup OtherData :
                  candidate' = [candidate EXCEPT ![r] = Vector(envelope, signed)]
    BY <1>1 DEF Quote
  <2>2. candidate'[r].envelope.challenge = challenge
    BY <2>1 DEF Vector, Envelope
  <2>3. /\ pc[r] = "quote" /\ pc'[r] = "checkquote" /\ vectors' = vectors
        /\ challenges'[r] = Append(challenges[r], challenge)
    BY <1>1, <2>1 DEF Quote, Goto
  <2>4. /\ Len(challenges'[r]) = Len(challenges[r]) + 1
        /\ \A i \in 1..Len(challenges[r]) : challenges'[r][i] = challenges[r][i]
        /\ challenges'[r][Len(challenges[r]) + 1] = challenge
    BY <1>a, <2>1, <2>3
  <2>5. Drawn(r)' = Drawn(r) \cup {challenge}
    <3>1. Len(challenges[r]) \in Nat
      BY <1>a
    <3>2. 1..(Len(challenges[r]) + 1) = (1..Len(challenges[r])) \cup {Len(challenges[r]) + 1}
      BY <3>1
    <3>3. Drawn(r)' = {challenges'[r][i] : i \in 1..(Len(challenges[r]) + 1)}
      BY <2>4 DEF Drawn
    <3> HIDE DEF TypeOK
    <3>4. ASSUME NEW c PROVE c \in Drawn(r)' <=> c \in Drawn(r) \cup {challenge}
      <4>1. c \in Drawn(r)' <=>
              \E i \in (1..Len(challenges[r])) \cup {Len(challenges[r]) + 1} :
                c = challenges'[r][i]
        BY <3>2, <3>3
      <4>2. c \in Drawn(r)' <=>
              \/ \E i \in 1..Len(challenges[r]) : c = challenges[r][i]
              \/ c = challenge
        BY <2>4, <4>1
      <4> QED BY <4>2 DEF Drawn
    <3> QED BY <3>4
  <2> QED BY <2>2, <2>3, <2>4, <2>5 DEF RoundInv, Quoted, Reads, Creates
<1>2. CASE CheckQuote(r)
  <2> DEFINE n == Len(vectors[r])
  <2>1. /\ pc[r] = "checkquote" /\ pc'[r] = "quote" /\ challenges' = challenges
        /\ vectors'[r] = Append(vectors[r], candidate[r]) /\ candidate[r] \in Evidence
    BY <1>2 DEF CheckQuote, Goto
  <2>2. n \in Nat /\ 1..(n + 1) = (1..n) \cup {n + 1}
    BY <1>a
  <2>3. /\ Len(vectors'[r]) = n + 1
        /\ \A i \in 1..n : vectors'[r][i] = vectors[r][i]
        /\ vectors'[r][n + 1] = candidate[r]
    BY <1>a, <2>1, <2>2
  <2>4. Quoted(r)' = Quoted(r) \cup {candidate[r].envelope.challenge}
    <3> HIDE DEF TypeOK
    <3>1. Quoted(r)' = {vectors'[r][i].envelope.challenge : i \in 1..(n + 1)}
      BY <2>3 DEF Quoted
    <3>2. ASSUME NEW c
          PROVE  c \in Quoted(r)' <=> c \in Quoted(r) \cup {candidate[r].envelope.challenge}
      <4>1. c \in Quoted(r)' <=>
              \E i \in (1..n) \cup {n + 1} : c = vectors'[r][i].envelope.challenge
        BY <2>2, <3>1
      <4>2. c \in Quoted(r)' <=>
              \/ \E i \in 1..n : c = vectors[r][i].envelope.challenge
              \/ c = candidate[r].envelope.challenge
        BY <2>3, <4>1
      <4> QED BY <4>2 DEF Quoted
    <3> QED BY <3>2
  <2>5. Drawn(r)' = Drawn(r)
    BY <2>1 DEF Drawn
  <2> QED BY <2>1, <2>3, <2>4, <2>5 DEF RoundInv, Reads, Creates
<1>3. CASE RaiseInBody(r)
  <2>1. challenges'[r] = <<>> /\ vectors'[r] = <<>> /\ pc'[r] = "flush_ak"
    BY <1>3 DEF RaiseInBody, Goto
  <2> QED BY <2>1 DEF RoundInv, Quoted, Drawn, Reads, Creates
<1>4. CASE ~(Quote(r) \/ CheckQuote(r) \/ RaiseInBody(r))
  <2>1. challenges' = challenges /\ vectors' = vectors
    BY <1>4
       DEF Step, Start, Read, Load, Baseline, TryMutation, MutationSuite, WriteEvidence,
           Flush, TransientAfter, PersistentAfter, Discard, Report, WriteManifest,
           WriteHashes, Rename, Succeed, Leave, Raise, Kill
  <2>2. Quoted(r)' = Quoted(r) /\ Drawn(r)' = Drawn(r)
    BY <2>1 DEF Quoted, Drawn
  <2>3. /\ pc'[r] # "checkquote"
        /\ pc'[r] \in {"start", "quote"} \cup Reads \cup Creates =>
             pc[r] \in {"start", "quote"} \cup Reads \cup Creates
    <3>1. CASE Read(r) \/ Load(r)
      BY <1>4, <3>1 DEF Read, Load, Goto, Following, Reads, Creates
    <3>2. CASE Start(r)
      BY <3>2 DEF Start, Goto
    <3>3. CASE ~(Read(r) \/ Load(r) \/ Start(r))
      BY <1>4, <3>3
         DEF Step, Baseline, TryMutation, MutationSuite, WriteEvidence, Flush,
             TransientAfter, PersistentAfter, Discard, Report, WriteManifest, WriteHashes,
             Rename, Succeed, Leave, Raise, Kill, Goto, RaiseInFinally, RaiseOutside,
             Following, Reads, Creates, Flushes
    <3> QED BY <3>1, <3>2, <3>3
  <2> QED BY <2>1, <2>2, <2>3 DEF RoundInv
<1> QED
  BY <1>1, <1>2, <1>3, <1>4

LEMMA EvidenceStep ==
  ASSUME TypeOK, NEW r \in Runs, Step(r) \/ Kill(r), PublishedInv(r), ErrorInv(r),
         RoundInv(r), Bound(r), CandidateInv(r), CompleteInv(r)
  PROVE  (Bound(r) /\ CandidateInv(r) /\ CompleteInv(r))'
<1> USE DEF TypeOK, evidence, tpm, cleanup
<1>a. Len(Transactions) \in Nat /\ Cases \in Nat
  BY ConstantsAssumption, CasesIsNat
<1>b. vectors[r] \in Seq(Evidence) /\ rows[r] \in Seq(BOOLEAN)
  OBVIOUS
<1>1. CASE Quote(r)
  <2>0. pc[r] = "quote" /\ Len(challenges[r]) = Len(vectors[r])
    BY <1>1 DEF Quote, RoundInv
  <2>1. PICK challenge \in Challenges \ Drawn(r) :
          LET envelope == Envelope(Transactions[Len(vectors[r]) + 1], challenge)
          IN \E signed \in {QualifyingData(envelope, "digest")} \cup OtherData :
               candidate' = [candidate EXCEPT ![r] = Vector(envelope, signed)]
    BY <1>1, <2>0 DEF Quote
  <2>2. PICK signed :
          candidate' = [candidate EXCEPT ![r] =
            Vector(Envelope(Transactions[Len(vectors[r]) + 1], challenge), signed)]
    BY <2>1
  <2>3. candidate'[r].envelope = Envelope(Transactions[Len(vectors[r]) + 1], challenge)
    BY <2>2 DEF Vector
  <2>4. /\ candidate'[r].envelope.transaction = Transactions[Len(vectors[r]) + 1]
        /\ candidate'[r].envelope.challenge \notin Quoted(r)
    BY <2>1, <2>3 DEF Envelope, RoundInv
  <2>5. /\ pc[r] = "quote" /\ pc'[r] = "checkquote" /\ Len(vectors[r]) < Len(Transactions)
        /\ vectors' = vectors /\ rows' = rows /\ output' = output /\ error' = error
    BY <1>1, <2>0 DEF Quote, Goto
  <2>6. Bound(r)' /\ CandidateInv(r)'
    <3>1. Bound(r)'
      BY <2>5 DEF Bound
    <3>2. CandidateInv(r)'
      BY <2>4, <2>5 DEF CandidateInv, Quoted
    <3> QED BY <3>1, <3>2
  <2>7. CompleteInv(r)'
    BY <2>5 DEF CompleteInv, BodyDone, Published, Finally, Flushes, Outer
  <2> QED BY <2>6, <2>7
<1>2. CASE CheckQuote(r)
  <2> DEFINE n == Len(vectors[r])
  <2>1. /\ pc[r] = "checkquote" /\ pc'[r] = "quote" /\ rows' = rows /\ output' = output
        /\ vectors'[r] = Append(vectors[r], candidate[r])
        /\ candidate[r].signed = QualifyingData(candidate[r].envelope, "digest")
    BY <1>2 DEF CheckQuote, Goto, Genuine
  <2>2. candidate[r] \in Evidence /\ n \in Nat /\ n < Len(Transactions)
    BY <2>1 DEF CandidateInv
  <2>3. /\ Len(vectors'[r]) = n + 1
        /\ \A i \in 1..n : vectors'[r][i] = vectors[r][i]
        /\ vectors'[r][n + 1] = candidate[r]
    BY <1>b, <2>1, <2>2
  <2>4. \A i \in 1..n : vectors[r][i].envelope.challenge # candidate[r].envelope.challenge
    BY <2>1 DEF CandidateInv, Quoted
  <2>5. \A i \in 1..(n + 1) : i \in 1..n \/ i = n + 1
    BY <2>2
  <2>6. \A i \in 1..(n + 1) :
          /\ vectors'[r][i].envelope.transaction = Transactions[i]
          /\ vectors'[r][i].signed = QualifyingData(vectors'[r][i].envelope, "digest")
    BY <2>1, <2>3, <2>5 DEF Bound, CandidateInv
  <2>7. ASSUME NEW i \in 1..(n + 1), NEW j \in 1..(n + 1), j # i
        PROVE  vectors'[r][j].envelope.challenge # vectors'[r][i].envelope.challenge
    <3>1. CASE i \in 1..n /\ j \in 1..n
      <4>1. vectors[r][j].envelope.challenge # vectors[r][i].envelope.challenge
        BY <2>7, <3>1 DEF Bound
      <4> QED BY <2>3, <3>1, <4>1
    <3>2. CASE i = n + 1 /\ j \in 1..n
      BY <2>3, <2>4, <3>2
    <3>3. CASE i \in 1..n /\ j = n + 1
      BY <2>3, <2>4, <3>3
    <3> QED BY <2>5, <2>7, <3>1, <3>2, <3>3
  <2>8. Bound(r)'
    BY <1>a, <2>2, <2>3, <2>6, <2>7 DEF Bound
  <2>9. CandidateInv(r)' /\ CompleteInv(r)'
    BY <2>1 DEF CandidateInv, CompleteInv, BodyDone, Published, PublishedInv,
                Finally, Flushes, Outer
  <2> QED BY <2>8, <2>9
<1>3. CASE TryMutation(r)
  <2>1. /\ pc[r] = "mutation" /\ pc' = pc /\ error' = error /\ output' = output
        /\ vectors' = vectors /\ candidate' = candidate /\ Len(rows[r]) < Cases
    BY <1>3 DEF TryMutation
  <2>2. Len(rows'[r]) = Len(rows[r]) + 1
    BY <1>3, <1>b DEF TryMutation
  <2>3. Len(rows[r]) \in Nat
    BY <1>b
  <2>4. Bound(r)' /\ CandidateInv(r)'
    BY <2>1 DEF Bound, CandidateInv, Quoted
  <2>5. CompleteInv(r)'
    BY <1>a, <2>1, <2>2, <2>3 DEF CompleteInv, BodyDone, Published, PublishedInv,
                Finally, Flushes, Outer
  <2> QED BY <2>4, <2>5
<1>4. CASE Load(r) \/ MutationSuite(r) \/ Raise(r)
  <2>1. UNCHANGED output /\ (RaiseInBody(r) => pc[r] \in Body)
    BY <1>4 DEF Load, MutationSuite, Raise, Body, Goto, RaiseInBody, RaiseInFinally,
                RaiseOutside
  <2>2. CASE RaiseInBody(r)
    BY <2>1, <2>2, RaiseEvidence
  <2>3. CASE ~RaiseInBody(r)
    <3>1. /\ vectors' = vectors /\ candidate' = candidate /\ rows' = rows
          /\ pc'[r] # "checkquote"
          /\ \/ pc[r] \in Creates /\ pc'[r] = Following(r, pc[r])
             \/ /\ pc[r] = "mutation" /\ pc'[r] = "write"
                /\ Len(rows[r]) = Cases /\ \A k \in 1..Cases : rows[r][k]
             \/ pc'[r] = "discard" /\ error'[r] = "cleanup"
             \/ pc'[r] = "leave"
      <4>1. CASE Load(r)
        BY <2>3, <4>1 DEF Load, Goto, Following, Creates
      <4>2. CASE MutationSuite(r)
        BY <2>3, <4>2 DEF MutationSuite, Goto
      <4>3. CASE Raise(r)
        BY <2>3, <4>3 DEF Raise, Goto, RaiseInFinally, RaiseOutside
      <4> QED BY <1>4, <4>1, <4>2, <4>3
    <3>2. Bound(r)' /\ CandidateInv(r)'
      BY <3>1 DEF Bound, CandidateInv
    <3>3. pc[r] \in Creates => Following(r, pc[r]) \in {"readpublic-primary", "readpublic-ak"}
      BY DEF Following, Creates
    <3>4. CompleteInv(r)'
      BY <2>1, <3>1, <3>3 DEF CompleteInv, BodyDone, Published, Finally, Flushes, Outer
    <3> QED BY <3>2, <3>4
  <2> QED BY <2>2, <2>3
<1>5. CASE ~(Quote(r) \/ CheckQuote(r) \/ TryMutation(r) \/ Load(r) \/ MutationSuite(r) \/ Raise(r))
  <2>1. /\ vectors' = vectors /\ candidate' = candidate /\ rows' = rows
        /\ pc'[r] # "checkquote"
    BY <1>5
       DEF Step, Start, Read, Baseline, WriteEvidence, Flush, TransientAfter, PersistentAfter,
           Discard, Report, WriteManifest, WriteHashes, Rename, Succeed, Leave, Kill,
           Goto, RaiseInFinally, RaiseOutside, Following, Reads, Flushes
  <2>2. Bound(r)' /\ CandidateInv(r)'
    BY <2>1 DEF Bound, CandidateInv
  <2>3. CASE Baseline(r)
    <3>1. /\ pc'[r] = "mutation" /\ output' = output
          /\ Len(vectors[r]) = Len(Transactions)
      BY <2>3 DEF Baseline, BaselineHolds, Goto
    <3> QED BY <2>1, <2>2, <3>1 DEF CompleteInv, BodyDone, Published, Finally, Flushes, Outer
  <2>4. CASE ~Baseline(r)
    <3>1. pc'[r] \notin {"mutation", "write"}
      BY <1>5, <2>4
         DEF Step, Start, Read, WriteEvidence, Flush, TransientAfter, PersistentAfter,
             Discard, Report, WriteManifest, WriteHashes, Rename, Succeed, Leave, Kill,
             Goto, RaiseInFinally, RaiseOutside, Following, Reads, Flushes
    <3>2. BodyDone(r)' => BodyDone(r) \/ pc[r] = "write"
      BY <1>5, <2>4
         DEF Step, Start, Read, WriteEvidence, Flush, TransientAfter, PersistentAfter,
             Discard, Report, WriteManifest, WriteHashes, Rename, Succeed, Leave, Kill,
             Goto, RaiseInFinally, RaiseOutside, Following, BodyDone, ErrorInv,
             Reads, Finally, Flushes, Outer
    <3>3. Published(r)' => Published(r) \/ BodyDone(r)
      BY OutputStep DEF Published, BodyDone, Outer
    <3> QED BY <2>1, <2>2, <3>1, <3>2, <3>3 DEF CompleteInv
  <2> QED BY <2>3, <2>4
<1> QED
  BY <1>1, <1>2, <1>3, <1>4, <1>5

THEOREM EvidenceInvariance == Spec => []EvidenceInv
<1>1. Init => EvidenceInv
  BY ConstantsAssumption, CasesIsNat
     DEF Init, EvidenceInv, RoundInv, Quoted, Drawn, Bound, CandidateInv, CompleteInv, BodyDone, Published,
         Finally, Flushes, Outer
<1>2. IInv /\ EvidenceInv /\ [Next]_vars => EvidenceInv'
  <2> SUFFICES ASSUME IInv, EvidenceInv, [Next]_vars PROVE EvidenceInv'
    OBVIOUS
  <2>1. ASSUME NEW r \in Runs, Step(r) \/ Kill(r), NEW q \in Runs
        PROVE  (RoundInv(q) /\ Bound(q) /\ CandidateInv(q) /\ CompleteInv(q))'
    <3>1. CASE q = r
      BY <2>1, <3>1, RoundStep, EvidenceStep DEF IInv, RunInv, EvidenceInv
    <3>2. CASE q # r
      BY <2>1, <3>2, EvidenceFrame DEF IInv, EvidenceInv
    <3> QED BY <3>1, <3>2
  <2>2. CASE UNCHANGED vars
    <3>1. /\ UNCHANGED <<pc, error, output>>
          /\ UNCHANGED <<challenges, vectors, candidate, rows>>
      BY <2>2 DEF vars, evidence
    <3>2. \A r \in Runs : Quoted(r)' = Quoted(r) /\ Drawn(r)' = Drawn(r)
      BY <3>1 DEF Quoted, Drawn
    <3> QED
      BY <3>1, <3>2
         DEF EvidenceInv, RoundInv, Bound, CandidateInv, CompleteInv, BodyDone, Published
  <2> QED BY <2>1, <2>2 DEF EvidenceInv, Next
<1> QED
  BY <1>1, <1>2, Invariance, PTL DEF Spec

(* Each published quote is over the qualifying data of its transaction.    *)
THEOREM QuotesAreBound == Spec => []PublishedQuotesAreBound
<1>1. IInv /\ EvidenceInv => PublishedQuotesAreBound
  <2> SUFFICES ASSUME IInv, EvidenceInv, NEW r \in Runs, Published(r)
               PROVE  /\ Len(vectors[r]) = Len(Transactions)
                      /\ \A i \in Indices :
                           /\ vectors[r][i].envelope.transaction = Transactions[i]
                           /\ Genuine(vectors[r][i], QualifyingData(vectors[r][i].envelope, "digest"))
                           /\ \A j \in Indices \ {i} :
                                vectors[r][j].envelope.challenge # vectors[r][i].envelope.challenge
    BY DEF PublishedQuotesAreBound
  <2>1. Len(vectors[r]) = Len(Transactions)
    BY DEF EvidenceInv, CompleteInv
  <2>2. \A i \in Indices : vectors[r][i] \in Evidence
    BY <2>1 DEF IInv, TypeOK, Indices
  <2>3. \A i \in Indices : vectors[r][i].intact
    BY <2>2 DEF Evidence
  <2> QED BY <2>1, <2>3 DEF EvidenceInv, Bound, Indices, Genuine
<1> QED
  BY <1>1, Invariance, EvidenceInvariance, PTL

-----------------------------------------------------------------------------
(* Mutations.                                                              *)

(* 37 and 38 have no common divisor but 1. *)
LEMMA AlternateDiffers ==
  ASSUME NEW i \in Indices PROVE Alternate(i) \in Indices \ {i}
<1> DEFINE n == Len(Transactions)
<1>1. n \in Nat /\ n > 1 /\ i \in Nat /\ 1 <= i /\ i <= n
  BY ConstantsAssumption DEF Indices
<1>2. \A offset \in Nat : (i - 1 + offset) % n \in 0..(n - 1)
  BY <1>1
<1>3. Shifted(i, 37) \in Indices /\ Shifted(i, 38) \in Indices
  BY <1>1, <1>2 DEF Shifted, Indices
<1>4. ASSUME Shifted(i, 37) = i, Shifted(i, 38) = i PROVE FALSE
  <2>1. (i - 1 + 37) % n = i - 1 /\ (i - 1 + 38) % n = i - 1
    BY <1>1, <1>2, <1>4 DEF Shifted
  <2>2. \A a \in Nat : a = n * (a \div n) + (a % n) /\ a \div n \in Int
    BY <1>1
  <2> DEFINE p == (i - 1 + 37) \div n
             q == (i - 1 + 38) \div n
  <2>3. p \in Int /\ q \in Int /\ n * p = 37 /\ n * q = 38
    BY <1>1, <2>1, <2>2
  <2>4. n * q - n * p = n * (q - p) /\ q - p \in Int
    BY <1>1, <2>3
  <2>5. n * (q - p) = 1
    BY <2>3, <2>4
  <2> QED BY <1>1, <2>4, <2>5
<1> QED
  BY <1>3, <1>4 DEF Alternate

LEMMA CaseInPlan ==
  ASSUME NEW k \in 1..Cases
  PROVE  Source(k) \in Indices /\ Mutation(k) \in AllMutations
<1> DEFINE m == Len(Mutations)
           l == Len(Representatives)
<1>1. m \in Nat /\ l \in Nat /\ k \in Nat /\ 1 <= k /\ k <= l * m
  BY ConstantsAssumption DEF Cases
<1>2. m > 0
  BY <1>1
<1>3. (k - 1) % m \in 0..(m - 1)
  BY <1>1, <1>2
<1>4. Mutation(k) \in AllMutations
  BY <1>1, <1>3, ConstantsAssumption DEF Mutation
<1> DEFINE d == (k - 1) \div m
<1>5. d \in Nat /\ m * d <= k - 1
  BY <1>1, <1>2
<1>6. d < l
  BY <1>1, <1>2, <1>5
<1>7. Source(k) \in Indices
  BY <1>1, <1>5, <1>6, ConstantsAssumption DEF Source
<1> QED
  BY <1>4, <1>7

(* A mutation of one quote by another breaks it, when transactions and     *)
(* challenges are different.                                               *)
LEMMA MutationBites ==
  ASSUME NEW source \in Evidence, NEW alternate \in Evidence, NEW mutation \in AllMutations,
         source.signed = QualifyingData(source.envelope, "digest"),
         source.envelope.transaction # alternate.envelope.transaction,
         source.envelope.challenge # alternate.envelope.challenge,
         NEW mutated, mutated = Mutated(source, mutation, alternate)
  PROVE  ~Genuine(mutated, QualifyingData(mutated.envelope, FormOf(mutation)))
<1>1. CASE mutation \in Flips
  <2>1. mutated = [source EXCEPT !.intact = FALSE]
    BY <1>1 DEF Mutated, Flips
  <2>2. ~mutated.intact
    BY <2>1 DEF Evidence
  <2> QED BY <2>2 DEF Genuine
<1>2. ASSUME NEW field \in {"challenge", "transaction", "corpus", "capsule"}, NEW value,
             mutated = [source EXCEPT !.envelope = [@ EXCEPT ![field] = value]],
             value # source.envelope[field]
      PROVE  ~Genuine(mutated, QualifyingData(mutated.envelope, FormOf(mutation)))
  <2>1. mutated.signed = source.signed /\ mutated.envelope[field] = value
    BY <1>2 DEF Evidence, Envelopes
  <2>2. mutated.envelope # source.envelope
    BY <1>2, <2>1
  <2> QED BY <2>1, <2>2 DEF Genuine, QualifyingData
<1>3. CASE mutation = "challenge_replay"
  BY <1>2, <1>3 DEF Mutated, Flips
<1>4. CASE mutation = "transaction_substitution"
  BY <1>2, <1>4 DEF Mutated, Flips
<1>5. CASE mutation = "corpus_hash_substitution"
  <2>1. source.envelope.corpus = "frozen"
    BY DEF Evidence, Envelopes
  <2> QED BY <1>2, <1>5, <2>1 DEF Mutated, Flips
<1>6. CASE mutation = "capsule_hash_substitution"
  <2>1. source.envelope.capsule = "frozen"
    BY DEF Evidence, Envelopes
  <2> QED BY <1>2, <1>6, <2>1 DEF Mutated, Flips
<1>7. CASE mutation = "qualifying_data_representation"
  <2>1. mutated = source /\ FormOf(mutation) = "text"
    BY <1>7 DEF Mutated, Flips, FormOf
  <2> QED BY <2>1 DEF Genuine, QualifyingData
<1> QED
  BY <1>1, <1>3, <1>4, <1>5, <1>6, <1>7 DEF AllMutations, Flips

(* Every row of a published suite is a real rejection, for every corpus    *)
(* of more than one transaction and every plan over it.                    *)
THEOREM RejectionsAreReal == Spec => []PublishedRejectionsAreReal
<1>1. IInv /\ EvidenceInv => PublishedRejectionsAreReal
  <2> SUFFICES ASSUME IInv, EvidenceInv, NEW r \in Runs, Published(r)
               PROVE  /\ Len(rows[r]) = Cases
                      /\ \A k \in 1..Cases : rows[r][k] /\ ~TamperedIsGenuine(vectors[r], k)
    BY DEF PublishedRejectionsAreReal
  <2>1. /\ Len(vectors[r]) = Len(Transactions)
        /\ Len(rows[r]) = Cases /\ \A k \in 1..Cases : rows[r][k]
    BY DEF EvidenceInv, CompleteInv
  <2>2. ASSUME NEW k \in 1..Cases PROVE ~TamperedIsGenuine(vectors[r], k)
    <3> DEFINE i == Source(k)
               j == Alternate(i)
    <3>1. i \in Indices /\ j \in Indices /\ i # j /\ Mutation(k) \in AllMutations
      BY CaseInPlan, AlternateDiffers
    <3>2. vectors[r][i] \in Evidence /\ vectors[r][j] \in Evidence
      BY <2>1, <3>1 DEF IInv, TypeOK, Indices
    <3>3. /\ vectors[r][i].signed = QualifyingData(vectors[r][i].envelope, "digest")
          /\ vectors[r][i].envelope.transaction = Transactions[i]
          /\ vectors[r][j].envelope.transaction = Transactions[j]
          /\ vectors[r][i].envelope.challenge # vectors[r][j].envelope.challenge
      BY <2>1, <3>1 DEF EvidenceInv, Bound, Indices
    <3>4. Transactions[i] # Transactions[j]
      BY <3>1, ConstantsAssumption
    <3> QED
      BY <3>1, <3>2, <3>3, <3>4, MutationBites DEF TamperedIsGenuine, Tampered
  <2> QED BY <2>1, <2>2
<1> QED
  BY <1>1, Invariance, EvidenceInvariance, PTL

=============================================================================
