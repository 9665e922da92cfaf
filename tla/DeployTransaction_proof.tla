------------------------ MODULE DeployTransaction_proof ------------------------
(***************************************************************************)
(* Theorems about the deployment transaction, for any set of releases.     *)
(*                                                                         *)
(* A verdict is about a request that a script unseen by the publisher may  *)
(* still send, so no verdict is inductive by itself.  The argument: a      *)
(* release has one receipt (OneReceipt), only the holder of the flock      *)
(* changes it (HoldsLock), and it leaves SUBMISSION_ATTEMPTED and          *)
(* COMPENSATED for no other phase (PhaseOfStage).  A request has the first *)
(* in its receipt (PhaseOfRequest), a restored file the second.            *)
(***************************************************************************)
EXTENDS DeployTransaction, TLAPS

Critical == {"locked", "saved", "checked", "written", "intended", "requested", "recorded"}

HoldsLock == \A s \in Script : at[s] \in Critical => lock = s /\ dir[s] # None

\* The directory last points to has a backup, and so has one a script has read.
BackedUp ==
  /\ last # None => backups[last] # None
  /\ \A s \in Script : dir[s] # None => backups[dir[s]] # None
  /\ \A s \in Script : at[s] \in {"copied", "captured"} => s[1] = "backup" /\ backups[s[2]] # None

\* prepare runs once for a release, and a receipt comes from it.
PrepareOnce ==
  \A s \in Script : s[1] = "prepare" =>
    /\ local[s[2]] \in {"idle", "backup", "backed"} => at[s] = "none"
    /\ at[s] \in {"none", "sent", "locked"} =>
         \A d \in Txn : receipts[d] # None => receipts[d].txn # s[2]

OneReceipt ==
  \A c, d \in Txn :
    receipts[c] # None /\ receipts[d] # None /\ receipts[c].txn = receipts[d].txn => c = d

PhaseOfStage ==
  \A s \in Script :
    LET r == receipts[dir[s]]
    IN /\ at[s] \in {"saved", "checked", "written", "intended", "requested", "recorded", "restored"}
            => dir[s] # None /\ OwnReceipt(s)
       /\ s[1] = "prepare" /\ at[s] \in {"saved", "checked", "written"} => r.phase = "PREPARED"
       /\ s[1] = "deploy" /\ at[s] = "checked" => r.phase = "CONFIG_WRITTEN"
       /\ at[s] \in {"intended", "requested"} => s[1] = "deploy" /\ r.phase = "SUBMISSION_ATTEMPTED"
       /\ s[1] = "compensate" /\ at[s] \in {"checked", "written"} => r.phase \in Compensable
       /\ at[s] \in {"recorded", "restored"} => s[1] = "compensate" /\ r.phase = "COMPENSATED"

HasPhase(t, phase) ==
  \E d \in Txn : receipts[d] # None /\ receipts[d].txn = t /\ receipts[d].phase = phase

PhaseOfRequest ==
  /\ \A t \in submitted : HasPhase(t, "SUBMISSION_ATTEMPTED")
  /\ \A r \in inflight : HasPhase(r.txn, "SUBMISSION_ATTEMPTED")

\* Production runs a release's image only after its request.
ImageOfRequest ==
  /\ service.image \in {Base, Foreign} \cup submitted
  /\ \A r \in inflight : r.image \in {Base, Foreign, r.txn}
  /\ \A s \in Script : s[1] = "deploy" /\ at[s] \in {"checked", "intended"}
       => compose.image \in {Base, Foreign, s[2]}

VerdictProven ==
  /\ \A t \in Txn : local[t] = "not_submitted" => HasPhase(t, "COMPENSATED")
  /\ \A t \in Txn : local[t] = "attempted" => t \in submitted
  /\ \A s \in Script : at[s] = "attempted" => s[2] \in submitted

CandidateGone ==
  /\ \A t \in Txn : HasPhase(t, "COMPENSATED") => compose.by # t
  /\ \A s \in Script : s[1] = "compensate" /\ at[s] = "written" => compose.by # s[2]

IInv ==
  /\ TypeOK
  /\ HoldsLock
  /\ BackedUp
  /\ PrepareOnce
  /\ OneReceipt
  /\ PhaseOfStage
  /\ PhaseOfRequest
  /\ ImageOfRequest
  /\ VerdictProven
  /\ CandidateGone

\* For NoStacking: a version stands for the image the service ran at it, and the
\* receipt for the Compose file that prepare found.
VersionsKnown ==
  /\ \A t \in Txn : backups[t] # None /\ backups[t].version # None =>
       /\ backups[t].version <= service.version
       /\ backups[t].version = service.version => backups[t].image = service.image
  /\ \A d \in Txn : receipts[d] # None =>
       /\ receipts[d].version <= service.version
       /\ receipts[d].version = service.version => receipts[d].original = service.image
  /\ \A s \in Script : s[1] = "prepare" /\ at[s] \in {"saved", "checked"} /\ compose.by # None
       => compose.image = receipts[dir[s]].original

USE TransactionAssumption DEF Images, Kinds, Phases

LEMMA ScriptParts == \A s \in Script : s[1] \in Kinds /\ s[2] \in Txn /\ s = <<s[1], s[2]>>
  BY DEF Script

LEMMA InitIInv == Init => IInv
  BY ScriptParts
     DEF Init, IInv, TypeOK, HoldsLock, BackedUp, PrepareOnce, OneReceipt, PhaseOfStage,
         PhaseOfRequest,
         ImageOfRequest, VerdictProven, CandidateGone, HasPhase, Critical, Stages,
         Locals, Backups, Receipts

\* What changing the phase of a script's own receipt changes.
LEMMA ReceiptChanges ==
  ASSUME TypeOK, OneReceipt, NEW s \in Script, dir[s] # None, OwnReceipt(s),
         NEW phase \in Phases, Receipt(s, phase)
  PROVE  /\ receipts' \in [Txn -> Receipts \cup {None}]
         /\ receipts'[dir[s]] # None /\ receipts'[dir[s]].phase = phase
         /\ receipts'[dir[s]].txn = s[2]
         /\ \A d \in Txn : d # dir[s] => receipts'[d] = receipts[d]
         /\ \A d \in Txn : /\ receipts'[d] # None <=> receipts[d] # None
                           /\ receipts[d] # None => receipts'[d].txn = receipts[d].txn
         /\ \A p \in Phases : HasPhase(s[2], p)' <=> p = phase
         /\ \A t \in Txn \ {s[2]}, p \in Phases : HasPhase(t, p)' <=> HasPhase(t, p)
<1>1. dir[s] \in Txn /\ receipts[dir[s]] \in Receipts
  BY DEF TypeOK, OwnReceipt
<1>2. receipts' = [receipts EXCEPT ![dir[s]] = [receipts[dir[s]] EXCEPT !.phase = phase]]
  BY DEF Receipt
<1>3. [receipts[dir[s]] EXCEPT !.phase = phase] \in Receipts
  BY <1>1 DEF Receipts
<1>4. /\ receipts' \in [Txn -> Receipts \cup {None}]
      /\ receipts'[dir[s]] # None /\ receipts'[dir[s]].phase = phase
      /\ receipts'[dir[s]].txn = s[2]
      /\ \A d \in Txn : d # dir[s] => receipts'[d] = receipts[d]
  BY <1>1, <1>2, <1>3 DEF TypeOK, OwnReceipt, Receipts
<1>5. \A d \in Txn : receipts[d] # None /\ receipts[d].txn = s[2] => d = dir[s]
  BY <1>1 DEF OneReceipt, OwnReceipt
<1> QED
  BY <1>1, <1>4, <1>5, ScriptParts DEF HasPhase, OwnReceipt

\* What sending a script changes.
LEMMA Sends ==
  ASSUME TypeOK, NEW t \in Txn, NEW kind \in Kinds, Send(t, kind)
  PROVE  /\ at' \in [Script -> Stages] /\ local' \in [Txn -> Locals]
         /\ \A s \in Script : at'[s] = IF s[1] = kind /\ s[2] = t THEN "sent" ELSE at[s]
         /\ \A u \in Txn : local'[u] = IF u = t THEN kind ELSE local[u]
         /\ UNCHANGED <<dir, lock, files, swarm, foreign>>
<1>1. <<kind, t>> \in Script
  BY DEF Script
<1>2. \A s \in Script : s = <<kind, t>> <=> s[1] = kind /\ s[2] = t
  BY ScriptParts
<1> QED
  BY <1>1, <1>2 DEF Send, TypeOK, Stages, Locals

LEMMA NextIInv == IInv /\ [Next]_vars => IInv'
<1> SUFFICES ASSUME IInv, [Next]_vars PROVE IInv'
  OBVIOUS
<1> USE ScriptParts
   DEF IInv, files, swarm, TypeOK, HoldsLock, BackedUp, PrepareOnce, OneReceipt,
       PhaseOfStage, PhaseOfRequest,
         ImageOfRequest, VerdictProven, CandidateGone, HasPhase, Critical, Stages,
         Locals, Backups, Receipts, OwnReceipt, Compensable
<1>1. ASSUME NEW s \in Script, CopyCompose(s) PROVE IInv'
  BY <1>1 DEF CopyCompose, Goes
<1>2. ASSUME NEW s \in Script, CaptureService(s) PROVE IInv'
  BY <1>2 DEF CaptureService, Goes
<1>3. ASSUME NEW s \in Script, PointToBackup(s) PROVE IInv'
  BY <1>3 DEF PointToBackup, Goes
<1>4. ASSUME NEW s \in Script, Lock(s) PROVE IInv'
  BY <1>4 DEF Lock, Goes, Free
<1>5. ASSUME NEW s \in Script, Check(s) PROVE IInv'
  <2> USE <1>5 DEF Check, Goes, KnownCompose, BaselineUnchanged
  <2>1. (TypeOK /\ OneReceipt)'
    OBVIOUS
  <2>2. PhaseOfStage'
    OBVIOUS
  <2>3. (HoldsLock /\ BackedUp /\ PrepareOnce)'
    OBVIOUS
  <2>4. (PhaseOfRequest /\ ImageOfRequest /\ VerdictProven /\ CandidateGone)'
    OBVIOUS
  <2> QED
    BY <2>1, <2>2, <2>3, <2>4
<1>6. ASSUME NEW s \in Script, SavePrepared(s) PROVE IInv'
  <2> USE <1>6 DEF SavePrepared, Goes, UnchangedSinceBackup
  <2>1. (TypeOK /\ HoldsLock /\ BackedUp)'
    OBVIOUS
  <2>2. (PrepareOnce /\ OneReceipt)'
    OBVIOUS
  <2>3. PhaseOfStage'
    OBVIOUS
  <2>4. PhaseOfRequest'
    OBVIOUS
  <2>5. (ImageOfRequest /\ VerdictProven /\ CandidateGone)'
    OBVIOUS
  <2> QED
    BY <2>1, <2>2, <2>3, <2>4, <2>5
<1>7. ASSUME NEW s \in Script, WriteCandidate(s) PROVE IInv'
  BY <1>7 DEF WriteCandidate, Goes
<1>8. ASSUME NEW s \in Script, SaveWritten(s) PROVE IInv'
  <2> USE <1>8 DEF SaveWritten, Goes, Ends
  <2>1. /\ dir[s] # None /\ OwnReceipt(s)
        /\ Receipt(s, "CONFIG_WRITTEN") /\ "CONFIG_WRITTEN" \in Phases
    OBVIOUS
  <2>2. /\ receipts' \in [Txn -> Receipts \cup {None}]
        /\ receipts'[dir[s]] # None /\ receipts'[dir[s]].phase = "CONFIG_WRITTEN"
        /\ receipts'[dir[s]].txn = s[2]
        /\ \A d \in Txn : d # dir[s] => receipts'[d] = receipts[d]
    BY <2>1, ReceiptChanges
  <2>3. /\ \A d \in Txn : /\ receipts'[d] # None <=> receipts[d] # None
                          /\ receipts[d] # None => receipts'[d].txn = receipts[d].txn
        /\ \A p \in Phases : HasPhase(s[2], p)' <=> p = "CONFIG_WRITTEN"
        /\ \A t \in Txn \ {s[2]}, p \in Phases : HasPhase(t, p)' <=> HasPhase(t, p)
    BY <2>1, ReceiptChanges
  <2>4. ~HasPhase(s[2], "SUBMISSION_ATTEMPTED") /\ ~HasPhase(s[2], "COMPENSATED")
    BY <2>1
  <2>5. TypeOK'
    BY <2>2
  <2>6. (HoldsLock /\ BackedUp)'
    BY <2>1, <2>2
  <2>7. (PrepareOnce /\ OneReceipt)'
    BY <2>1, <2>2, <2>3
  <2>8. PhaseOfStage'
    BY <2>1, <2>2
  <2> HIDE DEF HasPhase
  <2>9. PhaseOfRequest'
    BY <2>3, <2>4
  <2>10. (ImageOfRequest /\ VerdictProven /\ CandidateGone)'
    BY <2>1, <2>3, <2>4
  <2> QED
    BY <2>5, <2>6, <2>7, <2>8, <2>9, <2>10
<1>9. ASSUME NEW s \in Script, SaveIntent(s) PROVE IInv'
  <2> USE <1>9 DEF SaveIntent, Goes, Intent
  <2>1. /\ dir[s] # None /\ OwnReceipt(s)
        /\ Receipt(s, "SUBMISSION_ATTEMPTED") /\ "SUBMISSION_ATTEMPTED" \in Phases
    OBVIOUS
  <2>2. /\ receipts' \in [Txn -> Receipts \cup {None}]
        /\ receipts'[dir[s]] # None /\ receipts'[dir[s]].phase = "SUBMISSION_ATTEMPTED"
        /\ receipts'[dir[s]].txn = s[2]
        /\ \A d \in Txn : d # dir[s] => receipts'[d] = receipts[d]
    BY <2>1, ReceiptChanges
  <2>3. /\ \A d \in Txn : /\ receipts'[d] # None <=> receipts[d] # None
                          /\ receipts[d] # None => receipts'[d].txn = receipts[d].txn
        /\ \A p \in Phases : HasPhase(s[2], p)' <=> p = "SUBMISSION_ATTEMPTED"
        /\ \A t \in Txn \ {s[2]}, p \in Phases : HasPhase(t, p)' <=> HasPhase(t, p)
    BY <2>1, ReceiptChanges
  <2>4. ~HasPhase(s[2], "SUBMISSION_ATTEMPTED") /\ ~HasPhase(s[2], "COMPENSATED")
    BY <2>1
  <2>5. TypeOK'
    BY <2>2
  <2>6. (HoldsLock /\ BackedUp)'
    BY <2>1, <2>2
  <2>7. (PrepareOnce /\ OneReceipt)'
    BY <2>1, <2>2, <2>3
  <2>8. PhaseOfStage'
    BY <2>1, <2>2
  <2> HIDE DEF HasPhase
  <2>9. PhaseOfRequest'
    BY <2>3, <2>4
  <2>10. (ImageOfRequest /\ VerdictProven /\ CandidateGone)'
    BY <2>1, <2>3, <2>4
  <2> QED
    BY <2>5, <2>6, <2>7, <2>8, <2>9, <2>10
<1>10. ASSUME NEW s \in Script, Request(s) PROVE IInv'
  BY <1>10 DEF Request, Goes
<1>11. ASSUME NEW s \in Script, ReplyDeployed(s) PROVE IInv'
  BY <1>11 DEF ReplyDeployed, Goes, Ends
<1>12. ASSUME NEW s \in Script, AnswerAttempted(s) PROVE IInv'
  BY <1>12 DEF AnswerAttempted, Goes, Ends, OwnReceipt, Observed
<1>13. ASSUME NEW s \in Script, RestoreCompose(s) PROVE IInv'
  BY <1>13 DEF RestoreCompose, Goes
<1>14. ASSUME NEW s \in Script, SaveCompensated(s) PROVE IInv'
  <2> USE <1>14 DEF SaveCompensated, Goes
  <2>1. /\ dir[s] # None /\ OwnReceipt(s)
        /\ Receipt(s, "COMPENSATED") /\ "COMPENSATED" \in Phases
    OBVIOUS
  <2>2. /\ receipts' \in [Txn -> Receipts \cup {None}]
        /\ receipts'[dir[s]] # None /\ receipts'[dir[s]].phase = "COMPENSATED"
        /\ receipts'[dir[s]].txn = s[2]
        /\ \A d \in Txn : d # dir[s] => receipts'[d] = receipts[d]
    BY <2>1, ReceiptChanges
  <2>3. /\ \A d \in Txn : /\ receipts'[d] # None <=> receipts[d] # None
                          /\ receipts[d] # None => receipts'[d].txn = receipts[d].txn
        /\ \A p \in Phases : HasPhase(s[2], p)' <=> p = "COMPENSATED"
        /\ \A t \in Txn \ {s[2]}, p \in Phases : HasPhase(t, p)' <=> HasPhase(t, p)
    BY <2>1, ReceiptChanges
  <2>4. ~HasPhase(s[2], "SUBMISSION_ATTEMPTED")
    BY <2>1
  <2>5. TypeOK'
    BY <2>2
  <2>6. (HoldsLock /\ BackedUp)'
    BY <2>1, <2>2
  <2>7. (PrepareOnce /\ OneReceipt)'
    BY <2>1, <2>2, <2>3
  <2>8. PhaseOfStage'
    BY <2>1, <2>2
  <2> HIDE DEF HasPhase
  <2>9. PhaseOfRequest'
    BY <2>3, <2>4
  <2>10. (ImageOfRequest /\ VerdictProven /\ CandidateGone)'
    BY <2>1, <2>3
  <2> QED
    BY <2>5, <2>6, <2>7, <2>8, <2>9, <2>10
<1>15. ASSUME NEW s \in Script, AnswerRestored(s) PROVE IInv'
  BY <1>15 DEF AnswerRestored, Goes, Ends, BaselineUnchanged
<1>16. ASSUME NEW s \in Script, Fail(s) PROVE IInv'
  BY <1>16 DEF Fail, Ended
<1>17. ASSUME NEW r \in inflight, Take(r) PROVE IInv'
  BY <1>17 DEF Take
<1>18. ASSUME NEW t \in Txn, SendStep(t) PROVE IInv'
  <2>1. PICK kind \in {"backup", "prepare", "deploy"} : local[t] = Sent[kind] /\ Send(t, kind)
    BY <1>18 DEF SendStep, Sent
  <2>2. /\ local[t] \in {"idle", "backed", "prepared"} 
        /\ kind = "prepare" <=> local[t] = "backed"
        /\ kind = "backup" <=> local[t] = "idle"
    BY <2>1 DEF Sent
  <2> QED
    BY <2>1, <2>2, Sends
<1>19. ASSUME NEW t \in Txn, StepDone(t) PROVE IInv'
  BY <1>19 DEF StepDone, Success
<1>20. ASSUME NEW t \in Txn, StepFails(t) PROVE IInv'
  <2>1. CASE Send(t, "compensate") /\ local[t] \in {"prepare", "prepared", "deploy", "deployed"}
    BY <2>1, Sends
  <2>2. CASE ~Send(t, "compensate")
    BY <1>20, <2>2 DEF StepFails
  <2> QED
    BY <1>20, <2>1, <2>2 DEF StepFails
<1>21. ASSUME NEW t \in Txn, Compensated(t) PROVE IInv'
  <2> DEFINE c == <<"compensate", t>>
  <2>1. PICK answer \in {at[c], "failed"} : local' = [local EXCEPT ![t] = Verdict(answer)]
    BY <1>21 DEF Compensated
  <2>2. c \in Script /\ c[2] = t
    BY DEF Script
  <2>3. Verdict(answer) = "not_submitted" => at[c] = "restored"
    BY <2>1 DEF Verdict
  <2>4. Verdict(answer) = "attempted" => at[c] = "attempted"
    BY <2>1 DEF Verdict
  <2>5. Verdict(answer) \in {"not_submitted", "attempted", "unknown"}
    BY DEF Verdict
  <2>6. at[c] = "restored" => HasPhase(t, "COMPENSATED")
    BY <2>2
  <2>7. VerdictProven'
    BY <1>21, <2>1, <2>2, <2>3, <2>4, <2>5, <2>6 DEF Compensated
  <2> QED
    BY <1>21, <2>1, <2>5, <2>7 DEF Compensated
<1>22. ASSUME NEW t \in Txn, CommitCutover(t) PROVE IInv'
  BY <1>22 DEF CommitCutover
<1>23. ASSUME NEW t \in Txn, PublisherDies(t) PROVE IInv'
  BY <1>23 DEF PublisherDies, Over
<1>24. CASE ForeignEdit \/ ForeignUpdate
  BY <1>24 DEF ForeignEdit, ForeignUpdate
<1>25. CASE UNCHANGED vars
  BY <1>25 DEF vars
<1> QED
  BY <1>1, <1>2, <1>3, <1>4, <1>5, <1>6, <1>7, <1>8, <1>9, <1>10, <1>11, <1>12, <1>13,
     <1>14, <1>15, <1>16, <1>17, <1>18, <1>19, <1>20, <1>21, <1>22, <1>23, <1>24,
     <1>25 DEF Next, RunScript, Executor

LEMMA Invariance == Spec => []IInv
  BY InitIInv, NextIInv, PTL DEF Spec

LEMMA NextVersionsKnown == IInv /\ VersionsKnown /\ [Next]_vars => VersionsKnown'
<1> SUFFICES ASSUME IInv, VersionsKnown, [Next]_vars PROVE VersionsKnown'
  OBVIOUS
<1> USE ScriptParts
   DEF IInv, files, swarm, TypeOK, HoldsLock, BackedUp, PrepareOnce, PhaseOfStage,
        Critical, Stages, Backups, Receipts, OwnReceipt, VersionsKnown
<1>1. ASSUME NEW s \in Script, CopyCompose(s) PROVE VersionsKnown'
  BY <1>1 DEF CopyCompose, Goes
<1>2. ASSUME NEW s \in Script, CaptureService(s) PROVE VersionsKnown'
  BY <1>2 DEF CaptureService, Goes
<1>3. ASSUME NEW s \in Script, PointToBackup(s) PROVE VersionsKnown'
  BY <1>3 DEF PointToBackup, Goes
<1>4. ASSUME NEW s \in Script, Lock(s) PROVE VersionsKnown'
  BY <1>4 DEF Lock, Goes, Free
<1>5. ASSUME NEW s \in Script, Check(s) PROVE VersionsKnown'
  BY <1>5 DEF Check, Goes, OwnReceipt
<1>6. ASSUME NEW s \in Script, SavePrepared(s) PROVE VersionsKnown'
  BY <1>6 DEF SavePrepared, Goes, UnchangedSinceBackup
<1>7. ASSUME NEW s \in Script, WriteCandidate(s) PROVE VersionsKnown'
  BY <1>7 DEF WriteCandidate, Goes
<1>8. ASSUME NEW s \in Script, SaveWritten(s) PROVE VersionsKnown'
  BY <1>8 DEF SaveWritten, Goes, Ends, Receipt
<1>9. ASSUME NEW s \in Script, SaveIntent(s) PROVE VersionsKnown'
  BY <1>9 DEF SaveIntent, Goes, Receipt, Intent
<1>10. ASSUME NEW s \in Script, Request(s) PROVE VersionsKnown'
  BY <1>10 DEF Request, Goes
<1>11. ASSUME NEW s \in Script, ReplyDeployed(s) PROVE VersionsKnown'
  BY <1>11 DEF ReplyDeployed, Goes, Ends
<1>12. ASSUME NEW s \in Script, AnswerAttempted(s) PROVE VersionsKnown'
  BY <1>12 DEF AnswerAttempted, Goes, Ends, OwnReceipt
<1>13. ASSUME NEW s \in Script, RestoreCompose(s) PROVE VersionsKnown'
  BY <1>13 DEF RestoreCompose, Goes
<1>14. ASSUME NEW s \in Script, SaveCompensated(s) PROVE VersionsKnown'
  BY <1>14 DEF SaveCompensated, Goes, Receipt
<1>15. ASSUME NEW s \in Script, AnswerRestored(s) PROVE VersionsKnown'
  BY <1>15 DEF AnswerRestored, Goes, Ends
<1>16. ASSUME NEW s \in Script, Fail(s) PROVE VersionsKnown'
  BY <1>16 DEF Fail, Ended
<1>17. ASSUME NEW r \in inflight, Take(r) PROVE VersionsKnown'
  BY <1>17 DEF Take
<1>18. ASSUME NEW t \in Txn, SendStep(t) PROVE VersionsKnown'
  BY <1>18 DEF SendStep, Send, Sent, Over
<1>19. ASSUME NEW t \in Txn, StepDone(t) PROVE VersionsKnown'
  BY <1>19 DEF StepDone, Success
<1>20. ASSUME NEW t \in Txn, StepFails(t) PROVE VersionsKnown'
  BY <1>20 DEF StepFails, Send
<1>21. ASSUME NEW t \in Txn, Compensated(t) PROVE VersionsKnown'
  BY <1>21 DEF Compensated
<1>22. ASSUME NEW t \in Txn, CommitCutover(t) PROVE VersionsKnown'
  BY <1>22 DEF CommitCutover
<1>23. ASSUME NEW t \in Txn, PublisherDies(t) PROVE VersionsKnown'
  BY <1>23 DEF PublisherDies, Over
<1>24. CASE ForeignEdit \/ ForeignUpdate
  BY <1>24 DEF ForeignEdit, ForeignUpdate
<1>25. CASE UNCHANGED vars
  BY <1>25 DEF vars
<1> QED
  BY <1>1, <1>2, <1>3, <1>4, <1>5, <1>6, <1>7, <1>8, <1>9, <1>10, <1>11, <1>12, <1>13,
     <1>14, <1>15, <1>16, <1>17, <1>18, <1>19, <1>20, <1>21, <1>22, <1>23, <1>24,
     <1>25 DEF Next, RunScript, Executor

LEMMA VersionsInvariance == Spec => []VersionsKnown
<1>1. Init => VersionsKnown
  BY DEF Init, VersionsKnown
<1> QED
  BY <1>1, Invariance, NextVersionsKnown, PTL DEF Spec

\* Type correctness of the transaction for any number of releases and any number
\* of changes by others.
THEOREM TypeCorrect == Spec => []TypeOK
<1>1. IInv => TypeOK
  BY DEF IInv
<1> QED
  BY <1>1, Invariance, PTL

\* A restored file (game-deployment-transaction.py compensate) rules the
\* submission out for good, whatever scripts the cancelled commands left behind.
THEOREM NeverSubmittedLater == Spec => []NotSubmittedIsFinal
<1>1. IInv => NotSubmittedIsFinal
  BY DEF IInv, OneReceipt, PhaseOfRequest, VerdictProven, HasPhase, NotSubmittedIsFinal
<1> QED
  BY <1>1, Invariance, PTL

\* A submission observed by compensate has happened.
THEOREM NoFalseAttempt == Spec => []AttemptedIsReal
<1>1. IInv => AttemptedIsReal
  BY DEF IInv, VerdictProven, AttemptedIsReal
<1> QED
  BY <1>1, Invariance, PTL

\* The candidate of a compensated release does not come back into the production
\* Compose file.
THEOREM StaysRestored == Spec => []RestoredStaysRestored
<1>1. IInv => RestoredStaysRestored
  BY DEF IInv, VerdictProven, CandidateGone, RestoredStaysRestored
<1> QED
  BY <1>1, Invariance, PTL

\* The baseline check of prepare keeps a release from building on a candidate
\* that production does not run.
THEOREM Unstacked == Spec => NoStacking
<1>1. IInv /\ VersionsKnown /\ [Next]_vars
        => [\A t \in Txn :
              compose'.by = t /\ compose.by \in Txn \ {t}
                /\ (\E d \in Txn : receipts[d] # None /\ receipts[d].txn = t
                                   /\ receipts[d].version = service.version)
              => compose.image = service.image]_vars
  <2> SUFFICES ASSUME IInv, VersionsKnown, Next,
                      NEW t \in Txn, compose'.by = t, compose.by \in Txn \ {t},
                      NEW d \in Txn, receipts[d] # None, receipts[d].txn = t,
                      receipts[d].version = service.version
               PROVE  compose.image = service.image
    BY DEF vars
  <2>1. PICK s \in Script : WriteCandidate(s)
    <3>1. SUFFICES ASSUME \A s \in Script : ~WriteCandidate(s)
                   PROVE  compose' = compose \/ compose'.by = None
      BY DEF IInv, TypeOK
    <3>2. ASSUME NEW s \in Script, RunScript(s) PROVE compose' = compose \/ compose'.by = None
      BY <3>1, <3>2
         DEF RunScript, CopyCompose, CaptureService, PointToBackup, Lock, Check,
         SavePrepared, SaveWritten,
             SaveIntent, Request, ReplyDeployed, AnswerAttempted, RestoreCompose,
             SaveCompensated,
             AnswerRestored, Fail, files
    <3>3. ASSUME NEW r \in inflight, Take(r) PROVE compose' = compose
      BY <3>3 DEF Take, files
    <3>4. ASSUME NEW u \in Txn, Executor(u) PROVE compose' = compose
      BY <3>4
         DEF Executor, SendStep, StepDone, StepFails, Send, Compensated, CommitCutover,
             PublisherDies, files
    <3> QED
      BY <3>2, <3>3, <3>4 DEF Next, ForeignEdit, ForeignUpdate, files
  <2>2. s[1] = "prepare" /\ at[s] = "checked" /\ s[2] = t
    BY <2>1 DEF WriteCandidate, Goes, IInv, TypeOK
  <2>3. d = dir[s]
    BY <2>2 DEF IInv, PhaseOfStage, OwnReceipt, OneReceipt, TypeOK
  <2> QED
    BY <2>2, <2>3 DEF VersionsKnown
<1> QED
  BY <1>1, Invariance, VersionsInvariance, PTL DEF Spec, NoStacking

\* The scripts, the files and the executor implement the promise: submitted or
\* ruled out, and reported truly.
THEOREM Refinement == Spec => ImplementsOutcome
<1>1. Init => Outcome!Init
  BY DEF Init, Outcome!Init, Closed
<1>2. IInv /\ IInv' /\ [Next]_vars => [Outcome!Next]_(Outcome!vars)
  <2> SUFFICES ASSUME IInv, IInv', [Next]_vars PROVE [Outcome!Next]_(Outcome!vars)
    OBVIOUS
  <2>1. Closed = {t \in Txn : HasPhase(t, "COMPENSATED")}
    BY DEF Closed, HasPhase
  <2>2. Closed' = {t \in Txn : HasPhase(t, "COMPENSATED")'}
    BY DEF Closed, HasPhase
  <2>3. ASSUME NEW s \in Script, SaveCompensated(s) PROVE Outcome!Close(s[2])
    <3>1. /\ TypeOK /\ OneReceipt /\ dir[s] # None /\ OwnReceipt(s) /\ Receipt(s, "COMPENSATED")
          /\ "COMPENSATED" \in Phases
      BY <2>3 DEF SaveCompensated, Goes, IInv, PhaseOfStage
    <3>2. /\ HasPhase(s[2], "COMPENSATED")'
          /\ \A t \in Txn \ {s[2]} : HasPhase(t, "COMPENSATED")' <=> HasPhase(t, "COMPENSATED")
      BY <3>1, ReceiptChanges
    <3>3. s[2] \notin submitted
      BY <2>3, ScriptParts
         DEF SaveCompensated, Goes, IInv, PhaseOfStage, PhaseOfRequest, HasPhase,
             OwnReceipt,
                               OneReceipt, Compensable, TypeOK
    <3> QED
      BY <2>1, <2>2, <2>3, <3>2, <3>3, ScriptParts DEF SaveCompensated, Outcome!Close, swarm
  <2>4. ASSUME NEW s \in Script, SavePrepared(s) \/ SaveWritten(s) \/ SaveIntent(s)
        PROVE  UNCHANGED Outcome!vars
    <3>1. CASE SavePrepared(s)
      <4>1. \A t \in Txn : HasPhase(t, "COMPENSATED")' <=> HasPhase(t, "COMPENSATED")
        BY <3>1
           DEF SavePrepared, HasPhase, IInv, TypeOK, Receipts, HoldsLock, Critical, Goes
      <4> QED
        BY <2>1, <2>2, <3>1, <4>1 DEF SavePrepared, Outcome!vars, swarm
    <3>2. ASSUME NEW phase \in {"CONFIG_WRITTEN", "SUBMISSION_ATTEMPTED"}, Receipt(s, phase),
                 dir[s] # None, OwnReceipt(s), receipts[dir[s]].phase # "COMPENSATED"
          PROVE  Closed' = Closed
      <4>1. TypeOK /\ OneReceipt /\ phase \in Phases
        BY <3>2 DEF IInv
      <4>2. /\ ~HasPhase(s[2], "COMPENSATED")'
            /\ \A t \in Txn \ {s[2]} : HasPhase(t, "COMPENSATED")' <=> HasPhase(t, "COMPENSATED")
        BY <3>2, <4>1, ReceiptChanges
      <4>3. ~HasPhase(s[2], "COMPENSATED")
        BY <3>2, <4>1 DEF HasPhase, OneReceipt, OwnReceipt, TypeOK
      <4> QED
        BY <2>1, <2>2, <4>2, <4>3
    <3>3. CASE SaveWritten(s) \/ SaveIntent(s)
      BY <3>2, <3>3
         DEF SaveWritten, SaveIntent, Intent, Goes, Ends, IInv, PhaseOfStage,
             Outcome!vars, swarm
    <3> QED
      BY <2>4, <3>1, <3>3
  <2>5. ASSUME NEW s \in Script, RunScript(s),
               ~(SaveCompensated(s) \/ SavePrepared(s) \/ SaveWritten(s) \/ SaveIntent(s))
        PROVE  UNCHANGED Outcome!vars
    BY <2>5
       DEF RunScript, CopyCompose, CaptureService, PointToBackup, Lock, Check,
           WriteCandidate, Request,
                ReplyDeployed, AnswerAttempted, RestoreCompose, AnswerRestored, Fail,
                files, swarm,
                Outcome!vars, Closed
  <2>6. ASSUME NEW r \in inflight, Take(r) PROVE Outcome!Submit(r.txn)
    <3>1. r.txn \notin Closed
      BY DEF Closed, IInv, PhaseOfRequest, HasPhase, OneReceipt
    <3> QED
      BY <2>6, <3>1 DEF Take, Outcome!Submit, files, Closed
  <2>7. ASSUME NEW t \in Txn, Compensated(t)
        PROVE  [\E v \in {"not_submitted", "attempted"} : Outcome!Report(t, v)]_(Outcome!vars)
    <3>1. PICK answer : local' = [local EXCEPT ![t] = Verdict(answer)]
      BY <2>7 DEF Compensated
    <3>2. UNCHANGED <<submitted, Closed>>
      BY <2>7 DEF Compensated, swarm, files, Closed
    <3>3. Verdict(answer) \in {"not_submitted", "attempted", "unknown"}
      BY DEF Verdict
    <3>4. CASE Verdict(answer) = "unknown"
      BY <2>7, <3>1, <3>2, <3>4 DEF Compensated, Outcome!vars, IInv, TypeOK
    <3>5. CASE Verdict(answer) = "not_submitted"
      <4>1. t \in Closed
        BY <3>1, <3>2, <3>5, <2>2 DEF IInv, VerdictProven, TypeOK
      <4> QED
        BY <2>7, <3>1, <3>2, <3>5, <4>1 DEF Compensated, Outcome!Report, IInv, TypeOK
    <3>6. CASE Verdict(answer) = "attempted"
      <4>1. t \in submitted
        BY <3>1, <3>2, <3>6 DEF IInv, VerdictProven, TypeOK
      <4> QED
        BY <2>7, <3>1, <3>2, <3>6, <4>1 DEF Compensated, Outcome!Report, IInv, TypeOK
    <3> QED
      BY <3>3, <3>4, <3>5, <3>6
  <2>8. ASSUME NEW t \in Txn, Executor(t), ~Compensated(t) PROVE UNCHANGED Outcome!vars
    <3>1. local' = [local EXCEPT ![t] = local'[t]]
      BY <2>8
         DEF Executor, SendStep, Send, StepDone, StepFails, CommitCutover, PublisherDies,
             IInv, TypeOK
    <3>2. {local[t], local'[t]} \cap {"not_submitted", "attempted"} = {}
      BY <2>8
         DEF Executor, SendStep, Send, Sent, StepDone, Success, StepFails, CommitCutover,
             PublisherDies, Over,
                  IInv, TypeOK
    <3>3. UNCHANGED <<submitted, receipts>>
      BY <2>8
         DEF Executor, SendStep, Send, StepDone, StepFails, CommitCutover, PublisherDies,
             files, swarm
    <3>4. \A u \in Txn : (IF local'[u] \in {"not_submitted", "attempted"} THEN local'[u] ELSE "open")
                      = (IF local[u] \in {"not_submitted", "attempted"} THEN local[u] ELSE "open")
      BY <3>1, <3>2 DEF IInv, TypeOK
    <3> QED
      BY <3>3, <3>4 DEF Outcome!vars, Closed
  <2>9. CASE ForeignEdit \/ ForeignUpdate \/ UNCHANGED vars
    BY <2>9 DEF ForeignEdit, ForeignUpdate, vars, files, swarm, Outcome!vars, Closed
  <2> QED
    BY <2>3, <2>4, <2>5, <2>6, <2>7, <2>8, <2>9, ScriptParts
       DEF Next, Outcome!Next, Outcome!Verdicts, IInv, TypeOK
<1> QED
  BY <1>1, <1>2, Invariance, PTL DEF Spec, ImplementsOutcome, Outcome!Spec
================================================================================
