--------------------------- MODULE DeployTransaction ---------------------------
(***************************************************************************)
(* The deployment transaction of a game release: the remote scripts of the *)
(* steps backup-game-release, update-remote-compose, deploy-stack and      *)
(* game-config-compensation (game-deployment-transaction.py), and the      *)
(* executor that sends them over SSH and reads their answers.              *)
(*                                                                         *)
(* Cancelling a command, or its timeout, kills the local ssh client only:  *)
(* the remote script goes on, unseen, or dies at any step.  The same holds *)
(* when the publisher dies, and a second release may then run beside the   *)
(* scripts of the first.  Other people edit the Compose file and update    *)
(* the service without taking the publisher's flock.                       *)
(*                                                                         *)
(* Hashes are modelled by what is hashed: a Compose file by the image it   *)
(* names, the service by its version and its image.  Containers, .env and  *)
(* the rest of the checks can only refuse, and a script may always refuse. *)
(***************************************************************************)
EXTENDS Naturals, FiniteSets

CONSTANTS Txn,         \* the releases; also the image each publishes and the
                       \* backup directory it makes
          Foreign,     \* an image that is no release's
          Base,        \* the image in production at first
          None,
          MaxForeign   \* bound: changes others make to the file or the service

Images == Txn \cup {Base, Foreign}
Kinds == {"backup", "prepare", "deploy", "compensate"}
Script == Kinds \X Txn

Phases == {"PREPARED", "CONFIG_WRITTEN", "SUBMISSION_ATTEMPTED", "COMPENSATED"}

Receipts == [txn : Txn, phase : Phases, version : Nat, original : Images]
Backups == [compose : Images, version : Nat \cup {None}, image : Images \cup {None}]

ASSUME TransactionAssumption ==
  /\ Base # Foreign /\ {Base, Foreign} \cap Txn = {}
  /\ None \notin Images \cup Script \cup Receipts \cup Backups
  /\ MaxForeign \in Nat

\* Where a script is: not sent; sent; between two of its effects; at its end.
Stages == {"none", "sent", "copied", "captured", "locked", "saved", "checked", "written",
           "intended", "requested", "recorded", "ok", "attempted", "restored", "failed"}
Ended == {"ok", "attempted", "restored", "failed"}

\* What the executor does with a release.
Locals == {"idle", "backup", "backed", "prepare", "prepared", "deploy", "deployed", "compensate",
           "committed", "not_submitted", "attempted", "unknown",
           "ended",  \* ended before update-remote-compose
           "gone"}   \* the publisher died
Over == {"idle", "committed", "not_submitted", "attempted", "unknown", "ended", "gone"}

VARIABLES
  local,    \* what the executor does with each release
  at, dir,  \* of each script: where it is, the backup directory it has read
  lock,     \* the script that holds the flock, or None
  compose,  \* docker-compose.yml: the image it names; by: whose candidate it is
  last,     \* .last-game-release-backup
  backups,  \* per release: its backup, or None
  receipts, \* publisher-config-transaction.json in each backup directory, or None
  service,  \* the Swarm service: version and image
  inflight, \* requests to Swarm that it has not taken yet
  submitted,\* releases whose request Swarm has taken
  foreign   \* counter for MaxForeign

files == <<compose, last, backups, receipts>>
swarm == <<service, inflight, submitted>>
vars == <<local, at, dir, lock, files, swarm, foreign>>

Init ==
  /\ local = [t \in Txn |-> "idle"]
  /\ at = [s \in Script |-> "none"] /\ dir = [s \in Script |-> None]
  /\ lock = None
  /\ compose = [image |-> Base, by |-> None]
  /\ last = None
  /\ backups = [t \in Txn |-> None] /\ receipts = [t \in Txn |-> None]
  /\ service = [version |-> 1, image |-> Base]
  /\ inflight = {} /\ submitted = {}
  /\ foreign = 0

--------------------------------------------------------------------------------
(***************************************************************************)
(* The checks of game-deployment-transaction.py.  Definitions named        *)
(* Slip... are plausible mistakes in the definition that follows them; no  *)
(* specification uses them.                                                *)
(***************************************************************************)
\* Compensation does not wait for the flock of the script it follows.
SlipFree(s) == lock = None \/ s[1] = "compensate"

\* flock -n 9
Free(s) == lock = None

\* The receipt in the directory s reads is s's own (load).
OwnReceipt(s) == receipts[dir[s]] # None /\ receipts[dir[s]].txn = s[2]

\* verify_baseline
BaselineUnchanged(s) == service.version = receipts[dir[s]].version

\* The file of the backup is the only thing compared.
SlipUnchangedSinceBackup(s) == compose.image = backups[dir[s]].compose

\* prepare, without a receipt: the Compose file and the service are what was
\* backed up, and the file in the backup describes the service.
UnchangedSinceBackup(s) ==
  LET b == backups[dir[s]]
  IN /\ b.version # None
     /\ compose.image = b.compose
     /\ b.compose = b.image
     /\ service.version = b.version

\* The candidate or the original, nothing else, is in place.
KnownCompose(s) == compose.image \in {receipts[dir[s]].original, s[2]}

\* The intent is not recorded.
SlipIntent == "CONFIG_WRITTEN"

\* What attempt records before the request is sent.
Intent == "SUBMISSION_ATTEMPTED"

\* Only an observed change of the service keeps the file from being restored.
SlipCompensable == {"PREPARED", "CONFIG_WRITTEN", "COMPENSATED", "SUBMISSION_ATTEMPTED"}

\* The phases from which compensate restores the file.
Compensable == {"PREPARED", "CONFIG_WRITTEN", "COMPENSATED"}

\* compensate, for an attempted submission: the service has a later version and
\* runs the release's image.
Observed(s) ==
  /\ service.version > receipts[dir[s]].version
  /\ service.image = s[2]

--------------------------------------------------------------------------------
(***************************************************************************)
(* The remote scripts, one action per effect.                              *)
(***************************************************************************)
Goes(s, from, to) == at[s] = from /\ at' = [at EXCEPT ![s] = to]

\* A script ends: its descriptors are closed, and the flock is free.
Ends(s, from, to) ==
  /\ Goes(s, from, to)
  /\ lock' = IF lock = s THEN None ELSE lock

\* gameReleaseBackupCommand takes no flock.  The service is observed after the
\* Compose file has been copied, and the pointer comes last.
CopyCompose(s) ==
  /\ s[1] = "backup" /\ Goes(s, "sent", "copied")
  /\ backups' = [backups EXCEPT ![s[2]] = [compose |-> compose.image, version |-> None, image |-> None]]
  /\ UNCHANGED <<local, dir, lock, compose, last, receipts, swarm, foreign>>

CaptureService(s) ==
  /\ s[1] = "backup" /\ Goes(s, "copied", "captured")
  /\ backups' = [backups EXCEPT ![s[2]] =
       [compose |-> @.compose, version |-> service.version, image |-> service.image]]
  /\ UNCHANGED <<local, dir, lock, compose, last, receipts, swarm, foreign>>

PointToBackup(s) ==
  /\ s[1] = "backup" /\ Goes(s, "captured", "ok")
  /\ last' = s[2]
  /\ UNCHANGED <<local, dir, lock, compose, backups, receipts, swarm, foreign>>

\* The others start with the flock and the pointer.
Lock(s) ==
  /\ s[1] # "backup" /\ Goes(s, "sent", "locked")
  /\ Free(s) /\ last # None
  /\ lock' = s
  /\ dir' = [dir EXCEPT ![s] = last]
  /\ UNCHANGED <<local, files, swarm, foreign>>

Receipt(s, phase) == receipts' = [receipts EXCEPT ![dir[s]].phase = phase]

\* prepare: a receipt of one's own would mean a second prepare of the same plan,
\* which executePlan never sends; another release's is refused.
SavePrepared(s) ==
  /\ s[1] = "prepare" /\ Goes(s, "locked", "saved")
  /\ receipts[dir[s]] = None /\ UnchangedSinceBackup(s)
  /\ receipts' = [receipts EXCEPT ![dir[s]] =
       [txn |-> s[2], phase |-> "PREPARED", version |-> service.version,
        original |-> backups[dir[s]].compose]]
  /\ UNCHANGED <<local, dir, lock, compose, last, backups, swarm, foreign>>

Check(s) ==
  /\ \/ s[1] = "prepare" /\ Goes(s, "saved", "checked") /\ KnownCompose(s)
     \/ /\ s[1] = "deploy" /\ Goes(s, "locked", "checked")
        /\ OwnReceipt(s) /\ receipts[dir[s]].phase = "CONFIG_WRITTEN"
        /\ compose.image = s[2]
     \/ /\ s[1] = "compensate" /\ Goes(s, "locked", "checked")
        /\ OwnReceipt(s) /\ receipts[dir[s]].phase \in Compensable
        /\ KnownCompose(s)
  /\ BaselineUnchanged(s)
  /\ UNCHANGED <<local, dir, lock, files, swarm, foreign>>

WriteCandidate(s) ==
  /\ s[1] = "prepare" /\ Goes(s, "checked", "written")
  /\ compose' = [image |-> s[2], by |-> s[2]]
  /\ UNCHANGED <<local, dir, lock, last, backups, receipts, swarm, foreign>>

SaveWritten(s) ==
  /\ s[1] = "prepare" /\ Ends(s, "written", "ok")
  /\ Receipt(s, "CONFIG_WRITTEN")
  /\ UNCHANGED <<local, dir, compose, last, backups, swarm, foreign>>

\* The durable intent precedes the request.
SaveIntent(s) ==
  /\ s[1] = "deploy" /\ Goes(s, "checked", "intended")
  /\ Receipt(s, Intent)
  /\ UNCHANGED <<local, dir, lock, compose, last, backups, swarm, foreign>>

\* docker stack deploy sends whatever the Compose file now names.
Request(s) ==
  /\ s[1] = "deploy" /\ Goes(s, "intended", "requested")
  /\ inflight' = inflight \cup {[txn |-> s[2], image |-> compose.image]}
  /\ UNCHANGED <<local, dir, lock, files, service, submitted, foreign>>

\* Swarm takes the request, even when the script that sent it has died.
Take(r) ==
  /\ service' = [version |-> service.version + 1, image |-> r.image]
  /\ inflight' = inflight \ {r}
  /\ submitted' = submitted \cup {r.txn}
  /\ UNCHANGED <<local, at, dir, lock, files, foreign>>

ReplyDeployed(s) ==
  /\ s[1] = "deploy" /\ Ends(s, "requested", "ok")
  /\ s[2] \in submitted
  /\ UNCHANGED <<local, dir, files, swarm, foreign>>

\* compensate, when the submission was attempted.
AnswerAttempted(s) ==
  /\ s[1] = "compensate" /\ Ends(s, "locked", "attempted")
  /\ OwnReceipt(s) /\ receipts[dir[s]].phase = "SUBMISSION_ATTEMPTED" /\ Observed(s)
  /\ UNCHANGED <<local, dir, files, swarm, foreign>>

RestoreCompose(s) ==
  /\ s[1] = "compensate" /\ Goes(s, "checked", "written")
  /\ compose' = [image |-> receipts[dir[s]].original, by |-> None]
  /\ UNCHANGED <<local, dir, lock, last, backups, receipts, swarm, foreign>>

SaveCompensated(s) ==
  /\ s[1] = "compensate" /\ Goes(s, "written", "recorded")
  /\ Receipt(s, "COMPENSATED")
  /\ UNCHANGED <<local, dir, lock, compose, last, backups, swarm, foreign>>

AnswerRestored(s) ==
  /\ s[1] = "compensate" /\ Ends(s, "recorded", "restored")
  /\ BaselineUnchanged(s) /\ compose.image = receipts[dir[s]].original
  /\ UNCHANGED <<local, dir, files, swarm, foreign>>

\* A check refuses, the flock is busy, the pipe to the dead client breaks, the
\* host kills the script: from any point, leaving what it has done.
Fail(s) ==
  /\ at[s] \notin {"none"} \cup Ended
  /\ at' = [at EXCEPT ![s] = "failed"]
  /\ lock' = IF lock = s THEN None ELSE lock
  /\ UNCHANGED <<local, dir, files, swarm, foreign>>

RunScript(s) ==
  \/ CopyCompose(s) \/ CaptureService(s) \/ PointToBackup(s)
  \/ Lock(s) \/ Check(s)
  \/ SavePrepared(s) \/ WriteCandidate(s) \/ SaveWritten(s)
  \/ SaveIntent(s) \/ Request(s) \/ ReplyDeployed(s)
  \/ AnswerAttempted(s) \/ RestoreCompose(s) \/ SaveCompensated(s) \/ AnswerRestored(s)
  \/ Fail(s)

--------------------------------------------------------------------------------
(***************************************************************************)
(* The executor.                                                           *)
(***************************************************************************)
\* The steps in order, each with the state in which it is sent.
Sent == [backup |-> "idle", prepare |-> "backed", deploy |-> "prepared"]
Success == [backup |-> "backed", prepare |-> "prepared", deploy |-> "deployed"]

Send(t, kind) ==
  /\ local' = [local EXCEPT ![t] = kind]
  /\ at' = [at EXCEPT ![<<kind, t>>] = "sent"]
  /\ UNCHANGED <<dir, lock, files, swarm, foreign>>

\* The next step's command; a release starts when no other is executed.
SendStep(t) ==
  \E kind \in DOMAIN Sent :
    /\ local[t] = Sent[kind]
    /\ kind = "backup" => \A u \in Txn : local[u] \in Over
    /\ Send(t, kind)

StepDone(t) ==
  \E kind \in DOMAIN Success :
    /\ local[t] = kind /\ at[<<kind, t>>] = "ok"
    /\ local' = [local EXCEPT ![t] = Success[kind]]
    /\ UNCHANGED <<at, dir, lock, files, swarm, foreign>>

\* The step fails, times out, is cancelled, or a later one is, before the cutover
\* is committed: from update-remote-compose on the transaction is compensated.
StepFails(t) ==
  \/ /\ local[t] \in {"backup", "backed"}
     /\ local' = [local EXCEPT ![t] = "ended"]
     /\ UNCHANGED <<at, dir, lock, files, swarm, foreign>>
  \/ /\ local[t] \in {"prepare", "prepared", "deploy", "deployed"}
     /\ Send(t, "compensate")

\* Any answer is taken for a verdict.
SlipVerdict(answer) == answer

\* The answers of the compensation, by transactionOutcome; a failure, a timeout
\* or anything else leaves the outcome unknown.
Verdict(answer) ==
  IF answer = "restored" THEN "not_submitted"
  ELSE IF answer = "attempted" THEN "attempted" ELSE "unknown"

Compensated(t) ==
  /\ local[t] = "compensate"
  /\ \E answer \in {at[<<"compensate", t>>], "failed"} :
       local' = [local EXCEPT ![t] = Verdict(answer)]
  /\ UNCHANGED <<at, dir, lock, files, swarm, foreign>>

CommitCutover(t) ==
  /\ local[t] = "deployed"
  /\ local' = [local EXCEPT ![t] = "committed"]
  /\ UNCHANGED <<at, dir, lock, files, swarm, foreign>>

PublisherDies(t) ==
  /\ local[t] \notin Over
  /\ local' = [local EXCEPT ![t] = "gone"]
  /\ UNCHANGED <<at, dir, lock, files, swarm, foreign>>

Executor(t) ==
  SendStep(t) \/ StepDone(t) \/ StepFails(t) \/ Compensated(t) \/ CommitCutover(t) \/ PublisherDies(t)

\* Somebody else edits the Compose file or updates the service.
ForeignEdit ==
  /\ foreign < MaxForeign /\ foreign' = foreign + 1
  /\ \E i \in {Base, Foreign} : compose' = [image |-> i, by |-> None]
  /\ UNCHANGED <<local, at, dir, lock, last, backups, receipts, swarm>>

ForeignUpdate ==
  /\ foreign < MaxForeign /\ foreign' = foreign + 1
  /\ \E i \in {Base, Foreign} : service' = [version |-> service.version + 1, image |-> i]
  /\ UNCHANGED <<local, at, dir, lock, files, inflight, submitted>>

Next ==
  \/ \E s \in Script : RunScript(s)
  \/ \E r \in inflight : Take(r)
  \/ \E t \in Txn : Executor(t)
  \/ ForeignEdit \/ ForeignUpdate

Spec == Init /\ [][Next]_vars

--------------------------------------------------------------------------------
TypeOK ==
  /\ local \in [Txn -> Locals]
  /\ at \in [Script -> Stages] /\ dir \in [Script -> Txn \cup {None}]
  /\ lock \in Script \cup {None}
  /\ compose \in [image : Images, by : Txn \cup {None}]
  /\ last \in Txn \cup {None}
  /\ backups \in [Txn -> Backups \cup {None}] /\ receipts \in [Txn -> Receipts \cup {None}]
  /\ service \in [version : Nat, image : Images]
  /\ inflight \subseteq [txn : Txn, image : Images] /\ submitted \subseteq Txn
  /\ foreign \in Nat

\* A release reported as not submitted (submissionOutcome NOT_SUBMITTED) is not
\* submitted and never will be, whatever scripts of it are still running.
NotSubmittedIsFinal ==
  \A t \in Txn : local[t] = "not_submitted" =>
    t \notin submitted /\ \A r \in inflight : r.txn # t

\* A release reported as attempted, which opens the way to a service rollback,
\* has changed the service.
AttemptedIsReal == \A t \in Txn : local[t] = "attempted" => t \in submitted

\* After a confirmed compensation the release's candidate is not, and never
\* again, in the production Compose file.
RestoredStaysRestored == \A t \in Txn : local[t] = "not_submitted" => compose.by # t

\* A candidate never replaces another release's candidate that production does
\* not run, unless somebody else changed the service meanwhile.
NoStacking ==
  [][\A t \in Txn :
       compose'.by = t /\ compose.by \in Txn \ {t}
         /\ (\E d \in Txn : receipts[d] # None /\ receipts[d].txn = t
                            /\ receipts[d].version = service.version)
       => compose.image = service.image]_vars

Closed == {t \in Txn : \E d \in Txn : receipts[d] # None /\ receipts[d].txn = t
                                      /\ receipts[d].phase = "COMPENSATED"}

\* The transaction implements the promise: a compensated receipt rules the
\* submission out, and the reported verdicts are true.
Outcome == INSTANCE DeploymentOutcome WITH
  closed <- Closed,
  verdict <- [t \in Txn |-> IF local[t] \in {"not_submitted", "attempted"} THEN local[t] ELSE "open"]

ImplementsOutcome == Outcome!Spec
================================================================================
