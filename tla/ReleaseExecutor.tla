---------------------------- MODULE ReleaseExecutor ----------------------------
(***************************************************************************)
(* executePlan: the steps of one release, its cancellation, and what the   *)
(* executor decides when a step fails (compensation, rollback decision,    *)
(* rollback, or recovery by hand), down to the restore of Meelok.          *)
(*                                                                         *)
(* A plan is any sequence of steps that fits one of the kinds of           *)
(* ExecutorPlans.tla.  A step's validation is part of its command; the     *)
(* many checks and builds change nothing that the properties speak of.     *)
(*                                                                         *)
(* A command is sent to a remote host.  When it fails, times out or is     *)
(* cancelled, its effect may have happened, may happen later, or never.    *)
(* What the compensation answers is true: DeployTransaction.tla shows it.  *)
(***************************************************************************)
EXTENDS Naturals, Sequences, FiniteSets, ExecutorPlans

CONSTANT Steps  \* the steps of a plan of each kind

ASSUME StepsAssumption == \A p \in Plans : Fits(p, Steps[p])

VARIABLES
  plan,        \* the kind of plan
  pc,          \* what executePlan waits for or does next
  next,        \* index of the current step
  aborted,     \* signal.aborted
  boundary,    \* recoveryBoundaryEntered
  started,     \* cutoverStarted
  committed,   \* cutoverCommitted
  completed,   \* completedStepKeys
  failed,      \* failedStepKey, "" before
  why,         \* the error that ended the steps: "cancel" or "error"
  status,      \* the outcome, "RUNNING" before
  unresolved,  \* meelokRecoveryRequired: the outcome of the restore is unknown
  \* production
  compose, service,  \* the Compose file and the service: "old" or "new"
  writers,     \* the old version may write: the offline cutover stops it
  paused,      \* Meelok is scaled down
  accepted,    \* the standby's acceptance marker
  takenOver,   \* the commit check has seen the new version healthy and alone
  retry,       \* the backup has found a paused update: it keeps a retry baseline
  alive        \* commands whose effect may still happen

control == <<next, boundary, started, committed, completed, failed, why>>
production == <<compose, service, writers, paused, accepted, takenOver, retry>>
vars == <<plan, pc, control, aborted, status, unresolved, production, alive>>

Init ==
  /\ plan \in Plans /\ pc = "next" /\ next = 1
  /\ aborted = FALSE /\ boundary = FALSE /\ started = FALSE /\ committed = FALSE
  /\ completed = {} /\ failed = "" /\ why = "" /\ status = "RUNNING" /\ unresolved = FALSE
  /\ compose = "old" /\ service = "old" /\ writers = TRUE
  /\ paused = FALSE /\ accepted = FALSE /\ takenOver = FALSE
  /\ retry \in BOOLEAN /\ (retry => plan \in {"game", "standby"})
  /\ alive = {}

key == Steps[plan][next]
Game == plan # "forum"

\* plan.config.deploymentTransactionId is not empty.
Transactional == plan \in {"game", "standby"}

\* Steps with recoveryBoundary.
Boundary ==
  Cutovers \cup (IF Game THEN {} ELSE {"update-remote-compose"})

--------------------------------------------------------------------------------
(***************************************************************************)
(* Production.                                                             *)
(***************************************************************************)
Changing == Apart \ {"verify-tradepool-release"}

\* A rollback takes the service back, and the Compose file unless the release retries
\* after a paused update: then the service gets the healthy baseline's Spec and the
\* file, whose predecessor is the failed release's, is kept for audit.
RolledBackFile == IF retry THEN compose ELSE "old"

\* The effect of a command, whether anybody still waits for it or not.
Effect(k) ==
  /\ k \in alive
  /\ alive' = alive \ {k}
  /\ k \in {"deploy-stack", "deploy-forum-compose"} => compose = "new"
  /\ k = "commit-game-cutover" => service = "new"
  /\ compose' = CASE k = "update-remote-compose" -> "new"
                  [] k = "game-rollback-command" -> RolledBackFile
                  [] OTHER -> compose
  /\ service' = CASE k \in {"deploy-stack", "deploy-forum-compose"} -> "new"
                  [] k = "game-rollback-command" -> "old"
                  [] OTHER -> service
  /\ writers' = (writers /\ k \notin Cutovers)
  /\ paused' = CASE k = "pause-meelok-services" -> TRUE
                 [] k = "restore-meelok-services" -> FALSE
                 [] OTHER -> paused
  /\ accepted' = (accepted \/ k = "accept-game-standby-candidate")
  /\ takenOver' = (takenOver \/ k = "commit-game-cutover")
  /\ UNCHANGED <<plan, pc, control, aborted, status, unresolved, retry>>

\* A command that nobody waits for comes to nothing.
Lost(k) ==
  /\ k \in alive
  /\ alive' = alive \ {k}
  /\ \/ pc \notin {"command", "rollback", "restore"}
     \/ pc = "command" /\ k # key
     \/ pc = "rollback" /\ k # "game-rollback-command"
     \/ pc = "restore" /\ k # "restore-meelok-services"
  /\ UNCHANGED <<plan, pc, control, aborted, status, unresolved, production>>

Sent(k) == alive' = alive \cup ({k} \cap Changing)

--------------------------------------------------------------------------------
(***************************************************************************)
(* The steps.  Definitions named Slip... are plausible mistakes in the     *)
(* definition that follows them; no specification uses them.               *)
(***************************************************************************)
\* The user cancels: cancelExecutionJob aborts the signal.
Abort ==
  /\ pc # "done" /\ ~aborted
  /\ aborted' = TRUE
  /\ UNCHANGED <<plan, pc, control, status, unresolved, production, alive>>

Throw(k, w) == pc' = "catch" /\ failed' = k /\ why' = w

\* assertNotCancelled before a step.
StopBeforeStep ==
  /\ pc = "next" /\ next <= Len(Steps[plan])
  /\ aborted
  /\ Throw(IF next = 1 THEN "" ELSE Steps[plan][next - 1], "cancel")
  /\ UNCHANGED <<plan, next, boundary, started, committed, completed, aborted, status,
                 unresolved, production, alive>>

StartStep ==
  /\ pc = "next" /\ next <= Len(Steps[plan])
  /\ ~aborted
  /\ pc' = "command"
  /\ boundary' = (boundary \/ key \in Boundary)
  /\ started' = (started \/ key = "deploy-stack")
  /\ Sent(key)
  /\ UNCHANGED <<plan, next, committed, completed, failed, why, aborted, status, unresolved,
                 production>>

\* A failed acceptance of the standby is only a warning.
SlipNotifications ==
  {"pause-meelok-services", "restore-meelok-services", "accept-game-standby-candidate"}

\* isMeelokNotificationStep
Notifications == {"pause-meelok-services", "restore-meelok-services"}

CompleteStep ==
  /\ completed' = completed \cup {key}
  /\ next' = next + 1
  /\ pc' = "next"
  /\ committed' = (committed \/ key = "commit-game-cutover")
  /\ UNCHANGED <<boundary, started, failed, why>>

\* The command has succeeded, or a notification step's has failed; only the
\* acceptance of the standby ignores a cancellation from here on.
AfterCommand ==
  IF aborted /\ key # "accept-game-standby-candidate"
  THEN Throw(key, "cancel") /\ UNCHANGED <<next, boundary, started, committed, completed>>
  ELSE CompleteStep

CommandSucceeds ==
  /\ pc = "command" /\ key \notin alive
  /\ AfterCommand
  /\ UNCHANGED <<plan, aborted, status, unresolved, production, alive>>

\* The command fails, times out, or is killed by the cancellation.
CommandFails ==
  /\ pc = "command"
  /\ aborted \/ key \notin Notifications
  /\ Throw(key, IF aborted THEN "cancel" ELSE "error")
  /\ UNCHANGED <<plan, next, boundary, started, committed, completed, aborted, status,
                 unresolved, production, alive>>

\* A pause that fails is a warning.
PauseFails ==
  /\ pc = "command" /\ key \in Notifications /\ key # "restore-meelok-services"
  /\ ~aborted
  /\ AfterCommand
  /\ UNCHANGED <<plan, aborted, status, unresolved, production, alive>>

\* A restore that fails leaves its outcome unknown, and the step not completed.
RestoreStepFails ==
  /\ pc = "command" /\ key = "restore-meelok-services"
  /\ ~aborted
  /\ next' = next + 1
  /\ pc' = "next"
  /\ unresolved' = TRUE
  /\ UNCHANGED <<plan, boundary, started, committed, completed, failed, why, aborted, status,
                 production, alive>>

Exit(s) == status' = s /\ pc' = "exit"

StepsDone ==
  /\ pc = "next" /\ next > Len(Steps[plan])
  /\ Exit("EXECUTED")
  /\ UNCHANGED <<plan, control, aborted, unresolved, production, alive>>

--------------------------------------------------------------------------------
(***************************************************************************)
(* The catch block.                                                        *)
(***************************************************************************)
Stopped == IF why = "cancel" THEN "CANCELLED" ELSE "ERROR"

\* Only a completed update-remote-compose is compensated.
SlipNeedsCompensation ==
  Transactional /\ ~boundary /\ ~committed /\ "update-remote-compose" \in completed

NeedsCompensation ==
  /\ Transactional /\ ~boundary /\ ~committed
  /\ failed = "update-remote-compose" \/ "update-remote-compose" \in completed

Catch ==
  /\ pc = "catch"
  /\ pc' = IF NeedsCompensation THEN "compensate" ELSE "evaluate"
  /\ UNCHANGED <<plan, control, aborted, status, unresolved, production, alive>>

\* NOT_SUBMITTED_RESTORED: nothing was submitted or ever will be, and the file is
\* the old one.
CompensationRestores ==
  /\ pc = "compensate" /\ service = "old"
  /\ compose' = "old"
  /\ alive' = alive \ {"update-remote-compose", "deploy-stack"}
  /\ Exit(Stopped)
  /\ UNCHANGED <<plan, control, aborted, unresolved, service, writers, paused, accepted, takenOver,
                 retry>>

\* ATTEMPTED: the service was changed.
CompensationAttempted ==
  /\ pc = "compensate" /\ service = "new"
  /\ started' = TRUE
  /\ pc' = "evaluate"
  /\ UNCHANGED <<plan, next, boundary, committed, completed, failed, why, aborted, status,
                 unresolved, production, alive>>

\* Anything else.  The compensation may have restored the file all the same.
CompensationUnknown ==
  /\ pc = "compensate"
  /\ \/ UNCHANGED compose
     \/ service = "old" /\ compose' = "old"
  /\ Exit("RECOVERY_REQUIRED")
  /\ UNCHANGED <<plan, control, aborted, unresolved, service, writers, paused, accepted,
                 takenOver, retry, alive>>

\* A cancellation after the cutover commit is treated like a failure.
SlipHeld ==
  \/ boundary
  \/ failed = "deploy-stack" /\ plan = "standby"
  \/ failed = "accept-game-standby-candidate"

\* What is left to an operator without any further check.
Held ==
  \/ boundary
  \/ failed = "deploy-stack" /\ plan = "standby"
  \/ failed = "accept-game-standby-candidate"
  \/ Game /\ committed /\ why = "cancel"

ShouldEvaluateRecovery ==
  Game /\ started /\ (committed \/ "verify-tradepool-release" \notin completed)

Evaluate ==
  /\ pc = "evaluate"
  /\ \/ Held /\ Exit("RECOVERY_REQUIRED")
     \/ ~Held /\ ShouldEvaluateRecovery /\ pc' = "decide" /\ UNCHANGED status
     \/ ~Held /\ ~ShouldEvaluateRecovery /\ Exit(Stopped)
  /\ UNCHANGED <<plan, control, aborted, unresolved, production, alive>>

\* game-fatal-rollback-decision once committed, game-rollback-decision before.
Confirm ==
  /\ pc = "decide"
  /\ pc' = "rollback"
  /\ Sent("game-rollback-command")
  /\ UNCHANGED <<plan, control, aborted, status, unresolved, production>>

HoldTarget ==
  /\ pc = "decide"
  /\ Exit("RECOVERY_REQUIRED")
  /\ UNCHANGED <<plan, control, aborted, unresolved, production, alive>>

\* The outcome of the rollback command does not matter.
SlipRollbackFailed == "ROLLED_BACK"

RollbackFailed == "RECOVERY_REQUIRED"

Rollback ==
  /\ pc = "rollback"
  /\ \/ "game-rollback-command" \notin alive /\ Exit("ROLLED_BACK")
     \/ Exit(RollbackFailed)
  /\ UNCHANGED <<plan, control, aborted, unresolved, production, alive>>

--------------------------------------------------------------------------------
(***************************************************************************)
(* restoreMeelokAfterControlledExit                                        *)
(***************************************************************************)
\* Only a completed pause is taken back.
SlipPauseBegun == "pause-meelok-services" \in completed

\* The pause step is not pending.
PauseBegun == "pause-meelok-services" \in completed \cup {failed}

ControlledExit ==
  /\ pc = "exit"
  /\ IF PauseBegun /\ "restore-meelok-services" \notin completed /\ ~unresolved
     THEN pc' = "restore" /\ Sent("restore-meelok-services")
     ELSE pc' = "done" /\ UNCHANGED alive
  /\ UNCHANGED <<plan, control, aborted, status, unresolved, production>>

RestoreEnds ==
  /\ pc = "restore"
  /\ \/ /\ "restore-meelok-services" \notin alive
        /\ completed' = completed \cup {"restore-meelok-services"}
        /\ UNCHANGED unresolved
     \/ unresolved' = TRUE /\ UNCHANGED completed
  /\ pc' = "done"
  /\ UNCHANGED <<plan, next, boundary, started, committed, failed, why, aborted, status,
                 production, alive>>

Next ==
  \/ \E k \in alive : Effect(k) \/ Lost(k)
  \/ Abort
  \/ StopBeforeStep \/ StartStep \/ CommandSucceeds \/ CommandFails
  \/ PauseFails \/ RestoreStepFails \/ StepsDone
  \/ Catch \/ CompensationRestores \/ CompensationAttempted \/ CompensationUnknown
  \/ Evaluate \/ Confirm \/ HoldTarget \/ Rollback
  \/ ControlledExit \/ RestoreEnds

Spec == Init /\ [][Next]_vars

--------------------------------------------------------------------------------
\* A release that ends as failed or cancelled, and not as in need of recovery,
\* has left production as it was, and no command of it can still change that.
CleanExit ==
  status \in {"ERROR", "CANCELLED"} =>
    /\ compose = "old" /\ service = "old" /\ writers
    /\ alive \cap {"update-remote-compose", "deploy-stack", "deploy-forum-compose"} = {}
    /\ alive \cap Cutovers = {}

\* A release that ends as rolled back has the version that served before it in
\* service, for good, and the Compose file it found; after a retry, its own file.
RolledBackIsOld ==
  status = "ROLLED_BACK" =>
    /\ service = "old" /\ compose = (IF retry THEN "new" ELSE "old")
    /\ alive \cap {"update-remote-compose", "deploy-stack"} = {}

\* A release that ends as executed has its version in service; a game release has
\* been seen to take over, and its standby has been accepted.
ExecutedIsAccepted ==
  status = "EXECUTED" =>
    /\ compose = "new" /\ service = "new"
    /\ Game => takenOver
    /\ plan = "standby" => accepted

\* After an offline cutover, after a cancellation that follows the cutover commit,
\* and in the forum the executor never puts the old version back.
TargetStays ==
  [][boundary \/ ~Game \/ (committed /\ why = "cancel") =>
       ~(service = "new" /\ service' = "old")]_vars

\* A release that has begun to pause Meelok does not end before it has restored
\* it, or has marked the outcome as unknown for the operator.
MeelokAnswered ==
  pc = "done" /\ "pause-meelok-services" \in completed \cup {failed} =>
    unresolved \/ "restore-meelok-services" \in completed

================================================================================
