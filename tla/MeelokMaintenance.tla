--------------------------- MODULE MeelokMaintenance ---------------------------
(***************************************************************************)
(* The Meelok services on the production host are stopped while the game   *)
(* is rolled over and started again afterwards (gameMeelokMaintenance.js,  *)
(* meelokRecoverySupervisor.js).  A release sends one pause and, from the  *)
(* plan's own step, from a controlled exit or after a restart of the       *)
(* publisher, one restore after another.  All of them are remote scripts:  *)
(* they outlive the ssh client that sent them, and may die at any step.    *)
(*                                                                         *)
(* A scale request is taken at once: the script that sends it reads the    *)
(* service again before it goes on, and keeps the flock while it does.     *)
(* Images, memory, the game's health and each service's own are refusals,  *)
(* and a script may always refuse.                                         *)
(***************************************************************************)
EXTENDS Naturals

CONSTANTS Id,       \* the releases' maintenance ids
          N,        \* the number of services, in the order they are stopped
          None,
          MaxSends  \* bound: restore commands sent for one release

Service == 1..N
Script == Id \X (0..MaxSends)  \* <<i, 0>> is the pause of i, the others restores

ASSUME MaintenanceAssumption ==
  N \in Nat /\ MaxSends \in Nat /\ None \notin Id \cup Script

\* Where a script is; "body" is the supervised process that starts the services.
Stages == {"none", "sent", "ready", "locked", "marked",
           "attempted", "body", "archived", "broken", "ok", "failed"}

\* restore.state
States == {"none", "ATTEMPTED", "VERIFIED", "UNKNOWN"}

\* What the publisher does with, or believes of, a release's maintenance.
Locals == {"idle", "pausing", "paused", "restoring", "exiting", "crashed", "booting",
           "done", "unknown"}

VARIABLES
  local, sends,  \* of each release: the above, the restores sent
  current,       \* the release the publisher executed last
  at, pos,       \* of each script: where it is, the service its loop has reached
  solo,          \* restores whose supervisor has died while the body goes on
  lock,          \* the script that holds .publisher-maintenance/operation.lock
  marker,        \* .meelok-release-pause: the release whose snapshot it names
       \* releases with a maintenance directory and a snapshot
  completed,     \* releases with marker.completed
  state,         \* restore.state of each release
  up,            \* the replicas each service should have
  tries          \* history: bodies started for each release

publisher == <<local, sends, current>>
disk == <<marker, completed, state>>
vars == <<publisher, at, pos, solo, lock, disk, up, tries>>

Init ==
  /\ local = [i \in Id |-> "idle"] /\ sends = [i \in Id |-> 0] /\ current = None
  /\ at = [s \in Script |-> "none"] /\ pos = [s \in Script |-> 0]
  /\ solo = {}
  /\ lock = None
  /\ marker = None /\ completed = {} /\ state = [i \in Id |-> "none"]
  /\ up = [k \in Service |-> 1]
  /\ tries = [i \in Id |-> 0]

AllUp == \A k \in Service : up[k] = 1

--------------------------------------------------------------------------------
\* flock -n 8 does not keep a restore out.  (Slip... are plausible mistakes; no
\* specification uses them.)
SlipFree(s) == lock = None \/ s[2] > 0

\* flock -n 8
Free(s) == lock = None

\* restore.state is not looked at while a marker is there.
SlipUnattempted(i) == marker # None

\* supervisedRestore goes on only without a state file, whatever it says.
Unattempted(i) == state[i] = "none"

\* The marker names the snapshot of the script's own release.
Owns(s) == marker = s[1]

\* The loop leaves out the last service.
SlipAllStarted(s) == pos[s] <= 1

\* The restore loop is through.
AllStarted(s) == pos[s] = 0

\* The supervisor's verdict on its body.
Verified(s) == at[s] = "archived" /\ s[1] \in completed /\ marker = None

\* recovery_state
RecoveryState(s) == IF Verified(s) THEN "VERIFIED" ELSE "UNKNOWN"

--------------------------------------------------------------------------------
(***************************************************************************)
(* Every script.                                                           *)
(***************************************************************************)
Goes(s, from, to) == at[s] = from /\ at' = [at EXCEPT ![s] = to]

\* The script is gone, with its descriptors and its loop.
Gone(s) ==
  /\ lock' = IF lock = s THEN None ELSE lock
  /\ pos' = [pos EXCEPT ![s] = 0]
  /\ solo' = solo \ {s}

Ends(s, from, to) == Goes(s, from, to) /\ Gone(s)

Lock(s) ==
  /\ Goes(s, IF s[2] = 0 THEN "ready" ELSE "sent", "locked")
  /\ Free(s) /\ lock' = s
  /\ UNCHANGED <<publisher, pos, solo, disk, up, tries>>

\* A check refuses, the flock is busy, the script is killed or its pipe breaks:
\* from any point outside the body, leaving what it has done.
Fail(s) ==
  /\ at[s] \notin {"none", "body", "ok", "failed"}
  /\ at' = [at EXCEPT ![s] = "failed"]
  /\ Gone(s)
  /\ UNCHANGED <<publisher, disk, up, tries>>

(***************************************************************************)
(* gameMeelokPauseCommands                                                 *)
(***************************************************************************)
\* The readiness commands take no flock.
CheckReadiness(s) ==
  /\ s[2] = 0 /\ Goes(s, "sent", "ready")
  /\ marker = None /\ AllUp
  /\ UNCHANGED <<publisher, pos, solo, lock, disk, up, tries>>

\* The snapshot is durable before the marker, and the marker before any stop.  The
\* maintenance directory must be new: a restore that has begun has made it.
Mark(s) ==
  /\ s[2] = 0 /\ Goes(s, "locked", "marked")
  /\ marker = None /\ state[s[1]] = "none" /\ AllUp
  /\ marker' = s[1]
  /\ pos' = [pos EXCEPT ![s] = 1]
  /\ UNCHANGED <<publisher, solo, lock, completed, state, up, tries>>

StopService(s) ==
  /\ at[s] = "marked" /\ pos[s] \in Service
  /\ up' = [up EXCEPT ![pos[s]] = 0]
  /\ pos' = [pos EXCEPT ![s] = @ + 1]
  /\ UNCHANGED <<publisher, at, solo, lock, disk, tries>>

AnswerPaused(s) ==
  /\ Ends(s, "marked", "ok") /\ pos[s] \notin Service
  /\ UNCHANGED <<publisher, disk, up, tries>>

(***************************************************************************)
(* supervisedRestore and the commands of gameMeelokRestoreCommands in it.  *)
(***************************************************************************)
\* ALREADY_VERIFIED, or NOT_REQUIRED.
AnswerAtOnce(s) ==
  /\ s[2] > 0 /\ Ends(s, "locked", "ok")
  /\ marker = None
  /\ \/ state[s[1]] = "VERIFIED" /\ s[1] \in completed
     \/ state[s[1]] = "none"
  /\ UNCHANGED <<publisher, disk, up, tries>>

SaveAttempted(s) ==
  /\ s[2] > 0 /\ Goes(s, "locked", "attempted")
  /\ Unattempted(s[1]) /\ marker # None /\ s[1] \notin completed
  /\ state' = [state EXCEPT ![s[1]] = "ATTEMPTED"]
  /\ UNCHANGED <<publisher, pos, solo, lock, marker, completed, up, tries>>

BeginBody(s) ==
  /\ Goes(s, "attempted", "body")
  /\ Owns(s)
  /\ pos' = [pos EXCEPT ![s] = N]
  /\ tries' = [tries EXCEPT ![s[1]] = @ + 1]
  /\ UNCHANGED <<publisher, solo, lock, disk, up>>

StartService(s) ==
  /\ at[s] = "body" /\ Owns(s) /\ pos[s] \in Service
  /\ up' = [up EXCEPT ![pos[s]] = 1]
  /\ pos' = [pos EXCEPT ![s] = @ - 1]
  /\ UNCHANGED <<publisher, at, solo, lock, disk, tries>>

Archive(s) ==
  /\ Goes(s, "body", "archived")
  /\ AllStarted(s) /\ Owns(s) /\ s[1] \notin completed
  /\ completed' = completed \cup {s[1]} /\ marker' = None
  /\ UNCHANGED <<publisher, pos, solo, lock, state, up, tries>>

\* A check in the body fails, or timeout kills it.
BodyBreaks(s) ==
  /\ \E from \in {"attempted", "body"} : Goes(s, from, "broken")
  /\ s[2] > 0
  /\ pos' = [pos EXCEPT ![s] = 0]
  /\ UNCHANGED <<publisher, solo, lock, disk, up, tries>>

\* The body has inherited descriptor 8 and keeps the flock.
SupervisorDies(s) ==
  /\ at[s] = "body"
  /\ solo' = solo \cup {s}
  /\ UNCHANGED <<publisher, at, pos, lock, disk, up, tries>>

\* The supervisor records what its body has done; without one, nobody does.
Settle(s) ==
  /\ s \notin solo
  /\ \E from \in {"archived", "broken"} : Ends(s, from, IF Verified(s) THEN "ok" ELSE "failed")
  /\ state' = [state EXCEPT ![s[1]] = RecoveryState(s)]
  /\ UNCHANGED <<publisher, marker, completed, up, tries>>

RunScript(s) ==
  \/ Lock(s) \/ Fail(s)
  \/ CheckReadiness(s) \/ Mark(s) \/ StopService(s) \/ AnswerPaused(s)
  \/ AnswerAtOnce(s) \/ SaveAttempted(s) \/ BeginBody(s) \/ StartService(s) \/ Archive(s)
  \/ BodyBreaks(s) \/ SupervisorDies(s) \/ Settle(s)

--------------------------------------------------------------------------------
(***************************************************************************)
(* The publisher.                                                          *)
(***************************************************************************)
Remote == <<pos, solo, lock, disk, up, tries>>

\* One release after another (the operation lock).
SendPause(i) ==
  /\ local[i] = "idle"
  /\ \A j \in Id : local[j] \in {"idle", "done", "unknown"}
  /\ local' = [local EXCEPT ![i] = "pausing"] /\ current' = i
  /\ at' = [at EXCEPT ![<<i, 0>>] = "sent"]
  /\ UNCHANGED <<sends, Remote>>

\* The pause step is done whether the command succeeded, failed or timed out.
PauseReturns(i) ==
  /\ local[i] = "pausing"
  /\ local' = [local EXCEPT ![i] = "paused"]
  /\ UNCHANGED <<sends, current, at, Remote>>

SendRestore(i, next) ==
  /\ sends[i] < MaxSends
  /\ sends' = [sends EXCEPT ![i] = @ + 1]
  /\ at' = [at EXCEPT ![<<i, sends'[i]>>] = "sent"]
  /\ local' = [local EXCEPT ![i] = next]
  /\ UNCHANGED <<current, Remote>>

\* The plan's own step.
RestoreStep(i) == local[i] = "paused" /\ SendRestore(i, "restoring")

\* A cancellation, or the failure of another step: restoreMeelokAfterControlledExit.
ControlledExit(i) == local[i] \in {"pausing", "paused", "restoring"} /\ SendRestore(i, "exiting")

\* recoverInterruptedMeelok
Boot(i) == local[i] = "crashed" /\ SendRestore(i, "booting")

\* The command of the last restore succeeds; or it fails, or its client gives up.
RestoreReturns(i) ==
  /\ local[i] \in {"restoring", "exiting", "booting"}
  /\ \/ at[<<i, sends[i]>>] = "ok" /\ local' = [local EXCEPT ![i] = "done"]
     \/ local' = [local EXCEPT ![i] = "unknown"]
  /\ UNCHANGED <<sends, current, at, Remote>>

\* The last outcome may not have been stored yet.
Crash(i) ==
  /\ current = i /\ local[i] # "crashed"
  /\ local' = [local EXCEPT ![i] = "crashed"]
  /\ UNCHANGED <<sends, current, at, Remote>>

\* An operator starts what a settled release has left stopped and archives its
\* marker, once none of its scripts is running.
Reconcile ==
  /\ lock = None /\ marker # None /\ local[marker] \in {"done", "unknown"}
  /\ \A n \in 0..MaxSends : at[<<marker, n>>] \in {"none", "ok", "failed"}
  /\ up' = [k \in Service |-> 1]
  /\ marker' = None
  /\ UNCHANGED <<publisher, at, pos, solo, lock, completed, state, tries>>

Publisher(i) ==
  \/ SendPause(i) \/ PauseReturns(i) \/ Crash(i)
  \/ RestoreStep(i) \/ ControlledExit(i) \/ Boot(i) \/ RestoreReturns(i)

Next == (\E s \in Script : RunScript(s)) \/ (\E i \in Id : Publisher(i)) \/ Reconcile

Spec == Init /\ [][Next]_vars

--------------------------------------------------------------------------------
TypeOK ==
  /\ local \in [Id -> Locals] /\ sends \in [Id -> 0..MaxSends] /\ current \in Id \cup {None}
  /\ at \in [Script -> Stages] /\ pos \in [Script -> Nat]
  /\ solo \subseteq Script
  /\ lock \in Script \cup {None}
  /\ marker \in Id \cup {None} /\ completed \subseteq Id
  /\ state \in [Id -> States]
  /\ up \in [Service -> {0, 1}]
  /\ tries \in [Id -> Nat]

\* Whatever dies, a stopped service is on record: the marker leads to the snapshot
\* it can be started from.
StoppedIsMarked == ~AllUp => marker # None

\* A restore's commands are never run twice for a release ("Retained attempts must
\* never auto-replay"), from whichever of the three places they are sent.
RestoreOnce == \A i \in Id : tries[i] <= 1

\* A script starts a service again only for the pause of its own release.
OwnPauseOnly ==
  [][\A k \in Service : up[k] = 0 /\ up'[k] = 1 /\ lock # None => marker = lock[1]]_vars

\* The marker is given up, and the restore VERIFIED, only with every service up.
VerifiedIsRunning ==
  [][/\ marker # None /\ marker' = None => \A k \in Service : up'[k] = 1
     /\ \A i \in Id : state[i] # "VERIFIED" /\ state'[i] = "VERIFIED" => AllUp]_vars
================================================================================
