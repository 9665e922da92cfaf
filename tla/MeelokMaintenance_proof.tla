------------------------ MODULE MeelokMaintenance_proof ------------------------
(***************************************************************************)
(* Theorems about the Meelok maintenance, for any number of services, of   *)
(* releases and of restores sent for each.                                 *)
(*                                                                         *)
(* Each property is about what scripts that overlap leave behind, so each  *)
(* rests on the flock (HoldsLock) and on what its holder knows at the      *)
(* stage it has reached (Working, Finished); that a restore is not run     *)
(* twice rests on restore.state, which never becomes absent again          *)
(* (TriedIsRecorded).                                                      *)
(***************************************************************************)
EXTENDS MeelokMaintenance, TLAPS

Restoring == {"attempted", "body", "archived", "broken"}

HoldsLock == \A s \in Script : at[s] \in {"locked", "marked"} \cup Restoring => lock = s

Kind ==
  \A s \in Script :
    /\ at[s] = "marked" => s[2] = 0
    /\ at[s] \in Restoring => s[2] > 0

\* In a loop: the marker is the pause's own, and what a restore has passed is up.
Working ==
  \A s \in Script :
    /\ at[s] = "marked" => marker = s[1] /\ pos[s] \in 1..(N + 1)
    /\ at[s] = "body" => pos[s] \in 0..N /\ \A k \in (pos[s] + 1)..N : up[k] = 1

Finished == \A s \in Script : at[s] = "archived" => AllUp

TriedIsRecorded ==
  /\ \A i \in Id : tries[i] <= 1 /\ (state[i] = "none" => tries[i] = 0)
  /\ \A s \in Script : at[s] \in Restoring => state[s[1]] = "ATTEMPTED"
  /\ \A s \in Script : at[s] = "attempted" => tries[s[1]] = 0

IInv ==
  /\ TypeOK
  /\ HoldsLock
  /\ Kind
  /\ Working
  /\ Finished
  /\ TriedIsRecorded
  /\ StoppedIsMarked

USE MaintenanceAssumption

LEMMA ScriptParts ==
  /\ \A s \in Script : s[1] \in Id /\ s[2] \in 0..MaxSends /\ s = <<s[1], s[2]>>
  /\ \A i \in Id, n \in 0..MaxSends : <<i, n>> \in Script
  BY DEF Script

LEMMA InitIInv == Init => IInv
  BY DEF Init, IInv, TypeOK, HoldsLock, Kind, Working, Finished, TriedIsRecorded,
     StoppedIsMarked, Restoring,
         Stages, States, Locals, AllUp, Service

LEMMA NextIInv == IInv /\ [Next]_vars => IInv'
<1> SUFFICES ASSUME IInv, [Next]_vars PROVE IInv'
  OBVIOUS
<1> USE ScriptParts
   DEF IInv, publisher, disk, TypeOK, HoldsLock, Kind, Working, Finished, TriedIsRecorded,
        StoppedIsMarked, Restoring, Stages, States, Locals, AllUp, Service, Goes, Ends,
        Gone, Remote
<1>1. ASSUME NEW s \in Script, Lock(s) PROVE IInv'
  BY <1>1 DEF Lock, Free
<1>2. ASSUME NEW s \in Script, Fail(s) PROVE IInv'
  BY <1>2 DEF Fail
<1>3. ASSUME NEW s \in Script, CheckReadiness(s) PROVE IInv'
  BY <1>3 DEF CheckReadiness
<1>4. ASSUME NEW s \in Script, Mark(s) PROVE IInv'
  BY <1>4 DEF Mark
<1>5. ASSUME NEW s \in Script, StopService(s) PROVE IInv'
  BY <1>5 DEF StopService
<1>6. ASSUME NEW s \in Script, AnswerPaused(s) PROVE IInv'
  BY <1>6 DEF AnswerPaused
<1>7. ASSUME NEW s \in Script, AnswerAtOnce(s) PROVE IInv'
  BY <1>7 DEF AnswerAtOnce
<1>8. ASSUME NEW s \in Script, SaveAttempted(s) PROVE IInv'
  BY <1>8 DEF SaveAttempted, Unattempted
<1>9. ASSUME NEW s \in Script, BeginBody(s) PROVE IInv'
  BY <1>9 DEF BeginBody, Owns
<1>10. ASSUME NEW s \in Script, StartService(s) PROVE IInv'
  BY <1>10 DEF StartService, Owns
<1>11. ASSUME NEW s \in Script, Archive(s) PROVE IInv'
  BY <1>11 DEF Archive, AllStarted, Owns
<1>12. ASSUME NEW s \in Script, BodyBreaks(s) PROVE IInv'
  BY <1>12 DEF BodyBreaks
<1>13. ASSUME NEW s \in Script, SupervisorDies(s) PROVE IInv'
  BY <1>13 DEF SupervisorDies
<1>14. ASSUME NEW s \in Script, Settle(s) PROVE IInv'
  BY <1>14 DEF Settle, Verified, RecoveryState
<1>15. ASSUME NEW i \in Id, SendPause(i) PROVE IInv'
  BY <1>15 DEF SendPause
<1>16. ASSUME NEW i \in Id, PauseReturns(i) PROVE IInv'
  BY <1>16 DEF PauseReturns
<1>17. ASSUME NEW i \in Id, NEW next \in Locals, SendRestore(i, next) PROVE IInv'
  <2>1. sends' = [sends EXCEPT ![i] = sends[i] + 1] /\ sends[i] + 1 \in 0..MaxSends
    BY <1>17 DEF SendRestore
  <2>2. <<i, sends'[i]>> \in Script
    BY <2>1
  <2>3. PICK r \in Script : at' = [at EXCEPT ![r] = "sent"]
    BY <1>17, <2>2 DEF SendRestore
  <2>4. /\ UNCHANGED <<current, pos, solo, lock, disk, up, tries>>
        /\ local' = [local EXCEPT ![i] = next]
    BY <1>17 DEF SendRestore
  <2>5. TypeOK'
    BY <2>1, <2>3, <2>4
  <2>6. (HoldsLock /\ Kind /\ Working)'
    BY <2>3, <2>4
  <2>7. (Finished /\ TriedIsRecorded /\ StoppedIsMarked)'
    BY <2>3, <2>4
  <2> QED
    BY <2>5, <2>6, <2>7
<1>18. ASSUME NEW i \in Id, RestoreStep(i) \/ ControlledExit(i) \/ Boot(i) PROVE IInv'
  BY <1>17, <1>18 DEF RestoreStep, ControlledExit, Boot
<1>19. ASSUME NEW i \in Id, RestoreReturns(i) PROVE IInv'
  BY <1>19 DEF RestoreReturns
<1>20. ASSUME NEW i \in Id, Crash(i) PROVE IInv'
  BY <1>20 DEF Crash
<1>21. CASE Reconcile
  BY <1>21 DEF Reconcile
<1>22. CASE UNCHANGED vars
  BY <1>22 DEF vars
<1> QED
  BY <1>1, <1>2, <1>3, <1>4, <1>5, <1>6, <1>7, <1>8, <1>9, <1>10, <1>11, <1>12, <1>13,
     <1>14, <1>15, <1>16, <1>17, <1>18, <1>19, <1>20, <1>21, <1>22
     DEF Next, RunScript, Publisher

LEMMA Invariance == Spec => []IInv
  BY InitIInv, NextIInv, PTL DEF Spec

\* Type correctness of the maintenance model.
THEOREM TypeCorrect == Spec => []TypeOK
<1>1. IInv => TypeOK
  BY DEF IInv
<1> QED
  BY <1>1, Invariance, PTL

\* A stopped service is never without a marker that leads to its snapshot
\* (gameMeelokPauseCommands, gameMeelokRestoreCommands), whatever is killed.
THEOREM NeverLost == Spec => []StoppedIsMarked
<1>1. IInv => StoppedIsMarked
  BY DEF IInv
<1> QED
  BY <1>1, Invariance, PTL

\* supervisedRestore runs the commands that start the services at most once for a
\* release, however many restores are sent.
THEOREM NoReplay == Spec => []RestoreOnce
<1>1. IInv => RestoreOnce
  BY DEF IInv, TriedIsRecorded, RestoreOnce
<1> QED
  BY <1>1, Invariance, PTL

\* A restore touches no other release's pause.
THEOREM NoForeignRestore == Spec => OwnPauseOnly
<1>1. IInv /\ [Next]_vars
        => [\A k \in Service : up[k] = 0 /\ up'[k] = 1 /\ lock # None => marker = lock[1]]_vars
  <2> SUFFICES ASSUME IInv, Next, NEW k \in Service, up[k] = 0, up'[k] = 1, lock # None
               PROVE  marker = lock[1]
    BY DEF vars
  <2>1. ASSUME NEW s \in Script, StartService(s) PROVE marker = lock[1]
    BY <2>1 DEF StartService, Owns, IInv, HoldsLock, Restoring
  <2>2. ASSUME NEW s \in Script, StopService(s) PROVE FALSE
    BY <2>2 DEF StopService, IInv, TypeOK
  <2>3. ~Reconcile
    BY DEF Reconcile
  <2>4. ASSUME NEW s \in Script, RunScript(s), ~StartService(s), ~StopService(s) PROVE FALSE
    BY <2>4
       DEF RunScript, Lock, Fail, CheckReadiness, Mark, AnswerPaused, AnswerAtOnce,
           SaveAttempted,
                BeginBody, Archive, BodyBreaks, SupervisorDies, Settle
  <2>5. ASSUME NEW i \in Id, Publisher(i) PROVE FALSE
    BY <2>5
       DEF Publisher, SendPause, PauseReturns, RestoreStep, ControlledExit, Boot,
           SendRestore,
                RestoreReturns, Crash, Remote
  <2> QED
    BY <2>1, <2>2, <2>3, <2>4, <2>5 DEF Next
<1> QED
  BY <1>1, Invariance, PTL DEF Spec, OwnPauseOnly

\* Neither the archive of the marker nor VERIFIED can come before every service has
\* been started.
THEOREM VerdictIsEarned == Spec => VerifiedIsRunning
<1>1. IInv /\ [Next]_vars
        => [/\ marker # None /\ marker' = None => \A k \in Service : up'[k] = 1
            /\ \A i \in Id : state[i] # "VERIFIED" /\ state'[i] = "VERIFIED" => AllUp]_vars
  <2> SUFFICES ASSUME IInv, Next
               PROVE  /\ marker # None /\ marker' = None => \A k \in Service : up'[k] = 1
                      /\ \A i \in Id : state[i] # "VERIFIED" /\ state'[i] = "VERIFIED" => AllUp
    BY DEF vars
  <2> USE DEF IInv, TypeOK, States
  <2>1. ASSUME NEW s \in Script, Archive(s) PROVE AllUp /\ up' = up /\ state' = state
    BY <2>1 DEF Archive, AllStarted, Goes, Working, AllUp, Service
  <2>2. ASSUME NEW s \in Script, Settle(s)
        PROVE  /\ marker' = marker
               /\ \A i \in Id : state[i] # "VERIFIED" /\ state'[i] = "VERIFIED" => AllUp
    BY <2>2 DEF Settle, Finished, Verified, RecoveryState
  <2>3. CASE Reconcile
    BY <2>3 DEF Reconcile, disk
  <2>4. ASSUME NEW s \in Script, RunScript(s), ~Archive(s), ~Settle(s)
        PROVE  /\ marker # None => marker' # None
               /\ \A i \in Id : state'[i] = "VERIFIED" => state[i] = "VERIFIED"
    BY <2>4, ScriptParts
       DEF RunScript, Lock, Fail, CheckReadiness, Mark, StopService, AnswerPaused,
       AnswerAtOnce, SaveAttempted,
           BeginBody, StartService, BodyBreaks, SupervisorDies, disk
  <2>5. ASSUME NEW i \in Id, Publisher(i) PROVE marker' = marker /\ state' = state
    BY <2>5
       DEF Publisher, SendPause, PauseReturns, RestoreStep, ControlledExit, Boot,
           SendRestore,
                RestoreReturns, Crash, Remote, disk
  <2> QED
    BY <2>1, <2>2, <2>3, <2>4, <2>5 DEF Next, AllUp
<1> QED
  BY <1>1, Invariance, PTL DEF Spec, VerifiedIsRunning
================================================================================
