------------------------ MODULE PublisherServer_proof --------------------------
(***************************************************************************)
(* The safety of the release console server, for any number of jobs,       *)
(* crashes and commits.                                                    *)
(*                                                                         *)
(* The invariant ties three things together that the code keeps apart: the *)
(* controllers and the lock (one release), the rest of the callback under  *)
(* way (todo), and the store, which lags behind memory exactly while a     *)
(* write of it is still to come.  HistoryInv adds the history on disk.     *)
(***************************************************************************)
EXTENDS PublisherServer, FiniteSetTheorems, TLAPS

Outcomes == {"EXECUTED", "DRY_RUN", "ERROR", "CANCELLED", "ROLLED_BACK", "RECOVERY_REQUIRED",
             "INTERRUPTED"}

JobRecord ==
  [target : Targets, status : Active \cup Outcomes, plan : BOOLEAN,
   stage : {"local", "compose", "committed"}, boundary : BOOLEAN,
   meelok : {"untouched", "paused", "restored", "unknown"}]

\* What a callback still has to do, by what it is about.
Fresh == {<<"owner", "register", "persist", "start">>, <<"register", "persist", "start">>}
Launching == {<<"persist", "start">>, <<"start">>}
Cancelling == {<<"persist", "aborted">>, <<"aborted">>}
Ending == {<<"append", "diagnose">>, <<"diagnose">>, <<"update", "finish">>, <<"finish">>}
Closing == {<<"persist", "unlink", "rmdir">>, <<"unlink", "rmdir">>, <<"rmdir">>}
Leaving == {<<"record", "persist", "exit">>, <<"persist", "exit">>, <<"exit">>}
Resting == {<< >>, <<"persist">>, <<"record", "persist">>}

\* The store is still to be written in this callback.
Unwritten == Fresh \cup {<<"persist", "start">>, <<"persist", "aborted">>,
              <<"persist", "unlink", "rmdir">>, <<"record", "persist", "exit">>,
              <<"persist", "exit">>, <<"persist">>, <<"record", "persist">>}

TypeInv ==
  /\ up \in BOOLEAN
  /\ todo \in Fresh \cup Launching \cup Cancelling \cup Ending \cup Closing \cup Leaving
              \cup Resting
  /\ DOMAIN jobs \subseteq Job /\ \A j \in DOMAIN jobs : jobs[j] \in JobRecord
  /\ DOMAIN store \subseteq Job /\ \A j \in DOMAIN store : store[j] \in JobRecord
  /\ controllers \subseteq Job /\ toRecord \subseteq Job
  /\ exec \in [Job -> ExecStages]
  /\ result \in [Job -> Outcomes \cup {None}]
  /\ restart \in {"none", "armed", "closing"}
  /\ created \in Nat /\ \A j \in DOMAIN jobs \cup DOMAIN store : j <= created

\* A process that is down has forgotten everything.
DownInv ==
  ~up => /\ todo = << >> /\ DOMAIN jobs = {} /\ controllers = {} /\ toRecord = {}
         /\ exec = NoExec /\ restart = "none"

\* A controller holds the lock, and its job is active until the process leaves.
LockHeld ==
  \A j \in controllers :
    lock = j /\ j \in DOMAIN jobs /\ (todo \notin Leaving => jobs[j].status \in Active)
\* What runs has a controller, or is a Meelok recovery alone.
Controlled == \A j \in Job : exec[j] \notin {"none", "bootrestore"} => j \in controllers
RecoversAlone ==
  \A j \in Job : exec[j] = "bootrestore" =>
    controllers = {} /\ j \in DOMAIN jobs /\ jobs[j].status = "RECOVERING"
OneRecovery == \A i, j \in Job : exec[i] = "bootrestore" /\ exec[j] = "bootrestore" => i = j
ActiveRuns ==
  \A j \in DOMAIN jobs :
    jobs[j].status \in Active => j \in controllers \/ exec[j] = "bootrestore"
OutcomeKnown == \A j \in Job : exec[j] \notin {"none", "steps"} => result[j] \in Outcomes

JobInv ==
  LockHeld /\ Controlled /\ RecoversAlone /\ OneRecovery /\ ActiveRuns /\ OutcomeKnown

\* What a callback that is not done yet is about.
StageInv ==
  /\ todo \in Fresh => /\ self \in Job /\ self = created /\ controllers = {}
                       /\ exec = NoExec /\ restart = "none"
  /\ todo = <<"register", "persist", "start">> => lock = self
  /\ todo \in Launching => self \in controllers /\ exec = NoExec
  /\ todo \in Cancelling => self \in controllers /\ exec[self] = "steps"
  /\ todo \in Ending => self \in controllers /\ exec[self] = "none" /\ result[self] \in Outcomes
  /\ todo \in Closing => controllers = {}
  /\ toRecord # {} => todo \in {<<"record", "persist">>, <<"record", "persist", "exit">>}
  /\ restart = "closing" => /\ controllers = {} /\ toRecord = {}
                            /\ \A j \in DOMAIN jobs : jobs[j].status \notin Active

\* The store has one job at most; when it has been written, the one that is active.
StoreInv ==
  /\ \A i, j \in DOMAIN store : i = j
  /\ up /\ todo \notin Unwritten =>
       torn \/ \A j \in DOMAIN store : j \in DOMAIN jobs /\ jobs[j].status \in Active
  /\ \A j \in Job :
       (j \in controllers \/ exec[j] = "bootrestore")
       /\ todo \notin Leaving \cup {<<"persist", "start">>}
       => torn \/ j \in DOMAIN store

IInv == TypeInv /\ DownInv /\ JobInv /\ StageInv /\ StoreInv

--------------------------------------------------------------------------------
(* None, Updater and Unowned are not jobs.                                    *)
LEMMA NotJobs == None \notin Job /\ Updater \notin Job /\ Unowned \notin Job
  BY ServerAssumption

(* The first job of a callback's work, and what is left when it is done.      *)
LEMMA Rests ==
  ASSUME TypeInv
  PROVE  /\ Doing("owner") => todo = <<"owner", "register", "persist", "start">>
         /\ Doing("register") => todo = <<"register", "persist", "start">>
         /\ Doing("start") => todo = <<"start">>
         /\ Doing("aborted") => todo = <<"aborted">>
         /\ Doing("append") => todo = <<"append", "diagnose">>
         /\ Doing("diagnose") => todo = <<"diagnose">>
         /\ Doing("update") => todo = <<"update", "finish">>
         /\ Doing("finish") => todo = <<"finish">>
         /\ Doing("unlink") => todo = <<"unlink", "rmdir">>
         /\ Doing("rmdir") => todo = <<"rmdir">>
         /\ Doing("exit") => todo = <<"exit">>
         /\ Doing("record") => todo \in {<<"record", "persist", "exit">>, <<"record", "persist">>}
         /\ Doing("persist") =>
              todo \in Unwritten \ ({<<"record", "persist", "exit">>, <<"record", "persist">>}
                                     \cup Fresh)
  BY DEF TypeInv, Doing, Fresh, Launching, Cancelling, Ending, Closing, Leaving, Resting,
         Unwritten

(* An empty sequence has no elements: what a process that is down remembers.     *)
LEMMA Empty == DOMAIN << >> = {}
  OBVIOUS

(* What the callbacks do to the record of a job.                              *)
LEMMA StatusTyped ==
  ASSUME NEW r \in JobRecord, NEW s \in Active \cup Outcomes
  PROVE  [r EXCEPT !.status = s] \in JobRecord /\ [r EXCEPT !.status = s].status = s
  BY DEF JobRecord

LEMMA ReportedTyped ==
  ASSUME NEW r \in JobRecord, NEW s \in Active
  PROVE  Reported(r, s) \in JobRecord /\ Reported(r, s).status = s
  BY DEF JobRecord, Reported, Active

LEMMA PlanTyped ==
  ASSUME NEW r \in JobRecord
  PROVE  [r EXCEPT !.plan = TRUE] \in JobRecord /\ [r EXCEPT !.plan = TRUE].status = r.status
  BY DEF JobRecord

LEMMA MeelokTyped ==
  ASSUME NEW r \in JobRecord, NEW m \in {"paused", "restored", "unknown"}
  PROVE  /\ [r EXCEPT !.meelok = m] \in JobRecord
         /\ [r EXCEPT !.meelok = m].status = r.status
  BY DEF JobRecord

LEMMA InterruptedTyped ==
  ASSUME NEW r \in JobRecord
  PROVE  /\ Interrupted(r) \in JobRecord
         /\ Interrupted(r).status \in {"RECOVERY_REQUIRED", "INTERRUPTED"}
  BY DEF JobRecord, Interrupted, Active, Outcomes

LEMMA FoundTyped ==
  ASSUME NEW r \in JobRecord
  PROVE  /\ [r EXCEPT !.status = "RECOVERING"] \in JobRecord
         /\ [r EXCEPT !.status = "RECOVERING"].status = "RECOVERING"
         /\ Interrupted(r) \in JobRecord
         /\ Interrupted(r).status \in {"RECOVERY_REQUIRED", "INTERRUPTED"}
  <1>1. "RECOVERING" \in Active \cup Outcomes
    BY DEF Active
  <1> QED
    BY <1>1, StatusTyped, InterruptedTyped

LEMMA StageTyped ==
  ASSUME NEW r \in JobRecord
  PROVE  /\ [r EXCEPT !.boundary = TRUE] \in JobRecord
         /\ \A x \in {"compose", "committed"} : [r EXCEPT !.stage = x] \in JobRecord
  BY DEF JobRecord

LEMMA ReportsTyped ==
  ASSUME NEW r \in JobRecord
  PROVE  \A s \in StepReports(r) : s \in JobRecord /\ s.status = "RUNNING"
  <1>1. "RUNNING" \in Active
    BY DEF Active
  <1>2. \A q \in JobRecord : Reported(q, "RUNNING") \in JobRecord
                              /\ Reported(q, "RUNNING").status = "RUNNING"
    BY <1>1, ReportedTyped
  <1>3. \A s \in StepReports(r) :
          \E q \in {r, [r EXCEPT !.boundary = TRUE]}
                   \cup {[r EXCEPT !.stage = x] : x \in {"compose", "committed"}}
                   \cup {[r EXCEPT !.meelok = m] : m \in {"paused", "restored", "unknown"}} :
            s = Reported(q, "RUNNING")
    BY DEF StepReports
  <1>4. \A q \in {r, [r EXCEPT !.boundary = TRUE]}
                   \cup {[r EXCEPT !.stage = x] : x \in {"compose", "committed"}}
                   \cup {[r EXCEPT !.meelok = m] : m \in {"paused", "restored", "unknown"}} :
            q \in JobRecord
    BY StageTyped, MeelokTyped
  <1> QED
    BY <1>2, <1>3, <1>4

LEMMA StatusMeelok ==
  ASSUME NEW r \in JobRecord, NEW s \in Outcomes, NEW m \in {"restored", "unknown"}
  PROVE  /\ [r EXCEPT !.meelok = m, !.status = s] \in JobRecord
         /\ [r EXCEPT !.meelok = m, !.status = s].status = s
  BY DEF JobRecord

(* pruneJobs keeps the job that is registered, which is the newest.            *)
LEMMA NewestKept ==
  ASSUME IInv, todo = <<"register", "persist", "start">>, NEW target \in Targets,
         NEW js,
         js = [j \in DOMAIN jobs \cup {self} |-> IF j = self THEN NewJob(target) ELSE jobs[j]]
  PROVE  /\ self \in DOMAIN Restrict(js, Kept(js))
         /\ DOMAIN Restrict(js, Kept(js)) \subseteq DOMAIN jobs \cup {self}
         /\ \A i \in DOMAIN Restrict(js, Kept(js)) : i # self => Restrict(js, Kept(js))[i] = jobs[i]
         /\ Restrict(js, Kept(js))[self] \in JobRecord
         /\ Restrict(js, Kept(js))[self].status = "RUNNING"
         /\ ~Restrict(js, Kept(js))[self].plan
  <1>1. {k \in DOMAIN js : k > self} = {}
    BY ServerAssumption DEF IInv, TypeInv, StageInv, Fresh, Job
  <1>2. self \in Kept(js)
    BY <1>1, FS_EmptySet, ServerAssumption DEF Kept
  <1>3. /\ NewJob(target) \in JobRecord /\ NewJob(target).status = "RUNNING"
        /\ ~NewJob(target).plan
    BY DEF NewJob, JobRecord, Active
  <1> QED
    BY <1>2, <1>3 DEF Restrict, Kept

(* While a step of a release runs, nothing waits to be recorded and no restart closes. *)
LEMMA NothingDue ==
  ASSUME StageInv, todo \in {<< >>, <<"aborted">>}, controllers # {}
  PROVE  toRecord = {} /\ restart # "closing"
  <1>1. todo \notin {<<"record", "persist">>, <<"record", "persist", "exit">>}
    OBVIOUS
  <1> QED
    BY <1>1 DEF StageInv

(* What a step's end leaves to do writes nothing and is not the way out.             *)
LEMMA Written ==
  \A t \in {<< >>, <<"aborted">>, <<"finish">>, <<"append", "diagnose">>} :
    t \notin Leaving \cup Unwritten
  <1>1. << >> \notin Leaving \cup Unwritten
    BY DEF Leaving, Unwritten, Fresh
  <1>2. <<"aborted">> \notin Leaving \cup Unwritten
    BY DEF Leaving, Unwritten, Fresh
  <1>3. <<"finish">> \notin Leaving \cup Unwritten
    BY DEF Leaving, Unwritten, Fresh
  <1>4. <<"append", "diagnose">> \notin Leaving \cup Unwritten
    BY DEF Leaving, Unwritten, Fresh
  <1> QED
    BY <1>1, <1>2, <1>3, <1>4, Zenon

(* A service that starts for the first time has an empty store and a free lock.   *)
LEMMA InitIInv == Init => IInv
  BY NotJobs, Empty DEF Init, IInv, TypeInv, DownInv, JobInv, LockHeld, Controlled, RecoversAlone,
     OneRecovery, ActiveRuns, OutcomeKnown, StageInv, StoreInv, Fresh, Launching, Cancelling,
     Ending, Closing, Leaving, Resting, Unwritten, NoExec, NoResult, ExecStages

USE DEF IInv, TypeInv, DownInv, JobInv, LockHeld, Controlled, RecoversAlone, OneRecovery,
        ActiveRuns, OutcomeKnown, StageInv, StoreInv, version, work, records, tally, Fresh,
        Launching, Cancelling, Ending, Closing, Leaving, Resting, Unwritten, NoExec, ExecStages,
        Active, Outcomes

\* POST /api/execute: a request that passes has nothing beside it.
LEMMA ExecuteStep ==
  ASSUME IInv, Execute
  PROVE  IInv'
  <1>a. /\ up /\ todo = << >> /\ controllers = {} /\ restart = "none"
        /\ \A j \in DOMAIN jobs : jobs[j].status \notin Active
    BY DEF Execute, Idle, ActionReady, Busy
  <1>b. /\ created' = created + 1 /\ self' = created' /\ self' \in Job /\ lock' = Unowned
        /\ todo' = <<"owner", "register", "persist", "start">>
        /\ UNCHANGED <<version, toRecord, jobs, controllers, exec, result, records>>
    BY ServerAssumption DEF Execute, Job
  <1>c. exec = NoExec
    <2>1. \A j \in Job : exec[j] = "none"
      BY <1>a, Zenon
    <2> QED
      BY <2>1
  <1>1. TypeInv'
    <2>1. created' \in Nat /\ \A j \in DOMAIN jobs' \cup DOMAIN store' : j <= created'
      BY <1>b DEF Job
    <2>2. todo' \in Fresh
      BY <1>b
    <2> QED
      BY <1>a, <1>b, <2>1, <2>2
  <1>2. DownInv'
    BY <1>a, <1>b
  <1>3. JobInv'
    BY <1>a, <1>b
  <1>4. StageInv'
    BY <1>a, <1>b, <1>c
  <1>5. StoreInv'
    BY <1>a, <1>b, <1>c
  <1> QED
    BY <1>1, <1>2, <1>3, <1>4, <1>5

\* acquireOperationLock: the lock is in the name of the request's job.
LEMMA WriteOwnerStep ==
  ASSUME IInv, WriteOwner
  PROVE  IInv'
  <1>a. todo = <<"owner", "register", "persist", "start">>
    BY Rests DEF IInv, WriteOwner
  <1>0. todo' = <<"register", "persist", "start">>
    BY <1>a DEF WriteOwner, Then
  <1> QED
    BY <1>a, <1>0 DEF WriteOwner, Doing

\* createExecutionJob: the job, its controller and its release begin together.
LEMMA RegisterStep ==
  ASSUME IInv, Register
  PROVE  IInv'
  <1>a. todo = <<"register", "persist", "start">>
    BY Rests DEF Register
  <1>b. todo' = <<"persist", "start">>
    BY <1>a DEF Register, Then
  <1>c. /\ self \in DOMAIN jobs' /\ DOMAIN jobs' \subseteq DOMAIN jobs \cup {self}
        /\ \A i \in DOMAIN jobs' : i # self => jobs'[i] = jobs[i]
        /\ jobs'[self] \in JobRecord /\ jobs'[self].status = "RUNNING"
    BY <1>a, NewestKept DEF Register
  <1>d. controllers' = {self} /\ self \in Job /\ self = created /\ up
    BY <1>a DEF Register, Doing
  <1>e. UNCHANGED <<version, self, toRecord, exec, result, timer, records, lock, repo, tally>>
    BY DEF Register
  <1>1. TypeInv'
    BY <1>a, <1>b, <1>c, <1>d, <1>e
  <1>2. DownInv'
    BY <1>a, <1>b, <1>c, <1>d, <1>e
  <1>3. JobInv'
    BY <1>a, <1>b, <1>c, <1>d, <1>e
  <1>4. StageInv'
    BY <1>a, <1>b, <1>c, <1>d, <1>e
  <1>5. StoreInv'
    BY <1>a, <1>b, <1>c, <1>d, <1>e
  <1> QED
    BY <1>1, <1>2, <1>3, <1>4, <1>5

\* persistJobs: the store is exactly the active jobs.
LEMMA PersistStep ==
  ASSUME IInv, Persist
  PROVE  IInv'
  <1>s. todo \in {<<"persist", "start">>, <<"persist", "aborted">>,
                 <<"persist", "unlink", "rmdir">>, <<"persist", "exit">>, <<"persist">>}
    BY Rests DEF IInv, Persist, Unwritten, Fresh
  <1>a. \/ todo = <<"persist", "start">> /\ todo' = <<"start">>
        \/ todo = <<"persist", "aborted">> /\ todo' = <<"aborted">>
        \/ todo = <<"persist", "unlink", "rmdir">> /\ todo' = <<"unlink", "rmdir">>
        \/ todo = <<"persist", "exit">> /\ todo' = <<"exit">>
        \/ todo = <<"persist">> /\ todo' = << >>
    <2>1. CASE todo = <<"persist", "start">>
      BY <2>1 DEF Persist, Then
    <2>2. CASE todo = <<"persist", "aborted">>
      BY <2>2 DEF Persist, Then
    <2>3. CASE todo = <<"persist", "unlink", "rmdir">>
      BY <2>3 DEF Persist, Then
    <2>4. CASE todo = <<"persist", "exit">>
      BY <2>4 DEF Persist, Then
    <2>5. CASE todo = <<"persist">>
      BY <2>5 DEF Persist, Then
    <2> QED
      BY <1>s, <2>1, <2>2, <2>3, <2>4, <2>5
  <1>c. /\ DOMAIN store' = {j \in DOMAIN jobs : jobs[j].status \in Active}
        /\ \A i \in DOMAIN store' : store'[i] = jobs[i]
    BY DEF Persist, Persisted, Restrict, Active
  <1> QED
    BY <1>a, <1>c DEF Persist, Doing

\* Making the worktree fails: the job ends without having run.
LEMMA StartFailsStep ==
  ASSUME IInv, StartFails
  PROVE  IInv'
  <1>a. todo = <<"start">>
    BY Rests DEF IInv, StartFails
  <1>0. todo' = <<"finish">>
    BY <1>a DEF StartFails, Then
  <1> QED
    BY <1>a, <1>0 DEF StartFails, Doing

\* executePlan begins its first step.
LEMMA StartStep ==
  ASSUME IInv, Start
  PROVE  IInv'
  <1>a. todo = <<"start">>
    BY Rests DEF IInv, Start
  <1>0. todo' = << >>
    BY <1>a DEF Start, Then
  <1>c. /\ DOMAIN jobs' = DOMAIN jobs /\ \A i \in DOMAIN jobs : i # self => jobs'[i] = jobs[i]
        /\ self \in DOMAIN jobs /\ jobs'[self] \in JobRecord /\ jobs'[self].status \in Active
    BY <1>a, PlanTyped DEF IInv, TypeInv, JobInv, StageInv, Start, Launching, Active, Leaving
  <1> QED
    BY <1>a, <1>0, <1>c DEF Start, Doing

\* The 250 ms timer of schedulePersistJobs.
LEMMA FlushTimerStep ==
  ASSUME IInv, FlushTimer
  PROVE  IInv'
  <1> QED
    BY DEF FlushTimer, Idle

\* cancelExecutionJob changes a status and aborts a command, nothing else.
LEMMA CancelStep ==
  ASSUME NEW j \in Job, IInv, Cancel(j)
  PROVE  IInv'
  <1>b. j \in DOMAIN jobs /\ jobs[j] \in JobRecord
    BY DEF Cancel
  <1>c. /\ DOMAIN jobs' = DOMAIN jobs /\ \A i \in DOMAIN jobs : i # j => jobs'[i] = jobs[i]
        /\ jobs'[j] \in JobRecord /\ jobs'[j].status = "CANCELLING"
    <2>1. LET r == [jobs[j] EXCEPT !.status = "CANCELLING"]
          IN  r \in JobRecord /\ r.status = "CANCELLING"
      BY <1>b DEF JobRecord
    <2> QED
      BY <1>b, <2>1 DEF Cancel
  <1> QED
    BY <1>b, <1>c DEF Cancel, AfterCancel, Idle

\* The recovery takes its second step.
LEMMA StartRollbackStep ==
  ASSUME NEW j \in Job, IInv, StartRollback(j)
  PROVE  IInv'
  <1>c. /\ DOMAIN jobs' = DOMAIN jobs /\ \A i \in DOMAIN jobs : i # j => jobs'[i] = jobs[i]
        /\ j \in DOMAIN jobs /\ jobs'[j] \in JobRecord /\ jobs'[j].status = "RECOVERING"
    BY ReportedTyped DEF IInv, TypeInv, JobInv, StartRollback, Active, Outcomes
  <1> QED
    BY <1>c DEF StartRollback, Idle

\* restoreMeelokAfterControlledExit has an answer.
LEMMA EndRestoreStep ==
  ASSUME NEW j \in Job, IInv, EndRestore(j)
  PROVE  IInv'
  <1>b. j \in DOMAIN jobs /\ jobs[j] \in JobRecord /\ j \in controllers
        /\ jobs[j].status \in Active /\ result[j] \in Outcomes
    BY DEF EndRestore, Idle
  <1>m. PICK m \in {"restored", "unknown"} : jobs' = [jobs EXCEPT ![j].meelok = m]
    BY DEF EndRestore
  <1>c. /\ DOMAIN jobs' = DOMAIN jobs /\ \A i \in DOMAIN jobs : i # j => jobs'[i] = jobs[i]
        /\ jobs'[j] \in JobRecord /\ jobs'[j].status = jobs[j].status
    <2>1. LET r == [jobs[j] EXCEPT !.meelok = m]
          IN  r \in JobRecord /\ r.status = jobs[j].status
      BY <1>b DEF JobRecord
    <2> QED
      BY <1>b, <1>m, <2>1
  <1>d. /\ up /\ todo = << >> /\ todo' = <<"append", "diagnose">> /\ self' = j
        /\ exec' = [exec EXCEPT ![j] = "none"]
        /\ UNCHANGED <<version, toRecord, controllers, result, timer, records, lock, repo, tally>>
    BY DEF EndRestore, Idle
  <1>1. TypeInv'
    BY <1>b, <1>c, <1>d
  <1>2. DownInv'
    BY <1>b, <1>c, <1>d
  <1>3. JobInv'
    BY <1>b, <1>c, <1>d
  <1>4. StageInv'
    BY <1>b, <1>c, <1>d
  <1>5. StoreInv'
    BY <1>b, <1>c, <1>d
  <1> QED
    BY <1>1, <1>2, <1>3, <1>4, <1>5

\* appendReleaseHistory.
LEMMA AppendHistoryStep ==
  ASSUME IInv, AppendHistory
  PROVE  IInv'
  <1>a. todo = <<"append", "diagnose">>
    BY Rests DEF IInv, AppendHistory
  <1>0. todo' = <<"diagnose">>
    BY <1>a DEF AppendHistory, Then
  <1> QED
    BY <1>a, <1>0 DEF AppendHistory, Doing

\* executePlan asks for a diagnosis, or ends.
LEMMA DiagnoseStep ==
  ASSUME IInv, Diagnose
  PROVE  IInv'
  <1>a. todo = <<"diagnose">>
    BY Rests DEF Diagnose
  <1>b. \/ todo' = <<"update", "finish">> /\ UNCHANGED exec
        \/ todo' = << >> /\ exec' = [exec EXCEPT ![self] = "diagnosis"]
    BY <1>a DEF Diagnose, Then
  <1>1. TypeInv'
    BY <1>a, <1>b DEF Diagnose, Doing
  <1>2. DownInv'
    BY <1>a, <1>b DEF Diagnose, Doing
  <1>3. JobInv'
    BY <1>a, <1>b DEF Diagnose, Doing
  <1>4. StageInv'
    BY <1>a, <1>b DEF Diagnose, Doing
  <1>5. StoreInv'
    BY <1>a, <1>b DEF Diagnose, Doing
  <1> QED
    BY <1>1, <1>2, <1>3, <1>4, <1>5

\* The diagnosis is there.
LEMMA EndDiagnosisStep ==
  ASSUME NEW j \in Job, IInv, EndDiagnosis(j)
  PROVE  IInv'
  <1> QED
    BY DEF EndDiagnosis, Idle

\* updateHistoryDiagnostics.
LEMMA UpdateHistoryStep ==
  ASSUME IInv, UpdateHistory
  PROVE  IInv'
  <1>a. todo = <<"update", "finish">>
    BY Rests DEF IInv, UpdateHistory
  <1>0. todo' = <<"finish">>
    BY <1>a DEF UpdateHistory, Then
  <1> QED
    BY <1>a, <1>0 DEF UpdateHistory, Doing

\* The finally of runExecutionJobInIsolatedWorktree: the controller goes, with it the claim.
LEMMA FinishStep ==
  ASSUME IInv, Finish
  PROVE  IInv'
  <1>a. todo = <<"finish">> /\ self \in controllers /\ controllers = {self}
        /\ self \in DOMAIN jobs /\ jobs[self] \in JobRecord /\ result[self] \in Outcomes
    BY Rests DEF Finish
  <1>b. todo' = <<"persist", "unlink", "rmdir">> /\ controllers' = {}
    BY <1>a DEF Finish, Then, AfterFinish
  <1>c. /\ DOMAIN jobs' = DOMAIN jobs /\ \A i \in DOMAIN jobs : i # self => jobs'[i] = jobs[i]
        /\ jobs'[self] \in JobRecord /\ jobs'[self].status \in Outcomes
    <2>1. LET r == [jobs[self] EXCEPT !.status = result[self]]
          IN  r \in JobRecord /\ r.status = result[self]
      BY <1>a DEF JobRecord
    <2> QED
      BY <1>a, <2>1 DEF Finish
  <1>1. TypeInv'
    BY <1>a, <1>b, <1>c DEF Finish, Doing
  <1>2. DownInv'
    BY <1>a, <1>b, <1>c DEF Finish, Doing
  <1>3. JobInv'
    BY <1>a, <1>b, <1>c DEF Finish, Doing
  <1>4. StageInv'
    BY <1>a, <1>b, <1>c DEF Finish, Doing
  <1>5. StoreInv'
    BY <1>a, <1>b, <1>c DEF Finish, Doing
  <1> QED
    BY <1>1, <1>2, <1>3, <1>4, <1>5

\* releaseOperationLock: first owner.json ...
LEMMA UnlinkOwnerStep ==
  ASSUME IInv, UnlinkOwner
  PROVE  IInv'
  <1>a. todo = <<"unlink", "rmdir">>
    BY Rests DEF IInv, UnlinkOwner
  <1>0. todo' = <<"rmdir">>
    BY <1>a DEF UnlinkOwner, Then
  <1> QED
    BY <1>a, <1>0, NotJobs DEF UnlinkOwner, Doing

\* ... then the directory.
LEMMA RemoveLockStep ==
  ASSUME IInv, RemoveLock
  PROVE  IInv'
  <1>a. todo = <<"rmdir">>
    BY Rests DEF IInv, RemoveLock
  <1>0. todo' = << >>
    BY <1>a DEF RemoveLock, Then
  <1> QED
    BY <1>a, <1>0, NotJobs DEF RemoveLock, Doing

\* A crash keeps the store, or tears the file that is being written.
LEMMA CrashStep ==
  ASSUME IInv, Crash
  PROVE  IInv'
  <1> QED
    BY Empty DEF Crash, Stop, NoResult

\* interruptRunningJobs: the jobs are marked, nothing is stopped yet.
LEMMA SignalStep ==
  ASSUME IInv, Signal
  PROVE  IInv'
  <1>c. /\ DOMAIN jobs' = DOMAIN jobs
        /\ \A i \in DOMAIN jobs :
             /\ jobs'[i] \in JobRecord
             /\ (jobs'[i].status \in Active => jobs'[i] = jobs[i])
             /\ (jobs[i].status = "RECOVERING" => jobs'[i] = jobs[i])
    BY InterruptedTyped DEF IInv, TypeInv, Signal, Active
  <1>d. /\ toRecord' \subseteq DOMAIN jobs
        /\ ((\A i \in DOMAIN jobs : jobs[i].status \notin Active) => toRecord' = {})
    BY DEF Signal, Active
  <1>e. /\ todo = << >> /\ up /\ todo' = <<"record", "persist", "exit">>
        /\ UNCHANGED <<up, restart, self, controllers, exec, result, lock, created, store, torn>>
    BY DEF Signal, Idle, AfterSignal, version, records
  <1>1. TypeInv'
    BY <1>c, <1>d, <1>e
  <1>2. DownInv'
    BY <1>c, <1>d, <1>e
  <1>3. JobInv'
    <2>1. LockHeld'
      BY <1>c, <1>d, <1>e
    <2>2. Controlled'
      BY <1>c, <1>d, <1>e
    <2>3. RecoversAlone'
      BY <1>c, <1>d, <1>e
    <2>4. OneRecovery'
      BY <1>c, <1>d, <1>e
    <2>5. ActiveRuns'
      BY <1>c, <1>d, <1>e
    <2>6. OutcomeKnown'
      BY <1>c, <1>d, <1>e
    <2> QED
      BY <2>1, <2>2, <2>3, <2>4, <2>5, <2>6, Zenon
  <1>4. StageInv'
    BY <1>c, <1>d, <1>e
  <1>5. StoreInv'
    BY <1>c, <1>d, <1>e
  <1> QED
    BY <1>1, <1>2, <1>3, <1>4, <1>5

\* appendInterruptedJobHistory, one job at a time.
LEMMA RecordStep ==
  ASSUME IInv, Record
  PROVE  IInv'
  <1>s. todo \in {<<"record", "persist", "exit">>, <<"record", "persist">>}
    BY Rests DEF Record
  <1>a. \/ /\ toRecord = {} /\ toRecord' = {}
           /\ \/ todo = <<"record", "persist", "exit">> /\ todo' = <<"persist", "exit">>
              \/ todo = <<"record", "persist">> /\ todo' = <<"persist">>
        \/ todo' = todo /\ toRecord' \subseteq toRecord
    <2>1. CASE toRecord = {}
      <3>1. todo' = << >> \o Tail(todo) /\ toRecord' = {}
        BY <2>1 DEF Record, Then
      <3>2. CASE todo = <<"record", "persist", "exit">>
        BY <2>1, <3>1, <3>2
      <3>3. CASE todo = <<"record", "persist">>
        BY <2>1, <3>1, <3>3
      <3> QED
        BY <1>s, <3>2, <3>3
    <2>2. CASE toRecord # {}
      <3>1. UNCHANGED todo /\ \E j \in toRecord : toRecord' = toRecord \ {j}
        BY <2>2, Zenon DEF Record
      <3> QED
        BY <3>1
    <2> QED
      BY <2>1, <2>2
  <1>b. /\ up
        /\ UNCHANGED <<version, self, jobs, controllers, exec, result, timer, store, torn, lock,
                       repo, created>>
    BY DEF Record, Doing
  <1>1. TypeInv'
    BY <1>s, <1>a, <1>b
  <1>2. DownInv'
    BY <1>s, <1>a, <1>b
  <1>3. JobInv'
    BY <1>s, <1>a, <1>b
  <1>4. StageInv'
    BY <1>s, <1>a, <1>b
  <1>5. StoreInv'
    BY <1>s, <1>a, <1>b
  <1> QED
    BY <1>1, <1>2, <1>3, <1>4, <1>5

\* process.exit after a signal.
LEMMA ExitStep ==
  ASSUME IInv, Exit
  PROVE  IInv'
  <1>1. TypeInv'
    BY Empty DEF Exit, Stop, NoResult, Doing
  <1>2. DownInv'
    BY Empty DEF Exit, Stop, NoResult, Doing
  <1>3. JobInv'
    BY Empty DEF Exit, Stop, NoResult, Doing
  <1>4. StageInv'
    BY Empty DEF Exit, Stop, NoResult, Doing
  <1>5. StoreInv'
    BY Empty DEF Exit, Stop, NoResult, Doing
  <1> QED
    BY <1>1, <1>2, <1>3, <1>4, <1>5

\* loadStoredJobs: what the store names is marked, or recovers Meelok.
LEMMA BootStep ==
  ASSUME IInv, Boot
  PROVE  IInv'
  <1>1. CASE torn
    BY <1>1 DEF Boot
  <1>2. CASE ~torn
    <2> DEFINE M == {j \in DOMAIN store : NeedsMeelokRecovery(store[j])}
    <2>1. /\ jobs' = [j \in DOMAIN store |->
                        IF j \in M THEN [store[j] EXCEPT !.status = "RECOVERING"]
                        ELSE Interrupted(store[j])]
          /\ exec' = [j \in Job |-> IF j \in M THEN "bootrestore" ELSE "none"]
          /\ result' = [j \in Job |-> IF j \in M THEN Interrupted(store[j]).status ELSE None]
          /\ toRecord' \subseteq DOMAIN store
          /\ todo' = <<"record", "persist">>
      BY <1>2 DEF Boot
    <2>2. /\ up' /\ ~up
          /\ UNCHANGED <<restart, self, controllers, timer, records, lock, repo, tally>>
      BY DEF Boot
    <2>3. M \subseteq DOMAIN store /\ M \subseteq Job
      OBVIOUS
    <2> HIDE DEF M
    <2>4. \A j \in DOMAIN store :
            /\ [store[j] EXCEPT !.status = "RECOVERING"] \in JobRecord
            /\ [store[j] EXCEPT !.status = "RECOVERING"].status = "RECOVERING"
            /\ Interrupted(store[j]) \in JobRecord
            /\ Interrupted(store[j]).status \in {"RECOVERY_REQUIRED", "INTERRUPTED"}
      BY FoundTyped
    <2>5. /\ DOMAIN jobs' = DOMAIN store
          /\ \A j \in DOMAIN store :
               /\ jobs'[j] \in JobRecord
               /\ jobs'[j].status = IF j \in M THEN "RECOVERING" ELSE Interrupted(store[j]).status
      BY <2>1, <2>4
    <2>6. TypeInv'
      BY <2>1, <2>2, <2>3, <2>4, <2>5
    <2>7. DownInv'
      BY <2>2
    <2>8. JobInv'
      <3>1. LockHeld'
        BY <2>1, <2>2, <2>3, <2>4, <2>5
      <3>2. Controlled'
        BY <2>1, <2>2, <2>3, <2>4, <2>5
      <3>3. RecoversAlone'
        BY <2>1, <2>2, <2>3, <2>4, <2>5
      <3>4. OneRecovery'
        BY <2>1, <2>2, <2>3, <2>4, <2>5
      <3>5. ActiveRuns'
        BY <2>1, <2>2, <2>3, <2>4, <2>5
      <3>6. OutcomeKnown'
        BY <2>1, <2>2, <2>3, <2>4, <2>5
      <3> QED
        BY <3>1, <3>2, <3>3, <3>4, <3>5, <3>6, Zenon
    <2>9. StageInv'
      BY <2>1, <2>2, <2>3, <2>4, <2>5
    <2>10. StoreInv'
      BY <2>1, <2>2, <2>3, <2>4, <2>5
    <2> QED
      BY <2>6, <2>7, <2>8, <2>9, <2>10
  <1> QED
    BY <1>1, <1>2

\* recoverInterruptedMeelok has an answer.
LEMMA EndBootRestoreStep ==
  ASSUME NEW j \in Job, IInv, EndBootRestore(j)
  PROVE  IInv'
  <1>b. /\ j \in DOMAIN jobs /\ jobs[j] \in JobRecord /\ result[j] \in Outcomes
        /\ up /\ todo = << >> /\ todo' = <<"record", "persist">> /\ toRecord' = {j}
    BY DEF EndBootRestore, Idle
  <1>m. PICK m \in {"restored", "unknown"} :
          jobs' = [jobs EXCEPT ![j].meelok = m, ![j].status = result[j]]
    BY DEF EndBootRestore
  <1>c. /\ DOMAIN jobs' = DOMAIN jobs /\ \A i \in DOMAIN jobs : i # j => jobs'[i] = jobs[i]
        /\ jobs'[j] \in JobRecord /\ jobs'[j].status = result[j]
    <2>1. LET r == [jobs[j] EXCEPT !.meelok = m, !.status = result[j]]
          IN  r \in JobRecord /\ r.status = result[j]
      BY <1>b DEF JobRecord
    <2> QED
      BY <1>b, <1>m, <2>1
  <1>1. TypeInv'
    BY <1>b, <1>c DEF EndBootRestore
  <1>2. DownInv'
    BY <1>b, <1>c DEF EndBootRestore
  <1>3. JobInv'
    BY <1>b, <1>c DEF EndBootRestore
  <1>4. StageInv'
    BY <1>b, <1>c DEF EndBootRestore
  <1>5. StoreInv'
    BY <1>b, <1>c DEF EndBootRestore
  <1> QED
    BY <1>1, <1>2, <1>3, <1>4, <1>5

\* The watch of the version, its timer and the exit it decides on.
LEMMA CheckVersionStep ==
  ASSUME IInv, CheckVersion
  PROVE  IInv'
  <1> QED
    BY DEF CheckVersion, Idle, Busy

LEMMA RestartTimerStep ==
  ASSUME IInv, RestartTimer
  PROVE  IInv'
  <1> QED
    BY DEF RestartTimer, Idle, Busy, CalledOff

LEMMA RestartExitStep ==
  ASSUME IInv, RestartExit
  PROVE  IInv'
  <1> QED
    BY Empty DEF RestartExit, Stop, Idle, NoResult

\* What others do to the repository and to the lock.
LEMMA CommitStep ==
  ASSUME IInv, Commit
  PROVE  IInv'
  <1> QED
    BY DEF Commit

LEMMA EditStep ==
  ASSUME IInv, Edit
  PROVE  IInv'
  <1> QED
    BY DEF Edit

LEMMA UpdateBeginsStep ==
  ASSUME IInv, UpdateBegins
  PROVE  IInv'
  <1> QED
    BY NotJobs DEF UpdateBegins

LEMMA UpdateEndsStep ==
  ASSUME IInv, UpdateEnds
  PROVE  IInv'
  <1> QED
    BY NotJobs DEF UpdateEnds

LEMMA OperatorClearsStep ==
  ASSUME IInv, OperatorClears
  PROVE  IInv'
  <1> QED
    BY NotJobs DEF OperatorClears

\* onProgress: a report changes the record of a job that runs.
LEMMA ProceedStep ==
  ASSUME NEW j \in Job, IInv, Proceed(j)
  PROVE  IInv'
  <1>b. j \in DOMAIN jobs /\ jobs[j] \in JobRecord /\ j \in controllers
    BY DEF IInv, TypeInv, JobInv, Proceed
  <1>c. /\ DOMAIN jobs' = DOMAIN jobs /\ \A i \in DOMAIN jobs : i # j => jobs'[i] = jobs[i]
        /\ j \in DOMAIN jobs /\ jobs'[j] \in JobRecord /\ jobs'[j].status = "RUNNING"
    BY <1>b, ReportsTyped DEF Proceed
  <1>d. /\ todo = << >> /\ todo' \in {<< >>, <<"persist">>}
        /\ UNCHANGED <<version, self, toRecord, controllers, exec, result, records, lock, created>>
    BY DEF Proceed, Idle, version, work, records
  <1>e. toRecord = {} /\ restart # "closing"
    BY <1>b, <1>d, NothingDue
  <1>1. TypeInv'
    BY <1>b, <1>c, <1>d
  <1>2. DownInv'
    BY <1>b, <1>c, <1>d
  <1>3. JobInv'
    BY <1>b, <1>c, <1>d
  <1>4. StageInv'
    BY <1>b, <1>d, <1>e
  <1>5. StoreInv'
    BY <1>b, <1>c, <1>d
  <1> QED
    BY <1>1, <1>2, <1>3, <1>4, <1>5

(* executePlan has an outcome: its job waits for Meelok, or the callback ends it. *)
LEMMA ConcludeStep ==
  ASSUME NEW j \in controllers, IInv, up, todo \in {<< >>, <<"aborted">>},
         exec[j] \in {"steps", "recovery"}, NEW outcome \in Outcomes, Conclude(j, outcome)
  PROVE  IInv'
  <1>a. j \in Job /\ j \in DOMAIN jobs /\ jobs[j] \in JobRecord /\ jobs[j].status \in Active
    OBVIOUS
  <1>b. /\ result' = [result EXCEPT ![j] = outcome] /\ self' = j
        /\ UNCHANGED <<version, toRecord, controllers, records, lock, repo, tally>>
    BY DEF Conclude
  <1>c. \/ /\ exec' = [exec EXCEPT ![j] = "restore"] /\ todo' = << >>
           /\ jobs' = [jobs EXCEPT ![j] = Reported(jobs[j], "RECOVERING")]
        \/ /\ exec' = [exec EXCEPT ![j] = "none"] /\ UNCHANGED jobs
           /\ todo' \in {<<"finish">>, <<"append", "diagnose">>}
    BY DEF Conclude
  <1>d. /\ DOMAIN jobs' = DOMAIN jobs /\ \A i \in DOMAIN jobs : i # j => jobs'[i] = jobs[i]
        /\ jobs'[j] \in JobRecord /\ jobs'[j].status \in Active
    BY <1>a, <1>c, ReportedTyped
  <1>1. TypeInv'
    BY <1>a, <1>b, <1>c, <1>d
  <1>2. DownInv'
    BY <1>a, <1>b, <1>c, <1>d
  <1>3. JobInv'
    BY <1>a, <1>b, <1>c, <1>d
  <1>4. StageInv'
    <2>1. todo' \notin Fresh \cup Launching \cup Cancelling \cup Closing
      BY <1>c
    <2>2. exec'[j] \in {"restore", "none"} /\ (todo' \in Ending => exec'[j] = "none")
      BY <1>a, <1>c
    <2>3. result'[j] \in Outcomes
      BY <1>a, <1>b
    <2>4. toRecord' = {} /\ restart' # "closing"
      BY <1>b, NothingDue
    <2> QED
      BY <1>a, <1>b, <2>1, <2>2, <2>3, <2>4
  <1>5. StoreInv'
    <2> HIDE DEF Leaving, Unwritten
    <2>1. todo' \notin Leaving \cup Unwritten
      BY <1>c, Written
    <2>3. todo \notin Leaving \cup Unwritten
      BY Written
    <2> USE DEF Leaving, Unwritten
    <2>2. \A i \in Job :
            i \in controllers' \/ exec'[i] = "bootrestore" => torn \/ i \in DOMAIN store
      <3>1. \A i \in Job : exec'[i] = "bootrestore" => exec[i] = "bootrestore"
        BY <1>c
      <3> QED
        BY <1>b, <2>3, <3>1
    <2> QED
      BY <1>b, <1>d, <2>1, <2>2, <2>3
  <1> QED
    BY <1>1, <1>2, <1>3, <1>4, <1>5

\* A step has failed or was cancelled: executePlan concludes, or its recovery begins.
LEMMA StopStepsStep ==
  ASSUME NEW j \in controllers, NEW cancelled \in BOOLEAN, IInv, up,
         todo \in {<< >>, <<"aborted">>}, exec[j] = "steps", StopSteps(j, cancelled)
  PROVE  IInv'
  <1>1. CASE \E outcome \in ImmediateOutcomes(jobs[j], cancelled) : Conclude(j, outcome)
    <2>1. ImmediateOutcomes(jobs[j], cancelled) \subseteq Outcomes
      BY DEF ImmediateOutcomes, Stopped
    <2> QED
      BY <1>1, <2>1, ConcludeStep
  <1>2. CASE /\ exec' = [exec EXCEPT ![j] = "recovery"]
             /\ jobs' = [jobs EXCEPT ![j] = Reported(jobs[j], "RUNNING")]
             /\ result' = [result EXCEPT ![j] = Stopped(cancelled)]
             /\ self' = j /\ todo' = << >>
             /\ UNCHANGED <<version, toRecord, controllers, records, lock, repo, tally>>
    <2>1. /\ DOMAIN jobs' = DOMAIN jobs /\ \A i \in DOMAIN jobs : i # j => jobs'[i] = jobs[i]
          /\ jobs'[j] \in JobRecord /\ jobs'[j].status \in Active
      BY <1>2, ReportedTyped
    <2>2. Stopped(cancelled) \in Outcomes
      BY DEF Stopped
    <2>3. TypeInv'
      BY <1>2, <2>1, <2>2
    <2>4. DownInv'
      BY <1>2, <2>1, <2>2
    <2>5. JobInv'
      BY <1>2, <2>1, <2>2
    <2>6. StageInv'
      <3>1. toRecord = {} /\ restart # "closing"
        BY NothingDue
      <3> QED
        BY <1>2, <3>1
    <2>7. StoreInv'
      <3> HIDE DEF Leaving, Unwritten
      <3>1. todo' \notin Leaving \cup Unwritten
        BY <1>2, Written
      <3>3. todo \notin Leaving \cup Unwritten
        BY Written
      <3> USE DEF Leaving, Unwritten
      <3>2. \A i \in Job :
              i \in controllers' \/ exec'[i] = "bootrestore" => torn \/ i \in DOMAIN store
        <4>1. \A i \in Job : exec'[i] = "bootrestore" => exec[i] = "bootrestore"
          BY <1>2
        <4> QED
          BY <1>2, <3>3, <4>1
      <3> QED
        BY <1>2, <2>1, <3>1, <3>2, <3>3
    <2> QED
      BY <2>3, <2>4, <2>5, <2>6, <2>7
  <1> QED
    BY <1>1, <1>2 DEF StopSteps

\* The ways a step ends, each by the two lemmas above.
LEMMA SucceedStep == ASSUME NEW j \in Job, IInv, Succeed(j) PROVE IInv'
  BY ConcludeStep DEF Succeed, Idle

LEMMA StepFailsStep == ASSUME NEW j \in Job, IInv, StepFails(j) PROVE IInv'
  BY StopStepsStep DEF StepFails, Idle

LEMMA AbortedStep ==
  ASSUME IInv, Aborted
  PROVE  IInv'
  <1>1. todo = <<"aborted">>
    BY Rests DEF Aborted
  <1> QED
    BY <1>1, StopStepsStep DEF Aborted, Doing

LEMMA EndRecoveryStep ==
  ASSUME NEW j \in Job, IInv, EndRecovery(j)
  PROVE  IInv'
  <1>1. result[j] \in Outcomes /\ j \in controllers
    BY DEF EndRecovery
  <1> QED
    BY <1>1, ConcludeStep DEF EndRecovery, Idle

\* What runs between two turns of the event loop.
LEMMA CallbackStep == IInv /\ Callback => IInv'
  BY WriteOwnerStep, RegisterStep, PersistStep, StartFailsStep, StartStep, AbortedStep,
     AppendHistoryStep, DiagnoseStep, UpdateHistoryStep, FinishStep, UnlinkOwnerStep,
     RemoveLockStep, RecordStep, ExitStep DEF Callback

(* Every step of the server and of its surroundings keeps the invariant.          *)
LEMMA NextIInv == IInv /\ [Next]_vars => IInv'
  <1>1. ASSUME IInv, UNCHANGED vars PROVE IInv'
    BY <1>1 DEF vars
  <1> QED
    BY <1>1, CallbackStep, ProceedStep, SucceedStep, StepFailsStep, CancelStep,
       StartRollbackStep, EndRecoveryStep, EndRestoreStep, EndDiagnosisStep,
       EndBootRestoreStep, ExecuteStep, FlushTimerStep, CrashStep, SignalStep, BootStep,
       CheckVersionStep, RestartTimerStep, RestartExitStep, CommitStep, EditStep,
       UpdateBeginsStep, UpdateEndsStep, OperatorClearsStep DEF Next

HIDE DEF IInv, TypeInv, DownInv, JobInv, LockHeld, Controlled, RecoversAlone, OneRecovery,
         ActiveRuns, OutcomeKnown, StageInv, StoreInv, version, work, records, tally, Fresh,
         Launching, Cancelling, Ending, Closing, Leaving, Resting, Unwritten, NoExec, ExecStages,
         Active, Outcomes

(* The inductive invariant of jobs, controllers, store and lock holds in every state. *)
THEOREM InvHolds == Spec => []IInv
  BY InitIInv, NextIInv, PTL DEF Spec

(* createExecutionJob, loadStoredJobs and runExecutionJobInIsolatedWorktree: at most  *)
(* one release, recovery or diagnosis runs, and a release under its lock.             *)
THEOREM OneRelease == Spec => []OneExecution
  <1>1. IInv => OneExecution
    BY DEF IInv, TypeInv, JobInv, LockHeld, Controlled, RecoversAlone, OneRecovery, OneExecution,
           Executing
  <1> QED
    BY <1>1, InvHolds, PTL

(* persistJobs: whatever moment the process dies, the store names what was running.   *)
THEOREM StoreNamesWork == Spec => []StoreCoversExecution
  <1>1. IInv => StoreCoversExecution
    BY DEF IInv, TypeInv, JobInv, Controlled, StoreInv, Leaving, StoreCoversExecution, Executing,
           Idle
  <1> QED
    BY <1>1, InvHolds, PTL

(* selectPersistedJobs: a restart finds no job that has ended before.                 *)
THEOREM NothingInterruptedTwice == Spec => []QuietStore
  <1>1. IInv => QuietStore
    <2> SUFFICES ASSUME IInv, Idle, ~Busy, ~torn, NEW j \in DOMAIN store PROVE FALSE
      BY DEF QuietStore
    <2>1. todo = << >> /\ todo \notin Unwritten
      BY DEF Idle, Unwritten, Fresh
    <2> QED
      BY <2>1 DEF IInv, StoreInv, Busy, Idle
  <1> QED
    BY <1>1, InvHolds, PTL

(* schedulePublisherRestart: from the decision to close until the exit nothing runs.  *)
THEOREM RestartTakesNoJob == Spec => []RestartOnlyIdle
  <1>1. IInv => RestartOnlyIdle
    BY DEF IInv, TypeInv, StageInv, JobInv, Controlled, RecoversAlone, Active, RestartOnlyIdle,
           Executing, Busy
  <1> QED
    BY <1>1, InvHolds, PTL

--------------------------------------------------------------------------------
(***************************************************************************)
(* The history.  What the store names with a plan is active in memory, or  *)
(* is to be recorded, or has its entry: so the store may forget it.        *)
(***************************************************************************)
Entry == [job : Job, status : Active \cup Outcomes]
Recorded(j) == \E i \in DOMAIN history : history[i].job = j

\* A history entry is due when the job ends.
Owed(j) == j \in DOMAIN store /\ store[j].plan /\ store[j].target # "dry"

StoredOrDue ==
  up => \A j \in DOMAIN store : Owed(j) =>
          (j \in DOMAIN jobs /\ jobs[j].status \in Active) \/ j \in toRecord \/ Recorded(j)

\* The store may lag behind in the plan, not in what kind of release it is.
StoreAgrees ==
  up => \A j \in DOMAIN store \cap DOMAIN jobs :
          store[j].target = jobs[j].target /\ (store[j].plan => jobs[j].plan)

\* From appendReleaseHistory on the entry is there.
EndRecorded ==
  /\ todo \in {<<"diagnose">>, <<"update", "finish">>} => Recorded(self)
  /\ todo = <<"finish">> =>
       jobs[self].target = "dry" \/ ~jobs[self].plan \/ Recorded(self)
  /\ \A j \in Job : exec[j] = "diagnosis" => Recorded(j)

NotPlannedYet == todo \in Launching => ~jobs[self].plan

\* A request is taken with nothing in the store.
EmptyStore == torn \/ todo \in Fresh => DOMAIN store = {}

HistoryInv ==
  /\ history \in Seq(Entry)
  /\ toRecord \subseteq DOMAIN jobs
  /\ EmptyStore /\ StoredOrDue /\ StoreAgrees /\ EndRecorded /\ NotPlannedYet

\* Nothing is stored, recorded or running.
LEMMA InitHistoryInv == Init => HistoryInv
  BY Empty DEF Init, HistoryInv, EmptyStore, StoredOrDue, StoreAgrees, EndRecorded, NotPlannedYet,
     NoExec, Fresh, Launching, Owed

\* appendReleaseHistory puts its entry in front.
LEMMA Prepended ==
  ASSUME history \in Seq(Entry), NEW k \in Job, NEW st \in Active \cup Outcomes,
         history' = <<[job |-> k, status |-> st]>> \o history
  PROVE  /\ history' \in Seq(Entry)
         /\ Recorded(k)'
         /\ \A j \in Job : Recorded(j) => Recorded(j)'
  <1> DEFINE e == [job |-> k, status |-> st]
  <1>1. e \in Entry /\ e.job = k
    BY DEF Entry
  <1> HIDE DEF e
  <1>2. history' = <<e>> \o history
    BY DEF e
  <1>3. /\ history' \in Seq(Entry) /\ Len(history') = Len(history) + 1
        /\ history'[1] = e /\ \A i \in 1..Len(history) : history'[i + 1] = history[i]
    BY <1>1, <1>2
  <1>4. /\ 1 \in DOMAIN history'
        /\ \A i \in DOMAIN history : i + 1 \in DOMAIN history' /\ history'[i + 1] = history[i]
    BY <1>3
  <1> QED
    BY <1>1, <1>3, <1>4 DEF Recorded

\* What reports, interruptions and cancellations leave of a job's record.
LEMMA RecordKeeps ==
  ASSUME NEW r \in JobRecord
  PROVE  /\ Interrupted(r).target = r.target /\ Interrupted(r).plan = r.plan
         /\ \A s \in Active \cup Outcomes :
              /\ [r EXCEPT !.status = s].target = r.target /\ [r EXCEPT !.status = s].plan = r.plan
              /\ [r EXCEPT !.status = s].status = s
              /\ Reported(r, s).target = r.target /\ Reported(r, s).plan
              /\ Reported(r, s).status = s
         /\ [r EXCEPT !.plan = TRUE].target = r.target /\ [r EXCEPT !.plan = TRUE].plan
         /\ [r EXCEPT !.plan = TRUE].status = r.status
         /\ \A m : /\ [r EXCEPT !.meelok = m].target = r.target
                   /\ [r EXCEPT !.meelok = m].plan = r.plan
                   /\ [r EXCEPT !.meelok = m].status = r.status
         /\ \A m, s : /\ [r EXCEPT !.meelok = m, !.status = s].target = r.target
                      /\ [r EXCEPT !.meelok = m, !.status = s].plan = r.plan
  BY DEF JobRecord, Interrupted, Reported

\* A report changes neither what kind of release it is nor that it has a plan.
LEMMA ReportsKeep ==
  ASSUME NEW r \in JobRecord
  PROVE  \A s \in StepReports(r) : s.target = r.target /\ s.plan /\ s.status = "RUNNING"
  <1>1. "RUNNING" \in Active \cup Outcomes
    BY DEF Active
  <1>2. \A s \in StepReports(r) :
          \E q \in {r, [r EXCEPT !.boundary = TRUE]}
                   \cup {[r EXCEPT !.stage = x] : x \in {"compose", "committed"}}
                   \cup {[r EXCEPT !.meelok = m] : m \in {"paused", "restored", "unknown"}} :
            s = Reported(q, "RUNNING")
    BY DEF StepReports
  <1>3. \A q \in {r, [r EXCEPT !.boundary = TRUE]}
                   \cup {[r EXCEPT !.stage = x] : x \in {"compose", "committed"}}
                   \cup {[r EXCEPT !.meelok = m] : m \in {"paused", "restored", "unknown"}} :
          q.target = r.target /\ q \in JobRecord
    <2>1. /\ [r EXCEPT !.boundary = TRUE].target = r.target
          /\ \A x \in {"compose", "committed"} : [r EXCEPT !.stage = x].target = r.target
          /\ \A m \in {"paused", "restored", "unknown"} : [r EXCEPT !.meelok = m].target = r.target
      BY DEF JobRecord
    <2> QED
      BY <2>1, StageTyped, MeelokTyped
  <1> QED
    BY <1>1, <1>2, <1>3, RecordKeeps

\* A step that writes neither file, and ends no stored job that has no entry.
LEMMA FilesStay ==
  ASSUME HistoryInv, up, up', UNCHANGED <<history, store, torn>>,
         DOMAIN jobs' = DOMAIN jobs, toRecord \subseteq toRecord', toRecord' \subseteq DOMAIN jobs,
         \A j \in DOMAIN jobs :
           /\ jobs'[j].target = jobs[j].target /\ (jobs[j].plan => jobs'[j].plan)
           /\ jobs[j].status \in Active /\ Owed(j)
                => jobs'[j].status \in Active \/ j \in toRecord' \/ Recorded(j),
         todo' \in Fresh => todo \in Fresh \/ DOMAIN store = {},
         EndRecorded', NotPlannedYet'
  PROVE  HistoryInv'
  <1>1. EmptyStore'
    BY DEF HistoryInv, EmptyStore
  <1>2. StoredOrDue'
    BY DEF HistoryInv, StoredOrDue, Owed, Recorded
  <1>3. StoreAgrees'
    BY DEF HistoryInv, StoreAgrees
  <1> QED
    BY <1>1, <1>2, <1>3 DEF HistoryInv

\* What a step must not leave to do, unless it has seen to the entry itself.
LEMMA NothingEnds ==
  ASSUME HistoryInv, UNCHANGED history,
         \A i \in Job : exec'[i] = "diagnosis" => exec[i] = "diagnosis",
         todo' \notin {<<"diagnose">>, <<"update", "finish">>, <<"finish">>,
                     <<"persist", "start">>, <<"start">>}
  PROVE  EndRecorded' /\ NotPlannedYet'
  BY DEF HistoryInv, EndRecorded, NotPlannedYet, Recorded, Launching

\* The service is down: it only has its files.
LEMMA DownRecords ==
  ASSUME HistoryInv, Stop, history' \in Seq(Entry), torn' => DOMAIN store' = {}
  PROVE  HistoryInv'
  BY Empty DEF Stop, HistoryInv, EmptyStore, StoredOrDue, StoreAgrees, EndRecorded, NotPlannedYet,
     NoExec, Fresh, Launching

USE DEF IInv, TypeInv, DownInv, JobInv, LockHeld, Controlled, ActiveRuns, OutcomeKnown, StageInv,
        version, work, records, tally, Fresh, Launching, Cancelling, Ending, Closing, Leaving,
        Resting, Unwritten, NoExec, ExecStages, Active, Outcomes, EndRecorded, NotPlannedYet

\* A callback that changes neither jobs nor files, between two that do.
LEMMA Plain ==
  ASSUME IInv, HistoryInv, up, up',
         UNCHANGED <<jobs, toRecord, history, store, torn>>,
         todo' \in Fresh => todo \in Fresh \/ DOMAIN store = {},
         EndRecorded', NotPlannedYet'
  PROVE  HistoryInv'
  BY FilesStay DEF HistoryInv

\* POST /api/execute: nothing is active, so nothing is stored.
LEMMA ExecuteRecords ==
  ASSUME IInv, HistoryInv, Execute
  PROVE  HistoryInv'
  <1>1. up /\ up' /\ todo = << >> /\ todo' = <<"owner", "register", "persist", "start">>
    BY DEF Execute, Idle
  <1>2. DOMAIN store = {}
    <2>1. torn => DOMAIN store = {}
      BY DEF HistoryInv, EmptyStore
    <2>2. todo \notin Unwritten
      BY <1>1
    <2>3. ~torn => \A j \in DOMAIN store : j \in DOMAIN jobs /\ jobs[j].status \in Active
      BY <1>1, <2>2 DEF StoreInv
    <2> QED
      BY <2>1, <2>3 DEF Execute, Busy
  <1>3. UNCHANGED <<jobs, toRecord, history, store, torn, exec>>
    BY DEF Execute
  <1>4. EndRecorded' /\ NotPlannedYet'
    BY <1>1, <1>3 DEF HistoryInv, Recorded
  <1> QED
    BY <1>1, <1>2, <1>3, <1>4, Plain

\* acquireOperationLock writes owner.json.
LEMMA WriteOwnerRecords ==
  ASSUME IInv, HistoryInv, WriteOwner
  PROVE  HistoryInv'
  <1>1. up /\ up' /\ todo \in Fresh /\ todo' = <<"register", "persist", "start">>
    <2>1. todo = <<"owner", "register", "persist", "start">>
      BY Rests DEF WriteOwner
    <2> QED
      BY <2>1 DEF WriteOwner, Then, Doing
  <1>2. UNCHANGED <<jobs, toRecord, history, store, torn, exec>>
    BY DEF WriteOwner
  <1>3. EndRecorded' /\ NotPlannedYet'
    BY <1>1, <1>2 DEF HistoryInv, Recorded
  <1> QED
    BY <1>1, <1>2, <1>3, Plain

\* createExecutionJob: the new job has no plan, and the store is empty.
LEMMA RegisterRecords ==
  ASSUME IInv, HistoryInv, Register
  PROVE  HistoryInv'
  <1>1. todo = <<"register", "persist", "start">> /\ todo' = <<"persist", "start">>
    <2>1. todo = <<"register", "persist", "start">>
      BY Rests DEF Register
    <2> QED
      BY <2>1 DEF Register, Then
  <1>2. DOMAIN store = {} /\ toRecord = {}
    BY <1>1 DEF HistoryInv, EmptyStore
  <1>3. ~jobs'[self].plan
    BY <1>1, NewestKept DEF Register
  <1>4. UNCHANGED <<version, self, toRecord, exec, history, store, torn>>
    BY DEF Register
  <1>5. EndRecorded' /\ NotPlannedYet'
    BY <1>1, <1>3, <1>4 DEF HistoryInv, Recorded
  <1> QED
    BY <1>1, <1>2, <1>4, <1>5 DEF HistoryInv, EmptyStore, StoredOrDue, StoreAgrees

\* persistJobs: what the store names afterwards is active.
LEMMA PersistRecords ==
  ASSUME IInv, HistoryInv, Persist
  PROVE  HistoryInv'
  <1>1. todo \in {<<"persist", "start">>, <<"persist", "aborted">>,
                 <<"persist", "unlink", "rmdir">>, <<"persist", "exit">>, <<"persist">>}
    BY Rests DEF Persist
  <1>2. \/ todo = <<"persist", "start">> /\ todo' = <<"start">>
        \/ todo' \in {<<"aborted">>, <<"unlink", "rmdir">>, <<"exit">>, << >>}
    <2>1. CASE todo = <<"persist", "start">>
      BY <2>1 DEF Persist, Then
    <2>2. CASE todo = <<"persist", "aborted">>
      BY <2>2 DEF Persist, Then
    <2>3. CASE todo = <<"persist", "unlink", "rmdir">>
      BY <2>3 DEF Persist, Then
    <2>4. CASE todo = <<"persist", "exit">>
      BY <2>4 DEF Persist, Then
    <2>5. CASE todo = <<"persist">>
      BY <2>5 DEF Persist, Then
    <2> QED
      BY <1>1, <2>1, <2>2, <2>3, <2>4, <2>5
  <1>3. /\ DOMAIN store' = {j \in DOMAIN jobs : jobs[j].status \in Active}
        /\ \A i \in DOMAIN store' : store'[i] = jobs[i]
        /\ ~torn'
        /\ UNCHANGED <<version, self, toRecord, jobs, controllers, exec, result, history>>
    BY DEF Persist, Persisted, Restrict
  <1>4. EmptyStore'
    BY <1>2, <1>3 DEF EmptyStore
  <1>5. StoredOrDue' /\ StoreAgrees'
    BY <1>3 DEF StoredOrDue, StoreAgrees
  <1>6. EndRecorded' /\ NotPlannedYet'
    <2>1. CASE todo = <<"persist", "start">> /\ todo' = <<"start">>
      BY <1>3, <2>1 DEF HistoryInv, Recorded
    <2>2. CASE todo' \in {<<"aborted">>, <<"unlink", "rmdir">>, <<"exit">>, << >>}
      <3> DEFINE Owing == {<<"diagnose">>, <<"update", "finish">>, <<"finish">>,
                           <<"persist", "start">>, <<"start">>}
      <3>1. <<"aborted">> \notin Owing
        OBVIOUS
      <3>2. <<"unlink", "rmdir">> \notin Owing
        OBVIOUS
      <3>3. <<"exit">> \notin Owing
        OBVIOUS
      <3>4. << >> \notin Owing
        OBVIOUS
      <3>5. todo' \notin Owing
        <4> HIDE DEF Owing
        <4> QED
          BY <2>2, <3>1, <3>2, <3>3, <3>4, Zenon
      <3> QED
        BY <1>3, <3>5, NothingEnds
    <2> QED
      BY <1>2, <2>1, <2>2
  <1> QED
    BY <1>3, <1>4, <1>5, <1>6 DEF HistoryInv

\* Making the worktree fails: there is no plan, and nothing to record.
LEMMA StartFailsRecords ==
  ASSUME IInv, HistoryInv, StartFails
  PROVE  HistoryInv'
  <1>1. up /\ up' /\ todo = <<"start">> /\ todo' = <<"finish">>
    <2>1. todo = <<"start">>
      BY Rests DEF StartFails
    <2> QED
      BY <2>1 DEF StartFails, Then, Doing
  <1>2. UNCHANGED <<self, jobs, toRecord, history, store, torn, exec>>
    BY DEF StartFails
  <1>3. EndRecorded' /\ NotPlannedYet'
    BY <1>1, <1>2 DEF HistoryInv, Recorded
  <1> QED
    BY <1>1, <1>2, <1>3, Plain

\* executePlan reports its plan.
LEMMA StartRecords ==
  ASSUME IInv, HistoryInv, Start
  PROVE  HistoryInv'
  <1>1. /\ up /\ up' /\ todo = <<"start">> /\ todo' = << >>
        /\ self \in DOMAIN jobs /\ jobs[self] \in JobRecord
    <2>1. todo = <<"start">>
      BY Rests DEF Start
    <2> QED
      BY <2>1 DEF Start, Then, Doing
  <1>2. /\ jobs' = [jobs EXCEPT ![self] = [jobs[self] EXCEPT !.plan = TRUE]]
        /\ exec' = [exec EXCEPT ![self] = "steps"]
        /\ UNCHANGED <<toRecord, history, store, torn>>
    BY DEF Start
  <1>3. /\ DOMAIN jobs' = DOMAIN jobs
        /\ \A j \in DOMAIN jobs : jobs'[j].target = jobs[j].target
                                  /\ (jobs[j].plan => jobs'[j].plan)
                                  /\ jobs'[j].status = jobs[j].status
    BY <1>1, <1>2, RecordKeeps
  <1>4. EndRecorded' /\ NotPlannedYet'
    BY <1>1, <1>2 DEF HistoryInv, Recorded
  <1>5. toRecord \subseteq DOMAIN jobs
    BY DEF HistoryInv
  <1> QED
    BY <1>1, <1>2, <1>3, <1>4, <1>5, FilesStay

\* A callback that changes the record of one job, and no file.
LEMMA OneChanges ==
  ASSUME IInv, HistoryInv, up, up', NEW j \in DOMAIN jobs, NEW r,
         jobs' = [jobs EXCEPT ![j] = r],
         r.target = jobs[j].target, jobs[j].plan => r.plan,
         r.status \in Active \/ j \in toRecord' \/ (Owed(j) => Recorded(j)),
         toRecord \subseteq toRecord', toRecord' \subseteq DOMAIN jobs,
         UNCHANGED <<history, store, torn>>, todo' \notin Fresh,
         EndRecorded', NotPlannedYet'
  PROVE  HistoryInv'
  <1>1. /\ DOMAIN jobs' = DOMAIN jobs
        /\ jobs'[j] = r /\ \A i \in DOMAIN jobs : i # j => jobs'[i] = jobs[i]
    OBVIOUS
  <1>2. \A i \in DOMAIN jobs :
          /\ jobs'[i].target = jobs[i].target /\ (jobs[i].plan => jobs'[i].plan)
          /\ jobs[i].status \in Active /\ Owed(i)
               => jobs'[i].status \in Active \/ i \in toRecord' \/ Recorded(i)
    BY <1>1
  <1> QED
    BY <1>1, <1>2, FilesStay

\* executePlan has an outcome: what comes next records it, but for a rehearsal.
LEMMA ConcludeRecords ==
  ASSUME NEW j \in controllers, IInv, HistoryInv, up, up', todo \in {<< >>, <<"aborted">>},
         NEW outcome \in Outcomes, Conclude(j, outcome)
  PROVE  HistoryInv'
  <1>1. j \in DOMAIN jobs /\ jobs[j] \in JobRecord /\ j \in Job
    OBVIOUS
  <1>2. self' = j /\ UNCHANGED <<toRecord, history, store, torn>> /\ toRecord \subseteq DOMAIN jobs
    BY DEF Conclude, HistoryInv
  <1>3. CASE /\ exec' = [exec EXCEPT ![j] = "restore"] /\ todo' = << >>
             /\ jobs' = [jobs EXCEPT ![j] = Reported(jobs[j], "RECOVERING")]
    <2>1. /\ Reported(jobs[j], "RECOVERING").target = jobs[j].target
          /\ Reported(jobs[j], "RECOVERING").plan
          /\ Reported(jobs[j], "RECOVERING").status \in Active
      BY <1>1, RecordKeeps
    <2>2. EndRecorded' /\ NotPlannedYet'
      BY <1>2, <1>3 DEF HistoryInv, Recorded
    <2> QED
      BY <1>1, <1>2, <1>3, <2>1, <2>2, OneChanges
  <1>4. CASE /\ exec' = [exec EXCEPT ![j] = "none"] /\ UNCHANGED jobs
             /\ \/ todo' = <<"finish">> /\ jobs[j].target = "dry"
                \/ todo' = <<"append", "diagnose">>
    <2>1. EndRecorded' /\ NotPlannedYet'
      BY <1>2, <1>4 DEF HistoryInv, Recorded
    <2> QED
      BY <1>2, <1>4, <2>1, Plain
  <1> QED
    BY <1>3, <1>4 DEF Conclude

\* A step has failed or was cancelled.
LEMMA StopStepsRecords ==
  ASSUME NEW j \in controllers, NEW cancelled \in BOOLEAN, IInv, HistoryInv, up, up',
         todo \in {<< >>, <<"aborted">>}, StopSteps(j, cancelled)
  PROVE  HistoryInv'
  <1>1. CASE \E outcome \in ImmediateOutcomes(jobs[j], cancelled) : Conclude(j, outcome)
    <2>1. ImmediateOutcomes(jobs[j], cancelled) \subseteq Outcomes
      BY DEF ImmediateOutcomes, Stopped
    <2> QED
      BY <1>1, <2>1, ConcludeRecords
  <1>2. CASE /\ exec' = [exec EXCEPT ![j] = "recovery"]
             /\ jobs' = [jobs EXCEPT ![j] = Reported(jobs[j], "RUNNING")]
             /\ self' = j /\ todo' = << >>
             /\ UNCHANGED <<version, toRecord, controllers, records, lock, repo, tally>>
    <2>1. j \in DOMAIN jobs /\ jobs[j] \in JobRecord /\ j \in Job
      OBVIOUS
    <2>2. /\ Reported(jobs[j], "RUNNING").target = jobs[j].target
          /\ Reported(jobs[j], "RUNNING").plan
          /\ Reported(jobs[j], "RUNNING").status \in Active
      BY <2>1, RecordKeeps
    <2>3. EndRecorded' /\ NotPlannedYet' /\ toRecord \subseteq DOMAIN jobs
      BY <1>2 DEF HistoryInv, Recorded
    <2> QED
      BY <1>2, <2>1, <2>2, <2>3, OneChanges
  <1> QED
    BY <1>1, <1>2 DEF StopSteps

\* The ways a step or its recovery ends.
LEMMA EndsRecords ==
  ASSUME IInv, HistoryInv,
         Aborted \/ \E j \in Job : Succeed(j) \/ StepFails(j) \/ EndRecovery(j)
  PROVE  HistoryInv'
  <1>1. CASE Aborted
    <2>1. todo = <<"aborted">> /\ self \in controllers /\ up
      BY <1>1, Rests DEF Aborted, Doing
    <2>2. up'
      BY <1>1, <2>1 DEF Aborted, StopSteps, Conclude
    <2> QED
      BY <1>1, <2>1, <2>2, StopStepsRecords DEF Aborted
  <1>2. ASSUME NEW j \in Job, Succeed(j) PROVE HistoryInv'
    <2>1. j \in controllers /\ up /\ todo = << >> /\ up'
      BY <1>2 DEF Succeed, Idle, Conclude
    <2> QED
      BY <1>2, <2>1, ConcludeRecords DEF Succeed
  <1>3. ASSUME NEW j \in Job, StepFails(j) PROVE HistoryInv'
    <2>1. j \in controllers /\ up /\ todo = << >> /\ up'
      BY <1>3 DEF StepFails, Idle, StopSteps, Conclude
    <2> QED
      BY <1>3, <2>1, StopStepsRecords DEF StepFails
  <1>4. ASSUME NEW j \in Job, EndRecovery(j) PROVE HistoryInv'
    <2>1. j \in controllers /\ up /\ todo = << >> /\ up' /\ result[j] \in Outcomes
      BY <1>4 DEF EndRecovery, Idle, Conclude
    <2> QED
      BY <1>4, <2>1, ConcludeRecords DEF EndRecovery
  <1> QED
    BY <1>1, <1>2, <1>3, <1>4

\* appendReleaseHistory.
LEMMA AppendHistoryRecords ==
  ASSUME IInv, HistoryInv, AppendHistory
  PROVE  HistoryInv'
  <1>1. todo = <<"append", "diagnose">> /\ todo' = <<"diagnose">>
    <2>1. todo = <<"append", "diagnose">>
      BY Rests DEF AppendHistory
    <2> QED
      BY <2>1 DEF AppendHistory, Then
  <1>2. /\ self \in Job /\ result[self] \in Outcomes
        /\ history' = <<[job |-> self, status |-> result[self]]>> \o history
        /\ history \in Seq(Entry)
    BY <1>1 DEF AppendHistory, HistoryInv
  <1>4. UNCHANGED <<up, self, toRecord, jobs, exec, store, torn>>
    BY DEF AppendHistory
  <1>3. /\ history' \in Seq(Entry) /\ Recorded(self)'
        /\ \A j \in Job : Recorded(j) => Recorded(j)'
    <2>1. PICK k \in Job : k = self
      BY <1>2
    <2>2. history' = <<[job |-> k, status |-> result[k]]>> \o history
      BY <1>2, <2>1
    <2>3. Recorded(k)' /\ history' \in Seq(Entry) /\ \A j \in Job : Recorded(j) => Recorded(j)'
      BY <1>2, <2>1, <2>2, Prepended
    <2> QED
      BY <1>4, <2>1, <2>3 DEF Recorded
  <1>5. EmptyStore' /\ StoreAgrees'
    BY <1>1, <1>4 DEF HistoryInv, EmptyStore, StoreAgrees
  <1>6. StoredOrDue'
    BY <1>3, <1>4 DEF HistoryInv, StoredOrDue, Owed
  <1>7. EndRecorded' /\ NotPlannedYet'
    <2>1. \A j \in Job : exec'[j] = "diagnosis" => Recorded(j)'
      BY <1>3, <1>4 DEF HistoryInv
    <2>2. todo' \notin {<<"update", "finish">>, <<"finish">>} \cup Launching
      BY <1>1
    <2> QED
      BY <1>3, <2>1, <2>2
  <1> QED
    BY <1>3, <1>4, <1>5, <1>6, <1>7 DEF HistoryInv

\* The diagnosis: its entry is in the history before it is asked for.
LEMMA DiagnosisRecords ==
  ASSUME IInv, HistoryInv, Diagnose \/ UpdateHistory \/ \E j \in Job : EndDiagnosis(j)
  PROVE  HistoryInv'
  <1>1. UNCHANGED <<up, toRecord, jobs, history, store, torn>>
    BY DEF Diagnose, UpdateHistory, EndDiagnosis
  <1>2. CASE Diagnose
    <2>1. todo = <<"diagnose">> /\ up /\ self' = self
      BY <1>2, Rests DEF Diagnose, Doing
    <2>2. \/ todo' = <<"update", "finish">> /\ UNCHANGED exec
          \/ todo' = << >> /\ exec' = [exec EXCEPT ![self] = "diagnosis"]
      BY <1>2, <2>1 DEF Diagnose, Then
    <2>3. EndRecorded' /\ NotPlannedYet'
      BY <1>1, <2>1, <2>2 DEF HistoryInv, Recorded
    <2> QED
      BY <1>1, <2>1, <2>2, <2>3, Plain
  <1>3. CASE UpdateHistory
    <2>1. todo = <<"update", "finish">> /\ up
      BY <1>3, Rests DEF UpdateHistory, Doing
    <2>2. todo' = <<"finish">> /\ UNCHANGED <<self, exec>>
      BY <1>3, <2>1 DEF UpdateHistory, Then
    <2>3. EndRecorded' /\ NotPlannedYet'
      BY <1>1, <2>1, <2>2 DEF HistoryInv, Recorded
    <2> QED
      BY <1>1, <2>1, <2>2, <2>3, Plain
  <1>4. ASSUME NEW j \in Job, EndDiagnosis(j) PROVE HistoryInv'
    <2>1. /\ up /\ exec[j] = "diagnosis" /\ todo' = <<"update", "finish">>
          /\ self' = j /\ exec' = [exec EXCEPT ![j] = "none"]
      BY <1>4 DEF EndDiagnosis, Idle
    <2>2. EndRecorded' /\ NotPlannedYet'
      BY <1>1, <2>1 DEF HistoryInv, Recorded
    <2> QED
      BY <1>1, <2>1, <2>2, Plain
  <1> QED
    BY <1>2, <1>3, <1>4

\* Finish: a release that the store names with its plan has its entry by now.
LEMMA FinishRecords ==
  ASSUME IInv, HistoryInv, Finish
  PROVE  HistoryInv'
  <1>1. /\ up /\ up' /\ todo = <<"finish">> /\ todo' = <<"persist", "unlink", "rmdir">>
        /\ self \in DOMAIN jobs /\ jobs[self] \in JobRecord /\ result[self] \in Outcomes
    <2>1. todo = <<"finish">>
      BY Rests DEF Finish
    <2> QED
      BY <2>1 DEF Finish, Then, Doing, AfterFinish
  <1>2. /\ jobs' = [jobs EXCEPT ![self] = [jobs[self] EXCEPT !.status = result[self]]]
        /\ UNCHANGED <<self, exec, toRecord, history, store, torn>>
    BY DEF Finish
  <1>3. /\ [jobs[self] EXCEPT !.status = result[self]].target = jobs[self].target
        /\ [jobs[self] EXCEPT !.status = result[self]].plan = jobs[self].plan
    BY <1>1, RecordKeeps
  <1>4. Owed(self) => Recorded(self)
    BY <1>1 DEF HistoryInv, StoreAgrees, Owed
  <1>5. EndRecorded' /\ NotPlannedYet' /\ toRecord \subseteq DOMAIN jobs
    BY <1>1, <1>2 DEF HistoryInv, Recorded
  <1> HIDE DEF IInv, EndRecorded, NotPlannedYet
  <1> QED
    BY <1>1, <1>2, <1>3, <1>4, <1>5, OneChanges

\* Callbacks about the lock and the version only.
LEMMA AsideRecords ==
  ASSUME IInv, HistoryInv,
         UnlinkOwner \/ RemoveLock \/ FlushTimer \/ CheckVersion \/ RestartTimer
  PROVE  HistoryInv'
  <1>1. up /\ up' /\ UNCHANGED <<self, exec, jobs, toRecord, history, store, torn>>
    BY DEF UnlinkOwner, RemoveLock, FlushTimer, CheckVersion, RestartTimer, Doing, Idle
  <1>2. todo' \in {<< >>, <<"persist">>, <<"rmdir">>}
    <2>1. CASE UnlinkOwner
      <3>1. todo = <<"unlink", "rmdir">>
        BY <2>1, Rests DEF UnlinkOwner
      <3> QED
        BY <2>1, <3>1 DEF UnlinkOwner, Then
    <2>2. CASE RemoveLock
      <3>1. todo = <<"rmdir">>
        BY <2>2, Rests DEF RemoveLock
      <3> QED
        BY <2>2, <3>1 DEF RemoveLock, Then
    <2> QED
      BY <2>1, <2>2 DEF FlushTimer, CheckVersion, RestartTimer, Idle
  <1>3. EndRecorded' /\ NotPlannedYet'
    BY <1>1, <1>2, NothingEnds
  <1> QED
    BY <1>1, <1>2, <1>3, Plain

\* What happens beside the service, while it runs or is down.
LEMMA BesideRecords ==
  ASSUME HistoryInv,
         Commit \/ Edit \/ UpdateBegins \/ UpdateEnds \/ OperatorClears \/ UNCHANGED vars
  PROVE  HistoryInv'
  <1>1. UNCHANGED <<up, todo, self, exec, jobs, toRecord, history, store, torn>>
    BY DEF Commit, Edit, UpdateBegins, UpdateEnds, OperatorClears, vars
  <1> QED
    BY <1>1 DEF HistoryInv, EmptyStore, StoredOrDue, StoreAgrees, Owed, Recorded

\* executePlan's reports, a cancellation and the start of a rollback.
LEMMA ReportRecords ==
  ASSUME IInv, HistoryInv,
         \E j \in Job : Proceed(j) \/ Cancel(j) \/ StartRollback(j)
  PROVE  HistoryInv'
  <1>1. toRecord \subseteq DOMAIN jobs
    BY DEF HistoryInv
  <1>2. ASSUME NEW j \in Job, Proceed(j) PROVE HistoryInv'
    <2>1. j \in DOMAIN jobs /\ jobs[j] \in JobRecord /\ up /\ up'
      BY <1>2 DEF Proceed, Idle
    <2>2. PICK r \in StepReports(jobs[j]) : jobs' = [jobs EXCEPT ![j] = r]
      BY <1>2 DEF Proceed
    <2>3. /\ UNCHANGED <<self, exec, toRecord, history, store, torn>>
          /\ todo' \in {<< >>, <<"persist">>}
      BY <1>2 DEF Proceed, Idle
    <2>4. r.target = jobs[j].target /\ r.plan /\ r.status \in Active
      BY <2>1, <2>2, ReportsKeep
    <2>5. todo' \notin Fresh \cup {<<"diagnose">>, <<"update", "finish">>, <<"finish">>,
                                  <<"persist", "start">>, <<"start">>}
      BY <2>3
    <2> HIDE DEF IInv, EndRecorded, NotPlannedYet
    <2>6. EndRecorded' /\ NotPlannedYet'
      BY <2>3, <2>5, NothingEnds
    <2> QED
      BY <1>1, <2>1, <2>2, <2>3, <2>4, <2>5, <2>6, OneChanges
  <1>3. ASSUME NEW j \in Job, Cancel(j) PROVE HistoryInv'
    <2>1. j \in DOMAIN jobs /\ jobs[j] \in JobRecord /\ up /\ up'
      BY <1>3 DEF Cancel, Idle
    <2>2. jobs' = [jobs EXCEPT ![j] = [jobs[j] EXCEPT !.status = "CANCELLING"]]
      BY <1>3 DEF Cancel
    <2>3. /\ UNCHANGED <<exec, toRecord, history, store, torn>>
          /\ todo' \in {<<"persist", "aborted">>, <<"persist">>}
      BY <1>3 DEF Cancel, AfterCancel
    <2>4. /\ [jobs[j] EXCEPT !.status = "CANCELLING"].target = jobs[j].target
          /\ [jobs[j] EXCEPT !.status = "CANCELLING"].plan = jobs[j].plan
          /\ [jobs[j] EXCEPT !.status = "CANCELLING"].status \in Active
      BY <2>1, RecordKeeps
    <2>5. todo' \notin Fresh \cup {<<"diagnose">>, <<"update", "finish">>, <<"finish">>,
                                  <<"persist", "start">>, <<"start">>}
      BY <2>3
    <2> HIDE DEF IInv, EndRecorded, NotPlannedYet
    <2>6. EndRecorded' /\ NotPlannedYet'
      BY <2>3, <2>5, NothingEnds
    <2>7. PICK r : r = [jobs[j] EXCEPT !.status = "CANCELLING"]
      OBVIOUS
    <2> QED
      BY <1>1, <2>1, <2>2, <2>3, <2>4, <2>5, <2>6, <2>7, OneChanges
  <1>4. ASSUME NEW j \in Job, StartRollback(j) PROVE HistoryInv'
    <2>1. j \in DOMAIN jobs /\ jobs[j] \in JobRecord /\ up /\ up' /\ todo' = << >>
      BY <1>4 DEF StartRollback, Idle
    <2>2. jobs' = [jobs EXCEPT ![j] = Reported(jobs[j], "RECOVERING")]
      BY <1>4 DEF StartRollback
    <2>3. UNCHANGED <<self, exec, toRecord, history, store, torn>>
      BY <1>4 DEF StartRollback
    <2>4. /\ Reported(jobs[j], "RECOVERING").target = jobs[j].target
          /\ Reported(jobs[j], "RECOVERING").plan
          /\ Reported(jobs[j], "RECOVERING").status \in Active
      BY <2>1, RecordKeeps
    <2>5. EndRecorded' /\ NotPlannedYet'
      BY <2>1, <2>3, NothingEnds
    <2> HIDE DEF IInv, EndRecorded, NotPlannedYet
    <2> QED
      BY <1>1, <2>1, <2>2, <2>3, <2>4, <2>5, OneChanges
  <1> QED
    BY <1>2, <1>3, <1>4

\* The Meelok recoveries return: one of a release, one of a restart.
LEMMA RestoreRecords ==
  ASSUME IInv, HistoryInv, \E j \in Job : EndRestore(j) \/ EndBootRestore(j)
  PROVE  HistoryInv'
  <1>1. toRecord \subseteq DOMAIN jobs
    BY DEF HistoryInv
  <1>2. ASSUME NEW j \in Job, EndRestore(j) PROVE HistoryInv'
    <2>1. /\ j \in DOMAIN jobs /\ jobs[j] \in JobRecord /\ up /\ up'
          /\ jobs[j].status \in Active /\ todo' = <<"append", "diagnose">> /\ self' = j
      BY <1>2 DEF EndRestore, Idle
    <2>2. PICK m \in {"restored", "unknown"} :
            jobs' = [jobs EXCEPT ![j] = [jobs[j] EXCEPT !.meelok = m]]
      BY <1>2 DEF EndRestore
    <2>3. /\ exec' = [exec EXCEPT ![j] = "none"]
          /\ UNCHANGED <<toRecord, history, store, torn>>
      BY <1>2 DEF EndRestore
    <2>4. /\ [jobs[j] EXCEPT !.meelok = m].target = jobs[j].target
          /\ [jobs[j] EXCEPT !.meelok = m].plan = jobs[j].plan
          /\ [jobs[j] EXCEPT !.meelok = m].status = jobs[j].status
      BY <2>1, RecordKeeps
    <2>5. EndRecorded' /\ NotPlannedYet'
      BY <2>1, <2>3, NothingEnds
    <2> HIDE DEF IInv, EndRecorded, NotPlannedYet
    <2> QED
      BY <1>1, <2>1, <2>2, <2>3, <2>4, <2>5, OneChanges
  <1>3. ASSUME NEW j \in Job, EndBootRestore(j) PROVE HistoryInv'
    <2>1. /\ j \in DOMAIN jobs /\ jobs[j] \in JobRecord /\ up /\ up' /\ toRecord = {}
          /\ toRecord' = {j} /\ todo' = <<"record", "persist">>
      <3>1. j \in DOMAIN jobs /\ up /\ up' /\ todo = << >>
        BY <1>3 DEF EndBootRestore, Idle, RecoversAlone
      <3>2. toRecord = {}
        BY <3>1
      <3> QED
        BY <1>3, <3>1, <3>2 DEF EndBootRestore
    <2>2. PICK m \in {"restored", "unknown"} :
            jobs' = [jobs EXCEPT ![j].meelok = m, ![j].status = result[j]]
      BY <1>3 DEF EndBootRestore
    <2>3. /\ exec' = [exec EXCEPT ![j] = "none"]
          /\ UNCHANGED <<self, history, store, torn>>
      BY <1>3 DEF EndBootRestore
    <2>4. /\ [jobs[j] EXCEPT !.meelok = m, !.status = result[j]].target = jobs[j].target
          /\ [jobs[j] EXCEPT !.meelok = m, !.status = result[j]].plan = jobs[j].plan
      BY <2>1, RecordKeeps
    <2>5. EndRecorded' /\ NotPlannedYet'
      BY <2>1, <2>3, NothingEnds
    <2>6. /\ DOMAIN jobs' = DOMAIN jobs
          /\ jobs'[j] = [jobs[j] EXCEPT !.meelok = m, !.status = result[j]]
          /\ \A i \in DOMAIN jobs : i # j => jobs'[i] = jobs[i]
      BY <2>1, <2>2
    <2>7. \A i \in DOMAIN jobs :
            /\ jobs'[i].target = jobs[i].target /\ (jobs[i].plan => jobs'[i].plan)
            /\ jobs[i].status \in Active => jobs'[i].status \in Active \/ i \in toRecord'
      BY <2>1, <2>4, <2>6
    <2> HIDE DEF IInv, EndRecorded, NotPlannedYet
    <2> QED
      BY <2>1, <2>3, <2>5, <2>6, <2>7, FilesStay
  <1> QED
    BY <1>2, <1>3

\* interruptRunningJobs: what has a plan is to be recorded.
LEMMA SignalRecords ==
  ASSUME IInv, HistoryInv, Signal
  PROVE  HistoryInv'
  <1>1. /\ up /\ up' /\ todo = << >> /\ todo' = <<"record", "persist", "exit">>
        /\ UNCHANGED <<self, exec, history, store, torn>>
    BY DEF Signal, Idle, AfterSignal
  <1> DEFINE S == {j \in DOMAIN jobs : jobs[j].status \in {"RUNNING", "CANCELLING"}}
  <1>2. /\ jobs' = [j \in DOMAIN jobs |-> IF j \in S THEN Interrupted(jobs[j]) ELSE jobs[j]]
        /\ toRecord' = {j \in S : jobs[j].plan}
    BY DEF Signal
  <1>3. toRecord = {} /\ toRecord' \subseteq DOMAIN jobs
    BY <1>1, <1>2
  <1>4. DOMAIN jobs' = DOMAIN jobs
    BY <1>2
  <1>5. ASSUME NEW j \in DOMAIN jobs
        PROVE  /\ jobs'[j].target = jobs[j].target /\ jobs'[j].plan = jobs[j].plan
               /\ jobs[j].status \in Active /\ Owed(j)
                    => jobs'[j].status \in Active \/ j \in toRecord'
    <2>1. jobs[j] \in JobRecord
      OBVIOUS
    <2>2. CASE j \in S
      <3>1. jobs'[j] = Interrupted(jobs[j])
        BY <1>2, <2>2
      <3>2. Owed(j) => jobs[j].plan
        BY <1>1 DEF HistoryInv, StoreAgrees, Owed
      <3> QED
        BY <1>2, <2>1, <2>2, <3>1, <3>2, RecordKeeps
    <2>3. CASE j \notin S
      BY <1>2, <2>3
    <2> QED
      BY <2>2, <2>3
  <1>6. EndRecorded' /\ NotPlannedYet'
    BY <1>1 DEF HistoryInv, Recorded
  <1> QED
    BY <1>1, <1>3, <1>4, <1>5, <1>6, FilesStay

\* appendInterruptedJobHistory, one job at a time.
LEMMA RecordRecords ==
  ASSUME IInv, HistoryInv, Record
  PROVE  HistoryInv'
  <1>1. /\ up /\ up' /\ UNCHANGED <<self, jobs, exec, store, torn>>
        /\ todo \in {<<"record", "persist", "exit">>, <<"record", "persist">>}
    BY Rests DEF Record, Doing
  <1>2. CASE toRecord = {}
    <2>1. todo' = << >> \o Tail(todo) /\ toRecord' = {} /\ UNCHANGED history
      BY <1>2 DEF Record, Then
    <2>2. todo' \in {<<"persist", "exit">>, <<"persist">>}
      <3>1. CASE todo = <<"record", "persist", "exit">>
        BY <2>1, <3>1
      <3>2. CASE todo = <<"record", "persist">>
        BY <2>1, <3>2
      <3> QED
        BY <1>1, <3>1, <3>2
    <2>3. EndRecorded' /\ NotPlannedYet'
      BY <1>1, <2>1, <2>2, NothingEnds
    <2> QED
      BY <1>1, <1>2, <2>1, <2>2, <2>3, Plain
  <1>3. CASE toRecord # {}
    <2>1. PICK k \in toRecord :
            /\ history' = <<[job |-> k, status |-> jobs[k].status]>> \o history
            /\ toRecord' = toRecord \ {k} /\ UNCHANGED todo
      BY <1>3, Zenon DEF Record
    <2>2. k \in Job /\ jobs[k].status \in Active \cup Outcomes
      <3>1. k \in DOMAIN jobs /\ jobs[k] \in JobRecord
        BY DEF HistoryInv
      <3> QED
        BY <3>1 DEF JobRecord
    <2>3. history \in Seq(Entry)
      BY DEF HistoryInv
    <2>4. /\ history' \in Seq(Entry) /\ Recorded(k)'
          /\ \A j \in Job : Recorded(j) => Recorded(j)'
      BY <2>1, <2>2, <2>3, Prepended
    <2>5. StoredOrDue'
      BY <1>1, <2>1, <2>4 DEF HistoryInv, StoredOrDue, Owed
    <2>6. EmptyStore' /\ StoreAgrees'
      BY <1>1, <2>1 DEF HistoryInv, EmptyStore, StoreAgrees
    <2>7. EndRecorded' /\ NotPlannedYet'
      <3>1. \A j \in Job : exec'[j] = "diagnosis" => Recorded(j)'
        BY <1>1, <2>4 DEF HistoryInv
      <3> QED
        BY <1>1, <2>1, <3>1
    <2> QED
      BY <1>1, <2>1, <2>4, <2>5, <2>6, <2>7 DEF HistoryInv
  <1> QED
    BY <1>2, <1>3

\* The process is gone, by its own exit or in the middle of a write.
LEMMA StopRecords ==
  ASSUME HistoryInv, Exit \/ RestartExit \/ Crash
  PROVE  HistoryInv'
  <1>1. history \in Seq(Entry) /\ (torn => DOMAIN store = {})
    BY DEF HistoryInv, EmptyStore
  <1>2. << >> \in Seq(Entry)
    OBVIOUS
  <1>3. CASE Exit \/ RestartExit
    BY <1>1, <1>3, DownRecords DEF Exit, RestartExit
  <1>4. CASE Crash
    <2>1. \/ UNCHANGED <<store, torn, history>>
          \/ store' = << >> /\ UNCHANGED history
          \/ history' = << >> /\ UNCHANGED <<store, torn>>
      BY <1>4 DEF Crash
    <2>2. history' \in Seq(Entry)
      BY <1>1, <1>2, <2>1
    <2>3. torn' => DOMAIN store' = {}
      BY <1>1, <2>1, Empty
    <2> QED
      BY <1>4, <2>2, <2>3, DownRecords DEF Crash
  <1> QED
    BY <1>3, <1>4

\* loadStoredJobs: what is stored with a plan recovers or is to be recorded.
LEMMA BootRecords ==
  ASSUME IInv, HistoryInv, Boot
  PROVE  HistoryInv'
  <1>1. /\ up' /\ todo = << >> /\ DOMAIN jobs = {} /\ toRecord = {} /\ exec = NoExec
        /\ UNCHANGED <<self, history, store, torn>>
    BY DEF Boot
  <1>2. CASE torn
    <2>1. DOMAIN store = {} /\ UNCHANGED <<todo, toRecord, jobs, exec>>
      BY <1>2 DEF HistoryInv, EmptyStore, Boot
    <2>2. EndRecorded' /\ NotPlannedYet'
      BY <1>1, <2>1
    <2> QED
      BY <1>1, <2>1, <2>2 DEF HistoryInv, EmptyStore, StoredOrDue, StoreAgrees
  <1>3. CASE ~torn
    <2> DEFINE M == {j \in DOMAIN store : NeedsMeelokRecovery(store[j])}
    <2>1. /\ jobs' = [j \in DOMAIN store |->
                        IF j \in M THEN [store[j] EXCEPT !.status = "RECOVERING"]
                        ELSE Interrupted(store[j])]
          /\ exec' = [j \in Job |-> IF j \in M THEN "bootrestore" ELSE "none"]
          /\ toRecord' = {j \in DOMAIN store \ M : store[j].plan}
          /\ todo' = <<"record", "persist">>
      BY <1>3 DEF Boot
    <2>2. ASSUME NEW j \in DOMAIN store
          PROVE  /\ j \in DOMAIN jobs' /\ jobs'[j].target = store[j].target
                 /\ jobs'[j].plan = store[j].plan
                 /\ store[j].plan => jobs'[j].status \in Active \/ j \in toRecord'
      <3>1. store[j] \in JobRecord
        OBVIOUS
      <3>2. CASE j \in M
        <4>1. jobs'[j] = [store[j] EXCEPT !.status = "RECOVERING"] /\ j \in DOMAIN jobs'
          BY <2>1, <3>2
        <4> QED
          BY <3>1, <4>1, RecordKeeps
      <3>3. CASE j \notin M
        <4>1. jobs'[j] = Interrupted(store[j]) /\ j \in DOMAIN jobs'
          BY <2>1, <3>3
        <4> QED
          BY <2>1, <3>1, <3>3, <4>1, RecordKeeps
      <3> QED
        BY <3>2, <3>3
    <2>3. EmptyStore' /\ StoredOrDue' /\ StoreAgrees'
      BY <1>1, <1>3, <2>1, <2>2 DEF EmptyStore, StoredOrDue, StoreAgrees, Owed
    <2>4. EndRecorded' /\ NotPlannedYet' /\ toRecord' \subseteq DOMAIN jobs'
      BY <2>1
    <2> QED
      BY <1>1, <2>3, <2>4 DEF HistoryInv
  <1> QED
    BY <1>2, <1>3

\* Every step of the service and of what is beside it.
LEMMA NextHistoryInv == IInv /\ HistoryInv /\ [Next]_vars => HistoryInv'
  <1> SUFFICES ASSUME IInv, HistoryInv, [Next]_vars PROVE HistoryInv'
    OBVIOUS
  <1>1. CASE Callback
    BY <1>1, WriteOwnerRecords, RegisterRecords, PersistRecords, StartFailsRecords, StartRecords,
       EndsRecords, AppendHistoryRecords, DiagnosisRecords, FinishRecords, AsideRecords,
       RecordRecords, StopRecords DEF Callback
  <1>2. CASE \E j \in Job : Proceed(j) \/ Cancel(j) \/ StartRollback(j)
    BY <1>2, ReportRecords
  <1>3. CASE \E j \in Job : Succeed(j) \/ StepFails(j) \/ EndRecovery(j)
    BY <1>3, EndsRecords
  <1>4. CASE \E j \in Job : EndRestore(j) \/ EndBootRestore(j)
    BY <1>4, RestoreRecords
  <1>5. CASE \E j \in Job : EndDiagnosis(j)
    BY <1>5, DiagnosisRecords
  <1>6. CASE Execute \/ FlushTimer \/ CheckVersion \/ RestartTimer
    BY <1>6, ExecuteRecords, AsideRecords
  <1>7. CASE Crash \/ RestartExit \/ Signal \/ Boot
    BY <1>7, StopRecords, SignalRecords, BootRecords
  <1>8. CASE Commit \/ Edit \/ UpdateBegins \/ UpdateEnds \/ OperatorClears \/ UNCHANGED vars
    BY <1>8, BesideRecords
  <1> QED
    BY <1>1, <1>2, <1>3, <1>4, <1>5, <1>6, <1>7, <1>8 DEF Next

\* Only persistJobs and a death inside it change the store.
LEMMA StoreChanges ==
  ASSUME IInv, HistoryInv, [Next]_vars, store' # store, NEW j \in DOMAIN store, Owed(j)
  PROVE  torn' \/ j \in DOMAIN store' \/ Recorded(j)
  <1>1. Persist \/ Crash
    BY DEF Next, vars, Callback, Execute, WriteOwner, Register, StartFails, Start, Aborted,
       StopSteps, Conclude, AppendHistory, Diagnose, UpdateHistory, Finish, UnlinkOwner,
       RemoveLock, Record, Exit, Proceed, Succeed, StepFails, Cancel, StartRollback, EndRecovery,
       EndRestore, EndDiagnosis, EndBootRestore, FlushTimer, Signal, Boot, CheckVersion,
       RestartTimer, RestartExit, Commit, Edit, UpdateBegins, UpdateEnds, OperatorClears, Stop
  <1>2. CASE Crash
    BY <1>2 DEF Crash
  <1>3. CASE Persist
    <2>1. up /\ toRecord = {}
      BY <1>3, Rests DEF Persist, Doing
    <2>2. (j \in DOMAIN jobs /\ jobs[j].status \in Active) \/ Recorded(j)
      BY <2>1 DEF HistoryInv, StoredOrDue
    <2> QED
      BY <1>3, <2>2 DEF Persist, Persisted, Restrict
  <1> QED
    BY <1>1, <1>2, <1>3

HIDE DEF IInv, TypeInv, DownInv, JobInv, LockHeld, Controlled, ActiveRuns, OutcomeKnown, StageInv,
         version, work, records, tally, Fresh, Launching, Cancelling, Ending, Closing, Leaving,
         Resting, Unwritten, NoExec, ExecStages, Active, Outcomes, EndRecorded, NotPlannedYet

(* What the store names with a plan is active, due to be recorded or in the history.  *)
THEOREM HistoryHolds == Spec => []HistoryInv
  BY InitIInv, NextIInv, InitHistoryInv, NextHistoryInv, InvHolds, PTL DEF Spec

(* appendReleaseHistory before executePlan returns, appendInterruptedJobHistory       *)
(* before persistJobs: no release leaves the store without its entry.                 *)
THEOREM NothingForgotten == Spec => RecordedBeforeForgotten
  <1> DEFINE Entered ==
        \A j \in DOMAIN store :
          store[j].plan /\ store[j].target # "dry" /\ store' # store
          => torn' \/ j \in DOMAIN store' \/ \E i \in DOMAIN history : history[i].job = j
  <1>1. IInv /\ HistoryInv /\ [Next]_vars => [Entered]_vars
    BY StoreChanges DEF Owed, Recorded
  <1> QED
    BY <1>1, InvHolds, HistoryHolds, PTL DEF Spec, RecordedBeforeForgotten
================================================================================
