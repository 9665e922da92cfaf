---------------------------- MODULE PublisherServer ----------------------------
(***************************************************************************)
(* The release console server (server.js): its jobs, the running           *)
(* executePlan, the job store, the release history, the operation lock and *)
(* the version monitor, across crashes, signals and restarts.              *)
(*                                                                         *)
(* Node runs one callback at a time.  A callback that makes one change is  *)
(* one action.  A callback that writes several files leaves the rest of    *)
(* its work in todo, in order; nothing else runs until todo is empty, but  *)
(* the process may die between any two of its writes, or inside one.       *)
(*                                                                         *)
(* executePlan is seen here by what it reports: progress and, in the end,  *)
(* one outcome.  ReleaseExecutor.tla opens it up.                          *)
(***************************************************************************)
EXTENDS Naturals, Sequences, FiniteSets, Functions

CONSTANTS MaxJobs,     \* bound: jobs ever created
          MaxCrashes,  \* bound: crashes and signals
          MaxCommits,  \* bound: commits of the publisher's repository after the first
          KeepJobs,    \* pruneJobs keeps this many jobs (20 in the code)
          None,        \* no job
          Updater,     \* the update script, as owner of the lock
          Unowned      \* a lock directory without a readable owner.json

Job == 1..MaxJobs  \* in the order of their creation

ASSUME ServerAssumption ==
  /\ MaxJobs \in Nat /\ MaxCrashes \in Nat /\ MaxCommits \in Nat
  /\ KeepJobs \in Nat \ {0}
  /\ {None, Updater, Unowned} \cap Job = {}

Targets == {"game", "forum", "dry"}  \* dry: a rehearsal, of either target
Active == {"RUNNING", "CANCELLING", "RECOVERING"}  \* ACTIVE_JOB_STATUSES
VARIABLES
  \* the process, lost when it dies
  up,          \* the process runs
  todo,        \* what the current callback still has to do
  self,        \* the job that callback is about
  toRecord,    \* interrupted jobs that callback still writes to the history
  jobs,        \* the jobs map
  controllers, \* the jobs with an entry in jobControllers
  exec,        \* what each job's executePlan (or Meelok recovery) waits for
  result,      \* the outcome executePlan will return, None: not decided
  timer,       \* persistJobsTimer is set
  restart,     \* publisherRestartPending and what it waits for
  runtime,     \* [commit, dirty] captured when the process started
  \* files
  store,       \* .release-jobs.json
  torn,        \* .release-jobs.json does not parse
  history,     \* .release-history.json, newest first; << >> also when unreadable
  lock,        \* owner of the operation lock: None, a job, Updater or Unowned
  repo,        \* [commit, dirty] of the repository
  \* the model's own
  created, crashes, \* counters for the bounds
  passed       \* jobs that changed production beyond an automatic way back

version == <<up, restart, runtime>>
work == <<todo, self, toRecord, jobs, controllers, exec, result, timer>>
records == <<store, torn, history>>
tally == <<created, crashes, passed>>
vars == <<version, work, records, lock, repo, tally>>

ExecStages == {"none",
               "steps",       \* a plan step; its command can be aborted
               "recovery",    \* compensation, rollback decision or rollback; not abortable
               "restore",     \* restoreMeelokAfterControlledExit
               "diagnosis",   \* the semantic diagnosis request
               "bootrestore"} \* recoverInterruptedMeelok

NoExec == [j \in Job |-> "none"]
NoResult == [j \in Job |-> None]

(***************************************************************************)
(* Definitions named Slip... are plausible mistakes in the definition that *)
(* follows them.  No specification uses them; PROJECT.json pairs each with *)
(* the property that must expose it.                                       *)
(***************************************************************************)
\* Only jobs with a controller count: a Meelok recovery after a restart has none.
SlipBusy == controllers # {}

\* hasActivePublisherJobs, publisherActivity
Busy == controllers # {} \/ \E j \in DOMAIN jobs : jobs[j].status \in Active

\* comparePublisherVersions
VersionStatus ==
  IF runtime.dirty \/ repo.dirty THEN "UNCOMMITTED_CHANGES"
  ELSE IF runtime.commit # repo.commit THEN "RESTART_REQUIRED" ELSE "UP_TO_DATE"

\* assertNoPublisherUpdate
NoUpdate == lock \notin {Updater, Unowned}

\* The event loop may run a callback.
Idle == up /\ todo = << >>

\* A job that is being cancelled or recovers is not stored.
SlipPersisted == Restrict(jobs, {j \in DOMAIN jobs : jobs[j].status = "RUNNING"})

\* selectPersistedJobs
Persisted == Restrict(jobs, {j \in DOMAIN jobs : jobs[j].status \in Active})

\* needsMeelokRecovery
NeedsMeelokRecovery(r) == r.target = "game" /\ r.plan /\ r.meelok \in {"paused", "unknown"}

\* markInterruptedJob
Interrupted(r) ==
  [r EXCEPT !.status = IF r.boundary \/ r.stage = "committed"
                       THEN "RECOVERY_REQUIRED" ELSE "INTERRUPTED"]

Init ==
  /\ up = TRUE /\ todo = << >> /\ self = None /\ toRecord = {}
  /\ jobs = << >> /\ controllers = {} /\ exec = NoExec /\ result = NoResult
  /\ timer = FALSE /\ restart = "none"
  /\ runtime = [commit |-> 0, dirty |-> FALSE]
  /\ store = << >> /\ torn = FALSE /\ history = << >> /\ lock = None
  /\ repo = [commit |-> 0, dirty |-> FALSE]
  /\ created = 0 /\ crashes = 0 /\ passed = {}

--------------------------------------------------------------------------------
(***************************************************************************)
(* The rest of the current callback.                                       *)
(***************************************************************************)
Then(steps) == todo' = steps \o Tail(todo)
Doing(what) == up /\ todo # << >> /\ Head(todo) = what

\* A pending restart does not refuse new jobs.
SlipActionReady == NoUpdate /\ VersionStatus = "UP_TO_DATE"

\* assertPublisherActionReady
ActionReady == NoUpdate /\ restart = "none" /\ VersionStatus = "UP_TO_DATE"

\* POST /api/execute, up to the mkdir of acquireOperationLock.  Otherwise the
\* request is refused and nothing changes (a restart the check schedules is
\* CheckVersion's).
Execute ==
  /\ Idle
  /\ created < MaxJobs
  /\ ActionReady /\ ~Busy /\ lock = None
  /\ lock' = Unowned
  /\ created' = created + 1
  /\ self' = created + 1
  /\ todo' = <<"owner", "register", "persist", "start">>
  /\ UNCHANGED <<version, toRecord, jobs, controllers, exec, result, timer, records, repo,
                 crashes, passed>>

WriteOwner ==
  /\ Doing("owner")
  /\ lock' = self
  /\ Then(<< >>)
  /\ UNCHANGED <<version, self, toRecord, jobs, controllers, exec, result, timer, records,
                 repo, tally>>

\* plan: a progress report has brought the plan; stage: "local" before
\* update-remote-compose, "compose" from there on, "committed" once cutoverCommitted;
\* boundary: recoveryBoundaryEntered; meelok: its pause and restore steps.
NewJob(target) ==
  [target |-> target, status |-> "RUNNING", plan |-> FALSE, stage |-> "local",
   boundary |-> FALSE, meelok |-> "untouched"]

\* pruneJobs keeps the newest KeepJobs entries, whatever their status.
Kept(js) == {j \in DOMAIN js : Cardinality({k \in DOMAIN js : k > j}) < KeepJobs}

\* createExecutionJob: the job and its controller, and pruneJobs; the two
\* persistJobs calls write the same records, for what is pruned is not active.
Register ==
  /\ Doing("register")
  /\ \E target \in Targets :
       LET js == [j \in DOMAIN jobs \cup {self} |->
                    IF j = self THEN NewJob(target) ELSE jobs[j]]
       IN jobs' = Restrict(js, Kept(js))
  /\ controllers' = controllers \cup {self}
  /\ Then(<< >>)
  /\ UNCHANGED <<version, self, toRecord, exec, result, timer, records, lock, repo, tally>>

Persist ==
  /\ Doing("persist")
  /\ store' = Persisted
  /\ torn' = FALSE
  /\ timer' = FALSE
  /\ Then(<< >>)
  /\ UNCHANGED <<version, self, toRecord, jobs, controllers, exec, result, history, lock,
                 repo, tally>>

\* The worktree or the plan cannot be made, or a dry run has nothing to
\* rehearse: the job ends in the same callback, and nothing is recorded.
StartFails ==
  /\ Doing("start")
  /\ \/ result' = [result EXCEPT ![self] = "ERROR"]
     \/ jobs[self].target = "dry" /\ result' = [result EXCEPT ![self] = "DRY_RUN"]
  /\ Then(<<"finish">>)
  /\ UNCHANGED <<version, self, toRecord, jobs, controllers, exec, timer, records, lock, repo,
                 tally>>

\* The first step runs: executePlan reports the plan and waits for a command.
Start ==
  /\ Doing("start")
  /\ exec' = [exec EXCEPT ![self] = "steps"]
  /\ jobs' = [jobs EXCEPT ![self].plan = TRUE]
  /\ timer' = TRUE
  /\ Then(<< >>)
  /\ UNCHANGED <<version, self, toRecord, controllers, result, records, lock, repo, tally>>

--------------------------------------------------------------------------------
(***************************************************************************)
(* executePlan's reports, through onProgress: the job takes the reported   *)
(* status, also over CANCELLING, and persistJobs is put off by 250 ms.     *)
(***************************************************************************)
Reported(r, status) == [r EXCEPT !.plan = TRUE, !.status = status]

\* What a plan step can report of a job: nothing new, the recovery boundary, the
\* transaction step, the pause of Meelok, the cutover commit and Meelok's restore.
StepReports(r) ==
  {Reported(r, "RUNNING")}
  \cup (IF r.target = "dry" \/ r.boundary \/ r.stage # "local" THEN {}
        ELSE {Reported([r EXCEPT !.boundary = TRUE], "RUNNING")})
  \cup (IF r.target # "game" THEN {}
        ELSE CASE r.stage = "local" -> {Reported([r EXCEPT !.stage = "compose"], "RUNNING")}
               [] r.stage = "compose" /\ r.meelok = "untouched" ->
                    {Reported([r EXCEPT !.stage = "committed"], "RUNNING"),
                     Reported([r EXCEPT !.meelok = "paused"], "RUNNING")}
               [] r.stage = "compose" /\ r.meelok = "paused" ->
                    {Reported([r EXCEPT !.stage = "committed"], "RUNNING")}
               [] r.stage = "committed" /\ r.meelok = "paused" ->
                    {Reported([r EXCEPT !.meelok = m], "RUNNING") : m \in {"restored", "unknown"}}
               [] OTHER -> {})

\* Only the report of the pause is written at once.
Proceed(j) ==
  /\ Idle
  /\ exec[j] = "steps"
  /\ \E r \in StepReports(jobs[j]) :
       /\ jobs' = [jobs EXCEPT ![j] = r]
       /\ passed' = IF r.boundary \/ r.stage = "committed" THEN passed \cup {j} ELSE passed
       /\ IF r.meelok = "paused" /\ jobs[j].meelok = "untouched"
          THEN todo' = <<"persist">> /\ UNCHANGED timer
          ELSE timer' = TRUE /\ UNCHANGED todo
  /\ UNCHANGED <<version, self, toRecord, controllers, exec, result, records, lock, repo,
                 created, crashes>>

\* persistJobsTimer
FlushTimer ==
  /\ Idle
  /\ timer
  /\ todo' = <<"persist">>
  /\ UNCHANGED <<version, self, toRecord, jobs, controllers, exec, result, timer, records,
                 lock, repo, tally>>

\* executePlanSteps has an outcome.  A paused Meelok is restored first: the job
\* reports RECOVERING and waits.  Otherwise executePlan records the outcome; a
\* rehearsal that throws is not recorded.
Conclude(j, outcome) ==
  /\ result' = [result EXCEPT ![j] = outcome]
  /\ self' = j
  /\ IF jobs[j].target = "game" /\ jobs[j].meelok = "paused"
     THEN /\ exec' = [exec EXCEPT ![j] = "restore"]
          /\ jobs' = [jobs EXCEPT ![j] = Reported(jobs[j], "RECOVERING")]
          /\ timer' = TRUE
          /\ todo' = << >>
     ELSE /\ exec' = [exec EXCEPT ![j] = "none"]
          /\ todo' = IF jobs[j].target = "dry" THEN <<"finish">> ELSE <<"append", "diagnose">>
          /\ UNCHANGED <<jobs, timer>>
  /\ UNCHANGED <<version, toRecord, controllers, records, lock, repo, tally>>

\* The last step is done: a game release has restored Meelok by then, or left
\* its outcome unknown.
Succeed(j) ==
  /\ Idle
  /\ exec[j] = "steps"
  /\ jobs[j].target = "game" => jobs[j].stage # "compose" /\ jobs[j].meelok # "paused"
  /\ Conclude(j, IF jobs[j].target = "dry" THEN "DRY_RUN" ELSE "EXECUTED")

Stopped(cancelled) == IF cancelled THEN "CANCELLED" ELSE "ERROR"

\* executePlanSteps' catch, up to its first wait: outcomes returned at once.
ImmediateOutcomes(r, cancelled) ==
  CASE r.target = "dry" -> {"ERROR"}
    [] r.boundary -> {"RECOVERY_REQUIRED"}
    [] r.stage = "committed" -> {"RECOVERY_REQUIRED"}  \* cancelled, or the standby's acceptance
    [] r.stage = "compose" -> {}
    [] OTHER -> {Stopped(cancelled)}

\* Otherwise the transaction is compensated, or a rollback decided on.
MayRecover(r, cancelled) ==
  /\ r.target = "game" /\ ~r.boundary
  /\ r.stage = "compose" \/ (r.stage = "committed" /\ ~cancelled)

StopSteps(j, cancelled) ==
  \/ \E outcome \in ImmediateOutcomes(jobs[j], cancelled) : Conclude(j, outcome)
  \/ /\ MayRecover(jobs[j], cancelled)
     /\ exec' = [exec EXCEPT ![j] = "recovery"]
     /\ jobs' = [jobs EXCEPT ![j] = Reported(jobs[j], "RUNNING")]
     /\ timer' = TRUE
     /\ result' = [result EXCEPT ![j] = Stopped(cancelled)]
     /\ self' = j
     /\ todo' = << >>
     /\ UNCHANGED <<version, toRecord, controllers, records, lock, repo, tally>>

\* A step's command fails or times out.
StepFails(j) ==
  /\ Idle
  /\ exec[j] = "steps"
  /\ StopSteps(j, FALSE)

\* The signal does not reach the running command.
SlipAfterCancel(j) == <<"persist">>

AfterCancel(j) == IF exec[j] = "steps" THEN <<"persist", "aborted">> ELSE <<"persist">>

\* DELETE /api/jobs/<id>, cancelExecutionJob.  The abort kills the running
\* command; executePlan goes on once this callback has answered.  A command
\* that is not abortable goes on as if nothing had happened.
Cancel(j) ==
  /\ Idle
  /\ j \in DOMAIN jobs /\ jobs[j].status = "RUNNING" /\ j \in controllers
  /\ jobs' = [jobs EXCEPT ![j].status = "CANCELLING"]
  /\ self' = j
  /\ todo' = AfterCancel(j)
  /\ UNCHANGED <<version, toRecord, controllers, exec, result, timer, records, lock, repo, tally>>

Aborted == Doing("aborted") /\ StopSteps(self, TRUE)

\* The rollback command starts: executionStatus becomes RECOVERING.
StartRollback(j) ==
  /\ Idle
  /\ exec[j] = "recovery" /\ jobs[j].status # "RECOVERING"
  /\ jobs' = [jobs EXCEPT ![j] = Reported(jobs[j], "RECOVERING")]
  /\ timer' = TRUE
  /\ UNCHANGED <<version, todo, self, toRecord, controllers, exec, result, records, lock,
                 repo, tally>>

\* Compensation confirms that nothing was submitted, a rollback succeeds, or the
\* decision is left to an operator.  Each of the commands has a timeout.
EndRecovery(j) ==
  /\ Idle
  /\ exec[j] = "recovery"
  /\ \/ /\ jobs[j].status # "RECOVERING" /\ jobs[j].stage = "compose"
        /\ Conclude(j, result[j])
     \/ /\ jobs[j].status = "RECOVERING"
        /\ Conclude(j, "ROLLED_BACK")
     \/ Conclude(j, "RECOVERY_REQUIRED")

\* restoreMeelokAfterControlledExit returns; it changes no outcome.
EndRestore(j) ==
  /\ Idle
  /\ exec[j] = "restore"
  /\ \E m \in {"restored", "unknown"} : jobs' = [jobs EXCEPT ![j].meelok = m]
  /\ exec' = [exec EXCEPT ![j] = "none"]
  /\ self' = j
  /\ todo' = <<"append", "diagnose">>
  /\ UNCHANGED <<version, toRecord, controllers, result, timer, records, lock, repo, tally>>

\* appendReleaseHistory, with executePlan's outcome.
AppendHistory ==
  /\ Doing("append")
  /\ history' = <<[job |-> self, status |-> result[self]]>> \o history
  /\ Then(<< >>)
  /\ UNCHANGED <<version, self, toRecord, jobs, controllers, exec, result, timer, store, torn,
                 lock, repo, tally>>

\* addSemanticDiagnosis: nothing to ask, or a request of at most 30 seconds.
Diagnose ==
  /\ Doing("diagnose")
  /\ \/ Then(<<"update", "finish">>) /\ UNCHANGED exec
     \/ Then(<< >>) /\ exec' = [exec EXCEPT ![self] = "diagnosis"]
  /\ UNCHANGED <<version, self, toRecord, jobs, controllers, result, timer, records, lock,
                 repo, tally>>

EndDiagnosis(j) ==
  /\ Idle
  /\ exec[j] = "diagnosis"
  /\ exec' = [exec EXCEPT ![j] = "none"]
  /\ self' = j
  /\ todo' = <<"update", "finish">>
  /\ UNCHANGED <<version, toRecord, jobs, controllers, result, timer, records, lock, repo, tally>>

\* updateHistoryDiagnostics writes the history again, with the diagnosis.
UpdateHistory ==
  /\ Doing("update")
  /\ Then(<< >>)
  /\ UNCHANGED <<version, self, toRecord, jobs, controllers, exec, result, timer, records,
                 lock, repo, tally>>

\* The end of the job is left to the next write of the store.
SlipAfterFinish == <<"unlink", "rmdir">>

AfterFinish == <<"persist", "unlink", "rmdir">>

\* The end of runExecutionJobInIsolatedWorktree: the job takes the outcome and
\* loses its controller; the store is written, then the lock released.
Finish ==
  /\ Doing("finish")
  /\ jobs' = [jobs EXCEPT ![self].status = result[self]]
  /\ controllers' = controllers \ {self}
  /\ result' = [result EXCEPT ![self] = None]
  /\ Then(AfterFinish)
  /\ UNCHANGED <<version, self, toRecord, exec, timer, records, lock, repo, tally>>

UnlinkOwner ==
  /\ Doing("unlink")
  /\ lock = self
  /\ lock' = Unowned
  /\ Then(<< >>)
  /\ UNCHANGED <<version, self, toRecord, jobs, controllers, exec, result, timer, records,
                 repo, tally>>

RemoveLock ==
  /\ Doing("rmdir")
  /\ lock' = None
  /\ Then(<< >>)
  /\ UNCHANGED <<version, self, toRecord, jobs, controllers, exec, result, timer, records,
                 repo, tally>>
--------------------------------------------------------------------------------
(***************************************************************************)
(* The process stops and the watchdog starts it again.                     *)
(***************************************************************************)
Stop ==
  /\ up' = FALSE /\ todo' = << >> /\ self' = None /\ toRecord' = {}
  /\ jobs' = << >> /\ controllers' = {} /\ exec' = NoExec /\ result' = NoResult
  /\ timer' = FALSE /\ restart' = "none"
  /\ UNCHANGED runtime

\* The process dies; a file it was writing may be left half-written.  A history
\* that does not parse reads as one error entry, which the next append drops.
Crash ==
  /\ up
  /\ crashes < MaxCrashes
  /\ crashes' = crashes + 1
  /\ \/ UNCHANGED <<records>>
     \/ Doing("persist") /\ store' = << >> /\ torn' = TRUE /\ UNCHANGED history
     \/ /\ \E w \in {"append", "update", "record"} : Doing(w)
        /\ history' = << >>
        /\ UNCHANGED <<store, torn>>
  /\ Stop
  /\ UNCHANGED <<lock, repo, created, passed>>

\* The store is written before the history.
SlipAfterSignal == <<"persist", "record", "exit">>

AfterSignal == <<"record", "persist", "exit">>

\* SIGINT, SIGTERM: interruptRunningJobs, then process.exit.
Signal ==
  /\ Idle
  /\ crashes < MaxCrashes
  /\ crashes' = crashes + 1
  /\ LET S == {j \in DOMAIN jobs : jobs[j].status \in {"RUNNING", "CANCELLING"}}
     IN /\ jobs' = [j \in DOMAIN jobs |-> IF j \in S THEN Interrupted(jobs[j]) ELSE jobs[j]]
        /\ toRecord' = {j \in S : jobs[j].plan}
  /\ todo' = AfterSignal
  /\ UNCHANGED <<version, self, controllers, exec, result, timer, records, lock, repo,
                 created, passed>>

\* appendInterruptedJobHistory, for each of the interrupted jobs.
Record ==
  /\ Doing("record")
  /\ IF toRecord = {}
     THEN Then(<< >>) /\ UNCHANGED <<toRecord, history>>
     ELSE \E j \in toRecord :
            /\ history' = <<[job |-> j, status |-> jobs[j].status]>> \o history
            /\ toRecord' = toRecord \ {j}
            /\ UNCHANGED todo
  /\ UNCHANGED <<version, self, jobs, controllers, exec, result, timer, store, torn, lock,
                 repo, tally>>

Exit == Doing("exit") /\ Stop /\ UNCHANGED <<records, lock, repo, tally>>

\* The watchdog starts node: the version is captured, and loadStoredJobs takes
\* every stored job for interrupted.  One whose Meelok is paused goes through
\* recoverInterruptedMeelok first.  A store that does not parse loads nothing
\* and is not written.
Boot ==
  /\ ~up
  /\ up' = TRUE
  /\ runtime' = repo
  /\ IF torn
     THEN UNCHANGED <<todo, toRecord, jobs, exec, result>>
     ELSE LET M == {j \in DOMAIN store : NeedsMeelokRecovery(store[j])}
          IN /\ jobs' = [j \in DOMAIN store |->
                           IF j \in M THEN [store[j] EXCEPT !.status = "RECOVERING"]
                           ELSE Interrupted(store[j])]
             /\ exec' = [j \in Job |-> IF j \in M THEN "bootrestore" ELSE "none"]
             /\ result' = [j \in Job |-> IF j \in M THEN Interrupted(store[j]).status ELSE None]
             /\ toRecord' = {j \in DOMAIN store \ M : store[j].plan}
             /\ todo' = <<"record", "persist">>
  /\ UNCHANGED <<restart, self, controllers, timer, records, lock, repo, tally>>

EndBootRestore(j) ==
  /\ Idle
  /\ exec[j] = "bootrestore"
  /\ \E m \in {"restored", "unknown"} :
       jobs' = [jobs EXCEPT ![j].meelok = m, ![j].status = result[j]]
  /\ exec' = [exec EXCEPT ![j] = "none"]
  /\ result' = [result EXCEPT ![j] = None]
  /\ toRecord' = {j}
  /\ todo' = <<"record", "persist">>
  /\ UNCHANGED <<version, self, controllers, timer, records, lock, repo, tally>>
--------------------------------------------------------------------------------
(***************************************************************************)
(* The version monitor, the repository and the lock's other users.         *)
(***************************************************************************)
\* checkPublisherRepositoryVersion every 10 seconds, and assertPublisherActionReady:
\* schedulePublisherRestart.
CheckVersion ==
  /\ Idle
  /\ NoUpdate
  /\ restart = "none"
  /\ VersionStatus = "RESTART_REQUIRED"
  /\ ~Busy
  /\ restart' = "armed"
  /\ UNCHANGED <<up, runtime, work, records, lock, repo, tally>>

\* A restart that is called off leaves publisherRestartPending set.
SlipCalledOff == "stuck"

CalledOff == "none"

\* publisherRestartTimer, 250 ms later: everything is read again.
RestartTimer ==
  /\ Idle
  /\ restart = "armed"
  /\ restart' = IF VersionStatus = "RESTART_REQUIRED" /\ ~Busy THEN "closing" ELSE CalledOff
  /\ UNCHANGED <<up, runtime, work, records, lock, repo, tally>>

\* The last connection closes, or five seconds pass: exit code 75.
RestartExit ==
  /\ Idle
  /\ restart = "closing"
  /\ Stop
  /\ UNCHANGED <<records, lock, repo, tally>>

\* HEAD moves, forward or back.
Commit ==
  /\ \E c \in 0..MaxCommits : repo' = [repo EXCEPT !.commit = c]
  /\ UNCHANGED <<version, work, records, lock, tally>>

Edit ==
  /\ repo' = [repo EXCEPT !.dirty = ~repo.dirty]
  /\ UNCHANGED <<version, work, records, lock, tally>>

\* The update script takes and gives back the lock (OperationLock.tla).
UpdateBegins ==
  /\ lock = None
  /\ lock' = Updater
  /\ UNCHANGED <<version, work, records, repo, tally>>

UpdateEnds ==
  /\ lock = Updater
  /\ lock' = None
  /\ UNCHANGED <<version, work, records, repo, tally>>

\* An operator removes the lock of a job that no longer runs.
OperatorClears ==
  /\ lock \in Job \cup {Unowned}
  /\ todo = << >> /\ controllers = {}
  /\ lock' = None
  /\ UNCHANGED <<version, work, records, repo, tally>>

Callback ==
  \/ WriteOwner \/ Register \/ Persist \/ StartFails \/ Start \/ Aborted \/ AppendHistory
  \/ Diagnose \/ UpdateHistory \/ Finish \/ UnlinkOwner \/ RemoveLock \/ Record \/ Exit

Next ==
  \/ Execute \/ Callback
  \/ \E j \in Job :
       \/ Proceed(j) \/ Succeed(j) \/ StepFails(j) \/ Cancel(j)
       \/ StartRollback(j) \/ EndRecovery(j) \/ EndRestore(j)
       \/ EndDiagnosis(j) \/ EndBootRestore(j)
  \/ FlushTimer
  \/ Crash \/ Signal \/ Boot
  \/ CheckVersion \/ RestartTimer \/ RestartExit
  \/ Commit \/ Edit \/ UpdateBegins \/ UpdateEnds \/ OperatorClears

Spec == Init /\ [][Next]_vars

\* What the event loop and the watchdog owe: a callback runs to its end, timers
\* fire, commands with a timeout and no abort come back, the watchdog restarts
\* the process.  A plan step may run as long as its own limit allows, so
\* nothing is assumed of it.
Fairness ==
  /\ WF_vars(Callback) /\ WF_vars(FlushTimer) /\ WF_vars(Boot)
  /\ \A j \in Job : /\ WF_vars(EndRecovery(j)) /\ WF_vars(EndRestore(j))
                    /\ WF_vars(EndDiagnosis(j)) /\ WF_vars(EndBootRestore(j))
  /\ WF_vars(CheckVersion) /\ WF_vars(RestartTimer) /\ WF_vars(RestartExit)

FairSpec == Spec /\ Fairness
--------------------------------------------------------------------------------
Executing == {j \in Job : exec[j] # "none"}

\* At most one release, recovery or diagnosis runs, and a release runs under the
\* lock, which it cannot have lost to an update (createExecutionJob,
\* loadStoredJobs, runExecutionJobInIsolatedWorktree).
OneExecution ==
  /\ \A i, j \in Executing : i = j
  /\ \A j \in Executing : exec[j] # "bootrestore" => lock = j

\* While anything runs, the store on disk names it as active: whatever moment
\* the process dies, loadStoredJobs finds it.
StoreCoversExecution ==
  Idle => \A j \in Executing : torn \/ j \in DOMAIN store

\* With nothing active in memory the store is empty, so that a restart finds no
\* finished job to interrupt a second time.
QuietStore == Idle /\ ~Busy => torn \/ DOMAIN store = {}

\* The restart for a new version never takes a job down (README: "禁止为更新控制台
\* 中断正在执行的发布"): from the decision to close until the exit nothing runs.
RestartOnlyIdle == restart = "closing" => Executing = {} /\ ~Busy /\ toRecord = {}

\* A release whose plan is in the store leaves the store only with an entry in
\* the history (executePlan appends before it returns, interruptRunningJobs and
\* loadStoredJobs before they persist), unless the process dies inside the write
\* of the store itself.
RecordedBeforeForgotten ==
  [][\A j \in DOMAIN store :
       store[j].plan /\ store[j].target # "dry" /\ store' # store
       => torn' \/ j \in DOMAIN store' \/ \E i \in DOMAIN history : history[i].job = j]_vars

\* A cancelled job comes to rest and everything without a limit of its own ends:
\* a recovery, a Meelok restore, a diagnosis or an interrupted job.
CancelEnds ==
  \A j \in Job :
    (exec[j] \in ExecStages \ {"none", "steps"}
     \/ (j \in DOMAIN jobs /\ jobs[j].status = "CANCELLING"))
    ~> (up /\ exec[j] = "none" /\ j \notin controllers)

\* A new version is loaded, unless a job, uncommitted changes or a lock that is
\* not a job's hold it back (checkPublisherRepositoryVersion).
NewVersionLoaded ==
  runtime.commit # repo.commit
  ~> (runtime.commit = repo.commit \/ Busy \/ runtime.dirty \/ repo.dirty \/ ~NoUpdate)
--------------------------------------------------------------------------------
(***************************************************************************)
(* What the README says of restarts, and the code does not keep.           *)
(***************************************************************************)
\* README.md:549 and :278: when the service restarts after the cutover of a game
\* release, or after the change of the forum's production Compose has begun,
\* the release is RECOVERY_REQUIRED.
RestartKeepsRecovery ==
  \A i \in DOMAIN history : history[i].job \in passed => history[i].status # "INTERRUPTED"
================================================================================
