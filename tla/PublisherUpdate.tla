---------------------------- MODULE PublisherUpdate ----------------------------
EXTENDS ServiceHost, FiniteSets, SequencesExt
(***************************************************************************)
(* scripts/update-publisher.ps1: replace the running publisher by another  *)
(* commit, or put the old one back, while users may start releases, the    *)
(* console or its service host may fail, a second update may have been     *)
(* started, and the script itself may be killed at any step.               *)
(*                                                                         *)
(* A release is kept out by two means.  Every console refuses actions when *)
(* its own directory is not clean, and the barrier is a stray file there;  *)
(* a console that knows the update protocol also needs the operation lock. *)
(***************************************************************************)
CONSTANTS Script,    \* runs of the update script
          Candidate, \* the commit each installs
          Legacy     \* versions that do not know the operation lock

Job == "job" \* the lock's owner is a release job

ASSUME UpdateAssumption ==
  /\ Job \notin Script /\ None \notin Script /\ Job # None
  /\ Candidate \in [Script -> Version \ {First}]
  /\ IsInjective(Candidate)
  /\ \A s \in Script : Candidate[s] \notin Legacy

VARIABLES lock,    \* the owner of the operation lock
          barrier, \* the directories with a barrier file, and whose it is
          dirty,   \* the console was started in a directory that was not clean
          job,     \* the release job in the console's memory
          stored,  \* its status in .release-jobs.json
          script   \* the update scripts

updateVars == <<lock, barrier, dirty, job, stored, script>>
vars == <<hostVars, updateVars>>
consoleVars == <<lock, barrier, dirty, job, stored>>

\* The script in order, up to PASS.
Forward == <<"service", "version", "acquire", "barrier", "confirm", "idle", "prepare",
             "idle again", "check", "stop", "stopping", "configure", "start", "verify",
             "idle at last", "audit", "unbarrier", "release", "passed">>
\* The catch block, once the service has been touched.
Backward == <<"ask", "ask store", "ask service", "stop new", "stopping new",
              "configure old", "lift", "give up", "start old", "restored">>
\* The finally block, when it has not.
Cleanup == <<"clean barrier", "clean lock", "refused">>

Ends == {"passed", "restored", "refused",
         "kept",  \* the rollback did not go through: lock and barrier stay for review
         "dead"}  \* the process was killed

Fresh == [pc |-> "service", old |-> First, pid |-> 0, seen |-> None, audit |-> "none",
          locked |-> FALSE, guarded |-> FALSE, stopped |-> FALSE, activated |-> FALSE]

Init ==
  /\ HostInit
  /\ lock = None
  /\ barrier = {}
  /\ dirty = FALSE
  /\ job = "none"
  /\ stored = "none"
  /\ script = [s \in Script |-> Fresh]

Guarded(v) == \E s \in Script : <<v, s>> \in barrier

\* GET /api/version: UP_TO_DATE, or UNCOMMITTED_CHANGES.
Clean == ~dirty /\ ~Guarded(node)

\* GET /api/jobs/active answers, and the console is idle.
Idle == node # None /\ job = "none"

--------------------------------------------------------------------------------
(***************************************************************************)
(* The console.  A job dies with it; its stored record tells the next one, *)
(* which ends it, or restores Meelok for it first.                         *)
(***************************************************************************)
Found == CASE stored = "running" -> {"none", "recovering"}
           [] stored # "running" -> {stored}

Boot ==
  /\ StartNode
  /\ dirty' = Guarded(host.image)
  /\ job' \in Found
  /\ stored' = job'
  /\ UNCHANGED <<lock, barrier, script>>

\* A second runner's console: loadStoredJobs writes the store before listen finds the
\* port taken and the process exits.
BootInVain ==
  /\ runner /\ node # None
  /\ stored' \in Found
  /\ UNCHANGED <<hostVars, lock, barrier, dirty, job, script>>

\* A report of the running job, or of its recovery, writes its record again.
Persist ==
  /\ job # "none"
  /\ stored' = job
  /\ UNCHANGED <<hostVars, lock, barrier, dirty, job, script>>

\* assertPublisherActionReady and createExecutionJob, with no await between them.
Execute ==
  /\ Idle
  /\ Clean
  /\ node \notin Legacy => lock = None
  /\ job' = "running" /\ stored' = "running"
  /\ lock' = IF node \in Legacy THEN lock ELSE Job
  /\ UNCHANGED <<hostVars, barrier, dirty, script>>

JobEnds ==
  /\ job # "none"
  /\ job' = "none" /\ stored' = "none"
  /\ lock' = IF job = "running" /\ node \notin Legacy THEN None ELSE lock
  /\ UNCHANGED <<hostVars, barrier, dirty, script>>

\* A signal still marks the job interrupted; a plain death does not.
Leave ==
  /\ NodeExits
  /\ job' = "none"
  /\ stored' \in IF stored = "running" THEN {"running", "none"} ELSE {stored}
  /\ UNCHANGED <<lock, barrier, dirty, script>>

\* What the service host and Windows do by themselves; a job goes with its console.
Around ==
  /\ \/ EnsureChild \/ StartChild \/ NoChild \/ RunnerExits
     \/ Sweep \/ CloseJob \/ HostExits \/ HostFails \/ Recover
  /\ job' = IF node' = None THEN "none" ELSE job
  /\ UNCHANGED <<lock, barrier, dirty, stored, script>>

--------------------------------------------------------------------------------
(***************************************************************************)
(* The script.                                                             *)
(***************************************************************************)
At(s, pc) == script[s].pc = pc

\* s goes from pc to what follows it, with the changes of `with`.
Goes(s, pc, with) ==
  /\ At(s, pc)
  /\ \E seq \in {Forward, Backward, Cleanup} : \E i \in 1..(Len(seq) - 1) :
       /\ seq[i] = pc
       /\ script' = [script EXCEPT ![s] = [with EXCEPT !.pc = seq[i + 1]]]

Asks(s, pc, answer) ==
  /\ Goes(s, pc, script[s])
  /\ answer
  /\ UNCHANGED <<hostVars, consoleVars>>

ReadService(s) ==
  /\ host.phase = "up"
  /\ Goes(s, "service", [script[s] EXCEPT !.old = binPath, !.pid = host.pid])
  /\ UNCHANGED <<hostVars, consoleVars>>

ReadVersion(s) ==
  /\ node # None /\ Clean
  /\ Goes(s, "version", [script[s] EXCEPT !.seen = node])
  /\ UNCHANGED <<hostVars, consoleVars>>

Acquire(s) ==
  /\ lock = None
  /\ Goes(s, "acquire", [script[s] EXCEPT !.locked = TRUE])
  /\ lock' = s
  /\ UNCHANGED <<hostVars, barrier, dirty, job, stored>>

\* createLegacyBarrier: into a clean directory only.
Barrier(s) ==
  /\ ~Guarded(script[s].old)
  /\ Goes(s, "barrier", [script[s] EXCEPT !.guarded = TRUE])
  /\ barrier' = barrier \cup {<<script[s].old, s>>}
  /\ UNCHANGED <<hostVars, lock, dirty, job, stored>>

\* The console that listens must refuse actions, and be the one seen before.
Confirm(s) == Asks(s, "confirm", node # None /\ ~Clean /\ node = script[s].seen)

\* Assert-Idle.
SlipAssertIdle(s) == \E pc \in {"idle", "idle again", "idle at last"} : Asks(s, pc, TRUE)
AssertIdle(s) == \E pc \in {"idle", "idle again", "idle at last"} : Asks(s, pc, Idle)

\* The worktree of the candidate, its links, and the digests of the state files.
Prepare(s) ==
  /\ Goes(s, "prepare", [script[s] EXCEPT !.audit = stored])
  /\ UNCHANGED <<hostVars, consoleVars>>

\* Nobody has changed, stopped or restarted the service since.
CheckService(s) ==
  Asks(s, "check", binPath = script[s].old /\ host.pid = script[s].pid /\ host.phase = "up")

\* Stop-Service sends the request, if there is something to stop, and waits.
Stop(s) ==
  /\ \/ Goes(s, "stop", [script[s] EXCEPT !.stopped = TRUE])
     \/ Goes(s, "stop new", script[s])
  /\ \/ RequestStop
     \/ host.phase # "up" /\ UNCHANGED hostVars
  /\ UNCHANGED consoleVars

Stopped(s) == \E pc \in {"stopping", "stopping new"} : Asks(s, pc, host.phase = "none")

\* sc.exe config binPath=, in the old command line the other directory.
Configure(s) ==
  /\ \/ Goes(s, "configure", script[s]) /\ binPath' = Candidate[s]
     \/ Goes(s, "configure old", script[s]) /\ binPath' = script[s].old
  /\ UNCHANGED <<host, recovery, ensuring, child, runner, node, consoleVars>>

\* Start-Service: nothing to do when the service runs.
Start(s) ==
  /\ \/ Goes(s, "start", [script[s] EXCEPT !.activated = TRUE])
     \/ Goes(s, "start old", script[s])
  /\ \/ StartHost
     \/ host.phase = "up" /\ UNCHANGED hostVars
  /\ UNCHANGED consoleVars

\* GET /api/version until 55 s are over: the candidate, current, with the protocol.
Verify(s) == Asks(s, "verify", node = Candidate[s] /\ Clean)

\* The job store is byte for byte what it was.
Audit(s) == Asks(s, "audit", stored = script[s].audit)

\* The barrier is looked for in the candidate's directory.
SlipUnbarrier(s) ==
  /\ \E pc \in {"unbarrier", "lift", "clean barrier"} :
       Goes(s, pc, [script[s] EXCEPT !.guarded = FALSE])
  /\ barrier' = barrier \ {<<Candidate[s], s>>}
  /\ UNCHANGED <<hostVars, lock, dirty, job, stored>>

\* removeLegacyBarrier: read from the old directory, the file must be its own.
Unbarrier(s) ==
  /\ \E pc \in {"unbarrier", "lift", "clean barrier"} :
       Goes(s, pc, [script[s] EXCEPT !.guarded = FALSE])
  /\ script[s].guarded => <<script[s].old, s>> \in barrier
  /\ barrier' = barrier \ {<<script[s].old, s>>}
  /\ UNCHANGED <<hostVars, lock, dirty, job, stored>>

\* releaseOperationLock: another owner's lock stays.
Release(s) ==
  /\ \E pc \in {"release", "give up", "clean lock"} :
       Goes(s, pc, [script[s] EXCEPT !.locked = FALSE])
  /\ script[s].locked => lock = s
  /\ lock' = IF script[s].locked THEN None ELSE lock
  /\ UNCHANGED <<hostVars, barrier, dirty, job, stored>>

\* A command fails, or a test refuses: the catch block, then the finally block.
Fails(s) ==
  /\ script[s].pc \in ToSet(Forward) \ {"passed"}
  /\ script' = [script EXCEPT ![s].pc =
                  CASE script[s].stopped -> "ask"
                    [] ~script[s].stopped /\ script[s].pc \in {"service", "version"} -> "refused"
                    [] OTHER -> "clean barrier"]
  /\ UNCHANGED <<hostVars, consoleVars>>

\* A new console that answers in time must be idle, which is why the first question alone
\* keeps nothing out; the store must hold no active job, and the service must be
\* configured as before or as planned.
MayRollBack(s) ==
  \/ Asks(s, "ask", TRUE)
  \/ Asks(s, "ask store", stored = "none")
  \/ Asks(s, "ask service", binPath \in {script[s].old, Candidate[s]})

\* The rollback is given up, by its own decision or because a command fails; so is a
\* cleanup that fails.
Keep(s) ==
  /\ script[s].pc \in (ToSet(Backward) \cup ToSet(Cleanup)) \ Ends
  /\ script' = [script EXCEPT ![s].pc = "kept"]
  /\ UNCHANGED <<hostVars, consoleVars>>

Killed(s) ==
  /\ script[s].pc \notin Ends
  /\ script' = [script EXCEPT ![s].pc = "dead"]
  /\ UNCHANGED <<hostVars, consoleVars>>

Script_(s) ==
  \/ ReadService(s) \/ ReadVersion(s) \/ Acquire(s) \/ Barrier(s) \/ Confirm(s)
  \/ AssertIdle(s) \/ Prepare(s) \/ CheckService(s) \/ Stop(s) \/ Stopped(s)
  \/ Configure(s) \/ Start(s) \/ Verify(s) \/ Audit(s)
  \/ Unbarrier(s) \/ Release(s) \/ Fails(s) \/ MayRollBack(s) \/ Keep(s) \/ Killed(s)

--------------------------------------------------------------------------------
(***************************************************************************)
(* The operator, after an update that has left its guards behind, and      *)
(* after a job that has died with its console.                             *)
(***************************************************************************)
ClearUpdate(s) ==
  /\ script[s].pc \in {"kept", "dead"}
  /\ host.phase \in {"none", "up"}
  /\ lock = s \/ \E v \in Version : <<v, s>> \in barrier
  /\ lock' = IF lock = s THEN None ELSE lock
  /\ barrier' = {b \in barrier : b[2] # s}
  /\ UNCHANGED <<hostVars, dirty, job, stored, script>>

ClearJob ==
  /\ lock = Job /\ job = "none"
  /\ lock' = None
  /\ UNCHANGED <<hostVars, barrier, dirty, job, stored, script>>

StartService ==
  /\ StartHost
  /\ \A s \in Script : script[s].pc \in {"service"} \cup Ends
  /\ UNCHANGED updateVars

Next ==
  \/ Boot \/ BootInVain \/ Execute \/ Persist \/ JobEnds \/ Leave \/ Around
  \/ \E s \in Script : Script_(s) \/ ClearUpdate(s)
  \/ ClearJob \/ StartService

Spec == Init /\ [][Next]_vars

--------------------------------------------------------------------------------
(***************************************************************************)
(* Properties.                                                             *)
(***************************************************************************)
\* Whatever the updates do, and wherever they are killed, a stop they cause takes no
\* release job down (update-publisher.ps1:51-96 and 117-129): jobs are lost only when
\* the console or its host fails.
NoJobStopped ==
  [][host.phase \in {"stopping", "swept"} /\ host'.phase \in {"swept", "closed"}
       => job' = job]_vars

\* When the service control manager sees the service stopped, no runner and no console
\* of it is left, even if EnsureChild met the stop half way and taskkill failed
\* (RHospitalReleaseConsoleService.cs:147-220): the next version finds its port free.
StoppedIsGone ==
  host.phase \in {"closed", "none"} => ~runner /\ node = None

\* With PASS the candidate is configured and the running host is one of it; when a
\* rollback gives its lock up, the old command line is configured; and neither end, nor a
\* refusal, leaves a lock or a barrier of that update (update-publisher.ps1:110-147).
EndsAsReported ==
  [][\A s \in Script : script'[s].pc # script[s].pc =>
       /\ script'[s].pc = "passed" =>
            binPath = Candidate[s] /\ (host.phase # "none" => host.image = Candidate[s])
       /\ script'[s].pc = "start old" => binPath = script[s].old
       /\ script'[s].pc \in {"passed", "restored", "refused"} =>
            lock' # s /\ \A v \in Version : <<v, s>> \notin barrier']_vars
================================================================================
