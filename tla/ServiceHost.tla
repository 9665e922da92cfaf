------------------------------ MODULE ServiceHost ------------------------------
EXTENDS Naturals
(***************************************************************************)
(* The Windows service that keeps the release console running              *)
(* (service/RHospitalReleaseConsoleService.cs with                         *)
(* scripts/run-release-console.ps1).  The service control manager starts a *)
(* host process from the configured command line; the host starts one      *)
(* runner in the session of the expected user, inside a job object that    *)
(* dies with the host; the runner starts the console, node server.js, and  *)
(* starts it again whenever it ends.                                       *)
(*                                                                         *)
(* EnsureChild is called by a timer, 10 s after the runner has exited, and *)
(* when a session or the power state changes, on threads of a pool: it     *)
(* meets OnStop half way.                                                  *)
(***************************************************************************)
CONSTANTS Version,  \* installed publishers: their directories, and their commits
          First,    \* the one installed and configured at first
          None,     \* no console
          MaxHosts  \* bound: host processes that are started

ASSUME HostAssumption ==
  /\ First \in Version
  /\ None \notin Version
  /\ MaxHosts \in Nat \ {0}

VARIABLES binPath,   \* the version the service's command line names
          host,      \* the host process: its version, its number, and its phase: "none" (the
                     \* service is stopped), "up", "stopping" (OnStop has set the flag and
                     \* disposed of the timer), "swept" (StopChildProcessTree is done), or
                     \* "closed" (the handle of the job object is closed)
          recovery,  \* the service control manager will start the service again
          ensuring,  \* an EnsureChild has passed its tests and has the flag
          child,     \* the host holds a runner it started
          runner,    \* a runner lives in the job object
          node       \* the version of the console that listens, None: none does

hostVars == <<binPath, host, recovery, ensuring, child, runner, node>>

HostInit ==
  /\ binPath = First
  /\ host = [phase |-> "up", image |-> First, pid |-> 1]
  /\ recovery = FALSE
  /\ ensuring = FALSE
  /\ child = TRUE
  /\ runner = TRUE
  /\ node = First

--------------------------------------------------------------------------------
\* StartService with the command line of that moment: OnStart makes a new job object.
StartHost ==
  /\ host.phase = "none"
  /\ host.pid < MaxHosts
  /\ host' = [phase |-> "up", image |-> binPath, pid |-> host.pid + 1]
  /\ UNCHANGED <<binPath, recovery, ensuring, child, runner, node>>

\* The timer, ChildExited, OnSessionChange or OnPowerEvent calls EnsureChild.
EnsureChild ==
  /\ host.phase = "up"
  /\ ~ensuring
  /\ ensuring' = TRUE
  /\ UNCHANGED <<binPath, host, recovery, child, runner, node>>

\* The runner is started before it is put into the job object, and left there
\* when that fails.
SlipStartChild ==
  /\ ensuring
  /\ host.phase # "none"
  /\ ~(child /\ runner)
  /\ runner' = TRUE /\ child' = TRUE
  /\ ensuring' = FALSE
  /\ UNCHANGED <<binPath, host, recovery, node>>

\* TryStart under the lock, in the session of the expected user: the suspended
\* process must get into the job object before it runs.
StartChild ==
  /\ ensuring
  /\ host.phase \notin {"none", "closed"}
  /\ ~(child /\ runner)
  /\ runner' = TRUE /\ child' = TRUE
  /\ ensuring' = FALSE
  /\ UNCHANGED <<binPath, host, recovery, node>>

\* The child lives, the expected user is not logged on, or the job object is gone.
NoChild ==
  /\ ensuring
  /\ ensuring' = FALSE
  /\ UNCHANGED <<binPath, host, recovery, child, runner, node>>

\* The loop of run-release-console.ps1: node ends at once when the port is taken.
StartNode ==
  /\ runner
  /\ node = None
  /\ node' = host.image
  /\ UNCHANGED <<binPath, host, recovery, ensuring, child, runner>>

\* The console ends: it restarts itself, or fails.
NodeExits ==
  /\ node # None
  /\ node' = None
  /\ UNCHANGED <<binPath, host, recovery, ensuring, child, runner>>

\* The runner ends, with its session or by itself; the console goes on, for a while
\* or until the host stops, in the job object.
RunnerExits ==
  /\ runner
  /\ runner' = FALSE
  /\ UNCHANGED <<binPath, host, recovery, ensuring, child, node>>

\* A stop of the running service: StopService sets the flag, once.
RequestStop ==
  /\ host.phase = "up"
  /\ host' = [host EXCEPT !.phase = "stopping"]
  /\ UNCHANGED <<binPath, recovery, ensuring, child, runner, node>>

\* StopChildProcessTree: taskkill /t reaches the console only through its runner,
\* and may fail.
Sweep ==
  /\ host.phase = "stopping"
  /\ host' = [host EXCEPT !.phase = "swept"]
  /\ child' = FALSE
  /\ \/ child /\ runner /\ runner' = FALSE /\ node' = None
     \/ UNCHANGED <<runner, node>>
  /\ UNCHANGED <<binPath, recovery, ensuring>>

\* JOB_OBJECT_LIMIT_KILL_ON_JOB_CLOSE: whatever is left in the job object dies.
CloseJob ==
  /\ host.phase = "swept"
  /\ host' = [host EXCEPT !.phase = "closed"]
  /\ runner' = FALSE /\ node' = None
  /\ UNCHANGED <<binPath, recovery, ensuring, child>>

HostExits ==
  /\ host.phase = "closed"
  /\ host' = [host EXCEPT !.phase = "none"]
  /\ ensuring' = FALSE /\ child' = FALSE
  /\ UNCHANGED <<binPath, recovery, runner, node>>

\* The host fails: its handles close, and the service's recovery actions apply.
HostFails ==
  /\ host.phase # "none"
  /\ host.pid < MaxHosts
  /\ host' = [host EXCEPT !.phase = "none"]
  /\ recovery' = TRUE
  /\ ensuring' = FALSE /\ child' = FALSE
  /\ runner' = FALSE /\ node' = None
  /\ UNCHANGED <<binPath>>

\* sc.exe failure ... actions= restart: nothing to do if the service runs again.
Recover ==
  /\ recovery
  /\ recovery' = FALSE
  /\ IF host.phase = "none" /\ host.pid < MaxHosts
     THEN host' = [phase |-> "up", image |-> binPath, pid |-> host.pid + 1]
     ELSE UNCHANGED host
  /\ UNCHANGED <<binPath, ensuring, child, runner, node>>

================================================================================
