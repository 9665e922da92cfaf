---------------------------- MODULE UpdateLock_proof ----------------------------
(***************************************************************************)
(* Theorems about the operation lock and about the update that takes it.   *)
(***************************************************************************)
EXTENDS OperationLock, PublisherUpdate, TLAPS

(***************************************************************************)
(* The lock, for any set of attempts.                                      *)
(*                                                                         *)
(* Exclusive is not inductive by itself: it rests on the directory being   *)
(* the one thing every attempt inside has made, and on owner.json naming   *)
(* nobody else.                                                            *)
(***************************************************************************)
InsideMadeDir == \A t \in Inside : dir = t

OwnerIsMaker == owner \in Token => owner = dir

OwnerFollowsStage ==
  \A t \in Token :
    /\ pc[t] \in {"held", "leaving"} => owner = t
    /\ pc[t] \in {"made", "unlinked"} => owner = Nobody

NoFileWithoutDir == dir = Nobody => owner = Nobody

LockInv ==
  /\ TypeOK
  /\ InsideMadeDir
  /\ OwnerIsMaker
  /\ OwnerFollowsStage
  /\ NoFileWithoutDir

USE TokenAssumption

LEMMA LockInitInv == LockInit => LockInv
  BY DEF LockInit, LockInv, TypeOK, Stages, Inside, InsideMadeDir, OwnerIsMaker,
         OwnerFollowsStage, NoFileWithoutDir

LEMMA LockNextInv == LockInv /\ [LockNext]_lockVars => LockInv'
<1> SUFFICES ASSUME LockInv, [LockNext]_lockVars PROVE LockInv'
  OBVIOUS
<1> USE DEF LockInv, TypeOK, Stages, Inside, InsideMadeDir, OwnerIsMaker,
            OwnerFollowsStage, NoFileWithoutDir, Torn
<1>1. ASSUME NEW t \in Token, MakeDir(t) PROVE LockInv'
  BY <1>1 DEF MakeDir
<1>2. ASSUME NEW t \in Token, Refuse(t) PROVE LockInv'
  BY <1>2 DEF Refuse
<1>3. ASSUME NEW t \in Token, WriteOwner(t) PROVE LockInv'
  BY <1>3 DEF WriteOwner
<1>4. ASSUME NEW t \in Token, WriteOwnerFails(t) PROVE LockInv'
  BY <1>4 DEF WriteOwnerFails
<1>5. ASSUME NEW t \in Token, CheckOwner(t) PROVE LockInv'
  BY <1>5 DEF CheckOwner
<1>6. ASSUME NEW t \in Token, UnlinkOwner(t) PROVE LockInv'
  BY <1>6 DEF UnlinkOwner
<1>7. ASSUME NEW t \in Token, RemoveDir(t) PROVE LockInv'
  BY <1>7 DEF RemoveDir
<1>8. ASSUME NEW t \in Token, Die(t) PROVE LockInv'
  BY <1>8 DEF Die
<1>9. CASE OperatorClears
  BY <1>9 DEF OperatorClears
<1>10. CASE AskGate \/ ReadGate \/ ForgetGate
  BY <1>10 DEF AskGate, ReadGate, ForgetGate
<1>11. CASE UNCHANGED lockVars
  BY <1>11 DEF lockVars
<1> QED
  BY <1>1, <1>2, <1>3, <1>4, <1>5, <1>6, <1>7, <1>8, <1>9, <1>10, <1>11 DEF LockNext

LEMMA LockInvariance == LockSpec => []LockInv
  BY LockInitInv, LockNextInv, PTL DEF LockSpec

\* Type correctness of the lock model for any set of attempts.
THEOREM TypeCorrect == LockSpec => []TypeOK
<1>1. LockInv => TypeOK
  BY DEF LockInv
<1> QED
  BY <1>1, LockInvariance, PTL

\* At most one attempt is between mkdir and rmdir (acquireOperationLock,
\* releaseOperationLock), for any number of consoles, updates and deaths.
THEOREM MutualExclusion == LockSpec => []Exclusive
<1>1. LockInv => Exclusive
  BY DEF LockInv, InsideMadeDir, Exclusive
<1> QED
  BY <1>1, LockInvariance, PTL

\* owner.json names the operation under way (releaseOperationLock finds its own
\* token there).
THEOREM OwnerAlwaysIdentifies == LockSpec => []OwnerIdentifiesHolder
<1>1. LockInv => OwnerIdentifiesHolder
  BY DEF LockInv, OwnerFollowsStage, OwnerIdentifiesHolder
<1> QED
  BY <1>1, LockInvariance, PTL

\* assertNoPublisherUpdate answers "open" only while no update is inside.
THEOREM GateIsSound == LockSpec => GateSeesUpdates
<1>1. LockInv /\ [LockNext]_lockVars
        => [gate' = "open" /\ gate # "open" => Inside \subseteq JobToken]_lockVars
  <2> SUFFICES ASSUME LockInv, LockNext, gate' = "open", gate # "open"
               PROVE  Inside \subseteq JobToken
    BY DEF lockVars
  <2> USE DEF LockInv, TypeOK, InsideMadeDir, OwnerIsMaker, Inside
  <2>1. CASE AskGate
    BY <2>1 DEF AskGate
  <2>2. CASE ReadGate
    BY <2>2 DEF ReadGate
  <2>3. CASE ~AskGate /\ ~ReadGate
    BY <2>3 DEF LockNext, MakeDir, Refuse, WriteOwner, WriteOwnerFails, CheckOwner,
                UnlinkOwner, RemoveDir, Die, OperatorClears, ForgetGate
  <2> QED
    BY <2>1, <2>2, <2>3
<1> QED
  BY <1>1, LockInvariance, PTL DEF LockSpec, GateSeesUpdates

\* The lock files implement the abstract exclusive operation that fails closed.
THEOREM Refinement == LockSpec => ImplementsMutex
<1>1. LockInit => Mutex!Init
  BY DEF LockInit, Mutex!Init
<1>2. LockInv /\ [LockNext]_lockVars => [Mutex!Next]_(Mutex!vars)
  <2> SUFFICES ASSUME LockInv, [LockNext]_lockVars PROVE [Mutex!Next]_(Mutex!vars)
    OBVIOUS
  <2> USE DEF LockInv, TypeOK, InsideMadeDir, Inside, Stages, Mutex!Next, Mutex!vars
  <2>1. ASSUME NEW t \in Token, MakeDir(t) PROVE Mutex!Begin(t)
    BY <2>1 DEF MakeDir, Mutex!Begin
  <2>2. ASSUME NEW t \in Token, Refuse(t) PROVE UNCHANGED Mutex!vars
    BY <2>2 DEF Refuse
  <2>3. ASSUME NEW t \in Token, WriteOwner(t) PROVE UNCHANGED Mutex!vars
    BY <2>3 DEF WriteOwner
  <2>4. ASSUME NEW t \in Token, WriteOwnerFails(t) PROVE Mutex!End(t) \/ Mutex!Abandon(t)
    BY <2>4 DEF WriteOwnerFails, Mutex!End, Mutex!Abandon
  <2>5. ASSUME NEW t \in Token, CheckOwner(t) PROVE UNCHANGED Mutex!vars
    BY <2>5 DEF CheckOwner
  <2>6. ASSUME NEW t \in Token, UnlinkOwner(t) PROVE UNCHANGED Mutex!vars
    BY <2>6 DEF UnlinkOwner
  <2>7. ASSUME NEW t \in Token, RemoveDir(t) PROVE Mutex!End(t)
    BY <2>7 DEF RemoveDir, Mutex!End
  <2>8. ASSUME NEW t \in Token, Die(t) PROVE Mutex!Abandon(t)
    BY <2>8 DEF Die, Mutex!Abandon
  <2>9. CASE OperatorClears
    BY <2>9 DEF OperatorClears, Mutex!Review
  <2>10. CASE AskGate \/ ReadGate \/ ForgetGate
    BY <2>10 DEF AskGate, ReadGate, ForgetGate
  <2>11. CASE UNCHANGED lockVars
    BY <2>11 DEF lockVars
  <2> QED
    BY <2>1, <2>2, <2>3, <2>4, <2>5, <2>6, <2>7, <2>8, <2>9, <2>10, <2>11 DEF LockNext
<1> QED
  BY <1>1, <1>2, LockInvariance, PTL DEF LockSpec, ImplementsMutex, Mutex!Spec

HIDE TokenAssumption

--------------------------------------------------------------------------------
(***************************************************************************)
(* What a stopped service leaves behind, for any number of updates, of     *)
(* versions and of host processes: nothing that could keep the port, or    *)
(* write into the directory, of the version that is started next.          *)
(***************************************************************************)
Phases == {"none", "up", "stopping", "swept", "closed"}

Stores == {"none", "running", "recovering"}

\* What a script remembers, wherever it is.
Memory == [pc : {script[s].pc : s \in Script}, old : Version, pid : Nat,
           seen : Version \cup {None}, audit : Stores, locked : BOOLEAN, guarded : BOOLEAN,
           stopped : BOOLEAN, activated : BOOLEAN]

TypeInv ==
  /\ host \in [phase : Phases, image : Version, pid : Nat]
  /\ binPath \in Version /\ node \in Version \cup {None}
  /\ job \in Stores /\ stored \in Stores
  /\ script \in [Script -> Memory]

\* An EnsureChild that has passed its tests belongs to a host that lives, and a runner is
\* in the job object of one that has not closed it.
HostInv ==
  /\ ensuring => host.phase # "none"
  /\ runner \/ node # None => host.phase \notin {"closed", "none"}

Inv == TypeInv /\ HostInv

\* The part of it that the service host moves.
HostTyped ==
  /\ host \in [phase : Phases, image : Version, pid : Nat]
  /\ binPath \in Version /\ node \in Version \cup {None}

--------------------------------------------------------------------------------
\* The service runs, with a runner and a console.
LEMMA InitInv == Init => Inv
  <1> SUFFICES ASSUME Init PROVE Inv
    OBVIOUS
  <1>1. script \in [Script -> Memory]
    BY HostAssumption DEF Init, HostInit, Memory, Fresh, Stores
  <1> QED
    BY <1>1, HostAssumption, UpdateAssumption
       DEF Init, HostInit, Inv, TypeInv, HostInv, Phases, Stores

\* RHospitalReleaseConsoleService.cs: OnStart, OnStop, EnsureChild and the recovery
\* actions, each where the host may do it.
LEMMA HostStep ==
  ASSUME Inv, \/ EnsureChild \/ StartChild \/ NoChild \/ RunnerExits \/ Sweep \/ CloseJob
              \/ HostExits \/ HostFails \/ Recover \/ StartHost \/ StartNode \/ NodeExits
              \/ RequestStop \/ UNCHANGED hostVars
  PROVE  HostTyped' /\ HostInv'
  <1> USE DEF Inv, TypeInv, HostInv, HostTyped, Phases
  <1>1. CASE StartChild \/ EnsureChild \/ NoChild
    BY <1>1 DEF StartChild, EnsureChild, NoChild
  <1>2. CASE RunnerExits \/ NodeExits \/ StartNode
    BY <1>2, HostAssumption DEF RunnerExits, NodeExits, StartNode
  <1>3. CASE Sweep \/ RequestStop
    BY <1>3 DEF Sweep, RequestStop
  <1>4. CASE CloseJob \/ HostExits \/ HostFails
    BY <1>4 DEF CloseJob, HostExits, HostFails
  <1>5. CASE StartHost
    BY <1>5 DEF StartHost
  <1>6. CASE Recover
    BY <1>6 DEF Recover
  <1>7. CASE UNCHANGED hostVars
    BY <1>7 DEF hostVars
  <1> QED
    BY <1>1, <1>2, <1>3, <1>4, <1>5, <1>6, <1>7

\* The console: a job is none, runs or recovers, in its memory and in the store.
LEMMA ConsoleStep ==
  ASSUME Inv, \/ Boot \/ BootInVain \/ Execute \/ Persist \/ JobEnds \/ Leave \/ Around
              \/ ClearJob \/ StartService \/ (\E s \in Script : ClearUpdate(s))
              \/ UNCHANGED vars
  PROVE  Inv'
  <1>1. HostTyped' /\ HostInv'
    BY HostStep DEF Boot, BootInVain, Execute, Persist, JobEnds, Leave, Around, ClearJob,
       StartService, ClearUpdate, vars
  <1>2. script' = script
    BY DEF Boot, BootInVain, Execute, Persist, JobEnds, Leave, Around, ClearJob,
       StartService, ClearUpdate, vars, updateVars
  <1>3. job' \in Stores /\ stored' \in Stores
    BY DEF Boot, BootInVain, Execute, Persist, JobEnds, Leave, Around, ClearJob,
       StartService, ClearUpdate, vars, updateVars, Found, Stores, Inv, TypeInv
  <1>4. script' \in [Script -> Memory']
    BY <1>2 DEF Inv, TypeInv, Memory
  <1> QED
    BY <1>1, <1>3, <1>4 DEF Inv, TypeInv, HostTyped

\* A script at its next step remembers something like before.
LEMMA MemoryKept ==
  ASSUME Inv, NEW s \in Script, NEW m \in Memory, NEW to,
         script' = [script EXCEPT ![s] = [m EXCEPT !.pc = to]]
  PROVE  script' \in [Script -> Memory']
  <1> DEFINE P == {script'[t].pc : t \in Script}
             M(pcs) == [pc : pcs, old : Version, pid : Nat,
                        seen : Version \cup {None}, audit : Stores, locked : BOOLEAN,
                        guarded : BOOLEAN, stopped : BOOLEAN, activated : BOOLEAN]
  <1>1. script'[s] = [m EXCEPT !.pc = to] /\ script'[s] \in M({script'[s].pc})
    BY DEF Inv, TypeInv, Memory
  <1>2. \A t \in Script \ {s} : script'[t] = script[t] /\ script'[t] \in M({script'[t].pc})
    BY DEF Inv, TypeInv, Memory
  <1>3. \A t \in Script : script'[t] \in M(P)
    BY <1>1, <1>2
  <1>4. script' \in [Script -> M(P)]
    BY <1>3 DEF Inv, TypeInv
  <1> QED
    BY <1>4 DEF Memory

\* A script goes on along one of the sequences, unless it fails, gives up or is killed.
LEMMA ScriptGoes ==
  ASSUME Inv, NEW s \in Script, Script_(s)
  PROVE  Fails(s) \/ Keep(s) \/ Killed(s) \/ \E m \in Memory : \E at : Goes(s, at, m)
  <1>1. script[s] \in Memory
    BY DEF Inv, TypeInv
  <1>2. CASE ReadService(s)
    <2>1. [script[s] EXCEPT !.old = binPath, !.pid = host.pid] \in Memory
      BY <1>1 DEF Memory, Inv, TypeInv
    <2> QED
      BY <1>2, <2>1 DEF ReadService
  <1>3. CASE ReadVersion(s)
    <2>1. [script[s] EXCEPT !.seen = node] \in Memory
      BY <1>1 DEF Memory, Inv, TypeInv
    <2> QED
      BY <1>3, <2>1 DEF ReadVersion
  <1>4. CASE Prepare(s)
    <2>1. [script[s] EXCEPT !.audit = stored] \in Memory
      BY <1>1 DEF Memory, Inv, TypeInv
    <2> QED
      BY <1>4, <2>1 DEF Prepare
  <1>5. CASE Acquire(s)
    <2>1. [script[s] EXCEPT !.locked = TRUE] \in Memory
      BY <1>1 DEF Memory
    <2> QED
      BY <1>5, <2>1 DEF Acquire
  <1>6. CASE Release(s)
    <2>1. [script[s] EXCEPT !.locked = FALSE] \in Memory
      BY <1>1 DEF Memory
    <2> QED
      BY <1>6, <2>1 DEF Release
  <1>7. CASE Barrier(s)
    <2>1. [script[s] EXCEPT !.guarded = TRUE] \in Memory
      BY <1>1 DEF Memory
    <2> QED
      BY <1>7, <2>1 DEF Barrier
  <1>8. CASE Unbarrier(s)
    <2>1. [script[s] EXCEPT !.guarded = FALSE] \in Memory
      BY <1>1 DEF Memory
    <2> QED
      BY <1>8, <2>1 DEF Unbarrier
  <1>9. CASE Stop(s)
    <2>1. [script[s] EXCEPT !.stopped = TRUE] \in Memory
      BY <1>1 DEF Memory
    <2> QED
      BY <1>1, <1>9, <2>1 DEF Stop
  <1>10. CASE Start(s)
    <2>1. [script[s] EXCEPT !.activated = TRUE] \in Memory
      BY <1>1 DEF Memory
    <2> QED
      BY <1>1, <1>10, <2>1 DEF Start
  <1>11. CASE \/ Confirm(s) \/ AssertIdle(s) \/ CheckService(s) \/ Stopped(s) \/ Verify(s)
              \/ Audit(s) \/ MayRollBack(s) \/ Configure(s)
    BY <1>1, <1>11 DEF Confirm, AssertIdle, CheckService, Stopped, Verify, Audit,
       MayRollBack, Configure, Asks
  <1> QED
    BY <1>2, <1>3, <1>4, <1>5, <1>6, <1>7, <1>8, <1>9, <1>10, <1>11 DEF Script_

\* update-publisher.ps1: the script stops and starts the service, and configures a command
\* line of an installed version.
LEMMA ScriptStep ==
  ASSUME Inv, NEW s \in Script, Script_(s)
  PROVE  Inv'
  <1>1. script[s].old \in Version
    BY DEF Inv, TypeInv, Memory
  <1>2. HostTyped' /\ HostInv'
    <2>1. CASE Stop(s)
      BY <2>1, HostStep DEF Stop
    <2>2. CASE Start(s)
      BY <2>2, HostStep DEF Start
    <2>3. CASE Configure(s)
      BY <2>3, <1>1, UpdateAssumption
         DEF Configure, Inv, TypeInv, HostInv, HostTyped, Phases
    <2>4. CASE ~(Stop(s) \/ Start(s) \/ Configure(s))
      <3>1. UNCHANGED hostVars
        BY <2>4 DEF Script_, ReadService, ReadVersion, Acquire, Barrier, Confirm, AssertIdle,
           Prepare, CheckService, Stopped, Verify, Audit, Unbarrier, Release, Fails,
           MayRollBack, Keep, Killed, Asks
      <3> QED
        BY <3>1, HostStep
    <2> QED
      BY <2>1, <2>2, <2>3, <2>4
  <1>3. job' = job /\ stored' = stored
    BY DEF Script_, ReadService, ReadVersion, Acquire, Barrier, Confirm, AssertIdle, Prepare,
       CheckService, Stop, Stopped, Configure, Start, Verify, Audit, Unbarrier, Release, Fails,
       MayRollBack, Keep, Killed, Asks, consoleVars
  <1>4. script' \in [Script -> Memory']
    <2>1. \E m \in Memory : \E to : script' = [script EXCEPT ![s] = [m EXCEPT !.pc = to]]
      <3>1. script[s] \in Memory
        BY DEF Inv, TypeInv
      <3>2. CASE Fails(s) \/ Keep(s) \/ Killed(s)
        BY <3>1, <3>2 DEF Fails, Keep, Killed
      <3>3. ASSUME NEW m \in Memory, NEW at, Goes(s, at, m)
            PROVE  \E to : script' = [script EXCEPT ![s] = [m EXCEPT !.pc = to]]
        BY <3>3 DEF Goes
      <3> QED
        BY <3>2, <3>3, ScriptGoes
    <2> QED
      BY <2>1, MemoryKept
  <1> QED
    BY <1>2, <1>3, <1>4 DEF Inv, TypeInv, HostTyped

--------------------------------------------------------------------------------
(* RHospitalReleaseConsoleService.cs and update-publisher.ps1 together: the invariant  *)
(* holds in every state.                                                               *)
THEOREM InvHolds == Spec => []Inv
  <1>1. Inv /\ [Next]_vars => Inv'
    BY ConsoleStep, ScriptStep DEF Next
  <1> QED
    BY <1>1, InitInv, PTL DEF Spec

(* OnStop and the job object (RHospitalReleaseConsoleService.cs:147-220): a service that *)
(* the service control manager calls stopped has no runner and no console left.          *)
THEOREM NothingLeftBehind == Spec => []StoppedIsGone
  <1>1. Inv => StoppedIsGone
    BY DEF Inv, HostInv, StoppedIsGone
  <1> QED
    BY <1>1, InvHolds, PTL

--------------------------------------------------------------------------------
(***************************************************************************)
(* What an update leaves when it ends.  The lock is what the argument      *)
(* turns on: whoever configures or starts the service owns it, so the      *)
(* command line an owner has configured stays until it gives the lock up,  *)
(* and every host that starts meanwhile is one of that command line.       *)
(***************************************************************************)
\* From one step of the script to the next (update-publisher.ps1:35-148).
Edges ==
  {<<"service", "version">>, <<"version", "acquire">>, <<"acquire", "barrier">>,
   <<"barrier", "confirm">>, <<"confirm", "idle">>, <<"idle", "prepare">>,
   <<"prepare", "idle again">>, <<"idle again", "check">>, <<"check", "stop">>,
   <<"stop", "stopping">>, <<"stopping", "configure">>, <<"configure", "start">>,
   <<"start", "verify">>, <<"verify", "idle at last">>, <<"idle at last", "audit">>,
   <<"audit", "unbarrier">>, <<"unbarrier", "release">>, <<"release", "passed">>,
   <<"ask", "ask store">>, <<"ask store", "ask service">>, <<"ask service", "stop new">>,
   <<"stop new", "stopping new">>, <<"stopping new", "configure old">>,
   <<"configure old", "lift">>, <<"lift", "give up">>, <<"give up", "start old">>,
   <<"start old", "restored">>, <<"clean barrier", "clean lock">>,
   <<"clean lock", "refused">>}

Living(s) == script[s].pc \notin {"kept", "dead"}

\* The steps that only the owner of the lock takes.
Owning ==
  {"barrier", "confirm", "idle", "prepare", "idle again", "check", "stop", "stopping",
   "configure", "start", "verify", "idle at last", "audit", "unbarrier", "release",
   "ask", "ask store", "ask service", "stop new", "stopping new", "configure old", "lift",
   "give up"}

\* What a script remembers of its lock and its barrier is so, as long as it lives.
Guards(s) ==
  /\ Living(s) => /\ script[s].locked <=> lock = s
                  /\ script[s].guarded <=> <<script[s].old, s>> \in barrier
  /\ \A v \in Version : <<v, s>> \in barrier => v = script[s].old
  /\ script[s].pc \in Owning => script[s].locked
  /\ script[s].pc \in {"service", "version", "acquire", "start old", "passed", "restored",
                       "refused"} => ~script[s].locked
  /\ script[s].pc \in {"service", "version", "acquire", "release", "passed", "give up",
                       "start old", "restored", "clean lock", "refused"} => ~script[s].guarded

\* The catch block is for a service that was touched; from its configuration on the command
\* line is the candidate's, and once that has been seen to answer so is every host.
Course(s) ==
  /\ script[s].stopped =>
       script[s].pc \notin {"service", "version", "acquire", "barrier", "confirm", "idle",
                            "prepare", "idle again", "check", "stop", "clean barrier",
                            "clean lock", "refused"}
  /\ script[s].pc \in {"start", "verify", "idle at last", "audit", "unbarrier", "release"}
       => binPath = Candidate[s]
  /\ script[s].pc \in {"idle at last", "audit", "unbarrier", "release"} /\ host.phase # "none"
       => host.image = Candidate[s]
  /\ script[s].pc \in {"lift", "give up"} => binPath = script[s].old

\* The console is one of the host's version, its job dies with it, and one that knows the
\* lock holds it while a job runs.
ConsoleInv ==
  /\ node # None => node = host.image
  /\ node = None => job = "none"
  /\ job = "running" => node \in Legacy \/ lock = Job

UpdateInv ==
  /\ Inv
  /\ ConsoleInv
  /\ \A s \in Script : Guards(s) /\ Course(s)

LEMMA InitUpdateInv == Init => UpdateInv
  <1> SUFFICES ASSUME Init PROVE UpdateInv
    OBVIOUS
  <1>1. Inv
    BY InitInv
  <1>2. ConsoleInv
    BY HostAssumption DEF Init, HostInit, ConsoleInv
  <1>3. ASSUME NEW s \in Script PROVE Guards(s) /\ Course(s)
    BY <1>3, UpdateAssumption DEF Init, Fresh, Guards, Course, Living, Owning
  <1> QED
    BY <1>1, <1>2, <1>3 DEF UpdateInv

\* The script up to PASS, place by place.
Busy == {"service", "version", "acquire", "barrier", "confirm", "idle", "prepare",
         "idle again", "check", "stop", "stopping", "configure", "start", "verify",
         "idle at last", "audit", "unbarrier", "release"}

LEMMA ForwardEdges ==
  ASSUME NEW i \in 1..18
  PROVE  Forward[i] \in Busy /\ <<Forward[i], Forward[i + 1]>> \in Edges
  <1>1. CASE i = 1   BY <1>1, i + 1 = 2 DEF Forward, Edges, Busy
  <1>2. CASE i = 2   BY <1>2, i + 1 = 3 DEF Forward, Edges, Busy
  <1>3. CASE i = 3   BY <1>3, i + 1 = 4 DEF Forward, Edges, Busy
  <1>4. CASE i = 4   BY <1>4, i + 1 = 5 DEF Forward, Edges, Busy
  <1>5. CASE i = 5   BY <1>5, i + 1 = 6 DEF Forward, Edges, Busy
  <1>6. CASE i = 6   BY <1>6, i + 1 = 7 DEF Forward, Edges, Busy
  <1>7. CASE i = 7   BY <1>7, i + 1 = 8 DEF Forward, Edges, Busy
  <1>8. CASE i = 8   BY <1>8, i + 1 = 9 DEF Forward, Edges, Busy
  <1>9. CASE i = 9   BY <1>9, i + 1 = 10 DEF Forward, Edges, Busy
  <1>10. CASE i = 10   BY <1>10, i + 1 = 11 DEF Forward, Edges, Busy
  <1>11. CASE i = 11   BY <1>11, i + 1 = 12 DEF Forward, Edges, Busy
  <1>12. CASE i = 12   BY <1>12, i + 1 = 13 DEF Forward, Edges, Busy
  <1>13. CASE i = 13   BY <1>13, i + 1 = 14 DEF Forward, Edges, Busy
  <1>14. CASE i = 14   BY <1>14, i + 1 = 15 DEF Forward, Edges, Busy
  <1>15. CASE i = 15   BY <1>15, i + 1 = 16 DEF Forward, Edges, Busy
  <1>16. CASE i = 16   BY <1>16, i + 1 = 17 DEF Forward, Edges, Busy
  <1>17. CASE i = 17   BY <1>17, i + 1 = 18 DEF Forward, Edges, Busy
  <1>18. CASE i = 18   BY <1>18, i + 1 = 19 DEF Forward, Edges, Busy
  <1> QED   BY <1>1, <1>2, <1>3, <1>4, <1>5, <1>6, <1>7, <1>8, <1>9, <1>10, <1>11, <1>12,
            <1>13, <1>14, <1>15, <1>16, <1>17, <1>18

\* The step of s from place follows some edge, and leaves s with this memory.
Along(s, place, with) ==
  \E to : /\ <<place, to>> \in Edges
          /\ script' = [script EXCEPT ![s] = [with EXCEPT !.pc = to]]

\* The three sequences, pair by pair.
LEMMA GoesAlong ==
  ASSUME NEW s, NEW place, NEW with, Goes(s, place, with)
  PROVE  script[s].pc = place /\ Along(s, place, with)
  <1>1. \A i \in 1..18 : <<Forward[i], Forward[i + 1]>> \in Edges
    BY ForwardEdges
  <1>2. ASSUME NEW i \in 1..9 PROVE <<Backward[i], Backward[i + 1]>> \in Edges
    <2>1. CASE i = 1   BY <2>1, i + 1 = 2 DEF Backward, Edges
    <2>2. CASE i = 2   BY <2>2, i + 1 = 3 DEF Backward, Edges
    <2>3. CASE i = 3   BY <2>3, i + 1 = 4 DEF Backward, Edges
    <2>4. CASE i = 4   BY <2>4, i + 1 = 5 DEF Backward, Edges
    <2>5. CASE i = 5   BY <2>5, i + 1 = 6 DEF Backward, Edges
    <2>6. CASE i = 6   BY <2>6, i + 1 = 7 DEF Backward, Edges
    <2>7. CASE i = 7   BY <2>7, i + 1 = 8 DEF Backward, Edges
    <2>8. CASE i = 8   BY <2>8, i + 1 = 9 DEF Backward, Edges
    <2>9. CASE i = 9   BY <2>9, i + 1 = 10 DEF Backward, Edges
    <2> QED   BY <2>1, <2>2, <2>3, <2>4, <2>5, <2>6, <2>7, <2>8, <2>9
  <1>3. ASSUME NEW i \in 1..2 PROVE <<Cleanup[i], Cleanup[i + 1]>> \in Edges
    <2>1. CASE i = 1   BY <2>1, i + 1 = 2 DEF Cleanup, Edges
    <2>2. CASE i = 2   BY <2>2, i + 1 = 3 DEF Cleanup, Edges
    <2> QED   BY <2>1, <2>2
  <1>4. Len(Forward) = 19 /\ Len(Backward) = 10 /\ Len(Cleanup) = 3
    BY DEF Forward, Backward, Cleanup
  <1>5. PICK seq \in {Forward, Backward, Cleanup} :
          \E i \in 1..(Len(seq) - 1) :
            /\ seq[i] = place
            /\ script' = [script EXCEPT ![s] = [with EXCEPT !.pc = seq[i + 1]]]
    BY DEF Goes
  <1>6. PICK i \in 1..(Len(seq) - 1) :
          /\ seq[i] = place
          /\ script' = [script EXCEPT ![s] = [with EXCEPT !.pc = seq[i + 1]]]
    BY <1>5
  <1>7. <<seq[i], seq[i + 1]>> \in Edges
    <2>1. CASE seq = Forward
      <3>1. Len(seq) - 1 = 18
        BY <1>4, <2>1
      <3> QED
        BY <1>1, <2>1, <3>1
    <2>2. CASE seq = Backward
      <3>1. Len(seq) - 1 = 9
        BY <1>4, <2>2
      <3> QED
        BY <1>2, <2>2, <3>1
    <2>3. CASE seq = Cleanup
      <3>1. Len(seq) - 1 = 2
        BY <1>4, <2>3
      <3> QED
        BY <1>3, <2>3, <3>1
    <2> QED   BY <2>1, <2>2, <2>3
  <1>8. Along(s, place, with)
    BY <1>6, <1>7 DEF Along
  <1> QED
    BY <1>8 DEF Goes, At

--------------------------------------------------------------------------------
\* The steps whose command line or host a script relies on.
Relying == {"start", "verify", "idle at last", "audit", "unbarrier", "release", "lift",
            "give up"}

\* A host that is started is one of the command line of that moment.
HostFollows ==
  host'.phase # "none" => \/ host.phase # "none" /\ host'.image = host.image
                          \/ host'.image = binPath /\ binPath' = binPath

Undisturbed(s) ==
  /\ script'[s] = script[s]
  /\ Living(s) => (lock' = s <=> lock = s)
  /\ Living(s) => \A v \in Version : <<v, s>> \in barrier => <<v, s>> \in barrier'
  /\ \A v \in Version : <<v, s>> \in barrier' => <<v, s>> \in barrier
  /\ script[s].pc \in Relying => binPath' = binPath
  /\ HostFollows

LEMMA UndisturbedKeeps ==
  ASSUME UpdateInv, NEW s \in Script, Undisturbed(s)
  PROVE  Guards(s)' /\ Course(s)'
  <1>1. script[s].old \in Version
    BY DEF UpdateInv, Inv, TypeInv, Memory
  <1>2. Guards(s) /\ Course(s)
    BY DEF UpdateInv
  <1>3. Guards(s)'
    BY <1>1, <1>2 DEF Guards, Undisturbed, Living
  <1>4. Course(s)'
    BY <1>2 DEF Course, Undisturbed, Relying, HostFollows
  <1> QED
    BY <1>3, <1>4

\* The service host by itself: the command line stays, and the console is the host's.
LEMMA HostMoves ==
  ASSUME UpdateInv,
         \/ EnsureChild \/ StartChild \/ NoChild \/ RunnerExits \/ Sweep \/ CloseJob
         \/ HostExits \/ HostFails \/ Recover \/ StartHost \/ StartNode \/ NodeExits
         \/ RequestStop \/ UNCHANGED hostVars
  PROVE  /\ binPath' = binPath
         /\ HostFollows
         /\ node' # None => node' = host'.image
  <1> USE DEF UpdateInv, Inv, TypeInv, HostInv, ConsoleInv, HostFollows
  <1>1. CASE StartChild \/ EnsureChild \/ NoChild
    BY <1>1 DEF StartChild, EnsureChild, NoChild
  <1>2. CASE RunnerExits \/ NodeExits \/ StartNode
    BY <1>2 DEF RunnerExits, NodeExits, StartNode
  <1>3. CASE Sweep \/ RequestStop
    BY <1>3 DEF Sweep, RequestStop
  <1>4. CASE CloseJob \/ HostExits \/ HostFails
    BY <1>4 DEF CloseJob, HostExits, HostFails
  <1>5. CASE StartHost
    BY <1>5 DEF StartHost
  <1>6. CASE Recover
    BY <1>6 DEF Recover
  <1>7. CASE UNCHANGED hostVars
    BY <1>7 DEF hostVars
  <1> QED
    BY <1>1, <1>2, <1>3, <1>4, <1>5, <1>6, <1>7

\* Consoles, hosts and the operator disturb no script that lives, nor what it relies on.
LEMMA OutsideKeeps ==
  ASSUME UpdateInv,
         \/ Boot \/ BootInVain \/ Execute \/ Persist \/ JobEnds \/ Leave \/ Around
         \/ ClearJob \/ StartService \/ (\E t \in Script : ClearUpdate(t))
         \/ UNCHANGED vars
  PROVE  UpdateInv'
  <1>1. Inv'
    BY ConsoleStep DEF UpdateInv
  <1>2. binPath' = binPath /\ HostFollows /\ (node' # None => node' = host'.image)
    BY HostMoves DEF Boot, BootInVain, Execute, Persist, JobEnds, Leave, Around, ClearJob,
       StartService, ClearUpdate, vars
  <1>3. script' = script
    BY DEF Boot, BootInVain, Execute, Persist, JobEnds, Leave, Around, ClearJob,
       StartService, ClearUpdate, vars, updateVars
  <1>4. ASSUME NEW s \in Script PROVE Undisturbed(s)
    <2>1. Living(s) => (lock' = s <=> lock = s)
      BY UpdateAssumption DEF Boot, BootInVain, Execute, Persist, JobEnds, Leave, Around,
         ClearJob, StartService, ClearUpdate, vars, updateVars, Living, UpdateInv, ConsoleInv,
         Idle
    <2>2. /\ Living(s) => \A v \in Version : <<v, s>> \in barrier => <<v, s>> \in barrier'
          /\ \A v \in Version : <<v, s>> \in barrier' => <<v, s>> \in barrier
      BY DEF Boot, BootInVain, Execute, Persist, JobEnds, Leave, Around, ClearJob,
         StartService, ClearUpdate, vars, updateVars, Living
    <2> QED
      BY <1>2, <1>3, <2>1, <2>2 DEF Undisturbed
  <1>5. ConsoleInv'
    <2>1. node' = None => job' = "none"
      BY HostAssumption DEF UpdateInv, ConsoleInv, Inv, TypeInv, Boot, BootInVain, Execute,
         Persist, JobEnds, Leave, Around, ClearJob, StartService, StartHost, StartNode,
         ClearUpdate, vars, updateVars, hostVars, Idle
    <2>2. job' = "running" => node' \in Legacy \/ lock' = Job
      BY UpdateAssumption DEF UpdateInv, ConsoleInv, Boot, BootInVain, Execute,
         Persist, JobEnds, Leave, Around, ClearJob, StartService, StartHost,
         ClearUpdate, vars, updateVars, hostVars, Found, EnsureChild, StartChild, NoChild,
         RunnerExits, Sweep, CloseJob, HostExits, HostFails, Recover
    <2> QED
      BY <1>2, <2>1, <2>2 DEF ConsoleInv
  <1>6. ASSUME NEW s \in Script PROVE Guards(s)' /\ Course(s)'
    BY <1>4, UndisturbedKeeps
  <1> QED
    BY <1>1, <1>5, <1>6 DEF UpdateInv

--------------------------------------------------------------------------------
\* A script configures only what it owns, and starts what is configured.
LEMMA ScriptMovesHost ==
  ASSUME UpdateInv, NEW s \in Script, Script_(s)
  PROVE  /\ binPath' # binPath => lock = s
         /\ HostFollows
         /\ ConsoleInv'
  <1>1. binPath' = binPath \/ Configure(s)
    BY HostMoves DEF Script_, ReadService, ReadVersion, Acquire, Barrier, Confirm, AssertIdle,
       Prepare, CheckService, Stop, Stopped, Start, Verify, Audit, Unbarrier, Release, Fails,
       MayRollBack, Keep, Killed, Asks, hostVars
  <1>2. Configure(s) => lock = s
    <2> SUFFICES ASSUME Configure(s) PROVE lock = s
      OBVIOUS
    <2>1. script[s].pc \in {"configure", "configure old"}
      BY GoesAlong DEF Configure
    <2> QED
      BY <2>1 DEF UpdateInv, Guards, Living, Owning
  <1>3. HostFollows /\ (node' # None => node' = host'.image)
    <2>1. CASE Configure(s)
      BY <2>1 DEF Configure, HostFollows, UpdateInv, ConsoleInv
    <2>2. CASE ~Configure(s)
      BY <2>2, HostMoves DEF Script_, ReadService, ReadVersion, Acquire, Barrier, Confirm,
         AssertIdle, Prepare, CheckService, Stop, Stopped, Start, Verify, Audit, Unbarrier,
         Release, Fails, MayRollBack, Keep, Killed, Asks
    <2> QED
      BY <2>1, <2>2
  <1>4. job' = job /\ node' = node
    BY DEF Script_, ReadService, ReadVersion, Acquire, Barrier, Confirm, AssertIdle, Prepare,
       CheckService, Stop, Stopped, Configure, Start, Verify, Audit, Unbarrier, Release, Fails,
       MayRollBack, Keep, Killed, Asks, consoleVars, hostVars, StartHost, RequestStop
  <1>5. lock = Job => lock' = Job
    BY UpdateAssumption DEF Script_, ReadService, ReadVersion, Acquire, Barrier, Confirm,
       AssertIdle, Prepare, CheckService, Stop, Stopped, Configure, Start, Verify, Audit,
       Unbarrier, Release, Fails, MayRollBack, Keep, Killed, Asks, consoleVars
  <1> QED
    BY <1>1, <1>2, <1>3, <1>4, <1>5 DEF UpdateInv, ConsoleInv

\* Another script takes the lock only when it is free, and gives up only its own.
LEMMA OthersUndisturbed ==
  ASSUME UpdateInv, NEW s \in Script, NEW t \in Script \ {s}, Script_(s)
  PROVE  Undisturbed(t)
  <1>1. script'[t] = script[t]
    BY DEF Script_, ReadService, ReadVersion, Acquire, Barrier, Confirm, AssertIdle, Prepare,
       CheckService, Stop, Stopped, Configure, Start, Verify, Audit, Unbarrier, Release, Fails,
       MayRollBack, Keep, Killed, Asks, Goes, UpdateInv, Inv, TypeInv
  <1>2. Living(t) => (lock' = t <=> lock = t)
    BY UpdateAssumption DEF Script_, ReadService, ReadVersion, Acquire, Barrier, Confirm,
       AssertIdle, Prepare, CheckService, Stop, Stopped, Configure, Start, Verify, Audit,
       Unbarrier, Release, Fails, MayRollBack, Keep, Killed, Asks, consoleVars
  <1>3. \A v \in Version : <<v, t>> \in barrier' <=> <<v, t>> \in barrier
    <2>1. CASE Barrier(s)
      BY <2>1 DEF Barrier
    <2>2. CASE Unbarrier(s)
      BY <2>2 DEF Unbarrier
    <2>3. CASE ~(Barrier(s) \/ Unbarrier(s))
      BY <2>3 DEF Script_, ReadService, ReadVersion, Acquire, Confirm, AssertIdle, Prepare,
         CheckService, Stop, Stopped, Configure, Start, Verify, Audit, Release, Fails,
         MayRollBack, Keep, Killed, Asks, consoleVars
    <2> QED
      BY <2>1, <2>2, <2>3
  <1>4. script[t].pc \in Relying => binPath' = binPath
    <2>1. script[t].pc \in Relying => lock = t
      BY DEF UpdateInv, Guards, Living, Owning, Relying
    <2> QED
      BY <2>1, ScriptMovesHost
  <1> QED
    BY <1>1, <1>2, <1>3, <1>4, ScriptMovesHost DEF Undisturbed

\* A step along the sequences, taken from place, after which the script remembers m.
Carried(s, place, m) ==
  /\ script[s].pc = place /\ <<place, script'[s].pc>> \in Edges
  /\ script'[s].old = m.old /\ script'[s].stopped = m.stopped
  /\ script'[s].locked = m.locked /\ script'[s].guarded = m.guarded

LEMMA GoesTo ==
  ASSUME UpdateInv, NEW s \in Script, NEW place, NEW with \in Memory, Goes(s, place, with)
  PROVE  Carried(s, place, with)
  <1>0. script[s].pc = place /\ Along(s, place, with)
    BY GoesAlong
  <1>1. PICK to : /\ <<place, to>> \in Edges
                  /\ script' = [script EXCEPT ![s] = [with EXCEPT !.pc = to]]
    BY <1>0 DEF Along
  <1>2. script'[s] = [with EXCEPT !.pc = to]
    BY <1>1 DEF UpdateInv, Inv, TypeInv
  <1>3. script'[s].pc = to
    BY <1>2 DEF Memory
  <1> QED
    BY <1>0, <1>1, <1>2, <1>3 DEF Memory, Carried

Step(s, place, to) == script[s].pc = place /\ script'[s].pc = to

Remembers(s, m) ==
  /\ m.old = script[s].old /\ m.stopped = script[s].stopped
  /\ m.locked = script[s].locked /\ m.guarded = script[s].guarded

\* The steps that only ask, or only remember.
Asking(s) ==
  \/ Step(s, "version", "acquire")
  \/ Step(s, "confirm", "idle")
  \/ Step(s, "idle", "prepare")
  \/ Step(s, "prepare", "idle again")
  \/ Step(s, "idle again", "check")
  \/ Step(s, "check", "stop")
  \/ Step(s, "stopping", "configure")
  \/ Step(s, "verify", "idle at last")
  \/ Step(s, "idle at last", "audit")
  \/ Step(s, "audit", "unbarrier")
  \/ Step(s, "ask", "ask store")
  \/ Step(s, "ask store", "ask service")
  \/ Step(s, "ask service", "stop new")
  \/ Step(s, "stopping new", "configure old")

LEMMA AskingKeeps ==
  ASSUME UpdateInv, NEW s \in Script,
         \/ ReadVersion(s) \/ Confirm(s) \/ AssertIdle(s) \/ Prepare(s) \/ CheckService(s)
         \/ Stopped(s) \/ Verify(s) \/ Audit(s) \/ MayRollBack(s)
  PROVE  Guards(s)' /\ Course(s)'
  <1>1. /\ script[s] \in Memory
        /\ [script[s] EXCEPT !.seen = node] \in Memory
        /\ [script[s] EXCEPT !.audit = stored] \in Memory
    BY DEF UpdateInv, Inv, TypeInv, Memory
  <1>2. \E m \in Memory : Remembers(s, m) /\ \E place : Goes(s, place, m)
    <2>1. CASE ReadVersion(s)
      <3>1. Remembers(s, [script[s] EXCEPT !.seen = node])
        BY <1>1 DEF Remembers, Memory
      <3> QED
        BY <1>1, <2>1, <3>1 DEF ReadVersion
    <2>2. CASE Prepare(s)
      <3>1. Remembers(s, [script[s] EXCEPT !.audit = stored])
        BY <1>1 DEF Remembers, Memory
      <3> QED
        BY <1>1, <2>2, <3>1 DEF Prepare
    <2>3. CASE ~(ReadVersion(s) \/ Prepare(s))
      <3>1. \E place : Goes(s, place, script[s])
        BY <2>3 DEF Confirm, AssertIdle, CheckService, Stopped, Verify, Audit, MayRollBack, Asks
      <3> QED
        BY <1>1, <3>1 DEF Remembers
    <2> QED
      BY <2>1, <2>2, <2>3
  <1>3. Remembers(s, script'[s]) /\ <<script[s].pc, script'[s].pc>> \in Edges
    BY <1>2, GoesTo DEF Carried, Remembers
  <1>4. UNCHANGED <<lock, barrier, binPath, host>>
    BY DEF ReadVersion, Confirm, AssertIdle, Prepare, CheckService, Stopped, Verify, Audit,
       MayRollBack, Asks, consoleVars, hostVars
  <1>5. Asking(s) /\ (Verify(s) \/ script[s].pc # "verify")
    <2>1. script[s].pc \in {"version", "confirm", "idle", "prepare", "idle again", "check",
              "stopping", "verify", "idle at last", "audit", "ask", "ask store",
              "ask service", "stopping new"} /\ (Verify(s) \/ script[s].pc # "verify")
      BY DEF ReadVersion, Confirm, AssertIdle, Prepare, CheckService, Stopped, Verify, Audit,
         MayRollBack, Asks, Goes, At
    <2> QED
      BY <1>3, <2>1 DEF Edges, Asking, Step
  <1>6. Guards(s)'
    BY <1>3, <1>4, <1>5 DEF UpdateInv, Guards, Living, Owning, Asking, Step, Remembers
  <1>7. Course(s)'
    <2>1. Verify(s) => host.image = Candidate[s]
      BY HostAssumption, UpdateAssumption DEF Verify, Asks, UpdateInv, ConsoleInv
    <2> QED
      BY <1>3, <1>4, <1>5, <2>1 DEF UpdateInv, Course, Asking, Step, Remembers
  <1> QED
    BY <1>6, <1>7

\* currentService: the old command line is remembered before there is a barrier for it.
LEMMA ReadServiceKeeps ==
  ASSUME UpdateInv, NEW s \in Script, ReadService(s)
  PROVE  Guards(s)' /\ Course(s)'
  <1>1. /\ script[s] \in Memory /\ binPath \in Version
        /\ [script[s] EXCEPT !.old = binPath, !.pid = host.pid] \in Memory
    BY DEF UpdateInv, Inv, TypeInv, Memory
  <1>2. /\ script[s].pc = "service"
        /\ <<script[s].pc, script'[s].pc>> \in Edges
        /\ script'[s].old = binPath /\ script'[s].stopped = script[s].stopped
        /\ script'[s].locked = script[s].locked /\ script'[s].guarded = script[s].guarded
    <2>1. Goes(s, "service", [script[s] EXCEPT !.old = binPath, !.pid = host.pid])
      BY DEF ReadService
    <2> QED
      BY <1>1, <2>1, GoesTo DEF Carried, Memory
  <1>3. Step(s, "service", "version")
    BY <1>2 DEF Edges, Step
  <1>4. Guards(s)'
    BY <1>1, <1>2, <1>3 DEF ReadService, consoleVars, UpdateInv, Guards, Living, Owning, Step
  <1>5. Course(s)'
    BY <1>2, <1>3 DEF ReadService, hostVars, UpdateInv, Course, Step
  <1> QED
    BY <1>4, <1>5

\* acquire, of publisher-update-guard.cjs.
LEMMA AcquireKeeps ==
  ASSUME UpdateInv, NEW s \in Script, Acquire(s)
  PROVE  Guards(s)' /\ Course(s)'
  <1>1. script[s] \in Memory /\ [script[s] EXCEPT !.locked = TRUE] \in Memory
    BY DEF UpdateInv, Inv, TypeInv, Memory
  <1>2. /\ script[s].pc = "acquire"
        /\ <<script[s].pc, script'[s].pc>> \in Edges
        /\ script'[s].old = script[s].old /\ script'[s].stopped = script[s].stopped
        /\ script'[s].locked /\ script'[s].guarded = script[s].guarded
    BY <1>1, GoesTo DEF Carried, Acquire, Memory
  <1>3. Step(s, "acquire", "barrier")
    BY <1>2 DEF Edges, Step
  <1>4. Guards(s)'
    BY <1>2, <1>3 DEF Acquire, UpdateInv, Guards, Living, Owning, Step
  <1>5. Course(s)'
    BY <1>2, <1>3 DEF Acquire, hostVars, UpdateInv, Course, Step
  <1> QED
    BY <1>4, <1>5

\* createLegacyBarrier, in the old directory.
LEMMA BarrierKeeps ==
  ASSUME UpdateInv, NEW s \in Script, Barrier(s)
  PROVE  Guards(s)' /\ Course(s)'
  <1>1. script[s] \in Memory /\ [script[s] EXCEPT !.guarded = TRUE] \in Memory
    BY DEF UpdateInv, Inv, TypeInv, Memory
  <1>2. /\ script[s].pc = "barrier"
        /\ <<script[s].pc, script'[s].pc>> \in Edges
        /\ script'[s].old = script[s].old /\ script'[s].stopped = script[s].stopped
        /\ script'[s].locked = script[s].locked /\ script'[s].guarded
    BY <1>1, GoesTo DEF Carried, Barrier, Memory
  <1>3. Step(s, "barrier", "confirm")
    BY <1>2 DEF Edges, Step
  <1>4. Guards(s)'
    BY <1>2, <1>3 DEF Barrier, UpdateInv, Guards, Living, Owning, Step
  <1>5. Course(s)'
    BY <1>2, <1>3 DEF Barrier, hostVars, UpdateInv, Course, Step
  <1> QED
    BY <1>4, <1>5

\* removeLegacyBarrier, wherever the script has come to.
LEMMA UnbarrierKeeps ==
  ASSUME UpdateInv, NEW s \in Script, Unbarrier(s)
  PROVE  Guards(s)' /\ Course(s)'
  <1>1. script[s] \in Memory /\ [script[s] EXCEPT !.guarded = FALSE] \in Memory
    BY DEF UpdateInv, Inv, TypeInv, Memory
  <1>2. /\ script[s].pc \in {"unbarrier", "lift", "clean barrier"}
        /\ <<script[s].pc, script'[s].pc>> \in Edges
        /\ script'[s].old = script[s].old /\ script'[s].stopped = script[s].stopped
        /\ script'[s].locked = script[s].locked /\ ~script'[s].guarded
    <2> DEFINE m == [script[s] EXCEPT !.guarded = FALSE]
    <2>1. PICK place \in {"unbarrier", "lift", "clean barrier"} : Goes(s, place, m)
      BY DEF Unbarrier
    <2>2. /\ m \in Memory /\ m.old = script[s].old /\ m.stopped = script[s].stopped
          /\ ~m.guarded /\ m.locked = script[s].locked
      BY <1>1 DEF Memory
    <2> HIDE DEF m
    <2>3. Carried(s, place, m)
      BY <2>1, <2>2, GoesTo
    <2> QED
      BY <2>2, <2>3 DEF Carried
  <1>3. \/ Step(s, "unbarrier", "release")
        \/ Step(s, "lift", "give up")
        \/ Step(s, "clean barrier", "clean lock")
    BY <1>2 DEF Edges, Step
  <1>4. Guards(s)'
    BY <1>2, <1>3 DEF Unbarrier, UpdateInv, Guards, Living, Owning, Step
  <1>5. Course(s)'
    BY <1>2, <1>3 DEF Unbarrier, hostVars, UpdateInv, Course, Step
  <1> QED
    BY <1>4, <1>5

\* releaseOperationLock: what has relied on the lock is over.
LEMMA ReleaseKeeps ==
  ASSUME UpdateInv, NEW s \in Script, Release(s)
  PROVE  Guards(s)' /\ Course(s)'
  <1>1. script[s] \in Memory /\ [script[s] EXCEPT !.locked = FALSE] \in Memory
    BY DEF UpdateInv, Inv, TypeInv, Memory
  <1>2. /\ script[s].pc \in {"release", "give up", "clean lock"}
        /\ <<script[s].pc, script'[s].pc>> \in Edges
        /\ script'[s].old = script[s].old /\ script'[s].stopped = script[s].stopped
        /\ ~script'[s].locked /\ script'[s].guarded = script[s].guarded
    <2> DEFINE m == [script[s] EXCEPT !.locked = FALSE]
    <2>1. PICK place \in {"release", "give up", "clean lock"} : Goes(s, place, m)
      BY DEF Release
    <2>2. /\ m \in Memory /\ m.old = script[s].old /\ m.stopped = script[s].stopped
          /\ ~m.locked /\ m.guarded = script[s].guarded
      BY <1>1 DEF Memory
    <2> HIDE DEF m
    <2>3. Carried(s, place, m)
      BY <2>1, <2>2, GoesTo
    <2> QED
      BY <2>2, <2>3 DEF Carried
  <1>3. \/ Step(s, "release", "passed")
        \/ Step(s, "give up", "start old")
        \/ Step(s, "clean lock", "refused")
    BY <1>2 DEF Edges, Step
  <1>4. Guards(s)'
    BY <1>2, <1>3, UpdateAssumption DEF Release, UpdateInv, Guards, Living, Owning, Step
  <1>5. Course(s)'
    BY <1>2, <1>3 DEF Release, hostVars, UpdateInv, Course, Step
  <1> QED
    BY <1>4, <1>5

\* Start-Service, with the command line the script has configured.
LEMMA StartKeeps ==
  ASSUME UpdateInv, NEW s \in Script, Start(s)
  PROVE  Guards(s)' /\ Course(s)'
  <1>1. script[s] \in Memory /\ [script[s] EXCEPT !.activated = TRUE] \in Memory
    BY DEF UpdateInv, Inv, TypeInv, Memory
  <1>2. /\ script[s].pc \in {"start", "start old"}
        /\ <<script[s].pc, script'[s].pc>> \in Edges
        /\ script'[s].old = script[s].old /\ script'[s].stopped = script[s].stopped
        /\ script'[s].locked = script[s].locked /\ script'[s].guarded = script[s].guarded
    <2>1. PICK m \in {script[s], [script[s] EXCEPT !.activated = TRUE]} :
            Goes(s, "start", m) \/ Goes(s, "start old", m)
      BY DEF Start
    <2>2. m \in Memory /\ Remembers(s, m)
      BY <1>1 DEF Remembers, Memory
    <2>3. \E place \in {"start", "start old"} : Carried(s, place, m)
      BY <2>1, <2>2, GoesTo
    <2> QED
      BY <2>2, <2>3 DEF Carried, Remembers
  <1>3. Step(s, "start", "verify") \/ Step(s, "start old", "restored")
    BY <1>2 DEF Edges, Step
  <1>4. Guards(s)'
    BY <1>2, <1>3 DEF Start, consoleVars, UpdateInv, Guards, Living, Owning, Step
  <1>5. Course(s)'
    BY <1>2, <1>3 DEF Start, StartHost, hostVars, UpdateInv, Course, Step
  <1> QED
    BY <1>4, <1>5

\* sc.exe config, by the owner of the lock.
LEMMA ConfigureKeeps ==
  ASSUME UpdateInv, NEW s \in Script, Configure(s)
  PROVE  Guards(s)' /\ Course(s)'
  <1>1. script[s] \in Memory
    BY DEF UpdateInv, Inv, TypeInv, Memory
  <1>2. /\ script[s].pc \in {"configure", "configure old"}
        /\ <<script[s].pc, script'[s].pc>> \in Edges
        /\ script'[s].old = script[s].old /\ script'[s].stopped = script[s].stopped
        /\ script'[s].locked = script[s].locked /\ script'[s].guarded = script[s].guarded
    BY <1>1, GoesTo DEF Carried, Configure, Memory
  <1>3. Step(s, "configure", "start") \/ Step(s, "configure old", "lift")
    BY <1>2 DEF Edges, Step
  <1>4. Guards(s)'
    BY <1>2, <1>3 DEF Configure, consoleVars, UpdateInv, Guards, Living, Owning, Step
  <1>5. Course(s)'
    BY <1>2, <1>3 DEF Configure, Goes, At, UpdateInv, Course, Step
  <1> QED
    BY <1>4, <1>5

\* Stop-Service, in the try block and in the catch block.
LEMMA StopSteps ==
  ASSUME UpdateInv, NEW s \in Script, Stop(s)
  PROVE  /\ \/ Step(s, "stop", "stopping") /\ script'[s].stopped
            \/ Step(s, "stop new", "stopping new")
         /\ script'[s].old = script[s].old
         /\ script'[s].locked = script[s].locked /\ script'[s].guarded = script[s].guarded
  <1>1. script[s] \in Memory /\ [script[s] EXCEPT !.stopped = TRUE] \in Memory
    BY DEF UpdateInv, Inv, TypeInv, Memory
  <1>2. CASE Goes(s, "stop", [script[s] EXCEPT !.stopped = TRUE])
    <2> DEFINE m == [script[s] EXCEPT !.stopped = TRUE]
    <2>1. /\ m \in Memory /\ m.old = script[s].old /\ m.stopped
          /\ m.locked = script[s].locked /\ m.guarded = script[s].guarded
      BY <1>1 DEF Memory
    <2> HIDE DEF m
    <2>2. Carried(s, "stop", m)
      BY <1>2, <2>1, GoesTo DEF m
    <2> QED
      BY <2>1, <2>2 DEF Carried, Edges, Step
  <1>3. CASE Goes(s, "stop new", script[s])
    <2>1. Carried(s, "stop new", script[s])
      BY <1>1, <1>3, GoesTo
    <2> QED
      BY <2>1 DEF Carried, Edges, Step
  <1> QED
    BY <1>2, <1>3 DEF Stop

\* From now on a failure goes to the catch block.
LEMMA StopKeeps ==
  ASSUME UpdateInv, NEW s \in Script, Stop(s)
  PROVE  Guards(s)' /\ Course(s)'
  <1>1. Guards(s)'
    BY StopSteps DEF Stop, consoleVars, UpdateInv, Guards, Living, Owning, Step
  <1>2. Course(s)'
    BY StopSteps DEF Course, Step
  <1> QED
    BY <1>1, <1>2

\* A failure before PASS: the catch block, or the finally block of a script that has
\* stopped nothing.
LEMMA FailsFrom ==
  ASSUME UpdateInv, NEW s \in Script, Fails(s)
  PROVE  /\ Remembers(s, script'[s]) /\ script[s].pc \in Busy
         /\ \/ script[s].stopped /\ script'[s].pc = "ask"
            \/ /\ ~script[s].stopped /\ script[s].pc \in {"service", "version"}
               /\ script'[s].pc = "refused"
            \/ ~script[s].stopped /\ script'[s].pc = "clean barrier"
  <1>1. script[s] \in Memory /\ script \in [Script -> Memory]
    BY DEF UpdateInv, Inv, TypeInv
  <1>2. Remembers(s, script'[s])
    BY <1>1 DEF Fails, Remembers, Memory
  <1>3. script[s].pc \in Busy
    <2>1. DOMAIN Forward = 1..19 /\ Forward[19] = "passed"
      BY DEF Forward
    <2>2. PICK i \in 1..19 : Forward[i] = script[s].pc /\ Forward[i] # "passed"
      BY <2>1 DEF Fails, ToSet
    <2>3. i \in 1..18
      BY <2>1, <2>2
    <2> QED
      BY <2>2, <2>3, ForwardEdges
  <1>4. \/ script[s].stopped /\ script'[s].pc = "ask"
        \/ /\ ~script[s].stopped /\ script[s].pc \in {"service", "version"}
           /\ script'[s].pc = "refused"
        \/ ~script[s].stopped /\ script'[s].pc = "clean barrier"
    BY <1>1 DEF Fails, Memory
  <1> QED
    BY <1>2, <1>3, <1>4

LEMMA FailsKeeps ==
  ASSUME UpdateInv, NEW s \in Script, Fails(s)
  PROVE  Guards(s)' /\ Course(s)'
  <1>1. Guards(s)'
    <2>1. UNCHANGED <<lock, barrier>> /\ Living(s)
      BY FailsFrom DEF Fails, consoleVars, Living, Busy
    <2>2. CASE script'[s].pc = "ask"
      <3>1. script[s].pc \in Owning
        BY FailsFrom, <2>2 DEF UpdateInv, Course, Busy, Owning
      <3> QED
        BY FailsFrom, <2>1, <2>2, <3>1 DEF UpdateInv, Guards, Living, Owning, Remembers
    <2>3. CASE script'[s].pc = "refused"
      BY FailsFrom, <2>1, <2>3 DEF UpdateInv, Guards, Living, Owning, Remembers
    <2>4. CASE script'[s].pc = "clean barrier"
      BY FailsFrom, <2>1, <2>4 DEF UpdateInv, Guards, Living, Owning, Remembers
    <2> QED
      BY FailsFrom, <2>2, <2>3, <2>4
  <1>2. Course(s)'
    BY FailsFrom DEF Course, Remembers
  <1> QED
    BY <1>1, <1>2

LEMMA EndsFrom ==
  ASSUME UpdateInv, NEW s \in Script, Keep(s) \/ Killed(s)
  PROVE  Remembers(s, script'[s]) /\ script'[s].pc \in {"kept", "dead"}
  <1>1. script[s] \in Memory /\ script \in [Script -> Memory]
    BY DEF UpdateInv, Inv, TypeInv
  <1> QED
    BY <1>1 DEF Keep, Killed, Remembers, Memory

\* An end that leaves lock and barrier for review.
LEMMA EndKeeps ==
  ASSUME UpdateInv, NEW s \in Script, Keep(s) \/ Killed(s)
  PROVE  Guards(s)' /\ Course(s)'
  <1>1. Guards(s)'
    BY EndsFrom DEF Keep, Killed, consoleVars, UpdateInv, Guards, Living, Owning, Remembers
  <1>2. Course(s)'
    BY EndsFrom DEF Course
  <1> QED
    BY <1>1, <1>2

LEMMA NextUpdateInv == UpdateInv /\ [Next]_vars => UpdateInv'
  <1> SUFFICES ASSUME UpdateInv, [Next]_vars PROVE UpdateInv'
    OBVIOUS
  <1>1. ASSUME NEW s \in Script, Script_(s) PROVE UpdateInv'
    <2>1. Inv' /\ ConsoleInv'
      BY <1>1, ScriptStep, ScriptMovesHost DEF UpdateInv
    <2>2. Guards(s)' /\ Course(s)'
      BY <1>1, ReadServiceKeeps, AcquireKeeps, BarrierKeeps, UnbarrierKeeps, ReleaseKeeps,
         StartKeeps, ConfigureKeeps, StopKeeps, FailsKeeps, EndKeeps, AskingKeeps DEF Script_
    <2>3. ASSUME NEW t \in Script \ {s} PROVE Guards(t)' /\ Course(t)'
      BY <1>1, OthersUndisturbed, UndisturbedKeeps
    <2> QED
      BY <2>1, <2>2, <2>3 DEF UpdateInv
  <1> QED
    BY <1>1, OutsideKeeps DEF Next

\* The scripts, the service and the consoles together: the invariant holds throughout.
THEOREM UpdateInvariance == Spec => []UpdateInv
  BY InitUpdateInv, NextUpdateInv, PTL DEF Spec

\* update-publisher.ps1:110-147: what the script writes when it ends is true, for any
\* number of updates that run beside each other or are killed.
THEOREM EndsTruthfully == Spec => EndsAsReported
  <1>1. UpdateInv /\ UpdateInv' /\ [Next]_vars =>
          [\A s \in Script : script'[s].pc # script[s].pc =>
             /\ script'[s].pc = "passed" =>
                  binPath = Candidate[s] /\ (host.phase # "none" => host.image = Candidate[s])
             /\ script'[s].pc = "start old" => binPath = script[s].old
             /\ script'[s].pc \in {"passed", "restored", "refused"} =>
                  lock' # s /\ \A v \in Version : <<v, s>> \notin barrier']_vars
    <2> SUFFICES ASSUME UpdateInv, UpdateInv', Next, NEW s \in Script,
                        script'[s].pc # script[s].pc
                 PROVE  /\ script'[s].pc = "passed" =>
                             /\ binPath = Candidate[s]
                             /\ host.phase # "none" => host.image = Candidate[s]
                        /\ script'[s].pc = "start old" => binPath = script[s].old
                        /\ script'[s].pc \in {"passed", "restored", "refused"} =>
                             lock' # s /\ \A v \in Version : <<v, s>> \notin barrier'
      OBVIOUS
    <2>1. Script_(s)
      <3>1. (\E t \in Script : Script_(t)) \/ script' = script
        BY DEF Next, Boot, BootInVain, Execute, Persist, JobEnds, Leave, Around, ClearJob,
           StartService, ClearUpdate, updateVars
      <3> QED
        BY <3>1, OthersUndisturbed DEF Undisturbed
    <2>2. /\ script'[s].pc = "passed" => script[s].pc = "release"
          /\ script'[s].pc = "start old" => script[s].pc = "give up"
      <3>1. CASE Fails(s) \/ Keep(s) \/ Killed(s)
        BY <3>1, FailsFrom, EndsFrom DEF UpdateInv
      <3>2. ASSUME NEW m \in Memory, NEW place, Goes(s, place, m)
            PROVE  <<script[s].pc, script'[s].pc>> \in Edges
        BY <3>2, GoesTo DEF Carried
      <3> QED
        BY <2>1, <3>1, <3>2, ScriptGoes DEF UpdateInv, Edges
    <2>3. /\ script'[s].pc = "passed" =>
               binPath = Candidate[s] /\ (host.phase # "none" => host.image = Candidate[s])
          /\ script'[s].pc = "start old" => binPath = script[s].old
      BY <2>2 DEF UpdateInv, Course
    <2>4. script'[s].pc \in {"passed", "restored", "refused"} =>
            lock' # s /\ \A v \in Version : <<v, s>> \notin barrier'
      BY DEF UpdateInv, Guards, Living
    <2> QED
      BY <2>3, <2>4
  <1> QED
    BY <1>1, UpdateInvariance, PTL DEF Spec, EndsAsReported

--------------------------------------------------------------------------------
(***************************************************************************)
(* Where every publisher knows the lock, no update takes a job down: from  *)
(* its first Assert-Idle on, the owner of the lock is the reason why there *)
(* is no job, and a service that stops has an owner.  (A publisher without *)
(* the lock is kept from jobs by the barrier, and that is not enough for   *)
(* any number of updates; README.md says when.)                            *)
(***************************************************************************)
Asked ==
  {"prepare", "idle again", "check", "stop", "stopping", "configure", "start", "verify",
   "idle at last", "audit", "unbarrier", "release", "ask", "ask store", "ask service",
   "stop new", "stopping new", "configure old", "lift", "give up"}

Quiet == job = "none" /\ stored = "none"

\* Where an update may be while the service it has stopped is still stopping.
Awaiting == {"stopping", "ask", "ask store", "ask service", "stop new", "stopping new", "kept",
             "dead"}

StopIsOwned ==
  host.phase \in {"stopping", "swept"} =>
    Quiet /\ \E s \in Script : lock = s /\ script[s].pc \in Awaiting

QuietInv ==
  /\ node # None /\ job = "none" => stored = "none"
  /\ \A s \in Script : script[s].pc \in Asked => Quiet
  /\ \A s \in Script : script[s].pc = "stopping" => script[s].stopped
  /\ StopIsOwned

LEMMA InitQuietInv == Init => QuietInv
  BY DEF Init, HostInit, Fresh, QuietInv, StopIsOwned, Quiet, Asked

\* Without a job there is nothing for a new console to recover.
LEMMA OutsideStaysQuiet ==
  ASSUME Legacy = {}, QuietInv, Quiet, lock # None,
         \/ Boot \/ BootInVain \/ Execute \/ Persist \/ JobEnds \/ Leave \/ Around
         \/ ClearJob \/ StartService \/ (\E t \in Script : ClearUpdate(t))
         \/ UNCHANGED vars
  PROVE  Quiet'
  BY DEF Boot, BootInVain, Execute, Persist, JobEnds, Leave, Around, ClearJob, StartService,
     ClearUpdate, vars, updateVars, Found, Quiet

\* A console that has come up, or ends a job, has written the store.
LEMMA StoreFollows ==
  ASSUME UpdateInv, QuietInv,
         \/ Boot \/ BootInVain \/ Execute \/ Persist \/ JobEnds \/ Leave \/ Around
         \/ ClearJob \/ StartService \/ (\E t \in Script : ClearUpdate(t))
         \/ UNCHANGED vars
  PROVE  node' # None /\ job' = "none" => stored' = "none"
  <1>1. CASE Boot \/ BootInVain \/ Execute \/ Persist \/ JobEnds \/ Leave
    BY <1>1 DEF Boot, BootInVain, Execute, Persist, JobEnds, Leave, NodeExits, Found, QuietInv,
       hostVars
  <1>2. CASE Around
    BY <1>2 DEF Around, QuietInv, UpdateInv, ConsoleInv, EnsureChild, StartChild, NoChild,
       RunnerExits, Sweep, CloseJob, HostExits, HostFails, Recover
  <1>3. CASE \/ ClearJob \/ StartService \/ (\E t \in Script : ClearUpdate(t))
             \/ UNCHANGED vars
    BY <1>3 DEF ClearJob, StartService, ClearUpdate, vars, updateVars, hostVars, StartHost,
       QuietInv
  <1> QED
    BY <1>1, <1>2, <1>3

LEMMA OutsideQuietInv ==
  ASSUME Legacy = {}, UpdateInv, QuietInv,
         \/ Boot \/ BootInVain \/ Execute \/ Persist \/ JobEnds \/ Leave \/ Around
         \/ ClearJob \/ StartService \/ (\E t \in Script : ClearUpdate(t))
         \/ UNCHANGED vars
  PROVE  QuietInv'
  <1>1. script' = script
    BY DEF Boot, BootInVain, Execute, Persist, JobEnds, Leave, Around, ClearJob,
       StartService, ClearUpdate, vars, updateVars
  <1>2. \A s \in Script : script'[s].pc \in Asked => Quiet'
    <2>1. \A s \in Script : script[s].pc \in Asked => lock = s
      BY DEF UpdateInv, Guards, Living, Owning, Asked
    <2> QED
      BY <1>1, <2>1, OutsideStaysQuiet, UpdateAssumption DEF QuietInv
  <1>3. StopIsOwned'
    <2> SUFFICES ASSUME host'.phase \in {"stopping", "swept"} PROVE StopIsOwned'
      BY DEF StopIsOwned
    <2>1. host.phase \in {"stopping", "swept"}
      BY DEF UpdateInv, Inv, TypeInv, Boot, BootInVain, Execute, Persist, JobEnds, Leave,
         Around, ClearJob, StartService, ClearUpdate, vars, updateVars, hostVars, EnsureChild,
         StartChild, NoChild, RunnerExits, Sweep, CloseJob, HostExits, HostFails, Recover,
         StartHost, StartNode, NodeExits
    <2>2. PICK s \in Script : Quiet /\ lock = s /\ script[s].pc \in Awaiting
      BY <2>1 DEF QuietInv, StopIsOwned
    <2>3. Quiet'
      BY <2>2, OutsideStaysQuiet, UpdateAssumption
    <2>4. lock' = lock
      BY <2>1, <2>2, UpdateAssumption DEF Boot, BootInVain, Execute, Persist, JobEnds, Leave,
         Around, ClearJob, StartService, ClearUpdate, vars, updateVars, Quiet, Idle
    <2> QED
      BY <1>1, <2>2, <2>3, <2>4 DEF StopIsOwned
  <1> QED
    BY <1>1, <1>2, <1>3, StoreFollows DEF QuietInv

\* Which steps lead to a step: Assert-Idle comes before all the others.
LEMMA AskedFollows ==
  ASSUME UpdateInv, NEW s \in Script, Script_(s), script'[s].pc \in Asked
  PROVE  script[s].pc \in Asked \/ Idle
  <1>1. CASE Fails(s)
    <2>1. script[s].pc \in Busy /\ script[s].stopped
      BY <1>1, FailsFrom DEF Asked
    <2> QED
      BY <2>1 DEF UpdateInv, Course, Busy, Asked
  <1>2. CASE Keep(s) \/ Killed(s)
    BY <1>2, EndsFrom DEF Asked
  <1>3. CASE ~(Fails(s) \/ Keep(s) \/ Killed(s))
    <2>1. PICK m \in Memory : \E place : Goes(s, place, m)
      BY <1>3, ScriptGoes DEF UpdateInv
    <2>2. <<script[s].pc, script'[s].pc>> \in Edges
      BY <2>1, GoesTo DEF Carried
    <2>3. script[s].pc \in Asked \/ script[s].pc = "idle"
      BY <2>2 DEF Edges, Asked
    <2>4. script[s].pc = "idle" => AssertIdle(s)
      BY <1>3 DEF Script_, ReadService, ReadVersion, Acquire, Barrier, Confirm, AssertIdle,
         Prepare, CheckService, Stop, Stopped, Configure, Start, Verify, Audit, Unbarrier,
         Release, MayRollBack, Asks, Goes, At
    <2> QED
      BY <2>3, <2>4 DEF AssertIdle, Asks
  <1> QED
    BY <1>1, <1>2, <1>3

\* Of the scripts' steps only Stop-Service makes the service stop.
LEMMA StopsByStop ==
  ASSUME UpdateInv, NEW s \in Script, Script_(s),
         host.phase \notin {"stopping", "swept"}, host'.phase \in {"stopping", "swept"}
  PROVE  Stop(s)
  <1>1. ~Start(s)
    <2>1. StartHost => host'.phase = "up"
      BY DEF StartHost
    <2> QED
      BY <2>1 DEF Start, hostVars
  <1>2. host' # host
    OBVIOUS
  <1> QED
    BY <1>1, <1>2 DEF Script_, ReadService, ReadVersion, Acquire, Barrier, Confirm, AssertIdle,
       Prepare, CheckService, Stopped, Configure, Verify, Audit, Unbarrier, Release, Fails,
       MayRollBack, Keep, Killed, Asks, hostVars

\* The owner of the lock does not go past a stop that is still under way.
LEMMA StopStaysOwned ==
  ASSUME UpdateInv, QuietInv, NEW s \in Script, Script_(s),
         host'.phase \in {"stopping", "swept"}
  PROVE  \E t \in Script : lock' = t /\ script'[t].pc \in Awaiting
  <1>1. CASE host.phase \notin {"stopping", "swept"}
    <2>1. Stop(s)
      BY <1>1, StopsByStop
    <2>2. Step(s, "stop", "stopping") \/ Step(s, "stop new", "stopping new")
      BY <2>1, StopSteps
    <2>3. lock' = lock /\ lock = s
      BY <2>1, <2>2 DEF Stop, consoleVars, UpdateInv, Guards, Living, Owning, Step
    <2> QED
      BY <2>2, <2>3 DEF Awaiting, Step
  <1>2. CASE host.phase \in {"stopping", "swept"}
    <2>1. PICK t \in Script : lock = t /\ script[t].pc \in Awaiting
      BY <1>2 DEF QuietInv, StopIsOwned
    <2>2. CASE t # s
      <3>1. script'[t] = script[t]
        BY <2>2, OthersUndisturbed DEF Undisturbed
      <3>2. lock' = lock
        BY <2>1, <2>2, UpdateAssumption DEF Script_, ReadService, ReadVersion, Acquire, Barrier,
           Confirm, AssertIdle, Prepare, CheckService, Stop, Stopped, Configure, Start, Verify,
           Audit, Unbarrier, Release, Fails, MayRollBack, Keep, Killed, Asks, consoleVars
      <3> QED
        BY <2>1, <3>1, <3>2
    <2>3. CASE t = s
      <3>1. ~Acquire(s) /\ ~Release(s) /\ ~Stopped(s)
        BY <1>2, <2>1, <2>3 DEF Acquire, Release, Stopped, Asks, Goes, At, Awaiting
      <3>2. lock' = lock
        BY <3>1 DEF Script_, ReadService, ReadVersion, Barrier, Confirm, AssertIdle, Prepare,
           CheckService, Stop, Configure, Start, Verify, Audit, Unbarrier, Fails, MayRollBack,
           Keep, Killed, Asks, consoleVars
      <3>3. script'[s].pc \in Awaiting
        <4>1. CASE Keep(s) \/ Killed(s)
          BY <4>1, EndsFrom DEF Awaiting
        <4>2. CASE Fails(s)
          <5>1. script[s].pc \in Busy
            BY <4>2, FailsFrom
          <5>2. script[s].stopped
            BY <2>1, <2>3, <5>1 DEF QuietInv, Busy, Awaiting
          <5> QED
            BY <4>2, <5>2, FailsFrom DEF Awaiting
        <4>3. CASE ~(Fails(s) \/ Keep(s) \/ Killed(s))
          <5>1. PICK m \in Memory : \E place : Goes(s, place, m)
            BY <4>3, ScriptGoes DEF UpdateInv
          <5>2. <<script[s].pc, script'[s].pc>> \in Edges
            BY <5>1, GoesTo DEF Carried
          <5>3. script[s].pc \notin {"stopping", "stopping new"}
            BY <3>1, <4>3 DEF Script_, ReadService, ReadVersion, Acquire, Barrier, Confirm,
               AssertIdle, Prepare, CheckService, Stop, Stopped, Configure, Start, Verify,
               Audit, Unbarrier, Release, MayRollBack, Asks, Goes, At
          <5> QED
            BY <2>1, <2>3, <5>2, <5>3 DEF Edges, Awaiting
        <4> QED
          BY <4>1, <4>2, <4>3
      <3> QED
        BY <2>1, <2>3, <3>2, <3>3
    <2> QED
      BY <2>2, <2>3
  <1> QED
    BY <1>1, <1>2

\* A script that goes on leaves what has become quiet so.
LEMMA ScriptQuietInv ==
  ASSUME UpdateInv, QuietInv, NEW s \in Script, Script_(s)
  PROVE  QuietInv'
  <1>1. job' = job /\ stored' = stored /\ node' = node
    BY DEF Script_, ReadService, ReadVersion, Acquire, Barrier, Confirm, AssertIdle, Prepare,
       CheckService, Stop, Stopped, Configure, Start, Verify, Audit, Unbarrier, Release, Fails,
       MayRollBack, Keep, Killed, Asks, consoleVars, hostVars, StartHost, RequestStop
  <1>2. \A t \in Script \ {s} : script'[t] = script[t]
    BY OthersUndisturbed DEF Undisturbed
  <1>3. script'[s].pc \in Asked => Quiet'
    BY <1>1, AskedFollows DEF QuietInv, Quiet, Idle
  <1>4. script'[s].pc = "stopping" => script'[s].stopped
    <2> SUFFICES ASSUME script'[s].pc = "stopping" PROVE script'[s].stopped
      OBVIOUS
    <2>1. ~(Fails(s) \/ Keep(s) \/ Killed(s))
      BY FailsFrom, EndsFrom
    <2>2. PICK m \in Memory : \E place : Goes(s, place, m)
      BY <2>1, ScriptGoes DEF UpdateInv
    <2>3. <<script[s].pc, script'[s].pc>> \in Edges
      BY <2>2, GoesTo DEF Carried
    <2>4. script[s].pc = "stop"
      BY <2>3 DEF Edges
    <2>5. Stop(s)
      BY <2>1, <2>4 DEF Script_, ReadService, ReadVersion, Acquire, Barrier, Confirm,
         AssertIdle, Prepare, CheckService, Stopped, Configure, Start, Verify, Audit,
         Unbarrier, Release, MayRollBack, Asks, Goes, At
    <2> QED
      BY <2>4, <2>5, StopSteps DEF Step
  <1>5. StopIsOwned'
    <2> SUFFICES ASSUME host'.phase \in {"stopping", "swept"} PROVE Quiet'
      BY StopStaysOwned DEF StopIsOwned
    <2>1. CASE host.phase \in {"stopping", "swept"}
      BY <1>1, <2>1 DEF QuietInv, StopIsOwned, Quiet
    <2>2. CASE host.phase \notin {"stopping", "swept"}
      <3>1. script[s].pc \in Asked
        BY <2>2, StopsByStop, StopSteps DEF Step, Asked
      <3> QED
        BY <1>1, <3>1 DEF QuietInv, Quiet
    <2> QED
      BY <2>1, <2>2
  <1> QED
    BY <1>1, <1>2, <1>3, <1>4, <1>5 DEF QuietInv, Quiet

\* update-publisher.ps1:51-96 and 117-129, where all publishers know the lock: whatever any
\* number of updates do, the stop of one takes no release job down.
THEOREM JobsSurvive == ASSUME Legacy = {} PROVE Spec => NoJobStopped
  <1>1. UpdateInv /\ QuietInv /\ [Next]_vars => QuietInv'
    BY OutsideQuietInv, ScriptQuietInv DEF Next
  <1>2. QuietInv /\ [Next]_vars =>
          [host.phase \in {"stopping", "swept"} /\ host'.phase \in {"swept", "closed"}
             => job' = job]_vars
    <2> SUFFICES ASSUME QuietInv, Next, host.phase \in {"stopping", "swept"}
                 PROVE  job' = job
      OBVIOUS
    <2>1. Quiet /\ lock # None
      BY UpdateAssumption DEF QuietInv, StopIsOwned
    <2>2. CASE \E s \in Script : Script_(s)
      BY <2>2 DEF Script_, ReadService, ReadVersion, Acquire, Barrier, Confirm, AssertIdle,
         Prepare, CheckService, Stop, Stopped, Configure, Start, Verify, Audit, Unbarrier,
         Release, Fails, MayRollBack, Keep, Killed, Asks, consoleVars
    <2>3. CASE ~\E s \in Script : Script_(s)
      BY <2>1, <2>3, OutsideStaysQuiet DEF Next, Quiet
    <2> QED
      BY <2>2, <2>3
  <1> QED
    BY <1>1, <1>2, InitQuietInv, UpdateInvariance, PTL DEF Spec, NoJobStopped
================================================================================
