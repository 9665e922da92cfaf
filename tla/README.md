# Verification of the release publisher

TLA+ models of the release publisher, their TLC configurations, and theorems
checked by TLAPS. Paths are those of the repository, seen from its root.

1. [The system](#the-system)
2. [The modules](#the-modules)
3. [What each run checks](#what-each-run-checks)
4. [Bounds](#bounds)
5. [Fairness](#fairness)
6. [Where code and documentation disagree](#where-code-and-documentation-disagree)
7. [Proofs](#proofs)
8. [What is not modelled](#what-is-not-modelled)

How to run: `tlc -config X.cfg M` for a run of `PROJECT.json`, `tlapm M_proof.tla`
for the theorems of `M`; those of OperationLock and PublisherUpdate are together
in `UpdateLock_proof.tla`, those of the release plan, the sequence of releases and
OutcomeStatus in `Releases_proof.tla`. In every module the definitions named `Slip...` are
plausible mistakes; no specification uses them, and `PROJECT.json` ("mutants")
pairs each with the property that exposes it.

## The system

The publisher is a Node.js server on a Windows desktop. A user asks it to
release a game or a forum; it builds a plan of steps, checks out the source in
a worktree of its own, runs every step as a child process (usually an SSH
client), and keeps a history. Production is a Docker Swarm host on the other
end of SSH.

| component | code | state it keeps | operations | what makes it correct |
|---|---|---|---|---|
| operation lock | `src/publisherOperationLock.js` | the lock directory and `owner.json` | acquire, release, `assertNoPublisherUpdate` | one operation at a time; nothing is let in when the owner is not known |
| console server | `server.js`, `src/releaseJobStore.js`, `src/publisherVersion.js` | `jobs`, `jobControllers`, timers, `.release-jobs.json`, `.release-history.json`, the restart flag | execute, cancel, progress, diagnosis, signal, load at start, version check and restart | one release at a time; the store names what runs; every release gets into the history; no restart takes a job down |
| release executor | `src/releasePublisherCore.js`, `executePlan` | completed steps, `recoveryBoundaryEntered`, `cutoverStarted`, `cutoverCommitted` | run a step, abort, compensate, decide on a rollback, roll back, restore Meelok | the reported outcome is true of production and stays true |
| deployment transaction | `scripts/game-deployment-transaction.py`, `src/gameDeploymentTransaction.js` | `docker-compose.yml`, backups, a receipt per backup, a flock | backup, prepare, attempt, compensate | "not submitted" and "attempted" are never said wrongly |
| Meelok maintenance | `src/gameMeelokMaintenance.js`, `src/meelokRecoverySupervisor.js` | the marker, the snapshot, `restore.state`, a flock | pause, supervised restore | what was stopped stays on record and is restored once |
| release plan and history | `createPlan`, `createForumPlan`, the source analysis, all in `src/releasePublisherCore.js` | `.release-history.json` | find the baseline, collect migrations, hold the impact assessment against them, emit the steps | the version in service finds its migrations and assets, whatever failed before it |
| offline cutovers | `src/gameTechnologyFormatCutover.js`, `src/gameCodegraphCutover.js` | a receipt and a dump on the host | stop the writers, dump, migrate, roll back by hand | incompatible data is only changed while nobody writes, and after a dump |
| publisher update | `scripts/update-publisher.ps1`, `src/publisherLegacyBarrier.js` | the service's command line, the barrier file, the lock | install a new publisher, or put the old one back | no running job is interrupted; a failed update stays closed |
| Windows service host | `service/RHospitalReleaseConsoleService.cs` | the child process, a timer, the stop flag | `EnsureChild`, `ChildExited`, stop | one console, restarted until the stop; none after it |
| standby candidate | `src/gameStandbyCandidate.js` | a local receipt and `operation.lock`; two nodes | distribute, verify, cutover, accept | the standby takes over only with what the primary has served |
| release outcome status | `src/releaseOutcomeStatus.js`, `scripts/read-game-runtime-status.py`, `public/release-status.js`, `scripts/verify-game-supplemental.cjs` | the shared sample and its file | sample, read, verify, show | an old sample is not shown as current, nor a verification beside a deployment it has not checked |
| console page | `public/app.js` | the job it follows, timers | submit, poll, cancel | answers of one job are not shown for another |

The remaining parts (`PROJECT.json` lists them all) are checks, generated
commands and reports: they may refuse, and keep no state that outlives them.

How they meet:

- the **server** and the **update script** are different processes that share
  the lock directory; the server asks `assertNoPublisherUpdate` again before a job;
- the **server** starts `executePlan` and hears of it through `onProgress`, an
  abort signal and one outcome; it writes the store now or 250 ms later;
- the **executor** sends the **transaction's** and **Meelok's** scripts over SSH.
  Aborting a command, or its timeout, kills the local client: the remote script
  may go on. Scripts meet each other only through flocks and files;
- after a restart the **server** restores Meelok from what the store says.

What is hard: remote scripts that outlive the command that sent them, a crash
between an effect and its record, cancellation at every `await`, a store that
is written later than the memory it mirrors, two processes and one lock, other
people's changes to the production files. `PROJECT.json` ("hazards") lists them
line by line, with the properties that would show them going wrong.

## The modules

**OperationMutex, OperationLock, UpdateLock_proof.** `OperationMutex` is the
promise: an exclusive right that, once its holder has died, is nobody's until
an operator clears it. `OperationLock` has one action per file operation of
`acquireOperationLock` (`MakeDir`, `Refuse`, `WriteOwner`, `WriteOwnerFails`),
`releaseOperationLock` (`CheckOwner`, `UnlinkOwner`, `RemoveDir`) and
`assertNoPublisherUpdate` (`AskGate`, `ReadGate`), the process's death between
any two, and the operator. It implements the promise.

**PublisherServer, PublisherServer_proof.** The server as seen from the event
loop. A callback that writes several files leaves the rest of its writes in
`todo`, in their order; nothing else runs until it is empty, but the process
may die between two of them or inside the write of the job store. `Execute`
with its continuation (`WriteOwner`, `Register`, `Persist`, `Start`) is
`createExecutionJob` and `runExecutionJobInIsolatedWorktree`; `Proceed`,
`Succeed`, `StepFails`, `StartRollback`, `EndRecovery`, `EndRestore`,
`EndDiagnosis` are what `executePlan` reports; `Cancel` and `Aborted` are
`cancelExecutionJob`; `FlushTimer` is `schedulePersistJobs`; `Signal` with
`Record` is `interruptRunningJobs`; `Boot` and `EndBootRestore` are
`loadStoredJobs` and `recoverInterruptedMeelok`; `CheckVersion`,
`RestartTimer`, `RestartExit` are the version monitor. The update script,
commits, edits and the operator are actions of the environment.

**ExecutorPlans, ReleaseExecutor, MCReleaseExecutor, ReleaseExecutor_proof.**
`executePlan` and `executePlanSteps`, opened up: the command of each step, and the
catch block with compensation, rollback decision, rollback and the controlled exit.
`ExecutorPlans` has the steps the executor treats apart and their order in the five
kinds of plan (`Backbone`); a plan is any sequence of steps that `Fits` one of them,
with whatever checks and builds in between. `MCReleaseExecutor` gives one short plan
of each kind. `alive` holds commands whose remote effect
may still happen; `Effect` and `Lost` decide, at any later moment. `takenOver`
records what the commit check has seen. `retry` is a release that started from a paused
rollout: what its `Effect` of the rollback puts back is the service, not the Compose file.

**DeploymentOutcome, DeployTransaction, DeployTransaction_proof.**
`DeploymentOutcome` is the promise: a request is either taken or ruled out for
good, and the publisher reports one of them only when it is true.
`DeployTransaction` has the four scripts of a release, one action per effect:
each `atomic_json`, each replacement of the Compose file, the request to Swarm
and its being taken later. Hashes are modelled by what is hashed. `Fail` may
happen to any script at any step, which covers both a refused check and a
kill; a script whose client is gone simply goes on.

**MeelokMaintenance, MeelokMaintenance_proof.** The pause and up to `MaxSends`
restores of each release, as scripts on the host: the flock, marker, snapshot,
`restore.state`, the supervisor and the body it starts, which keeps the flock
when the supervisor dies (`solo`). The publisher sends restores from three
places: the plan's step, a controlled exit, and a start after a crash.

**Selection, ReleasePlan, ReleaseAnalysis, ReleaseSequence, MCReleaseSequence,
Releases_proof.** `Selection` is `Array.filter`. `ReleasePlan` is `createPlan` and `createForumPlan` as functions: the sequence of step keys
for a request, each with the condition under which the code emits it, and the
refusals. `ReleaseAnalysis` is what comes before: the baseline that the history
holds for the target, the direction, the changed paths, the migrations in the
order of their expected hashes (`Sorting`, one script after the other as in
`sortReleaseMigrationsByDependencies`), the impact assessment that must fit exactly.
`ReleaseSequence` composes the two with what each step does to production, in
releases that follow each other: `Prepare` takes a request and the history's
state, `Step` walks the plan, `Fail` and `Interrupt` may come before or after
any effect, and the next release starts from what they have left.
A rollout converges, or Swarm pauses it: then `production.spec` is the new version and
`service` still the old one, and the next release may be a retry (`Retry`), which the
backup step only lets through with what `game-retry-baseline.py` asks for
(`BackUpAllowed`, `Witnessed`) and whose rollback goes to the version that serves
and leaves the Compose file alone (`Restored`). Each format's recovery boundary has a
file of its own (`Floor`). `MCReleaseSequence` has a project of eight commits on four branches; its ASSUME
`PlansFit` evaluates, for the checks and migrations of that project, what the
theorem `EveryPlanFits` says of all: a plan of `ReleasePlan` that is not refused
fits a kind of `ExecutorPlans`, so it is one that `ReleaseExecutor` walks.

**ServiceHost, PublisherUpdate, MCPublisherUpdate, UpdateLock_proof.** `ServiceHost`
is the Windows service: the command line, the host process with its stop flag, `EnsureChild`
from its four callers, split at the place where a stop can fall in
(`EnsureChild`, then `StartChild` or `NoChild`), the runner that restarts the console, the
sweep and the job object at the stop. `PublisherUpdate` extends it with
`scripts/update-publisher.ps1` step by step, its catch and finally blocks, the
barrier file that makes an old publisher refuse every action, and the lock.
Jobs begin and end in the console meanwhile; scripts, consoles and hosts may be
killed anywhere.

**StandbyCandidate, MCStandbyCandidate, StandbyCandidate_proof.** The four actions
of `executeCandidate` as processes that share a receipt and an
`operation.lock`, with every request to the two nodes answered, answered
without reaching its sender, or carried out after its sender has died (`late`).
What a node does with a request is external and taken from the receipts
`validateReady` and the client insist on.

**OutcomeStatus, Releases_proof.** What the page shows of the deployed game:
the sampler's three inspections on the host, the shared pending sample and its
file (`createOutcomeReader`), answers that are late, the panel with its own
timer, and a supplemental verification with its anchors before and after.
Samples carry their age; a deployment may return to an image it had before.

**ConsolePage, ConsolePage_proof.** `public/app.js` as far as it decides which job is followed:
submitting, resuming after a reload, the polling chain, cancelling; every
request is sent, served and answered in three actions, so that answers come
late, are lost, or are served by a restarted service that has forgotten the job.
The button works from the first paint, as in the code, so that a submission and the
resume may both take up a job. `race` is a history variable: it says whether that has
happened since the last reload, and no action reads it.

How the models meet: ReleaseExecutor takes the answers of the compensation as
true; that is what DeployTransaction shows. PublisherServer takes the outcomes
of `executePlan` as given; ReleaseExecutor shows what they mean, and
ReleaseSequence uses them in short form, one release after the other. Meelok's
pause and restore are one effect each in ReleaseExecutor, and scripts in
MeelokMaintenance. PublisherUpdate has one job in place of PublisherServer's
jobs, and the lock of OperationLock as a single variable, which is what its
refinement to OperationMutex allows.

## What each run checks

| run | what it shows |
|---|---|
| `operation_lock` | `Exclusive`: never two between mkdir and rmdir. `GateSeesUpdates`: two reads that are not atomic still never let a request pass beside an update. `ImplementsMutex`: every behaviour is one of OperationMutex |
| `server` | `OneExecution`: at most one release, Meelok recovery or diagnosis, and a release only under its lock. `StoreCoversExecution`: whatever runs is in the store. `QuietStore`: nothing else is. `RestartOnlyIdle`: the restart for a new version takes no job down. `RecordedBeforeForgotten`: no release leaves the store without a history entry, the write that is cut off excepted |
| `server_liveness` | `CancelEnds`: what is cancelled, recovers, is diagnosed or was interrupted comes to rest. `NewVersionLoaded`: a new version is loaded unless something named holds it back |
| `deploy_transaction` | `NotSubmittedIsFinal`: the verdict on a submission stays true, whatever orphaned scripts do. `RestoredStaysRestored`: a compensated candidate does not come back. `NoStacking`: no candidate is put on another one that production does not run. `ImplementsOutcome`: the refinement of DeploymentOutcome |
| `release_executor` | `CleanExit`: "failed" and "cancelled" mean production as it was, with nothing on its way. `RolledBackIsOld`, `ExecutedIsAccepted`: so for the other outcomes. `TargetStays`: no way back after an offline cutover, a cancelled commit and in the forum. `MeelokAnswered`: a pause is followed by a restore or a mark for the operator |
| `meelok_maintenance` | `StoppedIsMarked`: a stopped service is on record. `RestoreOnce`: no restore is replayed. `VerifiedIsRunning`: the marker goes, and VERIFIED comes, only with every service up |
| `release_sequence` | `ServedIsPrepared`: the version in service finds every migration up to its commit and its assets, however many releases before it have failed. `MigrationsInOrder`: none before the one whose result it expects. `AppliedOffline`: incompatible ones only while the writers are stopped, after a dump that has everything the earlier versions wrote. `RollbackRestores`: a reported rollback has undone service, Spec, Compose and settings; that of a retry has left the version that served, by its Spec too, and its own Compose file. `NoDowngrade`: nothing is replaced by an older or diverging commit |
| `publisher_update` | `NoJobStopped`: no stop an update causes takes a job down. `StoppedIsGone`: a stopped service has left no process, although `EnsureChild` may have met the stop half way. `EndsAsReported`: PASS, a rollback and a refusal leave command line, host, lock and barrier as they say |
| `standby_candidate` | `AcceptedHasServed`: the standby accepts only what the primary has served, late requests included. `DistributedIsReady`: a distribution without an error has its image and configuration in place and no reservation left. `BindingKept`: no retry replaces what a receipt has bound |
| `outcome_status` | `ShownCurrentIsRecent`: what is called current was read at most four minutes ago. `MatchedIsChecked`: a verification is called matching only beside the deployment all its checks ran against |
| `console_page` | `FollowedIsPolled`: the followed job has a polling chain. `NewestShown`: only the followed job is shown anew. `EndShown` (liveness): the end of a followed job is shown, unless the service forgets the job first. Besides, unless the button was pressed before the page had resumed and the resume then took up a job as well: there is one chain and it is about the followed job, no late answer turns the page back, and (`ReleasedIsOver`) the page lets go only of a job that is over |
| `finding_restart_recovery` | a counterexample, see below |

`TypeOK` is checked in `deploy_transaction`. In the other modules types are part
of the invariants that are proved.

## Bounds

| run | bounds | why they are enough |
|---|---|---|
| `operation_lock` | two jobs and two updates | each attempt passes once; a holder, a competitor of each kind and one that comes after a clean-up are there. The theorems drop the bound |
| `server` | two jobs, two crashes or signals, one commit, `KeepJobs = 1` | two jobs let one follow, compete with, or be pruned beside the other; two deaths allow one inside the recovery from the other; the real limit of 20 kept jobs would never be reached with few jobs. The theorems drop the bounds |
| `server_liveness` | one job, one crash, one commit | the properties speak of one job and one version; what another job could hold back is the lock, which crashes leave behind anyway |
| `deploy_transaction` | two releases, one foreign change | a release beside the orphans of another; a foreign change falls between any check and its use. The theorems drop both bounds |
| `release_executor` | one short plan of each kind, with a few of the steps in between | a step that is not apart changes only when a cancellation or a failure falls in, and there is one on each side of the apart ones. The theorems hold of every plan that fits |
| `meelok_maintenance` | two releases, two services, two restores sent for each | overlap of two restores, of a pause with a restore and of two releases; two services give a first, a last and a half-way. The theorems drop all three |
| `release_sequence` | two releases over eight commits on four branches, `HistoryLimit = 10`; 310,144 states | the second release starts from whatever a first one, a paused rollout, or the edits of the history, can leave. The project has every kind of migration, two formats with a boundary each in one line of commits, a branch without migrations for the retries, a wrong order of names and an assessment written for another baseline. Both boundaries in place with the second one's commit accepted, a retry that is accepted and one that is rolled back are all reached. The limit of entries (100 in the code) is not reached. The theorems drop the bounds, hold of every project and cover a history that is full, see the assumption below |
| `publisher_update` | three versions, two updates, three host processes | two updates meet, or the second comes after the first was killed; three hosts are the old one, the new one and the one of a rollback. The theorems drop the bounds; `JobsSurvive` is for publishers that all know the lock |
| `standby_candidate` | two candidates, two processes, `MaxLate = 1`, `MaxEvents = 3`; candidates and processes are symmetric | a retry beside a candidate of another release; three mishaps allow one in the handling of another, with a late request. The theorems drop the bounds |
| `outcome_status` | three deployments, two images, one check and one receipt; ages end at `Cap` = 4 units of 60 s | a deployment goes away and its image returns; ages beyond four are stale alike. The theorems drop the numbers of deployments, checks and receipts |
| `console_page` | two jobs and two stops of the service | two jobs are what the button and the resume can take up together, or one that is followed and one that takes its place; a stop, and a crash in the time after it. Three jobs with one stop pass as well, in six times the time. The theorems drop the bounds |

Assumptions the runs make, each a constant or an initial state:

- `BaselinesKept` (`release_sequence` and its theorems): the user deletes no history
  entry that is a target's baseline. Without it the next release would find no
  baseline, or an older one.
- `BaselinesFit` (the theorems only; in the run the history is never full): a full
  history of `HistoryLimit` entries does not end in the baseline of a target, which
  the next entry would push out. Nothing in the code sees to it: a hundred
  game releases, failed ones included, after the last one of the forum break it.
- `ExpectsAssumption`, `FirstAssumption` (ReleaseAnalysis, ReleaseSequence): a commit that
  has a migration has the one whose result it expects, and those that are there
  before the first release can be sorted. The code refuses a cycle in each release.
- `publisher_update`: the candidate knows the lock protocol (the versions in
  `Legacy`, which do not, are only ever replaced), and `Stop-Service` in the
  rollback either works or ends the rollback. The run has a legacy publisher and
  two updates; with a third one `NoJobStopped` fails, see below.
- `StartupContract = TRUE` (`release_sequence`; the theorems hold of both): the project
  has the check that a retry asks for, so that there are retries.
- `release_sequence` and its theorems: the game is updated start-first, as its Compose
  file says, so that a paused rollout leaves the old version serving
  (`game-retry-baseline.py` refuses a service that is not).
- operators (`OperatorRestores`, `OperatorRepairsCompose`): one who takes back an offline
  cutover restores the dump before the old version starts, and leaves whichever of the
  boundary files he likes; one may put back the Compose file of the version that serves.
- `outcome_status`: clocks of host, server and browser agree.

Deadlock is checked in `operation_lock`, `server`, `server_liveness`,
`outcome_status`, `console_page` and the finding. It is off where the system may
stop: every release, update or action has ended and its scripts too.

## Fairness

`server_liveness`, all of it weak (`Fairness` in PublisherServer): a callback that
has begun runs to its end; the 250 ms timer and the restart timer fire; recovery
commands, the Meelok restore and the diagnosis request, none of which can be
aborted, end at their own timeout (`runPowerShell`, the diagnosis request); the
service host starts the server again; the version is asked for again and again.
A plan step is *not* assumed to end: only a cancellation makes it. Nothing is
assumed of users, operators, the update script or the repository, so both
properties name what these can hold back.

`console_page`: timers fire and every request is answered or fails (weak); of the
polls of a chain, which are repeated once a second, some are served (strong,
`PollServed`). Nothing makes jobs end or users act.

## Where code and documentation disagree

- `finding_restart_recovery` (`RestartKeepsRecovery`): the report of the cutover
  commit, or of the recovery boundary, waits up to 250 ms for the store. A crash
  in that time ends in INTERRUPTED, against `README.md:549` and `:278`.

The models show some behaviour besides, which no document excludes clearly
enough for a run, or which a property leaves out by name:

- a release can be recorded twice: the history entry is written before the
  diagnosis is awaited, the store afterwards (`releasePublisherCore.js:1906`);
  and an interrupted rehearsal gets an entry like a release (`server.js:621`);
- a signal while Meelok is paused marks the job interrupted and drops it from
  the store: the next start has nothing to restore for (`server.js:606`);
- a write of the store that is cut off loses the job it named (`server.js:548`);
  `RecordedBeforeForgotten` leaves out this step and no other;
- the jobs are loaded before the port is taken (`server.js:252`): a second
  console marks the first one's running job (`BootInVain` in PublisherUpdate);
- the barrier file makes a publisher that starts beside it report a working
  tree that is not clean until it is started again (`publisherVersion.js:86`);
- a publisher that knows only the barrier file, and not the lock, may lose a job
  to the third of three updates. The host fails while the first update stops
  it, and Windows starts it again on the old command line before `sc config`; that
  update configures its candidate, is killed, and its guards are cleared by hand.
  The old console that runs now is not the one configured, so the second update
  reads the wrong directory and puts its barrier there
  (`update-publisher.ps1:35-60`), while what `/api/version` still reports of an
  earlier barrier makes it pass the confirmation. `JobsSurvive` is stated for
  publishers that know the lock;
- two releases with one `APP_TAG` have equal images for the compensation
  (`game-deployment-transaction.py:180`); the models give each its own;
- the button of the console works from the first paint, while `resumeActiveJob` runs
  after the whole of `loadConfig` (`public/app.js:1047-1050`, `:1295-1302`). A press in
  between may leave two polling chains, one of a job that another page has started.
  Then the chain that sees its job end lets go of the newly submitted one, which runs
  on unfollowed (`:1121`), although `README.md:40` has the button disabled while a job
  runs; or the page turns back to the older job (`:1074-1080`). `race = "both"` is that
  case; the properties of `console_page` that it breaks leave it out by name;
- the retry of a paused rollout needs a Compose file that names the version that serves
  (`game-deployment-transaction.py:142`), and the release before has left its own there.
  The retry ends with an error before its cutover until somebody repairs the file,
  which neither `CHANGELOG.md:5` nor `README.md:95` mentions. `OperatorRepairsCompose`
  is that repair: without it no retry in `release_sequence` would come further;
- after a restart of the service the ended jobs are forgotten: a page that
  still follows one polls 404 answers until it is reloaded (`public/app.js:1093`).

## Proofs

Every theorem holds for all values of the constants that satisfy the `ASSUME` of
its module: named values that differ, and bounds that are natural numbers. So
any number of jobs, releases, services, candidates, updates or pages' jobs is
covered, where a run has two or three, every plan that fits its kind, where a run
has one, and every project, where a run has one of eight commits. Some theorems ask
for more and say so: `JobsSurvive` has no legacy publisher, those of ReleaseSequence `BaselinesKept` and
`BaselinesFit`. No theorem assumes fairness. Each component has one inductive
invariant (`Inv`, `IInv` or `SequenceInv`), which TLC agreed with on the run's
instance: lemmas show that the initial states have it and that each action keeps
it, a theorem (`InvHolds`, `Invariance`, `ReleasesSafe`), where there is one, puts them
together, and what a property needs besides is a step over one transition.

| module | theorems | what the invariant adds, and why |
|---|---|---|
| `UpdateLock_proof`, of OperationLock | `TypeCorrect`, `MutualExclusion`, `OwnerAlwaysIdentifies`, `GateIsSound`, `Refinement` | mutual exclusion alone says nothing of the steps between two file operations: whoever is inside made the directory, `owner.json` names its maker and follows the stage of its writer, and there is no file without the directory. The refinement maps a step to a step of OperationMutex or to a stutter |
| `UpdateLock_proof`, of PublisherUpdate | `NothingLeftBehind`, `EndsTruthfully`, `JobsSurvive` | see below |
| `PublisherServer_proof` | `OneRelease`, `StoreNamesWork`, `NothingInterruptedTwice`, `RestartTakesNoJob`, `NothingForgotten` | a callback is not over between two of its writes. `StageInv` says what the rest in `todo` is about, `JobInv` that a job with a controller holds the lock, `StoreInv` that the store lags behind the memory only while a write or the timer is to come, `DownInv` what a process that has died leaves. `HistoryInv`, for the last theorem, relates the store to the history: what the store names with a plan is active in memory, waits to be recorded, or has its entry |
| `ReleaseExecutor_proof` | `FailedIsClean`, `RolledBackStays`, `ExecutedIsServed`, `PauseIsAnswered`, `TargetIsKept` | see below |
| `DeployTransaction_proof` | `TypeCorrect`, `NeverSubmittedLater`, `NoFalseAttempt`, `StaysRestored`, `Unstacked`, `Refinement` | an orphan goes on with what it has read: its phase and its request must fit the receipt (`PhaseOfStage`, `PhaseOfRequest`), a release has one receipt and is prepared once, what runs holds the flock, and a verdict was drawn from a receipt that can no longer change to the contrary (`VerdictProven`) |
| `MeelokMaintenance_proof` | `TypeCorrect`, `NeverLost`, `NoReplay`, `NoForeignRestore`, `VerdictIsEarned` | the flock outlives the supervisor with the body it started (`HoldsLock`, `Working`); a restore that has begun is on record in `restore.state` before its first command (`TriedIsRecorded`), so that the next one does not replay it |
| `StandbyCandidate_proof` | `StandbyFollowsPrimary`, `ReceiptsOnlyGrow`, `DistributionIsReady`, `OneProcess` | a late request still carries out what its dead sender had been allowed to ask for: `ServedInv` holds of requests as well as of processes; a process works on the receipt as it is stored (`LockInv`). For a distribution, `OnTheWay` says how far it has come at each step, that no request of an earlier attempt of its process is left, and that each reservation is one it knows of; `Keeps` is all that the others' steps have to leave alone |
| `Releases_proof`, of ReleaseSequence | `ReleasesServed`, `ReleasesMigrateInOrder`, `ReleasesMigrateOffline`, `ReleasesRollBack`, `ReleasesUpgrade`, `ReleasesSafe` | see below |
| `Releases_proof`, of ReleasePlan and ReleaseAnalysis | `EveryPlanFits`, `MigrationsSorted`, `MigrationsLead` | no invariant: what the functions return, for every input |
| `Releases_proof`, of OutcomeStatus | `CurrentIsRecent`, `MatchIsEarned`, `ReceiptsAreOfOne` | an answer is as old as its sample, a sample as the inspection it began with; a deployment's number, not its image, ties a receipt to what was checked (`VerifierInv`, `AnswerInv`, `PanelInv`) |
| `ConsolePage_proof` | `FollowedKeepsPolled`, `HeldUntilOver`, `NeverTurnsBack` | the followed job has a chain, and every chain is about a job that exists (`ChainInv`, `HeardInv`), whatever is pressed. Until jobs were taken up both ways (`race`), submitting, following and, before the button is pressed, resuming exclude each other (`TurnInv`), so there is one chain; jobs are numbered without a gap (`JobsInv`), so a submitted job is newer than the one shown (`KnownInv`) |

**The executor.** What an outcome says of production rests on which commands can
have been sent. `Begun` is the set of the steps the index has passed, the failed
one and the current one; `Flags` ties the executor's booleans to it
(`recoveryBoundaryEntered` is set if and only if a boundary step has begun),
`OnTheirWay` bounds what may still happen, `Settled` says that a step that has
succeeded no longer can, and `Origins` and `Results` relate what is new in production to
what has begun and to what has succeeded. That a plan fits gives the order: the lemmas up to
`BegunIsOrdered` derive from `Fits` that a deployment has the Compose file before it,
a commit the deployment, and an offline plan its cutover before all of them. So a
release that ends as failed without its compensation had not begun to change
anything, and one that has begun is compensated, held for the operator or
rolled back (`Compensated`, `Deciding`).

**The update.** `StoppedIsGone` speaks of two phases of the host only; its invariant
says that an `EnsureChild` which is half way belongs to a living host. For
`EndsAsReported` everything turns on the lock: `Guards` says that what a living
script remembers of its lock and barrier is so, and which steps only the lock's
owner takes, `Course` what the command line and the host are at each step. Another
script cannot disturb that (`OthersUndisturbed`), because whoever
configures, starts or stops the service owns the lock, and a host that is started
follows the command line of that moment (`HostFollows`). `JobsSurvive` adds
`QuietInv`: from its first `Assert-Idle` on the owner of the lock is the reason that
no console admits a job, and a service that is stopping has such an owner, alive,
waiting or dead.

**The sequence of releases.** `ServedIsPrepared` is not inductive. A deployment puts a
commit in service whose image, assets and migrations the steps before it have
brought; these steps were computed when the release was prepared, from a baseline
that the history shows, and not from what production holds. `SequenceInv` ties the
three together. `BaselineInv`: what was last accepted is still the baseline that the
history yields. `Sound`: the commit in service is equipped, the migrations up to the
baseline are applied and each follows the one it expects; while the writers are
stopped the dump is as good as the database, for an operator may go back to it.
`Planned`: the migrations of a release lead from the baseline to its commit
(`MigrationsLead`). `Reaches`: what the steps already done have brought, and that the
start of the release can still be gone back to.

A step keeps it because of the order of the plan. Nineteen steps matter
(`Marks`), and each has a rank; every other step is `Unmarked`. `Marked` says of a piece
of a plan which of them it has, in the order of their ranks. It is proved of each
piece of `createPlan` and `createForumPlan`, of their concatenation, of the steps
spliced in and of what is left when the recovery steps are taken out. So "the
checklist before the deployment", "the cutover before the migrations" and the rest are
consequences of the plan as it is emitted, for every request, and not
assumptions. `EveryPlanFits` follows from the same lemmas and closes the gap to
ReleaseExecutor, whose theorems hold of every plan that fits.

Sorting and filtering are recursive functions. The library's induction theorems
take an operator as a parameter and cannot be used; instead `Least` (every set of
numbers that is not empty has a least one, from the well-foundedness of `<`) shows that
there is no smallest number of steps for which the claim fails. That gives
`OnlyIs` (what a filter keeps, and in which order) and `MigrationsSorted`.

Only model-checked:

- liveness: `CancelEnds`, `NewVersionLoaded`, `EndShown`. They rest on fairness, hence
  on `ENABLED`, which the prover does not reason about;
- `NoJobStopped` beside a legacy publisher, for two updates (it is false for three).

The finding is a counterexample and rests on its run.

## What is not modelled

In the components that are modelled:

- a disk write that fails while the process lives on (`server.js:506`,
  `releasePublisherCore.js:1906`). A process that dies inside a write is modelled;
- the routes that delete or clear history entries and ask for a diagnosis by
  hand; `BaselinesKept` states what the release sequence needs of the first;
- the tests a script makes of containers, memory, `.env` and images before it
  acts. They are refusals without a reason: any step may fail;
- a rollout that Swarm pauses beside orphaned scripts: DeployTransaction has a service
  that takes a request or never does, and ReleaseSequence the pause;
- the result UNKNOWN of the version check, when git cannot be asked, and the content hash
  besides the commit (`publisherVersion.js:87-93`): a new version is a new commit;
- the identities a retry compares (image, container, task, signing): a version stands
  for them;
- one `APP_TAG` used for two releases, a scale request that Swarm takes after its
  client is gone, and Meelok records of the protocol before the present one;
- the text of logs, plans and commands, and git's own work in the worktree.

Whole components (the reasons are in `PROJECT.json`):

- *service recovery*, *history migration*: scripts an operator
  runs once; each checks its evidence, acts and exits;
- *release diagnostics*: a classification of error texts and one HTTP request,
  which PublisherServer has as the stage `diagnosis`;
- *preflight and local checks*, *production guards and bindings*: checks without
  state of their own. The executor and the plan have them as steps that pass or fail;
- *fatal rollback evaluation*: browser probes of the live site, which
  ReleaseExecutor lets confirm or refuse in every state;
- *full-flow acceptance*: a rehearsal of the publisher against fixtures.
