---------------------------- MODULE ReleaseSequence ----------------------------
(***************************************************************************)
(* Releases one after the other.  Each is prepared from the history that   *)
(* the earlier ones have left (ReleaseAnalysis.tla), planned               *)
(* (ReleasePlan.tla) and walked step by step through what its steps do to  *)
(* production; any step may fail before or after its effect, the release   *)
(* may be cancelled, and the publisher may be restarted.  How a failure is *)
(* handled is ReleaseExecutor.tla in short: the outcome, the compensated   *)
(* Compose file and the rollback.                                          *)
(*                                                                         *)
(* Production is described by the commits it holds.  A rollout that Swarm  *)
(* pauses leaves the release's Spec to the service and the old version     *)
(* serving (the game is updated start-first): spec and service differ      *)
(* until a rollback, an operator or a release that retries has settled it. *)
(* Commands that go on after their release has ended are in                *)
(* DeployTransaction.tla, Meelok is in MeelokMaintenance.tla, and a dry    *)
(* run changes nothing here.                                               *)
(***************************************************************************)
EXTENDS ReleaseAnalysis, ReleasePlan, ExecutorPlans

CONSTANTS
  First,         \* the commit in production at the beginning
  BaselinesKept, \* the user deletes no entry that is a target's baseline
  MaxReleases    \* bound: releases that are started

ASSUME FirstAssumption == First \in Commit /\ ~Cyclic(ScriptsUpTo(First))
ASSUME MaxReleasesAssumption == MaxReleases \in Nat

VARIABLES
  history,     \* .release-history.json, the newest entry first
  job,         \* the release that is being executed
  production,  \* the game's production host, its database, and the forum
  accepted,    \* per target, the last commit that was reported as released
  started      \* counts the releases

sequenceVars == <<history, job, production, accepted, started>>

Idle == [running |-> FALSE]

SequenceInit ==
  /\ history = <<[target |-> "game", commit |-> First, stack |-> TRUE, status |-> "EXECUTED",
                  done |-> Recorded \ {"game-rollback-command"}, witness |-> "none"]>>
  /\ job = Idle
  /\ production = [service |-> First, spec |-> First, previous |-> First, compose |-> First,
                   settings |-> TRUE, writers |-> TRUE, floors |-> {}, dump |-> <<>>,
                   migrated |-> ByDependency(Only(MigrationPaths, ScriptsUpTo(First))),
                   loaded |-> {First}, staged |-> {First}, forum |-> First,
                   backup |-> [service |-> First, spec |-> First, compose |-> First]]
  /\ accepted = [game |-> First, forum |-> "none"]
  /\ started = 0

--------------------------------------------------------------------------------
(***************************************************************************)
(* The request.                                                            *)
(***************************************************************************)
\* executePlan on what prepareReleaseRequest has pinned.
Prepare(target, commit, branch, stack, standby, reuse, force) ==
  LET baseline == BaselineCommit(history, target)
      request == [target |-> target, stack |-> stack, standby |-> standby, reuse |-> reuse,
                  assessed |-> ~reuse /\ Assessed(baseline, commit, target),
                  checks |-> IF reuse THEN {} ELSE RequiredChecks(baseline, commit, target),
                  migrations |-> IF target = "game" THEN Migrations(baseline, commit) ELSE <<>>]
  IN /\ ~job.running /\ started < MaxReleases
     /\ IF reuse THEN OnBranch(commit, branch) ELSE ~Refused(baseline, commit, branch, target, force)
     /\ ~PlanRefused(request)
     /\ job' = [running |-> TRUE, request |-> request, commit |-> commit,
                steps |-> Executed(request),
                next |-> 1, applied |-> 0,
                start |-> [service |-> production.service, spec |-> production.spec,
                           compose |-> production.compose, settings |-> production.settings]]
     /\ started' = started + 1
     /\ UNCHANGED <<history, production, accepted>>

Key == job.steps[job.next]
Done == {job.steps[i] : i \in 1..(job.next - 1)}
Game == job.request.target = "game"
Offline == OfflineCutover(job.request.migrations)

--------------------------------------------------------------------------------
(***************************************************************************)
(* What the steps do to production, and what their commands ask of it.     *)
(* Definitions named Slip... are plausible mistakes in the definition that *)
(* follows them; no specification uses them.                               *)
(***************************************************************************)
\* The release that the newest game release in need of recovery has left paused: it had
\* no migration, its checklist had passed, and its backup holds the version that serves.
Witnessed ==
  LET i == SelectInSeq(history, LAMBDA entry : /\ entry.target = "game"
                                              /\ entry.status = "RECOVERY_REQUIRED")
  IN /\ i # 0
     /\ history[i].commit = production.spec /\ history[i].witness = production.previous

\* A paused rollout is only built on if the version that serves can be proved to be the
\* one before it, by a release without migrations.
BackUpAllowed ==
  /\ production.writers
  /\ production.spec # production.service =>
       /\ job.request.migrations = <<>>
       /\ production.service = production.previous /\ Witnessed

\* The last backup has found a paused rollout: it holds the version that served as the
\* one to go back to, and the Spec as observed.
Retry(prod) == prod.backup.spec # prod.backup.service

\* The service is still what the last backup describes.
SnapshotCurrent ==
  /\ production.spec = production.backup.spec
  /\ Retry(production) => production.service = production.backup.service

\* The Compose file is the one of the backup, and names the version that serves.
ComposeOfService ==
  /\ production.compose = production.backup.compose
  /\ production.compose = production.backup.service

ImageLoaded == job.commit \in production.loaded

\* The file that marks the recovery boundary, one for each format.
Floor ==
  LET migrations == job.request.migrations
  IN IF CodegraphCutover(migrations) THEN "codegraph"
     ELSE IF Of("room", migrations) # {} THEN "room" ELSE "technology"

\* A recovery boundary is entered once, and its receipt asked for until the end.
CutoverAllowed == Floor \notin production.floors /\ SnapshotCurrent /\ production.writers

ReceiptHolds == Floor \in production.floors /\ ~production.writers

ServiceReady == IF Offline THEN ReceiptHolds ELSE production.writers

AllApplied == job.applied = Len(job.request.migrations)

ChecklistPasses == SnapshotCurrent /\ ImageLoaded /\ ServiceReady /\ AllApplied

\* The rollout has converged: only the target serves, and it is healthy.
RuntimeMatches ==
  production.service = job.commit /\ production.spec = job.commit /\ production.writers

\* A retry needs a target other than the version it protects, checked for its start.
RetryAllowed == Retry(production) => StartupContract /\ job.commit # production.backup.service

GamePrerequisite ==
  CASE Key = "backup-game-release" -> BackUpAllowed
    [] Key = "verify-codegraph-prerequisites" -> SnapshotCurrent /\ ImageLoaded
    [] Key \in Cutovers -> CutoverAllowed
    [] Key = "apply-database-migrations" -> ImageLoaded /\ AllApplied
    [] Key = "pre-deploy-checklist" -> ChecklistPasses
    [] Key = "update-remote-compose" -> SnapshotCurrent /\ (Offline \/ ComposeOfService)
    [] Key = "deploy-stack" ->
         production.compose = job.commit /\ SnapshotCurrent /\ ServiceReady /\ RetryAllowed
    [] Key \in {"commit-game-cutover", "final-runtime-check",
               "retire-design-image-settings-file"} -> RuntimeMatches
    [] OTHER -> TRUE

Prerequisite == Game => GamePrerequisite

\* The offline cutover does not take the whole database down first.
SlipCutover == [production EXCEPT !.writers = FALSE, !.floors = @ \cup {Floor}]

\* One that fails half-way counts as one that has happened: its boundary stays.
Cutover ==
  [production EXCEPT !.writers = FALSE, !.floors = @ \cup {Floor}, !.dump = production.migrated]

BackUp ==
  [production EXCEPT !.backup = [service |-> production.service, spec |-> production.spec,
                                 compose |-> production.compose]]

\* The new Spec is there at once; Swarm's rollout converges, or is paused.
Submit == [production EXCEPT !.previous = production.spec, !.spec = job.commit]

Deploy(converges) ==
  IF converges THEN [Submit EXCEPT !.service = job.commit, !.writers = TRUE] ELSE Submit

RetireSettings == [production EXCEPT !.settings = FALSE]

GameEffect(converges) ==
  CASE Key = "publish-image" -> [production EXCEPT !.loaded = @ \cup {job.commit}]
    [] Key = "stage-game-static-assets" -> [production EXCEPT !.staged = @ \cup {job.commit}]
    [] Key = "backup-game-release" -> BackUp
    [] Key \in Cutovers -> Cutover
    [] Key = "update-remote-compose" -> [production EXCEPT !.compose = job.commit]
    [] Key = "deploy-stack" -> Deploy(converges)
    [] Key = "retire-design-image-settings-file" -> RetireSettings
    [] OTHER -> production

\* A forum image that is reused may be any.
ForumEffect ==
  IF Key # "deploy-forum-compose" THEN production
  ELSE [production EXCEPT !.forum = IF job.request.reuse THEN "other" ELSE job.commit]

Performed(converges) == IF Game THEN GameEffect(converges) ELSE ForumEffect

\* One migration: the writers of an offline release must still be stopped.  A
\* script that has been applied before changes nothing.
Migrate ==
  /\ job.running /\ Key = "apply-database-migrations"
  /\ ImageLoaded /\ ~AllApplied
  /\ Offline => ReceiptHolds
  /\ LET script == job.request.migrations[job.applied + 1]
     IN production' = [production EXCEPT !.migrated =
                         IF script \in ToSet(@) THEN @ ELSE Append(@, script)]
  /\ job' = [job EXCEPT !.applied = @ + 1]
  /\ UNCHANGED <<history, accepted, started>>

Step(converges) ==
  /\ job.running /\ job.next < Len(job.steps)
  /\ Prerequisite
  /\ production' = Performed(converges)
  /\ job' = [job EXCEPT !.next = @ + 1]
  /\ UNCHANGED <<history, accepted, started>>

--------------------------------------------------------------------------------
(***************************************************************************)
(* How a release ends.                                                     *)
(***************************************************************************)
\* retryHistoryEvidence: the version that the backup of a release without migrations
\* holds, if its checklist has passed.
Witness(done) ==
  IF /\ {"backup-game-release", "pre-deploy-checklist"} \subseteq done
     /\ job.request.migrations = <<>>
  THEN production.backup.service ELSE "none"

Entry(status, done) ==
  [target |-> job.request.target,
   commit |-> IF "capture-release-commit" \in done THEN job.commit ELSE "none",
   stack |-> job.request.stack, status |-> status, done |-> done \cap Recorded,
   witness |-> Witness(done)]

End(status, done, final) ==
  /\ history' = Append100(history, Entry(status, done))
  /\ production' = final
  /\ accepted' = IF Successful(Entry(status, done), job.request.target)
                 THEN [accepted EXCEPT ![job.request.target] = job.commit] ELSE accepted
  /\ job' = Idle
  /\ UNCHANGED started

Finish ==
  /\ job.running /\ job.next = Len(job.steps)
  /\ Prerequisite
  /\ End("EXECUTED", Done \cup {Key}, Performed(TRUE))

Boundary == IF Game THEN Cutovers ELSE {"update-remote-compose"}
Reached == Done \cup {Key}
Crossed == Reached \cap Boundary # {}
Committed == Game /\ "commit-game-cutover" \in Done

\* The cutover transaction can tell that nothing was submitted.
Compensable == Game /\ ~Offline /\ ~Committed /\ "update-remote-compose" \in Reached

Attempted(happened) == "deploy-stack" \in Done \/ (Key = "deploy-stack" /\ happened)

Compensated(final) == [final EXCEPT !.compose = job.start.compose]

\* What is left to an operator without any further check.
MustHold(cancelled) ==
  \/ Crossed
  \/ Key = "deploy-stack" /\ job.request.standby
  \/ Key = "accept-game-standby-candidate"
  \/ Committed /\ cancelled

Evaluated == Game /\ "deploy-stack" \in Reached
               /\ (Committed \/ "verify-tradepool-release" \notin Done)

\* game-rollback-command puts back what the last backup holds, if the Spec before this
\* one is the one the backup has found: the settings file first, the Compose file last.
CanRestore(final) == final.previous = final.backup.spec

\* Swarm is always told to go back to the Spec before, in a retry as well.
SlipRestored(final) ==
  [final EXCEPT !.settings = @ \/ job.start.settings, !.service = final.previous,
                !.spec = final.previous, !.previous = final.spec,
                !.compose = IF Retry(final) THEN @ ELSE final.backup.compose]

\* The Compose file that a retry has written is kept as it is.
Restored(final) ==
  [final EXCEPT !.settings = @ \/ job.start.settings, !.service = final.backup.service,
                !.spec = final.backup.service, !.previous = final.spec,
                !.compose = IF Retry(final) THEN @ ELSE final.backup.compose]

\* How far it gets: the Spec that is submitted converges or does not.
PartlyRestored(final) ==
  LET settings == [final EXCEPT !.settings = @ \/ job.start.settings]
      submitted == [settings EXCEPT !.spec = final.backup.service, !.previous = final.spec]
      converged == [submitted EXCEPT !.service = final.backup.service]
  IN {final, settings, submitted, converged, Restored(final)}

\* The step fails, times out or is cancelled, its effect there or not.
Fail(happened, converges, cancelled) ==
  LET final == IF happened THEN Performed(converges) ELSE production
      decided == ~Compensable \/ Attempted(happened)
  IN /\ job.running
     /\ happened => Prerequisite
     /\ \/ ~decided /\ End("ERROR", Done, Compensated(final))
        \/ ~decided /\ End("RECOVERY_REQUIRED", Done, final)
        \/ decided /\ ~MustHold(cancelled) /\ ~Evaluated /\ End("ERROR", Done, final)
        \/ decided /\ (MustHold(cancelled) \/ Evaluated) /\ End("RECOVERY_REQUIRED", Done, final)
        \/ /\ decided /\ ~MustHold(cancelled) /\ Evaluated
           /\ \/ /\ CanRestore(final)
                 /\ End("ROLLED_BACK", Done \cup {"game-rollback-command"}, Restored(final))
              \/ \E rest \in PartlyRestored(final) :
                   /\ rest # final => CanRestore(final)
                   /\ End("RECOVERY_REQUIRED", Done, rest)

\* The publisher is restarted: the job is marked and entered in the history.
Interrupt(happened, converges) ==
  /\ job.running
  /\ happened => Prerequisite
  /\ End(IF Committed \/ Crossed THEN "RECOVERY_REQUIRED" ELSE "INTERRUPTED", Done,
         IF happened THEN Performed(converges) ELSE production)

\* The user deletes an entry, or the whole history.  During a release that is as
\* good as before or after it.
EditHistory ==
  /\ ~job.running /\ started < MaxReleases
  /\ \E rest \in {Delete(history, i) : i \in DOMAIN history} \cup {<<>>} :
       /\ BaselinesKept =>
            \A t \in Targets : BaselineCommit(rest, t) = BaselineCommit(history, t)
       /\ history' = rest
  /\ UNCHANGED <<job, production, accepted, started>>

\* An operator takes back an offline cutover that has not been followed by a
\* deployment that converged: the dump is restored, the old version started again, and
\* the marks of the boundary removed that he thinks fit.
OperatorRestores ==
  /\ ~job.running /\ ~production.writers
  /\ \E rest \in SUBSET production.floors :
       production' = [production EXCEPT !.migrated = production.dump, !.writers = TRUE,
                        !.floors = rest, !.compose = production.service,
                        !.spec = production.service]
  /\ UNCHANGED <<history, job, accepted, started>>

\* An operator puts back the Compose file of the version that serves, as a release has
\* left another one there and the next is refused.
OperatorRepairsCompose ==
  /\ ~job.running /\ production.writers
  /\ production.compose # production.service
  /\ production' = [production EXCEPT !.compose = production.service]
  /\ UNCHANGED <<history, job, accepted, started>>

SequenceNext ==
  \/ \E c \in Commit, b \in Branch, stack \in BOOLEAN :
       \/ \E standby, force \in BOOLEAN : Prepare("game", c, b, stack, standby, FALSE, force)
       \/ \E reuse, force \in BOOLEAN : Prepare("forum", c, b, stack, FALSE, reuse, force)
  \/ Migrate \/ Finish
  \/ \E converges \in BOOLEAN : Step(converges)
  \/ \E happened, converges, cancelled \in BOOLEAN : Fail(happened, converges, cancelled)
  \/ \E happened, converges \in BOOLEAN : Interrupt(happened, converges)
  \/ EditHistory \/ OperatorRestores \/ OperatorRepairsCompose

SequenceSpec == SequenceInit /\ [][SequenceNext]_sequenceVars

\* Not seen to by the code: the entry that a full history drops next is no target's
\* baseline.
BaselinesFit ==
  Len(history) = HistoryLimit =>
    \A t \in Targets : BaselineCommit(Front(history), t) = BaselineCommit(history, t)

--------------------------------------------------------------------------------
\* The version in service finds its assets and its database: every migration up
\* to its commit has been applied, however many releases have failed or been
\* interrupted in between.
ServedIsPrepared ==
  /\ production.service \in production.loaded \cap production.staged
  /\ ScriptsUpTo(production.service) \subseteq ToSet(production.migrated)

\* No migration comes without, or before, the one whose result it expects.
MigrationsInOrder ==
  \A i \in DOMAIN production.migrated :
    LET expected == Expects[production.migrated[i]]
    IN expected \in Migration => \E j \in 1..i : production.migrated[j] = expected

\* A migration that the old version cannot live with is only applied while
\* nobody writes, and after a dump of the database as it was when the game stopped.
AppliedOffline ==
  [][production'.migrated # production.migrated /\ job.running =>
       LET script == Last(production'.migrated)
       IN Kind[script] \in {"technology", "room", "codegraph"} =>
            /\ ~production.writers
            /\ ToSet(production.migrated) \subseteq
                 ToSet(production.dump) \cup ToSet(SubSeq(job.request.migrations, 1, job.applied))]_sequenceVars

\* A release that reports a rollback has left the version that served when it began, by
\* its Spec too, and the settings file and the Compose file as it found them.  If it found
\* a paused rollout, it has not gone back to that: the Spec is now of the version that
\* serves, and the Compose file is left as the release has written it.
RollbackRestores ==
  [][job.running /\ history' # history /\ history'[1].status = "ROLLED_BACK" =>
       /\ production'.service = job.start.service
       /\ production'.spec = job.start.service
       /\ production'.compose = IF job.start.spec = job.start.service
                                THEN job.start.compose ELSE job.commit
       /\ job.start.settings => production'.settings]_sequenceVars

\* A deployment never replaces what was last reported as released by an older or
\* a diverging commit.
NoDowngrade ==
  [][/\ production'.service # production.service =>
          \/ production'.service = job.start.service
          \/ accepted["game"] \in Past[production'.service]
     /\ production'.forum # production.forum /\ ~job.request.reuse =>
          accepted["forum"] = "none" \/ accepted["forum"] \in Past[production'.forum]]_sequenceVars

================================================================================
