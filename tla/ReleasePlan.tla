------------------------------ MODULE ReleasePlan ------------------------------
(***************************************************************************)
(* createPlan and createForumPlan: which steps a release consists of, and  *)
(* in which order, given what the user asks for, the migrations between    *)
(* the baseline and the target, and the checks that the target commit's    *)
(* impact assessment requires.  A step is its key; what its command does   *)
(* to production is in ReleaseSequence.tla.                                *)
(*                                                                         *)
(* A request p has the fields                                              *)
(*   target      "game" or "forum"                                         *)
(*   stack       includeStackDeploy                                        *)
(*   standby     requireStandbyCandidate                                   *)
(*   reuse       forumImageMode = "reuse"                                  *)
(*   assessed    there is an impact assessment to hold the plan against    *)
(*   checks      the steps that assessment requires                        *)
(*   migrations  the migrations, in the order in which they are applied    *)
(* A dry run executes none of the steps.                                   *)
(***************************************************************************)
EXTENDS Naturals, Sequences, SequencesExt, Selection

CONSTANTS
  Kind,             \* what a migration is to createPlan
  OnPrd2,           \* the game's host is the second production host
  StartupContract   \* the target has a startup contract to be checked

Kinds == {"plain", "settings", "technology", "room", "codegraph"}

ASSUME KindAssumption == \A m \in DOMAIN Kind : Kind[m] \in Kinds

When(condition, steps) == IF condition THEN steps ELSE <<>>
Of(kind, migrations) == {m \in ToSet(migrations) : Kind[m] = kind}

\* The two technology migrations are released together, or not at all.
TechnologyPair == {m \in DOMAIN Kind : Kind[m] = "technology"}

HalfTechnology(migrations) == Of("technology", migrations) \notin {{}, TechnologyPair}

TechnologyCutover(migrations) ==
  Of("technology", migrations) # {} \/ Of("room", migrations) # {}

CodegraphCutover(migrations) == Of("codegraph", migrations) # {}

OfflineCutover(migrations) == TechnologyCutover(migrations) \/ CodegraphCutover(migrations)

Retirement(migrations) == Of("settings", migrations) # {}

--------------------------------------------------------------------------------
(***************************************************************************)
(* What createPlan refuses.                                                *)
(***************************************************************************)
\* Two checks that are only worth something together.
Coupled == {{"verify-game-steam-auth", "verify-game-steam-runtime"},
            {"verify-game-emergency-guard", "verify-game-emergency-guard-runtime"},
            {"verify-game-tomcat-image", "verify-game-tomcat-runtime"}}

CutoverRefused(p) ==
  \/ HalfTechnology(p.migrations)
  \/ CodegraphCutover(p.migrations) /\ TechnologyCutover(p.migrations)
  \/ /\ CodegraphCutover(p.migrations)
     /\ ~({"verify-codegraph-prerequisites", "codegraph-offline-cutover"} \subseteq p.checks)
  \/ /\ TechnologyCutover(p.migrations) /\ p.assessed
     /\ "technology-offline-cutover" \notin p.checks
  \/ Retirement(p.migrations) /\ "retire-design-image-settings-file" \notin p.checks
  \/ p.stack /\ p.standby /\ OfflineCutover(p.migrations)

ChecksRefused(p) == \E pair \in Coupled : pair \cap p.checks \notin {{}, pair}

--------------------------------------------------------------------------------
(***************************************************************************)
(* The steps of a game release.                                            *)
(***************************************************************************)
SourceSteps(p) ==
  <<"git-status-before-update", "validate-release-input",
    "validate-game-static-delivery-prerequisites">>
  \o When(p.stack, <<"game-meelok-readiness">>)
  \o When(p.stack /\ ~OfflineCutover(p.migrations), <<"validate-game-release-resources">>)
  \o <<"git-fetch", "git-update", "capture-release-commit">>
  \o When(p.assessed, <<"validate-release-impact-checklist">>)
  \o <<"validate-game-sso-source">>

\* The checks that run on the publisher's machine, each only when it is required.
LocalEvidence ==
  <<"verify-game-epidemic-flow", "verify-game-medical-contest-entry",
    "verify-game-client-fingerprint", "verify-game-hospital-skin-fallback",
    "verify-game-void-rewards", "verify-game-doorplate-ui", "verify-bacteria-result-ui",
    "verify-bacteria-entry-style", "verify-toilet-market",
    "verify-bacteria-authoritative-challenges", "verify-bacteria-gates", "verify-game-loading",
    "verify-hospital-hud", "verify-bacteria-ranking", "verify-game-fault-reports",
    "verify-bacteria-region-covers", "verify-game-steam-auth",
    "verify-game-special-clinic-atlas", "verify-design-level-packages",
    "verify-game-potion-lab", "verify-game-emergency-guard">>

RequiredEvidence(p) == Only(LocalEvidence, p.checks)

EvidenceSteps(p) ==
  When(RequiredEvidence(p) # <<>>,
       <<"install-game-release-node-dependencies", "validate-game-release-preflight">>)
  \o <<"test-game-backend">> \o RequiredEvidence(p)

BuildSteps(p) ==
  <<"build-image", "build-game-static-assets", "validate-game-image">>
  \o When("verify-game-tomcat-image" \in p.checks, <<"verify-game-tomcat-image">>)

\* What is asked of production before anything is uploaded.
AdmissionSteps(p) ==
  <<"resolve-ssh-target">>
  \o When(OnPrd2, <<"game-prd2-migration-readiness">>)
  \o When("verify-game-steam-auth" \in p.checks, <<"game-steam-preflight">>)
  \o <<"read-remote-compose", "game-database-preflight">>
  \o When(p.migrations # <<>>, <<"validate-game-database-migration-compatibility">>)

\* The image, the assets, and what a rollback needs.
UploadSteps(p) ==
  <<"publish-image">>
  \o When(StartupContract, <<"validate-game-startup-contract">>)
  \o <<"stage-game-static-assets", "verify-game-static-assets-predeploy",
       "backup-game-release">>

MigrationSteps(p) ==
  When(CodegraphCutover(p.migrations),
       <<"verify-codegraph-prerequisites", "codegraph-offline-cutover">>)
  \o When(TechnologyCutover(p.migrations) /\ ~CodegraphCutover(p.migrations),
          <<"technology-offline-cutover">>)
  \o When(p.migrations # <<>>, <<"apply-database-migrations">>)
  \o <<"pre-deploy-checklist">>

CutoverSteps ==
  <<"update-remote-compose", "pause-meelok-services", "deploy-stack", "commit-game-cutover",
    "final-runtime-check">>

FinalChecks(p) ==
  When("verify-game-tomcat-runtime" \in p.checks, <<"verify-game-tomcat-runtime">>)
  \o When(OnPrd2, <<"game-prd2-runtime-contract">>)
  \o When("verify-game-steam-runtime" \in p.checks, <<"verify-game-steam-runtime">>)
  \o When("verify-game-emergency-guard" \in p.checks, <<"verify-game-emergency-guard-runtime">>)
  \o When("verify-game-smtp-sender" \in p.checks, <<"verify-game-smtp-sender">>)
  \o <<"verify-game-static-delivery", "verify-relations-release", "verify-tradepool-release">>

CleanupSteps(p) ==
  When(Retirement(p.migrations), <<"retire-design-image-settings-file">>)
  \o <<"cleanup-game-release-containers">>

\* recoveryOnly: executePlanSteps passes over them.
RecoverySteps ==
  <<"game-config-compensation", "game-rollback-decision", "game-fatal-rollback-decision",
    "game-rollback-command">>

\* Puts a step in front of the first one of the given keys.
Splice(steps, step, keys) ==
  InsertAt(steps, SelectInSeq(steps, LAMBDA k : k \in keys), step)

StackSteps(p) ==
  AdmissionSteps(p) \o UploadSteps(p) \o MigrationSteps(p) \o CutoverSteps \o FinalChecks(p)
    \o CleanupSteps(p) \o RecoverySteps

WithRestore(steps) == Splice(steps, "restore-meelok-services", ToSet(RecoverySteps))

\* The candidate is checked before the Compose file changes and accepted last.
WithStandby(p, steps) ==
  IF ~p.standby THEN steps
  ELSE Splice(Splice(steps, "verify-game-standby-candidate", {"update-remote-compose"}),
              "accept-game-standby-candidate", ToSet(RecoverySteps))

GameSteps(p) ==
  SourceSteps(p) \o EvidenceSteps(p) \o BuildSteps(p)
  \o IF p.stack THEN WithStandby(p, WithRestore(StackSteps(p))) ELSE <<"publish-image">>

--------------------------------------------------------------------------------
(***************************************************************************)
(* The steps of a forum release.                                           *)
(***************************************************************************)
ForumSourceSteps(p) ==
  When(~p.reuse, <<"git-status-before-update", "git-fetch", "git-update",
                   "capture-release-commit">>)
  \o When(p.assessed, <<"validate-release-impact-checklist">>)
  \o <<"validate-release-input">>

ForumImageSteps(p) ==
  IF p.reuse THEN <<"validate-existing-forum-image">>
  ELSE <<"validate-forum-source", "build-image", "validate-forum-image">>
         \o When(~p.stack, <<"publish-image">>)

ForumStackSteps(p) ==
  <<"resolve-ssh-target", "read-remote-compose", "forum-preflight">>
  \o When(~p.reuse, <<"publish-image">>)
  \o <<"backup-forum-release", "update-remote-compose", "deploy-forum-compose",
       "final-runtime-check", "forum-rollback-command">>

ForumSteps(p) == ForumSourceSteps(p) \o ForumImageSteps(p) \o When(p.stack, ForumStackSteps(p))

--------------------------------------------------------------------------------
Steps(p) == IF p.target = "game" THEN GameSteps(p) ELSE ForumSteps(p)

RecoveryOnly == ToSet(RecoverySteps) \cup {"forum-rollback-command"}

\* The steps executePlanSteps runs one after the other.
Executed(p) == Only(Steps(p), ToSet(Steps(p)) \ RecoveryOnly)

\* validate-release-input and the checklist step only show what was checked.
NotExecutable == {"validate-release-input", "validate-release-impact-checklist"}

\* assertReleaseImpactPlanCoverage
CoverageRefused(p) ==
  /\ p.assessed
  /\ \E check \in p.checks :
       IF check \in ToSet(Steps(p)) THEN check \in NotExecutable ELSE p.stack

PlanRefused(p) ==
  \/ p.target = "game" /\ (CutoverRefused(p) \/ ChecksRefused(p))
  \/ CoverageRefused(p)

\* The kind of a plan that ReleaseExecutor.tla walks: of a request that deploys.
PlanOf(p) ==
  IF p.target = "forum" THEN "forum"
  ELSE IF CodegraphCutover(p.migrations) THEN "codegraph"
  ELSE IF TechnologyCutover(p.migrations) THEN "offline"
  ELSE IF p.standby THEN "standby" ELSE "game"
================================================================================
