---------------------------- MODULE ReleaseAnalysis ----------------------------
(***************************************************************************)
(* What a release is compared with: the baseline that the history holds    *)
(* for its target, the direction and the changed paths from there to the   *)
(* target commit, the migrations among them in the order of their          *)
(* dependencies, and the impact assessment that must fit exactly.          *)
(*                                                                         *)
(* A path is a model value.  A migration is the path of its script; every  *)
(* script declares a target hash of its own.  The assessment document of a *)
(* commit is written for the changes since one particular baseline, has a  *)
(* new id whenever it is changed, and is well formed.                      *)
(***************************************************************************)
EXTENDS Naturals, Sequences, FiniteSets, SequencesExt, Selection

CONSTANTS
  Commit,        \* the commits of the project
  Past,          \* the ancestors of each commit, itself among them
  Files,         \* the paths each commit changes
  Branch, Tip,   \* the remote branches and their heads
  RuntimePaths,  \* the runtime paths of "game" and of "forum"
  MigrationPaths,   \* the migration scripts, in the order of their names
  Expects,       \* the script whose target hash a script expects, or "none"
  Modelled,      \* paths of persistent classes whose columns have changed
  Document,      \* the assessment document of each commit
  HistoryLimit   \* how many entries the history keeps

Targets == {"game", "forum"}
Migration == ToSet(MigrationPaths)

ASSUME PastAssumption ==
  /\ Past \in [Commit -> SUBSET Commit]
  /\ \A c \in Commit : c \in Past[c]
  /\ \A c \in Commit : \A b \in Past[c] : Past[b] \subseteq Past[c]
ASSUME FilesAssumption == \A c \in Commit : Migration \cap Files[c] \subseteq RuntimePaths["game"]
ASSUME CommitAssumption == "none" \notin Commit
ASSUME DocumentAssumption ==
  \A c \in Commit : \A t \in Targets : Document[c].checks[t] \subseteq STRING
ASSUME HistoryAssumption == HistoryLimit \in Nat \ {0}
ASSUME MigrationAssumption ==
  /\ MigrationPaths \in Seq(STRING)
  /\ \A i, j \in DOMAIN MigrationPaths : MigrationPaths[i] = MigrationPaths[j] => i = j

\* The scripts that the tree of a commit holds.
ScriptsUpTo(commit) == Migration \cap UNION {Files[c] : c \in Past[commit]}

\* Whoever has written a script had the one before it.
ASSUME ExpectsAssumption ==
  \A c \in Commit : \A s \in ScriptsUpTo(c) :
    Expects[s] \in Migration => Expects[s] \in ScriptsUpTo(c)

--------------------------------------------------------------------------------
(***************************************************************************)
(* The history: the newest entry first.  An entry has the fields           *)
(*   target, commit ("none" unless it was captured), stack, status,        *)
(*   done: those of the steps that the baseline depends on and that are    *)
(*   marked done, and                                                      *)
(*   witness: what a later release may go by if this one was left paused.  *)
(***************************************************************************)
Recorded == {"deploy-stack", "commit-game-cutover", "final-runtime-check",
             "game-rollback-command"}

Append100(history, entry) ==
  LET entries == <<entry>> \o history
  IN IF Len(entries) > HistoryLimit THEN SubSeq(entries, 1, HistoryLimit) ELSE entries

Delete(history, i) == RemoveAt(history, i)

\* A release whose image was only uploaded counts as well.
SlipReachedProduction(entry) == entry.commit # "none"

ReachedProduction(entry) == entry.commit # "none" /\ entry.stack

\* isHeldHealthyGameTargetRelease
Held(entry) ==
  /\ entry.target = "game" /\ entry.status = "RECOVERY_REQUIRED"
  /\ {"deploy-stack", "commit-game-cutover"} \subseteq entry.done
  /\ "game-rollback-command" \notin entry.done

\* isSuccessfulTargetRelease
Successful(entry, target) ==
  /\ ReachedProduction(entry)
  /\ entry.target = target
  /\ entry.status = "EXECUTED" \/ Held(entry)

BaselineCommit(history, target) ==
  LET i == SelectInSeq(history, LAMBDA entry : Successful(entry, target))
  IN IF i = 0 THEN "none" ELSE history[i].commit

--------------------------------------------------------------------------------
(***************************************************************************)
(* The comparison.  Definitions named Slip... are plausible mistakes in    *)
(* the definition that follows them; no specification uses them.           *)
(***************************************************************************)
\* The target must be on the branch.
OnBranch(commit, branch) == commit \in Past[Tip[branch]]

\* Whatever is not the same or older counts as newer.
SlipDirection(baseline, commit) ==
  CASE baseline = "none" -> "unknown"
    [] baseline = commit -> "same"
    [] commit \in Past[baseline] \ {baseline} -> "rollback"
    [] OTHER -> "forward"

Direction(baseline, commit) ==
  CASE baseline = "none" -> "unknown"
    [] baseline = commit -> "same"
    [] baseline \in Past[commit] \ {commit} -> "forward"
    [] commit \in Past[baseline] \ {baseline} -> "rollback"
    [] OTHER -> "diverged"

\* The paths that differ between the two commits' trees.
Difference(baseline, commit) ==
  UNION {Files[c] : c \in (Past[commit] \ Past[baseline]) \cup (Past[baseline] \ Past[commit])}

ChangedPaths(baseline, commit, target) ==
  IF baseline = "none" THEN {} ELSE Difference(baseline, commit) \cap RuntimePaths[target]

Changed(baseline, commit, target) ==
  Direction(baseline, commit) = "forward" /\ ChangedPaths(baseline, commit, target) # {}

\* assertReleaseTargetDirection; without a baseline there is nothing to compare.
DirectionRefused(baseline, commit) == Direction(baseline, commit) \in {"rollback", "diverged"}

\* assertReleaseTargetChanged
ChangeRefused(baseline, commit, target) ==
  baseline # "none" /\ ~Changed(baseline, commit, target)

--------------------------------------------------------------------------------
(***************************************************************************)
(* The migrations.                                                         *)
(***************************************************************************)
\* The scripts are applied in the order of their names.
SlipByDependency(scripts) == scripts

\* The script a script waits for, when it is one of those to be applied.
Predecessors(script, scripts) == ({Expects[script]} \ {script}) \cap scripts

\* The first script that waits for none of those that remain.
ReadyScript(scripts, done) ==
  LET remaining == ToSet(scripts) \ ToSet(done)
  IN scripts[SelectInSeq(scripts, LAMBDA s : /\ s \in remaining
                                            /\ Predecessors(s, remaining) = {})]

\* The first n scripts of the result, for every n.
Sorting(scripts) ==
  LET sorted[n \in 0..Len(scripts)] ==
        IF n = 0 THEN <<>> ELSE Append(sorted[n - 1], ReadyScript(scripts, sorted[n - 1]))
  IN sorted

\* sortReleaseMigrationsByDependencies
ByDependency(scripts) == Sorting(scripts)[Len(scripts)]

Cyclic(scripts) ==
  \E loop \in (SUBSET scripts) \ {{}} : \A s \in loop : Predecessors(s, loop) # {}

ChangedScripts(baseline, commit) ==
  Only(MigrationPaths, ChangedPaths(baseline, commit, "game"))

\* resolveReleaseMigrations
Migrations(baseline, commit) == ByDependency(ChangedScripts(baseline, commit))

\* assertJpaSchemaMigrationCoverage: columns changed, and no script at all.
SchemaUncovered(baseline, commit) ==
  /\ ChangedScripts(baseline, commit) = <<>>
  /\ ChangedPaths(baseline, commit, "game") \cap Modelled # {}

--------------------------------------------------------------------------------
(***************************************************************************)
(* The assessment: Document[c] has the fields id, since (the baseline its  *)
(* author had in mind), database, and for each target the required checks. *)
(***************************************************************************)
RequiredReleaseChecks ==
  [game |-> {"test-game-backend", "verify-game-static-assets-predeploy", "pre-deploy-checklist",
             "final-runtime-check", "verify-game-static-delivery"},
   forum |-> {"validate-forum-source", "forum-preflight", "final-runtime-check"}]

\* resolveReleaseImpactAssessment demands one only when runtime paths have changed.
Assessed(baseline, commit, target) == Changed(baseline, commit, target)

Covered(commit, target) == ChangedPaths(Document[commit].since, commit, target)

DatabaseRelated(paths) == paths \cap (Migration \cup Modelled) # {}

AssessmentRefused(baseline, commit, target) ==
  /\ Assessed(baseline, commit, target)
  /\ \/ "release-impact" \notin Difference(baseline, commit)
     \/ Covered(commit, target) # ChangedPaths(baseline, commit, target)
     \/ ~(RequiredReleaseChecks[target] \subseteq Document[commit].checks[target])
     \/ /\ target = "game" /\ DatabaseRelated(Covered(commit, target))
        /\ Document[commit].database = "none"
     \/ /\ target = "game" /\ ChangedScripts(baseline, commit) # <<>>
        /\ "apply-database-migrations" \notin Document[commit].checks["game"]
     \/ Document[baseline].id = Document[commit].id

RequiredChecks(baseline, commit, target) ==
  IF Assessed(baseline, commit, target) THEN Document[commit].checks[target] ELSE {}

\* What prepareReleaseRequest and createPlan refuse before there is a plan.
Refused(baseline, commit, branch, target, force) ==
  \/ ~OnBranch(commit, branch)
  \/ ~force /\ ChangeRefused(baseline, commit, target)
  \/ DirectionRefused(baseline, commit)
  \/ target = "game" /\ Cyclic(ToSet(ChangedScripts(baseline, commit)))
  \/ target = "game" /\ SchemaUncovered(baseline, commit)
  \/ AssessmentRefused(baseline, commit, target)
================================================================================
