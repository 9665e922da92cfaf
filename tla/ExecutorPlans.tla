----------------------------- MODULE ExecutorPlans -----------------------------
(***************************************************************************)
(* The steps that executePlan treats apart or that change what the         *)
(* properties speak of, in the order in which createPlan and               *)
(* createForumPlan emit them, and when a whole plan fits: the many checks  *)
(* and builds in between are of no concern.  ReleaseExecutor.tla goes      *)
(* through any plan that fits; MCReleaseSequence.tla asserts that the      *)
(* plans of ReleasePlan.tla do.                                            *)
(***************************************************************************)
EXTENDS Naturals, Sequences

\* "standby" is a game release with a standby candidate, "offline" and "codegraph"
\* are those with a cutover that stops the old writers first.
Plans == {"game", "standby", "offline", "codegraph", "forum"}

Backbone ==
  [game |-> <<"update-remote-compose", "pause-meelok-services", "deploy-stack",
              "commit-game-cutover", "verify-tradepool-release", "restore-meelok-services">>,
   standby |-> <<"update-remote-compose", "pause-meelok-services", "deploy-stack",
                 "commit-game-cutover", "verify-tradepool-release", "restore-meelok-services",
                 "accept-game-standby-candidate">>,
   offline |-> <<"technology-offline-cutover", "update-remote-compose",
                 "pause-meelok-services", "deploy-stack", "commit-game-cutover",
                 "verify-tradepool-release", "restore-meelok-services">>,
   codegraph |-> <<"codegraph-offline-cutover", "update-remote-compose",
                   "pause-meelok-services", "deploy-stack", "commit-game-cutover",
                   "verify-tradepool-release", "restore-meelok-services">>,
   forum |-> <<"update-remote-compose", "deploy-forum-compose">>]

Cutovers == {"technology-offline-cutover", "codegraph-offline-cutover"}

Apart ==
  Cutovers \cup
  {"update-remote-compose", "pause-meelok-services", "deploy-stack", "deploy-forum-compose",
   "commit-game-cutover", "verify-tradepool-release", "restore-meelok-services",
   "accept-game-standby-candidate", "game-rollback-command"}

Precedes(plan, k, l) ==
  \E a, b \in DOMAIN Backbone[plan] : a < b /\ Backbone[plan][a] = k /\ Backbone[plan][b] = l

\* The steps apart are those of the backbone, once each and in its order.
Fits(plan, steps) ==
  /\ steps \in Seq({steps[i] : i \in DOMAIN steps})
  /\ \A i \in DOMAIN steps : steps[i] # ""
  /\ {steps[i] : i \in DOMAIN steps} \cap Apart
       = {Backbone[plan][a] : a \in DOMAIN Backbone[plan]}
  /\ \A j \in DOMAIN steps :
       steps[j] \in Apart =>
         \A i \in 1..(j - 1) : steps[i] \in Apart => Precedes(plan, steps[i], steps[j])
================================================================================
