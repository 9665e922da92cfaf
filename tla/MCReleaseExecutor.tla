--------------------------- MODULE MCReleaseExecutor ---------------------------
(***************************************************************************)
(* One short plan of each kind for ReleaseExecutor.tla: the backbone, with *)
(* steps before the production steps, between them and after the cutover   *)
(* for the checks and builds that are left out.                            *)
(***************************************************************************)
EXTENDS ReleaseExecutor

MCSteps ==
  [game |-> <<"publish-image", "backup-game-release">> \o Backbone["game"],
   standby |-> <<"publish-image", "backup-game-release", "verify-game-standby-candidate">>
               \o Backbone["standby"],
   offline |-> <<"publish-image", "backup-game-release">> \o Backbone["offline"],
   codegraph |-> <<"publish-image", "verify-codegraph-prerequisites">> \o Backbone["codegraph"]
                 \o <<"cleanup-game-release-containers">>,
   forum |-> <<"publish-image", "backup-forum-release">> \o Backbone["forum"]
             \o <<"final-runtime-check">>]
================================================================================
