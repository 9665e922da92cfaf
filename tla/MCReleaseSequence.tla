--------------------------- MODULE MCReleaseSequence ---------------------------
(***************************************************************************)
(* A small project for ReleaseSequence.tla.                                *)
(*                                                                         *)
(*        b2 --- b3             origin/patch                               *)
(*       /                                                                 *)
(*     c1 --- c2 --- c3 --- c4  origin/master                              *)
(*              \      \                                                   *)
(*               d3     e4      origin/hotfix, origin/rooms                *)
(*                                                                         *)
(* c2 adds two scripts whose names are in the wrong order and moves the    *)
(* image settings into the database, c3 brings the technology format       *)
(* (offline; its assessment is written for c1, as if c2 were skipped), c4  *)
(* finalises the guilds (offline) and changes the forum, e4 brings the     *)
(* room format (offline), d3 adds a script, b2 and b3, which follow c1,    *)
(* change code only.                                                       *)
(***************************************************************************)
EXTENDS ReleaseSequence

MCCommit == {"b2", "b3", "c1", "c2", "c3", "c4", "d3", "e4"}
MCPast == [b2 |-> {"c1", "b2"}, b3 |-> {"c1", "b2", "b3"},
           c1 |-> {"c1"}, c2 |-> {"c1", "c2"}, c3 |-> {"c1", "c2", "c3"},
           c4 |-> {"c1", "c2", "c3", "c4"}, d3 |-> {"c1", "c2", "d3"},
           e4 |-> {"c1", "c2", "c3", "e4"}]
MCTip == [master |-> "c4", hotfix |-> "d3", patch |-> "b3", rooms |-> "e4"]
MCBranch == DOMAIN MCTip

MCMigrationPaths == <<"a", "b", "guild", "hotfix", "room", "supervision", "technology">>
MCKind == [a |-> "plain", b |-> "settings", guild |-> "codegraph", hotfix |-> "plain",
           room |-> "room", supervision |-> "technology", technology |-> "technology"]
MCExpects == [a |-> "b", b |-> "none", guild |-> "none", hotfix |-> "a",
              room |-> "technology", supervision |-> "none", technology |-> "none"]

MCFiles == [b2 |-> {"main", "release-impact"}, b3 |-> {"main", "release-impact"},
            c1 |-> {}, c2 |-> {"a", "b", "entity", "flarum", "release-impact"},
            c3 |-> {"supervision", "technology", "main", "release-impact"},
            c4 |-> {"guild", "flarum", "release-impact"},
            d3 |-> {"hotfix", "main", "release-impact"},
            e4 |-> {"room", "main", "release-impact"}]
MCRuntimePaths == [game |-> ToSet(MCMigrationPaths) \cup {"entity", "main"},
                   forum |-> {"flarum"}]
MCModelled == {"entity"}

Code == {"test-game-backend", "verify-game-static-assets-predeploy", "pre-deploy-checklist",
         "final-runtime-check", "verify-game-static-delivery"}
Always == Code \cup {"apply-database-migrations"}
ForumAlways == {"validate-forum-source", "forum-preflight", "final-runtime-check"}

MCDocument ==
  [b2 |-> [id |-> 6, since |-> "c1", database |-> "none",
           checks |-> [game |-> Code, forum |-> ForumAlways]],
   b3 |-> [id |-> 7, since |-> "c1", database |-> "none",
           checks |-> [game |-> Code, forum |-> ForumAlways]],
   c1 |-> [id |-> 1, since |-> "c1", database |-> "none",
           checks |-> [game |-> Always, forum |-> ForumAlways]],
   c2 |-> [id |-> 2, since |-> "c1", database |-> "schema-change",
           checks |-> [game |-> Always \cup {"retire-design-image-settings-file",
                                             "verify-game-steam-auth", "verify-game-steam-runtime"},
                       forum |-> ForumAlways]],
   c3 |-> [id |-> 3, since |-> "c1", database |-> "schema-change",
           checks |-> [game |-> Always \cup {"technology-offline-cutover",
                                             "retire-design-image-settings-file"},
                       forum |-> ForumAlways]],
   c4 |-> [id |-> 4, since |-> "c3", database |-> "data-change",
           checks |-> [game |-> Always \cup {"verify-codegraph-prerequisites",
                                             "codegraph-offline-cutover", "verify-bacteria-gates"},
                       forum |-> ForumAlways]],
   d3 |-> [id |-> 5, since |-> "c2", database |-> "schema-change",
           checks |-> [game |-> Always, forum |-> ForumAlways]],
   e4 |-> [id |-> 8, since |-> "c3", database |-> "schema-change",
           checks |-> [game |-> Always \cup {"technology-offline-cutover"},
                       forum |-> ForumAlways]]]

--------------------------------------------------------------------------------
\* Whole plans, as createPlan and createForumPlan emit them, fit their kind.
ASSUME PlansFit ==
  \A target \in Targets, standby, assessed \in BOOLEAN, c \in MCCommit,
     migrations \in {<<>>, <<"a">>, <<"b", "a">>, <<"supervision", "technology">>, <<"room">>,
                    <<"supervision", "technology", "room">>, <<"guild">>,
                    <<"supervision", "technology", "guild">>} :
    LET p == [target |-> target, stack |-> TRUE, standby |-> standby, reuse |-> FALSE,
              assessed |-> assessed, checks |-> MCDocument[c].checks[target],
              migrations |-> IF target = "game" THEN migrations ELSE <<>>]
    IN ~PlanRefused(p) => Fits(PlanOf(p), Executed(p))
================================================================================
