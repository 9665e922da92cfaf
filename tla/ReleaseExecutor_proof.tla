------------------------- MODULE ReleaseExecutor_proof -------------------------
(***************************************************************************)
(* Theorems about executePlan, for every plan that fits its kind: however  *)
(* many checks and builds there are around the steps apart.                *)
(***************************************************************************)
EXTENDS ReleaseExecutor, TLAPS

(***************************************************************************)
(* What the outcome says of production rests on what has been begun.  A    *)
(* step is walked when the index has passed it, and begun when its command *)
(* may have been sent.                                                     *)
(***************************************************************************)
Walked(n) == {Steps[plan][i] : i \in 1..n}

Past == Walked(next - 1)

Begun == Past \cup ({failed} \ {""}) \cup (IF pc = "command" THEN {key} ELSE {})

Pcs == {"next", "command", "catch", "compensate", "evaluate", "decide", "rollback", "exit",
        "restore", "done"}

\* The keys in completed and failed are bounded below, in Flags and Phases.
TypeOK ==
  /\ plan \in Plans /\ pc \in Pcs
  /\ next \in 1..(Len(Steps[plan]) + 1)
  /\ pc = "command" => next <= Len(Steps[plan])
  /\ compose \in {"old", "new"} /\ service \in {"old", "new"}
  /\ why \in {"", "cancel", "error"}
  /\ status \in {"RUNNING", "EXECUTED", "ERROR", "CANCELLED", "ROLLED_BACK",
                 "RECOVERY_REQUIRED"}
  /\ alive \subseteq Changing
  /\ retry => plan # "forum"

FlagsOK ==
  /\ aborted \in BOOLEAN /\ boundary \in BOOLEAN /\ started \in BOOLEAN
  /\ committed \in BOOLEAN /\ unresolved \in BOOLEAN
  /\ writers \in BOOLEAN /\ paused \in BOOLEAN /\ accepted \in BOOLEAN /\ takenOver \in BOOLEAN
  /\ retry \in BOOLEAN

\* The steps run until one fails; the outcome is there when the catch block is left.
Running == pc \in {"next", "command"}

Phases ==
  /\ status = "RUNNING" <=> pc \notin {"exit", "restore", "done"}
  /\ Running => failed = "" /\ why = ""
  /\ pc \in {"catch", "compensate", "evaluate", "decide", "rollback"} => why # ""
  /\ failed # "" => next <= Len(Steps[plan]) /\ failed \in Walked(next)
  /\ status = "EXECUTED" => next = Len(Steps[plan]) + 1

\* What the executor remembers is what it has begun.
Flags ==
  /\ completed \subseteq Past \cup (IF pc = "done" THEN {"restore-meelok-services"} ELSE {})
  /\ Past \subseteq completed \cup {"restore-meelok-services"}
  /\ boundary <=> Begun \cap Boundary # {}
  /\ "deploy-stack" \in Begun => started
  /\ started => "update-remote-compose" \in Begun
  /\ committed <=> "commit-game-cutover" \in Past

\* A command may only be on its way when its step has begun.
RollingBack == pc = "rollback" \/ status \in {"ROLLED_BACK", "RECOVERY_REQUIRED"}

OnTheirWay ==
  \A k \in alive :
    \/ k \in Begun
    \/ k = "restore-meelok-services"
    \/ k = "game-rollback-command" /\ RollingBack

\* Once it has succeeded it is on its way no longer.
Settled ==
  {"update-remote-compose", "deploy-stack", "deploy-forum-compose"} \cap Past \cap alive = {}

\* What is new in production has been begun; the service changes once, after the file.
Origins ==
  /\ compose = "new" => "update-remote-compose" \in Begun
  /\ service = "new" => {"deploy-stack", "deploy-forum-compose"} \cap Begun # {}
  /\ service = "new" => "deploy-stack" \notin alive
  /\ ~writers => Cutovers \cap Begun # {}

\* The command of step k has succeeded, or is about to.
Succeeded(k) == k \in Past \/ (pc = "command" /\ key = k /\ k \notin alive)

Results ==
  /\ Running \/ pc \in {"catch", "compensate", "evaluate", "decide"} \/ status = "EXECUTED" =>
       /\ Succeeded("update-remote-compose") => compose = "new"
       /\ Succeeded("deploy-stack") \/ Succeeded("deploy-forum-compose") => service = "new"
  /\ Succeeded("commit-game-cutover") => takenOver
  /\ Succeeded("accept-game-standby-candidate") => accepted

\* Before the decision the compensation has found the service changed.
Compensated ==
  /\ pc = "compensate" => NeedsCompensation
  /\ pc = "evaluate" /\ NeedsCompensation => service = "new"

\* A rollback is only considered where nothing forbids it, and when nothing can undo it;
\* the new Compose file is there, and is what a retry keeps.
Deciding ==
  /\ pc \in {"decide", "rollback"} \/ "game-rollback-command" \in alive =>
       Game /\ ~Held
  /\ pc \in {"decide", "rollback"} => {"update-remote-compose", "deploy-stack"} \cap alive = {}
  /\ pc = "rollback" /\ "game-rollback-command" \notin alive =>
       service = "old" /\ compose = (IF retry THEN "new" ELSE "old")
  /\ pc = "decide" \/ (pc = "rollback" /\ retry) => compose = "new"

IInv ==
  /\ TypeOK /\ FlagsOK /\ Phases /\ Flags /\ OnTheirWay /\ Settled /\ Origins /\ Results
  /\ Compensated /\ Deciding
  /\ CleanExit /\ RolledBackIsOld /\ MeelokAnswered

--------------------------------------------------------------------------------
(***************************************************************************)
(* What it means for a plan to fit, in terms of the steps walked.          *)
(***************************************************************************)
LEMMA StepsTyped ==
  ASSUME NEW p \in Plans
  PROVE  Len(Steps[p]) \in Nat /\ DOMAIN Steps[p] = 1..Len(Steps[p])
<1>1. Steps[p] \in Seq({Steps[p][i] : i \in DOMAIN Steps[p]})
  BY StepsAssumption DEF Fits
<1> QED BY <1>1

\* In a plan that fits, a step that comes first in the backbone comes first.
LEMMA FitsOrder ==
  ASSUME NEW p \in Plans, NEW k \in Apart, NEW l \in Apart,
         Precedes(p, k, l), ~Precedes(p, l, k),
         NEW j \in 1..Len(Steps[p]), Steps[p][j] = l
  PROVE  \E i \in 1..(j - 1) : Steps[p][i] = k
<1>1. Fits(p, Steps[p])
  BY StepsAssumption
<1>2. DOMAIN Steps[p] = 1..Len(Steps[p]) /\ Len(Steps[p]) \in Nat
  BY StepsTyped
<1>3. k \in {Backbone[p][a] : a \in DOMAIN Backbone[p]}
  BY DEF Precedes
<1>4. PICK i \in DOMAIN Steps[p] : Steps[p][i] = k
  BY <1>1, <1>3 DEF Fits
<1>5. CASE i < j
  BY <1>2, <1>4, <1>5
<1>6. CASE i > j
  <2>1. j \in 1..(i - 1) /\ j \in DOMAIN Steps[p]
    BY <1>2, <1>6
  <2>2. Precedes(p, l, k)
    BY <1>1, <1>4, <2>1 DEF Fits
  <2> QED BY <2>2
<1>7. CASE i = j
  BY <1>4, <1>7
<1> QED BY <1>2, <1>5, <1>6, <1>7

\* ... and no step apart is there twice.
LEMMA FitsOnce ==
  ASSUME NEW p \in Plans, NEW k \in Apart, ~Precedes(p, k, k),
         NEW j \in 1..Len(Steps[p]), Steps[p][j] = k, NEW i \in 1..(j - 1)
  PROVE  Steps[p][i] # k
<1>1. Fits(p, Steps[p])
  BY StepsAssumption
<1>2. DOMAIN Steps[p] = 1..Len(Steps[p]) /\ Len(Steps[p]) \in Nat
  BY StepsTyped
<1> QED BY <1>1, <1>2 DEF Fits

\* A step apart is in a plan that fits exactly if it is in the backbone.
LEMMA FitsHas ==
  ASSUME NEW p \in Plans, NEW k \in Apart
  PROVE  (\E i \in 1..Len(Steps[p]) : Steps[p][i] = k)
           <=> (\E a \in DOMAIN Backbone[p] : Backbone[p][a] = k)
<1>1. Fits(p, Steps[p])
  BY StepsAssumption
<1>2. DOMAIN Steps[p] = 1..Len(Steps[p])
  BY StepsTyped
<1> QED BY <1>1, <1>2 DEF Fits

\* The backbones themselves.
LEMMA BackboneOnce ==
  ASSUME NEW p \in Plans, NEW k \in Apart
  PROVE  ~Precedes(p, k, k)
BY DEF Precedes, Backbone, Plans, Apart, Cutovers

Orders(p) ==
  /\ p # "forum" =>
       /\ Precedes(p, "update-remote-compose", "deploy-stack")
       /\ ~Precedes(p, "deploy-stack", "update-remote-compose")
       /\ Precedes(p, "deploy-stack", "commit-game-cutover")
       /\ ~Precedes(p, "commit-game-cutover", "deploy-stack")
       /\ Precedes(p, "commit-game-cutover", "verify-tradepool-release")
       /\ ~Precedes(p, "verify-tradepool-release", "commit-game-cutover")
  /\ p = "forum" =>
       /\ Precedes(p, "update-remote-compose", "deploy-forum-compose")
       /\ ~Precedes(p, "deploy-forum-compose", "update-remote-compose")
  /\ p = "offline" =>
       /\ Precedes(p, "technology-offline-cutover", "update-remote-compose")
       /\ ~Precedes(p, "update-remote-compose", "technology-offline-cutover")
  /\ p = "codegraph" =>
       /\ Precedes(p, "codegraph-offline-cutover", "update-remote-compose")
       /\ ~Precedes(p, "update-remote-compose", "codegraph-offline-cutover")

\* What each backbone puts before what.
LEMMA BackboneOrders == ASSUME NEW p \in Plans PROVE Orders(p)
BY DEF Orders, Precedes, Backbone, Plans

Has(p, k) == \E a \in DOMAIN Backbone[p] : Backbone[p][a] = k

\* What each backbone has.
LEMMA BackboneHas ==
  ASSUME NEW p \in Plans
  PROVE  /\ Has(p, "update-remote-compose")
         /\ Has(p, "deploy-stack") <=> p # "forum"
         /\ Has(p, "commit-game-cutover") <=> p # "forum"
         /\ Has(p, "verify-tradepool-release") <=> p # "forum"
         /\ Has(p, "deploy-forum-compose") <=> p = "forum"
         /\ Has(p, "technology-offline-cutover") <=> p = "offline"
         /\ Has(p, "codegraph-offline-cutover") <=> p = "codegraph"
         /\ Has(p, "accept-game-standby-candidate") <=> p = "standby"
         /\ ~Has(p, "game-rollback-command")
BY DEF Has, Backbone, Plans

\* The order of the steps, of what has been walked after n steps.
Ordered(n) ==
  /\ "deploy-stack" \in Walked(n) => Game /\ "update-remote-compose" \in Walked(n - 1)
  /\ "deploy-forum-compose" \in Walked(n) =>
       ~Game /\ "update-remote-compose" \in Walked(n - 1)
  /\ "commit-game-cutover" \in Walked(n) => Game /\ "deploy-stack" \in Walked(n - 1)
  /\ "verify-tradepool-release" \in Walked(n) =>
       Game /\ "commit-game-cutover" \in Walked(n - 1)
  /\ "update-remote-compose" \in Walked(n) /\ Game /\ ~Transactional =>
       Cutovers \cap Walked(n - 1) # {}
  /\ Cutovers \cap Walked(n) # {} => Game /\ ~Transactional
  /\ "game-rollback-command" \notin Walked(n)

\* A whole plan has the steps that its kind is about.
Whole(w) ==
  /\ "update-remote-compose" \in w
  /\ IF Game THEN {"deploy-stack", "commit-game-cutover"} \subseteq w
             ELSE "deploy-forum-compose" \in w
  /\ plan = "standby" => "accept-game-standby-candidate" \in w

\* Whatever comes before a step that has been walked has been walked, too.
LEMMA WalkedBefore ==
  ASSUME plan \in Plans, NEW n \in 0..Len(Steps[plan]), NEW k \in Apart, NEW l \in Apart,
         Precedes(plan, k, l), ~Precedes(plan, l, k), l \in Walked(n)
  PROVE  k \in Walked(n - 1)
<1>1. PICK j \in 1..n : Steps[plan][j] = l
  BY DEF Walked
<1>2. Len(Steps[plan]) \in Nat
  BY StepsTyped
<1>3. PICK i \in 1..(j - 1) : Steps[plan][i] = k
  BY <1>1, <1>2, FitsOrder
<1> QED BY <1>1, <1>2, <1>3 DEF Walked

\* Only what the plan has is walked.
LEMMA WalkedHas ==
  ASSUME plan \in Plans, NEW n \in 0..Len(Steps[plan]), NEW k \in Apart, k \in Walked(n)
  PROVE  Has(plan, k)
<1>1. PICK j \in 1..n : Steps[plan][j] = k
  BY DEF Walked
<1>2. Len(Steps[plan]) \in Nat
  BY StepsTyped
<1> QED BY <1>1, <1>2, FitsHas DEF Has

\* Together: what has been walked is in order.
LEMMA WalkedOrdered ==
  ASSUME plan \in Plans, NEW n \in 0..Len(Steps[plan])
  PROVE  Ordered(n)
<1> DEFINE u == "update-remote-compose"  d == "deploy-stack"  f == "deploy-forum-compose"
           c == "commit-game-cutover"    v == "verify-tradepool-release"
           t == "technology-offline-cutover"  g == "codegraph-offline-cutover"
<1>1. {u, d, f, c, v, t, g, "game-rollback-command"} \subseteq Apart
  BY DEF Apart, Cutovers
<1>2. Orders(plan)
  BY BackboneOrders
<1>3. d \in Walked(n) => Game /\ u \in Walked(n - 1)
  BY <1>1, <1>2, WalkedBefore, WalkedHas, BackboneHas DEF Orders, Game
<1>4. f \in Walked(n) => ~Game /\ u \in Walked(n - 1)
  BY <1>1, <1>2, WalkedBefore, WalkedHas, BackboneHas DEF Orders, Game
<1>5. c \in Walked(n) => Game /\ d \in Walked(n - 1)
  BY <1>1, <1>2, WalkedBefore, WalkedHas, BackboneHas DEF Orders, Game
<1>6. v \in Walked(n) => Game /\ c \in Walked(n - 1)
  BY <1>1, <1>2, WalkedBefore, WalkedHas, BackboneHas DEF Orders, Game
<1>7. u \in Walked(n) /\ Game /\ ~Transactional => Cutovers \cap Walked(n - 1) # {}
  <2>1. ASSUME u \in Walked(n), plan = "offline" PROVE t \in Walked(n - 1)
    BY <2>1, <1>1, <1>2, WalkedBefore DEF Orders
  <2>2. ASSUME u \in Walked(n), plan = "codegraph" PROVE g \in Walked(n - 1)
    BY <2>2, <1>1, <1>2, WalkedBefore DEF Orders
  <2> QED BY <2>1, <2>2 DEF Cutovers, Game, Transactional, Plans
<1>8. Cutovers \cap Walked(n) # {} => Game /\ ~Transactional
  <2>1. t \in Walked(n) => plan = "offline"
    BY <1>1, WalkedHas, BackboneHas
  <2>2. g \in Walked(n) => plan = "codegraph"
    BY <1>1, WalkedHas, BackboneHas
  <2> QED BY <2>1, <2>2 DEF Cutovers, Game, Transactional
<1>9. "game-rollback-command" \notin Walked(n)
  BY <1>1, WalkedHas, BackboneHas
<1> QED BY <1>3, <1>4, <1>5, <1>6, <1>7, <1>8, <1>9 DEF Ordered

\* At the end all of the backbone has been walked.
LEMMA WalkedWhole ==
  ASSUME plan \in Plans
  PROVE  Whole(Walked(Len(Steps[plan])))
<1>1. ASSUME NEW k \in Apart, Has(plan, k) PROVE k \in Walked(Len(Steps[plan]))
  BY <1>1, FitsHas DEF Has, Walked
<1>2. {"update-remote-compose", "deploy-stack", "commit-game-cutover",
       "deploy-forum-compose", "accept-game-standby-candidate"} \subseteq Apart
  BY DEF Apart
<1> QED BY <1>1, <1>2, BackboneHas DEF Whole, Game

\* The current step extends what has been walked, and a step apart is new to it.
LEMMA WalkOneMore ==
  ASSUME TypeOK, next <= Len(Steps[plan])
  PROVE  /\ Walked(next) = Past \cup {key}
         /\ key # ""
         /\ key \in Apart => key \notin Past
<1>1. /\ DOMAIN Steps[plan] = 1..Len(Steps[plan]) /\ Len(Steps[plan]) \in Nat
      /\ plan \in Plans /\ next \in 1..Len(Steps[plan])
  <2>1. plan \in Plans /\ next \in 1..(Len(Steps[plan]) + 1)
    BY DEF TypeOK
  <2> QED BY <2>1, StepsTyped
<1>2. Walked(next) = Past \cup {key}
  BY <1>1 DEF Walked, Past, key
<1>3. key # ""
  <2>1. \A i \in 1..Len(Steps[plan]) : Steps[plan][i] # ""
    BY <1>1, StepsTyped, StepsAssumption DEF Fits
  <2> QED BY <1>1, <2>1 DEF key
<1>4. ASSUME key \in Apart PROVE key \notin Past
  <2>1. ~Precedes(plan, key, key)
    BY <1>1, <1>4, BackboneOnce
  <2>2. \A i \in 1..(next - 1) : Steps[plan][i] # key
    BY <1>1, <1>4, <2>1, FitsOnce DEF key
  <2> QED BY <2>2 DEF Past, Walked
<1> QED BY <1>2, <1>3, <1>4

\* The order of the steps, of what has been begun.
BegunOrdered ==
  /\ "deploy-stack" \in Begun => Game /\ "update-remote-compose" \in Past
  /\ "deploy-forum-compose" \in Begun => ~Game /\ "update-remote-compose" \in Past
  /\ "commit-game-cutover" \in Begun => Game /\ "deploy-stack" \in Past
  /\ "verify-tradepool-release" \in Begun => Game /\ "commit-game-cutover" \in Past
  /\ "update-remote-compose" \in Begun /\ Game /\ ~Transactional => Cutovers \cap Past # {}
  /\ Cutovers \cap Begun # {} => Game /\ ~Transactional
  /\ "game-rollback-command" \notin Begun

\* So what has begun is in order.
LEMMA BegunIsOrdered == TypeOK /\ Phases => BegunOrdered
<1> SUFFICES ASSUME TypeOK, Phases PROVE BegunOrdered
  OBVIOUS
<1>1. plan \in Plans /\ Len(Steps[plan]) \in Nat /\ next \in 1..(Len(Steps[plan]) + 1)
  BY StepsTyped DEF TypeOK
<1>2. CASE next <= Len(Steps[plan])
  <2>1. Ordered(next)
    BY <1>1, <1>2, WalkedOrdered
  <2>2. Begun \subseteq Walked(next)
    BY <1>2, WalkOneMore DEF Begun, Phases
  <2> QED BY <2>1, <2>2 DEF Ordered, BegunOrdered, Past, Cutovers
<1>3. CASE next = Len(Steps[plan]) + 1
  <2>1. Ordered(next - 1)
    BY <1>1, <1>3, WalkedOrdered
  <2>2. Begun = Past
    <3>1. ~(next <= Len(Steps[plan]))
      BY <1>1, <1>3
    <3>2. pc # "command" /\ failed = ""
      BY <3>1 DEF Phases, TypeOK
    <3> QED BY <3>2 DEF Begun
  <2>3. Walked(next - 1 - 1) \subseteq Past
    BY <1>1 DEF Walked, Past
  <2> QED BY <2>1, <2>2, <2>3 DEF Ordered, BegunOrdered, Past, Cutovers
<1> QED BY <1>1, <1>2, <1>3

\* The current step is none of the executor's own.
LEMMA CurrentIsOrdered ==
  ASSUME TypeOK, next <= Len(Steps[plan])
  PROVE  /\ key # "game-rollback-command"
         /\ key = "deploy-stack" => Game /\ "update-remote-compose" \in Past
         /\ key = "deploy-forum-compose" => ~Game /\ "update-remote-compose" \in Past
<1>1. plan \in Plans /\ next \in 1..Len(Steps[plan])
  <2>1. plan \in Plans /\ next \in 1..(Len(Steps[plan]) + 1)
    BY DEF TypeOK
  <2> QED BY <2>1, StepsTyped
<1>2. Ordered(next)
  BY <1>1, WalkedOrdered
<1>3. key \in Walked(next)
  BY WalkOneMore
<1> QED BY <1>2, <1>3 DEF Ordered, Past

--------------------------------------------------------------------------------
\* One lemma per action: it keeps the invariant, conjunct by conjunct.
USE DEF Running

\* As long as the index and the failed step stay, so does what has been begun.
LEMMA Frame ==
  ASSUME UNCHANGED <<plan, next, failed>>, pc = "command" <=> pc' = "command"
  PROVE  Past' = Past /\ Begun' = Begun /\ key' = key /\ Game' = Game
         /\ Walked(next)' = Walked(next) /\ Boundary' = Boundary
BY DEF Past, Walked, Begun, key, Game, Boundary

\* A rollback is not on its way before it has been decided.
LEMMA RollbackIsLast ==
  IInv /\ status = "RUNNING" /\ pc # "rollback" => "game-rollback-command" \notin alive
BY BegunIsOrdered DEF IInv, OnTheirWay, RollingBack, BegunOrdered

\* One lemma per action: production first, then the executor's own.
LEMMA EffectKeeps == ASSUME IInv, NEW k \in alive, Effect(k) PROVE IInv'
<1> USE DEF control, production
<1>1. TypeOK /\ Phases /\ BegunOrdered
  BY BegunIsOrdered DEF IInv
<1>2. UNCHANGED <<plan, next, failed>> /\ (pc = "command" <=> pc' = "command")
  BY DEF Effect
<1>3. Past' = Past /\ Begun' = Begun /\ key' = key /\ Game' = Game
     /\ Walked(next)' = Walked(next) /\ Boundary' = Boundary
  BY <1>2, Frame
<1>4. TypeOK'
  BY <1>1 DEF Effect, RolledBackFile, TypeOK
<1>5. FlagsOK'
  BY Zenon DEF IInv, Effect, FlagsOK
<1>6. Phases'
  BY <1>1, <1>3 DEF Effect, Phases
<1>7. Flags'
  BY <1>3 DEF IInv, Effect, Flags
<1>8. OnTheirWay'
  BY <1>3 DEF IInv, Effect, OnTheirWay, RollingBack
<1>9. Settled'
  BY <1>3 DEF IInv, Effect, Settled
<1>10. Origins'
  <2>1. k = "game-rollback-command" \/ k = "restore-meelok-services" \/ k \in Begun
    BY DEF IInv, OnTheirWay
  <2>2. compose' = "new" => "update-remote-compose" \in Begun
    BY <2>1 DEF IInv, Effect, RolledBackFile, Origins
  <2>3. service' = "new" => /\ {"deploy-stack", "deploy-forum-compose"} \cap Begun # {}
                           /\ "deploy-stack" \notin alive'
    <3>1. CASE k \in {"deploy-stack", "deploy-forum-compose"}
      BY <1>1, <3>1 DEF IInv, Effect, OnTheirWay, BegunOrdered
    <3>2. CASE k \notin {"deploy-stack", "deploy-forum-compose"}
      BY <3>2 DEF IInv, Effect, Origins
    <3> QED BY <3>1, <3>2
  <2>4. ~writers' => Cutovers \cap Begun # {}
    BY <2>1 DEF IInv, Effect, Origins, Cutovers
  <2> QED BY <1>3, <2>2, <2>3, <2>4 DEF Origins
<1>11. Results'
  <2>1. k = "game-rollback-command" => RollingBack
    BY <1>1 DEF IInv, OnTheirWay, BegunOrdered
  <2>2. Running \/ pc \in {"catch", "compensate", "evaluate", "decide"} \/ status = "EXECUTED"
          => k # "game-rollback-command"
    BY <1>1, <2>1 DEF RollingBack, Phases, Running
  <2> QED BY <1>3, <2>2 DEF IInv, Effect, Results, Succeeded
<1>12. Compensated'
  <2>1. pc = "evaluate" => k # "game-rollback-command"
    BY <1>1, RollbackIsLast DEF Phases
  <2> QED BY <2>1 DEF IInv, Effect, Compensated, NeedsCompensation, Transactional
<1>13. Deciding'
  <2>1. pc = "decide" => k # "game-rollback-command"
    BY <1>1, RollbackIsLast DEF Phases
  <2>2. compose = "new" /\ (k = "game-rollback-command" => retry) => compose' = "new"
    BY DEF Effect, RolledBackFile
  <2>3. pc' = "decide" \/ (pc' = "rollback" /\ retry') => compose' = "new"
    BY <2>1, <2>2 DEF IInv, Effect, Deciding
  <2>4. retry => k # "deploy-forum-compose"
    BY <1>1 DEF IInv, OnTheirWay, BegunOrdered, TypeOK, Game
  <2>5. pc' = "rollback" /\ "game-rollback-command" \notin alive' =>
          service' = "old" /\ compose' = (IF retry' THEN "new" ELSE "old")
    BY <2>4 DEF IInv, Effect, RolledBackFile, Deciding
  <2> QED BY <1>3, <2>3, <2>5 DEF IInv, Effect, Deciding, Held
<1>14. CleanExit'
  BY DEF IInv, Effect, RolledBackFile, CleanExit
<1>15. RolledBackIsOld'
  <2>1. retry => k # "deploy-forum-compose"
    BY <1>1 DEF IInv, OnTheirWay, BegunOrdered, TypeOK, Game
  <2> QED BY <2>1 DEF IInv, Effect, RolledBackFile, RolledBackIsOld
<1>16. MeelokAnswered'
  BY DEF IInv, Effect, MeelokAnswered
<1> QED BY <1>4, <1>5, <1>6, <1>7, <1>8, <1>9, <1>10, <1>11, <1>12, <1>13, <1>14, <1>15, <1>16
           DEF IInv

LEMMA LostKeeps == ASSUME IInv, NEW k \in alive, Lost(k) PROVE IInv'
<1> USE DEF control, production
<1>1. TypeOK /\ Phases /\ BegunOrdered
  BY BegunIsOrdered DEF IInv
<1>2. UNCHANGED <<plan, next, failed>> /\ (pc = "command" <=> pc' = "command")
  BY DEF Lost
<1>3. Past' = Past /\ Begun' = Begun /\ key' = key /\ Game' = Game
     /\ Walked(next)' = Walked(next) /\ Boundary' = Boundary
  BY <1>2, Frame
<1>4. TypeOK'
  BY <1>1 DEF Lost, TypeOK
<1>5. FlagsOK'
  BY Zenon DEF IInv, Lost, FlagsOK
<1>6. Phases'
  BY <1>1, <1>3 DEF Lost, Phases
<1>7. Flags'
  BY <1>3 DEF IInv, Lost, Flags
<1>8. OnTheirWay'
  BY <1>3 DEF IInv, Lost, OnTheirWay, RollingBack
<1>9. Settled'
  BY <1>3 DEF IInv, Lost, Settled
<1>10. Origins'
  BY <1>3 DEF IInv, Lost, Origins
<1>11. Results'
  BY <1>3 DEF IInv, Lost, Results, Succeeded
<1>12. Compensated'
  BY DEF IInv, Lost, Compensated, NeedsCompensation, Transactional
<1>13. Deciding'
  BY <1>3 DEF IInv, Lost, Deciding, Held
<1>14. CleanExit'
  BY DEF IInv, Lost, CleanExit
<1>15. RolledBackIsOld'
  BY DEF IInv, Lost, RolledBackIsOld
<1>16. MeelokAnswered'
  BY DEF IInv, Lost, MeelokAnswered
<1> QED BY <1>4, <1>5, <1>6, <1>7, <1>8, <1>9, <1>10, <1>11, <1>12, <1>13, <1>14, <1>15, <1>16
           DEF IInv

LEMMA AbortKeeps == ASSUME IInv, Abort PROVE IInv'
<1> USE DEF control, production
<1>1. TypeOK /\ Phases /\ BegunOrdered
  BY BegunIsOrdered DEF IInv
<1>2. UNCHANGED <<plan, next, failed>> /\ (pc = "command" <=> pc' = "command")
  BY DEF Abort
<1>3. Past' = Past /\ Begun' = Begun /\ key' = key /\ Game' = Game
     /\ Walked(next)' = Walked(next) /\ Boundary' = Boundary
  BY <1>2, Frame
<1>4. TypeOK'
  BY <1>1 DEF Abort, TypeOK
<1>5. FlagsOK'
  BY Zenon DEF IInv, Abort, FlagsOK
<1>6. Phases'
  BY <1>1, <1>3 DEF Abort, Phases
<1>7. Flags'
  BY <1>3 DEF IInv, Abort, Flags
<1>8. OnTheirWay'
  BY <1>3 DEF IInv, Abort, OnTheirWay, RollingBack
<1>9. Settled'
  BY <1>3 DEF IInv, Abort, Settled
<1>10. Origins'
  BY <1>3 DEF IInv, Abort, Origins
<1>11. Results'
  BY <1>3 DEF IInv, Abort, Results, Succeeded
<1>12. Compensated'
  BY DEF IInv, Abort, Compensated, NeedsCompensation, Transactional
<1>13. Deciding'
  BY <1>3 DEF IInv, Abort, Deciding, Held
<1>14. CleanExit'
  BY DEF IInv, Abort, CleanExit
<1>15. RolledBackIsOld'
  BY DEF IInv, Abort, RolledBackIsOld
<1>16. MeelokAnswered'
  BY DEF Abort, MeelokAnswered
<1> QED BY <1>4, <1>5, <1>6, <1>7, <1>8, <1>9, <1>10, <1>11, <1>12, <1>13, <1>14, <1>15, <1>16
           DEF IInv

LEMMA StepsDoneKeeps == ASSUME IInv, StepsDone PROVE IInv'
<1> USE DEF control, production
<1>1. TypeOK /\ Phases /\ BegunOrdered
  BY BegunIsOrdered DEF IInv
<1>2. UNCHANGED <<plan, next, failed>> /\ (pc = "command" <=> pc' = "command")
  BY DEF StepsDone, Exit
<1>3. Past' = Past /\ Begun' = Begun /\ key' = key /\ Game' = Game
     /\ Walked(next)' = Walked(next) /\ Boundary' = Boundary
  BY <1>2, Frame
<1>4. TypeOK'
  BY <1>1 DEF StepsDone, Exit, TypeOK, Pcs
<1>5. FlagsOK'
  BY Zenon DEF IInv, StepsDone, FlagsOK
<1>6. Phases'
  <2>1. next = Len(Steps[plan]) + 1
    <3>1. Len(Steps[plan]) \in Nat /\ next \in 1..(Len(Steps[plan]) + 1)
      BY <1>1, StepsTyped DEF TypeOK
    <3> QED BY <3>1 DEF StepsDone
  <2> QED BY <1>1, <2>1 DEF StepsDone, Exit, Phases
<1>7. Flags'
  BY <1>3 DEF IInv, StepsDone, Flags
<1>8. OnTheirWay'
  BY <1>3 DEF IInv, StepsDone, OnTheirWay, RollingBack, Phases
<1>9. Settled'
  BY <1>3 DEF IInv, StepsDone, Settled
<1>10. Origins'
  BY <1>3 DEF IInv, StepsDone, Origins
<1>11. Results'
  BY <1>2, <1>3 DEF IInv, StepsDone, Results, Succeeded
<1>12. Compensated'
  BY DEF StepsDone, Exit, Compensated
<1>13. Deciding'
  BY <1>3 DEF IInv, StepsDone, Exit, Deciding, Held
<1>14. CleanExit'
  BY DEF StepsDone, Exit, CleanExit
<1>15. RolledBackIsOld'
  BY DEF StepsDone, Exit, RolledBackIsOld
<1>16. MeelokAnswered'
  BY DEF StepsDone, Exit, MeelokAnswered
<1> QED BY <1>4, <1>5, <1>6, <1>7, <1>8, <1>9, <1>10, <1>11, <1>12, <1>13, <1>14, <1>15, <1>16
           DEF IInv

LEMMA CatchKeeps == ASSUME IInv, Catch PROVE IInv'
<1> USE DEF control, production
<1>1. TypeOK /\ Phases /\ BegunOrdered
  BY BegunIsOrdered DEF IInv
<1>2. UNCHANGED <<plan, next, failed>> /\ (pc = "command" <=> pc' = "command")
  BY DEF Catch
<1>3. Past' = Past /\ Begun' = Begun /\ key' = key /\ Game' = Game
     /\ Walked(next)' = Walked(next) /\ Boundary' = Boundary
  BY <1>2, Frame
<1>4. TypeOK'
  BY <1>1 DEF Catch, TypeOK, Pcs
<1>5. FlagsOK'
  BY Zenon DEF IInv, Catch, FlagsOK
<1>6. Phases'
  BY <1>1, <1>3 DEF Catch, Phases
<1>7. Flags'
  BY <1>3 DEF IInv, Catch, Flags
<1>8. OnTheirWay'
  BY <1>3 DEF IInv, Catch, OnTheirWay, RollingBack
<1>9. Settled'
  BY <1>3 DEF IInv, Catch, Settled
<1>10. Origins'
  BY <1>3 DEF IInv, Catch, Origins
<1>11. Results'
  BY <1>3 DEF IInv, Catch, Results, Succeeded
<1>12. Compensated'
  BY DEF Catch, Compensated, NeedsCompensation, Transactional
<1>13. Deciding'
  BY <1>3 DEF IInv, Catch, Deciding, Held
<1>14. CleanExit'
  BY DEF IInv, Catch, CleanExit
<1>15. RolledBackIsOld'
  BY DEF IInv, Catch, RolledBackIsOld
<1>16. MeelokAnswered'
  BY DEF Catch, MeelokAnswered
<1> QED BY <1>4, <1>5, <1>6, <1>7, <1>8, <1>9, <1>10, <1>11, <1>12, <1>13, <1>14, <1>15, <1>16
           DEF IInv

LEMMA CompensationRestoresKeeps == ASSUME IInv, CompensationRestores PROVE IInv'
<1> USE DEF control, production
<1>1. TypeOK /\ Phases /\ BegunOrdered
  BY BegunIsOrdered DEF IInv
<1>2. UNCHANGED <<plan, next, failed>> /\ (pc = "command" <=> pc' = "command")
  BY DEF CompensationRestores, Exit
<1>3. Past' = Past /\ Begun' = Begun /\ key' = key /\ Game' = Game
     /\ Walked(next)' = Walked(next) /\ Boundary' = Boundary
  BY <1>2, Frame
<1>4. TypeOK'
  BY <1>1 DEF CompensationRestores, Exit, Stopped, TypeOK, Pcs
<1>5. FlagsOK'
  BY Zenon DEF IInv, CompensationRestores, FlagsOK
<1>6. Phases'
  BY <1>1, <1>3 DEF CompensationRestores, Exit, Stopped, Phases
<1>7. Flags'
  BY <1>3 DEF IInv, CompensationRestores, Flags
<1>8. OnTheirWay'
  BY <1>3 DEF IInv, CompensationRestores, OnTheirWay, RollingBack, Phases
<1>9. Settled'
  BY <1>3 DEF IInv, CompensationRestores, Settled
<1>10. Origins'
  BY <1>3 DEF IInv, CompensationRestores, Origins
<1>11. Results'
  BY <1>3 DEF IInv, CompensationRestores, Exit, Stopped, Results, Succeeded
<1>12. Compensated'
  BY DEF CompensationRestores, Exit, Compensated
<1>13. Deciding'
  BY <1>3 DEF IInv, CompensationRestores, Exit, Deciding, Held
<1>14. CleanExit'
  <2>1. Game /\ ~boundary
    BY DEF CompensationRestores, IInv, Compensated, NeedsCompensation, Transactional, Game
  <2>2. Cutovers \cap Begun = {} /\ "deploy-forum-compose" \notin Begun
    BY <1>1, <2>1 DEF IInv, Flags, Boundary, BegunOrdered
  <2>3. writers /\ Cutovers \cap alive = {} /\ "deploy-forum-compose" \notin alive
    BY <2>2 DEF IInv, Origins, OnTheirWay, Cutovers
  <2> QED BY <2>3 DEF CompensationRestores, CleanExit
<1>15. RolledBackIsOld'
  BY DEF CompensationRestores, Exit, Stopped, RolledBackIsOld
<1>16. MeelokAnswered'
  BY DEF CompensationRestores, Exit, MeelokAnswered
<1> QED BY <1>4, <1>5, <1>6, <1>7, <1>8, <1>9, <1>10, <1>11, <1>12, <1>13, <1>14, <1>15, <1>16
           DEF IInv

LEMMA CompensationAttemptedKeeps == ASSUME IInv, CompensationAttempted PROVE IInv'
<1> USE DEF control, production
<1>1. TypeOK /\ Phases /\ BegunOrdered
  BY BegunIsOrdered DEF IInv
<1>2. UNCHANGED <<plan, next, failed>> /\ (pc = "command" <=> pc' = "command")
  BY DEF CompensationAttempted
<1>3. Past' = Past /\ Begun' = Begun /\ key' = key /\ Game' = Game
     /\ Walked(next)' = Walked(next) /\ Boundary' = Boundary
  BY <1>2, Frame
<1>4. TypeOK'
  BY <1>1 DEF CompensationAttempted, TypeOK, Pcs
<1>5. FlagsOK'
  BY Zenon DEF IInv, CompensationAttempted, FlagsOK
<1>6. Phases'
  BY <1>1, <1>3 DEF CompensationAttempted, Phases
<1>7. Flags'
  <2>1. pc = "compensate" => "update-remote-compose" \in Begun
    BY DEF IInv, Compensated, NeedsCompensation, Flags, Begun
  <2> QED BY <1>3, <2>1 DEF IInv, CompensationAttempted, Flags
<1>8. OnTheirWay'
  BY <1>3 DEF IInv, CompensationAttempted, OnTheirWay, RollingBack
<1>9. Settled'
  BY <1>3 DEF IInv, CompensationAttempted, Settled
<1>10. Origins'
  BY <1>3 DEF IInv, CompensationAttempted, Origins
<1>11. Results'
  BY <1>3 DEF IInv, CompensationAttempted, Results, Succeeded
<1>12. Compensated'
  BY DEF CompensationAttempted, Compensated
<1>13. Deciding'
  BY <1>3 DEF IInv, CompensationAttempted, Deciding, Held
<1>14. CleanExit'
  BY DEF IInv, CompensationAttempted, CleanExit
<1>15. RolledBackIsOld'
  BY DEF IInv, CompensationAttempted, RolledBackIsOld
<1>16. MeelokAnswered'
  BY DEF CompensationAttempted, MeelokAnswered
<1> QED BY <1>4, <1>5, <1>6, <1>7, <1>8, <1>9, <1>10, <1>11, <1>12, <1>13, <1>14, <1>15, <1>16
           DEF IInv

LEMMA CompensationUnknownKeeps == ASSUME IInv, CompensationUnknown PROVE IInv'
<1> USE DEF control, production
<1>1. TypeOK /\ Phases /\ BegunOrdered
  BY BegunIsOrdered DEF IInv
<1>2. UNCHANGED <<plan, next, failed>> /\ (pc = "command" <=> pc' = "command")
  BY DEF CompensationUnknown, Exit
<1>3. Past' = Past /\ Begun' = Begun /\ key' = key /\ Game' = Game
     /\ Walked(next)' = Walked(next) /\ Boundary' = Boundary
  BY <1>2, Frame
<1>4. TypeOK'
  BY <1>1 DEF CompensationUnknown, Exit, TypeOK, Pcs
<1>5. FlagsOK'
  BY Zenon DEF IInv, CompensationUnknown, FlagsOK
<1>6. Phases'
  BY <1>1, <1>3 DEF CompensationUnknown, Exit, Phases
<1>7. Flags'
  BY <1>3 DEF IInv, CompensationUnknown, Flags
<1>8. OnTheirWay'
  BY <1>3 DEF IInv, CompensationUnknown, Exit, OnTheirWay, RollingBack
<1>9. Settled'
  BY <1>3 DEF IInv, CompensationUnknown, Settled
<1>10. Origins'
  BY <1>3 DEF IInv, CompensationUnknown, Origins
<1>11. Results'
  BY <1>3 DEF IInv, CompensationUnknown, Exit, Results, Succeeded
<1>12. Compensated'
  BY DEF CompensationUnknown, Exit, Compensated
<1>13. Deciding'
  BY <1>3 DEF IInv, CompensationUnknown, Exit, Deciding, Held
<1>14. CleanExit'
  BY DEF CompensationUnknown, Exit, CleanExit
<1>15. RolledBackIsOld'
  BY DEF CompensationUnknown, Exit, RolledBackIsOld
<1>16. MeelokAnswered'
  BY DEF CompensationUnknown, Exit, MeelokAnswered
<1> QED BY <1>4, <1>5, <1>6, <1>7, <1>8, <1>9, <1>10, <1>11, <1>12, <1>13, <1>14, <1>15, <1>16
           DEF IInv

LEMMA EvaluateKeeps == ASSUME IInv, Evaluate PROVE IInv'
<1> USE DEF control, production
<1>1. TypeOK /\ Phases /\ BegunOrdered
  BY BegunIsOrdered DEF IInv
<1>2. UNCHANGED <<plan, next, failed>> /\ (pc = "command" <=> pc' = "command")
  BY DEF Evaluate, Exit
<1>3. Past' = Past /\ Begun' = Begun /\ key' = key /\ Game' = Game
     /\ Walked(next)' = Walked(next) /\ Boundary' = Boundary
  BY <1>2, Frame
<1>4. TypeOK'
  BY <1>1 DEF Evaluate, Exit, Stopped, TypeOK, Pcs
<1>5. FlagsOK'
  BY Zenon DEF IInv, Evaluate, FlagsOK
<1>6. Phases'
  BY <1>1, <1>3 DEF Evaluate, Exit, Stopped, Phases
<1>7. Flags'
  BY <1>3 DEF IInv, Evaluate, Flags
<1>8. OnTheirWay'
  BY <1>3 DEF IInv, Evaluate, OnTheirWay, RollingBack, Phases
<1>9. Settled'
  BY <1>3 DEF IInv, Evaluate, Settled
<1>10. Origins'
  BY <1>3 DEF IInv, Evaluate, Origins
<1>11. Results'
  BY <1>3 DEF IInv, Evaluate, Exit, Stopped, Results, Succeeded
<1>12. Compensated'
  BY DEF Evaluate, Exit, Compensated
<1>13. Deciding'
  <2>1. "game-rollback-command" \in alive => Game /\ ~Held
    BY DEF IInv, Deciding
  <2>2. ASSUME ~Held, ShouldEvaluateRecovery, pc = "evaluate"
        PROVE  Game /\ {"update-remote-compose", "deploy-stack"} \cap alive = {} /\ compose = "new"
    <3>1. Game /\ started /\ ~boundary /\ (committed \/ "verify-tradepool-release" \notin completed)
      BY <2>2 DEF ShouldEvaluateRecovery, Held
    <3>2. CASE committed
      BY <1>1, <2>2, <3>2 DEF IInv, Flags, Settled, Results, Succeeded, BegunOrdered, Begun
    <3>3. CASE ~committed /\ "update-remote-compose" \in Begun
      <4>1. Transactional
        BY <1>1, <3>1, <3>3 DEF IInv, Flags, BegunOrdered, Begun, Boundary
      <4>2. "update-remote-compose" \in completed \/ failed = "update-remote-compose"
        BY <2>2, <3>3 DEF IInv, Flags, Begun
      <4>3. service = "new"
        BY <2>2, <3>1, <3>3, <4>1, <4>2 DEF IInv, Compensated, NeedsCompensation
      <4>4. "deploy-stack" \notin alive /\ "update-remote-compose" \in Past
        BY <1>1, <4>3 DEF IInv, Origins, BegunOrdered
      <4> QED BY <2>2, <3>1, <4>4 DEF IInv, Settled, Results, Succeeded
    <3>4. CASE ~committed /\ "update-remote-compose" \notin Begun
      BY <3>1, <3>4 DEF IInv, Flags
    <3> QED BY <3>2, <3>3, <3>4
  <2> QED BY <1>3, <2>1, <2>2 DEF Evaluate, Exit, Deciding, Held
<1>14. CleanExit'
  <2>1. ASSUME ~Held, ~ShouldEvaluateRecovery, pc = "evaluate"
        PROVE  {"update-remote-compose", "deploy-stack", "deploy-forum-compose"} \cap Begun = {}
    <3>1. ~boundary /\ Cutovers \cap Begun = {}
      BY <2>1 DEF IInv, Flags, Held, Boundary
    <3>2. "deploy-stack" \notin Begun
      <4>1. SUFFICES ASSUME "deploy-stack" \in Begun PROVE FALSE
        OBVIOUS
      <4>2. Game /\ started
        BY <1>1, <4>1 DEF IInv, Flags, BegunOrdered
      <4>3. ~committed /\ "verify-tradepool-release" \in completed
        BY <2>1, <4>2 DEF ShouldEvaluateRecovery
      <4> QED BY <1>1, <4>3 DEF IInv, Flags, BegunOrdered, Begun
    <3>3. "update-remote-compose" \notin Begun
      <4>1. SUFFICES ASSUME "update-remote-compose" \in Begun PROVE FALSE
        OBVIOUS
      <4>2. Game
        BY <3>1, <4>1 DEF IInv, Flags, Boundary
      <4>3. Transactional
        BY <1>1, <3>1, <4>1, <4>2 DEF BegunOrdered, Begun
      <4>4. ~committed
        BY <1>1, <3>2 DEF IInv, Flags, BegunOrdered, Begun
      <4>5. NeedsCompensation
        BY <2>1, <3>1, <4>1, <4>3, <4>4 DEF IInv, Flags, Begun, NeedsCompensation
      <4>6. service = "new"
        BY <2>1, <4>5 DEF IInv, Compensated
      <4> QED BY <1>1, <3>2, <4>2, <4>6 DEF IInv, Origins, BegunOrdered
    <3> QED BY <1>1, <3>3 DEF BegunOrdered, Begun
  <2>2. ASSUME ~Held, ~ShouldEvaluateRecovery, pc = "evaluate"
        PROVE  /\ compose = "old" /\ service = "old" /\ writers /\ Cutovers \cap alive = {}
               /\ {"update-remote-compose", "deploy-stack", "deploy-forum-compose"}
                    \cap alive = {}
    <3>1. Cutovers \cap Begun = {}
      BY <2>2 DEF IInv, Flags, Held, Boundary
    <3>2. compose = "old" /\ service = "old" /\ writers
      BY <2>1, <2>2, <3>1 DEF IInv, Origins, TypeOK
    <3> QED BY <2>1, <2>2, <3>1, <3>2 DEF IInv, OnTheirWay, Cutovers
  <2>3. status = "RUNNING" /\ pc = "evaluate"
    BY <1>1 DEF Evaluate, Phases
  <2> QED BY <2>2, <2>3 DEF Evaluate, Exit, CleanExit
<1>15. RolledBackIsOld'
  BY DEF IInv, Evaluate, Exit, Stopped, RolledBackIsOld
<1>16. MeelokAnswered'
  BY DEF Evaluate, Exit, MeelokAnswered
<1> QED BY <1>4, <1>5, <1>6, <1>7, <1>8, <1>9, <1>10, <1>11, <1>12, <1>13, <1>14, <1>15, <1>16
           DEF IInv

LEMMA ConfirmKeeps == ASSUME IInv, Confirm PROVE IInv'
<1> USE DEF control, production
<1>1. TypeOK /\ Phases /\ BegunOrdered
  BY BegunIsOrdered DEF IInv
<1>2. UNCHANGED <<plan, next, failed>> /\ (pc = "command" <=> pc' = "command")
  BY DEF Confirm
<1>3. Past' = Past /\ Begun' = Begun /\ key' = key /\ Game' = Game
     /\ Walked(next)' = Walked(next) /\ Boundary' = Boundary
  BY <1>2, Frame
<1>4. TypeOK'
  BY <1>1 DEF Confirm, Sent, TypeOK, Pcs
<1>5. FlagsOK'
  BY Zenon DEF IInv, Confirm, FlagsOK
<1>6. Phases'
  BY <1>1, <1>3 DEF Confirm, Phases
<1>7. Flags'
  BY <1>3 DEF IInv, Confirm, Flags
<1>8. OnTheirWay'
  BY <1>3 DEF IInv, Confirm, Sent, OnTheirWay, RollingBack
<1>9. Settled'
  BY <1>3 DEF IInv, Confirm, Sent, Settled
<1>10. Origins'
  BY <1>3 DEF IInv, Confirm, Sent, Origins
<1>11. Results'
  BY <1>3 DEF IInv, Confirm, Results, Succeeded
<1>12. Compensated'
  BY DEF Confirm, Compensated
<1>13. Deciding'
  BY <1>3 DEF IInv, Confirm, Sent, Deciding, Held, Changing, Apart
<1>14. CleanExit'
  BY <1>1 DEF Confirm, CleanExit, Phases
<1>15. RolledBackIsOld'
  BY DEF IInv, Confirm, Sent, RolledBackIsOld
<1>16. MeelokAnswered'
  BY DEF Confirm, MeelokAnswered
<1> QED BY <1>4, <1>5, <1>6, <1>7, <1>8, <1>9, <1>10, <1>11, <1>12, <1>13, <1>14, <1>15, <1>16
           DEF IInv

LEMMA HoldTargetKeeps == ASSUME IInv, HoldTarget PROVE IInv'
<1> USE DEF control, production
<1>1. TypeOK /\ Phases /\ BegunOrdered
  BY BegunIsOrdered DEF IInv
<1>2. UNCHANGED <<plan, next, failed>> /\ (pc = "command" <=> pc' = "command")
  BY DEF HoldTarget, Exit
<1>3. Past' = Past /\ Begun' = Begun /\ key' = key /\ Game' = Game
     /\ Walked(next)' = Walked(next) /\ Boundary' = Boundary
  BY <1>2, Frame
<1>4. TypeOK'
  BY <1>1 DEF HoldTarget, Exit, TypeOK, Pcs
<1>5. FlagsOK'
  BY Zenon DEF IInv, HoldTarget, FlagsOK
<1>6. Phases'
  BY <1>1, <1>3 DEF HoldTarget, Exit, Phases
<1>7. Flags'
  BY <1>3 DEF IInv, HoldTarget, Flags
<1>8. OnTheirWay'
  BY <1>3 DEF IInv, HoldTarget, Exit, OnTheirWay, RollingBack
<1>9. Settled'
  BY <1>3 DEF IInv, HoldTarget, Settled
<1>10. Origins'
  BY <1>3 DEF IInv, HoldTarget, Origins
<1>11. Results'
  BY <1>3 DEF IInv, HoldTarget, Exit, Results, Succeeded
<1>12. Compensated'
  BY DEF HoldTarget, Exit, Compensated
<1>13. Deciding'
  BY <1>3 DEF IInv, HoldTarget, Exit, Deciding, Held
<1>14. CleanExit'
  BY DEF HoldTarget, Exit, CleanExit
<1>15. RolledBackIsOld'
  BY DEF HoldTarget, Exit, RolledBackIsOld
<1>16. MeelokAnswered'
  BY DEF HoldTarget, Exit, MeelokAnswered
<1> QED BY <1>4, <1>5, <1>6, <1>7, <1>8, <1>9, <1>10, <1>11, <1>12, <1>13, <1>14, <1>15, <1>16
           DEF IInv

LEMMA RollbackKeeps == ASSUME IInv, Rollback PROVE IInv'
<1> USE DEF control, production
<1>1. TypeOK /\ Phases /\ BegunOrdered
  BY BegunIsOrdered DEF IInv
<1>2. UNCHANGED <<plan, next, failed>> /\ (pc = "command" <=> pc' = "command")
  BY DEF Rollback, Exit
<1>3. Past' = Past /\ Begun' = Begun /\ key' = key /\ Game' = Game
     /\ Walked(next)' = Walked(next) /\ Boundary' = Boundary
  BY <1>2, Frame
<1>4. TypeOK'
  BY <1>1 DEF Rollback, Exit, RollbackFailed, TypeOK, Pcs
<1>5. FlagsOK'
  BY Zenon DEF IInv, Rollback, FlagsOK
<1>6. Phases'
  BY <1>1, <1>3 DEF Rollback, Exit, RollbackFailed, Phases
<1>7. Flags'
  BY <1>3 DEF IInv, Rollback, Flags
<1>8. OnTheirWay'
  BY <1>3 DEF IInv, Rollback, Exit, RollbackFailed, OnTheirWay, RollingBack
<1>9. Settled'
  BY <1>3 DEF IInv, Rollback, Settled
<1>10. Origins'
  BY <1>3 DEF IInv, Rollback, Origins
<1>11. Results'
  BY <1>3 DEF IInv, Rollback, Exit, RollbackFailed, Results, Succeeded
<1>12. Compensated'
  BY DEF Rollback, Exit, Compensated
<1>13. Deciding'
  BY <1>3 DEF IInv, Rollback, Exit, Deciding, Held
<1>14. CleanExit'
  BY DEF Rollback, Exit, RollbackFailed, CleanExit
<1>15. RolledBackIsOld'
  BY DEF IInv, Rollback, Exit, RollbackFailed, RolledBackIsOld, Deciding
<1>16. MeelokAnswered'
  BY DEF Rollback, Exit, MeelokAnswered
<1> QED BY <1>4, <1>5, <1>6, <1>7, <1>8, <1>9, <1>10, <1>11, <1>12, <1>13, <1>14, <1>15, <1>16
           DEF IInv

LEMMA ControlledExitKeeps == ASSUME IInv, ControlledExit PROVE IInv'
<1> USE DEF control, production
<1>1. TypeOK /\ Phases /\ BegunOrdered
  BY BegunIsOrdered DEF IInv
<1>2. UNCHANGED <<plan, next, failed>> /\ (pc = "command" <=> pc' = "command")
  BY DEF ControlledExit
<1>3. Past' = Past /\ Begun' = Begun /\ key' = key /\ Game' = Game
     /\ Walked(next)' = Walked(next) /\ Boundary' = Boundary
  BY <1>2, Frame
<1>4. TypeOK'
  BY <1>1 DEF ControlledExit, Sent, TypeOK, Pcs
<1>5. FlagsOK'
  BY Zenon DEF IInv, ControlledExit, FlagsOK
<1>6. Phases'
  BY <1>1, <1>3 DEF ControlledExit, Phases
<1>7. Flags'
  BY <1>3 DEF IInv, ControlledExit, Flags
<1>8. OnTheirWay'
  BY <1>3 DEF IInv, ControlledExit, Sent, OnTheirWay, RollingBack
<1>9. Settled'
  BY <1>3 DEF IInv, ControlledExit, Sent, Settled
<1>10. Origins'
  BY <1>3 DEF IInv, ControlledExit, Sent, Origins
<1>11. Results'
  BY <1>3 DEF IInv, ControlledExit, Results, Succeeded
<1>12. Compensated'
  BY DEF ControlledExit, Compensated
<1>13. Deciding'
  <2>1. "game-rollback-command" \in alive' => "game-rollback-command" \in alive
    BY DEF ControlledExit, Sent
  <2> QED BY <1>3, <2>1 DEF IInv, ControlledExit, Deciding, Held
<1>14. CleanExit'
  <2>1. alive' \subseteq alive \cup {"restore-meelok-services"}
    BY DEF ControlledExit, Sent
  <2> QED BY <2>1 DEF IInv, ControlledExit, CleanExit, Cutovers
<1>15. RolledBackIsOld'
  BY DEF IInv, ControlledExit, Sent, RolledBackIsOld
<1>16. MeelokAnswered'
  BY DEF ControlledExit, PauseBegun, MeelokAnswered
<1> QED BY <1>4, <1>5, <1>6, <1>7, <1>8, <1>9, <1>10, <1>11, <1>12, <1>13, <1>14, <1>15, <1>16
           DEF IInv

LEMMA RestoreEndsKeeps == ASSUME IInv, RestoreEnds PROVE IInv'
<1> USE DEF control, production
<1>1. TypeOK /\ Phases /\ BegunOrdered
  BY BegunIsOrdered DEF IInv
<1>2. UNCHANGED <<plan, next, failed>> /\ (pc = "command" <=> pc' = "command")
  BY DEF RestoreEnds
<1>3. Past' = Past /\ Begun' = Begun /\ key' = key /\ Game' = Game
     /\ Walked(next)' = Walked(next) /\ Boundary' = Boundary
  BY <1>2, Frame
<1>4. TypeOK'
  BY <1>1 DEF RestoreEnds, TypeOK, Pcs
<1>5. FlagsOK'
  BY Zenon DEF IInv, RestoreEnds, FlagsOK
<1>6. Phases'
  BY <1>1, <1>3 DEF RestoreEnds, Phases
<1>7. Flags'
  BY <1>3 DEF IInv, RestoreEnds, Flags
<1>8. OnTheirWay'
  BY <1>3 DEF IInv, RestoreEnds, OnTheirWay, RollingBack
<1>9. Settled'
  BY <1>3 DEF IInv, RestoreEnds, Settled
<1>10. Origins'
  BY <1>3 DEF IInv, RestoreEnds, Origins
<1>11. Results'
  BY <1>3 DEF IInv, RestoreEnds, Results, Succeeded
<1>12. Compensated'
  BY DEF RestoreEnds, Compensated
<1>13. Deciding'
  BY <1>3 DEF IInv, RestoreEnds, Deciding, Held
<1>14. CleanExit'
  BY DEF IInv, RestoreEnds, CleanExit
<1>15. RolledBackIsOld'
  BY DEF IInv, RestoreEnds, RolledBackIsOld
<1>16. MeelokAnswered'
  BY DEF RestoreEnds, MeelokAnswered
<1> QED BY <1>4, <1>5, <1>6, <1>7, <1>8, <1>9, <1>10, <1>11, <1>12, <1>13, <1>14, <1>15, <1>16
           DEF IInv

LEMMA StopBeforeStepKeeps == ASSUME IInv, StopBeforeStep PROVE IInv'
<1> USE DEF control, production
<1>1. TypeOK /\ Phases /\ BegunOrdered
  BY BegunIsOrdered DEF IInv
<1>2. UNCHANGED <<plan, next, completed, status>> /\ pc = "next" /\ pc' = "catch"
  BY DEF StopBeforeStep, Throw
<1>3. Past' = Past /\ Game' = Game /\ Boundary' = Boundary /\ Walked(next)' = Walked(next)
  BY <1>2 DEF Past, Walked, Game, Boundary
<1>4. next <= Len(Steps[plan]) /\ failed' \in Past \cup {""}
  <2>1. next <= Len(Steps[plan])
    BY DEF StopBeforeStep
  <2>2. next \in Nat /\ next >= 1
    <3>1. plan \in Plans /\ next \in 1..(Len(Steps[plan]) + 1)
      BY <1>1 DEF TypeOK
    <3> QED BY <3>1
  <2>3. next # 1 => Steps[plan][next - 1] \in Past
    BY <2>2 DEF Past, Walked
  <2> QED BY <2>3 DEF StopBeforeStep, Throw
<1>5. Begun = Past /\ Begun' = Past
  BY <1>1, <1>2, <1>3, <1>4 DEF Begun, Phases
<1>6. Past \subseteq Walked(next)
  BY <1>1, <1>4, WalkOneMore
<1>7. "game-rollback-command" \notin alive
  BY <1>1, <1>2, RollbackIsLast DEF Phases
<1>8. why' = "cancel" /\ UNCHANGED <<boundary, started, committed, alive, production>>
  BY DEF StopBeforeStep, Throw
<1>9. TypeOK'
  BY <1>1, <1>2, <1>8 DEF TypeOK, Pcs
<1>10. FlagsOK'
  BY Zenon DEF IInv, StopBeforeStep, FlagsOK
<1>11. Phases'
  BY <1>1, <1>2, <1>3, <1>4, <1>6, <1>8 DEF Phases
<1>12. Flags'
  BY <1>2, <1>3, <1>5, <1>8 DEF IInv, Flags
<1>13. OnTheirWay'
  BY <1>5, <1>7, <1>8 DEF IInv, OnTheirWay
<1>14. Settled'
  BY <1>3, <1>8 DEF IInv, Settled
<1>15. Origins'
  BY <1>5, <1>8 DEF IInv, Origins
<1>16. Results'
  BY <1>2, <1>3, <1>8 DEF IInv, Results, Succeeded
<1>17. Compensated'
  BY <1>2 DEF Compensated
<1>18. Deciding'
  BY <1>2, <1>7, <1>8 DEF Deciding
<1>19. CleanExit'
  BY <1>2, <1>8 DEF IInv, CleanExit
<1>20. RolledBackIsOld'
  BY <1>2, <1>8 DEF IInv, RolledBackIsOld
<1>21. MeelokAnswered'
  BY <1>2 DEF MeelokAnswered
<1> QED BY <1>9, <1>10, <1>11, <1>12, <1>13, <1>14, <1>15, <1>16, <1>17, <1>18, <1>19, <1>20,
           <1>21 DEF IInv

LEMMA StartStepKeeps == ASSUME IInv, StartStep PROVE IInv'
<1> USE DEF control, production
<1>1. TypeOK /\ Phases /\ BegunOrdered
  BY BegunIsOrdered DEF IInv
<1>2. UNCHANGED <<plan, next, failed, completed, status>> /\ pc = "next" /\ pc' = "command"
  BY DEF StartStep
<1>3. Past' = Past /\ Game' = Game /\ Boundary' = Boundary /\ key' = key
  BY <1>2 DEF Past, Walked, Game, Boundary, key
<1>4. next <= Len(Steps[plan]) /\ failed = ""
  BY <1>1 DEF StartStep, Phases
<1>5. Begun = Past /\ Begun' = Past \cup {key}
  BY <1>2, <1>3, <1>4 DEF Begun
<1>6. key \in Apart => key \notin Past
  BY <1>1, <1>4, WalkOneMore
<1>7. boundary' = (boundary \/ key \in Boundary) /\ started' = (started \/ key = "deploy-stack")
      /\ UNCHANGED <<committed, why, unresolved, production>>
  BY DEF StartStep
<1>8. alive' = alive \cup ({key} \cap Changing)
  BY DEF StartStep, Sent
<1>9. "game-rollback-command" \notin alive'
  <2>1. "game-rollback-command" \notin alive
    BY <1>1, <1>2, RollbackIsLast DEF Phases
  <2>2. key # "game-rollback-command"
    BY <1>1, <1>4, CurrentIsOrdered
  <2> QED BY <1>8, <2>1, <2>2
<1>10. TypeOK'
  BY <1>1, <1>2, <1>4, <1>7, <1>8 DEF TypeOK, Pcs
<1>11. FlagsOK'
  BY Zenon DEF IInv, StartStep, FlagsOK
<1>12. Phases'
  BY <1>1, <1>2, <1>7 DEF Phases
<1>13. Flags'
  <2>1. key = "deploy-stack" => "update-remote-compose" \in Past
    BY <1>1, <1>2, <1>4, CurrentIsOrdered
  <2> QED BY <1>2, <1>3, <1>5, <1>7, <2>1 DEF IInv, Flags
<1>14. OnTheirWay'
  BY <1>5, <1>8, <1>9 DEF IInv, OnTheirWay
<1>15. Settled'
  <2>1. Past \cap {key} \cap Changing = {}
    BY <1>6 DEF Changing
  <2> QED BY <1>3, <1>8, <2>1 DEF IInv, Settled
<1>16. Origins'
  <2>1. service = "new" => key # "deploy-stack"
    BY <1>1, <1>4, <1>5, <1>6, CurrentIsOrdered DEF IInv, Origins, Apart, BegunOrdered
  <2> QED BY <1>5, <1>7, <1>8, <2>1 DEF IInv, Origins
<1>17. Results'
  <2>1. key \in Changing => key \in alive'
    BY <1>8
  <2> QED BY <1>2, <1>3, <1>7, <2>1 DEF IInv, Results, Succeeded, Changing, Apart
<1>18. Compensated'
  BY <1>2 DEF Compensated
<1>19. Deciding'
  BY <1>2, <1>9 DEF Deciding
<1>20. CleanExit'
  BY <1>1, <1>2 DEF CleanExit, Phases
<1>21. RolledBackIsOld'
  BY <1>1, <1>2 DEF RolledBackIsOld, Phases
<1>22. MeelokAnswered'
  BY <1>2 DEF MeelokAnswered
<1> QED BY <1>10, <1>11, <1>12, <1>13, <1>14, <1>15, <1>16, <1>17, <1>18, <1>19, <1>20, <1>21,
           <1>22 DEF IInv

\* A step fails, or is cancelled when its command has ended.
LEMMA StepFails ==
  ASSUME IInv, pc = "command", NEW w \in {"cancel", "error"}, Throw(key, w),
         UNCHANGED <<plan, next, boundary, started, committed, completed, status, unresolved,
                     production, alive>>,
         aborted' = aborted
  PROVE  IInv'
<1> USE DEF control, production
<1>1. TypeOK /\ Phases /\ BegunOrdered
  BY BegunIsOrdered DEF IInv
<1>2. TypeOK /\ next <= Len(Steps[plan]) /\ failed = ""
  BY <1>1 DEF TypeOK, Phases
<1>3. Past' = Past /\ Game' = Game /\ Boundary' = Boundary /\ Walked(next)' = Walked(next)
  BY DEF Past, Walked, Game, Boundary
<1>4. failed' = key /\ key \in Walked(next) /\ pc' = "catch"
  BY <1>2, WalkOneMore DEF Throw
<1>5. Begun' = Begun
  BY <1>2, <1>3, <1>4, WalkOneMore DEF Begun
<1>6. "game-rollback-command" \notin alive
  BY <1>1, RollbackIsLast DEF Phases
<1>7. why' = w
  BY DEF Throw
<1>8. TypeOK'
  BY <1>1, <1>4, <1>7 DEF TypeOK, Pcs
<1>9. FlagsOK'
  BY Zenon DEF IInv, FlagsOK
<1>10. Phases'
  BY <1>1, <1>2, <1>3, <1>4, <1>7 DEF Phases
<1>11. Flags'
  BY <1>3, <1>5 DEF IInv, Flags
<1>12. OnTheirWay'
  BY <1>5, <1>6 DEF IInv, OnTheirWay
<1>13. Settled'
  BY <1>3 DEF IInv, Settled
<1>14. Origins'
  BY <1>5 DEF IInv, Origins
<1>15. Results'
  BY <1>3, <1>4 DEF IInv, Results, Succeeded
<1>16. Compensated'
  BY <1>4 DEF Compensated
<1>17. Deciding'
  BY <1>4, <1>6 DEF Deciding
<1>18. CleanExit'
  BY DEF IInv, CleanExit
<1>19. RolledBackIsOld'
  BY DEF IInv, RolledBackIsOld
<1>20. MeelokAnswered'
  BY <1>4 DEF MeelokAnswered
<1> QED BY <1>8, <1>9, <1>10, <1>11, <1>12, <1>13, <1>14, <1>15, <1>16, <1>17, <1>18, <1>19,
           <1>20 DEF IInv

\* A step is done; only a pause or a restore may still be on its way.
LEMMA StepPasses ==
  ASSUME IInv, pc = "command", pc' = "next", next' = next + 1,
         completed \subseteq completed', completed' \subseteq completed \cup {key},
         key \in completed' \cup {"restore-meelok-services"},
         committed' = (committed \/ key = "commit-game-cutover"),
         unresolved' \in BOOLEAN, key \in alive => key \in Notifications,
         UNCHANGED <<plan, boundary, started, failed, why, aborted, status, production, alive>>
  PROVE  IInv'
<1> USE DEF control, production
<1>1. TypeOK /\ Phases /\ BegunOrdered
  BY BegunIsOrdered DEF IInv
<1>2. next <= Len(Steps[plan]) /\ next \in Nat /\ Len(Steps[plan]) \in Nat
  <2>1. plan \in Plans /\ next \in 1..(Len(Steps[plan]) + 1) /\ next <= Len(Steps[plan])
    BY <1>1 DEF TypeOK
  <2> QED BY <2>1
<1>3. Past' = Past \cup {key} /\ (key \in Apart => key \notin Past)
  <2>1. Past' = Walked(next)
    BY <1>2 DEF Past, Walked
  <2> QED BY <1>1, <1>2, <2>1, WalkOneMore
<1>4. Game' = Game /\ Boundary' = Boundary
  BY DEF Game, Boundary
<1>5. failed = "" /\ failed' = ""
  BY <1>1 DEF Phases
<1>6. Begun' = Begun
  BY <1>3 DEF Begun
<1>7. "game-rollback-command" \notin alive
  BY <1>1, RollbackIsLast DEF Phases
<1>8. TypeOK'
  <2>1. next' \in 1..(Len(Steps[plan']) + 1)
    BY <1>2
  <2>2. pc' \in Pcs /\ pc' # "command"
    BY DEF Pcs
  <2> QED BY <1>1, <2>1, <2>2 DEF TypeOK
<1>9. FlagsOK'
  BY Zenon DEF IInv, FlagsOK
<1>10. Phases'
  BY <1>1 DEF Phases
<1>11. Flags'
  BY <1>3, <1>4, <1>6 DEF IInv, Flags
<1>12. OnTheirWay'
  BY <1>6, <1>7 DEF IInv, OnTheirWay
<1>13. Settled'
  <2>1. key \in {"update-remote-compose", "deploy-stack", "deploy-forum-compose"} =>
          key \notin alive
    BY DEF Notifications
  <2> QED BY <1>3, <2>1 DEF IInv, Settled
<1>14. Origins'
  BY <1>6 DEF IInv, Origins
<1>15. Results'
  <2>1. ASSUME NEW k \in Apart, k \notin Notifications, k \in Past'
        PROVE  Succeeded(k)
    BY <1>3, <2>1 DEF Succeeded
  <2>2. ASSUME NEW k, Succeeded(k)' PROVE k \in Past'
    BY <2>2 DEF Succeeded
  <2> QED BY <2>1, <2>2 DEF IInv, Results, Apart, Notifications
<1>16. Compensated'
  BY DEF Compensated
<1>17. Deciding'
  BY <1>7 DEF Deciding
<1>18. CleanExit'
  BY DEF IInv, CleanExit
<1>19. RolledBackIsOld'
  BY DEF IInv, RolledBackIsOld
<1>20. MeelokAnswered'
  BY DEF MeelokAnswered
<1> QED BY <1>8, <1>9, <1>10, <1>11, <1>12, <1>13, <1>14, <1>15, <1>16, <1>17, <1>18, <1>19,
           <1>20 DEF IInv

LEMMA CommandSucceedsKeeps == ASSUME IInv, CommandSucceeds PROVE IInv'
<1>1. CASE aborted /\ key # "accept-game-standby-candidate"
  BY <1>1, StepFails DEF CommandSucceeds, AfterCommand
<1>2. CASE ~(aborted /\ key # "accept-game-standby-candidate")
  <2>1. CompleteStep
    BY <1>2 DEF CommandSucceeds, AfterCommand
  <2>2. unresolved' \in BOOLEAN
    BY DEF IInv, FlagsOK, CommandSucceeds
  <2> QED BY <2>1, <2>2, StepPasses DEF CommandSucceeds, CompleteStep
<1> QED BY <1>1, <1>2

LEMMA CommandFailsKeeps == ASSUME IInv, CommandFails PROVE IInv'
BY StepFails DEF CommandFails

LEMMA PauseFailsKeeps == ASSUME IInv, PauseFails PROVE IInv'
<1>1. CompleteStep
  BY DEF PauseFails, AfterCommand
<1>2. unresolved' \in BOOLEAN
  BY DEF IInv, FlagsOK, PauseFails
<1> QED BY <1>1, <1>2, StepPasses DEF PauseFails, CompleteStep

LEMMA RestoreStepFailsKeeps == ASSUME IInv, RestoreStepFails PROVE IInv'
<1>1. committed' = (committed \/ key = "commit-game-cutover")
  BY DEF IInv, FlagsOK, RestoreStepFails
<1>2. unresolved' \in BOOLEAN /\ pc = "command" /\ key = "restore-meelok-services"
  BY DEF RestoreStepFails
<1> QED BY <1>1, StepPasses DEF RestoreStepFails, Notifications

--------------------------------------------------------------------------------
LEMMA InitIInv == Init => IInv
<1> SUFFICES ASSUME Init PROVE IInv
  OBVIOUS
<1>1. Past = {} /\ Begun = {}
  <2>1. next = 1
    BY DEF Init
  <2>2. 1..(next - 1) = {}
    BY <2>1
  <2>3. Past = {}
    BY <2>2 DEF Past, Walked
  <2> QED BY <2>3 DEF Init, Begun
<1>2. TypeOK
  <2>1. plan \in Plans /\ next = 1
    BY DEF Init
  <2>2. next \in 1..(Len(Steps[plan]) + 1)
    BY <2>1, StepsTyped
  <2> QED BY <2>1, <2>2 DEF Init, TypeOK, Pcs
<1>3. FlagsOK /\ Phases /\ Flags /\ OnTheirWay /\ Settled /\ Origins
  BY <1>1 DEF Init, FlagsOK, Phases, Flags, OnTheirWay, Settled, Origins
<1>4. Results /\ Compensated /\ Deciding /\ CleanExit /\ RolledBackIsOld /\ MeelokAnswered
  BY <1>1 DEF Init, Results, Succeeded, Compensated, Deciding, CleanExit, RolledBackIsOld,
              MeelokAnswered
<1> QED BY <1>2, <1>3, <1>4 DEF IInv

LEMMA StutterKeeps == ASSUME IInv, UNCHANGED vars PROVE IInv'
<1> USE DEF vars, control, production
<1>1. Past' = Past /\ Begun' = Begun /\ key' = key /\ Game' = Game
     /\ Walked(next)' = Walked(next) /\ Boundary' = Boundary
  BY Frame
<1>2. TypeOK'
  BY <1>1 DEF IInv, TypeOK
<1>10. Phases' /\ Settled'
  BY <1>1 DEF IInv, Phases, Settled
<1>3. Flags' /\ OnTheirWay'
  BY <1>1 DEF IInv, Flags, OnTheirWay, RollingBack
<1>4. Origins'
  BY <1>1 DEF IInv, Origins
<1>5. FlagsOK'
  BY Zenon DEF IInv, FlagsOK
<1>6. Results' /\ Compensated' /\ Deciding'
  BY <1>1 DEF IInv, Results, Succeeded, Compensated, NeedsCompensation, Transactional,
     Deciding, Held
<1>7. CleanExit'
  BY DEF IInv, CleanExit
<1>8. RolledBackIsOld'
  BY DEF IInv, RolledBackIsOld
<1>9. MeelokAnswered'
  BY DEF IInv, MeelokAnswered
<1> QED BY <1>2, <1>3, <1>4, <1>5, <1>6, <1>7, <1>8, <1>9, <1>10 DEF IInv

LEMMA NextIInv == IInv /\ [Next]_vars => IInv'
<1> SUFFICES ASSUME IInv, [Next]_vars PROVE IInv'
  OBVIOUS
<1>1. ASSUME NEW k \in alive, Effect(k) \/ Lost(k) PROVE IInv'
  BY <1>1, EffectKeeps, LostKeeps
<1>2. CASE Abort
  BY <1>2, AbortKeeps
<1>3. CASE StopBeforeStep \/ StartStep \/ CommandSucceeds \/ CommandFails
  BY <1>3, StopBeforeStepKeeps, StartStepKeeps, CommandSucceedsKeeps, CommandFailsKeeps
<1>4. CASE PauseFails \/ RestoreStepFails \/ StepsDone
  BY <1>4, PauseFailsKeeps, RestoreStepFailsKeeps, StepsDoneKeeps
<1>5. CASE Catch \/ CompensationRestores \/ CompensationAttempted \/ CompensationUnknown
  BY <1>5, CatchKeeps, CompensationRestoresKeeps, CompensationAttemptedKeeps,
     CompensationUnknownKeeps
<1>6. CASE Evaluate \/ Confirm \/ HoldTarget \/ Rollback
  BY <1>6, EvaluateKeeps, ConfirmKeeps, HoldTargetKeeps, RollbackKeeps
<1>7. CASE ControlledExit \/ RestoreEnds
  BY <1>7, ControlledExitKeeps, RestoreEndsKeeps
<1>8. CASE UNCHANGED vars
  BY <1>8, StutterKeeps
<1> QED BY <1>1, <1>2, <1>3, <1>4, <1>5, <1>6, <1>7, <1>8 DEF Next

--------------------------------------------------------------------------------
\* The inductive invariant holds of every release.
THEOREM Invariance == Spec => []IInv
BY InitIInv, NextIInv, PTL DEF Spec

\* A release that is reported as failed or cancelled has changed nothing, and none
\* of its commands that may still be on its way can.
THEOREM FailedIsClean == Spec => []CleanExit
<1>1. IInv => CleanExit
  BY DEF IInv
<1> QED BY <1>1, Invariance, PTL

\* "Rolled back" is only reported of a service that is the old one and stays so, and of a
\* Compose file that is the old one and stays so, unless the release was the retry of a
\* paused rollout, which leaves the file as it is.
THEOREM RolledBackStays == Spec => []RolledBackIsOld
<1>1. IInv => RolledBackIsOld
  BY DEF IInv
<1> QED BY <1>1, Invariance, PTL

\* "Executed" is only reported of a version in service, taken over and accepted.
THEOREM ExecutedIsServed == Spec => []ExecutedIsAccepted
<1>1. IInv => ExecutedIsAccepted
  <2> SUFFICES ASSUME IInv, status = "EXECUTED" PROVE ExecutedIsAccepted
    BY DEF ExecutedIsAccepted
  <2>1. Past = Walked(Len(Steps[plan])) /\ plan \in Plans
    <3>1. next = Len(Steps[plan]) + 1 /\ plan \in Plans
      BY DEF IInv, Phases, TypeOK
    <3>2. Len(Steps[plan]) \in Nat
      BY <3>1, StepsTyped
    <3>3. next - 1 = Len(Steps[plan])
      BY <3>1, <3>2
    <3> QED BY <3>1, <3>3 DEF Past
  <2>2. Whole(Past)
    BY <2>1, WalkedWhole
  <2> QED BY <2>2 DEF IInv, Results, Succeeded, Whole, Game, ExecutedIsAccepted
<1> QED BY <1>1, Invariance, PTL

\* Every pause of Meelok that was begun is followed by a restore, or by a mark for
\* the operator, whichever way the release ends.
THEOREM PauseIsAnswered == Spec => []MeelokAnswered
<1>1. IInv => MeelokAnswered
  BY DEF IInv
<1> QED BY <1>1, Invariance, PTL

\* Only the rollback command puts the old version back, and it is never sent after
\* an offline cutover, after a cancelled commit or in the forum.
THEOREM TargetIsKept == Spec => TargetStays
<1> DEFINE A == boundary \/ ~Game \/ (committed /\ why = "cancel") =>
                  ~(service = "new" /\ service' = "old")
<1>1. ASSUME IInv, [Next]_vars PROVE [A]_vars
  <2>1. ASSUME NEW k \in alive, Effect(k) PROVE A
    <3>1. "game-rollback-command" \in alive => Game /\ ~Held
      BY <1>1 DEF IInv, Deciding
    <3>2. k # "game-rollback-command" => service' # "old" \/ service' = service
      BY <2>1 DEF Effect
    <3> QED BY <3>1, <3>2 DEF Held
  <2>2. ASSUME UNCHANGED service PROVE A
    BY <2>2
  <2>3. (\E k \in alive : Effect(k)) \/ UNCHANGED service
    BY <1>1 DEF Next, vars, production, Lost, Abort, StopBeforeStep, StartStep, CommandSucceeds,
                CommandFails, PauseFails, RestoreStepFails, StepsDone, Catch,
                CompensationRestores, CompensationAttempted, CompensationUnknown, Evaluate,
                Confirm, HoldTarget, Rollback, ControlledExit, RestoreEnds
  <2> QED BY <2>1, <2>2, <2>3
<1> QED BY <1>1, Invariance, PTL DEF Spec, TargetStays
================================================================================
