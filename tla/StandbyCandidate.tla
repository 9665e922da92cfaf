--------------------------- MODULE StandbyCandidate ----------------------------
(***************************************************************************)
(* The standby candidate of a game release (src/gameStandbyCandidate.js):  *)
(* one image is built, distributed to the primary and to the standby,      *)
(* verified, cut over on the primary, and at last accepted on the standby  *)
(* as the version it would take over with.  Each of these is a process of  *)
(* its own that keeps a receipt in .release-candidates/<id>.               *)
(*                                                                         *)
(* A process may be killed at any step, a request may be answered, be      *)
(* carried out without its answer arriving, or be carried out after its    *)
(* sender has given it up.  What the nodes do with a request is not in     *)
(* this repository; it is taken from the receipts the client insists on.   *)
(***************************************************************************)
EXTENDS Naturals, FiniteSets

CONSTANTS Candidate, \* releases, each with the image it has built
          Baseline,  \* the candidate accepted before; on A, anything but a candidate
          Process,   \* actions under way at the same time
          None,
          MaxLate,   \* bound: requests that outlive their sender, at a time
          MaxEvents  \* bound: failures, kills and changes from outside

\* A candidate.json, and what B keeps of a prepared candidate.
Receipt == [commit : 1..2, archive : BOOLEAN, conf : {None} \cup 1..2,
            previous : Candidate \cup {Baseline, None}, accepted : BOOLEAN]
Prepared == [previous : Candidate \cup {Baseline}]

ASSUME StandbyAssumption ==
  /\ Baseline \notin Candidate /\ None \notin Candidate \cup {Baseline} \cup Process
  /\ None \notin Receipt \cup Prepared \cup 1..2
  /\ MaxLate \in Nat /\ MaxEvents \in Nat

Nodes == {"A", "B"}  \* PRIMARY and STANDBY

VARIABLES receipt,  \* candidate.json of each candidate
          lock,     \* the process operation.lock of each candidate belongs to
          process,  \* the processes
          late,     \* requests whose sender waits no more
          local,    \* the image the tag names here, and the commit checked out
          primary,  \* A: images loaded, the one that serves, those that have served
          standby,  \* B: candidates prepared, the one accepted, the version of its secrets
          reserved, \* on each node, the process that holds the upload reservation
          events    \* how many of these there have been

nodeVars == <<primary, standby, reserved>>
vars == <<receipt, lock, process, late, local, nodeVars, events>>

Idle == [pc |-> "idle", cand |-> None, action |-> None, bind |-> None,
         holds |-> {}, failed |-> FALSE]

Init ==
  /\ receipt = [c \in Candidate |-> None]
  /\ lock = [c \in Candidate |-> None]
  /\ process = [p \in Process |-> Idle]
  /\ late = {}
  /\ local \in [tag : Candidate, head : {1}]
  /\ primary = [loaded |-> {}, serves |-> Baseline, served |-> {Baseline}]
  /\ standby = [prepared |-> [c \in Candidate |-> None], accepted |-> Baseline, secrets |-> 1]
  /\ reserved = [n \in Nodes |-> None]
  /\ events = 0

Event == events < MaxEvents /\ events' = events + 1

Actions == {"distribute", "verify", "cutover", "accept"}

BeginOn(n) == IF n = "A" THEN "begin A" ELSE "begin B"
FinishOn(n) == IF n = "A" THEN "finish A" ELSE "finish B"

\* What follows a step of an action that goes well.
Following(action, pc) ==
  CASE pc = "identify" -> "archive"
    [] pc = "archive"  -> "begin A"
    [] pc = "begin A"  -> "load"
    [] pc = "load"     -> "begin B"
    [] pc = "begin B"  -> "prepare"
    [] pc = "prepare"  -> "image"
    [] pc = "verify"   -> IF action = "accept" THEN "runtime" ELSE "image"
    [] pc = "image"    -> CASE action = "distribute" -> "finish A"
                            [] action = "cutover"    -> "cutover"
                            [] OTHER                 -> "end"
    [] pc = "runtime"  -> "accept"
    [] pc = "finish A" -> "finish B"
    [] OTHER           -> "end"

--------------------------------------------------------------------------------
(***************************************************************************)
(* What a node does with a request of process p about candidate c, whose   *)
(* payload carries the receipt b.                                          *)
(***************************************************************************)
\* verify: the candidate is prepared, and no other has been accepted since.
Ready(c) ==
  /\ standby.prepared[c] # None
  /\ standby.accepted \in {c, standby.prepared[c].previous}

\* validateReady: what B reports is what the receipt says, once it says it.
Matches(c, b) ==
  b.conf # None =>
    /\ b.conf = standby.secrets
    /\ b.previous = standby.prepared[c].previous

Begin(p, n) ==
  /\ reserved[n] = None
  /\ reserved' = [reserved EXCEPT ![n] = p]
  /\ UNCHANGED <<primary, standby>>

Load(p, c) ==
  /\ reserved["A"] = p
  /\ primary' = [primary EXCEPT !.loaded = @ \cup {c}]
  /\ UNCHANGED <<standby, reserved>>

Prepare(p, c) ==
  /\ reserved["B"] = p
  /\ standby' = IF standby.prepared[c] # None THEN standby
                ELSE [standby EXCEPT !.prepared[c] = [previous |-> standby.accepted]]
  /\ UNCHANGED <<primary, reserved>>

\* finish-upload: only the reservation of that operation.
Finish(p, n) ==
  /\ reserved[n] = p
  /\ reserved' = [reserved EXCEPT ![n] = None]
  /\ UNCHANGED <<primary, standby>>

\* cutover: A checks B's candidate itself and pins its image; it may not come up.
CutOver(c) ==
  /\ Ready(c) /\ c \in primary.loaded
  /\ primary' \in {[primary EXCEPT !.serves = c, !.served = @ \cup {c}],
                   [primary EXCEPT !.serves = Baseline]}
  /\ UNCHANGED <<standby, reserved>>

\* accept: compare and swap of the accepted pointer.
Accept(c, b) ==
  /\ standby.accepted \in {b.previous, c}
  /\ standby' = [standby EXCEPT !.accepted = c]
  /\ UNCHANGED <<primary, reserved>>

\* The request a process waits for at pc.
Request(p, c, b, pc) ==
  CASE pc = "begin A"  -> Begin(p, "A")
    [] pc = "begin B"  -> Begin(p, "B")
    [] pc = "load"     -> Load(p, c)
    [] pc = "prepare"  -> Prepare(p, c)
    [] pc = "finish A" -> Finish(p, "A")
    [] pc = "finish B" -> Finish(p, "B")
    [] pc = "cutover"  -> CutOver(c)
    [] pc = "accept"   -> Accept(c, b)

Effective == {"begin A", "begin B", "load", "prepare", "finish A", "finish B",
              "cutover", "accept"}

--------------------------------------------------------------------------------
(***************************************************************************)
(* The process: executeCandidate and executeUnlocked.                      *)
(***************************************************************************)
At(p, pc) == process[p].pc = pc
Cand(p) == process[p].cand
Bind(p) == process[p].bind

\* A process that fails to take operation.lock removes it.
SlipBusy(p, c) ==
  /\ At(p, "idle")
  /\ lock[c] # None
  /\ lock' = [lock EXCEPT ![c] = None]
  /\ UNCHANGED <<receipt, process, late, local, nodeVars, events>>

\* preparation_busy: the process ends and leaves the lock alone.
Busy(p, c) ==
  /\ At(p, "idle")
  /\ lock[c] # None
  /\ UNCHANGED vars

\* operation.lock is created with wx; then the receipt is read.
Enter(p, c, action) ==
  /\ At(p, "idle")
  /\ \A r \in late : r.process # p
  /\ \A n \in Nodes : reserved[n] # p
  /\ lock[c] = None
  /\ action = "distribute" \/ (receipt[c] # None /\ receipt[c].conf # None)
  /\ lock' = [lock EXCEPT ![c] = p]
  /\ process' = [process EXCEPT ![p] =
                   [Idle EXCEPT !.pc = IF action = "distribute" THEN "identify" ELSE "verify",
                                !.cand = c, !.action = action, !.bind = receipt[c]]]
  /\ UNCHANGED <<receipt, late, local, nodeVars, events>>

\* p goes on with the receipt b, saved unless it is the one it has.
Goes(p, b) ==
  /\ process' = [process EXCEPT ![p].pc = Following(process[p].action, @), ![p].bind = b]
  /\ receipt' = IF b = Bind(p) THEN receipt ELSE [receipt EXCEPT ![Cand(p)] = b]
  /\ UNCHANGED <<lock, late, local, events>>

\* The tag names the built image; a retry has the commit of the first attempt.
Identify(p) ==
  /\ At(p, "identify")
  /\ local.tag = Cand(p)
  /\ Bind(p) # None => Bind(p).commit = local.head
  /\ Goes(p, IF Bind(p) # None THEN Bind(p)
             ELSE [commit |-> local.head, archive |-> FALSE, conf |-> None,
                   previous |-> None, accepted |-> FALSE])
  /\ UNCHANGED nodeVars

\* docker image save by image ID, its digest, and the reservations of the uploads.
Archive(p) ==
  /\ At(p, "archive")
  /\ Goes(p, [Bind(p) EXCEPT !.archive = TRUE])
  /\ UNCHANGED nodeVars

\* begin is answered: from now on the reservation is the process's to give back; the
\* archive goes into a file of its own.
Reserve(p) ==
  \E n \in Nodes :
    /\ At(p, BeginOn(n))
    /\ Begin(p, n)
    /\ process' = [process EXCEPT ![p].pc = Following("distribute", @), ![p].holds = @ \cup {n}]
    /\ UNCHANGED <<receipt, lock, late, local, events>>

\* load and cutover are answered.
Answered(p) ==
  /\ process[p].pc \in {"load", "cutover"}
  /\ Request(p, Cand(p), Bind(p), process[p].pc)
  /\ Goes(p, Bind(p))

\* prepare is answered, and verify: validateReady, and the receipt is saved.
Readiness(p) ==
  /\ process[p].pc \in {"prepare", "verify"}
  /\ IF At(p, "prepare") THEN Prepare(p, Cand(p))
                         ELSE Ready(Cand(p)) /\ UNCHANGED nodeVars
  /\ Matches(Cand(p), Bind(p))
  /\ Goes(p, [Bind(p) EXCEPT !.conf = standby.secrets,
                             !.previous = standby'.prepared[Cand(p)].previous])

\* Only the image on A is looked at, not what serves.
SlipPrimaryIdentity(p) ==
  /\ process[p].pc \in {"image", "runtime"}
  /\ Cand(p) \in primary.loaded
  /\ Goes(p, Bind(p))
  /\ UNCHANGED nodeVars

\* primaryIdentity: verify-image, and before an acceptance verify-runtime.
PrimaryIdentity(p) ==
  /\ \/ At(p, "image") /\ Cand(p) \in primary.loaded
     \/ At(p, "runtime") /\ primary.serves = Cand(p)
  /\ Goes(p, Bind(p))
  /\ UNCHANGED nodeVars

Accepted(p) ==
  /\ At(p, "accept")
  /\ Accept(Cand(p), Bind(p))
  /\ Goes(p, [Bind(p) EXCEPT !.accepted = TRUE])

\* A reservation that could not be given back is forgotten.
SlipCleanUp(p) ==
  \E n \in Nodes :
    /\ At(p, FinishOn(n))
    /\ process' = [process EXCEPT ![p].pc = Following("distribute", @), ![p].holds = @ \ {n}]
    /\ Finish(p, n) \/ UNCHANGED nodeVars
    /\ UNCHANGED <<receipt, lock, late, local, events>>

\* finish-upload, for a reservation it holds; one that is not confirmed makes the
\* distribution fail.
CleanUp(p) ==
  \E n \in Nodes :
    /\ At(p, FinishOn(n))
    /\ IF n \in process[p].holds
       THEN \/ /\ Finish(p, n)
               /\ process' = [process EXCEPT ![p].pc = Following("distribute", @),
                                             ![p].holds = @ \ {n}]
               /\ UNCHANGED events
            \/ /\ Finish(p, n) \/ UNCHANGED nodeVars
               /\ process' = [process EXCEPT ![p].pc = Following("distribute", @),
                                             ![p].failed = TRUE]
               /\ Event
       ELSE /\ process' = [process EXCEPT ![p].pc = Following("distribute", @)]
            /\ UNCHANGED <<nodeVars, events>>
    /\ UNCHANGED <<receipt, lock, late, local>>

\* The request p waits for, as the network holds it.
Pending(p) ==
  IF process[p].pc \in Effective
  THEN {[process |-> p, cand |-> Cand(p), bind |-> Bind(p), pc |-> process[p].pc]}
  ELSE {}

\* An error or a receipt that does not match: after the first reservation, what has
\* been reserved is given back.  The request may have been lost, carried out, or be
\* carried out later.
Fails(p) ==
  /\ process[p].pc \notin {"idle", "dead", "end", "finish A", "finish B"}
  /\ process' = [process EXCEPT ![p].failed = TRUE,
                   ![p].pc = IF process[p].action = "distribute" /\ @ # "identify"
                             THEN "finish A" ELSE "end"]
  /\ \/ late' = late /\ UNCHANGED nodeVars
     \/ late' = late \cup Pending(p) /\ UNCHANGED nodeVars
     \/ late' = late /\ process[p].pc \in Effective
                     /\ Request(p, Cand(p), Bind(p), process[p].pc)
  /\ Cardinality(late') <= MaxLate
  /\ Event
  /\ UNCHANGED <<receipt, lock, local>>

\* The finally block of executeCandidate.
Leave(p) ==
  /\ At(p, "end")
  /\ lock' = [lock EXCEPT ![Cand(p)] = None]
  /\ process' = [process EXCEPT ![p] = Idle]
  /\ UNCHANGED <<receipt, late, local, nodeVars, events>>

\* The release is cancelled, or its step times out: operation.lock stays.
Killed(p) ==
  /\ process[p].pc \notin {"idle", "dead"}
  /\ process' = [process EXCEPT ![p] = [Idle EXCEPT !.pc = "dead", !.cand = Cand(p)]]
  /\ late' \in {late, late \cup Pending(p)}
  /\ Cardinality(late') <= MaxLate
  /\ Event
  /\ UNCHANGED <<receipt, lock, local, nodeVars>>

--------------------------------------------------------------------------------
(***************************************************************************)
(* Around it.                                                              *)
(***************************************************************************)
\* A request whose sender waits no more: carried out, refused or lost.
Arrives(r) ==
  /\ r \in late
  /\ late' = late \ {r}
  /\ \/ Request(r.process, r.cand, r.bind, r.pc)
     \/ UNCHANGED nodeVars
  /\ UNCHANGED <<receipt, lock, process, local, events>>

\* Another release builds under the same tag; the checkout moves on.
Build ==
  /\ \/ \E c \in Candidate : local' = [local EXCEPT !.tag = c]
     \/ local' = [local EXCEPT !.head = 2]
  /\ Event
  /\ UNCHANGED <<receipt, lock, process, late, nodeVars>>

\* A is rolled back, fails, or is released by itself.
PrimaryChanges ==
  /\ primary' = [primary EXCEPT !.serves = Baseline]
  /\ Event
  /\ UNCHANGED <<receipt, lock, process, late, local, standby, reserved>>

SecretsChange ==
  /\ standby' = [standby EXCEPT !.secrets = 2]
  /\ Event
  /\ UNCHANGED <<receipt, lock, process, late, local, primary, reserved>>

\* The nodes give back the reservation of a process that is gone.
Reconcile(n) ==
  /\ reserved[n] # None
  /\ process[reserved[n]].pc \in {"idle", "dead"}
  /\ reserved' = [reserved EXCEPT ![n] = None]
  /\ UNCHANGED <<receipt, lock, process, late, local, primary, standby, events>>

\* An operator removes the operation.lock of a killed process.
Unlock(p) ==
  /\ At(p, "dead")
  /\ lock' = [lock EXCEPT ![Cand(p)] = None]
  /\ process' = [process EXCEPT ![p] = Idle]
  /\ UNCHANGED <<receipt, late, local, nodeVars, events>>

Next ==
  \/ \E p \in Process :
       \/ \E c \in Candidate : Busy(p, c) \/ \E a \in Actions : Enter(p, c, a)
       \/ Identify(p) \/ Archive(p) \/ Reserve(p) \/ Answered(p)
       \/ Readiness(p) \/ PrimaryIdentity(p) \/ Accepted(p) \/ CleanUp(p)
       \/ Fails(p) \/ Leave(p) \/ Killed(p) \/ Unlock(p)
  \/ \E r \in late : Arrives(r)
  \/ Build \/ PrimaryChanges \/ SecretsChange
  \/ \E n \in Nodes : Reconcile(n)

Spec == Init /\ [][Next]_vars

--------------------------------------------------------------------------------
(***************************************************************************)
(* Properties.                                                             *)
(***************************************************************************)
\* The standby accepts only what the primary has served (gameStandbyCandidate.js:165-170
\* and 228-243), even if the request to accept arrives after its sender has died; and a
\* receipt that says "accepted" is not ahead of the standby.
AcceptedHasServed ==
  /\ standby.accepted \in primary.served
  /\ \A c \in Candidate : receipt[c] # None /\ receipt[c].accepted => c \in primary.served

\* A distribution that ends without an error has put the image on A, the configuration it
\* has on record on B, and has left no reservation of its own on either
\* (gameStandbyCandidate.js:192-226).
DistributedIsReady ==
  [][\A p \in Process :
       process[p].pc = "end" /\ process[p].action = "distribute" /\ ~process[p].failed =>
         /\ Cand(p) \in primary.loaded
         /\ standby.prepared[Cand(p)] # None
         /\ receipt[Cand(p)].previous = standby.prepared[Cand(p)].previous
         /\ \A n \in Nodes : reserved[n] # p]_vars

\* What a receipt has bound stays bound, whoever retries and however the actions meet:
\* commit, configuration and predecessor are never replaced, and "accepted" is not taken
\* back (gameStandbyCandidate.js:103-107, 118-127 and 185-190).
BindingKept ==
  [][\A c \in Candidate : receipt[c] # None =>
       /\ receipt'[c] # None
       /\ receipt'[c].commit = receipt[c].commit
       /\ receipt[c].conf # None =>
            receipt'[c].conf = receipt[c].conf /\ receipt'[c].previous = receipt[c].previous
       /\ receipt[c].archive => receipt'[c].archive
       /\ receipt[c].accepted => receipt'[c].accepted]_vars
================================================================================
