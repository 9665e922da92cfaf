----------------------------- MODULE OperationLock -----------------------------
(***************************************************************************)
(* The publisher operation lock (src/publisherOperationLock.js): a         *)
(* directory made with mkdir, holding owner.json.  The release console     *)
(* server takes it for a job, the update script for an update; they are    *)
(* different processes, so every file operation is a step of its own, and  *)
(* a process may die between any two of them.                              *)
(*                                                                         *)
(* An element of Token is one attempt to take the lock: the code draws a   *)
(* fresh UUID for each.                                                    *)
(***************************************************************************)
CONSTANTS Token,    \* attempts to take the lock
          JobToken, \* those made for a release job; the others are updates
          Nobody      \* no token

Torn == "torn"  \* an owner.json that does not parse

ASSUME TokenAssumption ==
  /\ JobToken \subseteq Token
  /\ Nobody \notin Token
  /\ Torn \notin Token \cup {Nobody}

VARIABLES dir,    \* the attempt whose mkdir made the lock directory, Nobody: no directory
          owner,  \* the token in owner.json, Nobody: no such file, or Torn
          pc,     \* where each attempt is in acquire/release
          gate    \* assertNoPublisherUpdate: its progress and last answer

lockVars == <<dir, owner, pc, gate>>

Stages == {"idle",      \* has not called acquireOperationLock
           "made",      \* mkdir succeeded, owner.json not written
           "held",      \* owner.json written: the operation is under way
           "leaving",   \* owner.json read back, the token is its own
           "unlinked",  \* owner.json removed, the directory is still there
           "released",
           "refused",   \* EEXIST, or owner.json could not be written
           "dead"}      \* the process died

\* Attempts that put the directory there and have not taken it away.
Inside == {t \in Token : pc[t] \in {"made", "held", "leaving", "unlinked"}}

LockInit ==
  /\ dir = Nobody
  /\ owner = Nobody
  /\ pc = [t \in Token |-> "idle"]
  /\ gate = "unasked"

--------------------------------------------------------------------------------
(***************************************************************************)
(* Definitions named Slip... are plausible mistakes in the operation that  *)
(* follows them.  No specification uses them; PROJECT.json pairs each with *)
(* the property that must expose it.                                       *)
(***************************************************************************)
\* mkdirSync with {recursive: true} reports no EEXIST.
SlipMakeDirRecursive(t) ==
  /\ pc[t] = "idle"
  /\ dir' = t
  /\ pc' = [pc EXCEPT ![t] = "made"]
  /\ UNCHANGED <<owner, gate>>

\* A lock whose maker no longer runs is treated as free.
SlipMakeDirTakesStale(t) ==
  /\ pc[t] = "idle"
  /\ dir = Nobody \/ Inside = {}
  /\ dir' = t
  /\ pc' = [pc EXCEPT ![t] = "made"]
  /\ UNCHANGED <<owner, gate>>

\* mkdirSync is the atomic test-and-set.
MakeDir(t) ==
  /\ pc[t] = "idle"
  /\ dir = Nobody
  /\ dir' = t
  /\ pc' = [pc EXCEPT ![t] = "made"]
  /\ UNCHANGED <<owner, gate>>

\* EEXIST becomes PUBLISHER_OPERATION_LOCKED, status 409.
Refuse(t) ==
  /\ pc[t] = "idle"
  /\ dir # Nobody
  /\ pc' = [pc EXCEPT ![t] = "refused"]
  /\ UNCHANGED <<dir, owner, gate>>

\* owner.json names its maker.
WriteOwner(t) ==
  /\ pc[t] = "made"
  /\ owner' = t
  /\ pc' = [pc EXCEPT ![t] = "held"]
  /\ UNCHANGED <<dir, gate>>

\* The write fails: rmdir gives the lock back if no file was created, and itself
\* fails on a half-written owner.json, which then stays for review.
WriteOwnerFails(t) ==
  /\ pc[t] = "made"
  /\ pc' = [pc EXCEPT ![t] = "refused"]
  /\ \/ dir' = Nobody /\ UNCHANGED owner
     \/ owner' = Torn /\ UNCHANGED dir
  /\ UNCHANGED gate

\* releaseOperationLock: read owner.json; another's token is left for review.
CheckOwner(t) ==
  /\ pc[t] = "held"
  /\ owner = t
  /\ pc' = [pc EXCEPT ![t] = "leaving"]
  /\ UNCHANGED <<dir, owner, gate>>

UnlinkOwner(t) ==
  /\ pc[t] = "leaving"
  /\ owner' = Nobody
  /\ pc' = [pc EXCEPT ![t] = "unlinked"]
  /\ UNCHANGED <<dir, gate>>

RemoveDir(t) ==
  /\ pc[t] = "unlinked"
  /\ dir' = Nobody
  /\ pc' = [pc EXCEPT ![t] = "released"]
  /\ UNCHANGED <<owner, gate>>

Die(t) ==
  /\ t \in Inside
  /\ pc' = [pc EXCEPT ![t] = "dead"]
  /\ UNCHANGED <<dir, owner, gate>>

\* An operator removes a lock none of whose users is alive any more.
OperatorClears ==
  /\ dir # Nobody
  /\ Inside = {}
  /\ dir' = Nobody
  /\ owner' = Nobody
  /\ UNCHANGED <<pc, gate>>

\* assertNoPublisherUpdate: existsSync first, owner.json read afterwards; what
\* cannot be read counts as an update.
AskGate ==
  /\ gate = "unasked"
  /\ gate' = IF dir # Nobody THEN "exists" ELSE "open"
  /\ UNCHANGED <<dir, owner, pc>>

\* An owner.json that is missing counts as "no update".
SlipReadGateMissingIsOpen ==
  /\ gate = "exists"
  /\ gate' = IF owner \in JobToken \cup {Nobody} THEN "open" ELSE "closed"
  /\ UNCHANGED <<dir, owner, pc>>

ReadGate ==
  /\ gate = "exists"
  /\ gate' = IF owner \in JobToken THEN "open" ELSE "closed"
  /\ UNCHANGED <<dir, owner, pc>>

ForgetGate ==
  /\ gate \in {"open", "closed"}
  /\ gate' = "unasked"
  /\ UNCHANGED <<dir, owner, pc>>

LockNext ==
  \/ \E t \in Token :
       \/ MakeDir(t) \/ Refuse(t) \/ WriteOwner(t) \/ WriteOwnerFails(t)
       \/ CheckOwner(t) \/ UnlinkOwner(t) \/ RemoveDir(t) \/ Die(t)
  \/ OperatorClears
  \/ AskGate \/ ReadGate \/ ForgetGate

LockSpec == LockInit /\ [][LockNext]_lockVars
--------------------------------------------------------------------------------
TypeOK ==
  /\ dir \in Token \cup {Nobody}
  /\ owner \in Token \cup {Nobody, Torn}
  /\ pc \in [Token -> Stages]
  /\ gate \in {"unasked", "exists", "open", "closed"}

\* The console and the update script are never both between mkdir and rmdir,
\* whichever processes die and wherever, and whenever the operator clears up
\* (acquireOperationLock, releaseOperationLock).
Exclusive == \A s, t \in Inside : s = t

\* owner.json is readable for as long as its operation is under way, so
\* releaseOperationLock never meets another's token or a missing file.
OwnerIdentifiesHolder == \A t \in Token : pc[t] \in {"held", "leaving"} => owner = t

\* When assertNoPublisherUpdate lets a request through, no update is anywhere
\* between mkdir and rmdir at that moment, although the check takes two reads
\* and the lock may change hands between them.
GateSeesUpdates ==
  [][gate' = "open" /\ gate # "open" => Inside \subseteq JobToken]_lockVars

\* The lock implements exclusive operations that fail closed: the directory is
\* the exclusive right, and it is abandoned once its maker no longer runs.
Mutex == INSTANCE OperationMutex
           WITH Op <- Token, holder <- dir, None <- Nobody,
                abandoned <- dir # Nobody /\ dir \notin Inside

ImplementsMutex == Mutex!Spec
================================================================================
