------------------------- MODULE StandbyCandidate_proof -------------------------
(***************************************************************************)
(* The standby candidate for any number of candidates, processes, late     *)
(* requests and events: what the standby accepts has served on the         *)
(* primary, a receipt never forgets what it has bound, and a distribution  *)
(* that ends without an error has done what it reports.                    *)
(***************************************************************************)
EXTENDS StandbyCandidate, TLAPS

Steps == {"idle", "dead", "end", "identify", "archive", "verify", "image", "runtime"} \cup Effective
State == [pc : Steps, cand : Candidate \cup {None}, action : Actions \cup {None},
          bind : Receipt \cup {None}, holds : SUBSET Nodes, failed : BOOLEAN]
Late == [process : Process, cand : Candidate, bind : Receipt, pc : Effective]

TypeOK ==
  /\ receipt \in [Candidate -> Receipt \cup {None}]
  /\ lock \in [Candidate -> Process \cup {None}]
  /\ process \in [Process -> State]
  /\ late \subseteq Late
  /\ local.head \in 1..2
  /\ primary \in [loaded : SUBSET Candidate, serves : Candidate \cup {Baseline},
                  served : SUBSET (Candidate \cup {Baseline})]
  /\ standby \in [prepared : [Candidate -> Prepared \cup {None}],
                  accepted : Candidate \cup {Baseline}, secrets : 1..2]
  /\ reserved \in [Nodes -> Process \cup {None}]

\* The steps at which the receipt has been read or made, and is bound.
Bound == Steps \ {"idle", "dead", "end", "identify"}

\* operation.lock: one process at a candidate, with the receipt as it is stored.
LockInv ==
  \A p \in Process :
    /\ process[p].pc # "idle" => Cand(p) \in Candidate /\ lock[Cand(p)] = p
    /\ process[p].pc \notin {"idle", "dead"} => Bind(p) = receipt[Cand(p)]
    /\ process[p].pc \in Bound => Bind(p) \in Receipt

\* The order of the steps: what may be asked to be accepted has served.
ServedInv ==
  /\ Baseline \in primary.served /\ primary.serves \in primary.served
  /\ \A p \in Process : At(p, "accept") => Cand(p) \in primary.served
  /\ \A r \in late : r.pc = "accept" => r.cand \in primary.served

\* The configuration on record is one of a prepared candidate.
PreparedInv ==
  \A c \in Candidate :
    receipt[c] # None /\ receipt[c].conf # None => standby.prepared[c] # None

Inv == TypeOK /\ LockInv /\ ServedInv /\ PreparedInv /\ AcceptedHasServed

--------------------------------------------------------------------------------
(* The nodes. *)

\* What no request takes back: what has served, what is prepared.
NodeStep ==
  /\ primary' \in [loaded : SUBSET Candidate, serves : Candidate \cup {Baseline},
                   served : SUBSET (Candidate \cup {Baseline})]
  /\ standby' \in [prepared : [Candidate -> Prepared \cup {None}],
                   accepted : Candidate \cup {Baseline}, secrets : 1..2]
  /\ reserved' \in [Nodes -> Process \cup {None}]
  /\ primary.served \subseteq primary'.served
  /\ primary'.serves \in primary'.served /\ standby'.accepted \in primary'.served
  /\ \A c \in Candidate : standby.prepared[c] # None => standby'.prepared[c] # None

LEMMA NodesStay ==
  ASSUME Inv, UNCHANGED nodeVars PROVE NodeStep
BY DEF Inv, TypeOK, ServedInv, AcceptedHasServed, NodeStep, nodeVars

LEMMA PrepareStep ==
  ASSUME Inv, NEW p \in Process, NEW c \in Candidate, Prepare(p, c)
  PROVE  NodeStep /\ standby'.prepared[c] # None
  <1> USE DEF Inv, TypeOK, ServedInv, AcceptedHasServed
  <1>1. CASE standby.prepared[c] # None
    BY <1>1 DEF Prepare, NodeStep
  <1>2. CASE standby.prepared[c] = None
    <2> DEFINE new == [previous |-> standby.accepted]
    <2>1. new \in Prepared /\ new # None
      BY StandbyAssumption DEF Prepared
    <2> HIDE DEF new
    <2>2. standby' = [standby EXCEPT !.prepared = [standby.prepared EXCEPT ![c] = new]]
      BY <1>2 DEF Prepare, new
    <2>3. /\ standby'.prepared = [standby.prepared EXCEPT ![c] = new]
          /\ standby'.accepted = standby.accepted
      BY <2>2
    <2> QED
      BY <2>1, <2>2, <2>3 DEF Prepare, NodeStep
  <1> QED
    BY <1>1, <1>2

LEMMA RequestStep ==
  ASSUME Inv, NEW p \in Process, NEW c \in Candidate, NEW b, NEW pc \in Effective,
         Request(p, c, b, pc), pc = "accept" => c \in primary.served
  PROVE  NodeStep
  <1> USE DEF Inv, TypeOK, ServedInv, AcceptedHasServed, NodeStep
  <1>1. CASE pc \in {"begin A", "begin B"}
    BY <1>1 DEF Request, Begin, Nodes
  <1>2. CASE pc = "load"
    BY <1>2 DEF Request, Load
  <1>3. CASE pc = "prepare"
    BY <1>3, PrepareStep DEF Request
  <1>4. CASE pc \in {"finish A", "finish B"}
    BY <1>4 DEF Request, Finish, Nodes
  <1>5. CASE pc = "cutover"
    <2> USE <1>5 DEF Request, CutOver
    <2>1. CASE primary' = [primary EXCEPT !.serves = c, !.served = @ \cup {c}]
      BY <2>1
    <2>2. CASE primary' = [primary EXCEPT !.serves = Baseline]
      BY <2>2
    <2> QED
      BY <2>1, <2>2
  <1>6. CASE pc = "accept"
    BY <1>6 DEF Request, Accept
  <1> QED
    BY <1>1, <1>2, <1>3, <1>4, <1>5, <1>6 DEF Effective

--------------------------------------------------------------------------------
(* A process. *)

LEMMA FollowingIs ==
  ASSUME NEW action \in Actions \cup {None}, NEW pc \in Bound \cup {"identify"}
  PROVE  /\ Following(action, pc) \in Steps \ {"idle", "dead", "identify", "verify"}
         /\ Following(action, pc) = "accept" => pc = "runtime"
         /\ Following(action, pc) \in Bound => pc \in Bound \cup {"identify"}
BY DEF Following, Bound, Steps, Effective

\* What a receipt may become.
Extends(old, new) ==
  old # None =>
    /\ new # None
    /\ new.commit = old.commit
    /\ old.conf # None => new.conf = old.conf /\ new.previous = old.previous
    /\ old.archive => new.archive
    /\ old.accepted => new.accepted

\* A step of p that leaves p's receipt as it is, or saves one.
LEMMA GoesStep ==
  ASSUME Inv, NEW p \in Process, NEW b \in Receipt, Goes(p, b), NodeStep,
         process[p].pc \in Bound \cup {"identify"},
         process[p].pc = "runtime" => Cand(p) \in primary.served,
         b.accepted => Cand(p) \in primary'.served,
         b.conf # None => standby'.prepared[Cand(p)] # None,
         Extends(Bind(p), b)
  PROVE  Inv' /\ \A c \in Candidate : Extends(receipt[c], receipt'[c])
  <1> DEFINE c == Cand(p)
             pc == Following(process[p].action, process[p].pc)
  <1>1. /\ c \in Candidate /\ lock[c] = p /\ Bind(p) = receipt[c]
        /\ process \in [Process -> State] /\ process[p] \in State
    BY DEF Inv, TypeOK, LockInv, Bound, Cand, Bind
  <1>2. /\ pc \in Steps \ {"idle", "dead", "identify", "verify"}
        /\ pc = "accept" => process[p].pc = "runtime"
    BY <1>1, FollowingIs DEF State
  <1> HIDE DEF c, pc
  <1>3. process' = [process EXCEPT ![p] = [process[p] EXCEPT !.pc = pc, !.bind = b]]
    BY <1>1 DEF Goes, pc, Bind
  <1>4. /\ process' \in [Process -> State]
        /\ process'[p].pc = pc /\ process'[p].bind = b /\ process'[p].cand = c
        /\ \A q \in Process \ {p} : process'[q] = process[q]
    BY <1>1, <1>2, <1>3 DEF State, c, Cand
  <1>5. /\ receipt' \in [Candidate -> Receipt \cup {None}]
        /\ receipt'[c] = b /\ \A d \in Candidate \ {c} : receipt'[d] = receipt[d]
    BY <1>1 DEF Goes, Inv, TypeOK, c
  <1>6. lock' = lock /\ late' = late /\ local' = local
    BY DEF Goes
  <1>7. TypeOK'
    BY <1>4, <1>5, <1>6 DEF Inv, TypeOK, NodeStep
  <1>8. LockInv'
    <2> SUFFICES ASSUME NEW q \in Process
                 PROVE  /\ process'[q].pc # "idle" => Cand(q)' \in Candidate /\ lock'[Cand(q)'] = q
                        /\ process'[q].pc \notin {"idle", "dead"} => Bind(q)' = receipt'[Cand(q)']
                        /\ process'[q].pc \in Bound => Bind(q)' \in Receipt
      BY DEF LockInv
    <2>1. CASE q = p
      BY <2>1, <1>1, <1>2, <1>4, <1>5, <1>6 DEF Cand, Bind
    <2>2. CASE q # p
      <3>1. process[q].pc # "idle" => Cand(q) # c
        BY <2>2, <1>1 DEF Inv, LockInv, Cand
      <3> QED
        BY <2>2, <3>1, <1>1, <1>4, <1>5, <1>6 DEF Inv, LockInv, Cand, Bind
    <2> QED
      BY <2>1, <2>2
  <1>9. ServedInv'
    BY <1>2, <1>4, <1>6 DEF Inv, ServedInv, NodeStep, At, Cand, c
  <1>10. PreparedInv' /\ AcceptedHasServed'
    BY <1>5 DEF Inv, PreparedInv, AcceptedHasServed, NodeStep, c
  <1>11. \A d \in Candidate : Extends(receipt[d], receipt'[d])
    BY <1>1, <1>5 DEF Extends, c
  <1> QED
    BY <1>7, <1>8, <1>9, <1>10, <1>11 DEF Inv

\* A step that changes no receipt, and at most one process: it is idle, has gone on
\* at the same candidate with the same receipt, or was idle and has taken a free lock.
LEMMA OtherStep ==
  ASSUME Inv, NodeStep, receipt' = receipt, TypeOK',
         \A r \in late' : r.pc = "accept" => r.cand \in primary'.served,
         NEW p \in Process,
         \A q \in Process \ {p} : process'[q] = process[q],
         \A c \in Candidate : lock'[c] = lock[c] \/ lock[c] \in {None, p},
         process'[p].pc # "idle" => Cand(p)' \in Candidate /\ lock'[Cand(p)'] = p,
         process'[p].pc \notin {"idle", "dead"} => Bind(p)' = receipt[Cand(p)'],
         process'[p].pc \in Bound => Bind(p)' \in Receipt,
         process'[p].pc = "accept" => Cand(p)' \in primary'.served
  PROVE  Inv' /\ \A c \in Candidate : Extends(receipt[c], receipt'[c])
  <1>1. LockInv'
    <2> SUFFICES ASSUME NEW q \in Process, q # p
                 PROVE  /\ process'[q].pc # "idle" => Cand(q)' \in Candidate /\ lock'[Cand(q)'] = q
                        /\ process'[q].pc \notin {"idle", "dead"} => Bind(q)' = receipt'[Cand(q)']
                        /\ process'[q].pc \in Bound => Bind(q)' \in Receipt
      BY DEF LockInv
    <2>1. process'[q] = process[q] /\ q # None
      BY StandbyAssumption
    <2>2. process[q].pc # "idle" => Cand(q) \in Candidate /\ lock[Cand(q)] = q
      BY DEF Inv, LockInv
    <2>3. process[q].pc # "idle" => lock'[Cand(q)] = q
      BY <2>1, <2>2
    <2> QED
      BY <2>1, <2>2, <2>3 DEF Inv, LockInv, Cand, Bind
  <1>2. ServedInv'
    BY DEF Inv, ServedInv, NodeStep, At, Cand
  <1>3. PreparedInv' /\ AcceptedHasServed'
    BY DEF Inv, PreparedInv, AcceptedHasServed, NodeStep
  <1> QED
    BY <1>1, <1>2, <1>3 DEF Inv, Extends

--------------------------------------------------------------------------------
(* The actions. *)

LEMMA InitInv == Init => Inv
  <1> SUFFICES ASSUME Init PROVE Inv
    OBVIOUS
  <1> USE DEF Init
  <1>1. Idle \in State
    BY DEF Idle, State, Steps
  <1>2. TypeOK
    BY <1>1 DEF TypeOK, Nodes
  <1>3. LockInv
    BY DEF LockInv, Idle, Bound
  <1>4. ServedInv
    BY DEF ServedInv, At, Idle
  <1>5. PreparedInv /\ AcceptedHasServed
    BY DEF PreparedInv, AcceptedHasServed
  <1> QED
    BY <1>2, <1>3, <1>4, <1>5 DEF Inv

LEMMA SavingStep ==
  ASSUME Inv, NEW p \in Process,
         Identify(p) \/ Archive(p) \/ Answered(p) \/ Readiness(p) \/ PrimaryIdentity(p)
           \/ Accepted(p)
  PROVE  Inv' /\ \A c \in Candidate : Extends(receipt[c], receipt'[c])
  <1> DEFINE pc == process[p].pc
  <1>1. /\ pc \in Bound => Bind(p) \in Receipt
        /\ pc \in Bound \cup {"identify"} =>
             Cand(p) \in Candidate /\ Bind(p) = receipt[Cand(p)] /\ Bind(p) \in Receipt \cup {None}
    BY DEF Inv, LockInv, TypeOK, State, Bound, Bind, Cand
  <1>2. /\ pc \in Bound /\ Bind(p).accepted => Cand(p) \in primary.served
        /\ pc \in Bound /\ Bind(p).conf # None => standby.prepared[Cand(p)] # None
    BY <1>1, StandbyAssumption DEF Inv, AcceptedHasServed, PreparedInv
  <1>3. CASE Identify(p)
    <2> USE <1>3 DEF Identify
    <2>1. pc = "identify" /\ NodeStep
      BY NodesStay DEF At
    <2>2. CASE Bind(p) # None
      <3>1. Bind(p) \in Receipt /\ Goes(p, Bind(p))
        BY <2>2, <2>1, <1>1
      <3>2. /\ Bind(p).accepted => Cand(p) \in primary'.served
            /\ Bind(p).conf # None => standby'.prepared[Cand(p)] # None
        BY <2>1, <2>2, <3>1, <1>1 DEF Inv, AcceptedHasServed, PreparedInv, NodeStep
      <3> QED
        BY <2>1, <3>1, <3>2, GoesStep DEF Extends
    <2>3. CASE Bind(p) = None
      <3> DEFINE new == [commit |-> local.head, archive |-> FALSE, conf |-> None,
                         previous |-> None, accepted |-> FALSE]
      <3>1. new \in Receipt /\ new.accepted = FALSE /\ new.conf = None
        BY DEF Receipt, Inv, TypeOK
      <3>2. Goes(p, new)
        BY <2>3
      <3> HIDE DEF new
      <3> QED
        BY <2>1, <2>3, <3>1, <3>2, GoesStep DEF Extends
    <2> QED
      BY <2>2, <2>3
  <1>4. CASE Archive(p)
    <2> USE <1>4 DEF Archive
    <2>1. pc = "archive" /\ pc \in Bound /\ NodeStep
      BY NodesStay DEF At, Bound, Steps
    <2> DEFINE new == [Bind(p) EXCEPT !.archive = TRUE]
    <2>2. /\ new \in Receipt /\ Extends(Bind(p), new) /\ new.accepted = Bind(p).accepted
          /\ new.conf = Bind(p).conf
      BY <2>1, <1>1, StandbyAssumption DEF Receipt, Extends
    <2>3. Goes(p, new)
      OBVIOUS
    <2> HIDE DEF new
    <2> QED
      BY <2>1, <2>2, <2>3, <1>1, <1>2, GoesStep DEF NodeStep
  <1>5. CASE Answered(p)
    <2> USE <1>5 DEF Answered
    <2>1. pc \in {"load", "cutover"} /\ pc \in Bound /\ pc \in Effective
      BY DEF Bound, Steps, Effective
    <2>2. NodeStep
      BY <2>1, <1>1, RequestStep
    <2> QED
      BY <2>1, <2>2, <1>1, <1>2, GoesStep, StandbyAssumption DEF NodeStep, Extends
  <1>6. CASE Readiness(p)
    <2> USE <1>6 DEF Readiness
    <2>1. pc \in {"prepare", "verify"} /\ pc \in Bound
      BY DEF Bound, Steps, Effective
    <2>2. NodeStep /\ standby'.prepared[Cand(p)] # None
      <3>1. CASE At(p, "prepare")
        BY <2>1, <3>1, <1>1, PrepareStep
      <3>2. CASE ~At(p, "prepare")
        BY <3>2, NodesStay DEF Ready, nodeVars
      <3> QED
        BY <3>1, <3>2
    <2>3. /\ standby'.prepared[Cand(p)] \in Prepared
          /\ standby.prepared[Cand(p)] # None =>
                standby'.prepared[Cand(p)] = standby.prepared[Cand(p)]
      BY <2>1, <2>2, <1>1 DEF NodeStep, Prepare, nodeVars, At, Inv, TypeOK
    <2> DEFINE previous == standby'.prepared[Cand(p)].previous
               new == [Bind(p) EXCEPT !.conf = standby.secrets, !.previous = previous]
    <2>4. /\ previous \in Candidate \cup {Baseline}
          /\ standby.prepared[Cand(p)] # None => previous = standby.prepared[Cand(p)].previous
      BY <2>3 DEF Prepared
    <2>5. Goes(p, new)
      OBVIOUS
    <2> HIDE DEF previous
    <2>6. /\ new \in Receipt /\ new.accepted = Bind(p).accepted
          /\ new.commit = Bind(p).commit /\ new.archive = Bind(p).archive
          /\ new.conf = standby.secrets /\ new.previous = previous
      BY <2>1, <2>4, <1>1 DEF Receipt, Inv, TypeOK
    <2> HIDE DEF new
    <2>7. Extends(Bind(p), new)
      BY <2>1, <2>4, <2>6, <1>1, <1>2, StandbyAssumption DEF Extends, Matches
    <2> QED
      BY <2>1, <2>2, <2>5, <2>6, <2>7, <1>1, <1>2, GoesStep DEF NodeStep
  <1>7. CASE PrimaryIdentity(p)
    <2> USE <1>7 DEF PrimaryIdentity
    <2>1. pc \in {"image", "runtime"} /\ pc \in Bound /\ NodeStep
      BY NodesStay DEF At, Bound, Steps, Effective
    <2>2. pc = "runtime" => Cand(p) \in primary.served
      BY DEF At, Inv, ServedInv
    <2> QED
      BY <2>1, <2>2, <1>1, <1>2, GoesStep, StandbyAssumption DEF NodeStep, Extends
  <1>8. CASE Accepted(p)
    <2> USE <1>8 DEF Accepted
    <2>1. pc = "accept" /\ pc \in Bound /\ Cand(p) \in primary.served
      BY DEF At, Bound, Steps, Effective, Inv, ServedInv
    <2>2. NodeStep
      BY <2>1, <1>1, RequestStep DEF Request, Effective
    <2> DEFINE new == [Bind(p) EXCEPT !.accepted = TRUE]
    <2>3. new \in Receipt /\ Extends(Bind(p), new) /\ new.conf = Bind(p).conf
      BY <2>1, <1>1, StandbyAssumption DEF Receipt, Extends
    <2>4. Goes(p, new)
      OBVIOUS
    <2> HIDE DEF new
    <2> QED
      BY <2>1, <2>2, <2>3, <2>4, <1>1, <1>2, GoesStep DEF NodeStep
  <1> QED
    BY <1>3, <1>4, <1>5, <1>6, <1>7, <1>8

LEMMA ProcessStep ==
  ASSUME Inv, NEW p \in Process,
         \/ \E c \in Candidate, a \in Actions : Enter(p, c, a)
         \/ Reserve(p) \/ CleanUp(p) \/ Fails(p) \/ Leave(p) \/ Killed(p) \/ Unlock(p)
  PROVE  Inv' /\ \A c \in Candidate : Extends(receipt[c], receipt'[c])
  <1>1. /\ process \in [Process -> State] /\ process[p] \in State
        /\ process[p].pc # "idle" => Cand(p) \in Candidate /\ lock[Cand(p)] = p
        /\ process[p].pc \notin {"idle", "dead"} => Bind(p) = receipt[Cand(p)]
        /\ process[p].pc \in Bound => Bind(p) \in Receipt
        /\ At(p, "accept") => Cand(p) \in primary.served
        /\ \A r \in late : r.pc = "accept" => r.cand \in primary.served
    BY DEF Inv, TypeOK, LockInv, ServedInv
  <1>2. Idle \in State /\ Idle.pc = "idle"
    BY DEF Idle, State, Steps
  <1>3. ASSUME NEW c \in Candidate, NEW a \in Actions, Enter(p, c, a)
        PROVE  Inv' /\ \A d \in Candidate : Extends(receipt[d], receipt'[d])
    <2> DEFINE new == [Idle EXCEPT !.pc = IF a = "distribute" THEN "identify" ELSE "verify",
                                   !.cand = c, !.action = a, !.bind = receipt[c]]
    <2>1. /\ new \in State /\ new.cand = c /\ new.bind = receipt[c]
          /\ new.pc \in {"identify", "verify"} /\ (new.pc = "verify" => receipt[c] \in Receipt)
      BY <1>3 DEF Enter, Idle, State, Steps, Inv, TypeOK
    <2>2. /\ process' = [process EXCEPT ![p] = new] /\ lock' = [lock EXCEPT ![c] = p]
          /\ lock[c] = None /\ UNCHANGED <<receipt, late, local, nodeVars>>
      BY <1>3 DEF Enter
    <2> HIDE DEF new
    <2>3. NodeStep
      BY <2>2, NodesStay
    <2>4. TypeOK'
      BY <2>1, <2>2, <2>3 DEF Inv, TypeOK, NodeStep
    <2>5. process'[p] = new /\ lock'[c] = p /\ \A d \in Candidate \ {c} : lock'[d] = lock[d]
      BY <2>2, <1>1 DEF Inv, TypeOK
    <2> QED
      BY <2>1, <2>2, <2>3, <2>4, <2>5, <1>1, OtherStep DEF Cand, Bind, nodeVars, Bound
  <1>4. ASSUME NodeStep, receipt' = receipt, lock' = lock, local' = local, late' \subseteq Late,
               \A r \in late' : r.pc = "accept" => r.cand \in primary'.served,
               NEW new \in State, process' = [process EXCEPT ![p] = new],
               process[p].pc # "idle", new.cand = Cand(p),
               new.pc \notin {"idle", "dead"} => process[p].pc # "dead" /\ new.bind = Bind(p),
               new.pc \in Bound => Bind(p) \in Receipt, new.pc # "accept"
        PROVE  Inv' /\ \A d \in Candidate : Extends(receipt[d], receipt'[d])
    <2>1. TypeOK'
      BY <1>4 DEF Inv, TypeOK, NodeStep
    <2>2. process'[p] = new /\ \A q \in Process \ {p} : process'[q] = process[q]
      BY <1>4, <1>1
    <2>3. Cand(p)' = Cand(p) /\ Cand(p) \in Candidate /\ lock'[Cand(p)'] = p
      BY <2>2, <1>1, <1>4 DEF Cand
    <2>4. new.pc \notin {"idle", "dead"} => Bind(p)' = Bind(p) /\ Bind(p) = receipt[Cand(p)']
      BY <2>2, <2>3, <1>1, <1>4 DEF Bind
    <2>5. new.pc \in Bound => Bind(p)' \in Receipt
      BY <2>4, <1>4 DEF Bound
    <2> QED
      BY <2>1, <2>2, <2>3, <2>4, <2>5, <1>4, OtherStep
  <1>5. CASE Reserve(p)
    <2>1. PICK n \in Nodes :
            /\ At(p, BeginOn(n)) /\ Begin(p, n)
            /\ process' = [process EXCEPT ![p].pc = Following("distribute", @),
                                         ![p].holds = @ \cup {n}]
            /\ UNCHANGED <<receipt, lock, late, local, events>>
      BY <1>5 DEF Reserve
    <2>2. process[p].pc \in {"begin A", "begin B"}
      BY <2>1 DEF At, BeginOn
    <2>3. NodeStep
      BY <2>1 DEF Begin, NodeStep, Inv, TypeOK, ServedInv, AcceptedHasServed
    <2> DEFINE new == [process[p] EXCEPT !.pc = Following("distribute", @), !.holds = @ \cup {n}]
    <2>4. Following("distribute", process[p].pc) \in {"load", "prepare"}
      BY <2>2 DEF Following
    <2>5. /\ new \in State /\ new.pc \in {"load", "prepare"}
          /\ new.cand = Cand(p) /\ new.bind = Bind(p)
      BY <2>4, <1>1 DEF State, Steps, Effective, Cand, Bind
    <2>6. process' = [process EXCEPT ![p] = new]
      BY <2>1, <1>1
    <2> HIDE DEF new
    <2>7. process[p].pc \in Bound /\ process[p].pc # "idle"
      BY <2>2 DEF Bound, Steps, Effective
    <2>8. \A r \in late' : r.pc = "accept" => r.cand \in primary'.served
      BY <2>1, <2>3, <1>1 DEF NodeStep
    <2> QED
      BY <2>1, <2>2, <2>3, <2>5, <2>6, <2>7, <2>8, <1>1, <1>4 DEF Inv, TypeOK
  <1>6. CASE CleanUp(p)
    <2>1. PICK n \in Nodes :
            /\ At(p, FinishOn(n))
            /\ Finish(p, n) \/ UNCHANGED nodeVars
            /\ \E h \in SUBSET Nodes, f \in BOOLEAN :
                 process' = [process EXCEPT ![p].pc = Following("distribute", @),
                                            ![p].holds = h, ![p].failed = f]
            /\ UNCHANGED <<receipt, lock, late, local>>
      <3>1. PICK n \in Nodes :
              /\ At(p, FinishOn(n))
              /\ IF n \in process[p].holds
                 THEN \/ /\ Finish(p, n)
                         /\ process' = [process EXCEPT ![p].pc = Following("distribute", @),
                                                       ![p].holds = @ \ {n}]
                      \/ /\ Finish(p, n) \/ UNCHANGED nodeVars
                         /\ process' = [process EXCEPT ![p].pc = Following("distribute", @),
                                                       ![p].failed = TRUE]
                 ELSE /\ process' = [process EXCEPT ![p].pc = Following("distribute", @)]
                      /\ UNCHANGED nodeVars
              /\ UNCHANGED <<receipt, lock, late, local>>
        BY <1>6 DEF CleanUp
      <3>2. \E h \in SUBSET Nodes, f \in BOOLEAN :
              process' = [process EXCEPT ![p].pc = Following("distribute", @),
                                         ![p].holds = h, ![p].failed = f]
        <4> process[p].holds \in SUBSET Nodes /\ process[p].failed \in BOOLEAN
          BY <1>1 DEF State
        <4>1. CASE process' = [process EXCEPT ![p].pc = Following("distribute", @),
                                             ![p].holds = @ \ {n}]
          <5> WITNESS process[p].holds \ {n} \in SUBSET Nodes
          <5> WITNESS process[p].failed \in BOOLEAN
          <5> QED BY <4>1, <1>1 DEF State
        <4>2. CASE process' = [process EXCEPT ![p].pc = Following("distribute", @),
                                             ![p].failed = TRUE]
          <5> WITNESS process[p].holds \in SUBSET Nodes
          <5> WITNESS TRUE \in BOOLEAN
          <5> QED BY <4>2, <1>1 DEF State
        <4>3. CASE process' = [process EXCEPT ![p].pc = Following("distribute", @)]
          <5> WITNESS process[p].holds \in SUBSET Nodes
          <5> WITNESS process[p].failed \in BOOLEAN
          <5> QED BY <4>3, <1>1 DEF State
        <4> QED
          BY <3>1, <4>1, <4>2, <4>3
      <3> QED
        BY <3>1, <3>2
    <2>2. process[p].pc \in {"finish A", "finish B"}
      BY <2>1 DEF At, FinishOn
    <2>3. PICK h \in SUBSET Nodes, f \in BOOLEAN :
            process' = [process EXCEPT ![p].pc = Following("distribute", @),
                                       ![p].holds = h, ![p].failed = f]
      BY <2>1
    <2> DEFINE new == [process[p] EXCEPT !.pc = Following("distribute", @), !.holds = h,
                                         !.failed = f]
    <2>4. Following("distribute", process[p].pc) \in {"finish B", "end"}
      BY <2>2 DEF Following
    <2>5. /\ new \in State /\ new.pc \in {"finish B", "end"}
          /\ new.cand = Cand(p) /\ new.bind = Bind(p)
      BY <2>4, <1>1 DEF State, Steps, Effective, Cand, Bind
    <2>6. process' = [process EXCEPT ![p] = new]
      BY <2>3, <1>1
    <2> HIDE DEF new
    <2>7. NodeStep
      <3>1. CASE Finish(p, n)
        BY <3>1 DEF Finish, NodeStep, Inv, TypeOK, ServedInv, AcceptedHasServed
      <3> QED
        BY <2>1, <3>1, NodesStay
    <2>8. \A r \in late' : r.pc = "accept" => r.cand \in primary'.served
      BY <2>1, <2>7, <1>1 DEF NodeStep
    <2> QED
      BY <2>1, <2>2, <2>5, <2>6, <2>7, <2>8, <1>1, <1>4 DEF Inv, TypeOK, Bound, Steps, Effective
  <1>7. /\ Pending(p) \subseteq Late
        /\ \A r \in Pending(p) : r.pc = "accept" => r.cand \in primary.served
    <2>1. CASE process[p].pc \in Effective
      <3> DEFINE r == [process |-> p, cand |-> Cand(p), bind |-> Bind(p), pc |-> process[p].pc]
      <3>1. r \in Late
        BY <2>1, <1>1 DEF Late, Bound, Steps, Effective
      <3>2. r.pc = "accept" => r.cand \in primary.served
        BY <1>1 DEF At
      <3>3. Pending(p) = {r}
        BY <2>1 DEF Pending
      <3> QED
        BY <3>1, <3>2, <3>3
    <2>2. CASE process[p].pc \notin Effective
      BY <2>2 DEF Pending
    <2> QED
      BY <2>1, <2>2
  <1>8. CASE Fails(p)
    <2>1. /\ process[p].pc \notin {"idle", "dead", "end", "finish A", "finish B"}
          /\ late' \subseteq late \cup Pending(p)
          /\ UNCHANGED <<receipt, lock, local>>
      BY <1>8 DEF Fails
    <2>2. NodeStep
      <3>1. CASE UNCHANGED nodeVars
        BY <3>1, NodesStay
      <3>2. CASE process[p].pc \in Effective /\ Request(p, Cand(p), Bind(p), process[p].pc)
        BY <3>2, <2>1, <1>1, RequestStep DEF At
      <3> QED
        BY <3>1, <3>2, <1>8 DEF Fails
    <2> DEFINE pc == IF process[p].action = "distribute" /\ process[p].pc # "identify"
                     THEN "finish A" ELSE "end"
               new == [process[p] EXCEPT !.failed = TRUE, !.pc = pc]
    <2>3. pc \in {"finish A", "end"} /\ (pc = "finish A" => process[p].pc \in Bound)
      BY <2>1, <1>1 DEF Bound, State
    <2>4. process' = [process EXCEPT ![p] = new]
      BY <1>8, <1>1 DEF Fails
    <2> HIDE DEF pc
    <2>5. new \in State /\ new.pc = pc /\ new.cand = Cand(p) /\ new.bind = Bind(p)
      BY <2>3, <1>1 DEF State, Steps, Effective, Cand, Bind
    <2> HIDE DEF new
    <2>6. late' \subseteq Late /\ \A r \in late' : r.pc = "accept" => r.cand \in primary'.served
      BY <2>1, <2>2, <1>1, <1>7 DEF Inv, TypeOK, NodeStep
    <2> QED
      BY <2>1, <2>2, <2>3, <2>4, <2>5, <2>6, <1>1, <1>4 DEF Bound
  <1>9. CASE Killed(p)
    <2>1. /\ process[p].pc \notin {"idle", "dead"}
          /\ late' \subseteq late \cup Pending(p)
          /\ UNCHANGED <<receipt, lock, local, nodeVars>>
      BY <1>9 DEF Killed
    <2>2. NodeStep
      BY <2>1, NodesStay
    <2> DEFINE new == [Idle EXCEPT !.pc = "dead", !.cand = Cand(p)]
    <2>3. process' = [process EXCEPT ![p] = new]
      BY <1>9 DEF Killed
    <2>4. new \in State /\ new.pc = "dead" /\ new.cand = Cand(p)
      BY <2>1, <1>1 DEF Idle, State, Steps
    <2> HIDE DEF new
    <2>5. late' \subseteq Late /\ \A r \in late' : r.pc = "accept" => r.cand \in primary'.served
      BY <2>1, <2>2, <1>1, <1>7 DEF Inv, TypeOK, NodeStep
    <2> QED
      BY <2>1, <2>2, <2>3, <2>4, <2>5, <1>1, <1>4 DEF Bound
  <1>10. CASE Leave(p) \/ Unlock(p)
    <2>1. /\ process[p].pc \in {"end", "dead"}
          /\ lock' = [lock EXCEPT ![Cand(p)] = None] /\ process' = [process EXCEPT ![p] = Idle]
          /\ UNCHANGED <<receipt, late, local, nodeVars>>
      BY <1>10 DEF Leave, Unlock, At
    <2>2. NodeStep
      BY <2>1, NodesStay
    <2>3. process'[p].pc = "idle" /\ \A q \in Process \ {p} : process'[q] = process[q]
      BY <2>1, <1>1, <1>2
    <2>4. \A c \in Candidate : lock'[c] = lock[c] \/ lock[c] \in {None, p}
      BY <2>1, <1>1 DEF Inv, TypeOK
    <2>5. TypeOK'
      BY <2>1, <2>2, <1>2 DEF Inv, TypeOK, NodeStep
    <2>6. \A r \in late' : r.pc = "accept" => r.cand \in primary'.served
      BY <2>1, <2>2, <1>1 DEF NodeStep
    <2> QED
      BY <2>1, <2>2, <2>3, <2>4, <2>5, <2>6, OtherStep DEF Bound
  <1> QED
    BY <1>3, <1>5, <1>6, <1>8, <1>9, <1>10

(* What happens around the processes. *)
LEMMA AroundStep ==
  ASSUME Inv, \/ \E r \in late : Arrives(r)
              \/ Build \/ PrimaryChanges \/ SecretsChange \/ \E n \in Nodes : Reconcile(n)
  PROVE  Inv' /\ \A c \in Candidate : Extends(receipt[c], receipt'[c])
  <1>1. ASSUME NodeStep, UNCHANGED <<receipt, lock, process>>, local'.head \in 1..2,
               late' \subseteq late
        PROVE  Inv' /\ \A c \in Candidate : Extends(receipt[c], receipt'[c])
    <2>1. TypeOK'
      BY <1>1 DEF Inv, TypeOK, NodeStep
    <2>2. LockInv'
      BY <1>1 DEF Inv, LockInv, Cand, Bind
    <2>3. ServedInv'
      BY <1>1 DEF Inv, ServedInv, NodeStep, At, Cand
    <2>4. PreparedInv' /\ AcceptedHasServed'
      BY <1>1 DEF Inv, PreparedInv, AcceptedHasServed, NodeStep
    <2> QED
      BY <2>1, <2>2, <2>3, <2>4, <1>1 DEF Inv, Extends
  <1>2. ASSUME NEW r \in late, Arrives(r) PROVE NodeStep
    <2>1. /\ r.process \in Process /\ r.cand \in Candidate /\ r.pc \in Effective
          /\ r.pc = "accept" => r.cand \in primary.served
      BY DEF Inv, TypeOK, Late, ServedInv
    <2>2. CASE Request(r.process, r.cand, r.bind, r.pc)
      BY <2>1, <2>2, RequestStep
    <2> QED
      BY <2>2, <1>2, NodesStay DEF Arrives
  <1>3. CASE \E r \in late : Arrives(r)
    BY <1>1, <1>2, <1>3 DEF Arrives, Inv, TypeOK
  <1>4. CASE Build
    <2>1. local'.head \in 1..2
      <3>1. CASE \E c \in Candidate : local' = [local EXCEPT !.tag = c]
        BY <3>1 DEF Inv, TypeOK
      <3>2. CASE local' = [local EXCEPT !.head = 2]
        BY <3>2 DEF Inv, TypeOK
      <3> QED
        BY <3>1, <3>2, <1>4 DEF Build
    <2> QED
      BY <2>1, <1>1, <1>4, NodesStay DEF Build
  <1>5. CASE PrimaryChanges
    <2>1. NodeStep
      BY <1>5 DEF PrimaryChanges, NodeStep, Inv, TypeOK, ServedInv, AcceptedHasServed
    <2> QED
      BY <2>1, <1>1, <1>5 DEF PrimaryChanges, Inv, TypeOK
  <1>6. CASE SecretsChange
    <2>1. NodeStep
      BY <1>6 DEF SecretsChange, NodeStep, Inv, TypeOK, ServedInv, AcceptedHasServed
    <2> QED
      BY <2>1, <1>1, <1>6 DEF SecretsChange, Inv, TypeOK
  <1>7. CASE \E n \in Nodes : Reconcile(n)
    <2>1. NodeStep
      BY <1>7 DEF Reconcile, NodeStep, Inv, TypeOK, ServedInv, AcceptedHasServed
    <2> QED
      BY <2>1, <1>1, <1>7 DEF Reconcile, Inv, TypeOK
  <1> QED
    BY <1>3, <1>4, <1>5, <1>6, <1>7

--------------------------------------------------------------------------------
LEMMA NextInv ==
  Inv /\ [Next]_vars => Inv' /\ \A c \in Candidate : Extends(receipt[c], receipt'[c])
  <1> SUFFICES ASSUME Inv, [Next]_vars
               PROVE  Inv' /\ \A c \in Candidate : Extends(receipt[c], receipt'[c])
    OBVIOUS
  <1>1. CASE UNCHANGED vars
    BY <1>1 DEF vars, nodeVars, Inv, TypeOK, LockInv, ServedInv, PreparedInv, AcceptedHasServed,
                At, Cand, Bind, Extends
  <1>2. CASE Next
    <2>1. CASE \E p \in Process, c \in Candidate : Busy(p, c)
      BY <2>1, <1>1 DEF Busy
    <2> QED
      BY <1>2, <2>1, SavingStep, ProcessStep, AroundStep DEF Next
  <1> QED
    BY <1>1, <1>2

LEMMA InvHolds == Spec => []Inv
  BY InitInv, NextInv, PTL DEF Spec

(* executeUnlocked's primaryIdentity before an acceptance: whatever is retried, killed *)
(* or late, the standby takes over only with a version the primary has served.         *)
THEOREM StandbyFollowsPrimary == Spec => []AcceptedHasServed
  BY InvHolds, PTL DEF Inv

(* operation.lock and validateReady: no receipt loses what it has bound.               *)
THEOREM ReceiptsOnlyGrow == Spec => BindingKept
  <1>1. Inv /\ [Next]_vars => [\A c \in Candidate : receipt[c] # None =>
       /\ receipt'[c] # None
       /\ receipt'[c].commit = receipt[c].commit
       /\ receipt[c].conf # None =>
            receipt'[c].conf = receipt[c].conf /\ receipt'[c].previous = receipt[c].previous
       /\ receipt[c].archive => receipt'[c].archive
       /\ receipt[c].accepted => receipt'[c].accepted]_vars
    BY NextInv DEF Extends
  <1> QED
    BY <1>1, InvHolds, PTL DEF Spec, BindingKept

(* operation.lock: one live process works on a candidate.                              *)
AtMostOne ==
  \A p, q \in Process :
    process[p].pc # "idle" /\ process[q].pc # "idle" /\ Cand(p) = Cand(q) => p = q

(* executeCandidate's exclusive open: two actions on one candidate never overlap.      *)
THEOREM OneProcess == Spec => []AtMostOne
  <1>1. Inv => AtMostOne
    BY DEF Inv, LockInv, AtMostOne
  <1> QED
    BY <1>1, InvHolds, PTL

--------------------------------------------------------------------------------
(* A distribution, from its first step to its last. *)

\* What a receipt has on record is what the standby has prepared.
Matched ==
  \A c \in Candidate :
    receipt[c] # None /\ receipt[c].conf # None =>
      receipt[c].previous = standby.prepared[c].previous

\* A distribution that nothing has gone wrong with.
Distributes(p) ==
  process[p].pc \notin {"idle", "dead"} /\ process[p].action = "distribute" /\ ~process[p].failed

\* How far such a distribution has come: no request of its process is left over, the
\* image is on A, the configuration is on record, and what it has reserved it knows of
\* and gives back.
OnTheWay(p) ==
  LET pc == process[p].pc IN
  /\ process[p].action = "distribute" => pc \notin {"verify", "runtime", "cutover", "accept"}
  /\ Distributes(p) =>
       /\ \A r \in late : r.process # p
       /\ pc \in {"begin B", "prepare", "image", "finish A", "finish B", "end"} =>
            Cand(p) \in primary.loaded
       /\ pc \in {"image", "finish A", "finish B", "end"} => Bind(p) # None /\ Bind(p).conf # None
       /\ \A n \in Nodes : reserved[n] = p => n \in process[p].holds
       /\ pc \in {"finish B", "end"} => reserved["A"] # p
       /\ pc = "end" => reserved["B"] # p

OnTheirWay == Matched /\ \A p \in Process : OnTheWay(p)

\* What a request of p leaves as it is on the nodes: what is loaded and prepared, and
\* the reservations p does not take.
Keeps(p) ==
  /\ primary.loaded \subseteq primary'.loaded
  /\ \A c \in Candidate :
       standby.prepared[c] # None => standby'.prepared[c] = standby.prepared[c]
  /\ \A n \in Nodes : reserved'[n] \in {reserved[n], None, p}

LEMMA NodesKeep ==
  ASSUME NEW p, UNCHANGED nodeVars PROVE Keeps(p)
BY DEF Keeps, nodeVars

LEMMA RequestKeeps ==
  ASSUME Inv, NEW p \in Process, NEW c \in Candidate, NEW b, NEW pc \in Effective,
         Request(p, c, b, pc)
  PROVE  Keeps(p)
  <1> USE DEF Inv, TypeOK, Keeps
  <1>1. CASE pc \in {"begin A", "begin B"}
    BY <1>1 DEF Request, Begin, Nodes
  <1>2. CASE pc = "load"
    BY <1>2 DEF Request, Load
  <1>3. CASE pc = "prepare"
    <2>1. CASE standby.prepared[c] # None
      BY <1>3, <2>1 DEF Request, Prepare
    <2>2. CASE standby.prepared[c] = None
      BY <1>3, <2>2 DEF Request, Prepare
    <2> QED
      BY <2>1, <2>2
  <1>4. CASE pc \in {"finish A", "finish B"}
    BY <1>4 DEF Request, Finish, Nodes
  <1>5. CASE pc = "cutover"
    BY <1>5 DEF Request, CutOver
  <1>6. CASE pc = "accept"
    BY <1>6 DEF Request, Accept
  <1> QED
    BY <1>1, <1>2, <1>3, <1>4, <1>5, <1>6 DEF Effective

\* What p or its requests do takes nothing from the distribution of another.
LEMMA OthersGoOn ==
  ASSUME Inv, NEW q \in Process, OnTheWay(q), process'[q] = process[q],
         NEW p, Keeps(p), \A r \in late' : r \in late \/ r.process = p,
         p = q => ~Distributes(q)
  PROVE  OnTheWay(q)'
  <1>1. CASE Distributes(q)
    <2>1. p # q
      BY <1>1
    <2>2. q # None
      BY StandbyAssumption
    <2>3. \A n \in Nodes : reserved'[n] = q => reserved[n] = q
      BY <2>1, <2>2 DEF Keeps
    <2> QED
      BY <1>1, <2>1, <2>3 DEF OnTheWay, Distributes, Keeps, Cand, Bind, Nodes
  <1>2. CASE ~Distributes(q)
    BY <1>2 DEF OnTheWay, Distributes
  <1> QED
    BY <1>1, <1>2

LEMMA MatchedStays ==
  ASSUME Inv, Matched, NEW p, Keeps(p), receipt' = receipt PROVE Matched'
BY DEF Matched, Keeps, Inv, PreparedInv

\* A step of p that leaves the receipts alone.
LEMMA StepOf ==
  ASSUME Inv, OnTheirWay, NEW p \in Process, Keeps(p), receipt' = receipt,
         NEW new, process' = [process EXCEPT ![p] = new],
         \A r \in late' : r \in late \/ r.process = p,
         OnTheWay(p)'
  PROVE  OnTheirWay'
  <1>1. \A q \in Process \ {p} : process'[q] = process[q]
    BY DEF Inv, TypeOK
  <1>2. ASSUME NEW q \in Process, q # p PROVE OnTheWay(q)'
    BY <1>1, <1>2, OthersGoOn DEF OnTheirWay
  <1> QED
    BY <1>2, MatchedStays DEF OnTheirWay

\* A step of p that goes on with the receipt b.
LEMMA GoesOn ==
  ASSUME Inv, OnTheirWay, NEW p \in Process, NEW b \in Receipt, Goes(p, b), Keeps(p),
         process[p].pc \in Bound \cup {"identify"},
         b.conf # None => b.previous = standby'.prepared[Cand(p)].previous,
         Distributes(p) =>
           /\ reserved' = reserved
           /\ process[p].pc \in {"identify", "archive", "load", "prepare", "image"}
           /\ process[p].pc = "load" => Cand(p) \in primary'.loaded
           /\ process[p].pc = "prepare" => b.conf # None
           /\ process[p].pc = "image" => b = Bind(p)
  PROVE  OnTheirWay'
  <1>1. /\ process \in [Process -> State] /\ receipt \in [Candidate -> Receipt \cup {None}]
        /\ Cand(p) \in Candidate /\ Bind(p) = receipt[Cand(p)]
    BY DEF Inv, TypeOK, LockInv, Bound
  <1>2. late' = late
    BY DEF Goes
  <1>3. /\ process'[p] = [process[p] EXCEPT !.pc = Following(process[p].action, @), !.bind = b]
        /\ \A q \in Process \ {p} : process'[q] = process[q]
    BY <1>1 DEF Goes
  <1>4. receipt'[Cand(p)] = b /\ \A d \in Candidate \ {Cand(p)} : receipt'[d] = receipt[d]
    BY <1>1 DEF Goes
  <1>5. Matched'
    BY <1>4 DEF OnTheirWay, Matched, Keeps, Inv, PreparedInv
  <1>6. ASSUME NEW q \in Process, q # p PROVE OnTheWay(q)'
    BY <1>2, <1>3, <1>6, OthersGoOn DEF OnTheirWay
  <1>7. OnTheWay(p)'
    <2>1. /\ process'[p].action = process[p].action /\ process'[p].failed = process[p].failed
          /\ process'[p].holds = process[p].holds /\ Cand(p)' = Cand(p) /\ Bind(p)' = b
          /\ process'[p].pc = Following(process[p].action, process[p].pc)
      BY <1>1, <1>3 DEF State, Cand, Bind
    <2>2. OnTheWay(p)
      BY DEF OnTheirWay
    <2>3. CASE Distributes(p)
      <3>1. /\ process[p].pc = "identify" => process'[p].pc = "archive"
            /\ process[p].pc = "archive" => process'[p].pc = "begin A"
            /\ process[p].pc = "load" => process'[p].pc = "begin B"
            /\ process[p].pc = "prepare" => process'[p].pc = "image"
            /\ process[p].pc = "image" => process'[p].pc = "finish A"
        BY <2>1, <2>3 DEF Following, Distributes
      <3>2. b # None
        BY StandbyAssumption
      <3> QED
        BY <1>2, <2>1, <2>2, <2>3, <3>1, <3>2 DEF OnTheWay, Distributes, Keeps
    <2>4. CASE process[p].action = "distribute" /\ process[p].failed
      <3>1. process[p].pc \notin {"verify", "runtime", "cutover", "accept"}
        BY <2>2, <2>4 DEF OnTheWay, Distributes
      <3>2. process'[p].pc \notin {"verify", "runtime", "cutover", "accept"}
        BY <2>1, <2>4, <3>1 DEF Following
      <3> QED
        BY <2>1, <2>4, <3>2 DEF OnTheWay, Distributes
    <2>5. CASE process[p].action # "distribute"
      BY <2>1, <2>5 DEF OnTheWay, Distributes
    <2>6. process[p].pc \notin {"idle", "dead"}
      BY DEF Bound
    <2> QED
      BY <2>3, <2>4, <2>5, <2>6 DEF Distributes
  <1> QED
    BY <1>5, <1>6, <1>7 DEF OnTheirWay

LEMMA SavingGoesOn ==
  ASSUME Inv, OnTheirWay, NEW p \in Process,
         Identify(p) \/ Archive(p) \/ Answered(p) \/ Readiness(p) \/ PrimaryIdentity(p)
           \/ Accepted(p)
  PROVE  OnTheirWay'
  <1> DEFINE pc == process[p].pc
             going == Distributes(p)
  <1>1. /\ pc \in Bound => Bind(p) \in Receipt
        /\ pc \in Bound \cup {"identify"} =>
             Cand(p) \in Candidate /\ Bind(p) = receipt[Cand(p)] /\ Bind(p) \in Receipt \cup {None}
    BY DEF Inv, LockInv, TypeOK, State, Bound, Bind, Cand
  <1>2. pc \in Bound \cup {"identify"} /\ Bind(p) # None /\ Bind(p).conf # None =>
          /\ standby.prepared[Cand(p)] # None
          /\ Bind(p).previous = standby.prepared[Cand(p)].previous
    BY <1>1, StandbyAssumption DEF Inv, PreparedInv, OnTheirWay, Matched
  <1>3. going => pc \notin {"verify", "runtime", "cutover", "accept"}
    BY DEF OnTheirWay, OnTheWay, Distributes
  <1>4. \A b \in Receipt : b # None
    BY StandbyAssumption
  <1>5. CASE Identify(p)
    <2> USE <1>5 DEF Identify
    <2>1. pc = "identify" /\ Keeps(p) /\ UNCHANGED nodeVars
      BY NodesKeep DEF At
    <2>2. CASE Bind(p) # None
      <3>1. Bind(p) \in Receipt /\ Goes(p, Bind(p))
        BY <2>2, <2>1, <1>1
      <3> QED
        BY <2>1, <2>2, <3>1, <1>1, <1>2, GoesOn DEF nodeVars
    <2>3. CASE Bind(p) = None
      <3> DEFINE new == [commit |-> local.head, archive |-> FALSE, conf |-> None,
                         previous |-> None, accepted |-> FALSE]
      <3>1. new \in Receipt /\ new.conf = None
        BY DEF Receipt, Inv, TypeOK
      <3>2. Goes(p, new)
        BY <2>3
      <3> HIDE DEF new
      <3> QED
        BY <2>1, <3>1, <3>2, GoesOn DEF nodeVars
    <2> QED
      BY <2>2, <2>3
  <1>6. CASE Archive(p)
    <2> USE <1>6 DEF Archive
    <2>1. pc = "archive" /\ pc \in Bound /\ Keeps(p) /\ UNCHANGED nodeVars
      BY NodesKeep DEF At, Bound, Steps
    <2> DEFINE new == [Bind(p) EXCEPT !.archive = TRUE]
    <2>2. new \in Receipt /\ new.conf = Bind(p).conf /\ new.previous = Bind(p).previous
      BY <2>1, <1>1 DEF Receipt
    <2>3. Goes(p, new)
      OBVIOUS
    <2> HIDE DEF new
    <2> QED
      BY <2>1, <2>2, <2>3, <1>1, <1>2, <1>4, GoesOn DEF nodeVars
  <1>7. CASE Answered(p)
    <2> USE <1>7 DEF Answered
    <2>1. pc \in {"load", "cutover"} /\ pc \in Bound /\ pc \in Effective
      BY DEF Bound, Steps, Effective
    <2>2. Keeps(p)
      BY <2>1, <1>1, RequestKeeps
    <2>3. Goes(p, Bind(p)) /\ Bind(p) \in Receipt
      BY <2>1, <1>1
    <2>4. Bind(p).conf # None => Bind(p).previous = standby'.prepared[Cand(p)].previous
      BY <2>1, <2>2, <2>3, <1>1, <1>2, <1>4 DEF Keeps
    <2>5. going => pc = "load" /\ reserved' = reserved /\ Cand(p) \in primary'.loaded
      <3>1. going => pc = "load" /\ Load(p, Cand(p))
        BY <2>1, <1>3 DEF Request
      <3> QED
        BY <3>1 DEF Load, Inv, TypeOK
    <2> QED
      BY <2>1, <2>2, <2>3, <2>4, <2>5, GoesOn
  <1>8. CASE Readiness(p)
    <2> USE <1>8 DEF Readiness
    <2>1. pc \in {"prepare", "verify"} /\ pc \in Bound
      BY DEF Bound, Steps, Effective
    <2>2. Keeps(p) /\ reserved' = reserved
      <3>1. CASE At(p, "prepare")
        <4>1. Prepare(p, Cand(p)) /\ "prepare" \in Effective
          BY <3>1 DEF Effective
        <4>2. Request(p, Cand(p), Bind(p), "prepare")
          BY <4>1 DEF Request
        <4>3. Keeps(p)
          BY <2>1, <4>1, <4>2, <1>1, RequestKeeps
        <4> QED
          BY <4>1, <4>3 DEF Prepare
      <3>2. CASE ~At(p, "prepare")
        BY <3>2, NodesKeep DEF nodeVars
      <3> QED
        BY <3>1, <3>2
    <2> DEFINE previous == standby'.prepared[Cand(p)].previous
               new == [Bind(p) EXCEPT !.conf = standby.secrets, !.previous = previous]
    <2>3. standby'.prepared[Cand(p)] \in Prepared
      <3>1. Inv'
        BY SavingStep
      <3>2. standby'.prepared[Cand(p)] \in Prepared \cup {None}
        BY <3>1, <2>1, <1>1 DEF Inv, TypeOK
      <3>3. standby'.prepared[Cand(p)] # None
        <4>1. CASE At(p, "prepare")
          BY <2>1, <4>1, <1>1, PrepareStep
        <4>2. CASE ~At(p, "prepare")
          BY <4>2 DEF Ready, nodeVars
        <4> QED
          BY <4>1, <4>2
      <3> QED
        BY <3>2, <3>3
    <2>4. previous \in Candidate \cup {Baseline}
      BY <2>3 DEF Prepared
    <2>5. Goes(p, new)
      OBVIOUS
    <2> HIDE DEF previous
    <2>6. /\ new \in Receipt /\ new.conf # None /\ new.previous = previous
      BY <2>1, <2>4, <1>1, StandbyAssumption DEF Receipt, Inv, TypeOK
    <2> HIDE DEF new
    <2>7. new.previous = standby'.prepared[Cand(p)].previous
      BY <2>6 DEF previous
    <2> QED
      BY <2>1, <2>2, <2>5, <2>6, <2>7, <1>3, GoesOn
  <1>9. CASE PrimaryIdentity(p)
    <2> USE <1>9 DEF PrimaryIdentity
    <2>1. pc \in {"image", "runtime"} /\ pc \in Bound /\ Keeps(p) /\ UNCHANGED nodeVars
      BY NodesKeep DEF At, Bound, Steps, Effective
    <2>2. Goes(p, Bind(p)) /\ Bind(p) \in Receipt
      BY <2>1, <1>1
    <2> QED
      BY <2>1, <2>2, <1>1, <1>2, <1>3, <1>4, GoesOn DEF nodeVars
  <1>10. CASE Accepted(p)
    <2> USE <1>10 DEF Accepted
    <2>1. pc = "accept" /\ pc \in Bound /\ pc \in Effective
      BY DEF At, Bound, Steps, Effective
    <2>2. Keeps(p)
      BY <2>1, <1>1, RequestKeeps DEF Request
    <2> DEFINE new == [Bind(p) EXCEPT !.accepted = TRUE]
    <2>3. new \in Receipt /\ new.conf = Bind(p).conf /\ new.previous = Bind(p).previous
      BY <2>1, <1>1 DEF Receipt
    <2>4. Goes(p, new)
      OBVIOUS
    <2> HIDE DEF new
    <2>5. new.conf # None => new.previous = standby'.prepared[Cand(p)].previous
      BY <2>1, <2>2, <2>3, <1>1, <1>2, <1>4 DEF Keeps
    <2> QED
      BY <2>1, <2>2, <2>3, <2>4, <2>5, <1>3, GoesOn
  <1> QED
    BY <1>5, <1>6, <1>7, <1>8, <1>9, <1>10

LEMMA ProcessGoesOn ==
  ASSUME Inv, OnTheirWay, NEW p \in Process,
         \/ \E c \in Candidate, a \in Actions : Enter(p, c, a)
         \/ Reserve(p) \/ CleanUp(p) \/ Fails(p) \/ Leave(p) \/ Killed(p) \/ Unlock(p)
  PROVE  OnTheirWay'
  <1>1. /\ process \in [Process -> State] /\ process[p] \in State
        /\ process[p].pc # "idle" => Cand(p) \in Candidate
        /\ OnTheWay(p) /\ p # None
    BY StandbyAssumption DEF Inv, TypeOK, LockInv, OnTheirWay
  <1>2. \A r \in Pending(p) : r.process = p
    BY DEF Pending
  <1>3. ASSUME NEW c \in Candidate, NEW a \in Actions, Enter(p, c, a) PROVE OnTheirWay'
    <2> DEFINE new == [Idle EXCEPT !.pc = IF a = "distribute" THEN "identify" ELSE "verify",
                                   !.cand = c, !.action = a, !.bind = receipt[c]]
    <2>1. /\ process' = [process EXCEPT ![p] = new]
          /\ \A r \in late : r.process # p
          /\ \A n \in Nodes : reserved[n] # p
          /\ receipt' = receipt /\ late' = late /\ UNCHANGED nodeVars
      BY <1>3 DEF Enter
    <2>2. /\ new.action = a
          /\ new.pc = IF a = "distribute" THEN "identify" ELSE "verify"
      BY DEF Idle
    <2> HIDE DEF new
    <2>3. process'[p] = new
      BY <2>1, <1>1
    <2>4. OnTheWay(p)'
      BY <2>1, <2>2, <2>3 DEF OnTheWay, Distributes, nodeVars
    <2> QED
      BY <2>1, <2>4, StepOf, NodesKeep
  <1>4. CASE Reserve(p)
    <2>1. PICK n \in Nodes :
            /\ At(p, BeginOn(n)) /\ Begin(p, n)
            /\ process' = [process EXCEPT ![p].pc = Following("distribute", @),
                                         ![p].holds = @ \cup {n}]
            /\ UNCHANGED <<receipt, lock, late, local, events>>
      BY <1>4 DEF Reserve
    <2> DEFINE new == [process[p] EXCEPT !.pc = Following("distribute", @), !.holds = @ \cup {n}]
    <2>2. Keeps(p)
      BY <2>1 DEF Begin, Keeps, Inv, TypeOK
    <2>3. \A m \in Nodes : reserved'[m] = p => reserved[m] = p \/ m = n
      BY <2>1 DEF Begin, Inv, TypeOK
    <2>4. /\ process[p].pc \in {"begin A", "begin B"} /\ new.pc \in {"load", "prepare"}
          /\ new.pc = "prepare" => process[p].pc = "begin B"
          /\ new.holds = process[p].holds \cup {n}
          /\ new.action = process[p].action /\ new.failed = process[p].failed
          /\ new.cand = Cand(p) /\ new.bind = Bind(p)
      BY <2>1, <1>1 DEF Following, At, BeginOn, State, Cand, Bind
    <2>5. process' = [process EXCEPT ![p] = new] /\ process'[p] = new
      BY <2>1, <1>1
    <2> HIDE DEF new
    <2>6. OnTheWay(p)'
      BY <2>1, <2>2, <2>3, <2>4, <2>5, <1>1 DEF OnTheWay, Distributes, Keeps, Cand, Bind
    <2> QED
      BY <2>1, <2>2, <2>5, <2>6, StepOf
  <1>5. CASE CleanUp(p)
    <2>1. PICK n \in Nodes :
            /\ At(p, FinishOn(n))
            /\ IF n \in process[p].holds
               THEN \/ /\ Finish(p, n)
                       /\ process' = [process EXCEPT ![p].pc = Following("distribute", @),
                                                     ![p].holds = @ \ {n}]
                    \/ /\ Finish(p, n) \/ UNCHANGED nodeVars
                       /\ process' = [process EXCEPT ![p].pc = Following("distribute", @),
                                                     ![p].failed = TRUE]
               ELSE /\ process' = [process EXCEPT ![p].pc = Following("distribute", @)]
                    /\ UNCHANGED nodeVars
            /\ UNCHANGED <<receipt, lock, late, local>>
      BY <1>5 DEF CleanUp
    <2>2. Keeps(p)
      <3>1. CASE Finish(p, n)
        BY <3>1 DEF Finish, Keeps, Inv, TypeOK
      <3> QED
        BY <2>1, <3>1, NodesKeep
    <2> DEFINE pc == Following("distribute", process[p].pc)
    <2>3. /\ n = "A" => process[p].pc = "finish A" /\ pc = "finish B"
          /\ n = "B" => process[p].pc = "finish B" /\ pc = "end"
          /\ n \in {"A", "B"}
      BY <2>1 DEF At, FinishOn, Following, Nodes
    <2> HIDE DEF pc
    <2>4. ASSUME NEW new, process' = [process EXCEPT ![p] = new], new.pc = pc,
                 new.action = process[p].action, new.cand = Cand(p), new.bind = Bind(p),
                 new.failed \/ /\ new.failed = process[p].failed
                               /\ new.holds \in {process[p].holds, process[p].holds \ {n}}
                               /\ process[p].failed \/ reserved'[n] # p
                                    \/ process[p].action # "distribute"
          PROVE  OnTheirWay'
      <3>1. process'[p] = new
        BY <2>4, <1>1
      <3>2. CASE new.failed \/ process[p].failed \/ process[p].action # "distribute"
        BY <2>3, <2>4, <3>1, <3>2, <2>2, <2>1, StepOf DEF OnTheWay, Distributes
      <3>3. CASE ~(new.failed \/ process[p].failed \/ process[p].action # "distribute")
        <4>1. /\ \A r \in late' : r.process # p
              /\ Cand(p) \in primary.loaded /\ Bind(p) # None /\ Bind(p).conf # None
              /\ \A m \in Nodes : reserved[m] = p => m \in process[p].holds
              /\ process[p].pc = "finish B" => reserved["A"] # p
          BY <2>1, <2>3, <3>3, <1>1 DEF OnTheWay, Distributes
        <4>2. \A m \in Nodes : reserved'[m] = p => reserved[m] = p /\ m # n
          BY <2>1, <2>4, <3>3, <1>1, NodesKeep DEF Finish, Inv, TypeOK, nodeVars
        <4>3. OnTheWay(p)'
          BY <2>2, <2>3, <2>4, <3>1, <3>3, <4>1, <4>2
            DEF OnTheWay, Distributes, Keeps, Cand, Bind, Nodes
        <4> QED
          BY <2>1, <2>2, <2>4, <4>3, StepOf
      <3> QED
        BY <3>2, <3>3
    <2>5. CASE /\ n \in process[p].holds /\ Finish(p, n)
               /\ process' = [process EXCEPT ![p].pc = Following("distribute", @),
                                             ![p].holds = @ \ {n}]
      <3> DEFINE new == [process[p] EXCEPT !.pc = pc, !.holds = @ \ {n}]
      <3>1. process' = [process EXCEPT ![p] = new]
        BY <2>5, <1>1 DEF pc
      <3>2. /\ new.pc = pc /\ new.holds = process[p].holds \ {n} /\ new.cand = Cand(p)
            /\ new.bind = Bind(p) /\ new.failed = process[p].failed
            /\ new.action = process[p].action
        BY <1>1 DEF State, Cand, Bind
      <3>3. reserved'[n] # p
        BY <2>5, <1>1 DEF Finish, Inv, TypeOK
      <3> HIDE DEF new
      <3> QED
        BY <3>1, <3>2, <3>3, <2>4
    <2>6. CASE process' = [process EXCEPT ![p].pc = Following("distribute", @), ![p].failed = TRUE]
      <3> DEFINE new == [process[p] EXCEPT !.pc = pc, !.failed = TRUE]
      <3>1. process' = [process EXCEPT ![p] = new]
        BY <2>6, <1>1 DEF pc
      <3>2. /\ new.pc = pc /\ new.cand = Cand(p) /\ new.bind = Bind(p) /\ new.failed
            /\ new.action = process[p].action
        BY <1>1 DEF State, Cand, Bind
      <3> HIDE DEF new
      <3> QED
        BY <3>1, <3>2, <2>4
    <2>7. CASE /\ n \notin process[p].holds /\ UNCHANGED nodeVars
               /\ process' = [process EXCEPT ![p].pc = Following("distribute", @)]
      <3> DEFINE new == [process[p] EXCEPT !.pc = pc]
      <3>1. process' = [process EXCEPT ![p] = new]
        BY <2>7, <1>1 DEF pc
      <3>2. /\ new.pc = pc /\ new.holds = process[p].holds /\ new.cand = Cand(p)
            /\ new.bind = Bind(p) /\ new.failed = process[p].failed
            /\ new.action = process[p].action
        BY <1>1 DEF State, Cand, Bind
      <3>3. process[p].failed \/ reserved'[n] # p \/ process[p].action # "distribute"
        BY <2>3, <2>7, <1>1 DEF OnTheWay, Distributes, nodeVars, Nodes
      <3> HIDE DEF new
      <3> QED
        BY <3>1, <3>2, <3>3, <2>4
    <2> QED
      BY <2>1, <2>5, <2>6, <2>7
  <1>6. CASE Fails(p)
    <2>1. /\ process[p].pc \notin {"idle", "dead", "end", "finish A", "finish B"}
          /\ late' \subseteq late \cup Pending(p)
          /\ receipt' = receipt
      BY <1>6 DEF Fails
    <2>2. Keeps(p)
      <3>1. CASE UNCHANGED nodeVars
        BY <3>1, NodesKeep
      <3>2. CASE process[p].pc \in Effective /\ Request(p, Cand(p), Bind(p), process[p].pc)
        BY <3>2, <2>1, <1>1, RequestKeeps
      <3> QED
        BY <3>1, <3>2, <1>6 DEF Fails
    <2> DEFINE new == [process[p] EXCEPT !.failed = TRUE,
                         !.pc = IF process[p].action = "distribute" /\ process[p].pc # "identify"
                                THEN "finish A" ELSE "end"]
    <2>3. process' = [process EXCEPT ![p] = new]
      BY <1>6, <1>1 DEF Fails
    <2>4. new.failed = TRUE /\ new.pc \in {"finish A", "end"}
      BY <1>1 DEF State
    <2> HIDE DEF new
    <2>5. OnTheWay(p)'
      BY <2>3, <2>4, <1>1 DEF OnTheWay, Distributes
    <2> QED
      BY <2>1, <2>2, <2>3, <2>5, <1>2, StepOf
  <1>7. CASE Killed(p)
    <2> DEFINE new == [Idle EXCEPT !.pc = "dead", !.cand = Cand(p)]
    <2>1. /\ process' = [process EXCEPT ![p] = new] /\ late' \subseteq late \cup Pending(p)
          /\ receipt' = receipt /\ UNCHANGED nodeVars
      BY <1>7 DEF Killed
    <2>2. new.pc = "dead"
      BY DEF Idle
    <2> HIDE DEF new
    <2>3. OnTheWay(p)'
      BY <2>1, <2>2, <1>1 DEF OnTheWay, Distributes
    <2> QED
      BY <2>1, <2>3, <1>2, StepOf, NodesKeep
  <1>8. CASE Leave(p) \/ Unlock(p)
    <2>1. /\ process' = [process EXCEPT ![p] = Idle]
          /\ UNCHANGED <<receipt, late, nodeVars>>
      BY <1>8 DEF Leave, Unlock
    <2>2. OnTheWay(p)'
      BY <2>1, <1>1 DEF OnTheWay, Distributes, Idle
    <2> QED
      BY <2>1, <2>2, StepOf, NodesKeep
  <1> QED
    BY <1>3, <1>4, <1>5, <1>6, <1>7, <1>8

LEMMA AroundGoesOn ==
  ASSUME Inv, OnTheirWay,
         \/ \E r \in late : Arrives(r)
         \/ Build \/ PrimaryChanges \/ SecretsChange \/ \E n \in Nodes : Reconcile(n)
  PROVE  OnTheirWay'
  <1>1. ASSUME NEW p, Keeps(p), UNCHANGED <<receipt, process>>, late' \subseteq late,
               \A q \in Process : p = q => ~Distributes(q)
        PROVE  OnTheirWay'
    BY <1>1, OthersGoOn, MatchedStays DEF OnTheirWay
  <1>2. None \notin Process
    BY StandbyAssumption
  <1>3. CASE \E r \in late : Arrives(r)
    <2>1. PICK r \in late : Arrives(r)
      BY <1>3
    <2>2. r.process \in Process /\ r.cand \in Candidate /\ r.pc \in Effective
      BY DEF Inv, TypeOK, Late
    <2>3. Keeps(r.process)
      BY <2>1, <2>2, RequestKeeps, NodesKeep DEF Arrives
    <2>4. \A q \in Process : r.process = q => ~Distributes(q)
      BY DEF OnTheirWay, OnTheWay
    <2> QED
      BY <2>1, <2>3, <2>4, <1>1 DEF Arrives
  <1>4. CASE Build
    BY <1>4, <1>1, <1>2, NodesKeep DEF Build
  <1>5. CASE PrimaryChanges
    <2>1. Keeps(None)
      BY <1>5 DEF PrimaryChanges, Keeps, Inv, TypeOK
    <2> QED
      BY <2>1, <1>5, <1>1, <1>2 DEF PrimaryChanges
  <1>6. CASE SecretsChange
    <2>1. Keeps(None)
      BY <1>6 DEF SecretsChange, Keeps, Inv, TypeOK
    <2> QED
      BY <2>1, <1>6, <1>1, <1>2 DEF SecretsChange
  <1>7. CASE \E n \in Nodes : Reconcile(n)
    <2>1. Keeps(None)
      BY <1>7 DEF Reconcile, Keeps, Inv, TypeOK
    <2> QED
      BY <2>1, <1>7, <1>1, <1>2 DEF Reconcile
  <1> QED
    BY <1>3, <1>4, <1>5, <1>6, <1>7

LEMMA InitOnTheirWay == Init => OnTheirWay
  <1> SUFFICES ASSUME Init PROVE OnTheirWay
    OBVIOUS
  <1>1. Matched
    BY DEF Init, Matched
  <1>2. ASSUME NEW p \in Process PROVE OnTheWay(p)
    <2>1. process[p].pc = "idle"
      BY DEF Init, Idle
    <2> QED
      BY <2>1 DEF OnTheWay, Distributes
  <1> QED
    BY <1>1, <1>2 DEF OnTheirWay

LEMMA NextOnTheirWay == Inv /\ OnTheirWay /\ [Next]_vars => OnTheirWay'
  <1> SUFFICES ASSUME Inv, OnTheirWay, [Next]_vars PROVE OnTheirWay'
    OBVIOUS
  <1>1. CASE UNCHANGED vars
    BY <1>1 DEF vars, nodeVars, OnTheirWay, Matched, OnTheWay, Distributes, Cand, Bind
  <1>2. CASE Next
    <2>1. CASE \E p \in Process, c \in Candidate : Busy(p, c)
      BY <2>1, <1>1 DEF Busy
    <2> QED
      BY <1>2, <2>1, SavingGoesOn, ProcessGoesOn, AroundGoesOn DEF Next
  <1> QED
    BY <1>1, <1>2

\* What a distribution has done when it ends without an error.
IsReady ==
  \A p \in Process :
    process[p].pc = "end" /\ process[p].action = "distribute" /\ ~process[p].failed =>
      /\ Cand(p) \in primary.loaded
      /\ standby.prepared[Cand(p)] # None
      /\ receipt[Cand(p)].previous = standby.prepared[Cand(p)].previous
      /\ \A n \in Nodes : reserved[n] # p

(* executeUnlocked's distribution and its finally blocks: whatever other actions, late  *)
(* requests and changes it meets, one that ends well has put the image on the primary   *)
(* and the configuration on record on the standby, and has given back its reservations. *)
THEOREM DistributionIsReady == Spec => DistributedIsReady
  <1>1. Inv /\ OnTheirWay => IsReady
    <2> SUFFICES ASSUME Inv, OnTheirWay, NEW p \in Process, process[p].pc = "end",
                        process[p].action = "distribute", ~process[p].failed
                 PROVE  /\ Cand(p) \in primary.loaded
                        /\ standby.prepared[Cand(p)] # None
                        /\ receipt[Cand(p)].previous = standby.prepared[Cand(p)].previous
                        /\ \A n \in Nodes : reserved[n] # p
      BY DEF IsReady
    <2>1. Cand(p) \in Candidate /\ Bind(p) = receipt[Cand(p)]
      BY DEF Inv, LockInv
    <2> QED
      BY <2>1 DEF Inv, PreparedInv, OnTheirWay, Matched, OnTheWay, Distributes, Nodes
  <1>2. Inv /\ OnTheirWay => [\A p \in Process :
       process[p].pc = "end" /\ process[p].action = "distribute" /\ ~process[p].failed =>
         /\ Cand(p) \in primary.loaded
         /\ standby.prepared[Cand(p)] # None
         /\ receipt[Cand(p)].previous = standby.prepared[Cand(p)].previous
         /\ \A n \in Nodes : reserved[n] # p]_vars
    BY <1>1 DEF IsReady
  <1>3. Spec => [](Inv /\ OnTheirWay)
    BY InitOnTheirWay, NextOnTheirWay, InvHolds, PTL DEF Spec
  <1> QED
    BY <1>2, <1>3, PTL DEF DistributedIsReady
================================================================================
