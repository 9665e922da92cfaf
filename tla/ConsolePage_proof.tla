--------------------------- MODULE ConsolePage_proof ---------------------------
(***************************************************************************)
(* Which job the page follows, for any number of jobs and stops of the     *)
(* service, with the button pressed whenever it works.                     *)
(*                                                                         *)
(* Whatever happens, every chain is about a job that exists, one of them   *)
(* about the followed job.  As long as the page has not taken up jobs in   *)
(* both ways, submitting, following and, before the button is pressed,     *)
(* resuming exclude each other: one of them is under way, and it alone may *)
(* turn the page to another job.                                           *)
(***************************************************************************)
EXTENDS ConsolePage, FiniteSetTheorems, TLAPS

States == Active \cup {"new", "ENDED", "gone"}

TypeInv ==
    /\ status \in [Job -> States]
    /\ active \in Job \cup {None}
    /\ shown \in [job : 0..MaxJobs, status : States]
    /\ submit \in [at : {"idle", "sent", "refused", "created"}, job : Job \cup {None}]
    /\ resume \in [at : {"loads", "sent", "told", "done"}, job : Job \cup {None},
                   status : States \cup {None}]
    /\ chain \in [0..MaxJobs -> [at : {"none", "waits", "asked", "told", "ends"},
                                 job : Job \cup {None}, told : States \cup {None}]]
    /\ cancel \in [at : {"idle", "sent", "told"}, job : Job \cup {None},
                   told : States \cup {None}]
    /\ race \in {"none", "pressed", "both"}

\* Jobs are created in the order of their numbers.
JobsInv == \E n \in 0..MaxJobs : Created = 1..n

\* Whatever the page has heard of exists, and what it follows is what it shows.
KnownInv ==
    /\ shown.job # 0 => status[shown.job] # "new"
    /\ active # None => shown.job = active
    /\ submit.at = "created" =>
         /\ submit.job \in Job /\ status[submit.job] # "new"
         /\ race # "both" => shown.job <= submit.job
    /\ resume.at = "told" =>
         resume.job \in Job /\ status[resume.job] # "new" /\ resume.status \in Active
    /\ cancel.at # "idle" => cancel.job \in Job /\ status[cancel.job] # "new"
    /\ cancel.at = "told" => cancel.told \in States

\* Submitting, resuming and following exclude each other.
TurnInv ==
    /\ race # "both" /\ submit # NoSubmit => active = None
    /\ race = "none" /\ submit # NoSubmit => resume.at = "done"
    /\ race = "none" /\ resume.at # "done" => active = None /\ shown = NoJob
    /\ race = "both" => resume.at = "done"

\* A chain is about a job that exists, and an end it has heard of is one.
HeardInv ==
    \A c \in 0..MaxJobs : chain[c].at # "none" =>
      /\ chain[c].job \in Job /\ status[chain[c].job] # "new"
      /\ chain[c].at = "told" => chain[c].told \in States
      /\ chain[c].at = "ends" \/ (chain[c].at = "told" /\ chain[c].told \notin Active \cup {"gone"})
           => status[chain[c].job] \notin Active

\* The followed job has a chain, and without a race there is no other one.
ChainInv ==
    /\ active # None => \E c \in 0..MaxJobs : chain[c].at # "none" /\ chain[c].job = active
    /\ race # "both" =>
         \A c, d \in 0..MaxJobs : chain[c].at # "none" =>
           /\ active # None /\ chain[c].job = active
           /\ chain[d].at # "none" => c = d

Inv == TypeInv /\ JobsInv /\ KnownInv /\ TurnInv /\ HeardInv /\ ChainInv

--------------------------------------------------------------------------------
\* The number of the next job is not taken.
LEMMA NextIsNew ==
    ASSUME TypeInv, JobsInv, MayStart
    PROVE  /\ Next1 \in Job /\ status[Next1] = "new"
           /\ \A j \in Job : status[j] # "new" => j < Next1
  <1>1. PICK n \in 0..MaxJobs : Created = 1..n
    BY DEF JobsInv
  <1>2. Cardinality(1..n) = n
    BY <1>1, FS_Interval, PageAssumption
  <1>3. Next1 = n + 1 /\ Next1 \in Job
    BY <1>1, <1>2 DEF MayStart, Next1
  <1>4. Next1 \notin Created
    BY <1>1, <1>3, PageAssumption
  <1>5. \A j \in Job : status[j] # "new" => j < Next1
    BY <1>1, <1>3, PageAssumption DEF Created, Job
  <1> QED
    BY <1>3, <1>4, <1>5 DEF Created

\* Creating it, and nothing else, extends the numbers that are taken.
LEMMA Creates ==
    ASSUME TypeInv, JobsInv, MayStart, status' = [status EXCEPT ![Next1] = "RUNNING"]
    PROVE  JobsInv'
  <1>1. PICK n \in 0..MaxJobs : Created = 1..n
    BY DEF JobsInv
  <1>4. Cardinality(1..n) = n
    BY <1>1, FS_Interval, PageAssumption
  <1>2. Next1 = n + 1 /\ n + 1 \in Job
    BY <1>1, <1>4 DEF MayStart, Next1
  <1>3. Created' = 1..(n + 1)
    BY <1>1, <1>2, PageAssumption DEF Created, TypeInv, Job
  <1> QED
    BY <1>2, <1>3, PageAssumption DEF JobsInv, Job

\* A step of the service that creates no job.
LEMMA Keeps ==
    ASSUME JobsInv, \A j \in Job : status'[j] = "new" <=> status[j] = "new"
    PROVE  JobsInv'
  <1>1. Created' = Created
    BY DEF Created
  <1> QED
    BY <1>1 DEF JobsInv

\* The answer to a request of a chain, field by field.
LEMMA Told ==
    ASSUME NEW c \in 0..MaxJobs, TypeInv, NEW t
    PROVE  [chain[c] EXCEPT !.at = "told", !.told = t]
             = [at |-> "told", job |-> chain[c].job, told |-> t]
  <1> DEFINE s == chain[c]
  <1>1. s \in [at : {"none", "waits", "asked", "told", "ends"}, job : Job \cup {None},
               told : States \cup {None}]
    BY DEF TypeInv
  <1> HIDE DEF s
  <1>2. [s EXCEPT !.at = "told"] \in [at : {"told"}, job : {s.job}, told : States \cup {None}]
    BY <1>1
  <1>3. ASSUME NEW r \in [at : {"told"}, job : {s.job}, told : States \cup {None}]
        PROVE  [r EXCEPT !.told = t] \in [at : {"told"}, job : {s.job}, told : {t}]
    OBVIOUS
  <1>4. [s EXCEPT !.at = "told", !.told = t] = [[s EXCEPT !.at = "told"] EXCEPT !.told = t]
    OBVIOUS
  <1>5. ASSUME NEW r \in [at : {"told"}, job : {s.job}, told : {t}]
        PROVE  r = [at |-> "told", job |-> s.job, told |-> t]
    OBVIOUS
  <1>6. [s EXCEPT !.at = "told", !.told = t] = [at |-> "told", job |-> s.job, told |-> t]
    BY <1>2, <1>3, <1>4, <1>5
  <1> QED
    BY <1>6 DEF s

\* In the initial state nothing is followed, asked or known.
LEMMA InitInv == Init => Inv
  <1> SUFFICES ASSUME Init PROVE Inv
    OBVIOUS
  <1>1. JobsInv
    <2>1. Created = 1..0
      BY DEF Init, Created
    <2> QED
      BY <2>1, PageAssumption DEF JobsInv
  <1> QED
    BY <1>1, PageAssumption DEF Init, Inv, TypeInv, KnownInv, TurnInv, HeardInv, ChainInv, States,
       NoJob, NoSubmit, Loads, NoChain, Unused, NoCancel, Job

USE PageAssumption DEF Inv, TypeInv, KnownInv, TurnInv, HeardInv, ChainInv, States, Active, service, Job

\* createExecutionJob, for a job of another page or of this one.
LEMMA StartsStep ==
    ASSUME Inv, OtherPageStarts \/ Submitted
    PROVE  Inv'
  <1>1. CASE status' = status
    <2>1. JobsInv'
      BY <1>1, Keeps
    <2>2. ~(MayStart /\ status' = [status EXCEPT ![Next1] = "RUNNING"])
      BY <1>1, NextIsNew
    <2>3. Submitted /\ submit' = [submit EXCEPT !.at = "refused"]
      BY <2>2 DEF OtherPageStarts, Submitted
    <2>8. submit' \in [at : {"idle", "sent", "refused", "created"}, job : Job \cup {None}]
      BY <2>3
    <2>4. TypeInv'
      BY <1>1, <2>3, <2>8 DEF Submitted
    <2>7. KnownInv'
      BY <1>1, <2>3 DEF Submitted
    <2>5. TurnInv'
      BY <1>1, <2>3 DEF Submitted, NoSubmit
    <2>6. HeardInv' /\ ChainInv'
      BY <1>1, <2>3 DEF Submitted
    <2> QED
      BY <2>1, <2>4, <2>5, <2>6, <2>7
  <1>2. CASE MayStart /\ status' = [status EXCEPT ![Next1] = "RUNNING"]
    <2>1. JobsInv'
      BY <1>2, Creates
    <2>2. /\ Next1 \in Job /\ status[Next1] = "new" /\ status'[Next1] = "RUNNING"
          /\ \A j \in Job : status[j] # "new" => j < Next1
          /\ \A j \in Job : j # Next1 => status'[j] = status[j]
          /\ status' \in [Job -> States]
      BY <1>2, NextIsNew
    <2> HIDE DEF Next1
    <2>3. /\ UNCHANGED <<active, shown, resume, chain, cancel, race>>
          /\ submit' = submit \/ (submit.at = "sent" /\ submit' = [at |-> "created", job |-> Next1])
      BY <1>1, <2>2 DEF OtherPageStarts, Submitted
    <2>4. TypeInv'
      BY <2>2, <2>3
    <2>5. KnownInv'
      BY <2>2, <2>3
    <2>6. TurnInv'
      BY <2>3 DEF NoSubmit
    <2>7. HeardInv' /\ ChainInv'
      BY <2>2, <2>3
    <2> QED
      BY <2>1, <2>4, <2>5, <2>6, <2>7
  <1> QED
    BY <1>1, <1>2 DEF OtherPageStarts, Submitted

\* What the jobs the service knows may become: none is created, none begins again.
Aged ==
    /\ status' \in [Job -> States]
    /\ \A j \in Job : status'[j] = "new" <=> status[j] = "new"
    /\ \A j \in Job : status[j] \notin Active => status'[j] \notin Active

\* What a job does, and a stop or a crash of the service to all of them.
LEMMA ServiceStep ==
    ASSUME Inv, (\E j \in Job : JobMoves(j)) \/ Crash \/ Stop
    PROVE  Inv'
  <1>1. Aged
    <2>1. ASSUME NEW j \in Job, JobMoves(j) PROVE Aged
      BY <2>1 DEF JobMoves, Aged
    <2>2. CASE Crash
      BY <2>2 DEF Crash, Aged
    <2>3. CASE Stop
      BY <2>3 DEF Stop, Aged
    <2> QED
      BY <2>1, <2>2, <2>3
  <1>2. UNCHANGED <<active, shown, submit, resume, chain, cancel, race>>
    BY DEF JobMoves, Crash, Stop
  <1>3. JobsInv'
    BY <1>1, Keeps DEF Aged
  <1> QED
    BY <1>1, <1>2, <1>3 DEF Aged

\* execute, up to the answer.
LEMMA PressStep ==
    ASSUME Inv, Press \/ Rejected
    PROVE  Inv'
  <1>1. JobsInv'
    BY Keeps DEF Press, Rejected
  <1> QED
    BY <1>1 DEF Press, PressedIn, Rejected, NoSubmit

\* The answer of execute: the page turns to the new job.
LEMMA AcceptedStep ==
    ASSUME Inv, Accepted
    PROVE  Inv'
  <1>1. JobsInv'
    BY Keeps DEF Accepted
  <1>2. /\ submit.job \in Job /\ status[submit.job] # "new"
        /\ race # "both" => active = None /\ \A c \in 0..MaxJobs : chain[c].at = "none"
    BY DEF Accepted, NoSubmit
  <1>3. /\ \A c \in 0..MaxJobs : c # submit.job => chain'[c] = chain[c]
        /\ chain'[submit.job] = [at |-> "waits", job |-> submit.job, told |-> None]
        /\ chain' \in [0..MaxJobs -> [at : {"none", "waits", "asked", "told", "ends"},
                                      job : Job \cup {None}, told : States \cup {None}]]
    BY <1>2 DEF Accepted, Waiting
  <1>4. TypeInv' /\ KnownInv' /\ TurnInv'
    BY <1>2, <1>3 DEF Accepted, NoSubmit
  <1>5. HeardInv' /\ ChainInv'
    BY <1>2, <1>3 DEF Accepted
  <1> QED
    BY <1>1, <1>4, <1>5

\* resumeActiveJob, up to the answer.
LEMMA ResumeStep ==
    ASSUME Inv, ResumeAsks \/ ResumeServed \/ ResumeFails
    PROVE  Inv'
  <1>1. JobsInv'
    BY Keeps DEF ResumeAsks, ResumeServed, ResumeFails
  <1>2. /\ UNCHANGED <<status, active, shown, submit, chain, cancel, race>>
        /\ resume' \in [at : {"loads", "sent", "told", "done"}, job : Job \cup {None},
                        status : States \cup {None}]
        /\ resume.at # "done"
        /\ resume'.at # "done" => active = None \/ resume.at = "sent"
        /\ resume'.at = "told" =>
             resume'.job \in Job /\ status[resume'.job] # "new" /\ resume'.status \in Active
    BY DEF ResumeAsks, ResumeServed, ResumeFails, Current
  <1>3. TypeInv' /\ KnownInv'
    BY <1>2
  <1>4. TurnInv' /\ HeardInv' /\ ChainInv'
    BY <1>2
  <1> QED
    BY <1>1, <1>3, <1>4

\* The answer of resumeActiveJob: the page turns to the job that runs.
LEMMA ResumedStep ==
    ASSUME Inv, Resumed
    PROVE  Inv'
  <1>1. JobsInv'
    BY Keeps DEF Resumed
  <1>2. CASE active # None
    BY <1>1, <1>2 DEF Resumed, Loads
  <1>3. CASE active = None
    <2>1. /\ resume.job \in Job /\ status[resume.job] # "new" /\ resume.status \in Active
          /\ race = "none" => submit = NoSubmit /\ \A c \in 0..MaxJobs : chain[c].at = "none"
      BY <1>3 DEF Resumed
    <2>2. /\ \A c \in 0..MaxJobs : c # 0 => chain'[c] = chain[c]
          /\ chain'[0] = [at |-> "waits", job |-> resume.job, told |-> None]
          /\ chain' \in [0..MaxJobs -> [at : {"none", "waits", "asked", "told", "ends"},
                                        job : Job \cup {None}, told : States \cup {None}]]
      BY <1>3, <2>1 DEF Resumed, Waiting
    <2>3. /\ active' = resume.job /\ shown' = [job |-> resume.job, status |-> resume.status]
          /\ race' = IF race = "none" THEN "none" ELSE "both"
          /\ resume'.at = "done" /\ UNCHANGED <<status, submit, cancel>>
          /\ resume' \in [at : {"loads", "sent", "told", "done"}, job : Job \cup {None},
                          status : States \cup {None}]
      BY <1>3 DEF Resumed, TakenUp, Loads
    <2>4. KnownInv'
      BY <2>1, <2>2, <2>3 DEF NoSubmit
    <2>8. TypeInv'
      <3>1. shown' \in [job : 0..MaxJobs, status : States] /\ active' \in Job
        BY <2>1, <2>3
      <3>2. race' \in {"none", "pressed", "both"} /\ TypeInv
        BY <2>3
      <3> HIDE DEF Inv, KnownInv, TurnInv, HeardInv, ChainInv, States, Active, Job
      <3> QED
        BY <2>2, <2>3, <3>1, <3>2
    <2>5. TurnInv'
      BY <2>1, <2>3
    <2>6. HeardInv'
      BY <2>1, <2>2, <2>3
    <2>7. ChainInv'
      <3>1. 0 \in 0..MaxJobs /\ chain'[0].at # "none" /\ chain'[0].job = active' /\ active' # None
        BY <2>1, <2>2, <2>3
      <3>2. race' # "both" => \A c \in 0..MaxJobs : chain'[c].at # "none" => c = 0
        BY <2>1, <2>2, <2>3
      <3> HIDE DEF Inv, TypeInv, KnownInv, TurnInv, HeardInv, States, Active
      <3> QED
        BY <3>1, <3>2
    <2> QED
      BY <1>1, <2>4, <2>5, <2>6, <2>7, <2>8
  <1> QED
    BY <1>2, <1>3

\* What a chain about j may be while it goes on.
Polled(j) ==
    {s \in [at : {"waits", "asked", "told", "ends"}, job : {j}, told : States \cup {None}] :
       /\ s.at = "told" => s.told \in States
       /\ s.at = "ends" \/ (s.at = "told" /\ s.told \notin Active \cup {"gone"})
            => status[j] \notin Active}

\* pollJob: the timer, the request and its answer.  The chain goes on, or ends
\* because its job is not the followed one.
LEMMA PollStep ==
    ASSUME NEW c \in 0..MaxJobs, Inv,
           PollAsks(c) \/ PollServed(c) \/ PollLost(c) \/ PollAnswered(c)
    PROVE  Inv'
  <1> DEFINE j == chain[c].job
  <1>1. JobsInv'
    BY Keeps DEF PollAsks, PollServed, PollLost, PollAnswered
  <1>2. /\ chain[c].at # "none" /\ j \in Job /\ status[j] # "new"
        /\ UNCHANGED <<status, active, submit, resume, cancel, race>>
    BY DEF PollAsks, PollServed, PollLost, PollAnswered
  <1>3. /\ chain' = [chain EXCEPT ![c] = chain'[c]]
        /\ chain'[c] \in Polled(j) \/ (chain'[c] = Unused /\ j # active)
    <2>1. chain[c] \in [at : {"none", "waits", "asked", "told", "ends"},
                       job : Job \cup {None}, told : States \cup {None}]
      OBVIOUS
    <2>2. CASE PollAsks(c)
      BY <1>2, <2>1, <2>2 DEF PollAsks, Followed, Dies, Polled
    <2>3. CASE PollServed(c)
      <3>1. chain' = [chain EXCEPT ![c] = [chain[c] EXCEPT !.at = "told", !.told = status[j]]]
        BY <1>2, <2>3 DEF PollServed
      <3>2. [chain[c] EXCEPT !.at = "told", !.told = status[j]]
              = [at |-> "told", job |-> j, told |-> status[j]]
        <4>1. TypeInv
          OBVIOUS
        <4> HIDE DEF Inv, TypeInv, KnownInv, TurnInv, HeardInv, ChainInv, States, Active
        <4> QED
          BY <1>2, <4>1, Told
      <3>3. [at |-> "told", job |-> j, told |-> status[j]] \in Polled(j)
        BY <1>2 DEF Polled
      <3> QED
        BY <3>1, <3>2, <3>3
    <2>4. CASE PollLost(c)
      <3>1. chain' = [chain EXCEPT ![c] = [chain[c] EXCEPT !.at = "told", !.told = "gone"]]
        BY <1>2, <2>4 DEF PollLost
      <3>2. [chain[c] EXCEPT !.at = "told", !.told = "gone"]
              = [at |-> "told", job |-> j, told |-> "gone"]
        <4>1. TypeInv
          OBVIOUS
        <4> HIDE DEF Inv, TypeInv, KnownInv, TurnInv, HeardInv, ChainInv, States, Active
        <4> QED
          BY <1>2, <4>1, Told
      <3>3. [at |-> "told", job |-> j, told |-> "gone"] \in Polled(j)
        BY <1>2 DEF Polled
      <3> QED
        BY <3>1, <3>2, <3>3
    <2>5. CASE PollAnswered(c)
      <3>1. chain[c].at = "told" /\ chain[c].told \in States
        BY <2>5 DEF PollAnswered
      <3>2. CASE ~Followed(j)
        BY <1>2, <2>5, <3>2 DEF PollAnswered, Followed, Dies
      <3>3. CASE Followed(j) /\ chain[c].told = "gone"
        BY <1>2, <2>5, <3>3 DEF PollAnswered, Retries, Waiting, Polled
      <3>4. CASE Followed(j) /\ chain[c].told # "gone"
        BY <1>2, <2>1, <2>5, <3>1, <3>4 DEF PollAnswered, StillActive, Waiting, Polled
      <3> QED
        BY <3>2, <3>3, <3>4
    <2> QED
      BY <2>2, <2>3, <2>4, <2>5
  <1>4. /\ shown' \in [job : 0..MaxJobs, status : States]
        /\ shown' # shown => active \in Job /\ shown'.job = active
    <2>1. CASE PollAnswered(c)
      <3>1. chain[c].told \in States
        BY <2>1 DEF PollAnswered
      <3> QED
        BY <2>1, <1>2, <3>1 DEF PollAnswered, Followed
    <2>2. CASE shown' = shown
      BY <2>2, <1>2
    <2> QED
      BY <2>1, <2>2 DEF PollAsks, PollServed, PollLost
  <1>5. \A d \in 0..MaxJobs \ {c} : chain'[d] = chain[d]
    BY <1>3
  <1>6. chain'[c].at # "none" =>
          /\ chain'[c].job = j
          /\ chain'[c].at = "told" => chain'[c].told \in States
          /\ chain'[c].at = "ends"
               \/ (chain'[c].at = "told" /\ chain'[c].told \notin Active \cup {"gone"})
               => status[j] \notin Active
    BY <1>3 DEF Polled, Unused
  <1>7. TypeInv'
    <2>1. chain'[c] \in [at : {"none", "waits", "asked", "told", "ends"},
                        job : Job \cup {None}, told : States \cup {None}]
      BY <1>2, <1>3 DEF Polled, Unused
    <2>2. chain' \in [0..MaxJobs -> [at : {"none", "waits", "asked", "told", "ends"},
                                    job : Job \cup {None}, told : States \cup {None}]]
      BY <1>3, <2>1
    <2> QED
      BY <1>2, <1>4, <2>2
  <1>8. KnownInv'
    BY <1>2, <1>4
  <1>9. TurnInv'
    <2>1. race = "none" /\ resume.at # "done" => shown' = shown
      BY <1>2, <1>4
    <2> QED
      BY <1>2, <2>1
  <1> HIDE DEF j
  <1>10. HeardInv'
    BY <1>2, <1>5, <1>6
  <1>11. ChainInv'
    <2>1. chain'[c].at # "none" \/ j # active
      BY <1>3 DEF Polled
    <2>2. active # None => \E d \in 0..MaxJobs : chain'[d].at # "none" /\ chain'[d].job = active
      <3>1. CASE j = active
        BY <1>6, <2>1, <3>1
      <3>2. CASE j # active
        BY <1>5, <3>2 DEF j
      <3> QED
        BY <3>1, <3>2
    <2>3. \A d \in 0..MaxJobs : chain'[d].at # "none" =>
            chain[d].at # "none" /\ chain'[d].job = chain[d].job
      BY <1>2, <1>5, <1>6 DEF j
    <2> HIDE DEF Inv, TypeInv, KnownInv, TurnInv, HeardInv, States, Active
    <2>4. ChainInv
      BY DEF Inv
    <2> QED
      BY <1>2, <2>2, <2>3, <2>4
  <1> QED
    BY <1>1, <1>7, <1>8, <1>9, <1>10, <1>11

\* pollJob's finally: the page lets go of its job; without a race no chain is left.
LEMMA PollEndsStep ==
    ASSUME NEW c \in 0..MaxJobs, Inv, PollEnds(c)
    PROVE  Inv'
  <1>1. JobsInv'
    BY Keeps DEF PollEnds
  <1>2. /\ chain[c].at # "none" /\ active' = None /\ chain'[c] = Unused
        /\ \A d \in 0..MaxJobs \ {c} : chain'[d] = chain[d]
        /\ race # "both" => active # None /\ \A d \in 0..MaxJobs \ {c} : chain[d].at = "none"
        /\ UNCHANGED <<service, shown, submit, resume, cancel, race>>
    BY DEF PollEnds, Dies
  <1>3. TypeInv'
    <2>1. Unused \in [at : {"none", "waits", "asked", "told", "ends"},
                      job : Job \cup {None}, told : States \cup {None}]
      BY DEF Unused
    <2>2. chain' = [chain EXCEPT ![c] = Unused]
      BY DEF PollEnds, Dies
    <2> HIDE DEF KnownInv, TurnInv, HeardInv, ChainInv, States, Active, Job, JobsInv
    <2>3. chain' \in [0..MaxJobs -> [at : {"none", "waits", "asked", "told", "ends"},
                                    job : Job \cup {None}, told : States \cup {None}]]
      BY <2>1, <2>2
    <2>4. /\ status' = status /\ shown' = shown /\ submit' = submit
          /\ resume' = resume /\ cancel' = cancel /\ race' = race /\ active' = None
      BY <1>2
    <2> HIDE DEF Inv
    <2>5. TypeInv
      BY DEF Inv
    <2> QED
      BY <2>3, <2>4, <2>5
  <1>4. KnownInv' /\ TurnInv'
    BY <1>2
  <1>5. status' = status /\ Unused.at = "none"
    BY <1>2 DEF Unused
  <1>6. HeardInv'
    <2> HIDE DEF TypeInv, JobsInv, KnownInv, TurnInv, ChainInv, States, Active, Job
    <2> QED
      BY <1>2, <1>5
  <1>7. ChainInv'
    <2>1. race' = race /\ active' = None
      BY <1>2
    <2> HIDE DEF Inv, TypeInv, JobsInv, KnownInv, TurnInv, HeardInv, States, Active, Job
    <2> QED
      BY <1>2, <1>5, <2>1
  <1> QED
    BY <1>1, <1>3, <1>4, <1>6, <1>7

\* cancelActiveJob.
LEMMA CancelStep ==
    ASSUME Inv, CancelAsks \/ CancelServed \/ CancelAnswered
    PROVE  Inv'
  <1>1. Aged
    <2>1. CASE CancelServed
      <3>1. cancel.job \in Job
        BY <2>1 DEF CancelServed
      <3> QED
        BY <2>1, <3>1 DEF CancelServed, Aged
    <2>2. CASE UNCHANGED status
      BY <2>2 DEF Aged
    <2> QED
      BY <2>1, <2>2 DEF CancelAsks, CancelAnswered
  <1>2. JobsInv'
    BY <1>1, Keeps DEF Aged
  <1>3. UNCHANGED <<active, submit, resume, chain, race>>
    BY DEF CancelAsks, CancelServed, CancelAnswered
  <1>4. /\ cancel' \in [at : {"idle", "sent", "told"}, job : Job \cup {None},
                        told : States \cup {None}]
        /\ cancel'.at # "idle" => cancel'.job \in Job /\ status'[cancel'.job] # "new"
        /\ cancel'.at = "told" => cancel'.told \in States
    <2>1. CASE CancelAsks
      BY <2>1 DEF CancelAsks
    <2>2. CASE CancelServed
      <3>1. cancel.job \in Job /\ status'[cancel.job] # "new"
        BY <2>2, <1>1 DEF CancelServed, Aged
      <3>2. cancel' \in {[cancel EXCEPT !.at = "told", !.told = "CANCELLING"],
                        [cancel EXCEPT !.at = "told", !.told = "gone"]}
        BY <2>2 DEF CancelServed
      <3>3. /\ cancel \in [at : {"idle", "sent", "told"}, job : Job \cup {None},
                           told : States \cup {None}]
            /\ "CANCELLING" \in States /\ "gone" \in States
        OBVIOUS
      <3> HIDE DEF Inv, TypeInv, KnownInv, TurnInv, HeardInv, ChainInv, States, Active, Job
      <3> QED
        BY <3>1, <3>2, <3>3
    <2>3. CASE CancelAnswered
      BY <2>3 DEF CancelAnswered, NoCancel
    <2> QED
      BY <2>1, <2>2, <2>3
  <1>5. /\ shown' \in [job : 0..MaxJobs, status : States]
        /\ shown' # shown => active \in Job /\ shown'.job = active
    <2>1. CASE shown' = shown
      BY <2>1
    <2>2. CASE shown' # shown
      BY <2>2 DEF CancelAsks, CancelServed, CancelAnswered, Followed
    <2> QED
      BY <2>1, <2>2
  <1>6. TypeInv'
    BY <1>1, <1>3, <1>4, <1>5 DEF Aged
  <1>7. KnownInv'
    <2>1. shown'.job = shown.job
      BY <1>5
    <2> QED
      BY <1>1, <1>3, <1>4, <2>1 DEF Aged
  <1>8. TurnInv'
    BY <1>3, <1>5
  <1>9. HeardInv' /\ ChainInv'
    BY <1>1, <1>3 DEF Aged
  <1> QED
    BY <1>2, <1>6, <1>7, <1>8, <1>9

\* A reload forgets everything the page was doing.
LEMMA ReloadStep ==
    ASSUME Inv, Reload
    PROVE  Inv'
  <1>1. JobsInv'
    BY Keeps DEF Reload
  <1> QED
    BY <1>1 DEF Reload, NoJob, NoSubmit, Loads, NoChain, Unused, NoCancel

\* Every step of the page and of the service keeps the invariant.
LEMMA NextInv == Inv /\ [Next]_vars => Inv'
  <1>1. ASSUME Inv, UNCHANGED vars PROVE Inv'
    <2>1. JobsInv'
      BY <1>1, Keeps DEF vars
    <2> QED
      BY <1>1, <2>1 DEF vars
  <1> QED
    BY <1>1, StartsStep, ServiceStep, PressStep, AcceptedStep, ResumeStep, ResumedStep, PollStep,
       PollEndsStep, CancelStep, ReloadStep DEF Next, Poll

HIDE DEF Inv, TypeInv, KnownInv, TurnInv, HeardInv, ChainInv

--------------------------------------------------------------------------------
(* execute, resumeActiveJob and pollJob together: the invariant holds in every state. *)
THEOREM InvHolds == Spec => []Inv
  <1>1. Inv /\ [Next]_vars => Inv'
    BY NextInv
  <1> QED
    BY <1>1, InitInv, PTL DEF Spec

(* pollJob and its callers: the followed job is polled whatever was pressed when, and *)
(* by one chain alone unless jobs were taken up both ways.                            *)
THEOREM FollowedKeepsPolled == Spec => []FollowedIsPolled
  <1>1. ASSUME Inv PROVE FollowedIsPolled
    <2>1. active # None => \E c \in Polling : chain[c].job = active
      BY <1>1 DEF Polling, Inv, ChainInv
    <2>2. ASSUME race # "both", active = None PROVE Cardinality(Polling) = 0
      <3>1. Polling = {}
        BY <1>1, <2>2 DEF Polling, Inv, ChainInv
      <3> QED
        BY <3>1, FS_EmptySet
    <2>3. ASSUME race # "both", active # None PROVE Cardinality(Polling) = 1
      <3>1. PICK c \in 0..MaxJobs : chain[c].at # "none"
        BY <1>1, <2>3 DEF Inv, ChainInv
      <3>2. Polling = {c}
        BY <1>1, <2>3, <3>1 DEF Polling, Inv, ChainInv
      <3> QED
        BY <3>2, FS_Singleton
    <2> QED
      BY <2>1, <2>2, <2>3 DEF FollowedIsPolled
  <1> QED
    BY <1>1, InvHolds, PTL

(* pollJob's finally: unless jobs were taken up both ways, the page lets go of a job  *)
(* only when it is over.                                                              *)
THEOREM HeldUntilOver == Spec => ReleasedIsOver
  <1>1. ASSUME Inv, [Next]_vars, LetsGo, race # "both"
        PROVE  status[active] \notin Active
    <2>1. CASE \E c \in 0..MaxJobs : PollEnds(c)
      <3>1. PICK c \in 0..MaxJobs : PollEnds(c)
        BY <2>1
      <3>2. chain[c].at = "ends"
        BY <3>1 DEF PollEnds
      <3>3. chain[c].job = active
        BY <1>1, <3>2 DEF Inv, ChainInv
      <3> QED
        BY <1>1, <3>2, <3>3 DEF Inv, HeardInv
    <2>2. CASE Reload
      BY <2>2, <1>1 DEF Reload, LetsGo, Reloaded, Loads
    <2>3. CASE Accepted \/ Resumed
      BY <2>3, <1>1, PageAssumption DEF Accepted, Resumed, LetsGo, Inv, KnownInv, Job
    <2>4. CASE UNCHANGED active
      BY <2>4, <1>1 DEF LetsGo
    <2> QED
      BY <1>1, <2>1, <2>2, <2>3, <2>4
         DEF Next, Poll, OtherPageStarts, JobMoves, Crash, Stop, Press, Submitted, Rejected,
             ResumeAsks, ResumeServed, ResumeFails, PollAsks, PollServed, PollLost, PollAnswered,
             CancelAsks, CancelServed, CancelAnswered, vars
  <1>2. Inv /\ [Next]_vars
          => [LetsGo => status[active] \notin Active \/ race = "both"]_vars
    BY <1>1
  <1> QED
    BY <1>2, InvHolds, PTL DEF Spec, ReleasedIsOver

(* execute, resumeActiveJob, pollJob, cancelActiveJob: only the followed job is shown *)
(* anew, and no late answer turns the page back unless jobs were taken up both ways.  *)
THEOREM NeverTurnsBack == Spec => NewestShown
  <1> DEFINE Shows ==
        /\ shown' # shown => shown'.job = active' \/ Reloaded
        /\ shown'.job >= shown.job \/ Reloaded \/ race' = "both"
  <1>1. ASSUME Inv, [Next]_vars PROVE Shows
    <2>1. shown.job \in 0..MaxJobs
      BY <1>1 DEF Inv, TypeInv
    <2>2. CASE Accepted
      BY <2>1, <2>2, <1>1, PageAssumption DEF Accepted, Inv, KnownInv, Job
    <2>3. CASE Resumed
      <3>1. CASE active # None
        BY <2>1, <2>3, <3>1 DEF Resumed
      <3>2. CASE active = None
        <4>1. /\ resume.job \in Job /\ shown'.job = resume.job /\ active' = resume.job
              /\ race = "none" => shown.job = 0
              /\ race' = TakenUp
          BY <2>3, <3>2, <1>1 DEF Resumed, Inv, TurnInv, KnownInv, NoJob
        <4> QED
          BY <4>1, PageAssumption DEF TakenUp, Job
      <3> QED
        BY <3>1, <3>2
    <2>4. CASE \E c \in 0..MaxJobs : PollAnswered(c)
      <3>1. PICK c \in 0..MaxJobs : PollAnswered(c)
        BY <2>4
      <3>2. chain[c].job = active => active # None
        BY <3>1, <1>1, PageAssumption DEF PollAnswered, Inv, HeardInv, Job
      <3>3. shown' # shown => active # None /\ shown'.job = active /\ active' = active
        BY <3>1, <3>2 DEF PollAnswered, Followed
      <3>4. active # None => shown.job = active
        BY <1>1 DEF Inv, KnownInv
      <3> QED
        BY <2>1, <3>3, <3>4
    <2>5. CASE CancelAnswered
      <3>1. shown' # shown => active # None /\ shown'.job = active /\ active' = active
        BY <2>5, <1>1, PageAssumption DEF CancelAnswered, Followed, Inv, KnownInv, Job
      <3>2. active # None => shown.job = active
        BY <1>1 DEF Inv, KnownInv
      <3> QED
        BY <2>1, <3>1, <3>2
    <2>6. CASE Reload
      BY <2>6 DEF Reload, Reloaded, Loads
    <2>7. CASE UNCHANGED shown
      BY <2>1, <2>7
    <2> QED
      BY <1>1, <2>2, <2>3, <2>4, <2>5, <2>6, <2>7
         DEF Next, Poll, OtherPageStarts, JobMoves, Crash, Stop, Press, Submitted, Rejected,
             ResumeAsks, ResumeServed, ResumeFails, PollAsks, PollServed, PollLost, PollEnds,
             CancelAsks, CancelServed, vars
  <1>2. Inv /\ [Next]_vars => [Shows]_vars
    BY <1>1
  <1> QED
    BY <1>2, InvHolds, PTL DEF Spec, NewestShown
================================================================================
