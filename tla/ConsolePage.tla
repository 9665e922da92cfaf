----------------------------- MODULE ConsolePage -----------------------------
(***************************************************************************)
(* Which job the console page follows (public/app.js): it submits a job,   *)
(* takes up the running one after a reload, polls it every second and      *)
(* cancels it, while answers are lost or late and the service stops, dies  *)
(* or restarts under it (server.js).  Rendering is left out: `shown` is    *)
(* the job, and whether it ran, in the last renderJob.                     *)
(***************************************************************************)
EXTENDS Naturals, FiniteSets

CONSTANTS MaxJobs,    \* bound: jobs the server ever creates
          MaxStops,   \* bound: stops, crashes and restarts of the service
          None

ASSUME PageAssumption == MaxJobs \in Nat \ {0} /\ MaxStops \in Nat /\ None \notin Nat

Job == 1..MaxJobs

(* Only the newest job may be active; "gone" is one the service forgot.    *)
Active == {"RUNNING", "CANCELLING", "RECOVERING"}

VARIABLES
    status,     \* the service: status of each job, "new" before it exists
    stops,      \* stops, crashes and restarts so far
    active,     \* activeJobId, or None
    shown,      \* job and status last given to renderJob
    submit,     \* execute(): "idle", "sent", "refused", or "created" and the job
    resume,     \* resumeActiveJob(): "loads", "sent", the answer, "done"
    chain,      \* polling chains: one per submitted job, 0 for the resumed one
    cancel,     \* cancelActiveJob(): the job asked for and the answer
    race        \* history, read by no step: the button and the resume, see below

vars == <<status, stops, active, shown, submit, resume, chain, cancel, race>>
service == <<status, stops>>

(* A polling chain waits for its timer, has asked, has an answer, or ends. *)
Unused == [at |-> "none", job |-> None, told |-> None]
Waiting(j) == [at |-> "waits", job |-> j, told |-> None]

NoJob == [job |-> 0, status |-> "new"]
NoSubmit == [at |-> "idle", job |-> None]
Loads == [at |-> "loads", job |-> None, status |-> None]
NoChain == [c \in 0..MaxJobs |-> Unused]
NoCancel == [at |-> "idle", job |-> None, told |-> None]

Init ==
    /\ status = [j \in Job |-> "new"] /\ stops = 0
    /\ active = None /\ shown = NoJob
    /\ submit = NoSubmit /\ resume = Loads /\ chain = NoChain /\ cancel = NoCancel
    /\ race = "none"

(* The button works while loadConfig and the resume are still under way.    *)
(* Since the last reload it was not pressed so early ("none"), it was       *)
(* ("pressed"), or it was and the resume has taken up a job all the same    *)
(* ("both"): then the page may follow one job twice, or turn between two.   *)
PressedIn(at) == IF at = "done" THEN race ELSE "pressed"
TakenUp == IF race = "none" THEN "none" ELSE "both"

------------------------------------------------------------------------------
(* The service, as far as the page can see it. *)

Current == {j \in Job : status[j] \in Active}
Created == {j \in Job : status[j] # "new"}
Next1 == Cardinality(Created) + 1

(* createExecutionJob refuses while a job is active. *)
MayStart == Current = {} /\ Next1 \in Job

OtherPageStarts ==
    /\ MayStart
    /\ status' = [status EXCEPT ![Next1] = "RUNNING"]
    /\ UNCHANGED <<stops, active, shown, submit, resume, chain, cancel, race>>

(* It recovers, ends, or a late report calls a cancelled job running again. *)
JobMoves(j) ==
    /\ status[j] \in Active
    /\ \/ status' = [status EXCEPT ![j] = "ENDED"]
       \/ status[j] # "RECOVERING" /\ status' = [status EXCEPT ![j] = "RECOVERING"]
       \/ status[j] = "CANCELLING" /\ status' = [status EXCEPT ![j] = "RUNNING"]
    /\ UNCHANGED <<stops, active, shown, submit, resume, chain, cancel, race>>

(* A crash leaves the active job in the store and loadStoredJobs keeps it   *)
(* as interrupted; the jobs that had ended are forgotten.                   *)
Crash ==
    /\ stops < MaxStops
    /\ stops' = stops + 1
    /\ status' = [j \in Job |-> CASE status[j] \in Active -> "ENDED"
                                  [] status[j] = "new" -> "new"
                                  [] OTHER -> "gone"]
    /\ UNCHANGED <<active, shown, submit, resume, chain, cancel, race>>

(* A signal marks the job interrupted, so persistJobs drops it; a restart   *)
(* for a new version finds none active.  Either forgets every job.          *)
Stop ==
    /\ stops < MaxStops
    /\ stops' = stops + 1
    /\ status' = [j \in Job |-> IF status[j] = "new" THEN "new" ELSE "gone"]
    /\ UNCHANGED <<active, shown, submit, resume, chain, cancel, race>>

------------------------------------------------------------------------------
(* execute(). *)

Press ==
    /\ submit = NoSubmit
    /\ active = None
    /\ submit' = [submit EXCEPT !.at = "sent"]
    /\ race' = PressedIn(resume.at)
    /\ UNCHANGED <<service, active, shown, resume, chain, cancel>>

Submitted ==
    /\ submit.at = "sent"
    /\ \/ MayStart /\ status' = [status EXCEPT ![Next1] = "RUNNING"]
                   /\ submit' = [at |-> "created", job |-> Next1]
       \/ submit' = [submit EXCEPT !.at = "refused"] /\ UNCHANGED status
    /\ UNCHANGED <<stops, active, shown, resume, chain, cancel, race>>

Accepted ==
    /\ submit.at = "created"
    /\ submit' = NoSubmit
    /\ active' = submit.job
    /\ shown' = [job |-> submit.job, status |-> "RUNNING"]
    /\ chain' = [chain EXCEPT ![submit.job] = Waiting(submit.job)]
    /\ UNCHANGED <<service, resume, cancel, race>>

Rejected ==
    /\ submit.at = "refused"
    /\ submit' = NoSubmit
    /\ UNCHANGED <<service, active, shown, resume, chain, cancel, race>>

------------------------------------------------------------------------------
(* resumeActiveJob(), after loadConfig has settled. *)

ResumeAsks ==
    /\ resume.at = "loads"
    /\ resume' = [resume EXCEPT !.at = IF active # None THEN "done" ELSE "sent"]
    /\ UNCHANGED <<service, active, shown, submit, chain, cancel, race>>

ResumeServed ==
    /\ resume.at = "sent"
    /\ \/ \E j \in Current : resume' = [at |-> "told", job |-> j, status |-> status[j]]
       \/ Current = {} /\ resume' = [resume EXCEPT !.at = "done"]
    /\ UNCHANGED <<service, active, shown, submit, chain, cancel, race>>

(* A failed read leaves the page without a job until the next reload. *)
ResumeFails ==
    /\ resume.at = "sent"
    /\ resume' = [resume EXCEPT !.at = "done"]
    /\ UNCHANGED <<service, active, shown, submit, chain, cancel, race>>

Resumed ==
    /\ resume.at = "told"
    /\ resume' = [Loads EXCEPT !.at = "done"]
    /\ IF active # None
       THEN UNCHANGED <<active, shown, chain, race>>
       ELSE /\ active' = resume.job
            /\ shown' = [job |-> resume.job, status |-> resume.status]
            /\ chain' = [chain EXCEPT ![0] = Waiting(resume.job)]
            /\ race' = TakenUp
    /\ UNCHANGED <<service, submit, cancel>>

------------------------------------------------------------------------------
(* pollJob(). *)

(* SlipFollowed: the answer is taken whatever job the page follows now. *)
SlipFollowed(j) == TRUE
Followed(j) == j = active

(* SlipStillActive: a job that recovers is taken for ended. *)
SlipStillActive(s) == s \in {"RUNNING", "CANCELLING"}
StillActive(s) == s \in Active

Dies(c) == chain' = [chain EXCEPT ![c] = Unused]

PollAsks(c) ==
    /\ chain[c].at = "waits"
    /\ IF Followed(chain[c].job)
       THEN chain' = [chain EXCEPT ![c].at = "asked"]
       ELSE Dies(c)
    /\ UNCHANGED <<service, active, shown, submit, resume, cancel, race>>

PollServed(c) ==
    /\ chain[c].at = "asked"
    /\ chain' = [chain EXCEPT ![c].at = "told", ![c].told = status[chain[c].job]]
    /\ UNCHANGED <<service, active, shown, submit, resume, cancel, race>>

(* The request fails: the service is down, or the answer is lost. *)
PollLost(c) ==
    /\ chain[c].at = "asked"
    /\ chain' = [chain EXCEPT ![c].at = "told", ![c].told = "gone"]
    /\ UNCHANGED <<service, active, shown, submit, resume, cancel, race>>

(* SlipRetries: a failed read is reported and the chain is left there. *)
SlipRetries(c) == Unused
Retries(c) == Waiting(chain[c].job)

PollAnswered(c) ==
    /\ chain[c].at = "told"
    /\ LET j == chain[c].job  s == chain[c].told IN
        IF ~Followed(j) THEN Dies(c) /\ UNCHANGED shown
        ELSE IF s = "gone"
        THEN chain' = [chain EXCEPT ![c] = Retries(c)] /\ UNCHANGED shown
        ELSE /\ shown' = [job |-> j, status |-> s]
             /\ chain' = [chain EXCEPT ![c] = IF StillActive(s) THEN Waiting(j)
                                              ELSE [@ EXCEPT !.at = "ends"]]
    /\ UNCHANGED <<service, active, submit, resume, cancel, race>>

(* The history and the production image are read, or fail, and finally ... *)
PollEnds(c) ==
    /\ chain[c].at = "ends"
    /\ active' = None
    /\ Dies(c)
    /\ UNCHANGED <<service, shown, submit, resume, cancel, race>>

------------------------------------------------------------------------------
(* cancelActiveJob(), and a reload, which drops every answer on its way. *)

CancelAsks ==
    /\ active # None
    /\ cancel.at = "idle"
    /\ shown.status \in {"RUNNING", "CANCELLING"}
    /\ cancel' = [at |-> "sent", job |-> active, told |-> None]
    /\ UNCHANGED <<service, active, shown, submit, resume, chain, race>>

CancelServed ==
    /\ cancel.at = "sent"
    /\ IF status[cancel.job] = "RUNNING"
       THEN /\ status' = [status EXCEPT ![cancel.job] = "CANCELLING"]
            /\ cancel' = [cancel EXCEPT !.at = "told", !.told = "CANCELLING"]
       ELSE /\ cancel' = [cancel EXCEPT !.at = "told", !.told = "gone"]
            /\ UNCHANGED status
    /\ UNCHANGED <<stops, active, shown, submit, resume, chain, race>>

CancelAnswered ==
    /\ cancel.at = "told"
    /\ cancel' = NoCancel
    /\ shown' = IF cancel.told # "gone" /\ Followed(cancel.job)
                THEN [job |-> cancel.job, status |-> cancel.told] ELSE shown
    /\ UNCHANGED <<service, active, submit, resume, chain, race>>

Reload ==
    /\ active' = None
    /\ shown' = NoJob
    /\ submit' = NoSubmit
    /\ resume' = Loads
    /\ chain' = NoChain
    /\ cancel' = NoCancel
    /\ race' = "none"
    /\ UNCHANGED service

------------------------------------------------------------------------------
Poll(c) == PollAsks(c) \/ PollServed(c) \/ PollLost(c) \/ PollAnswered(c) \/ PollEnds(c)

Next ==
    \/ OtherPageStarts \/ (\E j \in Job : JobMoves(j)) \/ Crash \/ Stop
    \/ Press \/ Submitted \/ Accepted \/ Rejected
    \/ ResumeAsks \/ ResumeServed \/ ResumeFails \/ Resumed
    \/ \E c \in 0..MaxJobs : Poll(c)
    \/ CancelAsks \/ CancelServed \/ CancelAnswered
    \/ Reload

Spec == Init /\ [][Next]_vars

(* Timers fire and every request is answered or fails; a request repeated   *)
(* for ever is not lost every time.  Nothing makes jobs end or users act.   *)
Fairness ==
    \A c \in 0..MaxJobs :
        /\ WF_vars(PollAsks(c))
        /\ WF_vars(PollServed(c) \/ PollLost(c)) /\ SF_vars(PollServed(c))
        /\ WF_vars(PollAnswered(c)) /\ WF_vars(PollEnds(c))

FairSpec == Spec /\ Fairness

------------------------------------------------------------------------------
(* pollJob and its callers: a followed job is polled, so that the page hears  *)
(* of its end; and by one chain alone, unless it was taken up both ways.     *)
Polling == {c \in 0..MaxJobs : chain[c].at # "none"}
FollowedIsPolled ==
    /\ active # None => \E c \in Polling : chain[c].job = active
    /\ race # "both" => Cardinality(Polling) = (IF active = None THEN 0 ELSE 1)

Reloaded == resume'.at = "loads" /\ shown' = NoJob

(* execute, resumeActiveJob, pollJob, cancelActiveJob: without a reload only  *)
(* the followed job is shown anew, however late an answer about another      *)
(* comes; and the page turns to newer jobs alone, unless both ways were taken. *)
NewestShown ==
    [][/\ shown' # shown => shown'.job = active' \/ Reloaded
       /\ shown'.job >= shown.job \/ Reloaded \/ race' = "both"]_vars

(* pollJob's finally: the page lets go of a job, and gives the button back,   *)
(* only when the job is over.  If both ways were taken, the chain that sees   *)
(* one job end lets go of the other, which goes on (app.js:1121).            *)
LetsGo == active # None /\ active' = None /\ ~Reloaded
ReleasedIsOver ==
    [][LetsGo => status[active] \notin Active \/ race = "both"]_vars

(* pollJob's retry: a followed job that has ended is shown as ended and the   *)
(* button is given back, unless the service forgets the job before.          *)
EndShown ==
    \A j \in Job : (active = j /\ status[j] = "ENDED") ~>
                       (active # j \/ status[j] = "gone")
==============================================================================
