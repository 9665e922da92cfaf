---------------------------- MODULE OutcomeStatus ----------------------------
(***************************************************************************)
(* What the page says of the deployed game, and of the verification made   *)
(* after its release, against what runs: the sampler on the host           *)
(* (scripts/read-game-runtime-status.py), the reader with its shared       *)
(* sample and its file (src/releaseOutcomeStatus.js, server.js), the panel *)
(* (public/app.js, public/release-status.js) and the supplemental          *)
(* verification (scripts/verify-game-supplemental.cjs).                    *)
(*                                                                         *)
(* Time passes in units of 60 s; the age of a sample is counted from its   *)
(* sampledAt.  Clocks agree.  A deployment is one container under one      *)
(* version of the service; its number grows with every change, its image   *)
(* may return (a rollback, a release of the same tag).                     *)
(***************************************************************************)
EXTENDS Naturals, Sequences

CONSTANTS MaxDeployments,  \* bound: deployments the host goes through
          MaxChecks,       \* checks of one verification
          MaxReceipts,     \* bound: verifications that finish
          None

ASSUME OutcomeAssumption ==
    /\ MaxDeployments \in Nat \ {0} /\ MaxChecks \in Nat \ {0}
    /\ MaxReceipts \in Nat /\ None \notin Nat

Image(d) == d % 2             \* every other update returns to an image

CacheFor == 1                 \* 60000 ms
CurrentFor == 2               \* 120 s
Cap == CurrentFor + 2         \* bound: older ages are one
Older(a) == IF a < Cap THEN a + 1 ELSE a

VARIABLES
    service,    \* the deployment that runs
    pending,    \* the sample all callers share, while it is taken
    file,       \* .runtime-status/game.json: None or a sample
    asked,      \* the request of the page that is under way, or None
    latest,     \* outcomeRequestId: is it still the one that counts?
    data,       \* outcomeData
    panel,      \* what the last render says
    due,        \* the render timer has still to fire in this unit
    verifier,   \* the supplemental verification that runs
    receipts    \* the files of those that have finished

reader == <<pending, file>>
page == <<asked, latest, data, panel, due>>
supplement == <<verifier, receipts>>
vars == <<service, reader, page, supplement>>

Blank == [current |-> FALSE, says |-> "none"]

Init ==
    /\ service = 1
    /\ pending = None /\ file = None
    /\ asked = None /\ latest = FALSE
    /\ data = None /\ panel = Blank /\ due = FALSE
    /\ verifier = None /\ receipts = <<>>

------------------------------------------------------------------------------
(* The host and the clock. *)

Redeploy ==
    /\ service < MaxDeployments
    /\ service' = service + 1
    /\ UNCHANGED <<reader, page, supplement>>

Aged(s) == IF s = None THEN None ELSE [s EXCEPT !.age = Older(@)]
AgedIn(r) == IF r = None THEN None ELSE [r EXCEPT !.sample = Aged(@)]

(* A unit passes when the 30 s render timer has fired in it, and no sampler *)
(* outlives its 25 s limit.                                                 *)
Tick ==
    /\ ~due
    /\ pending # None => pending.young
    /\ due' = (data # None)
    /\ file' = Aged(file)
    /\ pending' = IF pending = None THEN None
                  ELSE [AgedIn(pending) EXCEPT !.young = FALSE]
    /\ asked' = AgedIn(asked)
    /\ data' = AgedIn(data)
    /\ UNCHANGED <<service, latest, panel, supplement>>

------------------------------------------------------------------------------
(* readSupplemental: the newest receipt, and whether it is about the        *)
(* sampled deployment: its image, its version and its container.            *)

(* SlipMatches: the receipt is taken to match by its image alone. *)
SlipMatches(d, r) == Image(d) = Image(r.base)
Matches(d, r) == d = r.base

Freshness(s, error) ==
    IF error THEN "UNAVAILABLE" ELSE IF s = None THEN "UNKNOWN"
    ELSE IF s.age > CurrentFor THEN "STALE" ELSE "CURRENT"

Applies(s, fresh, r) ==
    CASE s = None -> "UNKNOWN"
      [] s # None /\ ~Matches(s.of, r) -> "DEPLOYMENT_CHANGED"
      [] OTHER -> IF fresh = "CURRENT" THEN "MATCHED" ELSE "UNKNOWN"

Answer(s, error) ==
    LET fresh == Freshness(s, error)
        record == IF receipts = <<>> THEN None ELSE receipts[Len(receipts)]
    IN [at |-> "answered", sample |-> s, freshness |-> fresh, record |-> record,
        applies |-> IF record = None THEN "none" ELSE Applies(s, fresh, record)]

Failed == [at |-> "failed", sample |-> None, freshness |-> "none",
           record |-> None, applies |-> "none"]

------------------------------------------------------------------------------
(* createOutcomeReader: the file for a minute, then one sample for all.     *)

Sampling == [at |-> "before", version |-> None, sample |-> None, young |-> TRUE]

Cached == file # None /\ file.age <= CacheFor

(* The history and the activity of the answer are left out.                 *)
Serve ==
    /\ asked # None /\ asked.at = "sent"
    /\ IF Cached
       THEN asked' = Answer(file, FALSE) /\ UNCHANGED pending
       ELSE /\ asked' = [asked EXCEPT !.at = "waits", !.sample = file]
            /\ pending' = IF pending = None THEN Sampling ELSE pending
    /\ UNCHANGED <<service, file, latest, data, panel, due, supplement>>

(* Another page asks. *)
OtherPageAsks ==
    /\ ~Cached /\ pending = None
    /\ pending' = Sampling
    /\ UNCHANGED <<service, file, page, supplement>>

(* read-game-runtime-status.py: the service, its container, the service.    *)
InspectBefore ==
    /\ pending # None /\ pending.at = "before"
    /\ pending' = [pending EXCEPT !.at = "containers", !.version = service]
    /\ UNCHANGED <<service, file, page, supplement>>

InspectContainers ==
    /\ pending # None /\ pending.at = "containers"
    /\ pending' = [pending EXCEPT !.at = "after", !.sample = [of |-> service, age |-> 0, slow |-> 0]]
    /\ UNCHANGED <<service, file, page, supplement>>

Unchanged == pending.version = service

(* sampledAt is taken here; slow counts the unit that has passed since the  *)
(* container was read.                                                      *)
InspectAfter ==
    /\ pending # None /\ pending.at = "after"
    /\ Unchanged
    /\ pending' = [pending EXCEPT !.at = "done", !.sample.age = 0,
                                       !.sample.slow = pending.sample.age]
    /\ UNCHANGED <<service, file, page, supplement>>

Waits == asked # None /\ asked.at = "waits"

(* The clean snapshot is renamed into place and every caller goes on.       *)
SampleLands ==
    /\ pending # None /\ pending.at = "done"
    /\ file' = pending.sample
    /\ pending' = None
    /\ asked' = IF Waits THEN Answer(pending.sample, FALSE) ELSE asked
    /\ UNCHANGED <<service, latest, data, panel, due, supplement>>

(* ssh fails, the service changed meanwhile, or 25 s have passed: callers   *)
(* get the old snapshot, as unavailable.                                    *)
SampleFails ==
    /\ pending # None
    /\ pending' = None
    /\ asked' = IF Waits THEN Answer(asked.sample, TRUE) ELSE asked
    /\ UNCHANGED <<service, file, latest, data, panel, due, supplement>>

(* The console's process stops and starts again; the file stays.            *)
Restart ==
    /\ pending' = None
    /\ asked' = IF asked = None THEN None ELSE Failed
    /\ asked' # asked \/ pending # None
    /\ UNCHANGED <<service, file, latest, data, panel, due, supplement>>

------------------------------------------------------------------------------
(* loadReleaseStatus and the render timer. *)

(* SlipStillCurrent: the freshness the server gave is kept. *)
SlipStillCurrent(d) == d.freshness = "CURRENT"
StillCurrent(d) == d.freshness = "CURRENT" /\ d.sample.age <= CurrentFor

Render(d) ==
    [current |-> StillCurrent(d),
     says |-> IF ~StillCurrent(d) /\ d.applies = "MATCHED" THEN "UNKNOWN" ELSE d.applies]

(* The next request waits for the last one to come back: bound.            *)
Ask ==
    /\ asked = None
    /\ asked' = [Failed EXCEPT !.at = "sent"]
    /\ latest' = TRUE
    /\ UNCHANGED <<service, reader, data, panel, due, supplement>>

(* The forum is chosen: nothing of the game is shown, nor still expected.   *)
ChooseForum ==
    /\ latest
    /\ latest' = FALSE
    /\ data' = None /\ panel' = Blank /\ due' = FALSE
    /\ UNCHANGED <<service, reader, asked, supplement>>

Counts == latest

Answered ==
    /\ asked # None /\ asked.at \in {"answered", "failed"}
    /\ asked' = None
    /\ IF ~Counts THEN UNCHANGED <<data, panel, due>>
       ELSE IF asked.at = "failed"
       THEN data' = None /\ panel' = Blank /\ due' = FALSE
       ELSE data' = asked /\ panel' = Render(asked) /\ UNCHANGED due
    /\ UNCHANGED <<service, reader, latest, supplement>>

Rerender ==
    /\ due
    /\ due' = FALSE
    /\ panel' = Render(data)
    /\ UNCHANGED <<service, reader, asked, latest, data, supplement>>

------------------------------------------------------------------------------
(* verify-game-supplemental.cjs: the baseline, each check behind an anchor, *)
(* a last anchor, the history entry again, and the receipt.                 *)

VerifyBegins ==
    /\ verifier = None /\ Len(receipts) < MaxReceipts
    /\ verifier' = [at |-> "anchor", base |-> service, done |-> 0, checked |-> {}]
    /\ UNCHANGED <<service, reader, page, receipts>>

Finishes(result) ==
    /\ verifier' = None
    /\ receipts' = Append(receipts, [result |-> result, base |-> verifier.base,
                                     checked |-> verifier.checked])

Anchored == service = verifier.base

Anchor ==
    /\ verifier # None /\ verifier.at = "anchor"
    /\ IF Anchored /\ verifier.done < MaxChecks
       THEN verifier' = [verifier EXCEPT !.at = "check"] /\ UNCHANGED receipts
       ELSE Finishes(IF Anchored THEN "PARTIAL" ELSE "FAIL")
    /\ UNCHANGED <<service, reader, page>>

(* A failed check, an active publisher or a changed history entry.          *)
Check ==
    /\ verifier # None /\ verifier.at = "check"
    /\ verifier' = [verifier EXCEPT !.at = "anchor", !.done = @ + 1,
                                    !.checked = @ \cup {service}]
    /\ UNCHANGED <<service, reader, page, receipts>>

VerifyFails ==
    /\ verifier # None
    /\ Finishes("FAIL")
    /\ UNCHANGED <<service, reader, page>>

(* A killed verification leaves a RUNNING receipt, which nobody accepts.    *)
VerifierDies ==
    /\ verifier # None
    /\ verifier' = None
    /\ UNCHANGED <<service, reader, page, receipts>>

------------------------------------------------------------------------------
Next ==
    \/ Redeploy \/ Tick
    \/ Ask \/ Serve \/ Answered \/ ChooseForum \/ Rerender \/ OtherPageAsks
    \/ InspectBefore \/ InspectContainers \/ InspectAfter \/ SampleLands \/ SampleFails
    \/ Restart
    \/ VerifyBegins \/ Anchor \/ Check \/ VerifyFails \/ VerifierDies

Spec == Init /\ [][Next]_vars

------------------------------------------------------------------------------
(* The file's minute, createOutcomeReader's two and markup's own look at    *)
(* the clock: what the page calls a current sample ran within those two      *)
(* minutes, one more for the sampler and one for the timer.                 *)
ShownCurrentIsRecent ==
    panel.current => data.sample.age + data.sample.slow <= CurrentFor + 2

(* readSupplemental and markup: a verification is shown as matching only    *)
(* beside the very deployment each of its checks ran against, while that    *)
(* sample is current.                                                       *)
MatchedIsChecked ==
    panel.says = "MATCHED" /\ data.record.result = "PARTIAL" =>
        panel.current /\ data.record.checked = {data.sample.of}

(* verify's anchors: a receipt that does not fail has checked the          *)
(* deployment it names and no other, whatever changed in between.           *)
ReceiptIsOfOne ==
    \A i \in DOMAIN receipts :
        receipts[i].result = "PARTIAL" => receipts[i].checked = {receipts[i].base}
==============================================================================
