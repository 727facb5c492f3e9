----------------------------- MODULE JobLifecycle -----------------------------
(***************************************************************************)
(* One job of the pipeline, from its dispatches to its verdict:            *)
(* src/src/worker/rq_tasks.py (process_job_rq, its status PATCHes and its  *)
(* heartbeat thread) and src/src/worker/job_attempt.py (the authority that *)
(* the job's threads share), with the shape every handler has: fetch,      *)
(* work, one result callback.                                              *)
(*                                                                         *)
(* The backend is external.  It keeps the job's row, fences every request  *)
(* on X-Job-Attempt, may dispatch an attempt more than once, sweeps a      *)
(* stale row, and may lose a request, lose its reply, or apply it after    *)
(* the client has given up.  A request that is answered is one step: only  *)
(* the client's own, constant payload is in it, so nothing that happens    *)
(* while it is in flight could change what it does.                        *)
(***************************************************************************)
EXTENDS Integers, FiniteSets

CONSTANTS Kind,         \* the families of queues the job may belong to
          Dispatch,     \* deliveries of this job to a worker
          MaxAttempts,  \* maxAttempts of the payload
          PatchTries,   \* stop_after_attempt of _patch_job_status: 4
          MaxLate       \* bound: requests that may be applied late

(* "owned": cleanup and manual-cleanup, whose callback commits the job's
   status.  "redo": region redo, which answers on /ocr-regions/../callback.
   "plain": every other queue. *)
ASSUME JobAssumption ==
    /\ Kind \subseteq {"plain", "owned", "redo"}
    /\ IsFiniteSet(Dispatch)
    /\ MaxAttempts \in Nat \ {0} /\ PatchTries \in Nat \ {0} /\ MaxLate \in Nat

VARIABLES kind,      \* the family of the job
          row,       \* the backend's row: status and current attempt
          applied,   \* the attempts whose result callback was applied
          late,      \* requests given up by their client, still to be applied
          pc,        \* dispatch -> step of process_job_rq
          att,       \* dispatch -> the attempt in its payload
          void,      \* dispatches whose Attempt is revoked or past its deadline
          tries,     \* dispatch -> PATCHes spent in the current update
          verdict,   \* dispatch -> the status it is to report
          hb,        \* dispatch -> its heartbeat thread
          hbTries,   \* dispatch -> PATCHes spent in the current heartbeat
          answer,    \* ghost: what the job thread knows of its result callback
          handled,   \* ghost: how the handler ended
          said       \* ghost: the verdicts a dispatch has put on the wire

jobVars == <<kind, row, applied, late>>
runVars == <<pc, att, tries, verdict, answer, handled, said>>
hbVars  == <<hb, hbTries>>
vars    == <<jobVars, runVars, hbVars, void>>

Terminal == {"COMPLETED", "FAILED"}
Verdict == Terminal \cup {"PENDING"}
Working == {"stale", "status", "claim", "fetch", "hung", "work", "report"}

Over(d) == pc[d] \in {"ended", "dead"}

Unchecked(d) == TRUE   \* mistake: Attempt.check only logs

(* Attempt.check, made by backend_headers before every request. *)
Valid(d) == d \notin void

(* Statuses, attempts and tries are in their ranges: no update spends more
   tries than _patch_job_status allows. *)
TypeOK ==
    /\ kind \in Kind
    /\ row \in [st : Verdict \cup {"PROCESSING", "GONE"}, att : Nat \ {0}]
    /\ applied \subseteq Nat \ {0}
    /\ late \subseteq [from : Dispatch, st : Verdict \cup {"PROCESSING", "callback"}]
    /\ pc \in [Dispatch -> Working \cup {"new", "ended", "dead"}]
    /\ att \in [Dispatch -> Nat \ {0}]
    /\ void \subseteq Dispatch
    /\ tries \in [Dispatch -> 0..PatchTries]
    /\ verdict \in [Dispatch -> Verdict \cup {"none"}]
    /\ hb \in [Dispatch -> {"off", "on", "gone"}]
    /\ hbTries \in [Dispatch -> 0..(PatchTries - 1)]
    /\ answer \in [Dispatch -> {"none", "accepted", "refused"}]
    /\ handled \in [Dispatch -> {"none", "returned", "raised"}]
    /\ said \in [Dispatch -> SUBSET Verdict]

Init ==
    /\ kind \in Kind
    /\ row = [st |-> "PENDING", att |-> 1]
    /\ applied = {} /\ late = {} /\ void = {}
    /\ pc = [d \in Dispatch |-> "new"]
    /\ att = [d \in Dispatch |-> 1]
    /\ tries = [d \in Dispatch |-> 0]
    /\ verdict = [d \in Dispatch |-> "none"]
    /\ hb = [d \in Dispatch |-> "off"]
    /\ hbTries = [d \in Dispatch |-> 0]
    /\ answer = [d \in Dispatch |-> "none"]
    /\ handled = [d \in Dispatch |-> "none"]
    /\ said = [d \in Dispatch |-> {}]

-----------------------------------------------------------------------------
(* The backend. *)

Unfenced(d) == row.st # "GONE"   \* mistake: no X-Job-Attempt header

Current(d) == row.st # "GONE" /\ row.att = att[d]

(* A PATCH of d with status s is applied and answered 2xx.  A claim moves a
   pending row only; a verdict replaces whatever the row says. *)
Accepts(d, s) ==
    /\ Current(d)
    /\ row' = CASE s = "PROCESSING" /\ row.st = "PENDING" -> [row EXCEPT !.st = s]
                [] s = "PROCESSING" /\ row.st # "PENDING" -> row
                [] s = "PENDING" -> [st |-> s, att |-> att[d] + 1]
                [] s \in Terminal -> [row EXCEPT !.st = s]

(* It is answered 404 or 409: the row is gone, belongs to another attempt, is
   claimed already, or has its verdict. *)
Refuses(d, s) ==
    /\ \/ ~Current(d)
       \/ s = "PROCESSING" /\ row.st # "PENDING"
       \/ s \in Verdict /\ row.st \in Terminal
    /\ UNCHANGED row

(* The result callback of d is applied, once per attempt. *)
AppliesResult(d) ==
    /\ Current(d) /\ att[d] \notin applied
    /\ applied' = applied \cup {att[d]}
    /\ IF kind = "owned" THEN \E s \in Terminal : row' = [row EXCEPT !.st = s]
                         ELSE UNCHANGED row

(* A request whose client saw a transport error: lost, applied with its reply
   lost, or still on its way. *)
Lost(d, s) ==
    \/ UNCHANGED <<row, applied, late>>
    \/ IF s = "callback" THEN AppliesResult(d) /\ UNCHANGED late
                         ELSE Accepts(d, s) /\ UNCHANGED <<applied, late>>
    \/ /\ Cardinality(late) < MaxLate
       /\ late' = late \cup {[from |-> d, st |-> s]}
       /\ UNCHANGED <<row, applied>>

LateArrives(m) ==
    /\ m \in late
    /\ late' = late \ {m}
    /\ \/ m.st = "callback" /\ AppliesResult(m.from)
       \/ m.st # "callback" /\ Accepts(m.from, m.st) /\ UNCHANGED applied
       \/ UNCHANGED <<row, applied>>
    /\ UNCHANGED <<kind, void>> /\ UNCHANGED <<runVars, hbVars>>

(* A dispatch of the pending attempt reaches a worker, perhaps not the first. *)
Deliver(d) ==
    /\ pc[d] = "new" /\ row.st = "PENDING"
    /\ pc' = [pc EXCEPT ![d] = "stale"]
    /\ att' = [att EXCEPT ![d] = row.att]
    /\ UNCHANGED <<tries, verdict, answer, handled, said, void>>
    /\ UNCHANGED <<jobVars, hbVars>>

(* The stale sweeper requeues a row it takes for abandoned. *)
Sweep ==
    /\ row.st = "PROCESSING"
    /\ row' = IF row.att < MaxAttempts THEN [st |-> "PENDING", att |-> row.att + 1]
                                       ELSE [row EXCEPT !.st = "FAILED"]
    /\ UNCHANGED <<kind, applied, late, void>> /\ UNCHANGED <<runVars, hbVars>>

(* The user deletes the job. *)
Delete ==
    /\ row.st # "GONE"
    /\ row' = [row EXCEPT !.st = "GONE"]
    /\ UNCHANGED <<kind, applied, late, void>> /\ UNCHANGED <<runVars, hbVars>>

-----------------------------------------------------------------------------
(* The job thread before the handler. *)

Goto(d, step) == pc' = [pc EXCEPT ![d] = step]

ToReport(d, s) ==
    /\ Goto(d, "report")
    /\ verdict' = [verdict EXCEPT ![d] = s]
    /\ tries' = [tries EXCEPT ![d] = 0]

(* check_stale_job: only a 404 for the image, which may have been deleted at
   any time, stops the job; any exception, of the authority too, means "not
   stale". *)
CheckStale(d) ==
    /\ pc[d] = "stale"
    /\ \/ Valid(d) /\ ToReport(d, "FAILED")
       \/ Goto(d, "status") /\ UNCHANGED <<tries, verdict>>
    /\ UNCHANGED <<att, answer, handled, said, void>> /\ UNCHANGED <<jobVars, hbVars>>

(* GET of the job: no answer, or a row that is gone or not PENDING, ends the
   dispatch without a word; an error status falls through to the claim. *)
GetStatus(d) ==
    /\ pc[d] = "status"
    /\ \E reply \in {"row", "error", "none"} :
           /\ reply # "none" => Valid(d)
           /\ Goto(d, IF reply = "error" \/ (reply = "row" /\ row.st = "PENDING")
                      THEN "claim" ELSE "ended")
    /\ UNCHANGED <<att, tries, verdict, answer, handled, said, void>>
    /\ UNCHANGED <<jobVars, hbVars>>

-----------------------------------------------------------------------------
(* update_job_status of the job thread: the claim, and the final report. *)

Status(d) == IF pc[d] = "claim" THEN "PROCESSING" ELSE verdict[d]

Started(d, ok) == ok /\ pc[d] = "claim"

AfterPatchRaises(d, ok) ==   \* mistake: a failed update raises into the except
    /\ pc' = [pc EXCEPT ![d] = IF Started(d, ok) THEN "fetch"
                               ELSE IF ~ok /\ verdict[d] = "COMPLETED" THEN "report"
                               ELSE "ended"]
    /\ verdict' = [verdict EXCEPT ![d] =
                      IF ~ok /\ @ = "COMPLETED" THEN "FAILED" ELSE @]
    /\ hb' = [hb EXCEPT ![d] = IF Started(d, ok) THEN "on" ELSE @]

AfterPatchRepeats(d, ok) ==   \* mistake: an update that fails is made again
    /\ pc' = [pc EXCEPT ![d] = IF Started(d, ok) THEN "fetch" ELSE
                               IF ok THEN "ended" ELSE @]
    /\ hb' = [hb EXCEPT ![d] = IF Started(d, ok) THEN "on" ELSE @]
    /\ UNCHANGED verdict

(* The update returned.  An accepted claim starts the heartbeat and the
   handler; a refused one, and every report, is the end of the dispatch. *)
AfterPatch(d, ok) ==
    /\ pc' = [pc EXCEPT ![d] = IF Started(d, ok) THEN "fetch" ELSE "ended"]
    /\ hb' = [hb EXCEPT ![d] = IF Started(d, ok) THEN "on" ELSE @]
    /\ UNCHANGED verdict

(* stop_after_attempt: this is the last of the tries. *)
Spent(n) == n + 1 >= PatchTries

More(n) == IF n < PatchTries THEN n + 1 ELSE n

PatchAnswered(d) ==
    /\ \/ Accepts(d, Status(d)) /\ AfterPatch(d, TRUE)
       \/ Refuses(d, Status(d)) /\ AfterPatch(d, FALSE)
    /\ tries' = [tries EXCEPT ![d] = 0]
    /\ UNCHANGED <<applied, late>>

(* A transport error or a 5xx: tried again until the tries are spent. *)
PatchErrs(d) ==
    /\ Lost(d, Status(d))
    /\ tries' = [tries EXCEPT ![d] = More(@)]
    /\ IF Spent(tries[d]) THEN AfterPatch(d, FALSE) ELSE UNCHANGED <<pc, hb, verdict>>

Patch(d) ==
    /\ pc[d] \in {"claim", "report"} /\ Valid(d)
    /\ said' = [said EXCEPT ![d] = @ \cup ({Status(d)} \cap Verdict)]
    /\ PatchAnswered(d) \/ PatchErrs(d)
    /\ UNCHANGED <<kind, att, answer, handled, void, hbTries>>

(* backend_headers raises AttemptExpired: update_job_status returns False and
   nothing is sent. *)
PatchVoid(d) ==
    /\ pc[d] \in {"claim", "report"} /\ ~Valid(d)
    /\ AfterPatch(d, FALSE)
    /\ UNCHANGED <<att, tries, answer, handled, said, void, hbTries>>
    /\ UNCHANGED jobVars

-----------------------------------------------------------------------------
(* The handler. *)

(* The handler returned: cleanup jobs leave the verdict to the backend. *)
ReportsCompletion(d) == kind # "owned"

Returned(d) ==
    /\ handled' = [handled EXCEPT ![d] = "returned"]
    /\ IF ReportsCompletion(d) THEN ToReport(d, "COMPLETED")
                               ELSE Goto(d, "ended") /\ UNCHANGED <<verdict, tries>>

OneTooMany(d) == att[d] <= MaxAttempts   \* mistake: <= for <

AttemptsLeft(d) == att[d] < MaxAttempts

(* _superseded_callback: a 409, from a URL under /jobs/callback/. *)
Superseded(d) == answer'[d] = "refused" /\ kind # "redo"

RaisedQuietly(d) ==   \* mistake: the last attempt is only logged
    /\ handled' = [handled EXCEPT ![d] = "raised"]
    /\ IF AttemptsLeft(d) THEN ToReport(d, "PENDING")
                          ELSE Goto(d, "ended") /\ UNCHANGED <<verdict, tries>>

(* The except of process_job_rq. *)
Raised(d) ==
    /\ handled' = [handled EXCEPT ![d] = "raised"]
    /\ ToReport(d, IF ~Superseded(d) /\ AttemptsLeft(d) THEN "PENDING" ELSE "FAILED")

(* The first request of a handler.  In every handler but cleanup, manual
   cleanup and render it has no timeout, so it may never be answered.  Most
   handlers return when the answer is not 200; region redo returns on any
   exception too; a handler that does not return raises. *)
Fetch(d) ==
    /\ pc[d] = "fetch"
    /\ UNCHANGED answer
    /\ \/ Valid(d) /\ Goto(d, "work") /\ UNCHANGED <<handled, verdict, tries>>
       \/ /\ kind # "owned" /\ Valid(d)
          /\ Goto(d, "hung") /\ UNCHANGED <<handled, verdict, tries>>
       \/ kind = "redo" /\ Returned(d)
       \/ kind = "plain" /\ Valid(d) /\ Returned(d)
       \/ kind # "redo" /\ Raised(d)
    /\ UNCHANGED <<att, said, void>> /\ UNCHANGED <<jobVars, hbVars>>

(* The peer answers or closes the connection after all. *)
Wake(d) ==
    /\ pc[d] = "hung"
    /\ Goto(d, "fetch")
    /\ UNCHANGED <<att, tries, verdict, answer, handled, said, void>>
    /\ UNCHANGED <<jobVars, hbVars>>

Hears(d, a) == answer' = [answer EXCEPT ![d] = a]

(* Models, locks and storage: the work raises, or finds nothing to answer and
   returns. *)
Work(d) ==
    /\ pc[d] = "work"
    /\ UNCHANGED answer
    /\ \/ kind # "owned" /\ Returned(d)
       \/ Raised(d)
    /\ UNCHANGED <<att, said, void>> /\ UNCHANGED <<jobVars, hbVars>>

(* Or it comes to its one POST of the result and raise_for_status; the POST is
   never repeated.  Translation may still raise after it was accepted. *)
Callback(d) ==
    /\ pc[d] = "work" /\ Valid(d)
    /\ \/ /\ AppliesResult(d) /\ UNCHANGED late
          /\ Hears(d, "accepted")
          /\ \/ Returned(d)
             \/ kind = "plain" /\ Raised(d)
       \/ /\ ~(Current(d) /\ att[d] \notin applied)
          /\ UNCHANGED <<row, applied, late>>
          /\ Hears(d, "refused") /\ Raised(d)
       \/ Lost(d, "callback") /\ UNCHANGED answer /\ Raised(d)
    /\ UNCHANGED <<kind, att, said, void>> /\ UNCHANGED hbVars

JobThread(d) == \/ CheckStale(d) \/ GetStatus(d) \/ Patch(d) \/ PatchVoid(d)
                \/ Fetch(d) \/ Work(d) \/ Callback(d)

-----------------------------------------------------------------------------
(* The heartbeat thread, and the ways an attempt loses its authority. *)

(* JobHeartbeat.run.  Between two PATCHes (hbTries = 0) the thread leaves when
   close() has set its event.  A PATCH is accepted while the row is PROCESSING
   for this attempt; void, refused or out of tries, the thread revokes the
   attempt and is gone.  close() waits one second only: a thread that is
   retrying (hbTries > 0) goes on after its dispatch is over. *)
HeartbeatStops(d) ==
    /\ hb[d] = "on" /\ hbTries[d] = 0 /\ Over(d)
    /\ hb' = [hb EXCEPT ![d] = "gone"]
    /\ UNCHANGED <<jobVars, runVars, hbTries, void>>

HeartbeatPatch(d) ==
    /\ hb[d] = "on" /\ Valid(d)
    /\ hbTries[d] = 0 => ~Over(d)
    /\ Current(d) /\ row.st = "PROCESSING"
    /\ hbTries' = [hbTries EXCEPT ![d] = 0]
    /\ UNCHANGED <<jobVars, runVars, hb, void>>

HeartbeatErrs(d) ==
    /\ hb[d] = "on" /\ Valid(d) /\ ~Spent(hbTries[d])
    /\ hbTries[d] = 0 => ~Over(d)
    /\ hbTries' = [hbTries EXCEPT ![d] = More(@)]
    /\ UNCHANGED <<jobVars, runVars, hb, void>>

HeartbeatRevokes(d) ==
    /\ hb[d] = "on"
    /\ hbTries[d] = 0 => ~Over(d)
    /\ \/ ~Valid(d)
       \/ ~(Current(d) /\ row.st = "PROCESSING")
       \/ Spent(hbTries[d])
    /\ hb' = [hb EXCEPT ![d] = "gone"]
    /\ hbTries' = [hbTries EXCEPT ![d] = 0]
    /\ void' = void \cup {d}
    /\ UNCHANGED <<jobVars, runVars>>

Heartbeat(d) == \/ HeartbeatStops(d) \/ HeartbeatPatch(d)
                \/ HeartbeatErrs(d) \/ HeartbeatRevokes(d)

(* time.monotonic() passes the deadline of the attempt. *)
Expire(d) ==
    /\ Valid(d)
    /\ pc[d] \in Working \/ hb[d] = "on"
    /\ void' = void \cup {d}
    /\ UNCHANGED <<jobVars, runVars, hbVars>>

(* The worker process that runs d dies, its heartbeat with it. *)
Crash(d) ==
    /\ pc[d] \in Working
    /\ Goto(d, "dead")
    /\ hb' = [hb EXCEPT ![d] = "gone"]
    /\ UNCHANGED <<att, tries, verdict, answer, handled, said, void, hbTries>>
    /\ UNCHANGED jobVars

Next == \/ \E d \in Dispatch : \/ Deliver(d) \/ JobThread(d) \/ Wake(d)
                               \/ Heartbeat(d) \/ Expire(d) \/ Crash(d)
        \/ Sweep \/ Delete
        \/ \E m \in late : LateArrives(m)

Spec == Init /\ [][Next]_vars

(* The threads of a worker run, every request but the untimed ones ends, and
   the clock reaches the deadline.  Nothing makes the backend dispatch, sweep
   or answer. *)
Fairness == \A d \in Dispatch : /\ WF_vars(JobThread(d)) /\ WF_vars(Heartbeat(d))
                                /\ WF_vars(Expire(d))

FairSpec == Spec /\ Fairness

-----------------------------------------------------------------------------
(* Duplicate dispatches, late PATCHes of dead ones and the sweeper together
   never push the row past maxAttempts. *)
RetryBudget == row.att <= MaxAttempts

(* A dispatch reports one verdict, whatever its PATCHes run into, and the
   verdict is about what happened: COMPLETED only for a handler that returned,
   PENDING only for one that raised. *)
OneVerdict ==
    \A d \in Dispatch :
        /\ Cardinality(said[d] \cap Verdict) <= 1
        /\ "COMPLETED" \in said[d] => handled[d] = "returned"
        /\ "PENDING" \in said[d] => handled[d] = "raised"

(* A row is COMPLETED only if the handler of one of its dispatches at that
   attempt returned, or, for a cleanup job, its callback was applied. *)
CompletedHasReturn ==
    row.st = "COMPLETED" =>
        IF kind = "owned" THEN row.att \in applied
        ELSE \E d \in Dispatch : att[d] = row.att /\ handled[d] = "returned"

(* A dispatch that ran its handler to an end, kept its authority and was not
   out of luck PatchTries times in a row does not leave its row PROCESSING
   for the sweeper to find (AUDIT-P6). *)
NoSilentLoss ==
    \A d \in Dispatch :
        (pc[d] = "ended" /\ handled[d] # "none" /\ Valid(d) /\ tries[d] < PatchTries)
            => ~(row.st = "PROCESSING" /\ row.att = att[d])

(* A cleanup job whose callback was accepted has reported no verdict of its
   own and never will: the backend's outcome, FAILED included, stands. *)
OwnedStands ==
    \A d \in Dispatch :
        kind = "owned" /\ answer[d] = "accepted" => said[d] \cap Verdict = {}

(* Two threads share one authority.  Once it is void, or once the heartbeat
   thread is gone for whatever reason, no step of the job thread reaches the
   backend any more: no claim, no result, no verdict. *)
VoidIsSilent ==
    [][\A d \in Dispatch :
          d \in void \/ hb[d] = "gone" =>
              (JobThread(d) => UNCHANGED <<row, applied, late, said>>)]_vars

(* A dispatch comes to its end, or stands in a request without a timeout: no
   retry, refusal, lost reply or dead heartbeat can hold it anywhere else. *)
EndsOrHangs == \A d \in Dispatch : pc[d] = "stale" ~> (Over(d) \/ pc[d] = "hung")

(* A heartbeat renews a finite attempt: it stops in the end even when its job
   hangs for ever. *)
HeartbeatEnds == \A d \in Dispatch : hb[d] = "on" ~> hb[d] = "gone"

(* process_job_rq (rq_tasks.py:317-321): a result refused with 409 is not
   retried. *)
RefusedIsNotRetried ==
    \A d \in Dispatch : answer[d] = "refused" => verdict[d] # "PENDING"
=============================================================================
