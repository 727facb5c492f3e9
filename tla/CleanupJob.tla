------------------------------ MODULE CleanupJob ------------------------------
(***************************************************************************)
(* One run of process_cleanup (src/src/worker/handlers/cleanup.py) or of   *)
(* process_manual_cleanup (manual_cleanup.py): each region of the job, or  *)
(* the area the user has marked, is erased and repainted, a mask and a     *)
(* patch of it are stored under the page's scene-assets, and the callback  *)
(* has an outcome for each.  The attempt may be revoked at any time.       *)
(*                                                                         *)
(* What the pixels are is a choice of reconstruct_region: no artifact, no  *)
(* glyphs, or a patch, which a fallback may have made.                     *)
(***************************************************************************)
EXTENDS Integers, Sequences

CONSTANTS Jobs            \* manual, mode, and the regions of the payload

VARIABLES pc,
          job,
          void,           \* the attempt is revoked, or past its deadline
          at,             \* the region that is being worked on
          result,         \* what its reconstruction made
          stored,         \* the objects put under scene-assets/
          outcomes,
          posted,
          outcome,
          begun           \* ghost: regions begun after the attempt was void

cleanupVars == <<pc, job, void, at, result, stored, outcomes, posted, outcome, begun>>

(* A region of the payload: to be replaced, excluded by policy, without a known
   action, identity or geometry, or no record at all. *)
Kinds == {"replace", "exclude", "unusable", "noRecord"}

(* What the proofs take for granted of the constants: a job is a list of regions,
   and the mark of a manual job is the only one.  WorkerParts has TLC evaluate it. *)
CleanupAssumption ==
    \A j \in Jobs : /\ j.regions \in Seq(Kinds)
                    /\ j.manual \in BOOLEAN
                    /\ j.manual => Len(j.regions) = 1

Goto(l) == pc' = l
End(o) == pc' = "ended" /\ outcome' = o
jobVars == <<job, posted>>

CleanupInit ==
    /\ pc = "start"
    /\ job \in Jobs
    /\ void = FALSE
    /\ at = 1 /\ result = "none" /\ stored = {}
    /\ outcomes = <<>> /\ posted = <<>>
    /\ outcome = "none"
    /\ begun = 0

(* _region_result echoes the identity of a region that has one. *)
RegionResult(i, status, patch) ==
    [region |-> IF job.regions[i] = "noRecord" THEN 0 ELSE i,
     status |-> IF job.regions[i] = "noRecord" THEN "failed" ELSE status,
     patch |-> patch]

(* The same outcome for all; and a manual job has one. *)
ForAll(status) == [i \in DOMAIN job.regions |-> RegionResult(i, status, FALSE)]

AllFailed ==
    /\ outcomes' = ForAll("failed")
    /\ Goto("post")
    /\ UNCHANGED outcome

(* With cleanup off every region keeps its pixels. *)
Start ==
    /\ pc = "start" /\ ~void
    /\ IF ~job.manual /\ job.mode = "off"
         THEN outcomes' = ForAll("excluded") /\ Goto("post")
         ELSE Goto("source") /\ UNCHANGED outcomes
    /\ UNCHANGED <<jobVars, void, at, result, stored, outcome, begun>>

(* The source is downloaded, from the store if its URL has expired, and its digest
   and its pixels are verified; what goes wrong fails every region. *)
Source ==
    /\ pc = "source"
    /\ \/ Goto(IF job.manual THEN "mark" ELSE "lock") /\ UNCHANGED <<outcomes, outcome>>
       \/ AllFailed
    /\ UNCHANGED <<jobVars, void, at, result, stored, begun>>

(* The patches below and the mark are read; here a void attempt is only one more
   failure, which backend_headers then keeps from the backend. *)
Mark ==
    /\ pc = "mark"
    /\ \/ ~void /\ Goto("lock") /\ UNCHANGED <<outcomes, outcome>>
       \/ AllFailed
    /\ UNCHANGED <<jobVars, void, at, result, stored, begun>>

Continue(n) == IF n > Len(job.regions) THEN "post" ELSE "region"

Locked ==
    /\ pc = "lock"
    /\ Goto(Continue(1))
    /\ UNCHANGED <<jobVars, void, at, result, stored, outcomes, outcome, begun>>

(* TimeoutError of the lock, or Valkey is away. *)
NotLocked ==
    /\ pc = "lock"
    /\ IF job.manual THEN AllFailed ELSE End("raised") /\ UNCHANGED outcomes
    /\ UNCHANGED <<jobVars, void, at, result, stored, begun>>

(* An outcome of the current region; the area of a manual job is the last. *)
Conclude(status, patch) ==
    /\ outcomes' = Append(outcomes, RegionResult(at, status, patch))
    /\ Goto(IF job.manual THEN "post" ELSE "tick")

Work == begun' = IF void THEN begun + 1 ELSE begun

(* Nothing is to be done for a region, or nothing can be. *)
PassOver ==
    /\ pc = "region" /\ job.regions[at] # "replace"
    /\ Conclude(IF job.regions[at] = "exclude" THEN "excluded" ELSE "failed", FALSE)
    /\ Work
    /\ UNCHANGED <<jobVars, void, at, result, stored, outcome>>

(* reconstruct_region, reconstruct_manual: TELEA steps in for AOT where the mode
   asks for AOT. *)
Repaints == {"patch"} \cup (IF job.mode \in {"telea", "flat", "restore"} THEN {} ELSE {"fallback"})

Reconstruct ==
    /\ pc = "region" /\ job.regions[at] = "replace"
    /\ result' \in Repaints
    /\ Goto("putMask")
    /\ Work
    /\ UNCHANGED <<jobVars, void, at, stored, outcomes, outcome>>

(* No crop, no CTD, an exception; and no glyphs where OCR saw some, which is for a
   person to look at. *)
NotReconstructed ==
    /\ pc = "region" /\ job.regions[at] = "replace"
    /\ \/ Conclude("failed", FALSE)
       \/ ~job.manual /\ Conclude("uncertain", FALSE)
    /\ Work
    /\ UNCHANGED <<jobVars, void, at, result, stored, outcome>>

(* _asset_fields *)
PutMask ==
    /\ pc = "putMask"
    /\ stored' = stored \cup {<<at, "mask">>}
    /\ Goto("putPatch")
    /\ UNCHANGED <<jobVars, void, at, result, outcomes, outcome, begun>>

(* A fallback degrades a region, but not the area of a manual job. *)
Status == IF result = "fallback" /\ ~job.manual THEN "degraded" ELSE "complete"

PutPatch ==
    /\ pc = "putPatch"
    /\ stored' = stored \cup {<<at, "patch">>}
    /\ Conclude(Status, TRUE)
    /\ UNCHANGED <<jobVars, void, at, result, outcome, begun>>

(* mistake: the fields are reported although an upload failed *)
ReportAnyhow == Conclude(Status, TRUE)

(* The region fails, even if its mask is in the store already. *)
ReportFailure == Conclude("failed", FALSE)

PutFails ==
    /\ pc \in {"putMask", "putPatch"}
    /\ ReportFailure
    /\ UNCHANGED <<jobVars, void, at, result, stored, outcome, begun>>

(* mistake: progress is counted and the authority is not asked for *)
CountProgress == at' = at + 1 /\ Goto(Continue(at + 1)) /\ UNCHANGED outcome

(* record_progress after each region: a void attempt ends here. *)
RecordProgress ==
    IF void THEN End("raised") /\ UNCHANGED at
    ELSE at' = at + 1 /\ Goto(Continue(at + 1)) /\ UNCHANGED outcome

Progress ==
    /\ pc = "tick"
    /\ RecordProgress
    /\ UNCHANGED <<jobVars, void, result, stored, outcomes, begun>>

Post ==
    /\ pc = "post" /\ ~void
    /\ posted' = outcomes
    /\ End("completed")
    /\ UNCHANGED <<job, void, at, result, stored, outcomes, begun>>

(* A payload without a page or regions, a void attempt, a callback that fails. *)
Raises ==
    /\ pc \in {"start", "post"}
    /\ End("raised")
    /\ UNCHANGED <<jobVars, void, at, result, stored, outcomes, begun>>

Revoke ==
    /\ ~void /\ pc # "ended"
    /\ void' = TRUE
    /\ UNCHANGED <<pc, jobVars, at, result, stored, outcomes, outcome, begun>>

CleanupNext ==
    \/ Start \/ Source \/ Mark \/ Locked \/ NotLocked
    \/ PassOver \/ Reconstruct \/ NotReconstructed \/ PutMask \/ PutPatch \/ PutFails
    \/ Progress \/ Post \/ Raises \/ Revoke

CleanupSpec == CleanupInit /\ [][CleanupNext]_cleanupVars
-----------------------------------------------------------------------------
(* The type invariant. *)
CleanupTypeOK ==
    /\ pc \in {"start", "source", "mark", "lock", "region", "putMask", "putPatch", "tick", "post", "ended"}
    /\ job \in Jobs /\ void \in BOOLEAN
    /\ at \in 1 .. Len(job.regions) + 1
    /\ result \in {"none", "patch", "fallback"}
    /\ stored \subseteq ((1 .. Len(job.regions)) \X {"mask", "patch"})
    /\ outcome \in {"none", "completed", "raised"} /\ begun \in Nat

(* The docstring of _region_result: the callback has exactly one outcome for each
   region, in the order of the payload and under its identity.  An outcome names
   a patch exactly if it says complete or degraded, and then the region was to be
   replaced and both its objects are in the store, whichever upload failed. *)
CleanupAccounted ==
    outcome = "completed" =>
        /\ Len(posted) = Len(job.regions)
        /\ \A i \in DOMAIN posted :
              /\ posted[i].region = (IF job.regions[i] = "noRecord" THEN 0 ELSE i)
              /\ posted[i].patch <=> posted[i].status \in {"complete", "degraded"}
              /\ posted[i].patch =>
                    /\ job.regions[i] = "replace" /\ (job.manual \/ job.mode # "off")
                    /\ {<<i, "mask">>, <<i, "patch">>} \subseteq stored

(* However long the page, a void attempt begins at most one more region: the one
   it had been cleared for, or was waiting for the lock with. *)
RevokedStopsSoon == begun <= 1
=============================================================================
