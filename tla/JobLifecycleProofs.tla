-------------------------- MODULE JobLifecycleProofs --------------------------
(* What holds of a job for every number of dispatches, attempts and tries:   *)
(* types, the attempt budget, one truthful verdict per dispatch, and the     *)
(* silence of a dispatch that lost its authority.                            *)
EXTENDS JobLifecycle, FiniteSetTheorems, TLAPS

(* Replacing one value of a function by a value of its range. *)
LEMMA ExceptType ==
    ASSUME NEW S, NEW T, NEW f \in [S -> T], NEW x \in S, NEW v \in T
    PROVE  [f EXCEPT ![x] = v] \in [S -> T]
OBVIOUS

(* A PATCH that is applied leaves a well-typed row; so does a result. *)
LEMMA AcceptsType ==
    ASSUME TypeOK, NEW d \in Dispatch, NEW s \in Verdict \cup {"PROCESSING"}, Accepts(d, s)
    PROVE  row' \in [st : Verdict \cup {"PROCESSING", "GONE"}, att : Nat \ {0}]
BY DEF TypeOK, Accepts, Current, Verdict, Terminal

(* An applied result keeps the row and the set of results typed. *)
LEMMA ResultType ==
    ASSUME TypeOK, NEW d \in Dispatch, AppliesResult(d)
    PROVE  /\ row' \in [st : Verdict \cup {"PROCESSING", "GONE"}, att : Nat \ {0}]
           /\ applied' \subseteq Nat \ {0}
BY DEF TypeOK, AppliesResult, Current, Verdict, Terminal

(* A lost request leaves the row, the results and the late requests typed. *)
LEMMA LostType ==
    ASSUME TypeOK, NEW d \in Dispatch, NEW s \in Verdict \cup {"PROCESSING", "callback"},
           Lost(d, s)
    PROVE  /\ row' \in [st : Verdict \cup {"PROCESSING", "GONE"}, att : Nat \ {0}]
           /\ applied' \subseteq Nat \ {0}
           /\ late' \subseteq [from : Dispatch, st : Verdict \cup {"PROCESSING", "callback"}]
<1>1. CASE UNCHANGED <<row, applied, late>>
  BY <1>1 DEF TypeOK
<1>2. CASE s = "callback" /\ AppliesResult(d) /\ UNCHANGED late
  BY <1>2, ResultType DEF TypeOK
<1>3. CASE s # "callback" /\ Accepts(d, s) /\ UNCHANGED <<applied, late>>
  BY <1>3, AcceptsType DEF TypeOK
<1>4. CASE late' = late \cup {[from |-> d, st |-> s]} /\ UNCHANGED <<row, applied>>
  BY <1>4 DEF TypeOK
<1> QED
  BY <1>1, <1>2, <1>3, <1>4 DEF Lost

(* What a PATCH says is a status. *)
LEMMA StatusType ==
    ASSUME TypeOK, NEW d \in Dispatch, pc[d] \in {"claim", "report"},
           pc[d] = "report" => verdict[d] \in Verdict
    PROVE  Status(d) \in Verdict \cup {"PROCESSING"}
BY DEF Status

(* The step after a PATCH, a return or an exception keeps the types of what
   it writes. *)
LEMMA AfterPatchType ==
    ASSUME TypeOK, NEW d \in Dispatch, NEW ok \in BOOLEAN, AfterPatch(d, ok)
    PROVE  /\ pc' \in [Dispatch -> Working \cup {"new", "ended", "dead"}]
           /\ hb' \in [Dispatch -> {"off", "on", "gone"}]
           /\ verdict' = verdict
BY DEF TypeOK, AfterPatch, Started, Working

(* Turning to the report keeps the types of the step, the verdict and the tries. *)
LEMMA ToReportType ==
    ASSUME TypeOK, JobAssumption, NEW d \in Dispatch, NEW s \in Verdict, ToReport(d, s)
    PROVE  /\ pc' \in [Dispatch -> Working \cup {"new", "ended", "dead"}]
           /\ verdict' \in [Dispatch -> Verdict \cup {"none"}]
           /\ tries' \in [Dispatch -> 0..PatchTries]
BY DEF TypeOK, ToReport, Goto, Working, JobAssumption

(* Moving a dispatch to a step of the program keeps pc typed. *)
LEMMA GotoType ==
    ASSUME TypeOK, NEW d \in Dispatch,
           NEW step \in Working \cup {"ended", "dead"}, Goto(d, step)
    PROVE  pc' \in [Dispatch -> Working \cup {"new", "ended", "dead"}]
BY DEF TypeOK, Goto

(* So does the end of a handler, by return or by exception. *)
LEMMA HandledType ==
    ASSUME TypeOK, JobAssumption, NEW d \in Dispatch, Returned(d) \/ Raised(d)
    PROVE  /\ pc' \in [Dispatch -> Working \cup {"new", "ended", "dead"}]
           /\ verdict' \in [Dispatch -> Verdict \cup {"none"}]
           /\ tries' \in [Dispatch -> 0..PatchTries]
           /\ handled' \in [Dispatch -> {"none", "returned", "raised"}]
<1>1. CASE Returned(d)
  <2>1. CASE ReportsCompletion(d)
    BY <1>1, <2>1, ToReportType DEF Returned, TypeOK, Verdict, Terminal
  <2>2. CASE ~ReportsCompletion(d)
    BY <1>1, <2>2, GotoType DEF Returned, TypeOK
  <2> QED
    BY <2>1, <2>2
<1>2. CASE Raised(d)
  BY <1>2, ToReportType DEF Raised, TypeOK, Verdict, Terminal
<1> QED
  BY <1>1, <1>2

-----------------------------------------------------------------------------
(* Where a dispatch stands and what it has said: nothing before its report,
   one verdict at most from then on, and the verdict fits what happened. *)
DispatchInv ==
    \A d \in Dispatch :
        /\ pc[d] \notin {"report", "ended", "dead"} =>
               said[d] = {} /\ verdict[d] = "none" /\ handled[d] = "none"
        /\ pc[d] = "report" => verdict[d] \in Verdict
        /\ said[d] \subseteq {verdict[d]}
        /\ verdict[d] = "COMPLETED" => handled[d] = "returned" /\ kind # "owned"
        /\ verdict[d] = "PENDING" => handled[d] = "raised" /\ att[d] < MaxAttempts
        /\ kind = "owned" /\ answer[d] = "accepted" => Over(d) /\ said[d] = {}

(* Attempts stay within the budget, of the row and of every dispatch. *)
BudgetInv ==
    /\ row.att <= MaxAttempts
    /\ \A d \in Dispatch : att[d] <= MaxAttempts

(* A late request comes from a dispatch that was delivered, and what it says
   was true when it was sent and stays true. *)
LateInv ==
    \A m \in late :
        /\ pc[m.from] # "new"
        /\ m.st = "COMPLETED" => handled[m.from] = "returned" /\ kind # "owned"
        /\ m.st = "PENDING" => att[m.from] < MaxAttempts

(* The heartbeat thread is gone only when the authority or the dispatch is. *)
HeartInv ==
    \A d \in Dispatch : hb[d] = "gone" => d \in void \/ Over(d)

JobInv == TypeOK /\ DispatchInv /\ BudgetInv /\ LateInv /\ HeartInv /\ CompletedHasReturn

(* The initial states satisfy the invariant. *)
LEMMA JobInvInit == Init => JobInv
BY JobAssumption DEF Init, JobInv, TypeOK, DispatchInv, BudgetInv, LateInv, HeartInv,
    CompletedHasReturn, Over, Verdict, Terminal, JobAssumption

(* No step breaks a type. *)
LEMMA TypeStep ==
    ASSUME TypeOK, DispatchInv, [Next]_vars
    PROVE  TypeOK'
<1> USE JobAssumption
<1>1. ASSUME NEW d \in Dispatch, Deliver(d) PROVE TypeOK'
  BY <1>1 DEF TypeOK, Deliver, jobVars, hbVars, Working
<1>2. ASSUME NEW d \in Dispatch, CheckStale(d) PROVE TypeOK'
  <2>1. CASE Valid(d) /\ ToReport(d, "FAILED")
    BY <1>2, <2>1, ToReportType DEF CheckStale, TypeOK, jobVars, hbVars, Verdict, Terminal
  <2>2. CASE Goto(d, "status") /\ UNCHANGED <<tries, verdict>>
    BY <1>2, <2>2, GotoType DEF CheckStale, TypeOK, jobVars, hbVars, Working
  <2> QED
    BY <1>2, <2>1, <2>2 DEF CheckStale
<1>3. ASSUME NEW d \in Dispatch, GetStatus(d) PROVE TypeOK'
  <2>1. pc' \in [Dispatch -> Working \cup {"new", "ended", "dead"}]
    BY <1>3, GotoType DEF GetStatus, Working
  <2> QED
    BY <1>3, <2>1 DEF GetStatus, TypeOK, jobVars, hbVars
<1>4. ASSUME NEW d \in Dispatch, Patch(d) PROVE TypeOK'
  <2>1. Status(d) \in Verdict \cup {"PROCESSING"} /\ Status(d) # "callback"
    BY <1>4, StatusType DEF Patch, DispatchInv, Verdict, Terminal
  <2>2. said' \in [Dispatch -> SUBSET Verdict]
    BY <1>4 DEF Patch, TypeOK
  <2>3. CASE PatchAnswered(d)
    <3>1. PICK ok \in BOOLEAN : AfterPatch(d, ok)
      BY <2>3 DEF PatchAnswered
    <3>2. row' \in [st : Verdict \cup {"PROCESSING", "GONE"}, att : Nat \ {0}]
      BY <2>1, <2>3, AcceptsType DEF PatchAnswered, Refuses, TypeOK
    <3> QED
      BY <1>4, <2>2, <2>3, <3>1, <3>2, AfterPatchType
      DEF PatchAnswered, Patch, TypeOK, JobAssumption
  <2>4. CASE PatchErrs(d)
    <3>1. \/ \E ok \in BOOLEAN : AfterPatch(d, ok)
          \/ UNCHANGED <<pc, hb, verdict>>
      BY <2>4 DEF PatchErrs
    <3>2. tries' \in [Dispatch -> 0..PatchTries]
      BY <2>4 DEF PatchErrs, More, TypeOK, JobAssumption
    <3>3. /\ pc' \in [Dispatch -> Working \cup {"new", "ended", "dead"}]
          /\ hb' \in [Dispatch -> {"off", "on", "gone"}]
          /\ verdict' = verdict
      BY <3>1, AfterPatchType DEF TypeOK
    <3>4. Lost(d, Status(d))
      BY <2>4 DEF PatchErrs
    <3>5. /\ row' \in [st : Verdict \cup {"PROCESSING", "GONE"}, att : Nat \ {0}]
          /\ applied' \subseteq Nat \ {0}
          /\ late' \subseteq [from : Dispatch, st : Verdict \cup {"PROCESSING", "callback"}]
      BY <2>1, <3>4, LostType
    <3> QED
      BY <1>4, <2>2, <3>2, <3>3, <3>5 DEF Patch, TypeOK
  <2> QED
    BY <1>4, <2>3, <2>4 DEF Patch
<1>5. ASSUME NEW d \in Dispatch, PatchVoid(d) PROVE TypeOK'
  BY <1>5, AfterPatchType DEF PatchVoid, TypeOK, jobVars
<1>6. ASSUME NEW d \in Dispatch, Fetch(d) PROVE TypeOK'
  <2>1. CASE \E step \in {"work", "hung"} :
                 Goto(d, step) /\ UNCHANGED <<handled, verdict, tries>>
    BY <1>6, <2>1, GotoType DEF Fetch, TypeOK, jobVars, hbVars, Working
  <2>2. CASE Returned(d) \/ Raised(d)
    BY <1>6, <2>2, HandledType DEF Fetch, TypeOK, jobVars, hbVars
  <2> QED
    BY <1>6, <2>1, <2>2 DEF Fetch
<1>7. ASSUME NEW d \in Dispatch, Work(d) PROVE TypeOK'
  BY <1>7, HandledType DEF Work, TypeOK, jobVars, hbVars
<1>8. ASSUME NEW d \in Dispatch, Callback(d) PROVE TypeOK'
  <2>1. Returned(d) \/ Raised(d)
    BY <1>8 DEF Callback
  <2>2. answer' \in [Dispatch -> {"none", "accepted", "refused"}]
    BY <1>8 DEF Callback, Hears, TypeOK
  <2>3. /\ row' \in [st : Verdict \cup {"PROCESSING", "GONE"}, att : Nat \ {0}]
        /\ applied' \subseteq Nat \ {0}
        /\ late' \subseteq [from : Dispatch, st : Verdict \cup {"PROCESSING", "callback"}]
    BY <1>8, ResultType, LostType DEF Callback, TypeOK
  <2> QED
    BY <1>8, <2>1, <2>2, <2>3, HandledType DEF Callback, TypeOK, hbVars
<1>9. ASSUME NEW d \in Dispatch, Wake(d) PROVE TypeOK'
  BY <1>9, GotoType DEF Wake, TypeOK, jobVars, hbVars, Working
<1>10. ASSUME NEW d \in Dispatch, Heartbeat(d) PROVE TypeOK'
  <2>1. hbTries' \in [Dispatch -> 0..(PatchTries - 1)]
    <3>1. \/ UNCHANGED hbTries
          \/ hbTries' = [hbTries EXCEPT ![d] = 0]
          \/ hbTries' = [hbTries EXCEPT ![d] = hbTries[d] + 1] /\ ~(hbTries[d] + 1 >= PatchTries)
      BY <1>10 DEF Heartbeat, HeartbeatStops, HeartbeatPatch, HeartbeatErrs,
         HeartbeatRevokes, Spent, More, TypeOK, JobAssumption
    <3>2. hbTries \in [Dispatch -> 0..(PatchTries - 1)]
      BY DEF TypeOK
    <3>3. 0 \in 0..(PatchTries - 1)
      BY DEF JobAssumption
    <3>4. ~(hbTries[d] + 1 >= PatchTries) => hbTries[d] + 1 \in 0..(PatchTries - 1)
      <4>1. hbTries[d] \in 0..(PatchTries - 1) /\ PatchTries \in Nat
        BY <3>2 DEF JobAssumption
      <4> QED
        BY <4>1
    <3>5. CASE hbTries' = [hbTries EXCEPT ![d] = 0]
      BY <3>2, <3>3, <3>5, ExceptType
    <3>6. CASE hbTries' = [hbTries EXCEPT ![d] = hbTries[d] + 1] /\ ~(hbTries[d] + 1 >= PatchTries)
      BY <3>2, <3>4, <3>6, ExceptType
    <3>7. CASE UNCHANGED hbTries
      BY <3>2, <3>7
    <3> QED
      BY <3>1, <3>5, <3>6, <3>7
  <2>2. hb' \in [Dispatch -> {"off", "on", "gone"}] /\ void' \subseteq Dispatch
    BY <1>10 DEF Heartbeat, HeartbeatStops, HeartbeatPatch, HeartbeatErrs,
       HeartbeatRevokes, TypeOK
  <2>3. UNCHANGED <<jobVars, runVars>>
    BY <1>10 DEF Heartbeat, HeartbeatStops, HeartbeatPatch, HeartbeatErrs, HeartbeatRevokes
  <2> QED
    BY <2>1, <2>2, <2>3 DEF TypeOK, jobVars, runVars
<1>11. ASSUME NEW d \in Dispatch, Expire(d) PROVE TypeOK'
  BY <1>11 DEF Expire, TypeOK, jobVars, runVars, hbVars
<1>12. ASSUME NEW d \in Dispatch, Crash(d) PROVE TypeOK'
  BY <1>12, GotoType DEF Crash, TypeOK, jobVars
<1>13. ASSUME Sweep \/ Delete PROVE TypeOK'
  BY <1>13 DEF Sweep, Delete, TypeOK, runVars, hbVars, Verdict, Terminal
<1>14. ASSUME NEW m \in late, LateArrives(m) PROVE TypeOK'
  <2>1. m.from \in Dispatch /\ m.st \in Verdict \cup {"PROCESSING", "callback"}
    BY DEF TypeOK
  <2>2. /\ row' \in [st : Verdict \cup {"PROCESSING", "GONE"}, att : Nat \ {0}]
        /\ applied' \subseteq Nat \ {0}
    BY <1>14, <2>1, AcceptsType, ResultType DEF LateArrives, TypeOK
  <2> QED
    BY <1>14, <2>2 DEF LateArrives, TypeOK, runVars, hbVars
<1>15. CASE UNCHANGED vars
  BY <1>15 DEF TypeOK, vars, jobVars, runVars, hbVars
<1> QED
  BY <1>1, <1>2, <1>3, <1>4, <1>5, <1>6, <1>7, <1>8, <1>9, <1>10, <1>11, <1>12,
     <1>13, <1>14, <1>15 DEF Next, JobThread

-----------------------------------------------------------------------------
(* No step breaks the story of a dispatch. *)
LEMMA DispatchStep ==
    ASSUME TypeOK, DispatchInv, [Next]_vars
    PROVE  DispatchInv'
<1> USE JobAssumption DEF DispatchInv, Over, Verdict, Terminal
<1>1. ASSUME NEW d \in Dispatch, Deliver(d) PROVE DispatchInv'
  BY <1>1 DEF TypeOK, Deliver, jobVars, hbVars
<1>2. ASSUME NEW d \in Dispatch, CheckStale(d) PROVE DispatchInv'
  BY <1>2 DEF TypeOK, CheckStale, ToReport, Goto, jobVars, hbVars
<1>3. ASSUME NEW d \in Dispatch, GetStatus(d) PROVE DispatchInv'
  BY <1>3 DEF TypeOK, GetStatus, Goto, jobVars, hbVars
<1>4. ASSUME NEW d \in Dispatch, Patch(d) PROVE DispatchInv'
  <2>1. \/ \E ok \in BOOLEAN : AfterPatch(d, ok)
        \/ UNCHANGED <<pc, hb, verdict>>
    BY <1>4 DEF Patch, PatchAnswered, PatchErrs
  <2>2. /\ verdict' = verdict
        /\ \/ pc' = pc
           \/ pc[d] = "claim" /\ pc' = [pc EXCEPT ![d] = "fetch"]
           \/ pc' = [pc EXCEPT ![d] = "ended"]
    BY <2>1, <1>4 DEF AfterPatch, Started
  <2>3. /\ pc[d] \in {"claim", "report"}
        /\ said' = [said EXCEPT ![d] = @ \cup ({Status(d)} \cap Verdict)]
        /\ UNCHANGED <<kind, att, answer, handled>>
    BY <1>4 DEF Patch
  <2>4. said'[d] \subseteq {verdict[d]} /\ (pc[d] = "claim" => said'[d] = {})
    BY <2>3 DEF TypeOK, Status
  <2>5. kind = "owned" /\ answer[d] = "accepted" => FALSE
    BY <2>3
  <2>6. SUFFICES ASSUME NEW e \in Dispatch
                 PROVE  /\ pc'[e] \notin {"report", "ended", "dead"} =>
                               said'[e] = {} /\ verdict[e] = "none" /\ handled[e] = "none"
                        /\ pc'[e] = "report" => verdict[e] \in Verdict
                        /\ said'[e] \subseteq {verdict[e]}
                        /\ kind = "owned" /\ answer[e] = "accepted" =>
                               pc'[e] \in {"ended", "dead"} /\ said'[e] = {}
    BY <2>2, <2>3
  <2>7. CASE e = d
    BY <2>2, <2>3, <2>4, <2>5, <2>7 DEF TypeOK
  <2>8. CASE e # d
    <3>1. pc'[e] = pc[e] /\ said'[e] = said[e]
      BY <2>2, <2>3, <2>8 DEF TypeOK
    <3> QED
      BY <3>1
  <2> QED
    BY <2>7, <2>8
<1>5. ASSUME NEW d \in Dispatch, PatchVoid(d) PROVE DispatchInv'
  <2>1. pc' = [pc EXCEPT ![d] = "ended"] /\ pc[d] \in {"claim", "report"}
    BY <1>5 DEF PatchVoid, AfterPatch, Started
  <2> QED
    <3>1. UNCHANGED <<kind, att, verdict, answer, handled, said>>
      BY <1>5 DEF PatchVoid, AfterPatch, jobVars
    <3>2. ~(kind = "owned" /\ answer[d] = "accepted")
      BY <2>1
    <3>3. pc'[d] = "ended" /\ \A e \in Dispatch : e # d => pc'[e] = pc[e]
      BY <2>1 DEF TypeOK
    <3>4. said[d] = {} \/ pc[d] = "report"
      BY <2>1
    <3> QED
      BY <3>1, <3>2, <3>3, <3>4
<1>6. ASSUME NEW d \in Dispatch, Fetch(d) PROVE DispatchInv'
  BY <1>6 DEF TypeOK, Fetch, Returned, Raised, ReportsCompletion, AttemptsLeft,
     ToReport, Goto, jobVars, hbVars
<1>7. ASSUME NEW d \in Dispatch, Work(d) PROVE DispatchInv'
  BY <1>7 DEF TypeOK, Work, Returned, Raised, ReportsCompletion, AttemptsLeft,
     ToReport, Goto, jobVars, hbVars
<1>8. ASSUME NEW d \in Dispatch, Callback(d) PROVE DispatchInv'
  BY <1>8 DEF TypeOK, Callback, Hears, Returned, Raised, ReportsCompletion,
     AttemptsLeft, ToReport, Goto, hbVars
<1>9. ASSUME NEW d \in Dispatch, Wake(d) PROVE DispatchInv'
  BY <1>9 DEF TypeOK, Wake, Goto, jobVars, hbVars
<1>10. ASSUME NEW d \in Dispatch, Heartbeat(d) PROVE DispatchInv'
  BY <1>10 DEF Heartbeat, HeartbeatStops, HeartbeatPatch, HeartbeatErrs,
     HeartbeatRevokes, jobVars, runVars
<1>11. ASSUME NEW d \in Dispatch, Expire(d) PROVE DispatchInv'
  BY <1>11 DEF Expire, jobVars, runVars, hbVars
<1>12. ASSUME NEW d \in Dispatch, Crash(d) PROVE DispatchInv'
  BY <1>12 DEF TypeOK, Crash, Working, Goto, jobVars
<1>13. ASSUME Sweep \/ Delete \/ \E m \in late : LateArrives(m) PROVE DispatchInv'
  BY <1>13 DEF Sweep, Delete, LateArrives, runVars, hbVars
<1>14. CASE UNCHANGED vars
  BY <1>14 DEF vars, jobVars, runVars, hbVars
<1> QED
  BY <1>1, <1>2, <1>3, <1>4, <1>5, <1>6, <1>7, <1>8, <1>9, <1>10, <1>11, <1>12,
     <1>13, <1>14 DEF Next, JobThread

-----------------------------------------------------------------------------
(* What an applied or late request can say of its dispatch. *)
Truthful(d, s) ==
    /\ pc[d] # "new"
    /\ s = "COMPLETED" => handled[d] = "returned" /\ kind # "owned"
    /\ s = "PENDING" => att[d] < MaxAttempts

(* The status a dispatch is about to PATCH is the truth about it. *)
LEMMA StatusTruthful ==
    ASSUME TypeOK, DispatchInv, NEW d \in Dispatch, pc[d] \in {"claim", "report"}
    PROVE  /\ Truthful(d, Status(d)) /\ Truthful(d, "callback")
           /\ Status(d) # "callback"
BY DEF TypeOK, DispatchInv, Truthful, Status, Verdict, Terminal

(* Applied, it keeps the row in its budget and completes it only with reason. *)
LEMMA AcceptsRow ==
    ASSUME TypeOK, BudgetInv, CompletedHasReturn, NEW d \in Dispatch,
           NEW s \in Verdict \cup {"PROCESSING"}, Truthful(d, s), Accepts(d, s)
    PROVE  /\ row'.att <= MaxAttempts
           /\ row'.st = "COMPLETED" =>
                  IF kind = "owned" THEN row'.att \in applied
                  ELSE \E e \in Dispatch : att[e] = row'.att /\ handled[e] = "returned"
<1> USE JobAssumption DEF Verdict, Terminal
<1>1. row.att = att[d] /\ att[d] \in Nat /\ row.st # "GONE" /\ MaxAttempts \in Nat
  BY DEF TypeOK, Accepts, Current, JobAssumption
<1>2. CASE s = "PENDING"
  BY <1>1, <1>2 DEF Accepts, Truthful
<1>3. CASE s = "COMPLETED"
  BY <1>1, <1>3 DEF Accepts, Truthful, TypeOK, BudgetInv
<1>4. CASE s = "FAILED"
  BY <1>1, <1>4 DEF Accepts, TypeOK, BudgetInv
<1>5. CASE s = "PROCESSING" /\ row.st = "PENDING"
  BY <1>1, <1>5 DEF Accepts, TypeOK, BudgetInv
<1>6. CASE s = "PROCESSING" /\ row.st # "PENDING"
  BY <1>1, <1>6 DEF Accepts, TypeOK, BudgetInv, CompletedHasReturn
<1> QED
  BY <1>2, <1>3, <1>4, <1>5, <1>6

(* An applied result keeps the budget, and completes a row only for an owned job. *)
LEMMA ResultRow ==
    ASSUME TypeOK, BudgetInv, CompletedHasReturn, NEW d \in Dispatch, AppliesResult(d)
    PROVE  /\ row'.att <= MaxAttempts /\ applied \subseteq applied'
           /\ row'.st = "COMPLETED" =>
                  IF kind = "owned" THEN row'.att \in applied'
                  ELSE \E e \in Dispatch : att[e] = row'.att /\ handled[e] = "returned"
<1>1. CASE kind = "owned"
  BY <1>1 DEF AppliesResult, Current, TypeOK, BudgetInv
<1>2. CASE kind # "owned"
  BY <1>2 DEF AppliesResult, BudgetInv, CompletedHasReturn
<1> QED
  BY <1>1, <1>2

(* The row, the results and the late requests after a request of d that said
   s, whatever became of it. *)
Sound(d, s) ==
    /\ row'.att <= MaxAttempts /\ applied \subseteq applied'
    /\ late' \subseteq late \cup {[from |-> d, st |-> s]}
    /\ row'.st = "COMPLETED" =>
           IF kind = "owned" THEN row'.att \in applied'
           ELSE \E e \in Dispatch : att[e] = row'.att /\ handled[e] = "returned"

(* A request whose client saw an error is sound whatever became of it. *)
LEMMA LostSound ==
    ASSUME TypeOK, BudgetInv, CompletedHasReturn, NEW d \in Dispatch,
           NEW s \in Verdict \cup {"PROCESSING", "callback"}, Truthful(d, s), Lost(d, s)
    PROVE  Sound(d, s)
<1>1. CASE UNCHANGED <<row, applied, late>>
  BY <1>1 DEF Sound, BudgetInv, CompletedHasReturn
<1>2. CASE s = "callback" /\ AppliesResult(d) /\ UNCHANGED late
  BY <1>2, ResultRow DEF Sound
<1>3. CASE s # "callback" /\ Accepts(d, s) /\ UNCHANGED <<applied, late>>
  BY <1>3, AcceptsRow DEF Sound
<1>4. CASE late' = late \cup {[from |-> d, st |-> s]} /\ UNCHANGED <<row, applied>>
  BY <1>4 DEF Sound, BudgetInv, CompletedHasReturn
<1> QED
  BY <1>1, <1>2, <1>3, <1>4 DEF Lost

(* Every step moves the row, the results and the late requests soundly: by a
   truthful request of some dispatch, or not at all but for what keeps them
   sound anyway. *)
LEMMA RowStep ==
    ASSUME JobInv, [Next]_vars
    PROVE  /\ row'.att <= MaxAttempts /\ applied \subseteq applied'
           /\ row'.st = "COMPLETED" =>
                  IF kind = "owned" THEN row'.att \in applied'
                  ELSE \E e \in Dispatch : att[e] = row'.att /\ handled[e] = "returned"
           /\ \A m \in late' :
                  m \in late \/ (m.from \in Dispatch /\ Truthful(m.from, m.st))
<1> DEFINE Goal ==
        /\ row'.att <= MaxAttempts /\ applied \subseteq applied'
        /\ row'.st = "COMPLETED" =>
               IF kind = "owned" THEN row'.att \in applied'
               ELSE \E e \in Dispatch : att[e] = row'.att /\ handled[e] = "returned"
        /\ \A m \in late' :
               m \in late \/ (m.from \in Dispatch /\ Truthful(m.from, m.st))
<1> USE JobAssumption
<1>1. CASE UNCHANGED <<row, applied, late>>
  BY <1>1 DEF JobInv, BudgetInv, CompletedHasReturn
<1>2. ASSUME NEW d \in Dispatch, NEW s \in Verdict \cup {"PROCESSING", "callback"},
             Truthful(d, s), Sound(d, s)
      PROVE  Goal
  BY <1>2 DEF Sound
<1>3. ASSUME NEW d \in Dispatch, Patch(d) PROVE Goal
  <2>1. /\ Status(d) \in Verdict \cup {"PROCESSING"}
        /\ Truthful(d, Status(d))
    BY <1>3, StatusType, StatusTruthful DEF Patch, JobInv, DispatchInv
  <2>2. CASE PatchAnswered(d)
    <3>1. CASE Accepts(d, Status(d)) /\ UNCHANGED <<applied, late>>
      BY <2>1, <3>1, AcceptsRow DEF JobInv
    <3>2. CASE Refuses(d, Status(d)) /\ UNCHANGED <<applied, late>>
      BY <1>1, <3>2 DEF Refuses
    <3> QED
      BY <2>2, <3>1, <3>2 DEF PatchAnswered
  <2>3. CASE PatchErrs(d)
    BY <1>2, <2>1, <2>3, LostSound DEF PatchErrs, JobInv
  <2> QED
    BY <1>3, <2>2, <2>3 DEF Patch
<1>4. ASSUME NEW d \in Dispatch, Callback(d) PROVE Goal
  <2>1. Truthful(d, "callback")
    BY <1>4 DEF Callback, Truthful
  <2>2. CASE AppliesResult(d) /\ UNCHANGED late
    BY <2>2, ResultRow DEF JobInv
  <2>3. CASE Lost(d, "callback")
    BY <1>2, <2>1, <2>3, LostSound DEF JobInv
  <2> QED
    BY <1>1, <1>4, <2>2, <2>3 DEF Callback
<1>5. ASSUME NEW m \in late, LateArrives(m) PROVE Goal
  <2>1. /\ m.from \in Dispatch /\ m.st \in Verdict \cup {"PROCESSING", "callback"}
        /\ Truthful(m.from, m.st) /\ late' \subseteq late
    BY <1>5 DEF LateArrives, JobInv, LateInv, Truthful, TypeOK
  <2>2. CASE AppliesResult(m.from)
    BY <2>1, <2>2, ResultRow DEF JobInv
  <2>3. CASE m.st # "callback" /\ Accepts(m.from, m.st) /\ UNCHANGED applied
    BY <2>1, <2>3, AcceptsRow DEF JobInv
  <2>4. CASE UNCHANGED <<row, applied>>
    BY <2>1, <2>4 DEF JobInv, BudgetInv, CompletedHasReturn
  <2> QED
    BY <1>5, <2>2, <2>3, <2>4 DEF LateArrives
<1>6. ASSUME Sweep \/ Delete PROVE Goal
  <2>1. row.att \in Nat /\ row \in [st : Verdict \cup {"PROCESSING", "GONE"}, att : Nat \ {0}]
    BY DEF JobInv, TypeOK
  <2>2. row.att <= MaxAttempts /\ MaxAttempts \in Nat /\ UNCHANGED <<applied, late>>
    BY <1>6 DEF JobInv, BudgetInv, JobAssumption, Sweep, Delete
  <2>3. row'.att <= MaxAttempts /\ row'.st # "COMPLETED"
    BY <1>6, <2>1, <2>2 DEF Sweep, Delete
  <2> QED
    BY <2>2, <2>3
<1>7. \A d \in Dispatch :
          Deliver(d) \/ CheckStale(d) \/ GetStatus(d) \/ PatchVoid(d) \/ Fetch(d) \/ Work(d)
          \/ Wake(d) \/ Heartbeat(d) \/ Expire(d) \/ Crash(d)
              => UNCHANGED <<row, applied, late>>
  BY DEF Deliver, CheckStale, GetStatus, PatchVoid, Fetch, Work, Wake, Heartbeat,
     HeartbeatStops, HeartbeatPatch, HeartbeatErrs, HeartbeatRevokes, Expire, Crash, jobVars
<1>8. CASE UNCHANGED vars
  BY <1>1, <1>8 DEF vars, jobVars
<1> QED
  BY <1>1, <1>3, <1>4, <1>5, <1>6, <1>7, <1>8 DEF Next, JobThread

(* What was true of a dispatch that spoke stays true: it is delivered once,
   its attempt is fixed from then on, and a handler that ended has ended. *)
LEMMA StaysTruthful ==
    ASSUME TypeOK, DispatchInv, [Next]_vars, NEW d \in Dispatch, pc[d] # "new"
    PROVE  /\ kind' = kind /\ att'[d] = att[d] /\ pc'[d] # "new"
           /\ handled[d] # "none" => handled'[d] = handled[d]
<1> USE DEF DispatchInv
<1>1. ASSUME NEW e \in Dispatch, Deliver(e) PROVE att'[d] = att[d] /\ pc'[d] # "new"
  BY <1>1 DEF Deliver, TypeOK
<1>2. ASSUME NEW e \in Dispatch,
             CheckStale(e) \/ GetStatus(e) \/ PatchVoid(e) \/ Patch(e) \/ Wake(e) \/ Crash(e)
      PROVE  pc'[d] # "new" /\ UNCHANGED <<kind, att, handled>>
  <2>1. UNCHANGED <<kind, att, handled>>
    BY <1>2 DEF CheckStale, GetStatus, PatchVoid, Patch, Wake, Crash, jobVars
  <2>2. \/ pc' = pc
        \/ \E step \in {"report", "status", "claim", "ended", "fetch", "dead"} :
               pc' = [pc EXCEPT ![e] = step]
    BY <1>2 DEF CheckStale, GetStatus, PatchVoid, Patch, PatchAnswered, PatchErrs, Wake,
       Crash, Goto, ToReport, AfterPatch
  <2> QED
    BY <2>1, <2>2 DEF TypeOK
<1>3. ASSUME NEW e \in Dispatch, Fetch(e) \/ Work(e) \/ Callback(e)
      PROVE  /\ pc'[d] # "new" /\ UNCHANGED <<kind, att>>
             /\ handled[d] # "none" => handled'[d] = handled[d]
  <2>1. UNCHANGED <<kind, att>> /\ pc[e] \in {"fetch", "work"}
    BY <1>3 DEF Fetch, Work, Callback, jobVars
  <2>2. handled[e] = "none"
    BY <2>1
  <2>3. handled' = handled \/ \E h : handled' = [handled EXCEPT ![e] = h]
    BY <1>3 DEF Fetch, Work, Callback, Returned, Raised
  <2>4. \E step \in {"work", "hung", "report", "ended"} : pc' = [pc EXCEPT ![e] = step]
    BY <1>3 DEF Fetch, Work, Callback, Returned, Raised, ToReport, Goto
  <2> QED
    BY <2>1, <2>2, <2>3, <2>4 DEF TypeOK
<1>4. ASSUME NEW e \in Dispatch, Heartbeat(e) \/ Expire(e)
      PROVE  UNCHANGED <<kind, att, pc, handled>>
  BY <1>4 DEF Heartbeat, HeartbeatStops, HeartbeatPatch, HeartbeatErrs,
     HeartbeatRevokes, Expire, jobVars, runVars
<1>5. ASSUME Sweep \/ Delete \/ \E m \in late : LateArrives(m)
      PROVE  UNCHANGED <<kind, att, pc, handled>>
  BY <1>5 DEF Sweep, Delete, LateArrives, runVars
<1>6. \A e \in Dispatch : Deliver(e) => UNCHANGED <<kind, handled>>
  BY DEF Deliver, jobVars
<1>7. CASE UNCHANGED vars
  BY <1>7 DEF vars, jobVars, runVars
<1> QED
  BY <1>1, <1>2, <1>3, <1>4, <1>5, <1>6, <1>7 DEF Next, JobThread

(* The family of a job never changes. *)
LEMMA KindStep == [Next]_vars => kind' = kind
BY DEF Next, Deliver, JobThread, CheckStale, GetStatus, Patch, PatchVoid, Fetch, Work,
   Callback, Wake, Heartbeat, HeartbeatStops, HeartbeatPatch, HeartbeatErrs,
   HeartbeatRevokes, Expire, Crash, Sweep, Delete, LateArrives, vars, jobVars

(* Only a delivery gives a dispatch an attempt: the one of the row. *)
LEMMA AttemptStep ==
    [Next]_vars => att' = att \/ \E e \in Dispatch : att' = [att EXCEPT ![e] = row.att]
BY DEF Next, Deliver, JobThread, CheckStale, GetStatus, Patch, PatchVoid, Fetch, Work,
   Callback, Wake, Heartbeat, HeartbeatStops, HeartbeatPatch, HeartbeatErrs,
   HeartbeatRevokes, Expire, Crash, Sweep, Delete, LateArrives, vars, jobVars, runVars

(* A heartbeat thread leaves only with the authority or after its dispatch. *)
LEMMA HeartStep ==
    ASSUME TypeOK, HeartInv, [Next]_vars
    PROVE  HeartInv'
<1> USE DEF HeartInv, Over
<1>1. ASSUME NEW e \in Dispatch, PatchVoid(e) \/ Patch(e) PROVE HeartInv'
  <2>1. pc[e] \in {"claim", "report"} /\ UNCHANGED void
    BY <1>1 DEF PatchVoid, Patch
  <2>2. (\E ok \in BOOLEAN : AfterPatch(e, ok)) \/ UNCHANGED <<pc, hb>>
    BY <1>1 DEF PatchVoid, Patch, PatchAnswered, PatchErrs
  <2>3. CASE UNCHANGED <<pc, hb>>
    BY <2>1, <2>3
  <2>4. ASSUME NEW ok \in BOOLEAN, AfterPatch(e, ok) PROVE HeartInv'
    <3>1. /\ \A d \in Dispatch \ {e} : pc'[d] = pc[d] /\ hb'[d] = hb[d]
          /\ hb'[e] = "gone" => pc'[e] = "ended"
      BY <2>1, <2>4 DEF AfterPatch, Started, TypeOK
    <3> QED
      BY <2>1, <3>1
  <2> QED
    BY <2>2, <2>3, <2>4
<1>2. ASSUME NEW e \in Dispatch, Heartbeat(e) PROVE HeartInv'
  BY <1>2 DEF TypeOK, Heartbeat, HeartbeatStops, HeartbeatPatch, HeartbeatErrs,
     HeartbeatRevokes, runVars
<1>3. ASSUME NEW e \in Dispatch, Crash(e) PROVE HeartInv'
  BY <1>3 DEF TypeOK, Crash, Goto
<1>4. ASSUME NEW e \in Dispatch, Expire(e) PROVE HeartInv'
  BY <1>4 DEF Expire, runVars, hbVars
<1>5. ASSUME NEW e \in Dispatch,
             \/ Deliver(e) \/ CheckStale(e) \/ GetStatus(e)
             \/ Fetch(e) \/ Work(e) \/ Callback(e) \/ Wake(e)
      PROVE  HeartInv'
  <2>1. UNCHANGED <<hb, void>> /\ pc[e] \notin {"ended", "dead"}
    BY <1>5 DEF Deliver, CheckStale, GetStatus, Fetch, Work, Callback, Wake, hbVars
  <2>2. \E step : pc' = [pc EXCEPT ![e] = step]
    BY <1>5 DEF Deliver, CheckStale, GetStatus, Fetch, Work, Callback, Wake, Returned,
       Raised, ToReport, Goto
  <2> QED
    BY <2>1, <2>2 DEF TypeOK
<1>6. ASSUME Sweep \/ Delete \/ \E m \in late : LateArrives(m) PROVE HeartInv'
  BY <1>6 DEF Sweep, Delete, LateArrives, runVars, hbVars
<1>7. CASE UNCHANGED vars
  BY <1>7 DEF vars, runVars, hbVars
<1> QED
  BY <1>1, <1>2, <1>3, <1>4, <1>5, <1>6, <1>7 DEF Next, JobThread

(* The invariant is inductive. *)
LEMMA JobInvStep == JobInv /\ [Next]_vars => JobInv'
<1> SUFFICES ASSUME JobInv, [Next]_vars PROVE JobInv'
  OBVIOUS
<1>1. TypeOK' /\ DispatchInv' /\ HeartInv'
  BY TypeStep, DispatchStep, HeartStep DEF JobInv
<1>2. BudgetInv'
  <2>1. ASSUME NEW d \in Dispatch PROVE att'[d] <= MaxAttempts
    <3>1. att' = att \/ \E e \in Dispatch : att' = [att EXCEPT ![e] = row.att]
      BY AttemptStep
    <3>2. att'[d] = att[d] \/ att'[d] = row.att
      BY <3>1 DEF JobInv, TypeOK
    <3> QED
      BY <3>2 DEF JobInv, BudgetInv
  <2> QED
    BY <2>1, RowStep DEF BudgetInv
<1>3. LateInv'
  <2>1. ASSUME NEW m \in late' PROVE m.from \in Dispatch /\ Truthful(m.from, m.st)
    BY <2>1, RowStep DEF JobInv, TypeOK, LateInv, Truthful
  <2> QED
    BY <2>1, StaysTruthful DEF JobInv, LateInv, Truthful
<1>4. CompletedHasReturn'
  <2>1. CASE kind = "owned"
    BY <2>1, RowStep, KindStep DEF CompletedHasReturn
  <2>2. CASE kind # "owned" /\ row'.st = "COMPLETED"
    <3>1. PICK e \in Dispatch : att[e] = row'.att /\ handled[e] = "returned"
      BY <2>2, RowStep
    <3>2. pc[e] # "new"
      BY <3>1 DEF JobInv, DispatchInv
    <3> QED
      BY <2>2, <3>1, <3>2, StaysTruthful DEF JobInv, CompletedHasReturn
  <2> QED
    BY <2>1, <2>2, KindStep DEF CompletedHasReturn
<1> QED
  BY <1>1, <1>2, <1>3, <1>4 DEF JobInv

(* The inductive invariant holds in every reachable state. *)
LEMMA JobInvariant == Spec => []JobInv
BY JobInvInit, JobInvStep, PTL DEF Spec

-----------------------------------------------------------------------------
(* The row has left the attempt a behind: it is gone, was requeued, or has the
   outcome of that attempt. *)
Settled(a) ==
    \/ row.st = "GONE"
    \/ row.att > a
    \/ row.att = a /\ row.st \in Terminal

(* No dispatch is ahead of the row, and one that ended with authority, after its
   handler did and with tries to spare, has settled its attempt. *)
SettledInv ==
    /\ \A d \in Dispatch : att[d] <= row.att
    /\ \A d \in Dispatch :
          pc[d] = "ended" /\ handled[d] # "none" /\ d \notin void /\ tries[d] < PatchTries
              => Settled(att[d])

(* The row is written by a PATCH, a result, the sweeper or the user only. *)
LEMMA RowWriters ==
    ASSUME JobInv, [Next]_vars
    PROVE  \/ row' = row \/ Sweep \/ Delete
           \/ \E d \in Dispatch : \/ AppliesResult(d)
                                 \/ \E s \in Verdict \cup {"PROCESSING"} : Accepts(d, s)
<1>1. ASSUME NEW d \in Dispatch, NEW s \in Verdict \cup {"PROCESSING", "callback"}, Lost(d, s)
      PROVE  row' = row \/ AppliesResult(d) \/ (s # "callback" /\ Accepts(d, s))
  BY <1>1 DEF Lost
<1>2. ASSUME NEW d \in Dispatch, Patch(d)
      PROVE  row' = row \/ AppliesResult(d) \/ \E s \in Verdict \cup {"PROCESSING"} : Accepts(d, s)
  <2>1. Status(d) \in Verdict \cup {"PROCESSING"} /\ Status(d) # "callback"
    BY <1>2, StatusType, StatusTruthful DEF Patch, JobInv, DispatchInv
  <2> QED
    BY <1>1, <1>2, <2>1 DEF Patch, PatchAnswered, PatchErrs, Refuses
<1>3. ASSUME NEW d \in Dispatch, Callback(d) PROVE row' = row \/ AppliesResult(d)
  BY <1>3, <1>1 DEF Callback
<1>4. ASSUME NEW m \in late, LateArrives(m)
      PROVE  \/ row' = row
             \/ \E d \in Dispatch : \/ AppliesResult(d)
                                   \/ \E s \in Verdict \cup {"PROCESSING"} : Accepts(d, s)
  <2>1. m.from \in Dispatch /\ m.st \in Verdict \cup {"PROCESSING", "callback"}
    BY DEF JobInv, TypeOK
  <2> QED
    BY <1>4, <2>1 DEF LateArrives
<1>5. \A d \in Dispatch :
          Deliver(d) \/ CheckStale(d) \/ GetStatus(d) \/ PatchVoid(d) \/ Fetch(d) \/ Work(d)
          \/ Wake(d) \/ Heartbeat(d) \/ Expire(d) \/ Crash(d) => row' = row
  BY DEF Deliver, CheckStale, GetStatus, PatchVoid, Fetch, Work, Wake, Heartbeat,
     HeartbeatStops, HeartbeatPatch, HeartbeatErrs, HeartbeatRevokes, Expire, Crash, jobVars
<1>6. CASE UNCHANGED vars
  BY <1>6 DEF vars, jobVars
<1> QED
  BY <1>2, <1>3, <1>4, <1>5, <1>6 DEF Next, JobThread

(* The attempt of the row never goes back, and what is settled stays settled:
   a late claim or verdict of the same attempt does not reopen it. *)
LEMMA SettledStays ==
    ASSUME JobInv, [Next]_vars
    PROVE  row'.att >= row.att /\ \A a \in Nat : Settled(a) => Settled(a)'
<1> USE DEF Settled, Verdict, Terminal
<1>1. row.att \in Nat /\ row \in [st : Verdict \cup {"PROCESSING", "GONE"}, att : Nat \ {0}]
  BY DEF JobInv, TypeOK
<1>2. CASE row' = row
  BY <1>1, <1>2
<1>3. CASE Sweep \/ Delete
  BY <1>1, <1>3 DEF Sweep, Delete
<1>4. ASSUME NEW d \in Dispatch, AppliesResult(d)
      PROVE  row'.att >= row.att /\ \A a \in Nat : Settled(a) => Settled(a)'
  BY <1>1, <1>4 DEF AppliesResult, Current
<1>5. ASSUME NEW d \in Dispatch, NEW s \in Verdict \cup {"PROCESSING"}, Accepts(d, s)
      PROVE  row'.att >= row.att /\ \A a \in Nat : Settled(a) => Settled(a)'
  BY <1>1, <1>5 DEF Accepts, Current
<1> QED
  BY RowWriters, <1>2, <1>3, <1>4, <1>5

(* An accepted or refused verdict settles its attempt. *)
LEMMA VerdictSettles ==
    ASSUME JobInv, SettledInv, NEW d \in Dispatch, NEW s \in Verdict,
           Accepts(d, s) \/ Refuses(d, s), att' = att
    PROVE  Settled(att[d])'
<1> USE DEF Settled, Verdict, Terminal
<1>1. /\ row.att \in Nat /\ row \in [st : Verdict \cup {"PROCESSING", "GONE"}, att : Nat \ {0}]
      /\ att[d] \in Nat /\ att[d] <= row.att
  BY DEF JobInv, TypeOK, SettledInv
<1>2. CASE Accepts(d, s)
  BY <1>1, <1>2 DEF Accepts, Current
<1>3. CASE Refuses(d, s)
  BY <1>1, <1>3 DEF Refuses, Current
<1> QED
  BY <1>2, <1>3

(* The step with which a dispatch ends settles its attempt, unless its handler
   never ended, its authority is gone or its tries are spent. *)
LEMMA EndSettles ==
    ASSUME JobInv, SettledInv, [Next]_vars, NEW d \in Dispatch,
           pc[d] # "ended", pc'[d] = "ended", handled'[d] # "none",
           d \notin void', tries'[d] < PatchTries
    PROVE  Settled(att[d])'
<1> USE JobAssumption DEF JobInv, DispatchInv
<1>1. ASSUME NEW e \in Dispatch, PatchVoid(e) PROVE FALSE
  <2>1. e \in void /\ UNCHANGED void
    BY <1>1 DEF PatchVoid, Valid
  <2>2. pc' = [pc EXCEPT ![e] = "ended"]
    BY <1>1 DEF PatchVoid, AfterPatch, Started
  <2> QED
    BY <2>1, <2>2 DEF TypeOK
<1>2. ASSUME NEW e \in Dispatch, Patch(e) PROVE Settled(att[d])'
  <2>1. e = d
    BY <1>2, ZenonT(60) DEF Patch, PatchAnswered, PatchErrs, AfterPatch, TypeOK
  <2>2. pc[d] = "report" /\ Status(d) \in Verdict /\ att' = att
    BY <1>2, <2>1 DEF Patch, Status
  <2>3. ~PatchErrs(d)
    <3>1. ASSUME PatchErrs(d) PROVE FALSE
      <4>1. Spent(tries[d]) /\ tries' = [tries EXCEPT ![d] = More(@)]
        BY <3>1 DEF PatchErrs
      <4>2. tries'[d] = PatchTries
        BY <4>1 DEF Spent, More, TypeOK, JobAssumption
      <4> QED
        BY <4>2 DEF JobAssumption
    <3> QED
      BY <3>1
  <2>4. Accepts(d, Status(d)) \/ Refuses(d, Status(d))
    BY <1>2, <2>1, <2>3 DEF Patch, PatchAnswered
  <2> QED
    BY <2>2, <2>4, VerdictSettles
<1>3. ASSUME NEW e \in Dispatch, Callback(e) PROVE Settled(att[d])'
  <2>1. e = d
    BY <1>3 DEF Callback, Returned, Raised, ToReport, Goto, TypeOK
  <2>2. Returned(d) /\ kind = "owned"
    BY <1>3, <2>1 DEF Callback, Returned, Raised, ReportsCompletion, ToReport, Goto, TypeOK
  <2>3. AppliesResult(d) /\ att' = att
    BY <1>3, <2>1, <2>2 DEF Callback, Returned, Raised, ReportsCompletion, ToReport, Goto, TypeOK
  <2> QED
    BY <2>2, <2>3 DEF AppliesResult, Current, Settled, TypeOK
<1>4. ASSUME NEW e \in Dispatch, Fetch(e) \/ Work(e) PROVE FALSE
  BY <1>4 DEF Fetch, Work, Returned, Raised, ReportsCompletion, ToReport, Goto, TypeOK
<1>5. ASSUME NEW e \in Dispatch,
             Deliver(e) \/ CheckStale(e) \/ GetStatus(e) \/ Wake(e) \/ Crash(e)
      PROVE  FALSE
  BY <1>5 DEF Deliver, CheckStale, GetStatus, Wake, Crash, ToReport, Goto, TypeOK
<1>6. ASSUME NEW e \in Dispatch, Heartbeat(e) \/ Expire(e) PROVE FALSE
  BY <1>6 DEF Heartbeat, HeartbeatStops, HeartbeatPatch, HeartbeatErrs, HeartbeatRevokes,
     Expire, runVars
<1>7. ~(Sweep \/ Delete \/ (\E m \in late : LateArrives(m)) \/ UNCHANGED vars)
  BY DEF Sweep, Delete, LateArrives, vars, runVars
<1> QED
  BY <1>1, <1>2, <1>3, <1>4, <1>5, <1>6, <1>7 DEF Next, JobThread

(* A dispatch that has ended does nothing more, and authority never comes
   back. *)
LEMMA EndedStays ==
    ASSUME JobInv, [Next]_vars, NEW d \in Dispatch, pc[d] = "ended"
    PROVE  /\ void \subseteq void' /\ att'[d] = att[d]
           /\ handled'[d] = handled[d] /\ tries'[d] = tries[d]
<1> USE DEF JobInv
<1>1. ASSUME NEW e \in Dispatch, Patch(e) \/ PatchVoid(e)
      PROVE  e # d /\ UNCHANGED <<void, att, handled>> /\ tries'[d] = tries[d]
  BY <1>1 DEF Patch, PatchAnswered, PatchErrs, PatchVoid, TypeOK
<1>2. ASSUME NEW e \in Dispatch, Callback(e) \/ Fetch(e) \/ Work(e)
      PROVE  UNCHANGED <<void, att>> /\ handled'[d] = handled[d] /\ tries'[d] = tries[d]
  <2>1. e # d /\ UNCHANGED <<void, att>> /\ (Returned(e) \/ Raised(e) \/ UNCHANGED <<handled, tries>>)
    BY <1>2 DEF Callback, Fetch, Work
  <2> QED
    BY <2>1 DEF Returned, Raised, ToReport, TypeOK
<1>3. ASSUME NEW e \in Dispatch, Deliver(e) \/ CheckStale(e)
      PROVE  /\ UNCHANGED <<void, handled>> /\ att'[d] = att[d] /\ tries'[d] = tries[d]
  BY <1>3 DEF Deliver, CheckStale, ToReport, TypeOK
<1>4. ASSUME NEW e \in Dispatch,
             GetStatus(e) \/ Wake(e) \/ Crash(e) \/ Heartbeat(e) \/ Expire(e)
      PROVE  void \subseteq void' /\ UNCHANGED <<att, handled, tries>>
  BY <1>4 DEF GetStatus, Wake, Crash, Heartbeat, HeartbeatStops, HeartbeatPatch, HeartbeatErrs,
     HeartbeatRevokes, Expire, runVars
<1>5. ASSUME Sweep \/ Delete \/ (\E m \in late : LateArrives(m)) \/ UNCHANGED vars
      PROVE  UNCHANGED <<void, att, handled, tries>>
  BY <1>5 DEF Sweep, Delete, LateArrives, vars, runVars
<1> QED
  BY <1>1, <1>2, <1>3, <1>4, <1>5 DEF Next, JobThread

(* So what has ended stays settled, and no dispatch gets ahead of the row. *)
LEMMA SettledInvariant == Spec => []SettledInv
<1>1. Init => SettledInv
  BY JobAssumption DEF Init, SettledInv
<1>2. JobInv /\ SettledInv /\ [Next]_vars => SettledInv'
  <2> SUFFICES ASSUME JobInv, SettledInv, [Next]_vars
               PROVE  SettledInv'
    OBVIOUS
  <2>1. ASSUME NEW d \in Dispatch PROVE att'[d] <= row'.att
    <3>1. att'[d] = att[d] \/ att'[d] = row.att
      BY AttemptStep DEF JobInv, TypeOK
    <3>2. /\ att[d] \in Nat /\ row.att \in Nat /\ row'.att \in Nat
          /\ att[d] <= row.att /\ row'.att >= row.att
      BY JobInvStep, SettledStays DEF JobInv, TypeOK, SettledInv
    <3> QED
      BY <3>1, <3>2
  <2>2. ASSUME NEW d \in Dispatch,
               pc'[d] = "ended", handled'[d] # "none", d \notin void', tries'[d] < PatchTries
        PROVE  Settled(att[d])'
    <3>1. CASE pc[d] # "ended"
      BY <2>2, <3>1, EndSettles
    <3>2. CASE pc[d] = "ended"
      <4>1. Settled(att[d]) /\ att'[d] = att[d] /\ att[d] \in Nat
        BY <2>2, <3>2, EndedStays DEF SettledInv, JobInv, TypeOK
      <4> QED
        BY <4>1, SettledStays DEF Settled
    <3> QED
      BY <3>1, <3>2
  <2> QED
    BY <2>1, <2>2 DEF SettledInv
<1> QED
  BY <1>1, <1>2, JobInvariant, PTL DEF Spec

-----------------------------------------------------------------------------
(* The type invariant of JobLifecycle holds for every instance. *)
THEOREM TypeCorrect == Spec => []TypeOK
BY JobInvariant, PTL DEF JobInv

(* maxAttempts bounds the attempts of a job however many dispatches, late
   PATCHes, sweeps and retries it meets. *)
THEOREM AttemptsBounded == Spec => []RetryBudget
<1>1. JobInv => RetryBudget
  BY DEF JobInv, BudgetInv, RetryBudget
<1> QED
  BY <1>1, JobInvariant, PTL

(* A dispatch reports one verdict at most, and a true one. *)
THEOREM VerdictIsOne == Spec => []OneVerdict
<1>1. JobInv => OneVerdict
  <2> SUFFICES ASSUME JobInv, NEW d \in Dispatch
               PROVE  /\ Cardinality(said[d] \cap Verdict) <= 1
                      /\ "COMPLETED" \in said[d] => handled[d] = "returned"
                      /\ "PENDING" \in said[d] => handled[d] = "raised"
    BY DEF OneVerdict
  <2>1. said[d] \cap Verdict = {} \/ said[d] \cap Verdict = {verdict[d]}
    BY DEF JobInv, DispatchInv
  <2>2. Cardinality(said[d] \cap Verdict) <= 1
    <3>1. Cardinality({}) = 0 /\ Cardinality({verdict[d]}) = 1
      BY FS_EmptySet, FS_Singleton
    <3>2. CASE said[d] \cap Verdict = {}
      BY <3>1, <3>2
    <3>3. CASE said[d] \cap Verdict = {verdict[d]}
      BY <3>1, <3>3
    <3> QED
      BY <2>1, <3>2, <3>3
  <2> QED
    BY <2>2 DEF JobInv, DispatchInv
<1> QED
  BY <1>1, JobInvariant, PTL

(* A COMPLETED row has a handler that returned, or an applied cleanup
   callback, behind it. *)
THEOREM CompletionIsEarned == Spec => []CompletedHasReturn
BY JobInvariant, PTL DEF JobInv

(* A dispatch that ran its handler to an end, kept its authority and had tries to
   spare never leaves its row PROCESSING for the sweeper, whatever the late
   requests of other dispatches did in between. *)
THEOREM NothingIsLost == Spec => []NoSilentLoss
<1>1. JobInv /\ SettledInv => NoSilentLoss
  BY DEF JobInv, TypeOK, SettledInv, Settled, NoSilentLoss, Valid, Terminal
<1> QED
  BY <1>1, JobInvariant, SettledInvariant, PTL

(* The worker never overrules the backend's outcome of a cleanup job. *)
THEOREM OutcomeIsTheBackends == Spec => []OwnedStands
<1>1. JobInv => OwnedStands
  BY DEF JobInv, DispatchInv, OwnedStands
<1> QED
  BY <1>1, JobInvariant, PTL

(* A dispatch without authority, or without its heartbeat thread, sends
   nothing that reaches the backend. *)
THEOREM SilenceAfterRevocation == Spec => VoidIsSilent
<1>1. JobInv /\ [Next]_vars =>
          [\A d \in Dispatch :
              d \in void \/ hb[d] = "gone" =>
                  (JobThread(d) => UNCHANGED <<row, applied, late, said>>)]_vars
  <2> SUFFICES ASSUME JobInv, [Next]_vars, NEW d \in Dispatch,
                      d \in void \/ hb[d] = "gone", JobThread(d)
               PROVE  UNCHANGED <<row, applied, late, said>>
    BY Zenon
  <2>1. ~Over(d)
    BY DEF JobThread, CheckStale, GetStatus, Patch, PatchVoid, Fetch, Work, Callback, Over
  <2>2. ~Valid(d)
    BY <2>1 DEF JobInv, HeartInv, Valid
  <2> QED
    BY <2>2 DEF JobThread, CheckStale, GetStatus, Patch, PatchVoid, Fetch, Work, Callback,
       jobVars
<1> QED
  BY <1>1, JobInvariant, PTL DEF Spec, VoidIsSilent
=============================================================================
