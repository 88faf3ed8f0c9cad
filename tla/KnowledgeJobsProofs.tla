------------------------ MODULE KnowledgeJobsProofs ------------------------
(***************************************************************************)
(* Theorems about KnowledgeJobs for any number of requests, jobs, stages,  *)
(* rules and crashes.                                                      *)
(*                                                                         *)
(* KnowledgeIsKept is not inductive.  Inv adds what a thread in the middle *)
(* of its work relies on: that the taxonomy it has saved or found is still *)
(* there unless somebody deleted it since the run began, and that the      *)
(* temporary reference of a rule that is being made is there and nobody    *)
(* else makes the same rule.                                               *)
(***************************************************************************)
EXTENDS KnowledgeJobs, TLAPS

JobStatuses == {"none", "pending", "running", "completed", "failed"}
Results == [by : Jobs] \cup {None}
JobRows == [status : JobStatuses, hint : Hints \cup {None}, failed : BOOLEAN,
            result : Results]

(* What the thread of the scheduler and the requests hold. *)
WorkerOK ==
    \/ worker = Idle
    \/ /\ worker \in [at : {"open", "cached", "ask", "saved"}, job : Jobs,
                      hint : Hints \cup {None}, stage : Nat,
                      cached : Jobs \cup {None}]
       /\ worker.at = "cached" => worker.cached \in Jobs

RequestOK(c) ==
    \/ request[c] = Idle
    \/ request[c] \in [at : {"submit"}, job : Jobs]
    \/ request[c] \in [at : {"ask"}, rule : Rules]

Types ==
    /\ TypeOK /\ WorkerOK
    /\ request \in [Requests -> {Idle} \cup [at : {"submit"}, job : Jobs]
                                       \cup [at : {"ask"}, rule : Rules]]
    /\ rules \in [Rules -> {"none", "running", "completed", "failed"}]
    /\ active \in BOOLEAN

(* The taxonomy that the thread has saved, or found in the cache, is there *)
(* unless it was deleted since the run began.                              *)
WorkerIsRight ==
    worker.at \in {"cached", "saved"} => taxonomy # None \/ worker.job \in undone

Asking(c) == request[c].at = "ask"

(* A rule that is being made has its reference, which nobody else touches, *)
(* and a snapshot with references is not deleted.                          *)
RulesInv ==
    /\ CurrentRuleIsKept
    /\ refs # {} => active
    /\ \A c \in Requests :
         Asking(c) => /\ rules[request[c].rule] = "running"
                      /\ [rule |-> request[c].rule, state |-> "temporary"] \in refs
    /\ \A c, d \in Requests :
         Asking(c) /\ Asking(d) /\ request[c].rule = request[d].rule => c = d

Inv == Types /\ ActiveIsAwaited /\ CompletedIsStored /\ WorkerIsRight /\ RulesInv

JobsInv == ActiveIsAwaited /\ CompletedIsStored /\ WorkerIsRight

-----------------------------------------------------------------------------
(* Facts about the parts *)

LEMMA NoneApart == None \notin Jobs /\ None \notin Rules /\ None \notin [by : Jobs]
BY NoneAssumption

LEMMA JobType ==
  ASSUME Types, NEW j \in Jobs
  PROVE  /\ jobs[j] \in JobRows /\ jobs[j].status \in JobStatuses
         /\ jobs[j].result \in Results
BY DEF Types, TypeOK, JobRows, JobStatuses, Results

(* What update_job makes of one row. *)
LEMMA UpdatedRow ==
  ASSUME Types, NEW j \in Jobs, NEW status \in JobStatuses, NEW result \in Results
  PROVE  /\ Updated(j, status, result) \in [Jobs -> JobRows]
         /\ Updated(j, status, result)[j].status = status
         /\ Updated(j, status, result)[j].result
              = IF result = None THEN jobs[j].result ELSE result
         /\ \A k \in Jobs : k # j => Updated(j, status, result)[k] = jobs[k]
<1> DEFINE row == [status |-> status, hint |-> None,
                   result |-> IF result = None THEN jobs[j].result ELSE result,
                   failed |-> jobs[j].failed \/ status = "failed"]
<1>1. jobs \in [Jobs -> JobRows] /\ jobs[j] \in JobRows
  BY JobType DEF Types, TypeOK, JobRows, JobStatuses, Results
<1>2. (jobs[j].failed \/ status = "failed") \in BOOLEAN
  BY <1>1 DEF JobRows
<1>3. row \in JobRows
  BY <1>1, <1>2 DEF JobRows
<1>4. Updated(j, status, result) = [jobs EXCEPT ![j] = row]
  BY DEF Updated
<1> QED
  BY <1>1, <1>3, <1>4

(* TypeOK with the names of this module. *)
TypesInParts ==
    /\ jobs \in [Jobs -> JobRows]
    /\ \A j, k \in Jobs : Active(j) /\ Active(k) => j = k
    /\ taxonomy \in Jobs \cup {None} /\ currentRule \in Rules \cup {None}
    /\ refs \subseteq [rule : Rules, state : {"temporary", "permanent"}]
    /\ up \in {"down", "starting", "serving"} /\ toSubmit \subseteq Jobs
    /\ future \in [Jobs -> {"none", "queued", "running", "done"}]

LEMMA TypeParts == (TypeOK <=> TypesInParts) /\ (TypeOK' <=> TypesInParts')
BY DEF TypeOK, TypesInParts, JobRows, JobStatuses, Results

-----------------------------------------------------------------------------
(* Steps about rules: the jobs stay as they are. *)

LEMMA RequestMoves ==
  ASSUME Types, NEW c \in Requests, NEW work, Latest(c, work),
         work \in {Idle} \cup [at : {"submit"}, job : Jobs]
                        \cup [at : {"ask"}, rule : Rules]
  PROVE  /\ request' \in [Requests -> {Idle} \cup [at : {"submit"}, job : Jobs]
                                          \cup [at : {"ask"}, rule : Rules]]
         /\ request'[c] = work
         /\ \A d \in Requests : d # c => request'[d] = request[d]
BY DEF Types, Latest

(* Jobs that stay as they are are awaited as long as no request gives up   *)
(* its submission.                                                         *)
LEMMA JobsStay ==
  ASSUME JobsInv, UNCHANGED <<jobs, taxonomy, up, toSubmit, future, worker, undone, caches>>,
         \A c \in Requests : request[c].at = "submit" =>
             request'[c] = request[c]
  PROVE  JobsInv'
BY DEF JobsInv, ActiveIsAwaited, CompletedIsStored, WorkerIsRight, Active, Busy

LEMMA CreateRuleStep ==
  ASSUME Inv, UNCHANGED caches, NEW c \in Requests, NEW r \in Rules, CreateRule(c, r)
  PROVE  Inv'
<1> DEFINE ref == [rule |-> r, state |-> "temporary"]
           work == [at |-> "ask", rule |-> r]
<1>1. Types /\ RulesInv /\ JobsInv
  BY DEF Inv, JobsInv
<1>2. /\ active /\ rules[r] = "none" /\ refs' = refs \cup {ref}
      /\ rules' = [rules EXCEPT ![r] = "running"] /\ request[c] = Idle
      /\ UNCHANGED <<active, jobs, taxonomy, currentRule, up, toSubmit, future,
                     worker, crashes, drops, undone>>
      /\ Latest(c, work)
  BY DEF CreateRule, Temporary
<1>3. /\ request' \in [Requests -> {Idle} \cup [at : {"submit"}, job : Jobs]
                                       \cup [at : {"ask"}, rule : Rules]]
      /\ request'[c] = work
      /\ \A d \in Requests : d # c => request'[d] = request[d]
  BY <1>1, <1>2, RequestMoves
<1>4. Types'
  BY <1>1, <1>2, <1>3 DEF Types, TypeOK, WorkerOK, Active
<1>5. JobsInv'
  BY <1>1, <1>2, <1>3, JobsStay DEF Idle
<1>6. \A d \in Requests : Asking(d) => request[d].rule # r
  BY <1>1, <1>2 DEF RulesInv
<1>7. /\ rules'[r] = "running"
      /\ \A q \in Rules : q # r => rules'[q] = rules[q]
  BY <1>1, <1>2 DEF Types
<1>8. CurrentRuleIsKept'
  <2>1. currentRule # None => currentRule \in Rules /\ currentRule # r
    BY <1>1, <1>2 DEF Types, TypeOK, RulesInv, CurrentRuleIsKept
  <2> QED
    BY <1>1, <1>2, <1>7, <2>1 DEF RulesInv, CurrentRuleIsKept
<1>9. ASSUME NEW d \in Requests, Asking(d)'
      PROVE  /\ rules'[request'[d].rule] = "running"
             /\ [rule |-> request'[d].rule, state |-> "temporary"] \in refs'
  <2>1. CASE d = c
    BY <1>2, <1>3, <1>7, <2>1
  <2>2. CASE d # c
    <3>1. Asking(d) /\ request[d].rule \in Rules
      BY <1>1, <1>3, <1>9, <2>2 DEF Asking, Types, Idle
    <3> QED
      BY <1>1, <1>2, <1>3, <1>6, <1>7, <2>2, <3>1 DEF RulesInv
  <2> QED
    BY <2>1, <2>2
<1>10. ASSUME NEW d \in Requests, NEW e \in Requests, Asking(d)', Asking(e)',
              request'[d].rule = request'[e].rule
       PROVE  d = e
  BY <1>1, <1>3, <1>6, <1>10 DEF RulesInv, Asking
<1>11. RulesInv'
  BY <1>2, <1>8, <1>9, <1>10 DEF RulesInv
<1> QED
  BY <1>4, <1>5, <1>11 DEF Inv, JobsInv

LEMMA FinishRuleStep ==
  ASSUME Inv, UNCHANGED caches, NEW c \in Requests,
         NEW status \in {"completed", "failed"}, FinishRule(c, status)
  PROVE  Inv'
<1> DEFINE r == request[c].rule
           ref == [rule |-> r, state |-> "temporary"]
<1>1. Types /\ RulesInv /\ JobsInv
  BY DEF Inv, JobsInv
<1>2. /\ Asking(c) /\ Latest(c, Idle)
      /\ rules' = [rules EXCEPT ![r] = status]
      /\ IF status = "completed" THEN currentRule' = r /\ refs' = Permanent(r)
                                 ELSE refs' = Others(r) /\ UNCHANGED currentRule
      /\ UNCHANGED <<active, jobs, taxonomy, up, toSubmit, future, worker, crashes,
                     drops, undone>>
  BY DEF FinishRule, Asking
<1>3. r \in Rules /\ rules[r] = "running" /\ ref \in refs /\ active
  BY <1>1, <1>2 DEF Types, RulesInv, Asking, Idle
<1>4. /\ request' \in [Requests -> {Idle} \cup [at : {"submit"}, job : Jobs]
                                       \cup [at : {"ask"}, rule : Rules]]
      /\ request'[c] = Idle
      /\ \A d \in Requests : d # c => request'[d] = request[d]
  BY <1>1, <1>2, RequestMoves
<1>5. /\ rules'[r] = status
      /\ \A q \in Rules : q # r => rules'[q] = rules[q]
  BY <1>1, <1>2, <1>3 DEF Types
<1>6. Others(r) \subseteq refs /\ \A x \in refs : x.rule # r => x \in Others(r)
  BY DEF Others
<1>7. Others(r) \subseteq refs'
  BY <1>2 DEF Permanent
<1>8. refs \subseteq [rule : Rules, state : {"temporary", "permanent"}]
  BY <1>1 DEF Types, TypeOK
<1>9. \A x \in refs : [x EXCEPT !.state = "permanent"]
                        \in [rule : Rules, state : {"temporary", "permanent"}]
  BY <1>8
<1>10. refs' \subseteq [rule : Rules, state : {"temporary", "permanent"}]
  BY <1>2, <1>6, <1>8, <1>9 DEF Permanent
<1>11. Types'
  <2>1. currentRule' \in Rules \cup {None}
    BY <1>1, <1>2, <1>3 DEF Types, TypeOK
  <2>2. rules' \in [Rules -> {"none", "running", "completed", "failed"}]
    BY <1>1, <1>2 DEF Types
  <2> QED
    BY <1>1, <1>2, <1>4, <1>10, <2>1, <2>2 DEF Types, TypeOK, WorkerOK, Active
<1>12. JobsInv'
  <2>1. \A d \in Requests : request[d].at = "submit" => request'[d] = request[d]
    BY <1>2, <1>4 DEF Asking
  <2> QED
    BY <1>1, <1>2, <2>1, JobsStay
<1>13. CurrentRuleIsKept'
  <2>1. CASE status = "completed"
    <3>1. [ref EXCEPT !.state = "permanent"] = [rule |-> r, state |-> "permanent"]
      OBVIOUS
    <3>2. ref \in refs \ Others(r)
      BY <1>3 DEF Others
    <3>3. [rule |-> r, state |-> "permanent"] \in refs'
      BY <1>2, <2>1, <3>1, <3>2 DEF Permanent
    <3> QED
      BY <1>2, <1>3, <1>5, <2>1, <3>3 DEF CurrentRuleIsKept
  <2>2. CASE status = "failed" /\ currentRule # None
    <3>1. currentRule \in Rules /\ currentRule # r
      BY <1>1, <1>3, <2>2 DEF Types, TypeOK, RulesInv, CurrentRuleIsKept
    <3>2. [rule |-> currentRule, state |-> "permanent"] \in Others(r)
      BY <1>1, <1>6, <2>2, <3>1 DEF RulesInv, CurrentRuleIsKept
    <3> QED
      BY <1>1, <1>2, <1>5, <1>7, <2>2, <3>1, <3>2 DEF RulesInv, CurrentRuleIsKept
  <2>3. CASE status = "failed" /\ currentRule = None
    BY <1>2, <2>3 DEF CurrentRuleIsKept
  <2> QED
    BY <2>1, <2>2, <2>3
<1>14. ASSUME NEW d \in Requests, Asking(d)'
       PROVE  /\ d # c /\ Asking(d) /\ request'[d] = request[d]
              /\ rules'[request'[d].rule] = "running"
              /\ [rule |-> request'[d].rule, state |-> "temporary"] \in refs'
  <2>1. d # c /\ Asking(d) /\ request'[d] = request[d]
    BY <1>4, <1>14 DEF Asking, Idle
  <2>2. request[d].rule # r /\ request[d].rule \in Rules
    BY <1>1, <1>2, <2>1 DEF RulesInv, Types, Asking, Idle
  <2>3. [rule |-> request[d].rule, state |-> "temporary"] \in Others(r)
    BY <1>1, <1>6, <2>1, <2>2 DEF RulesInv
  <2> QED
    BY <1>1, <1>5, <1>7, <2>1, <2>2, <2>3 DEF RulesInv
<1>15. RulesInv'
  <2>1. ASSUME NEW d \in Requests, NEW e \in Requests, Asking(d)', Asking(e)',
               request'[d].rule = request'[e].rule
        PROVE  d = e
    BY <1>1, <1>14, <2>1 DEF RulesInv
  <2> QED
    BY <1>2, <1>3, <1>13, <1>14, <2>1 DEF RulesInv
<1> QED
  BY <1>11, <1>12, <1>15 DEF Inv, JobsInv

LEMMA DeleteStep ==
  ASSUME Inv, UNCHANGED caches, DeleteSnapshot
  PROVE  Inv'
<1>1. /\ refs = {} /\ active' = FALSE
      /\ UNCHANGED <<jobs, taxonomy, rules, currentRule, refs, threads, crashes, drops,
                     undone>>
  BY DEF DeleteSnapshot
<1>2. Types /\ RulesInv /\ JobsInv
  BY DEF Inv, JobsInv
<1>3. UNCHANGED <<up, toSubmit, future, worker, request>>
  BY <1>1 DEF threads
<1>4. Types'
  BY <1>1, <1>2, <1>3 DEF Types, TypeOK, WorkerOK, Active
<1>5. JobsInv'
  BY <1>1, <1>2, <1>3, JobsStay
<1>6. RulesInv'
  <2>1. currentRule = None
    BY <1>1, <1>2 DEF RulesInv, CurrentRuleIsKept
  <2> QED
    BY <1>1, <1>2, <1>3, <2>1 DEF RulesInv, CurrentRuleIsKept, Asking
<1> QED
  BY <1>4, <1>5, <1>6 DEF Inv, JobsInv

-----------------------------------------------------------------------------
(* Steps about jobs: the rules stay as they are. *)

RulesSame == UNCHANGED <<active, rules, currentRule, refs>>

LEMMA RulesStay ==
  ASSUME RulesInv, RulesSame,
         \A c \in Requests : Asking(c)' => request'[c] = request[c]
  PROVE  RulesInv'
<1>1. \A c \in Requests : Asking(c)' => Asking(c)
  BY DEF Asking
<1> QED
  BY <1>1 DEF RulesInv, RulesSame, CurrentRuleIsKept

LEMMA CreateJobStep ==
  ASSUME Inv, UNCHANGED caches, NEW c \in Requests, NEW hint \in Hints,
         CreateJob(c, hint)
  PROVE  Inv'
<1>1. Types /\ RulesInv /\ JobsInv
  BY DEF Inv, JobsInv
<1>2. /\ request[c] = Idle /\ RulesSame
      /\ UNCHANGED <<active, taxonomy, rules, currentRule, refs, up, toSubmit, future,
                     worker, undone>>
  BY DEF CreateJob, RulesSame
<1>3. PICK j \in Jobs :
        /\ Latest(c, [at |-> "submit", job |-> j])
        /\ \/ Active(j) /\ UNCHANGED jobs
           \/ /\ jobs[j] = NoJob /\ \A k \in Jobs : ~ Active(k)
              /\ jobs' = [jobs EXCEPT ![j] = [NoJob EXCEPT !.status = "pending",
                                                          !.hint = hint]]
  BY DEF CreateJob, Joinable
<1>4. /\ request' \in [Requests -> {Idle} \cup [at : {"submit"}, job : Jobs]
                                       \cup [at : {"ask"}, rule : Rules]]
      /\ request'[c] = [at |-> "submit", job |-> j]
      /\ \A d \in Requests : d # c => request'[d] = request[d]
  BY <1>1, <1>3, RequestMoves
<1>5. \/ Active(j) /\ UNCHANGED jobs
      \/ /\ jobs'[j].status = "pending" /\ \A k \in Jobs : ~ Active(k)
         /\ jobs' \in [Jobs -> JobRows]
         /\ \A k \in Jobs : k # j => jobs'[k] = jobs[k]
  <2>1. [NoJob EXCEPT !.status = "pending", !.hint = hint] \in JobRows
    BY DEF NoJob, JobRows, JobStatuses, Results
  <2>2. jobs \in [Jobs -> JobRows]
    BY <1>1, TypeParts DEF Types, TypesInParts
  <2> QED
    BY <1>3, <2>1, <2>2 DEF NoJob
<1>6. \A k \in Jobs : Active(k)' => k = j
  BY <1>1, <1>5 DEF Types, TypeOK, Active
<1>7. Types'
  BY <1>1, <1>2, <1>4, <1>5, <1>6, TypeParts DEF Types, WorkerOK, TypesInParts, Active
<1>8. JobsInv'
  <2>1. ActiveIsAwaited'
    BY <1>4, <1>6 DEF ActiveIsAwaited
  <2>2. CompletedIsStored'
    BY <1>1, <1>2, <1>5 DEF JobsInv, CompletedIsStored
  <2> QED
    BY <1>1, <1>2, <2>1, <2>2 DEF JobsInv, WorkerIsRight
<1>9. RulesInv'
  BY <1>1, <1>2, <1>4, RulesStay DEF Asking
<1> QED
  BY <1>7, <1>8, <1>9 DEF Inv, JobsInv

LEMMA QueuedFact ==
  ASSUME Types, NEW j \in Jobs, future' = Queued(j)
  PROVE  /\ future' \in [Jobs -> {"none", "queued", "running", "done"}]
         /\ Busy(j)' /\ \A k \in Jobs : Busy(k) => Busy(k)'
BY DEF Types, TypeOK, Queued, Busy

LEMMA SubmitStep ==
  ASSUME Inv, UNCHANGED caches, NEW c \in Requests, Submit(c)
  PROVE  Inv'
<1>1. Types /\ RulesInv /\ JobsInv
  BY DEF Inv, JobsInv
<1>2. PICK j \in Jobs : j = request[c].job
  BY <1>1 DEF Submit, Types, Idle
<1>3. /\ request[c].at = "submit" /\ future' = Queued(j) /\ Latest(c, Idle)
      /\ UNCHANGED <<active, jobs, taxonomy, rules, currentRule, refs, up, toSubmit,
                     worker, undone>>
  BY <1>2 DEF Submit, rows
<1>4. /\ request' \in [Requests -> {Idle} \cup [at : {"submit"}, job : Jobs]
                                       \cup [at : {"ask"}, rule : Rules]]
      /\ request'[c] = Idle
      /\ \A d \in Requests : d # c => request'[d] = request[d]
  BY <1>1, <1>3, RequestMoves
<1>5. /\ future' \in [Jobs -> {"none", "queued", "running", "done"}]
      /\ Busy(j)' /\ \A k \in Jobs : Busy(k) => Busy(k)'
  BY <1>1, <1>3, <1>2, QueuedFact
<1>6. Types'
  BY <1>1, <1>3, <1>4, <1>5 DEF Types, TypeOK, WorkerOK, Active
<1>7. ActiveIsAwaited'
  <2> SUFFICES ASSUME up # "down", NEW k \in Jobs, Active(k)
               PROVE  \/ Busy(k)' \/ k \in toSubmit
                      \/ \E d \in Requests : request'[d].at = "submit" /\ request'[d].job = k
    BY <1>3 DEF ActiveIsAwaited, Active
  <2>1. CASE Busy(k) \/ k \in toSubmit
    BY <1>5, <2>1
  <2>2. CASE \E d \in Requests : request[d].at = "submit" /\ request[d].job = k
    BY <1>2, <1>4, <1>5, <2>2
  <2> QED
    BY <1>1, <2>1, <2>2 DEF JobsInv, ActiveIsAwaited
<1>8. JobsInv'
  BY <1>1, <1>3, <1>7 DEF JobsInv, CompletedIsStored, WorkerIsRight
<1>9. RulesInv'
  BY <1>1, <1>3, <1>4, RulesStay DEF Asking, Idle, RulesSame
<1> QED
  BY <1>6, <1>8, <1>9 DEF Inv, JobsInv

LEMMA DropStep ==
  ASSUME Inv, UNCHANGED caches, DropTaxonomy
  PROVE  Inv'
<1>1. Types /\ RulesInv /\ JobsInv
  BY DEF Inv, JobsInv
<1>2. /\ taxonomy' = None /\ undone' = Jobs
      /\ UNCHANGED <<active, jobs, rules, currentRule, refs, up, toSubmit, future,
                     worker, request>>
  BY DEF DropTaxonomy, threads
<1>3. Types'
  BY <1>1, <1>2 DEF Types, TypeOK, WorkerOK, Active
<1>4. JobsInv'
  <2>1. worker.at \in {"cached", "saved"} => worker.job \in Jobs
    BY <1>1 DEF Types, WorkerOK, Idle
  <2> QED
    BY <1>1, <1>2, <2>1
    DEF JobsInv, ActiveIsAwaited, CompletedIsStored, WorkerIsRight, Active, Busy
<1>5. RulesInv'
  BY <1>1, <1>2, RulesStay DEF RulesSame
<1> QED
  BY <1>3, <1>4, <1>5 DEF Inv, JobsInv

(* A run begins: the job is marked as running, whatever it was. *)
LEMMA StartStep ==
  ASSUME Inv, UNCHANGED caches, NEW j \in Jobs, StartRun(j)
  PROVE  Inv'
<1>1. Types /\ RulesInv /\ JobsInv
  BY DEF Inv, JobsInv
<1>2. /\ worker = Idle
      /\ UNCHANGED <<active, taxonomy, rules, currentRule, refs, up, toSubmit, request>>
  BY DEF StartRun
<1>3. RulesInv'
  BY <1>1, <1>2, RulesStay DEF RulesSame
<1>4. CASE Conflicts(j)
  <2>1. /\ future' = [future EXCEPT ![j] = "done"] /\ UNCHANGED <<jobs, worker, undone>>
        /\ ~ Active(j)
    BY <1>4 DEF StartRun, Conflicts
  <2>2. Types'
    BY <1>1, <1>2, <2>1 DEF Types, TypeOK, WorkerOK, Active
  <2>3. JobsInv'
    BY <1>1, <1>2, <2>1
    DEF JobsInv, ActiveIsAwaited, CompletedIsStored, WorkerIsRight, Active, Busy,
        Types, TypeOK
  <2> QED
    BY <1>3, <2>2, <2>3 DEF Inv, JobsInv
<1>5. CASE ~ Conflicts(j)
  <2> DEFINE work == [at |-> "open", job |-> j, hint |-> jobs[j].hint, stage |-> 0,
                      cached |-> None]
  <2>1. /\ future' = [future EXCEPT ![j] = "running"] /\ worker' = work
        /\ jobs' = Updated(j, "running", None) /\ undone' = undone \ {j}
    BY <1>5 DEF StartRun
  <2>2. /\ jobs' \in [Jobs -> JobRows] /\ jobs'[j].status = "running"
        /\ \A k \in Jobs : k # j => jobs'[k] = jobs[k]
    BY <1>1, <2>1, UpdatedRow DEF JobStatuses, Results
  <2>3. \A k \in Jobs : Active(k)' => k = j
    BY <1>1, <1>5, <2>2 DEF Conflicts, Active, Types, TypeOK
  <2>4. /\ future' \in [Jobs -> {"none", "queued", "running", "done"}]
        /\ future'[j] = "running"
    BY <1>1, <2>1 DEF Types, TypeOK
  <2>5. WorkerOK'
    <3>1. jobs[j].hint \in Hints \cup {None}
      BY <1>1 DEF Types, TypeOK
    <3> QED
      BY <2>1, <3>1 DEF WorkerOK
  <2>6. TypeOK'
    BY <1>1, <1>2, <2>2, <2>3, <2>4, TypeParts DEF Types, TypesInParts
  <2>7. Types'
    BY <1>1, <1>2, <2>5, <2>6 DEF Types
  <2>8. JobsInv'
    <3>1. ActiveIsAwaited'
      BY <2>3, <2>4 DEF ActiveIsAwaited, Busy
    <3>2. CompletedIsStored'
      BY <1>1, <1>2, <2>1, <2>2 DEF JobsInv, CompletedIsStored
    <3> QED
      BY <2>1, <3>1, <3>2 DEF JobsInv, WorkerIsRight
  <2> QED
    BY <1>3, <2>7, <2>8 DEF Inv, JobsInv
<1> QED
  BY <1>4, <1>5

(* The thread goes on within its run. *)
LEMMA WorkerStep ==
  ASSUME Inv, UNCHANGED caches, OpenSnapshot \/ Ask
  PROVE  Inv'
<1>1. Types /\ RulesInv /\ JobsInv
  BY DEF Inv, JobsInv
<1>2. UNCHANGED <<active, jobs, taxonomy, rules, currentRule, refs, up, toSubmit, future,
                  request, undone>>
  BY DEF OpenSnapshot, Ask, WorkerDoes, rows
<1>3. worker.at \in {"open", "ask"} /\ worker # Idle
  BY DEF OpenSnapshot, Ask, Idle
<1>4. WorkerOK' /\ WorkerIsRight'
  <2>1. CASE OpenSnapshot
    <3>1. \/ taxonomy # None
               /\ worker' = [worker EXCEPT !.at = "cached", !.cached = taxonomy]
          \/ worker' = [worker EXCEPT !.at = "ask"]
      BY <2>1 DEF OpenSnapshot, WorkerDoes
    <3>2. taxonomy \in Jobs \cup {None}
      BY <1>1 DEF Types, TypeOK
    <3> QED
      BY <1>1, <1>2, <1>3, <3>1, <3>2 DEF Types, WorkerOK, WorkerIsRight
  <2>2. CASE Ask
    <3>1. worker.at = "ask" /\ worker' = [worker EXCEPT !.stage = @ + 1]
      BY <2>2 DEF Ask, WorkerDoes
    <3> QED
      BY <1>1, <1>2, <1>3, <3>1 DEF Types, WorkerOK, WorkerIsRight
  <2> QED
    BY <2>1, <2>2
<1>5. Types'
  BY <1>1, <1>2, <1>4 DEF Types, TypeOK, Active
<1>6. JobsInv'
  BY <1>1, <1>2, <1>4 DEF JobsInv, ActiveIsAwaited, CompletedIsStored, Active, Busy
<1>7. RulesInv'
  BY <1>1, <1>2, RulesStay DEF RulesSame
<1> QED
  BY <1>5, <1>6, <1>7 DEF Inv, JobsInv

LEMMA SaveStep ==
  ASSUME Inv, UNCHANGED caches, Save
  PROVE  Inv'
<1>1. Types /\ RulesInv /\ JobsInv
  BY DEF Inv, JobsInv
<1>2. /\ worker.at = "ask" /\ taxonomy' = worker.job
      /\ worker' = [worker EXCEPT !.at = "saved"]
      /\ UNCHANGED <<active, jobs, rules, currentRule, refs, up, toSubmit, future,
                     request, undone>>
  BY DEF Save
<1>3. worker.job \in Jobs /\ worker.job # None
  BY <1>1, <1>2, NoneApart DEF Types, WorkerOK, Idle
<1>4. WorkerOK'
  BY <1>1, <1>2 DEF Types, WorkerOK, Idle
<1>5. Types'
  BY <1>1, <1>2, <1>3, <1>4 DEF Types, TypeOK, Active
<1>6. JobsInv'
  BY <1>1, <1>2, <1>3
  DEF JobsInv, ActiveIsAwaited, CompletedIsStored, WorkerIsRight, Active, Busy
<1>7. RulesInv'
  BY <1>1, <1>2, RulesStay DEF RulesSame
<1> QED
  BY <1>5, <1>6, <1>7 DEF Inv, JobsInv

(* The run ends, with a result if the job is completed. *)
LEMMA EndStep ==
  ASSUME Inv, UNCHANGED caches, worker # Idle, NEW status \in {"completed", "failed"},
         NEW result \in Results, Ends(status, result),
         status = "completed" =>
           /\ result # None
           /\ caches => taxonomy # None \/ worker.job \in undone
  PROVE  Inv'
<1> DEFINE j == worker.job
<1>1. Types /\ RulesInv /\ JobsInv
  BY DEF Inv, JobsInv
<1>2. /\ jobs' = Updated(j, status, result) /\ worker' = Idle
      /\ future' = [future EXCEPT ![j] = "done"]
      /\ UNCHANGED <<active, taxonomy, rules, currentRule, refs, up, toSubmit, request,
                     undone>>
  BY DEF Ends
<1>3. j \in Jobs
  BY <1>1 DEF Types, WorkerOK
<1>4. /\ jobs' \in [Jobs -> JobRows] /\ jobs'[j].status = status
      /\ jobs'[j].result = IF result = None THEN jobs[j].result ELSE result
      /\ \A k \in Jobs : k # j => jobs'[k] = jobs[k]
  BY <1>1, <1>2, <1>3, UpdatedRow DEF JobStatuses
<1>5. \A k \in Jobs : Active(k)' => k # j /\ Active(k)
  BY <1>4 DEF Active
<1>6. /\ future' \in [Jobs -> {"none", "queued", "running", "done"}]
      /\ \A k \in Jobs : k # j => future'[k] = future[k]
  BY <1>1, <1>2 DEF Types, TypeOK
<1>7. TypeOK'
  BY <1>1, <1>2, <1>4, <1>5, <1>6, TypeParts DEF Types, TypesInParts
<1>8. Types'
  BY <1>1, <1>2, <1>7 DEF Types, WorkerOK
<1>9. ActiveIsAwaited'
  BY <1>1, <1>2, <1>5, <1>6 DEF JobsInv, ActiveIsAwaited, Busy
<1>10. CompletedIsStored'
  BY <1>1, <1>2, <1>4 DEF JobsInv, CompletedIsStored
<1>11. WorkerIsRight'
  BY <1>2 DEF WorkerIsRight, Idle
<1>12. RulesInv'
  BY <1>1, <1>2, RulesStay DEF RulesSame
<1> QED
  BY <1>8, <1>9, <1>10, <1>11, <1>12 DEF Inv

LEMMA RunEndStep ==
  ASSUME Inv, UNCHANGED caches, UseCached \/ Complete \/ Fail
  PROVE  Inv'
<1>1. Types /\ JobsInv
  BY DEF Inv, JobsInv
<1>2. CASE UseCached
  <2>1. worker.at = "cached" /\ worker # Idle /\ Ends("completed", Answer(worker.cached))
    BY <1>2 DEF UseCached, Idle
  <2>2. worker.cached \in Jobs
    BY <1>1, <2>1 DEF Types, WorkerOK
  <2>3. Answer(worker.cached) \in [by : Jobs]
    BY <2>2 DEF Answer
  <2>4. taxonomy # None \/ worker.job \in undone
    BY <1>1, <2>1 DEF JobsInv, WorkerIsRight
  <2> QED
    BY <2>1, <2>3, <2>4, NoneApart, EndStep DEF Results
<1>3. CASE Complete
  <2>1. worker # Idle /\ Answered /\ Ends("completed", Answer(worker.job))
    BY <1>3 DEF Complete, Answered, Idle
  <2>2. Answer(worker.job) \in [by : Jobs]
    BY <1>1, <2>1 DEF Answer, Types, WorkerOK
  <2>3. caches => taxonomy # None \/ worker.job \in undone
    BY <1>1, <2>1 DEF Answered, JobsInv, WorkerIsRight
  <2> QED
    BY <2>1, <2>2, <2>3, NoneApart, EndStep DEF Results
<1>4. CASE Fail
  <2>1. worker # Idle /\ Ends("failed", None)
    BY <1>4 DEF Fail, Idle
  <2> QED
    BY <2>1, EndStep DEF Results
<1> QED
  BY <1>2, <1>3, <1>4

-----------------------------------------------------------------------------
(* Steps of the process *)

LEMMA CrashStep ==
  ASSUME Inv, UNCHANGED caches, Crash
  PROVE  Inv'
<1>1. Types /\ RulesInv /\ JobsInv
  BY DEF Inv, JobsInv
<1>2. /\ up' = "down" /\ toSubmit' = {} /\ worker' = Idle
      /\ future' = [j \in Jobs |-> "none"] /\ request' = [c \in Requests |-> Idle]
      /\ UNCHANGED <<active, jobs, taxonomy, rules, currentRule, refs, undone>>
  BY DEF Crash, rows
<1>3. Types'
  BY <1>1, <1>2 DEF Types, TypeOK, WorkerOK, Active
<1>4. JobsInv'
  BY <1>1, <1>2 DEF JobsInv, ActiveIsAwaited, CompletedIsStored, WorkerIsRight, Idle
<1>5. RulesInv'
  BY <1>1, <1>2, RulesStay DEF RulesSame, Asking, Idle
<1> QED
  BY <1>3, <1>4, <1>5 DEF Inv, JobsInv

LEMMA RecoverStep ==
  ASSUME Inv, UNCHANGED caches, Recover
  PROVE  Inv'
<1>1. Types /\ RulesInv /\ JobsInv
  BY DEF Inv, JobsInv
<1>2. /\ up' = "starting" /\ jobs' = Recovered
      /\ toSubmit' = {j \in Jobs : jobs'[j].status = "pending"}
      /\ UNCHANGED <<active, taxonomy, rules, currentRule, refs, future, worker, request,
                     undone>>
  BY DEF Recover
<1>3. \A j \in Jobs :
        IF Active(j)
        THEN jobs'[j] \in JobRows /\ jobs'[j].status = "pending"
        ELSE jobs'[j] = jobs[j]
  BY <1>1, <1>2, JobType DEF Recovered, JobRows, JobStatuses, Active
<1>4. jobs' \in [Jobs -> JobRows]
  <2>1. \A j \in Jobs : jobs'[j] \in JobRows
    BY <1>1, <1>3, JobType
  <2> QED
    BY <1>2, <2>1 DEF Recovered
<1>5. \A j \in Jobs : Active(j)' => Active(j) /\ jobs'[j].status = "pending"
  BY <1>3 DEF Active
<1>6. TypeOK'
  BY <1>1, <1>2, <1>4, <1>5, TypeParts DEF Types, TypesInParts
<1>7. Types'
  BY <1>1, <1>2, <1>6 DEF Types, WorkerOK
<1>8. JobsInv'
  <2>1. ActiveIsAwaited'
    BY <1>2, <1>5 DEF ActiveIsAwaited
  <2>2. CompletedIsStored'
    BY <1>1, <1>2, <1>3 DEF JobsInv, CompletedIsStored
  <2> QED
    BY <1>1, <1>2, <2>1, <2>2 DEF JobsInv, WorkerIsRight
<1>9. RulesInv'
  BY <1>1, <1>2, RulesStay DEF RulesSame
<1> QED
  BY <1>7, <1>8, <1>9 DEF Inv, JobsInv

LEMMA PendingStep ==
  ASSUME Inv, UNCHANGED caches, SubmitPending
  PROVE  Inv'
<1>1. Types /\ RulesInv /\ JobsInv
  BY DEF Inv, JobsInv
<1>2. /\ up = "starting"
      /\ UNCHANGED <<active, jobs, taxonomy, rules, currentRule, refs, worker, request,
                     undone>>
  BY DEF SubmitPending, rows
<1>3. RulesInv'
  BY <1>1, <1>2, RulesStay DEF RulesSame
<1>4. CASE toSubmit = {}
  <2>1. up' = "serving" /\ UNCHANGED <<toSubmit, future>>
    BY <1>4 DEF SubmitPending
  <2>2. Types'
    BY <1>1, <1>2, <2>1 DEF Types, TypeOK, WorkerOK, Active
  <2>3. JobsInv'
    BY <1>1, <1>2, <2>1
    DEF JobsInv, ActiveIsAwaited, CompletedIsStored, WorkerIsRight, Active, Busy
  <2> QED
    BY <1>3, <2>2, <2>3 DEF Inv, JobsInv
<1>5. CASE toSubmit # {}
  <2>1. PICK j \in toSubmit : /\ toSubmit' = toSubmit \ {j}
                              /\ future' = Queued(j) /\ UNCHANGED up
    BY <1>5 DEF SubmitPending
  <2>2. j \in Jobs
    BY <1>1 DEF Types, TypeOK
  <2>3. /\ future' \in [Jobs -> {"none", "queued", "running", "done"}]
        /\ Busy(j)' /\ \A k \in Jobs : Busy(k) => Busy(k)'
    BY <1>1, <2>1, <2>2, QueuedFact
  <2>4. Types'
    BY <1>1, <1>2, <2>1, <2>3 DEF Types, TypeOK, WorkerOK, Active
  <2>5. ActiveIsAwaited'
    <3> SUFFICES ASSUME NEW k \in Jobs, Active(k)
                 PROVE  \/ Busy(k)' \/ k \in toSubmit'
                        \/ \E d \in Requests : request[d].at = "submit" /\ request[d].job = k
      BY <1>2 DEF ActiveIsAwaited, Active
    <3> QED
      BY <1>1, <1>2, <2>1, <2>3 DEF JobsInv, ActiveIsAwaited
  <2>6. JobsInv'
    BY <1>1, <1>2, <2>5 DEF JobsInv, CompletedIsStored, WorkerIsRight
  <2> QED
    BY <1>3, <2>4, <2>6 DEF Inv, JobsInv
<1> QED
  BY <1>4, <1>5

-----------------------------------------------------------------------------
(* The invariant *)

LEMMA InitOK == Init => Inv
<1> SUFFICES ASSUME Init PROVE Inv
  OBVIOUS
<1>1. \A j \in Jobs : jobs[j].status = "none"
  BY DEF Init, NoJob
<1>2. jobs \in [Jobs -> JobRows]
  BY DEF Init, NoJob, JobRows, JobStatuses, Results
<1>3. TypeOK
  BY <1>1, <1>2, TypeParts DEF Init, TypesInParts, Active
<1>4. Types
  BY <1>3 DEF Init, Types, WorkerOK
<1>5. ActiveIsAwaited /\ CompletedIsStored /\ WorkerIsRight
  BY <1>1 DEF Init, ActiveIsAwaited, CompletedIsStored, WorkerIsRight, Active, Idle
<1>6. RulesInv
  BY DEF Init, RulesInv, CurrentRuleIsKept, Asking, Idle
<1> QED
  BY <1>4, <1>5, <1>6 DEF Inv

LEMMA InvStays ==
  ASSUME Inv, [Next]_vars
  PROVE  Inv'
<1>1. CASE UNCHANGED vars
  <2>1. UNCHANGED <<caches, active, jobs, taxonomy, rules, currentRule, refs, up, toSubmit,
                    future, worker, request, crashes, drops, undone>>
    BY <1>1 DEF vars, moving, rows, threads
  <2> QED
    BY <2>1 DEF Inv, Types, TypeOK, WorkerOK, ActiveIsAwaited, CompletedIsStored,
                WorkerIsRight, RulesInv, CurrentRuleIsKept, Asking, Active, Busy
<1>2. CASE Next
  <2>1. UNCHANGED caches
    BY <1>2 DEF Next
  <2>2. CASE Run
    BY <2>1, <2>2, StartStep, WorkerStep, SaveStep, RunEndStep DEF Run
  <2> QED
    BY <1>2, <2>1, <2>2, CreateJobStep, SubmitStep, CreateRuleStep, FinishRuleStep,
       DropStep, DeleteStep, CrashStep, RecoverStep, PendingStep DEF Next, Step
<1> QED
  BY <1>1, <1>2

(* Everything that the steps rely on holds in every state. *)
THEOREM Invariance == Spec => []Inv
BY InitOK, InvStays, PTL DEF Spec

(* No job waits for nobody, a completed one has a stored answer, and the   *)
(* snapshot of a current rule is kept for it: in whatever order requests   *)
(* join, threads run, taxonomies are dropped and the process dies.         *)
THEOREM KnowledgeIsKeptHolds == Spec => []KnowledgeIsKept
<1>1. Inv => KnowledgeIsKept
  BY DEF Inv, Types, RulesInv, KnowledgeIsKept
<1> QED
  BY <1>1, Invariance, PTL

-----------------------------------------------------------------------------
(* Answers *)

LEMMA AnswersStep ==
  ASSUME Inv, [Next]_vars
  PROVE  \A j \in Jobs : jobs[j].result # None => jobs'[j].result # None
<1>1. Types
  BY DEF Inv
<1>2. CASE UNCHANGED jobs
  BY <1>2
<1>3. CASE \E c \in Requests, hint \in Hints : CreateJob(c, hint)
  <2>1. PICK c \in Requests, hint \in Hints : CreateJob(c, hint)
    BY <1>3
  <2>2. CASE ~ Joinable(hint)
    <3>1. PICK j \in Jobs : /\ jobs[j] = NoJob
                            /\ \E row : jobs' = [jobs EXCEPT ![j] = row]
      BY <2>1, <2>2 DEF CreateJob
    <3>2. jobs[j].result = None
      BY <3>1 DEF NoJob
    <3>3. \A k \in Jobs : k # j => jobs'[k] = jobs[k]
      BY <1>1, <3>1 DEF Types, TypeOK
    <3> QED
      BY <3>2, <3>3
  <2> QED
    BY <1>2, <2>1, <2>2 DEF CreateJob
<1>4. ASSUME NEW j \in Jobs, NEW status \in JobStatuses, NEW result \in Results,
             jobs' = Updated(j, status, result)
      PROVE  \A k \in Jobs : jobs[k].result # None => jobs'[k].result # None
  BY <1>1, <1>4, UpdatedRow
<1>5. CASE \E j \in Jobs : StartRun(j)
  BY <1>2, <1>4, <1>5 DEF StartRun, JobStatuses, Results
<1>6. CASE UseCached
  <2>1. worker.cached \in Jobs /\ worker.job \in Jobs
    BY <1>1, <1>6 DEF UseCached, Types, WorkerOK, Idle
  <2> QED
    BY <1>4, <1>6, <2>1 DEF UseCached, Ends, Answer, JobStatuses, Results
<1>7. CASE Complete
  <2>1. worker.job \in Jobs
    BY <1>1, <1>7 DEF Complete, Answered, Types, WorkerOK, Idle
  <2> QED
    BY <1>4, <1>7, <2>1 DEF Complete, Ends, Answer, JobStatuses, Results
<1>8. CASE Fail
  <2>1. worker.job \in Jobs
    BY <1>1, <1>8 DEF Fail, Types, WorkerOK, Idle
  <2> QED
    BY <1>4, <1>8, <2>1 DEF Fail, Ends, JobStatuses, Results
<1>9. CASE Recover
  <2>1. \A j \in Jobs : jobs'[j].result = jobs[j].result
    BY <1>1, <1>9, JobType DEF Recover, Recovered, JobRows
  <2> QED
    BY <2>1
<1>10. CASE UNCHANGED vars
  BY <1>2, <1>10 DEF vars, moving, rows
<1>11. CASE \/ \E c \in Requests : Submit(c)
            \/ \E c \in Requests, r \in Rules : CreateRule(c, r)
            \/ \E c \in Requests, status \in {"completed", "failed"} : FinishRule(c, status)
            \/ DropTaxonomy \/ DeleteSnapshot \/ OpenSnapshot \/ Ask \/ Save
            \/ Crash \/ SubmitPending
  <2>1. UNCHANGED jobs
    BY <1>11 DEF Submit, CreateRule, FinishRule, DropTaxonomy, DeleteSnapshot,
                 OpenSnapshot, Ask, Save, Crash, SubmitPending, WorkerDoes, rows
  <2> QED
    BY <1>2, <2>1
<1> QED
  BY <1>3, <1>5, <1>6, <1>7, <1>8, <1>9, <1>10, <1>11 DEF Next, Step, Run

(* Whatever joins a job and runs it again, its answer is not lost. *)
THEOREM AnswersStayHolds == Spec => AnswersStay
<1>1. Inv /\ [Next]_vars
        => [\A j \in Jobs : jobs[j].result # None => jobs'[j].result # None]_vars
  BY AnswersStep
<1> QED
  BY <1>1, Invariance, PTL DEF Spec, AnswersStay
=============================================================================
