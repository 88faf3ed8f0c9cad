--------------------------- MODULE KnowledgeJobs ---------------------------
(***************************************************************************)
(* What language models derive from one published snapshot: durable jobs   *)
(* (the extraction of knowledge, or the business taxonomy, which is cached *)
(* in a row of its own) that one thread runs, and candidates of rules that *)
(* the thread of a request makes.                                          *)
(*                                                                         *)
(* A request creates or joins a job in one step and submits it in another. *)
(* The jobs survive the process; futures, threads and requests do not.     *)
(***************************************************************************)
EXTENDS Naturals

CONSTANTS
    Requests,
    Hints,       \* backgrounds that users give
    Stages,      \* calls of the model in a run
    Caches,      \* kinds of jobs to choose from, a subset of BOOLEAN
    MaxJobs,     \* bound on jobs
    MaxRules,    \* bound on candidates
    MaxCrashes,  \* bound on crashes
    MaxDrops,    \* bound on deletions of the taxonomy
    None

ASSUME StagesAssumption == Stages \in Nat \ {0} /\ Caches \subseteq BOOLEAN

VARIABLES
    caches,      \* TRUE: jobs of the taxonomy; FALSE: of knowledge
    active,      \* deletion_state of the snapshot is 'active'
    jobs,        \* llm_knowledge_jobs or business_taxonomy_jobs
    taxonomy,    \* business_taxonomies: the job that made it, or None
    rules,       \* snapshot_rule_candidates, of one subject
    currentRule, \* snapshot_rule_current
    refs,        \* snapshot_references of candidates
    up,          \* "down", "starting" or "serving"
    toSubmit,    \* pending jobs that start() has still to submit
    future,      \* futures of the scheduler
    worker,      \* its thread
    request,
    crashes, drops,
    undone       \* jobs since whose last run began the taxonomy was deleted

rows == <<active, jobs, taxonomy, rules, currentRule, refs>>
threads == <<up, toSubmit, future, worker, request>>
moving == <<rows, threads, crashes, drops, undone>>
vars == <<moving, caches>>

Jobs == 1 .. MaxJobs
Rules == 1 .. MaxRules
ASSUME NoneAssumption == None \notin Jobs \cup Rules \cup [by : Jobs]

NoJob == [status |-> "none", hint |-> None, result |-> None, failed |-> FALSE]
Idle == [at |-> "idle"]
Active(j) == jobs[j].status \in {"pending", "running"}
Latest(c, work) == request' = [request EXCEPT ![c] = work]

-----------------------------------------------------------------------------
(* Requests *)

(* create_..._job: a job that is active is joined, whatever its hint. *)
JoinableSame(hint) ==   \* mutation: only a job with the same hint is joined
    \E j \in Jobs : Active(j) /\ jobs[j].hint = hint
Joinable(hint) == \E j \in Jobs : Active(j)

CreateJob(c, hint) ==
    /\ up = "serving" /\ request[c] = Idle /\ active
    /\ IF Joinable(hint)
       THEN \E j \in Jobs : /\ Active(j) /\ UNCHANGED jobs
                            /\ Latest(c, [at |-> "submit", job |-> j])
       ELSE \E j \in Jobs :
              /\ jobs[j] = NoJob /\ \A k \in 1 .. (j - 1) : jobs[k] # NoJob
              /\ jobs' = [jobs EXCEPT ![j] = [NoJob EXCEPT !.status = "pending", !.hint = hint]]
              /\ Latest(c, [at |-> "submit", job |-> j])
    /\ UNCHANGED <<active, taxonomy, rules, currentRule, refs, up, toSubmit, future,
                   worker, crashes, drops, undone>>

Busy(j) == future[j] \in {"queued", "running"}
Queued(j) == IF Busy(j) THEN future ELSE [future EXCEPT ![j] = "queued"]

Submit(c) ==
    /\ request[c].at = "submit"
    /\ future' = Queued(request[c].job)
    /\ Latest(c, Idle)
    /\ UNCHANGED <<rows, up, toSubmit, worker, crashes, drops, undone>>

DropTaxonomy ==
    /\ up = "serving" /\ drops < MaxDrops /\ taxonomy # None
    /\ taxonomy' = None /\ drops' = drops + 1
    /\ undone' = Jobs
    /\ UNCHANGED <<active, jobs, rules, currentRule, refs, threads, crashes>>

(* The snapshot is deleted once nothing refers to it. *)
DeleteSnapshot ==
    /\ active /\ refs = {}
    /\ active' = FALSE
    /\ UNCHANGED <<jobs, taxonomy, rules, currentRule, refs, threads, crashes, drops, undone>>

-----------------------------------------------------------------------------
(* Rules: the candidate and its reference are one transaction, and so are  *)
(* its end, the choice of the current rule and the end of the reference.   *)

TemporaryNone(r) == refs   \* mutation: the reference is made with the result
Temporary(r) == refs \cup {[rule |-> r, state |-> "temporary"]}

CreateRule(c, r) ==
    /\ up = "serving" /\ request[c] = Idle /\ active
    /\ rules[r] = "none" /\ \A q \in 1 .. (r - 1) : rules[q] # "none"
    /\ rules' = [rules EXCEPT ![r] = "running"]
    /\ refs' = Temporary(r)
    /\ Latest(c, [at |-> "ask", rule |-> r])
    /\ UNCHANGED <<active, jobs, taxonomy, currentRule, up, toSubmit, future, worker,
                   crashes, drops, undone>>

Others(r) == {x \in refs : x.rule # r}
Permanent(r) ==
    Others(r) \cup {[x EXCEPT !.state = "permanent"] : x \in refs \ Others(r)}

FinishRule(c, status) ==
    LET r == request[c].rule
    IN  /\ request[c].at = "ask"
        /\ rules' = [rules EXCEPT ![r] = status]
        /\ IF status = "completed" THEN currentRule' = r /\ refs' = Permanent(r)
                                   ELSE refs' = Others(r) /\ UNCHANGED currentRule
        /\ Latest(c, Idle)
        /\ UNCHANGED <<active, jobs, taxonomy, up, toSubmit, future, worker, crashes,
                       drops, undone>>

-----------------------------------------------------------------------------
(* The thread of the scheduler *)

(* update_..._job, which nobody else does to this row: what is not given   *)
(* stays as it is.  Of the progress only the hint is kept here, and every  *)
(* progress that a run reports replaces it.                                *)
UpdatedBare(j, status, result) ==   \* mutation: the result is not carried over
    [jobs EXCEPT ![j] = [status |-> status, hint |-> None, result |-> result,
                         failed |-> @.failed \/ status = "failed"]]
Updated(j, status, result) ==
    [jobs EXCEPT ![j] = [status |-> status, hint |-> None,
                         result |-> IF result = None THEN @.result ELSE result,
                         failed |-> @.failed \/ status = "failed"]]

(* uq_active_..._job *)
Conflicts(j) == ~ Active(j) /\ \E k \in Jobs : Active(k)

(* run() marks the job as running whatever its state, and outside of its   *)
(* try block: a conflict ends the future, and nothing else.                *)
StartRun(j) ==
    /\ up # "down" /\ worker = Idle /\ future[j] = "queued"
    /\ IF Conflicts(j)
       THEN future' = [future EXCEPT ![j] = "done"] /\ UNCHANGED <<jobs, worker, undone>>
       ELSE /\ future' = [future EXCEPT ![j] = "running"]
            /\ worker' = [at |-> "open", job |-> j, hint |-> jobs[j].hint, stage |-> 0,
                        cached |-> None]
            /\ jobs' = Updated(j, "running", None)
            /\ undone' = undone \ {j}
    /\ UNCHANGED <<active, taxonomy, rules, currentRule, refs, up, toSubmit, request,
                   crashes, drops>>

WorkerDoes(work) ==
    /\ worker' = work
    /\ UNCHANGED <<rows, up, toSubmit, future, request, crashes, drops, undone>>

Answer(by) == [by |-> by]

(* The job ends, and its future with it. *)
Ends(status, result) ==
    /\ jobs' = Updated(worker.job, status, result)
    /\ future' = [future EXCEPT ![worker.job] = "done"]
    /\ worker' = Idle
    /\ UNCHANGED <<active, taxonomy, rules, currentRule, refs, up, toSubmit, request,
                   crashes, drops, undone>>

(* The snapshot is opened; then the cache decides: the model is asked      *)
(* again when what is stored was made by another one, with another prompt, *)
(* or of another inventory.                                                *)
OpenSnapshot ==
    /\ worker.at = "open" /\ active
    /\ \/ /\ caches /\ taxonomy # None
          /\ WorkerDoes([worker EXCEPT !.at = "cached", !.cached = taxonomy])
       \/ WorkerDoes([worker EXCEPT !.at = "ask"])

UseCached == worker.at = "cached" /\ Ends("completed", Answer(worker.cached))

Ask ==
    /\ worker.at = "ask" /\ worker.stage < Stages
    /\ WorkerDoes([worker EXCEPT !.stage = @ + 1])

(* save_business_taxonomy is refused for a snapshot that is deleted. *)
Save ==
    /\ caches /\ worker.at = "ask" /\ worker.stage = Stages /\ active
    /\ taxonomy' = worker.job
    /\ worker' = [worker EXCEPT !.at = "saved"]
    /\ UNCHANGED <<active, jobs, rules, currentRule, refs, up, toSubmit, future, request,
                   crashes, drops, undone>>

AnsweredEarly ==   \* mutation: the answer is reported before it is saved
    worker.at = "ask" /\ worker.stage = Stages
Answered ==
    \/ worker.at = "saved"
    \/ ~ caches /\ worker.at = "ask" /\ worker.stage = Stages
Complete == Answered /\ Ends("completed", Answer(worker.job))

(* No model is configured, nothing is there to classify, the model does    *)
(* not answer, or the snapshot is not there any more.                      *)
Fail ==
    /\ \/ worker.at = "open"
       \/ worker.at = "ask" /\ (worker.stage < Stages \/ ~ active)
    /\ Ends("failed", None)

-----------------------------------------------------------------------------
(* The process *)

Crash ==
    /\ up # "down" /\ crashes < MaxCrashes
    /\ up' = "down" /\ crashes' = crashes + 1
    /\ toSubmit' = {} /\ worker' = Idle
    /\ future' = [j \in Jobs |-> "none"] /\ request' = [c \in Requests |-> Idle]
    /\ UNCHANGED <<rows, drops, undone>>

RecoveredPending ==   \* mutation: jobs that were running are left alone
    jobs
Recovered ==
    [j \in Jobs |-> IF Active(j) THEN [jobs[j] EXCEPT !.status = "pending"] ELSE jobs[j]]

(* recover_interrupted_..._jobs and list_pending_..._jobs, before requests *)
Recover ==
    /\ up = "down"
    /\ up' = "starting"
    /\ jobs' = Recovered
    /\ toSubmit' = {j \in Jobs : jobs'[j].status = "pending"}
    /\ UNCHANGED <<active, taxonomy, rules, currentRule, refs, future, worker, request,
                   crashes, drops, undone>>

SubmitPending ==
    /\ up = "starting"
    /\ IF toSubmit = {} THEN up' = "serving" /\ UNCHANGED <<toSubmit, future>>
       ELSE \E j \in toSubmit : /\ toSubmit' = toSubmit \ {j}
                                /\ future' = Queued(j) /\ UNCHANGED up
    /\ UNCHANGED <<rows, worker, request, crashes, drops, undone>>

-----------------------------------------------------------------------------
Init ==
    /\ caches \in Caches
    /\ active = TRUE /\ taxonomy = None /\ currentRule = None /\ refs = {}
    /\ jobs = [j \in Jobs |-> NoJob] /\ rules = [r \in Rules |-> "none"]
    /\ up = "serving" /\ toSubmit = {} /\ worker = Idle
    /\ future = [j \in Jobs |-> "none"] /\ request = [c \in Requests |-> Idle]
    /\ crashes = 0 /\ drops = 0 /\ undone = {}

Run ==
    \/ \E j \in Jobs : StartRun(j)
    \/ OpenSnapshot \/ UseCached \/ Ask \/ Save \/ Complete \/ Fail

Step ==
    \/ \E c \in Requests : (\E hint \in Hints : CreateJob(c, hint)) \/ Submit(c)
    \/ \E c \in Requests, r \in Rules : CreateRule(c, r)
    \/ \E c \in Requests, status \in {"completed", "failed"} : FinishRule(c, status)
    \/ DropTaxonomy \/ DeleteSnapshot
    \/ Run \/ Crash \/ Recover \/ SubmitPending
Next == Step /\ UNCHANGED caches

(* Threads that can go on do so, the service is started again, and a call  *)
(* of the model returns within its timeout.                                *)
Fairness ==
    /\ WF_moving(Run) /\ WF_moving(Recover) /\ WF_moving(SubmitPending)
    /\ \A c \in Requests : WF_moving(Submit(c))

Spec == Init /\ [][Next]_vars /\ Fairness

-----------------------------------------------------------------------------
(* Properties *)

(* Every variable has its type, and no two jobs are active. *)
TypeOK ==
    /\ jobs \in [Jobs -> [status : {"none", "pending", "running", "completed", "failed"},
                          hint : Hints \cup {None}, failed : BOOLEAN,
                          result : [by : Jobs] \cup {None}]]
    /\ \A j, k \in Jobs : Active(j) /\ Active(k) => j = k
    /\ taxonomy \in Jobs \cup {None} /\ currentRule \in Rules \cup {None}
    /\ refs \subseteq [rule : Rules, state : {"temporary", "permanent"}]
    /\ up \in {"down", "starting", "serving"} /\ toSubmit \subseteq Jobs
    /\ future \in [Jobs -> {"none", "queued", "running", "done"}]

(* An active job is one that the scheduler will run: no crash between the  *)
(* creation and the submission, and no request that joins it while it      *)
(* ends, leaves one behind that blocks all later ones of the snapshot.     *)
ActiveIsAwaited ==
    up # "down" => \A j \in Jobs : Active(j) =>
      \/ Busy(j) \/ j \in toSubmit
      \/ \E c \in Requests : request[c].at = "submit" /\ request[c].job = j

(* A job that says it is completed has an answer, and its taxonomy is      *)
(* stored unless somebody deleted it since the run began.                  *)
CompletedIsStored ==
    \A j \in Jobs : jobs[j].status = "completed" =>
      jobs[j].result # None /\ (caches => taxonomy # None \/ j \in undone)

(* A run that a request causes by joining a job that has just ended does   *)
(* not lose the answer of the job.                                         *)
AnswersStay ==
    [][\A j \in Jobs : jobs[j].result # None => jobs'[j].result # None]_vars

(* The snapshot of a current rule is kept for the rule, also when it was   *)
(* to be deleted while the rule was made.                                  *)
CurrentRuleIsKept ==
    currentRule # None =>
      /\ active /\ rules[currentRule] = "completed"
      /\ [rule |-> currentRule, state |-> "permanent"] \in refs

(* No job waits for nobody, and what was derived is there together with    *)
(* what it is about.                                                       *)
KnowledgeIsKept == TypeOK /\ ActiveIsAwaited /\ CompletedIsStored /\ CurrentRuleIsKept

(* A job that is active ends, in whatever runs and restarts. *)
JobsEnd == \A j \in Jobs : Active(j) ~> jobs[j].status \in {"completed", "failed"}

=============================================================================
