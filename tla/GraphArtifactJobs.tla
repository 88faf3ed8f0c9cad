-------------------------- MODULE GraphArtifactJobs --------------------------
(***************************************************************************)
(* Jobs that build the topology of a graph view, and the cache they fill.  *)
(*                                                                         *)
(* Several processes work on one catalog: servers (the web service, the    *)
(* MCP server) and shells (invocations of the command line).  Each has the *)
(* requests it answers and one thread that runs jobs, which a server takes *)
(* from a queue in memory.  The rows of graph_view_artifact_jobs are all   *)
(* they have in common: a row is claimed under a lease, kept alive by      *)
(* heartbeats before and after the build, and completed, failed or         *)
(* cancelled.                                                              *)
(*                                                                         *)
(* A job is claimed at most once, since no status leads back to pending;   *)
(* its lease_token never changes after that, and the comparisons of tokens *)
(* always succeed.  What fences a worker off is the status.                *)
(***************************************************************************)
EXTENDS Naturals, Sequences

CONSTANTS
    Keys,     \* cache keys, each of a view of its own
    Servers,  \* processes that go on until they die
    Shells,   \* processes that end after one request
    Readers,  \* deliveries of a cached artifact, by any process
    MaxJobs,  \* bound on the jobs
    None      \* no job, no request (SQL NULL)

Processes == Servers \cup Shells
JobIds == 1 .. MaxJobs

ASSUME MaxJobsAssumption == MaxJobs \in Nat
ASSUME NoneAssumption == None \notin JobIds /\ None \notin Keys
ASSUME ProcessesAssumption == Servers \cap Shells = {}

VARIABLES
    job,      \* graph_view_artifact_jobs
    refs,     \* jobs whose references protect the snapshots of their view
    cached,   \* graph_view_artifact_cache
    alive,    \* processes that run
    queue,    \* jobs submitted to the thread of a process
    worker,   \* where this thread is
    request,  \* the row a request has decided to insert
    owned,    \* the job an invocation has created
    reader    \* where a delivery is, and its key

tables == <<job, refs, cached>>
others == <<tables, alive, queue, worker, request, owned>>
vars == <<others, reader>>

-----------------------------------------------------------------------------
(* Rows *)

ActiveStatuses == {"pending", "running"}
RetryableStatuses == {"failed", "cancelled", "interrupted"}
TerminalStatuses == RetryableStatuses \cup {"completed"}

NoJob == [key |-> None, no |-> 0, retryOf |-> None, status |-> "none",
          expired |-> FALSE]

Row(j) == job[j].status \in ActiveStatuses \cup TerminalStatuses
Active(j) == job[j].status \in ActiveStatuses
Terminal(j) == job[j].status \in TerminalStatuses
Fresh(j) == job[j].status = "none" /\ \A i \in 1 .. j - 1 : job[i].status # "none"

(* The job of a key with the highest attempt_no. *)
Latest(k) ==
    {j \in JobIds : /\ Row(j) /\ job[j].key = k
                    /\ \A i \in JobIds :
                         Row(i) /\ job[i].key = k => job[i].no <= job[j].no}

Idle == [at |-> "idle", job |-> None]
Quiet(p) == worker[p] = Idle /\ queue[p] = <<>> /\ request[p] = None
Has(p, j) ==
    worker[p].job = j \/ \E i \in 1 .. Len(queue[p]) : queue[p][i] = j

(* submit: a job whose future is not done is not submitted again. *)
Submit(p, j) == queue' = IF Has(p, j) THEN queue
                         ELSE [queue EXCEPT ![p] = Append(@, j)]

-----------------------------------------------------------------------------
(* Requests *)

(* create_artifact_job begins with a select, before its transaction does.  *)
(* An invocation makes one request, and only when it has nothing to run.   *)
LookUp(p, k) ==
    /\ p \in alive /\ request[p] = None
    /\ p \in Shells => Quiet(p) /\ owned[p] = None
    /\ \/ /\ Latest(k) = {}
          /\ request' = [request EXCEPT ![p] = [key |-> k, no |-> 1, retryOf |-> None]]
          /\ UNCHANGED queue
       \/ \E j \in Latest(k) :
            \/ /\ job[j].status \in RetryableStatuses
               /\ request' = [request EXCEPT ![p] =
                                [key |-> k, no |-> job[j].no + 1, retryOf |-> j]]
               /\ UNCHANGED queue
            \/ /\ job[j].status = "pending"
               /\ Submit(p, j)
               /\ UNCHANGED request
    /\ UNCHANGED <<tables, alive, worker, owned, reader>>

(* The constraints of the table: one active job of a key, no attempt_no of *)
(* a key twice, the job to be retried still exists.  If the row violates   *)
(* one, the request ends with an error.                                    *)
MayInsertAgain(row) ==   \* mutation: both unique indexes are missing
    row.retryOf # None => Row(row.retryOf)

MayInsert(row) ==
    /\ \A i \in JobIds : Row(i) /\ job[i].key = row.key =>
                           ~ Active(i) /\ job[i].no # row.no
    /\ row.retryOf # None => Row(row.retryOf)

Insert(j, row) ==
    /\ Fresh(j)
    /\ job' = [job EXCEPT ![j] = [NoJob EXCEPT !.key = row.key, !.no = row.no,
                                    !.retryOf = row.retryOf, !.status = "pending"]]
    /\ refs' = refs \cup {j}

(* The rest of create_artifact_job, and the submission of the job.         *)
InsertJob(p, j) ==
    /\ p \in alive /\ request[p] # None
    /\ MayInsert(request[p])
    /\ Insert(j, request[p])
    /\ Submit(p, j)
    /\ request' = [request EXCEPT ![p] = None]
    /\ owned' = [owned EXCEPT ![p] = IF p \in Shells THEN j ELSE @]
    /\ UNCHANGED <<cached, alive, worker, reader>>

InsertRefused(p) ==
    /\ p \in alive /\ request[p] # None
    /\ ~ MayInsert(request[p])
    /\ request' = [request EXCEPT ![p] = None]
    /\ UNCHANGED <<tables, alive, queue, worker, owned, reader>>

(* retry_artifact_job of job i.  It reads the row of a job that has ended, *)
(* which stays as it is, so one action stands for the read and the insert; *)
(* a row that MayInsert does not allow is an error without effect.         *)
Retries(i) == job[i].status \in RetryableStatuses

RetryJob(p, i, j) ==
    LET row == [key |-> job[i].key, no |-> job[i].no + 1, retryOf |-> i]
    IN  /\ p \in alive \cap Servers
        /\ Retries(i) /\ MayInsert(row)
        /\ Insert(j, row)
        /\ Submit(p, j)
        /\ UNCHANGED <<cached, alive, worker, request, owned, reader>>

-----------------------------------------------------------------------------
(* The thread that runs jobs *)

At(p, label) == worker' = [worker EXCEPT ![p].at = label]
Leave(p) == worker' = [worker EXCEPT ![p] = Idle]
Working(p, label) == p \in alive /\ worker[p].at = label

SetStatus(j, status) == job' = [job EXCEPT ![j].status = status]

(* run_job reads the row and goes on if the job is pending. *)
Begin(p) ==
    /\ Working(p, "idle") /\ queue[p] # <<>>
    /\ queue' = [queue EXCEPT ![p] = Tail(@)]
    /\ worker' = [worker EXCEPT ![p] =
                    IF job[Head(queue[p])].status = "pending"
                    THEN [at |-> "claim", job |-> Head(queue[p])] ELSE @]
    /\ UNCHANGED <<tables, alive, request, owned, reader>>

(* start_artifact_job updates the row if it is pending and returns it in   *)
(* any case; run_job goes on if the row it gets is running, no matter who  *)
(* made it so.                                                             *)
ClaimedAgain(j) == job[j].status \in {"pending", "cancelled"}   \* mutation
Claimed(j) == job[j].status = "pending"

Claim(p) ==
    LET j == worker[p].job
    IN  /\ Working(p, "claim")
        /\ IF Claimed(j) THEN SetStatus(j, "running") ELSE UNCHANGED job
        /\ IF job'[j].status = "running" THEN At(p, "heartbeat") ELSE Leave(p)
        /\ UNCHANGED <<refs, cached, alive, queue, request, owned, reader>>

(* The heartbeats before and after the build extend the lease; they raise  *)
(* unless the job is running.                                              *)
Heartbeat(p) ==
    LET j == worker[p].job
    IN  /\ p \in alive /\ worker[p].at \in {"heartbeat", "built"}
        /\ IF job[j].status = "running"
           THEN /\ job' = [job EXCEPT ![j].expired = FALSE]
                /\ At(p, IF worker[p].at = "built" THEN "complete" ELSE "build")
           ELSE /\ At(p, "fail")
                /\ UNCHANGED job
        /\ UNCHANGED <<refs, cached, alive, queue, request, owned, reader>>

Build(p) ==
    /\ Working(p, "build")
    /\ At(p, "built")
    /\ UNCHANGED <<tables, alive, queue, request, owned, reader>>

(* The view cannot be resolved, the builder fails, the payload is too      *)
(* large or cannot be written.                                             *)
Raise(p) ==
    /\ p \in alive /\ worker[p].at \in {"build", "complete"}
    /\ At(p, "fail")
    /\ UNCHANGED <<tables, alive, queue, request, owned, reader>>

(* complete_artifact_job: the result enters the cache and the references   *)
(* are released, in one transaction; it raises unless the job is active.   *)
CompletesLate(j) == job[j].status # "failed"   \* mutation: the guard is weaker
Completes(j) == Active(j)

Complete(p) ==
    LET j == worker[p].job
    IN  /\ Working(p, "complete")
        /\ IF Completes(j)
           THEN /\ SetStatus(j, "completed")
                /\ cached' = cached \cup {job[j].key}
                /\ refs' = refs \ {j}
                /\ Leave(p)
           ELSE /\ At(p, "fail")
                /\ UNCHANGED tables
        /\ UNCHANGED <<alive, queue, request, owned, reader>>

(* fail_artifact_job raises, too, unless the job is active; the error ends *)
(* in the future of the executor.                                          *)
FailsQuietly(j) == FALSE   \* mutation: an error of the build is only logged
Fails(j) == Active(j)

Fail(p) ==
    LET j == worker[p].job
    IN  /\ Working(p, "fail")
        /\ IF Fails(j)
           THEN SetStatus(j, "failed") /\ refs' = refs \ {j}
           ELSE UNCHANGED <<job, refs>>
        /\ Leave(p)
        /\ UNCHANGED <<cached, alive, queue, request, owned, reader>>

Work(p) ==
    \/ Begin(p) \/ Claim(p) \/ Heartbeat(p) \/ Build(p) \/ Raise(p)
    \/ Complete(p) \/ Fail(p)

-----------------------------------------------------------------------------
(* Time and processes *)

(* Five minutes after the last heartbeat.  A build may take longer.        *)
LeaseExpires(j) ==
    /\ job[j].status = "running" /\ ~ job[j].expired
    /\ job' = [job EXCEPT ![j].expired = TRUE]
    /\ UNCHANGED <<refs, cached, alive, queue, worker, request, owned, reader>>

(* A key pressed in a shell ends what it is doing, and cancels the job it  *)
(* has created if that has not ended.  An invocation that works on the job *)
(* of another process does nothing about it: to the tables it is a crash.  *)
ReleasedUnlessRunning(j) ==   \* mutation: a job at work keeps its references
    IF job[j].status = "running" THEN refs ELSE refs \ {j}

Released(j) == refs \ {j}

Interrupt(p) ==
    LET j == owned[p]
    IN  /\ p \in alive \cap Shells /\ j # None
        /\ IF Active(j) THEN SetStatus(j, "cancelled") ELSE UNCHANGED job
        /\ refs' = Released(j)
        /\ Leave(p)
        /\ queue' = [queue EXCEPT ![p] = <<>>]
        /\ owned' = [owned EXCEPT ![p] = None]
        /\ UNCHANGED <<cached, alive, request, reader>>

(* recover_interrupted_artifact_jobs, which every process calls when it    *)
(* starts: running jobs whose lease has run out are interrupted.           *)
RecoveredByReason(row) ==   \* mutation: the error code becomes the status
    IF row.status = "running" /\ row.expired
    THEN [row EXCEPT !.status = "lease_expired"] ELSE row

Recovered(row) ==
    IF row.status = "running" /\ row.expired
    THEN [row EXCEPT !.status = "interrupted"] ELSE row

Recover == job' = [j \in JobIds |-> Recovered(job[j])]

Crash(p) ==
    /\ p \in alive
    /\ alive' = alive \ {p}
    /\ queue' = [queue EXCEPT ![p] = <<>>]
    /\ worker' = [worker EXCEPT ![p] = Idle]
    /\ request' = [request EXCEPT ![p] = None]
    /\ owned' = [owned EXCEPT ![p] = None]
    /\ UNCHANGED <<tables, reader>>

Restart(p) ==
    /\ p \notin alive
    /\ Recover
    /\ alive' = alive \cup {p}
    /\ UNCHANGED <<refs, cached, queue, worker, request, owned, reader>>

(* An invocation has ended, another one begins. *)
Invoke(p) ==
    /\ p \in alive \cap Shells /\ Quiet(p)
    /\ Recover
    /\ owned' = [owned EXCEPT ![p] = None]
    /\ UNCHANGED <<refs, cached, alive, queue, worker, request, reader>>

-----------------------------------------------------------------------------
(* Deliveries and administration *)

NoReader == [at |-> "idle", key |-> None]
MoveReader(r, label) == reader' = [reader EXCEPT ![r].at = label] /\ UNCHANGED others

(* acquire_artifact_cache_reader selects the entry before its transaction  *)
(* begins, and inserts the lease in it.  A delivery that outlives its      *)
(* lease, or dies, is "late" from then on.                                 *)
FindEntry(r, k) ==
    /\ reader[r].at = "idle" /\ k \in cached
    /\ reader' = [reader EXCEPT ![r] = [at |-> "found", key |-> k]]
    /\ UNCHANGED others
TakeLease(r) == reader[r].at = "found" /\ MoveReader(r, "leased")
LeaseRunsOut(r) == reader[r].at = "leased" /\ MoveReader(r, "late")

FinishReading(r) ==
    /\ reader[r].at \in {"leased", "late"}
    /\ reader' = [reader EXCEPT ![r] = NoReader]
    /\ UNCHANGED others

Leased(k) == \E r \in Readers : reader[r] = [at |-> "leased", key |-> k]
NoActiveJob(k) == \A j \in JobIds : job[j].key = k => ~ Active(j)

(* scavenge_artifact_cache: an old entry without an active job or a lease. *)
ColdUnlessActive(k) == NoActiveJob(k)   \* mutation: leases do not matter
Cold(k) == NoActiveJob(k) /\ ~ Leased(k)

ScavengeCache(k) ==
    /\ k \in cached /\ Cold(k)
    /\ cached' = cached \ {k}
    /\ UNCHANGED <<job, refs, alive, queue, worker, request, owned, reader>>

(* scavenge_artifact_jobs: the row of an old job that has ended and that   *)
(* no retry points to.                                                     *)
RemovableOld(j) == Terminal(j)   \* mutation: retries do not matter

Removable(j) == Terminal(j) /\ \A i \in JobIds : Row(i) => job[i].retryOf # j

ScavengeJob(j) ==
    /\ Removable(j)
    /\ job' = [job EXCEPT ![j] = [NoJob EXCEPT !.status = "removed"]]
    /\ refs' = refs \ {j}
    /\ UNCHANGED <<cached, alive, queue, worker, request, owned, reader>>

Init ==
    /\ job = [j \in JobIds |-> NoJob]
    /\ refs = {} /\ cached = {}
    /\ alive = Processes
    /\ queue = [p \in Processes |-> <<>>]
    /\ worker = [p \in Processes |-> Idle]
    /\ request = [p \in Processes |-> None]
    /\ owned = [p \in Processes |-> None]
    /\ reader = [r \in Readers |-> NoReader]

Request(p) ==
    \/ \E k \in Keys : LookUp(p, k)
    \/ \E j \in JobIds : InsertJob(p, j)
    \/ InsertRefused(p)
    \/ \E i, j \in JobIds : RetryJob(p, i, j)
    \/ Interrupt(p)

Next ==
    \/ \E p \in Processes :
         \/ Request(p) \/ Work(p)
         \/ Crash(p) \/ Restart(p) \/ Invoke(p)
    \/ \E j \in JobIds : LeaseExpires(j) \/ ScavengeJob(j)
    \/ \E k \in Keys : ScavengeCache(k) \/ \E r \in Readers : FindEntry(r, k)
    \/ \E r \in Readers : TakeLease(r) \/ LeaseRunsOut(r) \/ FinishReading(r)

Spec == Init /\ [][Next]_vars

(* Threads go on, time passes, and servers that died are started again.    *)
(* Nobody has to call the command line.                                    *)
Fairness ==
    /\ \A p \in Processes : WF_vars(Work(p))
    /\ \A p \in Servers : WF_vars(Restart(p))
    /\ \A j \in JobIds : WF_vars(LeaseExpires(j))
FairSpec == Spec /\ Fairness

-----------------------------------------------------------------------------
(* Properties *)

JobRows ==
    [key : Keys \cup {None}, no : Nat, retryOf : JobIds \cup {None},
     status : ActiveStatuses \cup TerminalStatuses \cup {"none", "removed"},
     expired : BOOLEAN]
Requests == [key : Keys, no : Nat, retryOf : JobIds \cup {None}]
Labels == {"idle", "claim", "heartbeat", "build", "built", "complete", "fail"}

(* Every variable has its type. *)
TypeOK ==
    /\ job \in [JobIds -> JobRows]
    /\ refs \subseteq JobIds /\ cached \subseteq Keys /\ alive \subseteq Processes
    /\ queue \in [Processes -> Seq(JobIds)]
    /\ worker \in [Processes -> [at : Labels, job : JobIds \cup {None}]]
    /\ request \in [Processes -> Requests \cup {None}]
    /\ owned \in [Processes -> JobIds \cup {None}]
    /\ reader \in [Readers -> [at : {"idle", "found", "leased", "late"},
                               key : Keys \cup {None}]]

(* A key has at most one active job, though requests of several processes  *)
(* look first and insert later, and retry the same job.                    *)
OneActiveJob ==
    \A i, j \in JobIds : Active(i) /\ Active(j) /\ job[i].key = job[j].key => i = j

(* The snapshots a job is built from are protected as long as it is        *)
(* active, whichever worker, request or cleanup touches the job.           *)
ActiveIsProtected == \A j \in JobIds : Active(j) => j \in refs

(* A job that has completed, failed or been cancelled protects nothing.    *)
(* One that was interrupted keeps its references: recovery forgets them.   *)
EndedIsReleased ==
    \A j \in refs : Active(j) \/ job[j].status = "interrupted"

(* The job a retry refers to is there, is an attempt of the same key with  *)
(* a lower number, and ended without a result; numbers do not repeat.      *)
RetriesPointBack ==
    \A j \in JobIds : Row(j) =>
      LET i == job[j].retryOf
      IN  /\ i # None => /\ job[i].status \in RetryableStatuses
                         /\ job[i].key = job[j].key
                         /\ job[i].no < job[j].no
          /\ \A h \in JobIds : Row(h) /\ job[h].key = job[j].key
                                 /\ job[h].no = job[j].no => h = j

(* The attempts of a key come one after the other, although requests read  *)
(* before they write and several processes run and recover jobs.           *)
JobsInOrder == TypeOK /\ OneActiveJob /\ RetriesPointBack

(* References are there for as long as a job is active, and no longer      *)
(* unless it was interrupted.                                              *)
ReferencesFollowJobs == ActiveIsProtected /\ EndedIsReleased

(* A job that has ended stays as it is until its row is removed: a worker  *)
(* that was slow, lost its lease, or works on the job of another process   *)
(* does not complete or fail it afterwards.                                *)
TerminalIsFinal ==
    \A j \in JobIds : Terminal(j) => job'[j].status \in {job[j].status, "removed"}

(* An entry leaves the cache only when neither a job nor a delivery with a *)
(* lease has to do with its key; completing a job replaces an entry.       *)
EntriesInUseStay == \A k \in cached \ cached' : NoActiveJob(k) /\ ~ Leased(k)

(* No step takes back a result, or what somebody uses of it. *)
NothingIsTakenBack == [][TerminalIsFinal /\ EntriesInUseStay]_vars

(* A process that is given a pending job sees it start or end, and one     *)
(* that works on a job sees it end, unless this very process dies: each    *)
(* way out of run_job leaves the job terminal, for all the leases that run *)
(* out and all the other processes that take part.                         *)
SubmittedJobsEnd ==
    \A p \in Processes, j \in JobIds :
      /\ Has(p, j) /\ job[j].status = "pending"
           ~> job[j].status # "pending" \/ p \notin alive
      /\ worker[p].job = j ~> ~ Active(j) \/ p \notin alive
=============================================================================
