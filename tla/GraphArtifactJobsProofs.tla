----------------------- MODULE GraphArtifactJobsProofs -----------------------
(***************************************************************************)
(* Theorems about GraphArtifactJobs for any number of keys, jobs, servers, *)
(* shells and deliveries.                                                  *)
(*                                                                         *)
(* Neither property of a run is inductive.  Inv adds that a thread outside *)
(* its idle state has a job, and that a row somebody has decided to insert *)
(* retries a job of its key that ended earlier without a result, unless    *)
(* that was removed.  What an action does to the rows and to their         *)
(* references is one of three things (JobEffect): rows move on, a row is   *)
(* inserted, a row is removed.  The properties are proved from these.      *)
(***************************************************************************)
EXTENDS GraphArtifactJobs, TLAPS

(* A thread that is not idle has a job. *)
WorkersHaveJobs ==
    \A p \in Processes : worker[p].at # "idle" => worker[p].job \in JobIds

(* The job that a new row retries ended without a result, before it, or    *)
(* was removed since.                                                      *)
Founded(row) ==
    LET i == row.retryOf
    IN  i # None => \/ job[i].status = "removed"
                    \/ /\ job[i].status \in RetryableStatuses
                       /\ job[i].key = row.key
                       /\ job[i].no < row.no

RequestsAreFounded == \A p \in Processes : request[p] # None => Founded(request[p])

(* A row is a job of a key. *)
RowsHaveKeys == \A j \in JobIds : Row(j) => job[j].key \in Keys

Inv ==
    /\ JobsInOrder /\ ReferencesFollowJobs
    /\ WorkersHaveJobs /\ RequestsAreFounded /\ RowsHaveKeys

-----------------------------------------------------------------------------
(* What a step does to the rows *)

SameJob(j) ==
    /\ job'[j].key = job[j].key /\ job'[j].no = job[j].no
    /\ job'[j].retryOf = job[j].retryOf

(* Only an active job changes its status, and never to pending.            *)
MovesOn(j) ==
    \/ job'[j].status = job[j].status
    \/ Active(j) /\ job'[j].status \in {"running"} \cup TerminalStatuses

(* References are released when the job ends, unless it is interrupted.    *)
ReleasesAtEnd(j) ==
    /\ j \in refs' => j \in refs
    /\ j \in refs /\ job'[j].status \in ActiveStatuses => j \in refs'
    /\ job'[j].status # job[j].status /\ job'[j].status \in TerminalStatuses =>
         j \notin refs' \/ job'[j].status = "interrupted"

Moves == \A j \in JobIds : SameJob(j) /\ MovesOn(j) /\ ReleasesAtEnd(j)

Inserts(j, row) == MayInsert(row) /\ Founded(row) /\ Insert(j, row)

Removes(j) ==
    /\ Removable(j)
    /\ job' = [job EXCEPT ![j] = [NoJob EXCEPT !.status = "removed"]]
    /\ refs' = refs \ {j}

JobEffect ==
    \/ Moves
    \/ \E j \in JobIds, row \in Requests : Inserts(j, row)
    \/ \E j \in JobIds : Removes(j)

(* A request is decided while the rows stay as they are. *)
RequestEffect ==
    \A p \in Processes :
      \/ request'[p] \in {request[p], None}
      \/ UNCHANGED job /\ \E row \in Requests : request'[p] = row /\ Founded(row)

CacheEffect == \A k \in cached \ cached' : Cold(k)

StepOK == TypeOK' /\ WorkersHaveJobs' /\ JobEffect /\ RequestEffect /\ CacheEffect

-----------------------------------------------------------------------------
(* Facts about the parts *)

LEMMA NoneApart == None \notin JobIds /\ None \notin Keys
BY NoneAssumption

LEMMA RowType ==
  ASSUME TypeOK, NEW j \in JobIds
  PROVE  /\ job[j] \in JobRows
         /\ job[j].key \in Keys \cup {None} /\ job[j].no \in Nat
         /\ job[j].retryOf \in JobIds \cup {None}
         /\ job[j].expired \in BOOLEAN
BY DEF TypeOK, JobRows

LEMMA NoJobType == [NoJob EXCEPT !.status = "removed"] \in JobRows
BY DEF NoJob, JobRows

(* Rows that stay as they are have moved on. *)
LEMMA NothingMoves ==
  ASSUME UNCHANGED job, UNCHANGED refs
  PROVE  Moves
BY DEF Moves, SameJob, MovesOn, ReleasesAtEnd

(* One row gets another status, and its references are released if it ends. *)
LEMMA OneMoves ==
  ASSUME TypeOK, NEW j \in JobIds, Active(j),
         NEW status \in {"running"} \cup (TerminalStatuses \ {"interrupted"}),
         SetStatus(j, status),
         refs' = IF status = "running" THEN refs ELSE refs \ {j}
  PROVE  Moves /\ job' \in [JobIds -> JobRows]
<1>1. job' \in [JobIds -> JobRows]
  <2>1. [job[j] EXCEPT !.status = status] \in JobRows
    BY RowType DEF JobRows, ActiveStatuses
  <2>2. job' = [job EXCEPT ![j] = [job[j] EXCEPT !.status = status]]
    BY DEF SetStatus
  <2> QED
    BY <2>1, <2>2 DEF TypeOK
<1>2. \A i \in JobIds : i # j => job'[i] = job[i]
  BY DEF TypeOK, SetStatus
<1>3. SameJob(j) /\ job'[j].status = status
  BY DEF TypeOK, SetStatus, SameJob, JobRows
<1>4. MovesOn(j)
  BY <1>3 DEF MovesOn
<1>5. ReleasesAtEnd(j)
  BY <1>3 DEF ReleasesAtEnd, ActiveStatuses, TerminalStatuses, RetryableStatuses
<1>6. \A i \in JobIds : i # j => SameJob(i) /\ MovesOn(i) /\ ReleasesAtEnd(i)
  BY <1>2 DEF SameJob, MovesOn, ReleasesAtEnd
<1> QED
  BY <1>1, <1>3, <1>4, <1>5, <1>6 DEF Moves

(* A row changes nothing but whether its lease has run out. *)
LEMMA OneLeaseMoves ==
  ASSUME TypeOK, NEW j \in JobIds, NEW flag \in BOOLEAN,
         job' = [job EXCEPT ![j].expired = flag], UNCHANGED refs
  PROVE  Moves /\ job' \in [JobIds -> JobRows]
<1>1. job' \in [JobIds -> JobRows]
  <2>1. [job[j] EXCEPT !.expired = flag] \in JobRows
    BY RowType DEF JobRows
  <2> QED
    BY <2>1 DEF TypeOK
<1>2. \A i \in JobIds : SameJob(i) /\ job'[i].status = job[i].status
  BY DEF TypeOK, SameJob, JobRows
<1> QED
  BY <1>1, <1>2 DEF Moves, MovesOn, ReleasesAtEnd

(* Recovery interrupts running jobs, and keeps all references. *)
LEMMA RecoveryMoves ==
  ASSUME TypeOK, Recover, UNCHANGED refs
  PROVE  Moves /\ job' \in [JobIds -> JobRows]
<1>1. ASSUME NEW j \in JobIds
      PROVE  /\ job'[j] \in JobRows /\ SameJob(j)
             /\ \/ job'[j].status = job[j].status
                \/ job[j].status = "running" /\ job'[j].status = "interrupted"
  <2>1. job'[j] = Recovered(job[j])
    BY DEF Recover
  <2>2. job[j] \in JobRows
    BY RowType
  <2>3. CASE job[j].status = "running" /\ job[j].expired
    <3>1. job'[j] = [job[j] EXCEPT !.status = "interrupted"]
      BY <2>1, <2>3 DEF Recovered
    <3>2. job'[j].status = "interrupted" /\ SameJob(j)
      BY <2>2, <3>1 DEF JobRows, SameJob
    <3>3. job'[j] \in JobRows
      BY <2>2, <3>1 DEF JobRows, TerminalStatuses, RetryableStatuses
    <3> QED
      BY <2>3, <3>2, <3>3
  <2>4. CASE ~ (job[j].status = "running" /\ job[j].expired)
    BY <2>1, <2>2, <2>4 DEF Recovered, SameJob
  <2> QED
    BY <2>3, <2>4
<1>2. job' \in [JobIds -> JobRows]
  BY <1>1 DEF Recover
<1>3. \A j \in JobIds : MovesOn(j)
  BY <1>1 DEF MovesOn, Active, ActiveStatuses, TerminalStatuses, RetryableStatuses
<1>4. \A j \in JobIds : ReleasesAtEnd(j)
  BY <1>1 DEF ReleasesAtEnd, ActiveStatuses
<1> QED
  BY <1>1, <1>2, <1>3, <1>4 DEF Moves

(* Where a thread may go. *)
LEMMA WorkerMoves ==
  ASSUME TypeOK, WorkersHaveJobs, NEW p \in Processes,
         \/ Leave(p)
         \/ UNCHANGED worker
         \/ worker[p].at # "idle" /\ \E label \in Labels : At(p, label)
         \/ \E j \in JobIds, label \in Labels :
              worker' = [worker EXCEPT ![p] = [at |-> label, job |-> j]]
  PROVE  /\ worker' \in [Processes -> [at : Labels, job : JobIds \cup {None}]]
         /\ WorkersHaveJobs'
<1>1. CASE Leave(p)
  BY <1>1 DEF Leave, Idle, TypeOK, WorkersHaveJobs, Labels
<1>2. CASE UNCHANGED worker
  BY <1>2 DEF TypeOK, WorkersHaveJobs
<1>3. CASE worker[p].at # "idle" /\ \E label \in Labels : At(p, label)
  BY <1>3 DEF At, TypeOK, WorkersHaveJobs
<1>4. CASE \E j \in JobIds, label \in Labels :
             worker' = [worker EXCEPT ![p] = [at |-> label, job |-> j]]
  BY <1>4 DEF TypeOK, WorkersHaveJobs
<1> QED
  BY <1>1, <1>2, <1>3, <1>4

(* A job of a queue may be handed over, or not. *)
LEMMA SubmitType ==
  ASSUME TypeOK, NEW p \in Processes, NEW j \in JobIds, Submit(p, j)
  PROVE  queue' \in [Processes -> Seq(JobIds)]
BY DEF TypeOK, Submit

-----------------------------------------------------------------------------
(* The actions *)

(* A step that leaves the rows and references alone. *)
LEMMA RowsUntouched ==
  ASSUME Inv, UNCHANGED <<job, refs>>,
         alive' \subseteq Processes,
         queue' \in [Processes -> Seq(JobIds)],
         worker' \in [Processes -> [at : Labels, job : JobIds \cup {None}]],
         WorkersHaveJobs',
         request' \in [Processes -> Requests \cup {None}], RequestEffect,
         owned' \in [Processes -> JobIds \cup {None}],
         cached' \subseteq Keys, CacheEffect,
         UNCHANGED reader
  PROVE  StepOK
<1>1. TypeOK'
  BY DEF Inv, JobsInOrder, TypeOK
<1> QED
  BY <1>1, NothingMoves DEF StepOK, JobEffect

LEMMA NothingRequested ==
  ASSUME UNCHANGED request
  PROVE  RequestEffect
BY DEF RequestEffect

LEMMA NothingScavenged ==
  ASSUME cached \subseteq cached'
  PROVE  CacheEffect
BY DEF CacheEffect

(* The latest job of a key is a row of this key. *)
LEMMA LookUpStep ==
  ASSUME Inv, NEW p \in Processes, NEW k \in Keys, LookUp(p, k)
  PROVE  StepOK
<1>0. TypeOK /\ UNCHANGED <<job, refs, cached, alive, worker, owned, reader>>
  BY DEF Inv, JobsInOrder, LookUp, tables
<1>1. WorkersHaveJobs' /\ CacheEffect
  BY <1>0, NothingScavenged DEF Inv, WorkersHaveJobs
<1>2. CASE UNCHANGED request /\ \E j \in JobIds : Submit(p, j)
  <2>1. queue' \in [Processes -> Seq(JobIds)]
    BY <1>0, <1>2, SubmitType
  <2> QED
    BY <1>0, <1>1, <1>2, <2>1, NothingRequested, RowsUntouched DEF TypeOK
<1>3. ASSUME NEW row \in Requests, Founded(row),
             request' = [request EXCEPT ![p] = row], UNCHANGED queue
      PROVE  StepOK
  <2>2. RequestEffect
    BY <1>0, <1>3 DEF RequestEffect, TypeOK
  <2>3. request' \in [Processes -> Requests \cup {None}]
    BY <1>0, <1>3 DEF TypeOK
  <2> QED
    BY <1>0, <1>1, <1>3, <2>2, <2>3, RowsUntouched DEF TypeOK
<1>4. CASE request' = [request EXCEPT ![p] = [key |-> k, no |-> 1, retryOf |-> None]]
           /\ UNCHANGED queue
  <2>1. [key |-> k, no |-> 1, retryOf |-> None] \in Requests
    BY DEF Requests
  <2> QED
    BY <1>3, <1>4, <2>1 DEF Founded
<1>5. ASSUME NEW j \in Latest(k), job[j].status \in RetryableStatuses, UNCHANGED queue,
             request' = [request EXCEPT ![p] = [key |-> k, no |-> job[j].no + 1, retryOf |-> j]]
      PROVE  StepOK
  <2> DEFINE row == [key |-> k, no |-> job[j].no + 1, retryOf |-> j]
  <2>1. j \in JobIds /\ job[j].key = k /\ job[j].no \in Nat
    BY <1>0, RowType DEF Latest
  <2>2. row \in Requests
    BY <2>1 DEF Requests
  <2>3. Founded(row)
    BY <1>5, <2>1 DEF Founded
  <2> QED
    BY <1>3, <1>5, <2>2, <2>3
<1> QED
  BY <1>2, <1>4, <1>5 DEF LookUp, Latest

LEMMA InsertType ==
  ASSUME TypeOK, NEW j \in JobIds, NEW row \in Requests, Insert(j, row)
  PROVE  /\ job' \in [JobIds -> JobRows] /\ refs' \subseteq JobIds
         /\ job'[j].status = "pending" /\ job'[j].key = row.key
         /\ job'[j].no = row.no /\ job'[j].retryOf = row.retryOf
         /\ \A i \in JobIds : i # j => job'[i] = job[i]
<1> DEFINE new == [NoJob EXCEPT !.key = row.key, !.no = row.no,
                                !.retryOf = row.retryOf, !.status = "pending"]
<1>1. /\ new \in JobRows /\ new.status = "pending" /\ new.key = row.key
      /\ new.no = row.no /\ new.retryOf = row.retryOf
  BY DEF NoJob, JobRows, Requests, ActiveStatuses
<1>2. job' = [job EXCEPT ![j] = new] /\ refs' = refs \cup {j}
  BY DEF Insert
<1> HIDE DEF new
<1> QED
  BY <1>1, <1>2 DEF TypeOK

LEMMA InsertJobStep ==
  ASSUME Inv, NEW p \in Processes, NEW j \in JobIds, InsertJob(p, j)
  PROVE  StepOK
<1>1. TypeOK /\ request[p] \in Requests /\ Founded(request[p])
  BY DEF Inv, JobsInOrder, TypeOK, InsertJob, RequestsAreFounded
<1>2. Inserts(j, request[p])
  BY <1>1 DEF InsertJob, Inserts
<1>3. queue' \in [Processes -> Seq(JobIds)]
  BY <1>1, SubmitType DEF InsertJob
<1>4. job' \in [JobIds -> JobRows] /\ refs' \subseteq JobIds
  BY <1>1, InsertType DEF InsertJob
<1>5. /\ request' \in [Processes -> Requests \cup {None}]
      /\ owned' \in [Processes -> JobIds \cup {None}]
      /\ UNCHANGED <<cached, alive, worker, reader>>
  BY <1>1 DEF InsertJob, TypeOK
<1>6. TypeOK'
  BY <1>1, <1>3, <1>4, <1>5 DEF TypeOK
<1>7. WorkersHaveJobs' /\ CacheEffect
  BY <1>5, NothingScavenged DEF Inv, WorkersHaveJobs
<1>8. RequestEffect
  BY <1>1 DEF InsertJob, RequestEffect, TypeOK
<1> QED
  BY <1>1, <1>2, <1>6, <1>7, <1>8 DEF StepOK, JobEffect

LEMMA InsertRefusedStep ==
  ASSUME Inv, NEW p \in Processes, InsertRefused(p)
  PROVE  StepOK
<1>1. TypeOK /\ UNCHANGED <<job, refs, cached, alive, queue, worker, owned, reader>>
  BY DEF Inv, JobsInOrder, InsertRefused, tables
<1>2. request' \in [Processes -> Requests \cup {None}] /\ RequestEffect
  BY <1>1 DEF InsertRefused, TypeOK, RequestEffect
<1>3. WorkersHaveJobs' /\ CacheEffect
  BY <1>1, NothingScavenged DEF Inv, WorkersHaveJobs
<1> QED
  BY <1>1, <1>2, <1>3, RowsUntouched DEF TypeOK

LEMMA RetryJobStep ==
  ASSUME Inv, NEW p \in Processes, NEW i \in JobIds, NEW j \in JobIds, RetryJob(p, i, j)
  PROVE  StepOK
<1> DEFINE row == [key |-> job[i].key, no |-> job[i].no + 1, retryOf |-> i]
<1>1. TypeOK /\ job[i].status \in RetryableStatuses /\ job[i].no \in Nat
  BY RowType DEF Inv, JobsInOrder, RetryJob, Retries
<1>2. job[i].key \in Keys
  BY <1>1 DEF Inv, RowsHaveKeys, Row, TerminalStatuses
<1>3. row \in Requests /\ Founded(row)
  BY <1>1, <1>2 DEF Requests, Founded
<1>4. MayInsert(row) /\ Insert(j, row) /\ Submit(p, j)
  BY DEF RetryJob
<1> HIDE DEF row
<1>5. job' \in [JobIds -> JobRows] /\ refs' \subseteq JobIds
  BY <1>1, <1>3, <1>4, InsertType
<1>6. queue' \in [Processes -> Seq(JobIds)]
  BY <1>1, <1>4, SubmitType
<1>7. UNCHANGED <<cached, alive, worker, request, owned, reader>>
  BY DEF RetryJob
<1>8. TypeOK'
  BY <1>1, <1>5, <1>6, <1>7 DEF TypeOK
<1>9. WorkersHaveJobs' /\ CacheEffect /\ RequestEffect
  BY <1>7, NothingScavenged, NothingRequested DEF Inv, WorkersHaveJobs
<1> QED
  BY <1>3, <1>4, <1>8, <1>9 DEF StepOK, JobEffect, Inserts

-----------------------------------------------------------------------------
(* The thread that runs jobs *)

(* A step that moves rows on: what is left to show of it. *)
LEMMA RowsMoveOn ==
  ASSUME Inv, Moves, job' \in [JobIds -> JobRows], refs' \subseteq JobIds,
         alive' \subseteq Processes,
         queue' \in [Processes -> Seq(JobIds)],
         worker' \in [Processes -> [at : Labels, job : JobIds \cup {None}]],
         WorkersHaveJobs',
         request' \in [Processes -> Requests \cup {None}], RequestEffect,
         owned' \in [Processes -> JobIds \cup {None}],
         cached' \subseteq Keys, CacheEffect,
         UNCHANGED reader
  PROVE  StepOK
<1>1. TypeOK'
  BY DEF Inv, JobsInOrder, TypeOK
<1> QED
  BY <1>1 DEF StepOK, JobEffect

(* A step of a thread. *)
LEMMA WorkStepOK ==
  ASSUME Inv, NEW p \in Processes,
         Moves, job' \in [JobIds -> JobRows], refs' \subseteq JobIds,
         \/ Leave(p)
         \/ UNCHANGED worker
         \/ worker[p].at # "idle" /\ \E label \in Labels : At(p, label)
         \/ \E j \in JobIds, label \in Labels :
              worker' = [worker EXCEPT ![p] = [at |-> label, job |-> j]],
         queue' \in [Processes -> Seq(JobIds)],
         owned' \in [Processes -> JobIds \cup {None}],
         cached \subseteq cached', cached' \subseteq Keys,
         alive' \subseteq Processes, UNCHANGED <<request, reader>>
  PROVE  StepOK
<1>1. TypeOK /\ WorkersHaveJobs
  BY DEF Inv, JobsInOrder
<1>2. /\ worker' \in [Processes -> [at : Labels, job : JobIds \cup {None}]]
      /\ WorkersHaveJobs'
  BY <1>1, WorkerMoves
<1> QED
  BY <1>1, <1>2, NothingRequested, NothingScavenged, RowsMoveOn DEF TypeOK

LEMMA BeginStep ==
  ASSUME Inv, NEW p \in Processes, Begin(p)
  PROVE  StepOK
<1>1. TypeOK /\ UNCHANGED <<job, refs, cached, alive, request, owned, reader>>
  BY DEF Inv, JobsInOrder, Begin, tables
<1>2. queue[p] \in Seq(JobIds) /\ queue[p] # <<>>
  BY <1>1 DEF Begin, TypeOK
<1>3. Head(queue[p]) \in JobIds /\ Tail(queue[p]) \in Seq(JobIds)
  BY <1>2
<1>4. queue' \in [Processes -> Seq(JobIds)]
  BY <1>1, <1>3 DEF Begin, TypeOK
<1>5. \/ worker' = [worker EXCEPT ![p] = [at |-> "claim", job |-> Head(queue[p])]]
      \/ UNCHANGED worker
  BY <1>1 DEF Begin, TypeOK
<1> QED
  BY <1>1, <1>3, <1>4, <1>5, NothingMoves, WorkStepOK DEF TypeOK, Labels

LEMMA ClaimStep ==
  ASSUME Inv, NEW p \in Processes, Claim(p)
  PROVE  StepOK
<1> DEFINE j == worker[p].job
<1>1. TypeOK /\ UNCHANGED <<refs, cached, alive, queue, request, owned, reader>>
  BY DEF Inv, JobsInOrder, Claim
<1>2. j \in JobIds /\ worker[p].at # "idle"
  BY DEF Inv, WorkersHaveJobs, Claim, Working
<1>3. Leave(p) \/ \E label \in Labels : At(p, label)
  BY DEF Claim, Labels
<1>4. CASE Claimed(j)
  <2>1. SetStatus(j, "running")
    BY <1>4 DEF Claim
  <2>2. Active(j)
    BY <1>4 DEF Claimed, Active, ActiveStatuses
  <2>3. Moves /\ job' \in [JobIds -> JobRows]
    BY <1>1, <1>2, <2>1, <2>2, OneMoves
  <2> QED
    BY <1>1, <1>2, <1>3, <2>3, WorkStepOK DEF TypeOK
<1>5. CASE ~ Claimed(j)
  <2>1. UNCHANGED job
    BY <1>5 DEF Claim
  <2> QED
    BY <1>1, <1>2, <1>3, <2>1, NothingMoves, WorkStepOK DEF TypeOK
<1> QED
  BY <1>4, <1>5

LEMMA HeartbeatStep ==
  ASSUME Inv, NEW p \in Processes, Heartbeat(p)
  PROVE  StepOK
<1> DEFINE j == worker[p].job
<1>1. TypeOK /\ UNCHANGED <<refs, cached, alive, queue, request, owned, reader>>
  BY DEF Inv, JobsInOrder, Heartbeat
<1>2. j \in JobIds /\ worker[p].at # "idle"
  BY DEF Inv, WorkersHaveJobs, Heartbeat
<1>3. \E label \in Labels : At(p, label)
  BY DEF Heartbeat, Labels
<1>4. CASE job[j].status = "running"
  <2>1. job' = [job EXCEPT ![j].expired = FALSE]
    BY <1>4 DEF Heartbeat
  <2>2. Moves /\ job' \in [JobIds -> JobRows]
    BY <1>1, <1>2, <2>1, OneLeaseMoves
  <2> QED
    BY <1>1, <1>2, <1>3, <2>2, WorkStepOK DEF TypeOK
<1>5. CASE job[j].status # "running"
  <2>1. UNCHANGED job
    BY <1>5 DEF Heartbeat
  <2> QED
    BY <1>1, <1>2, <1>3, <2>1, NothingMoves, WorkStepOK DEF TypeOK
<1> QED
  BY <1>4, <1>5

(* Building, and whatever goes wrong in it, leaves the tables alone.       *)
LEMMA BuildStep ==
  ASSUME Inv, NEW p \in Processes, Build(p) \/ Raise(p)
  PROVE  StepOK
<1>1. TypeOK /\ UNCHANGED <<job, refs, cached, alive, queue, request, owned, reader>>
  BY DEF Inv, JobsInOrder, Build, Raise, tables
<1>2. worker[p].at # "idle" /\ \E label \in Labels : At(p, label)
  BY DEF Build, Raise, Working, Labels
<1> QED
  BY <1>1, <1>2, NothingMoves, WorkStepOK DEF TypeOK

LEMMA CompleteStep ==
  ASSUME Inv, NEW p \in Processes, Complete(p)
  PROVE  StepOK
<1> DEFINE j == worker[p].job
<1>1. TypeOK /\ UNCHANGED <<alive, queue, request, owned, reader>>
  BY DEF Inv, JobsInOrder, Complete
<1>2. j \in JobIds /\ worker[p].at # "idle"
  BY DEF Inv, WorkersHaveJobs, Complete, Working
<1>3. CASE Completes(j)
  <2>1. /\ SetStatus(j, "completed") /\ refs' = refs \ {j} /\ Leave(p)
        /\ cached' = cached \cup {job[j].key}
    BY <1>3 DEF Complete
  <2>2. Active(j)
    BY <1>3 DEF Completes
  <2>3. Moves /\ job' \in [JobIds -> JobRows]
    BY <1>1, <1>2, <2>1, <2>2, OneMoves DEF TerminalStatuses, RetryableStatuses
  <2>4. job[j].key \in Keys
    BY <1>2, <2>2 DEF Inv, RowsHaveKeys, Row, Active
  <2> QED
    BY <1>1, <1>2, <2>1, <2>3, <2>4, WorkStepOK DEF TypeOK
<1>4. CASE ~ Completes(j)
  <2>1. UNCHANGED <<job, refs, cached>> /\ \E label \in Labels : At(p, label)
    BY <1>4 DEF Complete, tables, Labels
  <2> QED
    BY <1>1, <1>2, <2>1, NothingMoves, WorkStepOK DEF TypeOK
<1> QED
  BY <1>3, <1>4

LEMMA FailStep ==
  ASSUME Inv, NEW p \in Processes, Fail(p)
  PROVE  StepOK
<1> DEFINE j == worker[p].job
<1>1. TypeOK /\ UNCHANGED <<cached, alive, queue, request, owned, reader>> /\ Leave(p)
  BY DEF Inv, JobsInOrder, Fail
<1>2. j \in JobIds
  BY DEF Inv, WorkersHaveJobs, Fail, Working
<1>3. CASE Fails(j)
  <2>1. SetStatus(j, "failed") /\ refs' = refs \ {j}
    BY <1>3 DEF Fail
  <2>2. Active(j)
    BY <1>3 DEF Fails
  <2>3. Moves /\ job' \in [JobIds -> JobRows]
    BY <1>1, <1>2, <2>1, <2>2, OneMoves DEF TerminalStatuses, RetryableStatuses
  <2> QED
    BY <1>1, <2>1, <2>3, WorkStepOK DEF TypeOK
<1>4. CASE ~ Fails(j)
  <2>1. UNCHANGED <<job, refs>>
    BY <1>4 DEF Fail
  <2> QED
    BY <1>1, <2>1, NothingMoves, WorkStepOK DEF TypeOK
<1> QED
  BY <1>3, <1>4

-----------------------------------------------------------------------------
(* Time, processes and administration *)

LEMMA LeaseExpiresStep ==
  ASSUME Inv, NEW j \in JobIds, LeaseExpires(j)
  PROVE  StepOK
<1>1. /\ TypeOK /\ WorkersHaveJobs
      /\ UNCHANGED <<refs, cached, alive, queue, worker, request, owned, reader>>
      /\ job' = [job EXCEPT ![j].expired = TRUE]
  BY DEF Inv, JobsInOrder, LeaseExpires
<1>2. Moves /\ job' \in [JobIds -> JobRows]
  BY <1>1, OneLeaseMoves
<1>3. WorkersHaveJobs'
  BY <1>1 DEF WorkersHaveJobs
<1> QED
  BY <1>1, <1>2, <1>3, NothingRequested, NothingScavenged, RowsMoveOn DEF TypeOK

(* A job that was interrupted before loses its references, too. *)
LEMMA InterruptStep ==
  ASSUME Inv, NEW p \in Processes, Interrupt(p)
  PROVE  StepOK
<1> DEFINE j == owned[p]
<1>1. TypeOK /\ UNCHANGED <<cached, alive, request, reader>> /\ Leave(p)
  BY DEF Inv, JobsInOrder, Interrupt
<1>2. j \in JobIds /\ refs' = refs \ {j}
  BY <1>1 DEF Interrupt, Released, TypeOK
<1>3. /\ queue' \in [Processes -> Seq(JobIds)]
      /\ owned' \in [Processes -> JobIds \cup {None}]
  BY <1>1 DEF Interrupt, TypeOK
<1>4. CASE Active(j)
  <2>1. SetStatus(j, "cancelled")
    BY <1>4 DEF Interrupt
  <2>2. Moves /\ job' \in [JobIds -> JobRows]
    BY <1>1, <1>2, <1>4, <2>1, OneMoves DEF TerminalStatuses, RetryableStatuses
  <2> QED
    BY <1>1, <1>2, <1>3, <2>2, WorkStepOK DEF TypeOK
<1>5. CASE ~ Active(j)
  <2>1. UNCHANGED job
    BY <1>5 DEF Interrupt
  <2>2. Moves
    BY <1>2, <1>5, <2>1 DEF Moves, SameJob, MovesOn, ReleasesAtEnd, Active
  <2> QED
    BY <1>1, <1>2, <1>3, <2>1, <2>2, WorkStepOK DEF TypeOK
<1> QED
  BY <1>4, <1>5

LEMMA CrashStep ==
  ASSUME Inv, NEW p \in Processes, Crash(p)
  PROVE  StepOK
<1>1. TypeOK /\ UNCHANGED <<job, refs, cached, reader>>
  BY DEF Inv, JobsInOrder, Crash, tables
<1>2. /\ worker' \in [Processes -> [at : Labels, job : JobIds \cup {None}]]
      /\ WorkersHaveJobs'
  BY <1>1, WorkerMoves DEF Crash, Leave, Inv
<1>3. /\ request' \in [Processes -> Requests \cup {None}]
      /\ RequestEffect
  BY <1>1 DEF Crash, TypeOK, RequestEffect
<1>4. /\ queue' \in [Processes -> Seq(JobIds)]
      /\ owned' \in [Processes -> JobIds \cup {None}]
      /\ alive' \subseteq Processes
  BY <1>1 DEF Crash, TypeOK
<1> QED
  BY <1>1, <1>2, <1>3, <1>4, NothingScavenged, RowsUntouched DEF TypeOK

LEMMA RecoverStep ==
  ASSUME Inv, NEW p \in Processes, Restart(p) \/ Invoke(p)
  PROVE  StepOK
<1>1. /\ TypeOK /\ UNCHANGED <<refs, cached, queue, worker, request, reader>>
      /\ Recover
  BY DEF Inv, JobsInOrder, Restart, Invoke
<1>2. Moves /\ job' \in [JobIds -> JobRows]
  BY <1>1, RecoveryMoves
<1>3. alive' \subseteq Processes /\ owned' \in [Processes -> JobIds \cup {None}]
  BY <1>1 DEF Restart, Invoke, TypeOK
<1> QED
  BY <1>1, <1>2, <1>3, WorkStepOK DEF TypeOK

(* A delivery changes nothing but its own state. *)
LEMMA ReaderStep ==
  ASSUME Inv, NEW r \in Readers,
         \/ \E k \in Keys : FindEntry(r, k)
         \/ TakeLease(r) \/ LeaseRunsOut(r) \/ FinishReading(r)
  PROVE  StepOK
<1>1. TypeOK /\ UNCHANGED others
  BY DEF Inv, JobsInOrder, FindEntry, TakeLease, LeaseRunsOut, FinishReading, MoveReader
<1>2. UNCHANGED <<job, refs, cached, alive, queue, worker, request, owned>>
  BY <1>1 DEF others, tables
<1>3. reader[r] \in [at : {"idle", "found", "leased", "late"}, key : Keys \cup {None}]
  BY <1>1 DEF TypeOK
<1>4. PICK new \in [at : {"idle", "found", "leased", "late"}, key : Keys \cup {None}] :
        reader' = [reader EXCEPT ![r] = new]
  <2>1. NoReader \in [at : {"idle", "found", "leased", "late"}, key : Keys \cup {None}]
    BY DEF NoReader
  <2>2. \A label \in {"leased", "late"} :
          [reader[r] EXCEPT !.at = label]
            \in [at : {"idle", "found", "leased", "late"}, key : Keys \cup {None}]
    BY <1>3
  <2>3. \A label \in {"leased", "late"} :
          [reader EXCEPT ![r].at = label] = [reader EXCEPT ![r] = [reader[r] EXCEPT !.at = label]]
    OBVIOUS
  <2>4. CASE \E k \in Keys : FindEntry(r, k)
    BY <2>4 DEF FindEntry
  <2>5. CASE TakeLease(r) \/ LeaseRunsOut(r)
    BY <2>2, <2>3, <2>5 DEF TakeLease, LeaseRunsOut, MoveReader
  <2>6. CASE FinishReading(r)
    BY <2>1, <2>6 DEF FinishReading
  <2> QED
    BY <2>4, <2>5, <2>6
<1>5. TypeOK'
  BY <1>1, <1>2, <1>4 DEF TypeOK
<1>6. WorkersHaveJobs' /\ CacheEffect /\ RequestEffect
  BY <1>2, NothingRequested, NothingScavenged DEF Inv, WorkersHaveJobs
<1> QED
  BY <1>2, <1>5, <1>6, NothingMoves DEF StepOK, JobEffect

LEMMA ScavengeCacheStep ==
  ASSUME Inv, NEW k \in Keys, ScavengeCache(k)
  PROVE  StepOK
<1>1. TypeOK /\ UNCHANGED <<job, refs, alive, queue, worker, request, owned, reader>>
  BY DEF Inv, JobsInOrder, ScavengeCache
<1>2. cached' \subseteq Keys /\ CacheEffect
  BY <1>1 DEF ScavengeCache, TypeOK, CacheEffect
<1>3. WorkersHaveJobs'
  BY <1>1 DEF Inv, WorkersHaveJobs
<1> QED
  BY <1>1, <1>2, <1>3, NothingRequested, RowsUntouched DEF TypeOK

LEMMA ScavengeJobStep ==
  ASSUME Inv, NEW j \in JobIds, ScavengeJob(j)
  PROVE  StepOK
<1>1. TypeOK /\ UNCHANGED <<cached, alive, queue, worker, request, owned, reader>>
  BY DEF Inv, JobsInOrder, ScavengeJob
<1>2. Removes(j)
  BY DEF ScavengeJob, Removes
<1>3. job' \in [JobIds -> JobRows] /\ refs' \subseteq JobIds
  BY <1>1, <1>2, NoJobType DEF Removes, TypeOK
<1>4. TypeOK'
  BY <1>1, <1>3 DEF TypeOK
<1>5. WorkersHaveJobs' /\ CacheEffect /\ RequestEffect
  BY <1>1, NothingRequested, NothingScavenged DEF Inv, WorkersHaveJobs
<1> QED
  BY <1>2, <1>4, <1>5 DEF StepOK, JobEffect

-----------------------------------------------------------------------------
(* Every step *)

LEMMA StutteringOK ==
  ASSUME Inv, UNCHANGED vars
  PROVE  StepOK
<1>1. TypeOK /\ UNCHANGED <<job, refs, cached, alive, queue, worker, request, owned, reader>>
  BY DEF Inv, JobsInOrder, vars, others, tables
<1>2. WorkersHaveJobs'
  BY <1>1 DEF Inv, WorkersHaveJobs
<1> QED
  BY <1>1, <1>2, NothingRequested, NothingScavenged, RowsUntouched DEF TypeOK

LEMMA RequestStep ==
  ASSUME Inv, NEW p \in Processes, Request(p)
  PROVE  StepOK
BY LookUpStep, InsertJobStep, InsertRefusedStep, RetryJobStep, InterruptStep DEF Request

LEMMA WorkStep ==
  ASSUME Inv, NEW p \in Processes, Work(p)
  PROVE  StepOK
BY BeginStep, ClaimStep, HeartbeatStep, BuildStep, CompleteStep, FailStep DEF Work

LEMMA EveryStep ==
  ASSUME Inv, [Next]_vars
  PROVE  StepOK
<1>1. CASE UNCHANGED vars
  BY <1>1, StutteringOK
<1>2. ASSUME NEW p \in Processes,
             Request(p) \/ Work(p) \/ Crash(p) \/ Restart(p) \/ Invoke(p)
      PROVE  StepOK
  BY <1>2, RequestStep, WorkStep, CrashStep, RecoverStep
<1>3. ASSUME NEW j \in JobIds, LeaseExpires(j) \/ ScavengeJob(j)
      PROVE  StepOK
  BY <1>3, LeaseExpiresStep, ScavengeJobStep
<1>4. ASSUME NEW k \in Keys, ScavengeCache(k) \/ \E r \in Readers : FindEntry(r, k)
      PROVE  StepOK
  BY <1>4, ScavengeCacheStep, ReaderStep
<1>5. ASSUME NEW r \in Readers, TakeLease(r) \/ LeaseRunsOut(r) \/ FinishReading(r)
      PROVE  StepOK
  BY <1>5, ReaderStep
<1> QED
  BY <1>1, <1>2, <1>3, <1>4, <1>5 DEF Next

-----------------------------------------------------------------------------
(* What the effects leave of the invariant *)

(* An inserted row, next to the others. *)
LEMMA InsertedRow ==
  ASSUME TypeOK, NEW j \in JobIds, NEW row \in Requests, Inserts(j, row)
  PROVE  /\ ~ Row(j) /\ Row(j)' /\ Active(j)'
         /\ job'[j].key = row.key /\ job'[j].no = row.no
         /\ job'[j].retryOf = row.retryOf
         /\ \A i \in JobIds : i # j => job'[i] = job[i]
         /\ refs' = refs \cup {j}
<1>1. Insert(j, row)
  BY DEF Inserts
<1>2. ~ Row(j) /\ refs' = refs \cup {j}
  BY <1>1 DEF Insert, Fresh, Row, ActiveStatuses, TerminalStatuses, RetryableStatuses
<1> QED
  BY <1>1, <1>2, InsertType DEF Row, Active, ActiveStatuses

(* A removed row, next to the others. *)
LEMMA RemovedRow ==
  ASSUME TypeOK, NEW j \in JobIds, Removes(j)
  PROVE  /\ Terminal(j) /\ ~ Row(j)' /\ ~ Active(j)'
         /\ \A i \in JobIds : i # j => job'[i] = job[i]
         /\ refs' = refs \ {j}
<1>1. job'[j].status = "removed"
  BY DEF TypeOK, Removes, NoJob
<1> QED
  BY <1>1 DEF TypeOK, Removes, Removable, Row, Active,
              ActiveStatuses, TerminalStatuses, RetryableStatuses

(* Rows that move on stay rows, and their jobs, once ended, stay as they are. *)
LEMMA MovedRow ==
  ASSUME Moves, NEW j \in JobIds
  PROVE  /\ SameJob(j) /\ (Row(j)' <=> Row(j)) /\ (Active(j)' => Active(j))
         /\ Terminal(j) => job'[j].status = job[j].status
BY DEF Moves, MovesOn, Row, Active, Terminal, ActiveStatuses, TerminalStatuses,
       RetryableStatuses

LEMMA KeysStay ==
  ASSUME Inv, StepOK
  PROVE  RowsHaveKeys'
<1>1. CASE Moves
  BY <1>1, MovedRow DEF Inv, RowsHaveKeys, SameJob
<1>2. ASSUME NEW j \in JobIds, NEW row \in Requests, Inserts(j, row)
      PROVE  RowsHaveKeys'
  BY <1>2, InsertedRow DEF Inv, JobsInOrder, RowsHaveKeys, Row, Requests
<1>3. ASSUME NEW j \in JobIds, Removes(j)
      PROVE  RowsHaveKeys'
  BY <1>3, RemovedRow DEF Inv, JobsInOrder, RowsHaveKeys, Row
<1> QED
  BY <1>1, <1>2, <1>3 DEF StepOK, JobEffect

LEMMA OneActiveJobStays ==
  ASSUME Inv, StepOK
  PROVE  OneActiveJob'
<1>1. CASE Moves
  BY <1>1, MovedRow DEF Inv, JobsInOrder, OneActiveJob, SameJob
<1>2. ASSUME NEW j \in JobIds, NEW row \in Requests, Inserts(j, row)
      PROVE  OneActiveJob'
  <2>1. \A i \in JobIds : Active(i) => job[i].key # row.key
    BY <1>2 DEF Inserts, MayInsert, Row, Active
  <2>2. \A i \in JobIds : i # j => (Active(i)' <=> Active(i)) /\ job'[i].key = job[i].key
    BY <1>2, InsertedRow DEF Inv, JobsInOrder, Active
  <2>3. job'[j].key = row.key
    BY <1>2, InsertedRow DEF Inv, JobsInOrder
  <2> QED
    BY <2>1, <2>2, <2>3 DEF Inv, JobsInOrder, OneActiveJob
<1>3. ASSUME NEW j \in JobIds, Removes(j)
      PROVE  OneActiveJob'
  BY <1>3, RemovedRow DEF Inv, JobsInOrder, OneActiveJob, Active
<1> QED
  BY <1>1, <1>2, <1>3 DEF StepOK, JobEffect

(* What RetriesPointBack says of a job. *)
PointsBack(j) ==
    LET i == job[j].retryOf
    IN  i # None => /\ job[i].status \in RetryableStatuses
                    /\ job[i].key = job[j].key
                    /\ job[i].no < job[j].no
Numbered(j) ==
    \A h \in JobIds :
      Row(h) /\ job[h].key = job[j].key /\ job[h].no = job[j].no => h = j

LEMMA PointsBackParts ==
  RetriesPointBack <=> \A j \in JobIds : Row(j) => PointsBack(j) /\ Numbered(j)
BY DEF RetriesPointBack, PointsBack, Numbered

LEMMA PointsBackPartsNext ==
  RetriesPointBack' <=> \A j \in JobIds : Row(j)' => PointsBack(j)' /\ Numbered(j)'
BY DEF RetriesPointBack, PointsBack, Numbered

LEMMA RetriesStay ==
  ASSUME Inv, StepOK
  PROVE  RetriesPointBack'
<1>1. \A j \in JobIds : Row(j) => PointsBack(j) /\ Numbered(j)
  BY PointsBackParts DEF Inv, JobsInOrder
<1>2. \A j \in JobIds : job[j].retryOf \in JobIds \cup {None}
  BY RowType DEF Inv, JobsInOrder
<1>3. CASE Moves
  <2>1. ASSUME NEW j \in JobIds, Row(j)'
        PROVE  PointsBack(j)' /\ Numbered(j)'
    <3>1. Row(j) /\ SameJob(j)
      BY <1>3, <2>1, MovedRow
    <3>2. Numbered(j)'
      BY <1>1, <1>3, <3>1, MovedRow DEF Numbered, SameJob
    <3>3. ASSUME NEW i \in JobIds, i = job[j].retryOf
          PROVE  PointsBack(j)'
      <4>1. /\ job[i].status \in RetryableStatuses /\ job[i].key = job[j].key
            /\ job[i].no < job[j].no
        BY <1>1, <3>1, <3>3, NoneApart DEF PointsBack
      <4>2. job'[i].status = job[i].status /\ SameJob(i)
        BY <1>3, <4>1, MovedRow DEF Terminal, TerminalStatuses
      <4> QED
        BY <3>1, <3>3, <4>1, <4>2 DEF PointsBack, SameJob
    <3>4. CASE job[j].retryOf = None
      BY <3>1, <3>2, <3>4 DEF PointsBack, SameJob
    <3> QED
      BY <1>2, <3>2, <3>3, <3>4
  <2> QED
    BY <2>1, PointsBackPartsNext
<1>4. ASSUME NEW n \in JobIds, NEW row \in Requests, Inserts(n, row)
      PROVE  RetriesPointBack'
  <2>1. /\ ~ Row(n) /\ job'[n].key = row.key /\ job'[n].no = row.no
        /\ job'[n].retryOf = row.retryOf
        /\ \A i \in JobIds : i # n => job'[i] = job[i] /\ (Row(i)' <=> Row(i))
    BY <1>4, InsertedRow DEF Inv, JobsInOrder, Row
  <2>2. \A i \in JobIds : Row(i) /\ job[i].key = row.key => job[i].no # row.no
    BY <1>4 DEF Inserts, MayInsert
  <2>3. ASSUME NEW i \in JobIds, i = row.retryOf
        PROVE  /\ job[i].status \in RetryableStatuses /\ job[i].key = row.key
               /\ job[i].no < row.no /\ i # n
    <3>1. Row(i)
      BY <1>4, <2>3, NoneApart DEF Inserts, MayInsert
    <3>2. job[i].status # "removed"
      BY <3>1 DEF Row, ActiveStatuses, TerminalStatuses, RetryableStatuses
    <3> QED
      BY <1>4, <2>1, <2>3, <3>1, <3>2, NoneApart DEF Inserts, Founded
  <2>4. PointsBack(n)'
    <3>1. row.retryOf \in JobIds \cup {None}
      BY DEF Requests
    <3> QED
      BY <2>1, <2>3, <3>1 DEF PointsBack
  <2>5. Numbered(n)'
    BY <2>1, <2>2 DEF Numbered
  <2>6. ASSUME NEW j \in JobIds, j # n, Row(j)'
        PROVE  PointsBack(j)' /\ Numbered(j)'
    <3>1. Row(j) /\ job'[j] = job[j]
      BY <2>1, <2>6
    <3>2. Numbered(j)'
      BY <1>1, <2>1, <2>2, <3>1 DEF Numbered
    <3>3. ASSUME NEW i \in JobIds, i = job[j].retryOf
          PROVE  PointsBack(j)'
      <4>1. job[i].status \in RetryableStatuses
        BY <1>1, <3>1, <3>3, NoneApart DEF PointsBack
      <4>2. i # n
        BY <2>1, <4>1 DEF Row, TerminalStatuses
      <4> QED
        BY <1>1, <2>1, <3>1, <3>3, <4>2 DEF PointsBack
    <3>4. CASE job[j].retryOf = None
      BY <3>1, <3>2, <3>4 DEF PointsBack
    <3> QED
      BY <1>2, <3>2, <3>3, <3>4
  <2> QED
    BY <2>4, <2>5, <2>6, PointsBackPartsNext
<1>5. ASSUME NEW n \in JobIds, Removes(n)
      PROVE  RetriesPointBack'
  <2>1. /\ ~ Row(n)'
        /\ \A i \in JobIds : i # n => job'[i] = job[i] /\ (Row(i)' <=> Row(i))
    BY <1>5, RemovedRow DEF Inv, JobsInOrder, Row
  <2>2. \A i \in JobIds : Row(i) => job[i].retryOf # n
    BY <1>5 DEF Removes, Removable
  <2>3. ASSUME NEW j \in JobIds, Row(j)'
        PROVE  PointsBack(j)' /\ Numbered(j)'
    <3>1. Row(j) /\ j # n /\ job'[j] = job[j]
      BY <2>1, <2>3
    <3>2. Numbered(j)'
      BY <1>1, <2>1, <3>1 DEF Numbered
    <3>3. PointsBack(j)'
      BY <1>1, <1>2, <2>1, <2>2, <3>1 DEF PointsBack
    <3> QED
      BY <3>2, <3>3
  <2> QED
    BY <2>3, PointsBackPartsNext
<1> QED
  BY <1>3, <1>4, <1>5 DEF StepOK, JobEffect

LEMMA ReferencesStay ==
  ASSUME Inv, StepOK
  PROVE  ReferencesFollowJobs'
<1>1. TypeOK /\ ActiveIsProtected /\ EndedIsReleased
  BY DEF Inv, JobsInOrder, ReferencesFollowJobs
<1>2. refs \subseteq JobIds /\ refs' \subseteq JobIds
  BY <1>1 DEF StepOK, TypeOK
<1>3. CASE Moves
  <2>1. ActiveIsProtected'
    BY <1>1, <1>3, MovedRow DEF ActiveIsProtected, Moves, ReleasesAtEnd, Active
  <2>2. ASSUME NEW j \in JobIds, j \in refs'
        PROVE  Active(j)' \/ job'[j].status = "interrupted"
    <3>1. j \in refs /\ (Active(j) \/ job[j].status = "interrupted")
      BY <1>1, <1>3, <2>2 DEF EndedIsReleased, Moves, ReleasesAtEnd
    <3>2. CASE job'[j].status = job[j].status
      BY <3>1, <3>2 DEF Active
    <3>3. CASE job'[j].status # job[j].status
      BY <1>3, <2>2, <3>3 DEF Moves, MovesOn, ReleasesAtEnd, Active, ActiveStatuses
    <3> QED
      BY <3>2, <3>3
  <2> QED
    BY <1>2, <2>1, <2>2 DEF ReferencesFollowJobs, EndedIsReleased
<1>4. ASSUME NEW j \in JobIds, NEW row \in Requests, Inserts(j, row)
      PROVE  ReferencesFollowJobs'
  <2>1. /\ Active(j)' /\ refs' = refs \cup {j}
        /\ \A i \in JobIds : i # j => job'[i] = job[i]
    BY <1>1, <1>4, InsertedRow
  <2> QED
    BY <1>1, <1>2, <2>1
       DEF ReferencesFollowJobs, ActiveIsProtected, EndedIsReleased, Active
<1>5. ASSUME NEW j \in JobIds, Removes(j)
      PROVE  ReferencesFollowJobs'
  <2>1. /\ ~ Active(j)' /\ refs' = refs \ {j}
        /\ \A i \in JobIds : i # j => job'[i] = job[i]
    BY <1>1, <1>5, RemovedRow
  <2> QED
    BY <1>1, <1>2, <2>1
       DEF ReferencesFollowJobs, ActiveIsProtected, EndedIsReleased, Active
<1> QED
  BY <1>3, <1>4, <1>5 DEF StepOK, JobEffect

(* What ended stays as it is or is removed, and no row takes its place.    *)
LEMMA RequestsStay ==
  ASSUME Inv, StepOK
  PROVE  RequestsAreFounded'
<1>1. TypeOK /\ request \in [Processes -> Requests \cup {None}]
  BY DEF Inv, JobsInOrder, TypeOK
<1>2. ASSUME NEW row \in Requests, Founded(row)
      PROVE  Founded(row)'
  <2>1. row.retryOf \in JobIds \cup {None}
    BY DEF Requests
  <2>2. CASE row.retryOf = None
    BY <2>2 DEF Founded
  <2>3. ASSUME NEW i \in JobIds, i = row.retryOf
        PROVE  Founded(row)'
    <3>1. \/ job[i].status = "removed"
          \/ /\ job[i].status \in RetryableStatuses
             /\ job[i].key = row.key /\ job[i].no < row.no
      BY <1>2, <2>3, NoneApart DEF Founded
    <3>2. job[i].status # "none" /\ ~ Active(i)
      BY <3>1 DEF RetryableStatuses, Active, ActiveStatuses
    <3>3. CASE Moves
      <4>1. SameJob(i) /\ job'[i].status = job[i].status
        BY <3>2, <3>3 DEF Moves, MovesOn
      <4> QED
        BY <2>3, <3>1, <4>1 DEF Founded, SameJob
    <3>4. ASSUME NEW j \in JobIds, NEW other \in Requests, Inserts(j, other)
          PROVE  Founded(row)'
      <4>1. job'[i] = job[i]
        BY <1>1, <3>2, <3>4, InsertedRow DEF Inserts, Insert, Fresh
      <4> QED
        BY <2>3, <3>1, <4>1 DEF Founded
    <3>5. ASSUME NEW j \in JobIds, Removes(j)
          PROVE  Founded(row)'
      <4>1. CASE i = j
        <5>1. job'[i].status = "removed"
          BY <1>1, <3>5, <4>1 DEF Removes, TypeOK, NoJob
        <5> QED
          BY <2>3, <5>1 DEF Founded
      <4>2. CASE i # j
        <5>1. job'[i] = job[i]
          BY <1>1, <3>5, <4>2, RemovedRow
        <5> QED
          BY <2>3, <3>1, <5>1 DEF Founded
      <4> QED
        BY <4>1, <4>2
    <3> QED
      BY <3>3, <3>4, <3>5 DEF StepOK, JobEffect
  <2> QED
    BY <2>1, <2>2, <2>3
<1> QED
  BY <1>1, <1>2 DEF Inv, RequestsAreFounded, StepOK, RequestEffect

-----------------------------------------------------------------------------
(* The theorems *)

LEMMA InitOK == Init => Inv
<1> SUFFICES ASSUME Init PROVE Inv
  OBVIOUS
<1>1. NoJob \in JobRows /\ Idle \in [at : Labels, job : JobIds \cup {None}]
      /\ NoReader \in [at : {"idle", "found", "leased", "late"}, key : Keys \cup {None}]
  BY DEF NoJob, JobRows, Idle, Labels, NoReader
<1>2. \A p \in Processes : <<>> \in Seq(JobIds)
  OBVIOUS
<1>3. TypeOK
  BY <1>1, <1>2 DEF Init, TypeOK
<1>4. \A j \in JobIds : ~ Row(j) /\ ~ Active(j)
  BY DEF Init, NoJob, Row, Active, ActiveStatuses, TerminalStatuses, RetryableStatuses
<1>5. OneActiveJob /\ RetriesPointBack /\ RowsHaveKeys
  BY <1>4 DEF OneActiveJob, RetriesPointBack, RowsHaveKeys
<1>6. ReferencesFollowJobs
  BY <1>4 DEF Init, ReferencesFollowJobs, ActiveIsProtected, EndedIsReleased
<1>7. WorkersHaveJobs /\ RequestsAreFounded
  BY DEF Init, Idle, WorkersHaveJobs, RequestsAreFounded
<1> QED
  BY <1>3, <1>5, <1>6, <1>7 DEF Inv, JobsInOrder

LEMMA InvStays ==
  ASSUME Inv, [Next]_vars
  PROVE  Inv'
<1>1. StepOK
  BY EveryStep
<1> QED
  BY <1>1, KeysStay, OneActiveJobStays, RetriesStay, ReferencesStay, RequestsStay
     DEF Inv, JobsInOrder, StepOK

(* In every reachable state the active jobs of a key are alone, rows and   *)
(* references agree, and each worker and request has its job.              *)
THEOREM Invariance == Spec => []Inv
<1>1. Init => Inv
  BY InitOK
<1>2. Inv /\ [Next]_vars => Inv'
  BY InvStays
<1> QED
  BY <1>1, <1>2, PTL DEF Spec

(* The attempts of a key come one after the other: one is active at a      *)
(* time, their numbers rise, and a retry points to an attempt that ended   *)
(* without a result (create_artifact_job, retry_artifact_job), whatever    *)
(* processes look up, insert, recover and remove meanwhile.                *)
THEOREM JobsInOrderHolds == Spec => []JobsInOrder
<1>1. Inv => JobsInOrder
  BY DEF Inv
<1> QED
  BY <1>1, Invariance, PTL

(* Active jobs protect their snapshots, ended ones do not, unless they     *)
(* were interrupted (complete_, fail_, cancel_artifact_job).               *)
THEOREM ReferencesFollowJobsHolds == Spec => []ReferencesFollowJobs
<1>1. Inv => ReferencesFollowJobs
  BY DEF Inv
<1> QED
  BY <1>1, Invariance, PTL

LEMMA EndedStays ==
  ASSUME Inv, StepOK
  PROVE  TerminalIsFinal
<1> SUFFICES ASSUME NEW j \in JobIds, Terminal(j)
             PROVE  job'[j].status \in {job[j].status, "removed"}
  BY DEF TerminalIsFinal
<1>1. CASE Moves
  BY <1>1, MovedRow
<1>2. ASSUME NEW i \in JobIds, NEW row \in Requests, Inserts(i, row)
      PROVE  job'[j] = job[j]
  BY <1>2, InsertedRow DEF Inv, JobsInOrder, Terminal, Row
<1>3. ASSUME NEW i \in JobIds, Removes(i)
      PROVE  job'[j] = job[j] \/ job'[j].status = "removed"
  BY <1>3 DEF Inv, JobsInOrder, Removes, TypeOK, NoJob
<1> QED
  BY <1>1, <1>2, <1>3 DEF StepOK, JobEffect

(* A job that ended stays as it is until its row is removed, whichever     *)
(* thread still works on it; a cached artifact leaves the cache only when  *)
(* no job of its key is active and no delivery has a lease on it.          *)
THEOREM NothingIsTakenBackHolds == Spec => NothingIsTakenBack
<1>1. Inv /\ [Next]_vars => [TerminalIsFinal /\ EntriesInUseStay]_vars
  BY EveryStep, EndedStays DEF StepOK, CacheEffect, Cold, EntriesInUseStay
<1> QED
  BY <1>1, Invariance, PTL DEF Spec, NothingIsTakenBack

=============================================================================
