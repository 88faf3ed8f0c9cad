---------------------------- MODULE AnalysisRuns ----------------------------
(***************************************************************************)
(* Runs, attempts and the threads that execute them.                       *)
(*                                                                         *)
(* The SQLite store holds runs and attempts (analysis_snapshot_sqlite.py); *)
(* API handlers create runs, retry and cancel; the threads of the          *)
(* scheduler (analysis_scheduler.py) claim attempts and push each through  *)
(* the stages of the worker (repository_attempt_worker.py); the service    *)
(* may die at any moment and recovers when it starts again.  Every store   *)
(* operation is one BEGIN IMMEDIATE transaction and hence one action; the  *)
(* worker reads the store and writes it in separate transactions, and      *)
(* those are separate actions here.                                        *)
(*                                                                         *)
(* A run has at most one attempt for a member, so <<run, member>> names    *)
(* an attempt.  Run numbers are the ranks of requested_at, which           *)
(* create_run reads before it gets the write lock: runs need not commit in *)
(* the order of their numbers.                                             *)
(***************************************************************************)
EXTENDS Naturals

CONSTANTS
    Runs,       \* run numbers
    Members,    \* registered repository members
    Workers,    \* threads of the scheduler
    Keys,       \* idempotency keys a client may send
    StagesAfter(_), \* the stages that may follow a stage; FullPipeline, or a
                \* shorter pipeline with the same first and last stages:
                \* the ones between differ in nothing that matters here
    NoKey,      \* the request carries no idempotency key
    NoAttempt   \* an absent attempt identifier (SQL NULL)

ASSUME RunsAssumption == Runs \subseteq Nat
ASSUME NoKeyAssumption == NoKey \notin Keys
ASSUME NoAttemptAssumption == NoAttempt \notin Runs \X Members

VARIABLES
    retired,    \* members that are retired
    run,        \* analysis_runs and analysis_run_members
    attempt,    \* repository_attempts
    lastNo,     \* lastNo[m]: highest attempt_no given to member m
    reserved,   \* attempts that have a row in storage_reservations
    up,         \* the service process is running
    pc,         \* pc[w]: where thread w is
    job         \* job[w]: the attempt thread w works on

vars == <<retired, run, attempt, lastNo, reserved, up, pc, job>>

-----------------------------------------------------------------------------
(* Statuses, stages and rows *)

Attempts == Runs \X Members

SuccessStatuses == {"completed", "unchanged"}
ActiveStatuses == {"pending", "running"}
TerminalStatuses == SuccessStatuses \cup {"failed", "cancelled", "interrupted"}
RetryableStatuses == {"failed", "cancelled", "interrupted"}
AttemptStatuses == ActiveStatuses \cup TerminalStatuses \cup {"none"}

TerminalRunStatuses ==
    {"completed", "partial", "failed", "cancelled", "interrupted"}
RunStatuses == {"none", "pending", "running"} \cup TerminalRunStatuses

(* The stages of the worker in the order in which it sets them.            *)
(* codegraph_init and codegraph_sync depend on the presence of the graph   *)
(* database.                                                               *)
CommandStages == {"codegraph_init", "codegraph_sync"}
FullPipeline(stage) ==
    CASE stage = "validating"       -> {"digest_before"}
      [] stage = "digest_before"    -> CommandStages
      [] stage \in CommandStages    -> {"digest_after"}
      [] stage = "digest_after"     -> {"freezing_graph"}
      [] stage = "freezing_graph"   -> {"freezing_sources"}
      [] stage = "freezing_sources" -> {"digest_final"}
      [] stage = "digest_final"     -> {"analyzing"}
      [] stage = "analyzing"        -> {"publishing"}
      [] OTHER                      -> {}
Stages ==
    {"queued", "validating", "digest_before", "digest_after", "freezing_graph",
     "freezing_sources", "digest_final", "analyzing", "publishing",
     "finished"} \cup CommandStages

NoRow == [status |-> "none", stage |-> "queued", started |-> FALSE,
          cancel |-> FALSE, no |-> 0, retryOf |-> NoAttempt]

NoRun == [status |-> "none", selected |-> {}, key |-> NoKey,
          blocker |-> [m \in Members |-> NoAttempt], completions |-> 0]

Active(a) == attempt[a].status \in ActiveStatuses
Terminal(a) == attempt[a].status \in TerminalStatuses
BusyRunning(m) ==   \* mutation: a queued attempt does not block
    \E a \in Attempts : a[2] = m /\ attempt[a].status = "running"
Busy(m) == \E a \in Attempts : a[2] = m /\ Active(a)
Created(r) == run[r].status # "none"

-----------------------------------------------------------------------------
(* The status of a run *)

(* Outcomes of the members of a run; an already_running member is blocked. *)
Outcomes(row, r, table) ==
    {IF row.blocker[m] # NoAttempt THEN "blocked" ELSE table[<<r, m>>].status :
       m \in row.selected}

AggregateRunStatus(outcomes, anyStarted) ==
    IF "running" \in outcomes THEN "running"
    ELSE IF "pending" \in outcomes
         THEN IF anyStarted THEN "running" ELSE "pending"
    ELSE IF outcomes \subseteq SuccessStatuses THEN "completed"
    ELSE IF outcomes \cap SuccessStatuses # {} THEN "partial"
    ELSE IF "failed" \in outcomes THEN "failed"
    ELSE IF "interrupted" \in outcomes THEN "interrupted"
    ELSE IF outcomes \subseteq {"cancelled"} THEN "cancelled"
    ELSE "failed"

RunStatus(row, r, table) ==
    AggregateRunStatus(Outcomes(row, r, table),
        \E m \in row.selected :
            row.blocker[m] = NoAttempt /\ table[<<r, m>>].started)

(* completed_at is a timestamp that must not move: completions counts how  *)
(* often it has been written.                                              *)
RewrittenCompletions(row, status) ==   \* mutation: COALESCE is left out
    IF status \in TerminalRunStatuses
    THEN row.completions + 1 ELSE row.completions

Completions(row, status) ==
    IF row.completions = 0 /\ status \in TerminalRunStatuses
    THEN 1 ELSE row.completions

Recomputed(row, r, table) ==
    LET status == RunStatus(row, r, table)
    IN  [row EXCEPT !.status = status, !.completions = Completions(row, status)]

(* The statement that changes one attempt, then _recompute_run, in one     *)
(* transaction.                                                            *)
StoreOnly(a, row) ==   \* mutation: the run is not recomputed
    /\ attempt' = [attempt EXCEPT ![a] = row]
    /\ UNCHANGED run

Store(a, row) ==
    /\ attempt' = [attempt EXCEPT ![a] = row]
    /\ run' = [run EXCEPT ![a[1]] = Recomputed(@, a[1], attempt')]

-----------------------------------------------------------------------------
(* Handlers of the API *)

RetireMember(m) ==
    /\ up
    /\ m \notin retired
    /\ retired' = retired \cup {m}
    /\ UNCHANGED <<run, attempt, lastNo, reserved, up, pc, job>>

(* The row of a new attempt: pending and queued, numbered one past the     *)
(* highest number of the member.                                           *)
RepeatedRow(m, retryOf) ==   \* mutation: MAX without + 1
    [NoRow EXCEPT !.status = "pending", !.no = lastNo[m], !.retryOf = retryOf]

NewRow(m, retryOf) ==
    [NoRow EXCEPT !.status = "pending", !.no = lastNo[m] + 1,
                  !.retryOf = retryOf]

(* Insert run r for the members S: a member with an active attempt is      *)
(* recorded as already_running with that attempt, the others are queued.   *)
InsertRun(r, S, key, retryOf) ==
    LET queued == {m \in S : ~ Busy(m)}
        blocker == [m \in Members |->
                      IF m \in S /\ Busy(m)
                      THEN CHOOSE a \in Attempts : a[2] = m /\ Active(a)
                      ELSE NoAttempt]
        row == [NoRun EXCEPT !.selected = S, !.key = key, !.blocker = blocker]
    IN  /\ attempt' = [a \in Attempts |->
                         IF a[1] = r /\ a[2] \in queued
                         THEN NewRow(a[2], retryOf[a[2]]) ELSE attempt[a]]
        /\ lastNo' = [m \in Members |->
                        IF m \in queued THEN NewRow(m, retryOf[m]).no
                        ELSE lastNo[m]]
        /\ run' = [run EXCEPT ![r] = Recomputed(row, r, attempt')]

(* A key that is already in the table returns the run it names and changes *)
(* nothing.                                                                *)
KeyOfActiveRun(key) ==   \* mutation: a run that has ended gives its key back
    \E r \in Runs : run[r].key = key /\ run[r].status \in {"pending", "running"}

KeyIsUsed(key) == key # NoKey /\ \E r \in Runs : run[r].key = key

CreateRun(r, S, key) ==
    /\ up
    /\ ~ Created(r)
    /\ ~ KeyIsUsed(key)
    /\ S # {} /\ S \cap retired = {}
    /\ InsertRun(r, S, key, [m \in Members |-> NoAttempt])
    /\ UNCHANGED <<retired, reserved, up, pc, job>>

(* retry_run reads the attempts of run r and creates the new run in a      *)
(* second transaction.  What it checked still holds then, because a        *)
(* terminal attempt stays as it is, so one action stands for both.         *)
RetryableTerminal(r) ==   \* mutation: any terminal attempt may be retried
    {m \in Members : attempt[<<r, m>>].status \in TerminalStatuses}

Retryable(r) == {m \in Members : attempt[<<r, m>>].status \in RetryableStatuses}

RetryRun(r, new, S) ==
    /\ up
    /\ Created(r) /\ ~ Created(new)
    /\ S # {} /\ S \subseteq Retryable(r) /\ S \cap retired = {}
    /\ InsertRun(new, S, NoKey,
                 [m \in Members |-> IF m \in S THEN <<r, m>> ELSE NoAttempt])
    /\ UNCHANGED <<retired, reserved, up, pc, job>>

(* request_cancel on one attempt.  cancel_run and cancel_member call it    *)
(* for one attempt after another, each call a transaction of its own.      *)
CancelAnyStage(row) == row.status = "running"   \* mutation: also publishing
CancelAccepted(row) == row.status = "running" /\ row.stage # "publishing"

CancelledMixedUp(row) ==   \* mutation: status and stage confused
    IF row.status = "pending"
    THEN [row EXCEPT !.status = "finished", !.cancel = TRUE]
    ELSE IF CancelAccepted(row) THEN [row EXCEPT !.cancel = TRUE] ELSE row

CancelledUnguarded(row) ==   \* mutation: the flag is set whatever the status
    IF row.status = "pending"
    THEN [row EXCEPT !.status = "cancelled", !.stage = "finished",
                     !.cancel = TRUE]
    ELSE [row EXCEPT !.cancel = TRUE]

Cancelled(row) ==
    IF row.status = "pending"
    THEN [row EXCEPT !.status = "cancelled", !.stage = "finished",
                     !.cancel = TRUE]
    ELSE IF CancelAccepted(row) THEN [row EXCEPT !.cancel = TRUE] ELSE row

RequestCancel(a) ==
    /\ up
    /\ attempt[a].status # "none"
    /\ Store(a, Cancelled(attempt[a]))
    /\ UNCHANGED <<retired, lastNo, reserved, up, pc, job>>

-----------------------------------------------------------------------------
(* A thread of the scheduler and the worker it calls *)

Goto(w, label) == pc' = [pc EXCEPT ![w] = label]

(* The oldest pending attempt; attempts of one run have the same           *)
(* requested_at and are ordered by their random identifiers.               *)
Claimable(a) ==
    /\ attempt[a].status = "pending"
    /\ \A b \in Attempts : attempt[b].status = "pending" => a[1] <= b[1]

Claim(w, a) ==
    /\ up /\ pc[w] = "idle"
    /\ Claimable(a)
    /\ Store(a, [attempt[a] EXCEPT !.status = "running", !.stage = "validating",
                                   !.started = TRUE])
    /\ job' = [job EXCEPT ![w] = a]
    /\ Goto(w, "execute")
    /\ UNCHANGED <<retired, lastNo, reserved, up>>

(* The start of _execute: the member must still be registered. *)
Execute(w) ==
    /\ up /\ pc[w] = "execute"
    /\ Goto(w, IF job[w][2] \in retired THEN "failed" ELSE "boundary")
    /\ UNCHANGED <<retired, run, attempt, lastNo, reserved, up, job>>

(* _stage reads the cancellation flag and the status, and only in a later  *)
(* transaction writes the stage: a cancellation may come in between.       *)
SeesCancel(row) == row.cancel \/ row.status # "running"

CheckBoundary(w) ==
    /\ up /\ pc[w] = "boundary"
    /\ Goto(w, IF SeesCancel(attempt[job[w]]) THEN "cancelled" ELSE "cas")
    /\ UNCHANGED <<retired, run, attempt, lastNo, reserved, up, job>>

SetStage(w, stage) ==
    LET row == attempt[job[w]]
    IN  /\ up /\ pc[w] = "cas"
        /\ stage \in StagesAfter(row.stage)
        /\ IF row.status = "running"
           THEN /\ Store(job[w], [row EXCEPT !.stage = stage])
                /\ Goto(w, IF stage = "publishing" THEN "recheck" ELSE "work")
           ELSE /\ Goto(w, "failed")
                /\ UNCHANGED <<run, attempt>>
        /\ UNCHANGED <<retired, lastNo, reserved, up, job>>

(* The work of a stage succeeds.  The first scan ends with the reservation *)
(* of disk space for the attempt.                                          *)
FinishStage(w) ==
    /\ up /\ pc[w] = "work"
    /\ Goto(w, "boundary")
    /\ reserved' = IF attempt[job[w]].stage = "digest_before"
                   THEN reserved \cup {job[w]} ELSE reserved
    /\ UNCHANGED <<retired, run, attempt, lastNo, up, job>>

(* The CodeGraph command is stopped when its poll sees the cancellation.   *)
StopCommand(w) ==
    /\ up /\ pc[w] = "work"
    /\ attempt[job[w]].stage \in CommandStages
    /\ attempt[job[w]].cancel
    /\ Goto(w, "cancelled")
    /\ UNCHANGED <<retired, run, attempt, lastNo, reserved, up, job>>

(* Anything else may go wrong in a step: an error __call__ knows leads to  *)
(* _finish_failed, any other one escapes to the scheduler.                 *)
Raise(w) ==
    /\ up /\ pc[w] \in {"execute", "work", "publish"}
    /\ \E label \in {"failed", "escaped"} : Goto(w, label)
    /\ UNCHANGED <<retired, run, attempt, lastNo, reserved, up, job>>

(* The last look at the flag, after the stage has become publishing. *)
RecheckCancel(w) ==
    /\ up /\ pc[w] = "recheck"
    /\ Goto(w, IF SeesCancel(attempt[job[w]]) THEN "cancelled" ELSE "publish")
    /\ UNCHANGED <<retired, run, attempt, lastNo, reserved, up, job>>

(* publish_snapshot: refused unless the attempt runs and nobody cancelled  *)
(* it; unchanged when the snapshot identity exists already.                *)
MayPublish(row) == row.status = "running" /\ ~ row.cancel

PublishSnapshot(w, status) ==
    LET row == attempt[job[w]]
    IN  /\ up /\ pc[w] = "publish"
        /\ IF MayPublish(row)
           THEN /\ Store(job[w], [row EXCEPT !.status = status,
                                             !.stage = "finished"])
                /\ Goto(w, "release")
           ELSE /\ Goto(w, "failed")
                /\ UNCHANGED <<run, attempt>>
        /\ UNCHANGED <<retired, lastNo, reserved, up, job>>

(* _finish_cancelled, _finish_failed and the handler of the scheduler read *)
(* the status and write under a condition on it, so the write decides.     *)
FinishNothing(a, status) == UNCHANGED <<run, attempt>>   \* mutation

Finish(a, status) ==
    IF attempt[a].status = "running"
    THEN Store(a, [attempt[a] EXCEPT !.status = status, !.stage = "finished"])
    ELSE UNCHANGED <<run, attempt>>

FinishCancelled(w) ==
    /\ up /\ pc[w] = "cancelled"
    /\ Finish(job[w], "cancelled")
    /\ Goto(w, "release")
    /\ UNCHANGED <<retired, lastNo, reserved, up, job>>

FinishFailed(w) ==
    /\ up /\ pc[w] = "failed"
    /\ Finish(job[w], "failed")
    /\ Goto(w, "release")
    /\ UNCHANGED <<retired, lastNo, reserved, up, job>>

(* finally: release_storage, on the way out of every path. *)
ReleaseOnEscape(w) ==   \* mutation: cleaned up only when an error escapes
    /\ up /\ pc[w] \in {"release", "escaped"}
    /\ IF pc[w] = "escaped"
       THEN Goto(w, "handler") /\ UNCHANGED job /\ reserved' = reserved \ {job[w]}
       ELSE Goto(w, "idle") /\ job' = [job EXCEPT ![w] = NoAttempt] /\ UNCHANGED reserved
    /\ UNCHANGED <<retired, run, attempt, lastNo, up>>

ReleaseStorage(w) ==
    /\ up /\ pc[w] \in {"release", "escaped"}
    /\ reserved' = reserved \ {job[w]}
    /\ IF pc[w] = "escaped"
       THEN Goto(w, "handler") /\ UNCHANGED job
       ELSE Goto(w, "idle") /\ job' = [job EXCEPT ![w] = NoAttempt]
    /\ UNCHANGED <<retired, run, attempt, lastNo, up>>

(* except BaseException in AnalysisScheduler._run. *)
HandleEscaped(w) ==
    /\ up /\ pc[w] = "handler"
    /\ Finish(job[w], "failed")
    /\ Goto(w, "idle")
    /\ job' = [job EXCEPT ![w] = NoAttempt]
    /\ UNCHANGED <<retired, lastNo, reserved, up>>

-----------------------------------------------------------------------------
(* The process *)

(* The process ends, whatever its threads are doing. *)
Crash ==
    /\ up
    /\ up' = FALSE
    /\ pc' = [w \in Workers |-> "idle"]
    /\ job' = [w \in Workers |-> NoAttempt]
    /\ UNCHANGED <<retired, run, attempt, lastNo, reserved>>

(* recover_interrupted: every active attempt is interrupted and its run    *)
(* recomputed.  The stage and the storage reservation are left alone.      *)
InterruptedPending(row) ==   \* mutation: running attempts are forgotten
    IF row.status = "pending"
    THEN [row EXCEPT !.status = "interrupted"] ELSE row

InterruptedRunning(row) ==   \* mutation: pending attempts are kept
    IF row.status = "running"
    THEN [row EXCEPT !.status = "interrupted"] ELSE row

InterruptedUnsuccessful(row) ==   \* mutation: failed attempts are rewritten
    IF row.status \notin SuccessStatuses \cup {"none"}
    THEN [row EXCEPT !.status = "interrupted"] ELSE row

Interrupted(row) ==
    IF row.status \in ActiveStatuses
    THEN [row EXCEPT !.status = "interrupted"] ELSE row

Restart ==
    /\ ~ up
    /\ up' = TRUE
    /\ attempt' = [a \in Attempts |-> Interrupted(attempt[a])]
    /\ run' = [r \in Runs |->
                 IF \E a \in Attempts : a[1] = r /\ Active(a)
                 THEN Recomputed(run[r], r, attempt') ELSE run[r]]
    /\ UNCHANGED <<retired, lastNo, reserved, pc, job>>

-----------------------------------------------------------------------------

Init ==
    /\ retired = {}
    /\ run = [r \in Runs |-> NoRun]
    /\ attempt = [a \in Attempts |-> NoRow]
    /\ lastNo = [m \in Members |-> 0]
    /\ reserved = {}
    /\ up = TRUE
    /\ pc = [w \in Workers |-> "idle"]
    /\ job = [w \in Workers |-> NoAttempt]

Request ==
    \/ \E m \in Members : RetireMember(m)
    \/ \E r \in Runs, S \in SUBSET Members, key \in Keys \cup {NoKey} :
         CreateRun(r, S, key)
    \/ \E r, new \in Runs, S \in SUBSET Members : RetryRun(r, new, S)
    \/ \E a \in Attempts : RequestCancel(a)

Work(w) ==
    \/ \E a \in Attempts : Claim(w, a)
    \/ Execute(w)
    \/ CheckBoundary(w)
    \/ \E stage \in Stages : SetStage(w, stage)
    \/ FinishStage(w)
    \/ StopCommand(w)
    \/ Raise(w)
    \/ RecheckCancel(w)
    \/ \E status \in SuccessStatuses : PublishSnapshot(w, status)
    \/ FinishCancelled(w)
    \/ FinishFailed(w)
    \/ ReleaseStorage(w)
    \/ HandleEscaped(w)

Next ==
    \/ Request
    \/ \E w \in Workers : Work(w)
    \/ Crash
    \/ Restart

Spec == Init /\ [][Next]_vars

(* The operating system runs every thread, and a service that died is      *)
(* started again.  Nobody has to send requests, and nothing has to fail.   *)
Fairness ==
    /\ \A w \in Workers : WF_vars(Work(w))
    /\ WF_vars(Restart)

FairSpec == Spec /\ Fairness
-----------------------------------------------------------------------------
(* Properties *)

RunRows ==
    [status : RunStatuses, selected : SUBSET Members, key : Keys \cup {NoKey},
     blocker : [Members -> Attempts \cup {NoAttempt}], completions : Nat]

AttemptRows ==
    [status : AttemptStatuses, stage : Stages, started : BOOLEAN,
     cancel : BOOLEAN, no : Nat, retryOf : Attempts \cup {NoAttempt}]

(* Labels of a thread that holds a running attempt. *)
Holding == {"execute", "boundary", "cas", "work", "recheck", "publish",
            "cancelled", "failed", "escaped", "handler"}

TypeOK ==
    /\ retired \subseteq Members
    /\ run \in [Runs -> RunRows]
    /\ attempt \in [Attempts -> AttemptRows]
    /\ lastNo \in [Members -> Nat]
    /\ reserved \subseteq Attempts
    /\ up \in BOOLEAN
    /\ pc \in [Workers -> Holding \cup {"idle", "release"}]
    /\ job \in [Workers -> Attempts \cup {NoAttempt}]

(* A member has at most one active attempt, whatever runs are created,     *)
(* retried, cancelled and interrupted around it.  create_run keeps this by *)
(* its own query; the unique index uq_active_attempt_per_member never has  *)
(* to abort a transaction.                                                 *)
OneActiveAttempt ==
    \A a, b \in Attempts : Active(a) /\ Active(b) /\ a[2] = b[2] => a = b

(* The attempts of a member are numbered without repetition and do not     *)
(* overlap: when a later one exists, the earlier one has ended.            *)
AttemptsAreSerial ==
    \A a, b \in Attempts :
        /\ a # b /\ a[2] = b[2]
        /\ attempt[a].status # "none" /\ attempt[b].status # "none"
        => /\ attempt[a].no # attempt[b].no
           /\ attempt[a].no < attempt[b].no => Terminal(a)

(* While the service is up, a running attempt is in the hands of exactly   *)
(* one thread: no attempt is left behind by an error path, and no two      *)
(* threads work on one.                                                    *)
RunningIsOwned ==
    /\ up => \A a \in Attempts :
                attempt[a].status = "running" => \E w \in Workers : job[w] = a
    /\ \A v, w \in Workers : job[v] = job[w] /\ job[v] # NoAttempt => v = w

(* An accepted cancellation and a success exclude each other, and nobody   *)
(* ends as cancelled without having been asked to: the check of the flag   *)
(* and the write of the stage are two transactions, request_cancel may     *)
(* fall between them, and still there is one point where the race between  *)
(* cancelling and publishing is decided.                                   *)
CancelExcludesSuccess ==
    \A a \in Attempts :
        /\ attempt[a].status \in SuccessStatuses => ~ attempt[a].cancel
        /\ attempt[a].status = "cancelled" => attempt[a].cancel

(* Once the last check of the flag has passed, the publishing transaction  *)
(* is never refused: the work of a whole analysis is not thrown away and   *)
(* reported as a failure because a cancellation arrived too late.          *)
PublicationIsNotRefused ==
    \A w \in Workers : pc[w] = "publish" => MayPublish(attempt[job[w]])

(* The stored status of a run is the aggregate of its members' outcomes    *)
(* after every transaction, although each action that changes an attempt   *)
(* has to remember to recompute it.                                        *)
RunStatusIsAggregate ==
    \A r \in Runs : Created(r) => run[r].status = RunStatus(run[r], r, attempt)

(* completed_at is there exactly when the run has ended, and it was        *)
(* written once: later cancellations and restarts recompute an ended run   *)
(* without moving it.                                                      *)
CompletedOnce ==
    \A r \in Runs :
        run[r].completions = IF run[r].status \in TerminalRunStatuses THEN 1 ELSE 0

(* A retry refers to an earlier attempt of the same member that ended      *)
(* without success, even when the state it was decided on is old.          *)
RetriesPointBack ==
    \A a \in Attempts :
        LET b == attempt[a].retryOf
        IN  b # NoAttempt =>
              /\ b[2] = a[2]
              /\ attempt[b].status \in RetryableStatuses
              /\ attempt[b].no < attempt[a].no

(* A request that a client repeats under its key, because the answer was   *)
(* lost or the service died, starts no second analysis, not even when the  *)
(* first has ended meanwhile.                                              *)
KeyNamesOneRun ==
    \A q, r \in Runs : run[q].key # NoKey /\ run[q].key = run[r].key => q = r

(* The attempts of a member come one after the other, however runs are     *)
(* created, retried, cancelled and interrupted.                            *)
AttemptsInOrder == OneActiveAttempt /\ AttemptsAreSerial /\ RetriesPointBack

(* The race between cancelling and publishing is decided once: whoever     *)
(* loses it leaves no trace, and no work is thrown away after that.        *)
CancelIsDecided == CancelExcludesSuccess /\ PublicationIsNotRefused

(* The rows of runs agree with those of attempts and with the requests.    *)
RunsAgree == RunStatusIsAggregate /\ CompletedOnce /\ KeyNamesOneRun

(* A terminal attempt is never reopened or rewritten, and a run that has   *)
(* ended keeps its row for ever: neither late cancellations, nor retries,  *)
(* nor the recovery after a crash touch them.                              *)
TerminalIsFinal ==
    [][/\ \A a \in Attempts : Terminal(a) => attempt'[a] = attempt[a]
       /\ \A r \in Runs :
            run[r].status \in TerminalRunStatuses => run'[r] = run[r]]_vars

(* Every attempt ends: whatever is queued behind it, however often the     *)
(* service dies, and whichever error path its thread takes.                *)
EveryAttemptEnds == \A a \in Attempts : Active(a) ~> Terminal(a)

(* Every run reaches a terminal status. *)
EveryRunEnds ==
    \A r \in Runs : Created(r) ~> run[r].status \in TerminalRunStatuses

(* What is queued ends, attempts and the runs that wait for them. *)
WorkEnds == EveryAttemptEnds /\ EveryRunEnds

(* Every way a thread may leave its attempt, short of the end of the       *)
(* process, gives the storage reservation back.  (The recovery does not    *)
(* release what a crash has left behind; it expires.)                      *)
ReservationsAreReleased ==
    [][\A w \in Workers :
         job[w] # NoAttempt /\ job'[w] # job[w] /\ up' => job[w] \notin reserved']_vars

(* AnalysisRuns implements AttemptLifecycle: forget the runs, the stages,  *)
(* the threads and the process, and keep each attempt's status and whether *)
(* its cancellation was accepted.                                          *)
Lifecycle == INSTANCE AttemptLifecycle WITH
    status <- [a \in Attempts |-> attempt[a].status],
    vetoed <- {a \in Attempts : attempt[a].cancel}
ImplementsLifecycle == Lifecycle!Spec
=============================================================================
