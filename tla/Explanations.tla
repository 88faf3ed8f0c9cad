---------------------------- MODULE Explanations ----------------------------
(***************************************************************************)
(* Explanations of the endpoints of repository snapshots: candidates that  *)
(* are generated by calls of a model and then published as the current     *)
(* explanation of their endpoint, requests that generate one of them, and  *)
(* batches that generate all of a snapshot in a pool of threads.           *)
(*                                                                         *)
(* The candidates and batches are rows of one database whose operations    *)
(* are transactions under one lock.  Threads interleave between them.      *)
(***************************************************************************)
EXTENDS Naturals, FiniteSets, FiniteSetsExt

CONSTANTS
    Keys,          \* endpoints of the one member: METHOD|path|handler
    Snapshots,     \* repository snapshots of the member
    Prompts,       \* digests of prompts
    MaxBatches,
    MaxCandidates,
    MaxTries,      \* three in the code
    Concurrency,   \* items of a batch that run together
    Requests,      \* requests that create a batch at the same time
    Named,         \* whether a request for one endpoint names the member as
                   \* its repository: a subset of BOOLEAN
    Budgets,       \* bounds to choose from: the endpoints that a snapshot has,
                   \* those of them that lack a method, a path or a handler,
                   \* and how many batches and single requests, crashes,
                   \* operations that raise and deletions there may be
    None

ASSUME BoundsAssumption == MaxTries \in Nat \ {0} /\ Concurrency \in Nat \ {0}

VARIABLES
    candidates,   \* explanation_snapshots
    current,      \* current_explanation_snapshots
    batches,      \* api_explanation_batch_jobs
    items,        \* api_explanation_batch_items: [Batches -> [Keys -> item]]
    references,   \* snapshot_references of candidates in the central database
    coordinator,  \* thread of each batch
    runner,       \* thread that runs an item
    generating,   \* where the generation of a candidate is
    plan,         \* batches that requests have planned but not created yet
    left,         \* what is left of the bounds
    crashed,      \* whether the process has died
    torn,         \* a crash came between the end of a candidate and its
                  \* publication
    broken        \* batches whose coordinator failed

rows == <<candidates, current, batches, items, references>>
threads == <<coordinator, runner, generating, plan>>
bounds == <<left, crashed, torn, broken>>
vars == <<rows, threads, bounds>>

Batches == 1 .. MaxBatches
Candidates == 1 .. MaxCandidates
ASSUME NoneAssumption == None \notin Batches \cup Candidates

InFlight == {"pending", "running", "validating"}
Finished == {"completed", "partial"}
BatchActive == {"queued", "running"}

NoCandidate == [status |-> "none", key |-> None, snapshot |-> None, prompt |-> None,
                batch |-> None]
NoBatch == [status |-> "none", snapshot |-> None, prompt |-> None, cancel |-> FALSE]
NoItem == [status |-> "none", tries |-> 0, candidate |-> None]
Gone == [at |-> "gone"]
Explaining == {"prepare", "register", "check", "stop", "enter", "generate"}

-----------------------------------------------------------------------------
(* Batches and their items *)

With(b, status) == {k \in Keys : items'[b][k].status = status}

(* _refresh_batch_locked, in the transaction that has changed items; run   *)
(* is what a batch becomes that has not ended.                             *)
Ended(b) ==
    IF batches[b].cancel THEN IF With(b, "completed") # {} THEN "partial" ELSE "cancelled"
    ELSE IF With(b, "failed") # {} /\ With(b, "completed") = {} THEN "failed"
    ELSE IF With(b, "failed") \cup With(b, "cancelled") # {} THEN "partial"
    ELSE "completed"
Refreshed(b, run) ==
    [batches EXCEPT ![b].status =
       IF With(b, "queued") \cup With(b, "running") = {} THEN Ended(b) ELSE run]

(* create: an active batch of the snapshot and the prompt is joined; what  *)
(* the items are is read before they are created.  An endpoint that a      *)
(* completed candidate explains is skipped, and one that is incomplete has *)
(* failed from the beginning.                                              *)
ReusableAny(k, s, p) ==   \* mutation: whatever became of the candidate
    {c \in Candidates : candidates[c].key = k /\ candidates[c].snapshot = s
                        /\ candidates[c].prompt = p}
Reusable(k, s, p) ==
    {c \in Candidates : candidates[c].key = k /\ candidates[c].snapshot = s
                        /\ candidates[c].prompt = p /\ candidates[c].status = "completed"}
ActiveRunning(s, p) ==   \* mutation: one that is still queued is not seen
    {b \in Batches : /\ batches[b].snapshot = s /\ batches[b].prompt = p
                     /\ batches[b].status = "running"}
ActiveBatch(s, p) ==
    {b \in Batches : /\ batches[b].snapshot = s /\ batches[b].prompt = p
                     /\ batches[b].status \in BatchActive}
Newest(S) == {c \in S : \A d \in S : d <= c}
Planned(k, s, p) ==
    IF k \notin left.keys THEN {NoItem}
    ELSE IF k \in left.incomplete THEN {[NoItem EXCEPT !.status = "failed"]}
    ELSE IF Reusable(k, s, p) = {} THEN {[NoItem EXCEPT !.status = "queued"]}
    ELSE {[NoItem EXCEPT !.status = "skipped", !.candidate = c] : c \in Newest(Reusable(k, s, p))}

(* What each item of the batch may be, and one of these for each. *)
Plans(r, s, p, items0) ==
    /\ plan[r] = Gone /\ left.plans > 0 /\ ActiveBatch(s, p) = {}
    /\ \E planned \in [Keys -> UNION {items0[k] : k \in Keys}] :
         /\ \A k \in Keys : planned[k] \in items0[k]
         /\ plan' = [plan EXCEPT ![r] = [at |-> "create", snapshot |-> s, prompt |-> p,
                                         items |-> planned]]
    /\ left' = [left EXCEPT !.plans = @ - 1]
    /\ UNCHANGED <<rows, coordinator, runner, generating, crashed, torn, broken>>

PlanBatch(r, s, p) == Plans(r, s, p, [k \in Keys |-> Planned(k, s, p)])

(* retry_failed makes a batch of the items of another one that failed. *)
PlanRetry(r, b) ==
    LET failed == {k \in Keys : items[b][k].status = "failed"}
    IN  /\ failed # {}
        /\ Plans(r, batches[b].snapshot, batches[b].prompt,
                 [k \in Keys |-> {IF k \in failed THEN [NoItem EXCEPT !.status = "queued"]
                                  ELSE NoItem}])

(* create_batch, under uq_api_batch_active: the second of two is refused.  *)
CreateBatch(r, b) ==
    LET row == [NoBatch EXCEPT !.status = "queued", !.snapshot = plan[r].snapshot,
                               !.prompt = plan[r].prompt]
    IN  /\ plan[r] # Gone /\ batches[b] = NoBatch
        /\ \A a \in 1 .. (b - 1) : batches[a] # NoBatch
        /\ IF ActiveBatch(plan[r].snapshot, plan[r].prompt) = {}
           THEN /\ items' = [items EXCEPT ![b] = plan[r].items]
                /\ batches' = [batches EXCEPT ![b] =
                     IF With(b, "queued") = {} THEN [row EXCEPT !.status = Ended(b)]
                     ELSE row]
           ELSE UNCHANGED <<items, batches>>
        /\ plan' = [plan EXCEPT ![r] = Gone]
        /\ UNCHANGED <<candidates, current, references, coordinator, runner, generating, bounds>>

(* cancel_batch: queued items are cancelled, and the candidates of running *)
(* ones.                                                                   *)
InWork(b) == {items[b][k].candidate : k \in {j \in Keys : items[b][j].status = "running"}}
CancelledCandidates(b) ==
    [c \in Candidates |-> IF c \in InWork(b) /\ candidates[c].status \in InFlight
                          THEN [candidates[c] EXCEPT !.status = "cancelled"]
                          ELSE candidates[c]]
CancelledAll(b) ==   \* mutation: running items are cancelled too
    [items EXCEPT ![b] = [k \in Keys |-> IF items[b][k].status \in BatchActive
                            THEN [items[b][k] EXCEPT !.status = "cancelled"]
                            ELSE items[b][k]]]
CancelledLater(b) ==   \* mutation: queued items are left to the coordinator
    items
CancelledItems(b) ==
    [items EXCEPT ![b] = [k \in Keys |-> IF items[b][k].status = "queued"
                            THEN [items[b][k] EXCEPT !.status = "cancelled"]
                            ELSE items[b][k]]]

Cancelling(b) ==
    /\ items' = CancelledItems(b)
    /\ candidates' = CancelledCandidates(b)
    /\ batches' = [batches EXCEPT ![b].cancel = TRUE, ![b].status =
         IF With(b, "running") # {} THEN @
         ELSE IF With(b, "completed") # {} THEN "partial" ELSE "cancelled"]

CancelBatch(b) ==
    /\ batches[b].status \in BatchActive
    /\ Cancelling(b)
    /\ UNCHANGED <<current, references, threads, bounds>>

-----------------------------------------------------------------------------
(* The coordinator of a batch *)

Coordinates(b, at, waits) ==
    coordinator' = [coordinator EXCEPT ![b] = [at |-> at, waits |-> waits]]
NoCoordinator == [at |-> "none", waits |-> {}]

(* submit, and start_batch: a batch that has ended is left alone. *)
StartBatch(b) ==
    /\ coordinator[b] = NoCoordinator /\ batches[b].status \in BatchActive
    /\ UNCHANGED items /\ batches' = Refreshed(b, "running")
    /\ Coordinates(b, "look", {})
    /\ UNCHANGED <<candidates, current, references, runner, generating, plan, bounds>>

(* What was cancelled meanwhile is cancelled again: items may have been    *)
(* queued for another try.                                                 *)
Look(b) ==
    /\ coordinator[b].at = "look"
    /\ IF batches[b].status \notin BatchActive
       THEN coordinator' = [coordinator EXCEPT ![b] = NoCoordinator]
            /\ UNCHANGED <<items, candidates, batches>>
       ELSE IF batches[b].cancel
       THEN coordinator' = [coordinator EXCEPT ![b] = NoCoordinator] /\ Cancelling(b)
       ELSE Coordinates(b, "claim", {}) /\ UNCHANGED <<items, candidates, batches>>
    /\ UNCHANGED <<current, references, runner, generating, plan, bounds>>

(* Any other error in the coordinator fails the batch, and so does one     *)
(* that escapes from a thread while it records how its item ended: the     *)
(* item stays as it is then.  What the batch is is read first; fail_batch  *)
(* changes nothing but the batch, whatever that has become meanwhile, and  *)
(* threads that run items go on.                                           *)
Recording(b) == {k \in Keys : runner[b][k].at \in {"decide", "settle"}}
CoordinatorRaises(b) ==
    /\ coordinator[b] # NoCoordinator /\ coordinator[b].at # "fail"
    /\ left.faults > 0 /\ left' = [left EXCEPT !.faults = @ - 1]
    /\ \/ UNCHANGED runner
       \/ /\ coordinator[b].at = "wait"
          /\ \E k \in Recording(b) : runner' = [runner EXCEPT ![b][k] = Gone]
    /\ IF batches[b].status \in BatchActive THEN Coordinates(b, "fail", {})
       ELSE coordinator' = [coordinator EXCEPT ![b] = NoCoordinator]
    /\ UNCHANGED <<rows, generating, plan, crashed, torn, broken>>

FailBatch(b) ==
    /\ coordinator[b].at = "fail"
    /\ batches' = [batches EXCEPT ![b].status = "failed"]
    /\ coordinator' = [coordinator EXCEPT ![b] = NoCoordinator]
    /\ broken' = broken \cup {b}
    /\ UNCHANGED <<candidates, current, items, references, runner, generating, plan, left,
                   crashed, torn>>

Claimable(b) ==
    LET queued == {k \in Keys : items[b][k].status = "queued"}
    IN  {S \in SUBSET queued : Cardinality(S) = Min({Concurrency, Cardinality(queued)})}

Claim(b) ==
    /\ coordinator[b].at = "claim"
    /\ \E S \in Claimable(b) :
         /\ items' = [items EXCEPT ![b] = [k \in Keys |-> IF k \in S
              THEN [items[b][k] EXCEPT !.status = "running", !.tries = @ + 1]
              ELSE items[b][k]]]
         /\ runner' = [runner EXCEPT ![b] = [k \in Keys |-> IF k \in S
              THEN [at |-> "prepare", candidate |-> None, to |-> "none"] ELSE runner[b][k]]]
         /\ IF S = {} THEN Coordinates(b, "look", {}) ELSE Coordinates(b, "wait", S)
    /\ batches' = Refreshed(b, "running")
    /\ UNCHANGED <<candidates, current, references, generating, plan, bounds>>

Gather(b) ==
    /\ coordinator[b].at = "wait"
    /\ \A k \in coordinator[b].waits : runner[b][k] = Gone
    /\ Coordinates(b, "look", {})
    /\ UNCHANGED <<rows, runner, generating, plan, bounds>>

-----------------------------------------------------------------------------
(* A thread of the pool runs an item: each step is a transaction of its    *)
(* own, and the batch may be cancelled between any two.                    *)

RunnerGoes(b, k, at, c, to) ==
    runner' = [runner EXCEPT ![b][k] = [at |-> at, candidate |-> c, to |-> to]]

NewCandidate(c, k, s, p, b) ==
    /\ candidates[c] = NoCandidate /\ \A d \in 1 .. (c - 1) : candidates[d] # NoCandidate
    /\ candidates' = [candidates EXCEPT ![c] =
         [status |-> "pending", key |-> k, snapshot |-> s, prompt |-> p, batch |-> b]]

Prepare(b, k, c) ==
    /\ runner[b][k].at = "prepare"
    /\ NewCandidate(c, k, batches[b].snapshot, batches[b].prompt, b)
    /\ RunnerGoes(b, k, "register", c, "none")
    /\ UNCHANGED <<current, batches, items, references, coordinator, generating, plan, bounds>>

(* _failed_or_retry: what an error says decides whether it is transient,   *)
(* and a transient one is tried again.                                     *)
FailedOrRetry(b, k) ==
    {"failed"} \cup {to \in {"queued"} : items[b][k].tries < MaxTries}

PrepareFails(b, k) ==
    /\ runner[b][k].at = "prepare"
    /\ \E to \in FailedOrRetry(b, k) : RunnerGoes(b, k, "decide", None, to)
    /\ UNCHANGED <<rows, coordinator, generating, plan, bounds>>

Register(b, k) ==
    /\ runner[b][k].at = "register"
    /\ items' = [items EXCEPT ![b][k].candidate = runner[b][k].candidate]
    /\ RunnerGoes(b, k, "check", runner[b][k].candidate, "none")
    /\ UNCHANGED <<candidates, current, batches, references, coordinator, generating, plan,
                   bounds>>

(* A batch that was cancelled before the candidate was registered cancels  *)
(* it here; that raises if it was cancelled already.                       *)
CheckCancel(b, k) ==
    /\ runner[b][k].at = "check"
    /\ RunnerGoes(b, k, IF batches[b].cancel THEN "stop" ELSE "enter",
                  runner[b][k].candidate, "none")
    /\ UNCHANGED <<rows, coordinator, generating, plan, bounds>>

StoppedNot(c) ==   \* mutation: the candidate is left as it is
    candidates
Stopped(c) ==
    IF candidates[c].status \in InFlight
    THEN [candidates EXCEPT ![c].status = "cancelled"] ELSE candidates

StopCandidate(b, k) ==
    LET c == runner[b][k].candidate
    IN  /\ runner[b][k].at = "stop"
        /\ candidates' = Stopped(c)
        /\ IF candidates[c].status \in InFlight THEN RunnerGoes(b, k, "enter", c, "none")
           ELSE \E to \in FailedOrRetry(b, k) : RunnerGoes(b, k, "decide", c, to)
        /\ UNCHANGED <<current, batches, items, references, coordinator, generating, plan, bounds>>

(* A second look at the flag decides whether anything is generated.        *)
Enter(b, k) ==
    LET c == runner[b][k].candidate
    IN  /\ runner[b][k].at = "enter"
        /\ generating' = [generating EXCEPT ![c] = IF batches[b].cancel THEN "over" ELSE "start"]
        /\ RunnerGoes(b, k, "generate", c, "none")
        /\ UNCHANGED <<rows, coordinator, plan, bounds>>

(* The result of the generation is read, then whether the batch was        *)
(* cancelled, then the item is written: a batch that is cancelled in       *)
(* between finds its item completed, or queued again.                      *)
ReadResult(b, k) ==
    LET c == runner[b][k].candidate
    IN  /\ runner[b][k].at = "generate" /\ generating[c] = "over"
        /\ IF candidates[c].status \in Finished THEN RunnerGoes(b, k, "decide", c, "completed")
           ELSE \E to \in FailedOrRetry(b, k) : RunnerGoes(b, k, "decide", c, to)
        /\ UNCHANGED <<rows, coordinator, generating, plan, bounds>>

Decide(b, k) ==
    /\ runner[b][k].at = "decide"
    /\ RunnerGoes(b, k, "settle", runner[b][k].candidate,
                  IF batches[b].cancel THEN "cancelled" ELSE runner[b][k].to)
    /\ UNCHANGED <<rows, coordinator, generating, plan, bounds>>

(* update_batch_item; a thread whose item is tried again sleeps a while,   *)
(* one whose item is completed goes on to the reference.                   *)
Settle(b, k) ==
    /\ runner[b][k].at = "settle"
    /\ items' = [items EXCEPT ![b][k].status = runner[b][k].to]
    /\ batches' = Refreshed(b, batches[b].status)
    /\ IF runner[b][k].to = "completed"
       THEN RunnerGoes(b, k, "keep", runner[b][k].candidate, "completed")
       ELSE runner' = [runner EXCEPT ![b][k] = Gone]
    /\ UNCHANGED <<candidates, current, references, coordinator, generating, plan, bounds>>

(* make_snapshot_reference_permanent changes a reference that is there.    *)
Kept(c) == IF references[c] = "none" THEN references
           ELSE [references EXCEPT ![c] = "permanent"]

Keep(b, k) ==
    /\ runner[b][k].at = "keep"
    /\ references' = Kept(runner[b][k].candidate)
    /\ runner' = [runner EXCEPT ![b][k] = Gone]
    /\ UNCHANGED <<candidates, current, batches, items, coordinator, generating, plan, bounds>>

(* The reference is a row of the central database: if it cannot be         *)
(* written, the handler of all errors fails the item that was completed,   *)
(* or cancels it.  "database is locked" is not a transient error.          *)
KeepFails(b, k) ==
    /\ runner[b][k].at = "keep"
    /\ left.faults > 0 /\ left' = [left EXCEPT !.faults = @ - 1]
    /\ RunnerGoes(b, k, "decide", runner[b][k].candidate, "failed")
    /\ UNCHANGED <<rows, coordinator, generating, plan, crashed, torn, broken>>

-----------------------------------------------------------------------------
(* Generation of one candidate *)

Moves(c, at) == generating' = [generating EXCEPT ![c] = at]
Becomes(c, status) == candidates' = [candidates EXCEPT ![c].status = status]
Quiet == UNCHANGED <<current, batches, items, references, coordinator, runner, plan, bounds>>

(* update_status refuses to change a candidate that has ended: the         *)
(* generation is over then.                                                *)
AdvancesAlways(c, status, at) ==   \* mutation: a candidate that has ended is overwritten
    Becomes(c, status) /\ Moves(c, at)
Advances(c, status, at) ==
    IF candidates[c].status \in InFlight
    THEN Becomes(c, status) /\ Moves(c, at)
    ELSE Moves(c, "over") /\ UNCHANGED candidates

StartGeneration(c) ==
    /\ generating[c] = "start" /\ Advances(c, "running", "nodes") /\ Quiet

(* The nodes from the leaves to the entry, each after a look at whether    *)
(* the candidate is cancelled; a call of the model may fail.               *)
ExplainNodes(c) ==
    /\ generating[c] = "nodes"
    /\ \/ Advances(c, "validating", "validate")
       \/ Advances(c, "failed", "over")
    /\ Quiet

(* validate_explanation_coverage decides; the evidence of a snapshot does  *)
(* not change, and what is generated is published in a second step.        *)
Validate(c) ==
    /\ generating[c] = "validate"
    /\ \/ \E status \in Finished : Advances(c, status, "publish")
       \/ Advances(c, "failed", "over")
    /\ Quiet

Publish(c) ==
    /\ generating[c] = "publish"
    /\ current' = IF candidates[c].status \in Finished
                  THEN [current EXCEPT ![candidates[c].key] = c] ELSE current
    /\ Moves(c, "over")
    /\ UNCHANGED <<candidates, batches, items, references, coordinator, runner, plan, bounds>>

-----------------------------------------------------------------------------
(* Requests about one endpoint *)

(* generate_api_explanation, under a lock, looks for a candidate of the    *)
(* repository that the request names, while candidates are stored under    *)
(* their member.                                                           *)
Found(k, named) ==
    {c \in Candidates : named /\ candidates[c].key = k /\ candidates[c].status \in InFlight}
PrepareOne(c, k, s, p, named) ==
    /\ left.singles > 0 /\ \A d \in Candidates : generating[d] # "refer"
    /\ Found(k, named) = {}
    /\ k \in left.keys \ left.incomplete /\ NewCandidate(c, k, s, p, None)
    /\ Moves(c, "refer")
    /\ left' = [left EXCEPT !.singles = @ - 1]
    /\ UNCHANGED <<current, batches, items, references, coordinator, runner, plan, crashed, torn, broken>>

(* A reference protects the snapshot meanwhile.  If it cannot be made, the *)
(* candidate is left behind.                                               *)
ReferOne(c) ==
    /\ generating[c] = "refer"
    /\ references' = [references EXCEPT ![c] = "temporary"]
    /\ Moves(c, "start")
    /\ UNCHANGED <<candidates, current, batches, items, coordinator, runner, plan, bounds>>
ReferFails(c) ==
    /\ generating[c] = "refer"
    /\ left.faults > 0 /\ left' = [left EXCEPT !.faults = @ - 1]
    /\ Moves(c, "none")
    /\ UNCHANGED <<rows, coordinator, runner, plan, crashed, torn, broken>>

(* run_and_finalize *)
FinalizeKept(c) ==   \* mutation: the reference of a failed candidate is kept
    Kept(c)
Finalized(c) ==
    IF candidates[c].status \in Finished THEN Kept(c)
    ELSE [references EXCEPT ![c] = "none"]
FinalizeOne(c) ==
    /\ generating[c] = "over" /\ candidates[c].batch = None /\ candidates[c] # NoCandidate
    /\ references' = Finalized(c)
    /\ Moves(c, "none")
    /\ UNCHANGED <<candidates, current, batches, items, coordinator, runner, plan, bounds>>

CancelOne(c) ==
    /\ candidates[c].status \in InFlight
    /\ Becomes(c, "cancelled")
    /\ UNCHANGED <<current, batches, items, references, threads, bounds>>

(* A running candidate is not deleted; the current one is if the user      *)
(* confirms it.  The row is gone; its identifier is not used again.        *)
DeleteOne(c) ==
    /\ left.deletions > 0
    /\ candidates[c].status \notin {"none", "deleted", "running"}
    /\ Becomes(c, "deleted")
    /\ current' = [k \in Keys |-> IF current[k] = c THEN None ELSE current[k]]
    /\ left' = [left EXCEPT !.deletions = @ - 1]
    /\ UNCHANGED <<batches, items, references, threads, crashed, torn, broken>>

-----------------------------------------------------------------------------
(* The process dies, and is started again: items and batches that ran are  *)
(* queued, candidates stay as they are.                                    *)
RequeuedNot == items   \* mutation: what ran is left as it was
Requeued ==
    [b \in Batches |-> [k \in Keys |-> IF items[b][k].status = "running"
        THEN [items[b][k] EXCEPT !.status = "queued"] ELSE items[b][k]]]

Restart ==
    /\ left.crashes > 0 /\ left' = [left EXCEPT !.crashes = @ - 1]
    /\ crashed' = TRUE
    /\ torn' = (torn \/ \E c \in Candidates : generating[c] = "publish")
    /\ items' = Requeued
    /\ batches' = [b \in Batches |-> IF batches[b].status = "running"
                     THEN [batches[b] EXCEPT !.status = "queued"] ELSE batches[b]]
    /\ coordinator' = [b \in Batches |-> NoCoordinator]
    /\ runner' = [b \in Batches |-> [k \in Keys |-> Gone]]
    /\ generating' = [c \in Candidates |-> "none"]
    /\ plan' = [r \in Requests |-> Gone]
    /\ UNCHANGED <<candidates, current, references, broken>>

-----------------------------------------------------------------------------
Init ==
    /\ candidates = [c \in Candidates |-> NoCandidate]
    /\ current = [k \in Keys |-> None]
    /\ batches = [b \in Batches |-> NoBatch]
    /\ items = [b \in Batches |-> [k \in Keys |-> NoItem]]
    /\ references = [c \in Candidates |-> "none"]
    /\ coordinator = [b \in Batches |-> NoCoordinator]
    /\ runner = [b \in Batches |-> [k \in Keys |-> Gone]]
    /\ generating = [c \in Candidates |-> "none"]
    /\ plan = [r \in Requests |-> Gone]
    /\ left \in Budgets /\ crashed = FALSE /\ torn = FALSE /\ broken = {}

Coordinate(b) == StartBatch(b) \/ Look(b) \/ Claim(b) \/ Gather(b) \/ FailBatch(b)
RunItem(b, k) ==
    \/ \E c \in Candidates : Prepare(b, k, c)
    \/ PrepareFails(b, k) \/ Register(b, k) \/ CheckCancel(b, k) \/ StopCandidate(b, k)
    \/ Enter(b, k) \/ ReadResult(b, k) \/ Decide(b, k) \/ Settle(b, k) \/ Keep(b, k)
Generate(c) ==
    \/ ReferOne(c) \/ StartGeneration(c) \/ ExplainNodes(c) \/ Validate(c) \/ Publish(c) \/ FinalizeOne(c)

Next ==
    \/ \E r \in Requests, s \in Snapshots, p \in Prompts : PlanBatch(r, s, p)
    \/ \E r \in Requests, b \in Batches : PlanRetry(r, b) \/ CreateBatch(r, b)
    \/ \E b \in Batches : CancelBatch(b) \/ Coordinate(b) \/ CoordinatorRaises(b)
    \/ \E b \in Batches, k \in Keys : RunItem(b, k) \/ KeepFails(b, k)
    \/ \E c \in Candidates : Generate(c) \/ CancelOne(c) \/ DeleteOne(c) \/ ReferFails(c)
    \/ \E c \in Candidates, k \in Keys, s \in Snapshots, p \in Prompts, named \in Named :
         PrepareOne(c, k, s, p, named)
    \/ Restart

(* Threads that can go on do so; a call of the model returns or times out. *)
Fairness ==
    /\ \A b \in Batches : WF_vars(Coordinate(b))
    /\ \A b \in Batches, k \in Keys : WF_vars(RunItem(b, k))
    /\ \A c \in Candidates : WF_vars(Generate(c))

Spec == Init /\ [][Next]_vars /\ Fairness

-----------------------------------------------------------------------------
(* Properties *)

(* Every variable has its type, and no two batches of a snapshot and a     *)
(* prompt are active, however requests, failures and restarts interleave.  *)
TypeOK ==
    /\ \A c \in Candidates :
         /\ candidates[c].status \in {"none", "deleted", "failed", "cancelled"} \cup InFlight
                                     \cup Finished
         /\ candidates[c].batch \in Batches \cup {None}
    /\ current \in [Keys -> Candidates \cup {None}]
    /\ \A b \in Batches : batches[b].status \in {"none", "completed", "partial", "failed",
                                                "cancelled"} \cup BatchActive
    /\ items \in [Batches -> [Keys -> [
         status : {"none", "queued", "running", "completed", "failed", "skipped", "cancelled"},
         tries : Nat, candidate : Candidates \cup {None}]]]
    /\ \A a, b \in Batches :
         /\ {batches[a].status, batches[b].status} \subseteq BatchActive
         /\ batches[a].snapshot = batches[b].snapshot /\ batches[a].prompt = batches[b].prompt
         => a = b
    /\ references \in [Candidates -> {"none", "temporary", "permanent"}]

(* A batch that has ended has no item queued or running, and no thread     *)
(* that explains one: also if it was cancelled after a thread had looked   *)
(* at the flag and before that thread queued its item again.  A thread may *)
(* still record that a completed item's reference could not be kept.       *)
(* Exempt are batches whose coordinator failed, which leaves both.         *)
EndedHasNoWork ==
    \A b \in Batches \ broken : batches[b].status \notin BatchActive =>
        \A k \in Keys : /\ items[b][k].status \notin BatchActive
                        /\ runner[b][k].at \notin Explaining

(* When a cancelled batch has ended none of its candidates is generated    *)
(* any more: whether the cancellation comes before the candidate is made,  *)
(* before it is registered, or later, somebody cancels it.                 *)
CancelledStops ==
    \A c \in Candidates :
        LET b == candidates[c].batch
        IN  b # None => (batches[b].cancel /\ batches[b].status \notin BatchActive
                         /\ b \notin broken /\ ~ crashed
                           => candidates[c].status \notin InFlight)

(* A candidate that has ended stays as it is until it is deleted, although *)
(* a user, a batch and the thread that generates it write its status.      *)
NoCandidateRevives ==
    \A c \in Candidates : candidates[c].status \notin {"none"} \cup InFlight =>
      candidates'[c].status \in {candidates[c].status, "deleted"}

(* No item of a cancelled batch is run again: neither one that a thread    *)
(* queued after the cancellation, since it had looked at the flag before,  *)
(* nor one that the coordinator claims after it, for the same reason, nor  *)
(* one that a restart queued.                                              *)
CancelledIsNotResumed ==
    \A b \in Batches, k \in Keys :
      batches[b].cancel /\ items[b][k].status # "running"
        => items'[b][k].status # "running"

(* What has ended, or was cancelled, is not taken up again by whoever      *)
(* comes late.                                                             *)
EndedStays == [][NoCandidateRevives /\ CancelledIsNotResumed]_vars

(* When a batch completes, each of its endpoints has been explained: has a *)
(* current explanation, or one that is about to be published.  A crash     *)
(* before the publication breaks this, and a deletion.                     *)
CompletedMeansExplained ==
    \A b \in Batches, k \in Keys :
        batches[b].status = "completed" /\ items[b][k] # NoItem
          => \/ torn \/ \E c \in Candidates : candidates[c].status = "deleted"
             \/ current[k] # None
             \/ \E c \in Candidates : candidates[c].key = k /\ generating[c] = "publish"

(* The snapshot of a candidate that a user asked for is protected as long  *)
(* as it is generated, and afterwards exactly if there is an explanation.  *)
SinglesAreProtected ==
    \A c \in Candidates :
        candidates[c].batch = None /\ candidates[c].status # "none" =>
          /\ generating[c] \notin {"none", "refer"} => references[c] = "temporary"
          /\ generating[c] = "none" /\ ~ crashed /\ candidates[c].status # "deleted"
               => references[c] = (IF candidates[c].status \in Finished THEN "permanent"
                                   ELSE "none")

(* Whatever the order of cancellation, failure and the end of items: what  *)
(* has ended is at rest.                                                   *)
EndedIsAtRest == TypeOK /\ EndedHasNoWork /\ CancelledStops

(* "Completed" can be relied on, and so can the reference that a user's    *)
(* explanation leaves behind.                                              *)
ExplanationsAreKept == CompletedMeansExplained /\ SinglesAreProtected

(* Every batch ends: items that fail are not tried for ever, and what is   *)
(* interrupted is taken up again.                                          *)
BatchesEnd ==
    \A b \in Batches : batches[b].status \in BatchActive ~> batches[b].status \notin BatchActive
=============================================================================
