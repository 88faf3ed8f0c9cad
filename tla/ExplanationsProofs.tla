------------------------- MODULE ExplanationsProofs -------------------------
(***************************************************************************)
(* Theorems about Explanations for any endpoints, batches, candidates,     *)
(* requests and bounds.                                                    *)
(*                                                                         *)
(* The invariants of the runs are not inductive.  Inv adds how the rows    *)
(* depend on threads: an item with a thread is running, or completed while *)
(* its reference is kept (BatchOK), a candidate that a batch still         *)
(* generates has the thread of its item (RunnersOK), what was explained    *)
(* stays so (AllExplained), and a coordinator that is about to claim items *)
(* finds none queued in a cancelled batch (Coordinated).                   *)
(***************************************************************************)
EXTENDS Explanations, TLAPS

(* Rows and threads of their kinds. *)
CandidateStatuses == {"none", "deleted", "failed", "cancelled"} \cup InFlight \cup Finished
BatchStatuses == {"none", "completed", "partial", "failed", "cancelled"} \cup BatchActive
ItemStatuses ==
    {"none", "queued", "running", "completed", "failed", "skipped", "cancelled"}
References == {"none", "temporary", "permanent"}
CandidateRows ==
    [status : CandidateStatuses, key : Keys \cup {None}, snapshot : Snapshots \cup {None},
     prompt : Prompts \cup {None}, batch : Batches \cup {None}]
BatchRows ==
    [status : BatchStatuses, snapshot : Snapshots \cup {None},
     prompt : Prompts \cup {None}, cancel : BOOLEAN]
ItemRows == [status : ItemStatuses, tries : Nat, candidate : Candidates \cup {None}]
PlannedRows ==
    {i \in ItemRows : i.status \in {"none", "queued", "skipped", "failed"}
                      /\ (i.status = "none" => i = NoItem)}
Plans0 ==
    [at : {"create"}, snapshot : Snapshots \cup {None}, prompt : Prompts \cup {None},
     items : [Keys -> PlannedRows]]
Holding == {"register", "check", "stop", "enter", "generate"}
Runners ==
    {Gone} \cup [at : {"prepare"}, candidate : {None}, to : {"none"}]
           \cup [at : Holding, candidate : Candidates, to : {"none"}]
           \cup [at : {"decide", "settle"}, candidate : Candidates \cup {None},
                 to : {"failed", "queued", "cancelled"}]
           \cup [at : {"decide", "settle", "keep"}, candidate : Candidates, to : {"completed"}]
Coordinators == [at : {"none", "look", "claim", "wait", "fail"}, waits : SUBSET Keys]
Phases == {"none", "refer", "start", "nodes", "validate", "publish", "over"}

Types ==
    /\ candidates \in [Candidates -> CandidateRows]
    /\ current \in [Keys -> Candidates \cup {None}]
    /\ batches \in [Batches -> BatchRows]
    /\ items \in [Batches -> [Keys -> ItemRows]]
    /\ references \in [Candidates -> References]
    /\ coordinator \in [Batches -> Coordinators]
    /\ runner \in [Batches -> [Keys -> Runners]]
    /\ generating \in [Candidates -> Phases]
    /\ plan \in [Requests -> {Gone} \cup Plans0]
    /\ crashed \in BOOLEAN /\ torn \in BOOLEAN /\ broken \subseteq Batches

-----------------------------------------------------------------------------
(* Batches *)

IsActive(b) == batches[b].status \in BatchActive

OneIsActive ==
    \A a, b \in Batches :
      /\ IsActive(a) /\ IsActive(b)
      /\ batches[a].snapshot = batches[b].snapshot /\ batches[a].prompt = batches[b].prompt
      => a = b

(* A thread works for a running item, or for the reference of a completed  *)
(* one, which it may yet fail.                                             *)
WorksFor(r, i) ==
    \/ r = Gone
    \/ i.status = "running" /\ r.at # "keep"
    \/ i.status = "completed" /\ r.at = "keep"
    \/ i.status = "completed" /\ r.at \in {"decide", "settle"} /\ r.to \in {"failed", "cancelled"}

(* A batch that was failed has ended and has no coordinator; one that has  *)
(* ended has no item left; the items of a completed batch are completed or *)
(* were skipped; an item that is none has never been anything, and a batch *)
(* that is none has no threads.                                            *)
BatchOK(b) ==
    /\ \A k \in Keys : WorksFor(runner[b][k], items[b][k])
    /\ b \in broken => batches[b].status \notin BatchActive \cup {"none"}
    /\ b \in broken \/ batches[b].status = "none" => coordinator[b] = NoCoordinator
    /\ b \notin broken /\ batches[b].status \notin BatchActive =>
         \A k \in Keys : items[b][k].status \notin BatchActive
    /\ batches[b].status = "none" => \A k \in Keys : runner[b][k] = Gone
    /\ batches[b].status = "completed" =>
         \A k \in Keys : items[b][k].status \in {"none", "completed", "skipped"}
    /\ \A k \in Keys : items[b][k].status = "none" => items[b][k] = NoItem

BatchesOK == OneIsActive /\ \A b \in Batches : BatchOK(b)

-----------------------------------------------------------------------------
(* Candidates *)

RunsFor(b, k, c) == runner[b][k].at \in Holding /\ runner[b][k].candidate = c

Waits(b, k, c) == RunsFor(b, k, c) /\ runner[b][k].at # "generate"

(* A candidate that a batch generates is the one of the thread of an item, *)
(* and its generation begins when that thread has looked at the batch.     *)
RunnersOK ==
    /\ \A b \in Batches, k \in Keys, c \in Candidates :
         Waits(b, k, c) => generating[c] = "none"
    /\ \A b \in Batches, k \in Keys, c \in Candidates :
         RunsFor(b, k, c) => /\ candidates[c].status # "none"
                             /\ candidates[c].key = k /\ candidates[c].batch = b
    /\ \A c \in Candidates, b \in Batches :
         candidates[c].batch = b /\ candidates[c].status \in InFlight /\ ~ crashed =>
           \E k \in Keys : RunsFor(b, k, c)

(* How far a candidate is, and what protects the snapshot of a single one. *)
CandidateOK(c) ==
    /\ candidates[c].status = "none" => /\ generating[c] = "none" /\ references[c] = "none"
                                        /\ candidates[c].batch = None
    /\ generating[c] = "over" => candidates[c].status \notin InFlight
    /\ generating[c] = "publish" => candidates[c].status \in Finished \cup {"deleted"}
    /\ generating[c] = "refer" => /\ candidates[c].batch = None
                                  /\ candidates[c].status \notin Finished
                                  /\ references[c] = "none"
    /\ candidates[c].batch = None /\ candidates[c].status # "none" =>
         /\ generating[c] \notin {"none", "refer"} => references[c] = "temporary"
         /\ generating[c] = "none" /\ ~ crashed /\ candidates[c].status # "deleted"
              => references[c] = (IF candidates[c].status \in Finished THEN "permanent"
                                  ELSE "none")

-----------------------------------------------------------------------------
(* Explanations: what is explained stays so, until something is deleted or *)
(* the process dies at the wrong moment.                                   *)

Explained(k) ==
    \/ torn \/ \E c \in Candidates : candidates[c].status = "deleted"
    \/ current[k] # None
    \/ \E c \in Candidates : candidates[c].key = k /\ generating[c] = "publish"

AllExplained ==
    /\ \A c \in Candidates, k \in Keys :
         candidates[c].status \in Finished /\ candidates[c].key = k => Explained(k)
    /\ \A b \in Batches, k \in Keys :
         items[b][k].status \in {"completed", "skipped"} => Explained(k)
    /\ \A r \in Requests, k \in Keys :
         plan[r] # Gone /\ plan[r].items[k].status = "skipped" => Explained(k)
    /\ \A b \in Batches, k \in Keys :
         runner[b][k] # Gone /\ runner[b][k].to = "completed" => Explained(k)

Inv ==
    /\ Types /\ BatchesOK /\ RunnersOK /\ AllExplained
    /\ \A c \in Candidates : CandidateOK(c)

(* The candidate of a thread belongs to its batch.  Once it is registered  *)
(* the item names it, so that whoever cancels the batch cancels it as      *)
(* well.                                                                   *)
ThreadOK(b, k) ==
    LET r == runner[b][k]
    IN  /\ r.at \notin {"gone", "prepare"} /\ r.candidate # None
             => candidates[r.candidate].batch = b
        /\ r.at \in Holding \ {"register"} => items[b][k].candidate = r.candidate
        /\ r.at = "enter" /\ batches[b].cancel
             => candidates[r.candidate].status \notin InFlight

ThreadsOK == \A b \in Batches, k \in Keys : ThreadOK(b, k)

(* A coordinator goes on when its threads have ended, and what it waits    *)
(* for are all threads of its batch.                                       *)
CoordinatedOK(b) ==
    /\ coordinator[b].at \in {"look", "claim"} => \A k \in Keys : runner[b][k] = Gone
    /\ coordinator[b].at = "wait" =>
         \A k \in Keys : runner[b][k] # Gone => k \in coordinator[b].waits
    /\ coordinator[b].at = "none" /\ IsActive(b) => \A k \in Keys : runner[b][k] = Gone
    /\ coordinator[b].at = "claim" /\ batches[b].cancel =>
         \A k \in Keys : items[b][k].status # "queued"

Coordinated == \A b \in Batches : CoordinatedOK(b)

-----------------------------------------------------------------------------
(* Facts about rows *)

LEMMA NoneApart == None \notin Batches /\ None \notin Candidates
BY NoneAssumption

LEMMA StatusesApart ==
  /\ BatchActive = {"queued", "running"} /\ InFlight = {"pending", "running", "validating"}
  /\ Finished = {"completed", "partial"}
BY DEF BatchActive, InFlight, Finished

LEMMA ItemSet ==
  ASSUME Types, NEW b \in Batches, NEW k \in Keys, NEW status \in ItemStatuses,
         items' = [items EXCEPT ![b][k].status = status]
  PROVE  /\ items' \in [Batches -> [Keys -> ItemRows]]
         /\ items'[b][k].status = status
         /\ \A j \in Keys : j # k => items'[b][j] = items[b][j]
         /\ \A a \in Batches : a # b => items'[a] = items[a]
<1>1. items \in [Batches -> [Keys -> ItemRows]]
  BY DEF Types
<1>2. [items[b][k] EXCEPT !.status = status] \in ItemRows
  <2>1. items[b][k] \in ItemRows
    BY <1>1
  <2> QED
    BY <2>1 DEF ItemRows
<1>3. [items[b] EXCEPT ![k] = [items[b][k] EXCEPT !.status = status]] \in [Keys -> ItemRows]
  BY <1>1, <1>2
<1>4. items' = [items EXCEPT ![b] = [items[b] EXCEPT ![k] =
                                       [items[b][k] EXCEPT !.status = status]]]
  OBVIOUS
<1> HIDE DEF Types
<1>5. items' \in [Batches -> [Keys -> ItemRows]]
  BY <1>1, <1>3, <1>4
<1>6. items'[b] = [items[b] EXCEPT ![k] = [items[b][k] EXCEPT !.status = status]]
  BY <1>1, <1>4
<1>7. items'[b][k] = [items[b][k] EXCEPT !.status = status]
  BY <1>1, <1>6
<1>8. items'[b][k].status = status
  BY <1>1, <1>7 DEF ItemRows
<1> QED
  BY <1>1, <1>4, <1>5, <1>6, <1>8

LEMMA RunnerSet ==
  ASSUME Types, NEW b \in Batches, NEW k \in Keys, NEW r \in Runners,
         runner' = [runner EXCEPT ![b][k] = r]
  PROVE  /\ runner' \in [Batches -> [Keys -> Runners]]
         /\ runner'[b][k] = r
         /\ \A j \in Keys : j # k => runner'[b][j] = runner[b][j]
         /\ \A a \in Batches : a # b => runner'[a] = runner[a]
BY DEF Types

LEMMA CoordinatorSet ==
  ASSUME Types, NEW b \in Batches, NEW v \in Coordinators,
         coordinator' = [coordinator EXCEPT ![b] = v]
  PROVE  /\ coordinator' \in [Batches -> Coordinators]
         /\ coordinator'[b] = v
         /\ \A a \in Batches : a # b => coordinator'[a] = coordinator[a]
BY DEF Types

(* The status of a batch after its items have changed. *)
LEMMA RefreshedFact ==
  ASSUME Types, items' \in [Batches -> [Keys -> ItemRows]], NEW b \in Batches,
         NEW run \in BatchStatuses, batches' = Refreshed(b, run)
  PROVE  /\ batches' \in [Batches -> BatchRows]
         /\ \A a \in Batches : a # b => batches'[a] = batches[a]
         /\ batches'[b].snapshot = batches[b].snapshot
         /\ batches'[b].prompt = batches[b].prompt
         /\ batches'[b].cancel = batches[b].cancel
         /\ (\E k \in Keys : items'[b][k].status \in BatchActive)
              => batches'[b].status = run
         /\ (\A k \in Keys : items'[b][k].status \notin BatchActive) =>
              /\ batches'[b].status \notin BatchActive \cup {"none"}
              /\ batches'[b].status = "completed" =>
                   \A k \in Keys : items'[b][k].status \in {"none", "completed", "skipped"}
<1> DEFINE none == With(b, "queued") \cup With(b, "running") = {}
           status == IF none THEN Ended(b) ELSE run
<1>1. none <=> \A k \in Keys : items'[b][k].status \notin BatchActive
  BY DEF With, BatchActive
<1>2. Ended(b) \in {"partial", "cancelled", "failed", "completed"}
  BY DEF Ended
<1>3. none /\ Ended(b) = "completed" =>
        \A k \in Keys : items'[b][k].status \in {"none", "completed", "skipped"}
  <2> SUFFICES ASSUME none, Ended(b) = "completed", NEW k \in Keys
               PROVE  items'[b][k].status \in {"none", "completed", "skipped"}
    OBVIOUS
  <2>1. With(b, "failed") \cup With(b, "cancelled") = {}
    BY DEF Ended
  <2>2. items'[b][k].status \in ItemStatuses
    BY DEF ItemRows
  <2> QED
    BY <2>1, <2>2 DEF With, ItemStatuses
<1>4. status \in BatchStatuses
  BY <1>2 DEF BatchStatuses
<1>5. batches' = [batches EXCEPT ![b].status = status]
  BY DEF Refreshed
<1> HIDE DEF status, none
<1>6. batches[b] \in BatchRows /\ batches \in [Batches -> BatchRows]
  BY DEF Types
<1>7. batches' = [batches EXCEPT ![b] = [batches[b] EXCEPT !.status = status]]
  BY <1>5
<1>8. [batches[b] EXCEPT !.status = status] \in BatchRows
  BY <1>4, <1>6 DEF BatchRows
<1>9. /\ batches' \in [Batches -> BatchRows]
      /\ \A a \in Batches : a # b => batches'[a] = batches[a]
      /\ batches'[b] = [batches[b] EXCEPT !.status = status]
  BY <1>6, <1>7, <1>8
<1>10. /\ batches'[b].status = status
       /\ batches'[b].snapshot = batches[b].snapshot
       /\ batches'[b].prompt = batches[b].prompt
       /\ batches'[b].cancel = batches[b].cancel
  BY <1>6, <1>9 DEF BatchRows
<1> QED
  BY <1>1, <1>2, <1>3, <1>9, <1>10, StatusesApart DEF status

-----------------------------------------------------------------------------
(* Steps of one batch *)

OnlyBatch(b) ==
    \A a \in Batches : a # b =>
      /\ batches'[a] = batches[a] /\ items'[a] = items[a] /\ runner'[a] = runner[a]
      /\ coordinator'[a] = coordinator[a] /\ (a \in broken' <=> a \in broken)

LEMMA OthersStay ==
  ASSUME NEW b \in Batches, BatchesOK, OnlyBatch(b), BatchOK(b)',
         IsActive(b)' => /\ IsActive(b)
                         /\ batches'[b].snapshot = batches[b].snapshot
                         /\ batches'[b].prompt = batches[b].prompt
  PROVE  BatchesOK'
<1>1. \A a \in Batches : BatchOK(a)'
  BY DEF BatchesOK, BatchOK, OnlyBatch
<1>2. \A a \in Batches :
        IsActive(a)' => /\ IsActive(a)
                        /\ batches'[a].snapshot = batches[a].snapshot
                        /\ batches'[a].prompt = batches[a].prompt
  BY DEF OnlyBatch, IsActive
<1>3. OneIsActive'
  BY <1>2 DEF BatchesOK, OneIsActive
<1> QED
  BY <1>1, <1>3 DEF BatchesOK

(* What the batches are made of stays as it is. *)
LEMMA BatchesStay ==
  ASSUME BatchesOK, UNCHANGED <<batches, items, runner, broken>>,
         \A b \in Batches : b \in broken \/ batches[b].status = "none" =>
           coordinator'[b] = coordinator[b]
  PROVE  BatchesOK'
BY DEF BatchesOK, OneIsActive, IsActive, BatchOK

(* After items of b have changed the batch is refreshed. *)
LEMMA RefreshStep ==
  ASSUME Types, BatchesOK, NEW b \in Batches, OnlyBatch(b),
         items' \in [Batches -> [Keys -> ItemRows]],
         NEW run \in BatchStatuses, batches' = Refreshed(b, run),
         run = batches[b].status \/ (b \notin broken /\ run = "running"),
         UNCHANGED broken,
         b \in broken => coordinator'[b] = coordinator[b], run # "none",
         \A k \in Keys : WorksFor(runner'[b][k], items'[b][k]),
         \A k \in Keys : items'[b][k].status = "none" => items'[b][k] = NoItem,
         \A k \in Keys : items'[b][k].status \in BatchActive =>
           \E j \in Keys : items[b][j].status \in BatchActive
  PROVE  BatchesOK' /\ batches' \in [Batches -> BatchRows]
<1>1. /\ batches' \in [Batches -> BatchRows]
      /\ batches'[b].snapshot = batches[b].snapshot
      /\ batches'[b].prompt = batches[b].prompt
      /\ (\E k \in Keys : items'[b][k].status \in BatchActive)
           => batches'[b].status = run
      /\ (\A k \in Keys : items'[b][k].status \notin BatchActive) =>
           /\ batches'[b].status \notin BatchActive \cup {"none"}
           /\ batches'[b].status = "completed" =>
                \A k \in Keys : items'[b][k].status \in {"none", "completed", "skipped"}
  BY RefreshedFact
<1>2. BatchOK(b)
  BY DEF BatchesOK
<1>3. CASE \A k \in Keys : items'[b][k].status \notin BatchActive
  <2>2. BatchOK(b)'
    BY <1>1, <1>2, <1>3 DEF BatchOK
  <2>3. ~ IsActive(b)'
    BY <1>1, <1>3 DEF IsActive
  <2> QED
    BY <1>1, <2>2, <2>3, OthersStay
<1>4. CASE \E k \in Keys : items'[b][k].status \in BatchActive
  <2>1. \E j \in Keys : items[b][j].status \in BatchActive
    BY <1>4
  <2>2. batches[b].status # "completed" /\ (b \notin broken => IsActive(b))
    BY <1>2, <2>1 DEF BatchOK, IsActive, BatchActive
  <2>3. batches'[b].status = run
    BY <1>1, <1>4
  <2>4. BatchOK(b)'
    BY <1>2, <2>2, <2>3 DEF BatchOK, IsActive, BatchActive
  <2>5. IsActive(b)' => IsActive(b)
    BY <2>2, <2>3 DEF IsActive
  <2> QED
    BY <1>1, <2>4, <2>5, OthersStay
<1> QED
  BY <1>3, <1>4

(* Threads move on, and items keep their status. *)
LEMMA RunnersMove ==
  ASSUME BatchesOK, UNCHANGED <<batches, broken, coordinator>>,
         \A b \in Batches, k \in Keys :
           /\ runner'[b][k] # Gone => runner[b][k] # Gone
           /\ WorksFor(runner'[b][k], items'[b][k])
           /\ items'[b][k].status = items[b][k].status
           /\ items[b][k].status = "none" => items'[b][k] = items[b][k]
  PROVE  BatchesOK'
BY DEF BatchesOK, OneIsActive, IsActive, BatchOK

(* A thread records how its item ended. *)
LEMMA SettleFact ==
  ASSUME Types, BatchesOK, NEW b \in Batches, NEW k \in Keys, Settle(b, k)
  PROVE  /\ BatchesOK' /\ batches' \in [Batches -> BatchRows]
         /\ items' \in [Batches -> [Keys -> ItemRows]]
         /\ runner' \in [Batches -> [Keys -> Runners]]
         /\ items'[b][k].status = runner[b][k].to
         /\ runner'[b][k].at \in {"gone", "keep"}
         /\ runner'[b][k] # Gone => runner[b][k].to = "completed"
         /\ \A a \in Batches, j \in Keys :
              a # b \/ j # k => items'[a][j] = items[a][j] /\ runner'[a][j] = runner[a][j]
<1> DEFINE status == runner[b][k].to
           c == runner[b][k].candidate
           kept == [at |-> "keep", candidate |-> c, to |-> "completed"]
           next == IF status = "completed" THEN kept ELSE Gone
<1>1. /\ runner[b][k].at = "settle" /\ UNCHANGED <<coordinator, broken>>
      /\ items' = [items EXCEPT ![b][k].status = status]
      /\ batches' = Refreshed(b, batches[b].status)
      /\ runner' = [runner EXCEPT ![b][k] = next]
  BY DEF Settle, RunnerGoes, bounds
<1>2. runner[b][k] \in Runners
  BY DEF Types
<1>3. /\ status \in {"failed", "queued", "cancelled", "completed"}
      /\ status = "completed" => c \in Candidates
      /\ runner[b][k] # Gone
  BY <1>1, <1>2 DEF Runners, Gone, Holding
<1>4. next \in Runners
  BY <1>3 DEF Runners
<1>5. /\ next.at \in {"gone", "keep"} /\ (next # Gone => status = "completed")
      /\ status = "completed" => next.at = "keep"
      /\ status # "completed" => next = Gone
  BY DEF Gone
<1> HIDE DEF next
<1>6. /\ items' \in [Batches -> [Keys -> ItemRows]]
      /\ items'[b][k].status = status
      /\ \A j \in Keys : j # k => items'[b][j] = items[b][j]
      /\ \A a \in Batches : a # b => items'[a] = items[a]
  <2>1. status \in ItemStatuses
    BY <1>3 DEF ItemStatuses
  <2> QED
    BY <1>1, <2>1, ItemSet
<1>7. /\ runner' \in [Batches -> [Keys -> Runners]]
      /\ runner'[b][k] = next
      /\ \A j \in Keys : j # k => runner'[b][j] = runner[b][j]
      /\ \A a \in Batches : a # b => runner'[a] = runner[a]
  BY <1>1, <1>4, RunnerSet
<1>8. /\ BatchOK(b) /\ batches[b].status \in BatchStatuses
      /\ WorksFor(runner[b][k], items[b][k])
  BY DEF BatchesOK, BatchOK, Types, BatchRows
<1>9. batches[b].status # "none"
  BY <1>3, <1>8 DEF BatchOK
<1>10. /\ WorksFor(next, items'[b][k]) /\ status # "none"
       /\ status \in BatchActive => items[b][k].status \in BatchActive
  BY <1>1, <1>3, <1>5, <1>6, <1>8 DEF WorksFor, BatchActive
<1>11. ASSUME NEW j \in Keys
       PROVE  /\ WorksFor(runner'[b][j], items'[b][j])
              /\ items'[b][j].status = "none" => items'[b][j] = NoItem
              /\ items'[b][j].status \in BatchActive => items[b][j].status \in BatchActive
  <2>1. CASE j = k
    BY <1>6, <1>7, <1>10, <2>1
  <2>2. CASE j # k
    <3>1. runner'[b][j] = runner[b][j] /\ items'[b][j] = items[b][j]
      BY <1>6, <1>7, <2>2
    <3> QED
      BY <1>8, <3>1 DEF BatchOK
  <2> QED
    BY <2>1, <2>2
<1>12. OnlyBatch(b)
  <2>1. \A a \in Batches : a # b => batches'[a] = batches[a]
    BY <1>1, <1>6, <1>8, RefreshedFact
  <2> QED
    BY <1>1, <1>6, <1>7, <2>1 DEF OnlyBatch
<1>13. BatchesOK' /\ batches' \in [Batches -> BatchRows]
  BY <1>1, <1>6, <1>8, <1>9, <1>11, <1>12, RefreshStep
<1> QED
  BY <1>5, <1>6, <1>7, <1>13

LEMMA PlansStep ==
  ASSUME Types, BatchesOK, NEW r \in Requests, NEW s \in Snapshots \cup {None},
         NEW p \in Prompts \cup {None}, NEW items0,
         \A k \in Keys : items0[k] \subseteq PlannedRows, Plans(r, s, p, items0)
  PROVE  /\ Types' /\ BatchesOK'
         /\ UNCHANGED <<candidates, current, batches, items, references, coordinator, runner,
                       generating, crashed, torn, broken>>
         /\ \A q \in Requests : q # r => plan'[q] = plan[q]
         /\ \A k \in Keys : plan'[r].items[k] \in items0[k]
<1>1. UNCHANGED <<candidates, current, batches, items, references, coordinator, runner,
                  generating, crashed, torn, broken>>
  BY DEF Plans, rows
<1>2. PICK planned \in [Keys -> UNION {items0[k] : k \in Keys}] :
        /\ \A k \in Keys : planned[k] \in items0[k]
        /\ plan' = [plan EXCEPT ![r] = [at |-> "create", snapshot |-> s, prompt |-> p,
                                        items |-> planned]]
  BY DEF Plans
<1>3. planned \in [Keys -> PlannedRows]
  BY <1>2
<1>4. [at |-> "create", snapshot |-> s, prompt |-> p, items |-> planned] \in Plans0
  BY <1>3 DEF Plans0
<1>5. /\ plan' \in [Requests -> {Gone} \cup Plans0]
      /\ \A q \in Requests : q # r => plan'[q] = plan[q]
      /\ plan'[r].items = planned
  BY <1>2, <1>4 DEF Types
<1>6. Types'
  BY <1>1, <1>5 DEF Types
<1>7. BatchesOK'
  BY <1>1, BatchesStay
<1> QED
  BY <1>1, <1>2, <1>5, <1>6, <1>7

LEMMA NoItemRow ==
  /\ NoItem \in PlannedRows /\ NoItem.status = "none"
  /\ [NoItem EXCEPT !.status = "queued"] \in PlannedRows
  /\ [NoItem EXCEPT !.status = "failed"] \in PlannedRows
  /\ \A c \in Candidates :
       /\ [NoItem EXCEPT !.status = "skipped", !.candidate = c] \in PlannedRows
       /\ [NoItem EXCEPT !.status = "skipped", !.candidate = c].status = "skipped"
BY DEF NoItem, PlannedRows, ItemRows, ItemStatuses

LEMMA PlannedType ==
  ASSUME NEW k \in Keys, NEW s, NEW p
  PROVE  /\ Planned(k, s, p) \subseteq PlannedRows
         /\ \A i \in Planned(k, s, p) : i.status = "skipped" => Reusable(k, s, p) # {}
<1>1. Newest(Reusable(k, s, p)) \subseteq Candidates
  BY DEF Newest, Reusable
<1>2. /\ [NoItem EXCEPT !.status = "queued"].status = "queued"
      /\ [NoItem EXCEPT !.status = "failed"].status = "failed"
  BY DEF NoItem
<1>3. CASE k \notin left.keys
  BY <1>3, NoItemRow DEF Planned
<1>4. CASE k \in left.keys /\ k \in left.incomplete
  BY <1>2, <1>4, NoItemRow DEF Planned
<1>5. CASE k \in left.keys /\ k \notin left.incomplete /\ Reusable(k, s, p) = {}
  BY <1>2, <1>5, NoItemRow DEF Planned
<1>6. CASE k \in left.keys /\ k \notin left.incomplete /\ Reusable(k, s, p) # {}
  <2>1. Planned(k, s, p) = {[NoItem EXCEPT !.status = "skipped", !.candidate = c] :
                              c \in Newest(Reusable(k, s, p))}
    BY <1>6 DEF Planned
  <2>2. \A c \in Newest(Reusable(k, s, p)) :
          [NoItem EXCEPT !.status = "skipped", !.candidate = c] \in PlannedRows
    BY <1>1, NoItemRow
  <2> QED
    BY <1>6, <2>1, <2>2
<1> QED
  BY <1>3, <1>4, <1>5, <1>6

LEMMA CreateBatches ==
  ASSUME Types, BatchesOK, NEW r \in Requests, NEW b \in Batches, CreateBatch(r, b)
  PROVE  Types' /\ BatchesOK'
<1> DEFINE s == plan[r].snapshot
           p == plan[r].prompt
           row == [NoBatch EXCEPT !.status = "queued", !.snapshot = s, !.prompt = p]
<1>1. /\ plan[r] \in Plans0 /\ batches[b] = NoBatch /\ plan' = [plan EXCEPT ![r] = Gone]
      /\ UNCHANGED <<candidates, current, references, coordinator, runner, generating,
                     crashed, torn, broken>>
  BY DEF CreateBatch, Types, bounds
<1>2. plan' \in [Requests -> {Gone} \cup Plans0]
  BY <1>1 DEF Types
<1>3. CASE UNCHANGED <<items, batches>>
  BY <1>1, <1>2, <1>3, BatchesStay DEF Types
<1>4. CASE ~ UNCHANGED <<items, batches>>
  <2>1. /\ ActiveBatch(s, p) = {}
        /\ items' = [items EXCEPT ![b] = plan[r].items]
        /\ batches' = [batches EXCEPT ![b] =
              IF With(b, "queued") = {} THEN [row EXCEPT !.status = Ended(b)] ELSE row]
    BY <1>4 DEF CreateBatch
  <2>2. s \in Snapshots \cup {None} /\ p \in Prompts \cup {None}
        /\ plan[r].items \in [Keys -> PlannedRows]
    BY <1>1 DEF Plans0
  <2>3. PlannedRows \subseteq ItemRows
    BY DEF PlannedRows
  <2>4. /\ items' \in [Batches -> [Keys -> ItemRows]]
        /\ items'[b] = plan[r].items
        /\ \A a \in Batches : a # b => items'[a] = items[a]
    BY <2>1, <2>2, <2>3 DEF Types
  <2>a. Ended(b) \in {"partial", "cancelled", "failed", "completed"}
    BY DEF Ended
  <2>5. row \in BatchRows /\ [row EXCEPT !.status = Ended(b)] \in BatchRows
    BY <2>2, <2>a DEF NoBatch, BatchRows, BatchStatuses, BatchActive
  <2>6. /\ batches' \in [Batches -> BatchRows]
        /\ \A a \in Batches : a # b => batches'[a] = batches[a]
        /\ batches'[b] = IF With(b, "queued") = {} THEN [row EXCEPT !.status = Ended(b)]
                         ELSE row
    BY <2>1, <2>5 DEF Types
  <2>7. /\ batches'[b].status
              = IF With(b, "queued") = {} THEN Ended(b) ELSE "queued"
        /\ batches'[b].snapshot = s /\ batches'[b].prompt = p
    BY <2>6 DEF NoBatch
  <2>8. Types'
    BY <1>1, <1>2, <2>4, <2>6 DEF Types
  <2>9. /\ b \notin broken /\ \A k \in Keys : runner[b][k] = Gone
    BY <1>1 DEF BatchesOK, BatchOK, NoBatch, BatchActive
  <2>10. \A k \in Keys : /\ items'[b][k].status \in {"none", "queued", "skipped", "failed"}
                         /\ items'[b][k].status = "none" => items'[b][k] = NoItem
    BY <2>2, <2>4 DEF PlannedRows
  <2>11. BatchOK(b)'
    <3>1. batches'[b].status # "none" /\ b \notin broken'
      BY <1>1, <2>7, <2>9, <2>a
    <3>2. \A k \in Keys : runner'[b][k] = Gone
      BY <1>1, <2>9
    <3>3. \A k \in Keys : WorksFor(runner'[b][k], items'[b][k])
      BY <3>2 DEF WorksFor
    <3>4. ASSUME With(b, "queued") = {}, NEW k \in Keys
          PROVE  items'[b][k].status \in {"none", "skipped", "failed"}
      <4>1. items'[b][k].status # "queued"
        BY <3>4, Zenon DEF With
      <4> QED
        BY <2>10, <4>1
    <3>5. batches'[b].status \notin BatchActive =>
            \A k \in Keys : items'[b][k].status \notin BatchActive
      BY <2>7, <3>4 DEF BatchActive
    <3>6. batches'[b].status = "completed" =>
            \A k \in Keys : items'[b][k].status \in {"none", "skipped"}
      <4> SUFFICES ASSUME batches'[b].status = "completed", NEW k \in Keys
                   PROVE  items'[b][k].status \in {"none", "skipped"}
        OBVIOUS
      <4>1. With(b, "queued") = {} /\ Ended(b) = "completed"
        BY <2>7
      <4>2. With(b, "failed") = {}
        BY <4>1 DEF Ended
      <4>3. items'[b][k].status # "failed"
        BY <4>2, Zenon DEF With
      <4> QED
        BY <3>4, <4>1, <4>3
    <3> QED
      BY <2>10, <3>1, <3>2, <3>3, <3>5, <3>6 DEF BatchOK
  <2>12. ASSUME NEW a \in Batches, a # b
         PROVE  BatchOK(a)'
    BY <1>1, <2>4, <2>6, <2>12 DEF BatchesOK, BatchOK
  <2>13. \A a \in Batches : batches[a].status \in BatchActive =>
           ~ (batches[a].snapshot = s /\ batches[a].prompt = p)
    BY <2>1 DEF ActiveBatch
  <2>14. OneIsActive'
    <3> SUFFICES ASSUME NEW a \in Batches, NEW d \in Batches, IsActive(a)', IsActive(d)',
                        batches'[a].snapshot = batches'[d].snapshot,
                        batches'[a].prompt = batches'[d].prompt
                 PROVE  a = d
      BY DEF OneIsActive
    <3>1. CASE a # b /\ d # b
      BY <2>6, <3>1 DEF BatchesOK, OneIsActive, IsActive
    <3>2. CASE a = b /\ d # b
      BY <2>6, <2>7, <2>13, <3>2 DEF IsActive
    <3>3. CASE a # b /\ d = b
      BY <2>6, <2>7, <2>13, <3>3 DEF IsActive
    <3> QED
      BY <3>1, <3>2, <3>3
  <2> QED
    BY <2>8, <2>11, <2>12, <2>14 DEF BatchesOK
<1> QED
  BY <1>3, <1>4

(* The items of a batch are cancelled, as far as they are queued.          *)
LEMMA CancellingFact ==
  ASSUME Types, BatchesOK, NEW b \in Batches, IsActive(b), Cancelling(b),
         UNCHANGED <<runner, broken>>,
         \A a \in Batches : a # b => coordinator'[a] = coordinator[a]
  PROVE  /\ BatchesOK' /\ batches' \in [Batches -> BatchRows]
         /\ candidates' \in [Candidates -> CandidateRows]
         /\ items' \in [Batches -> [Keys -> ItemRows]]
         /\ \A c \in Candidates :
              \/ candidates'[c] = candidates[c]
              \/ /\ candidates[c].status \in InFlight
                 /\ candidates'[c] = [candidates[c] EXCEPT !.status = "cancelled"]
         /\ \A a \in Batches, k \in Keys :
              items'[a][k].status # items[a][k].status =>
                items[a][k].status = "queued" /\ items'[a][k].status = "cancelled"
<1> DEFINE row(k) == IF items[b][k].status = "queued"
                     THEN [items[b][k] EXCEPT !.status = "cancelled"] ELSE items[b][k]
           status == IF With(b, "running") # {} THEN batches[b].status
                     ELSE IF With(b, "completed") # {} THEN "partial" ELSE "cancelled"
<1>1. /\ items \in [Batches -> [Keys -> ItemRows]] /\ batches \in [Batches -> BatchRows]
      /\ candidates \in [Candidates -> CandidateRows]
  BY DEF Types
<1>2. items' = [items EXCEPT ![b] = [k \in Keys |-> row(k)]]
  BY DEF Cancelling, CancelledItems
<1>3. ASSUME NEW k \in Keys
      PROVE  /\ row(k) \in ItemRows
             /\ row(k).status = IF items[b][k].status = "queued" THEN "cancelled"
                                ELSE items[b][k].status
             /\ items[b][k].status # "queued" => row(k) = items[b][k]
  <2>1. items[b][k] \in ItemRows
    BY <1>1
  <2> QED
    BY <2>1 DEF ItemRows, ItemStatuses
<1> HIDE DEF row
<1>4. /\ items' \in [Batches -> [Keys -> ItemRows]]
      /\ \A k \in Keys : items'[b][k] = row(k)
      /\ \A a \in Batches : a # b => items'[a] = items[a]
  BY <1>1, <1>2, <1>3
<1>5. batches' = [batches EXCEPT ![b] = [batches[b] EXCEPT !.cancel = TRUE,
                                                           !.status = status]]
  <2>1. batches' = [batches EXCEPT ![b].cancel = TRUE, ![b].status =
          IF With(b, "running") # {} THEN @
          ELSE IF With(b, "completed") # {} THEN "partial" ELSE "cancelled"]
    BY DEF Cancelling
  <2>2. [batches EXCEPT ![b].cancel = TRUE][b].status = batches[b].status
    BY <1>1 DEF BatchRows
  <2> QED
    BY <1>1, <2>1, <2>2
<1>6. /\ batches[b] \in BatchRows /\ status \in BatchStatuses
  BY <1>1 DEF BatchRows, BatchStatuses
<1> HIDE DEF status
<1>7. /\ batches' \in [Batches -> BatchRows]
      /\ \A a \in Batches : a # b => batches'[a] = batches[a]
      /\ batches'[b].status = status
      /\ batches'[b].snapshot = batches[b].snapshot
      /\ batches'[b].prompt = batches[b].prompt
  <2>1. [batches[b] EXCEPT !.cancel = TRUE, !.status = status] \in BatchRows
    BY <1>6 DEF BatchRows
  <2>2. batches' \in [Batches -> BatchRows]
    BY <1>1, <1>5, <2>1
  <2>3. batches'[b] = [batches[b] EXCEPT !.cancel = TRUE, !.status = status]
    BY <1>1, <1>5
  <2>4. \A a \in Batches : a # b => batches'[a] = batches[a]
    BY <1>1, <1>5
  <2> QED
    BY <1>6, <2>2, <2>3, <2>4 DEF BatchRows
<1>8. BatchOK(b) /\ b \notin broken
  BY DEF BatchesOK, BatchOK, IsActive
<1>9. \A k \in Keys : items'[b][k].status \in BatchActive => items'[b][k].status = "running"
  BY <1>1, <1>3, <1>4, StatusesApart
<1>10. status \in BatchActive => status = batches[b].status
  BY DEF status, BatchActive
<1>11. status \notin BatchActive =>
         \A k \in Keys : items'[b][k].status \notin BatchActive
  <2> SUFFICES ASSUME status \notin BatchActive, NEW k \in Keys
               PROVE  items'[b][k].status # "running"
    BY <1>9
  <2>1. With(b, "running") = {}
    BY DEF status, IsActive
  <2> QED
    BY <2>1 DEF With
<1>12. \A k \in Keys : WorksFor(runner'[b][k], items'[b][k])
  BY <1>3, <1>4, <1>8 DEF BatchOK, WorksFor
<1>13. status \notin {"completed", "none"}
  BY <1>8 DEF status, IsActive, BatchActive
<1>14. BatchOK(b)'
  <2>2. \A k \in Keys : items'[b][k].status = "none" => items'[b][k] = NoItem
    BY <1>3, <1>4, <1>8 DEF BatchOK
  <2> QED
    BY <1>7, <1>8, <1>11, <1>12, <1>13, <2>2 DEF BatchOK
<1>15. BatchesOK'
  BY <1>4, <1>7, <1>14, OthersStay DEF OnlyBatch
<1>16. \A c \in Candidates :
         \/ candidates'[c] = candidates[c]
         \/ /\ candidates[c].status \in InFlight
            /\ candidates'[c] = [candidates[c] EXCEPT !.status = "cancelled"]
  BY DEF Cancelling, CancelledCandidates
<1>17. candidates' \in [Candidates -> CandidateRows]
  <2>1. ASSUME NEW c \in Candidates
        PROVE  candidates'[c] \in CandidateRows
    <3>1. candidates[c] \in CandidateRows
      BY <1>1
    <3>2. [candidates[c] EXCEPT !.status = "cancelled"] \in CandidateRows
      BY <3>1 DEF CandidateRows, CandidateStatuses
    <3> QED
      BY <1>16, <3>1, <3>2
  <2> QED
    BY <2>1 DEF Cancelling, CancelledCandidates
<1>18. \A a \in Batches, k \in Keys :
         items'[a][k].status # items[a][k].status =>
           items[a][k].status = "queued" /\ items'[a][k].status = "cancelled"
  BY <1>3, <1>4
<1> QED
  BY <1>4, <1>7, <1>15, <1>16, <1>17, <1>18

LEMMA CoordinatorRow ==
  /\ NoCoordinator \in Coordinators /\ NoCoordinator.at = "none"
  /\ \A waits \in SUBSET Keys, at \in {"look", "claim", "wait", "fail"} :
       [at |-> at, waits |-> waits] \in Coordinators
BY DEF NoCoordinator, Coordinators

(* Somebody who coordinates a batch does so for one that has not failed.   *)
LEMMA CoordinatedIsWhole ==
  ASSUME BatchesOK, NEW b \in Batches, coordinator[b] # NoCoordinator
  PROVE  b \notin broken /\ batches[b].status # "none"
BY DEF BatchesOK, BatchOK

LEMMA StartBatches ==
  ASSUME Types, BatchesOK, NEW b \in Batches, StartBatch(b)
  PROVE  Types' /\ BatchesOK'
<1>1. /\ IsActive(b) /\ batches' = Refreshed(b, "running")
      /\ coordinator' = [coordinator EXCEPT ![b] = [at |-> "look", waits |-> {}]]
      /\ UNCHANGED <<candidates, current, items, references, runner, generating, plan,
                     crashed, torn, broken>>
  BY DEF StartBatch, IsActive, Coordinates, bounds
<1>2. BatchOK(b) /\ b \notin broken
  BY <1>1 DEF BatchesOK, BatchOK, IsActive
<1>3. /\ coordinator' \in [Batches -> Coordinators]
      /\ \A a \in Batches : a # b => coordinator'[a] = coordinator[a]
  BY <1>1, CoordinatorSet, CoordinatorRow
<1>4. items' \in [Batches -> [Keys -> ItemRows]] /\ "running" \in BatchStatuses
  BY <1>1 DEF Types, BatchStatuses, BatchActive
<1>5. OnlyBatch(b)
  BY <1>1, <1>3, <1>4, RefreshedFact DEF OnlyBatch
<1>6. BatchesOK' /\ batches' \in [Batches -> BatchRows]
  <2>1. \A k \in Keys : WorksFor(runner'[b][k], items'[b][k])
    BY <1>1, <1>2 DEF BatchOK
  <2>2. \A k \in Keys : items'[b][k].status = "none" => items'[b][k] = NoItem
    BY <1>1, <1>2 DEF BatchOK
  <2>3. \A k \in Keys : items'[b][k].status \in BatchActive =>
          \E j \in Keys : items[b][j].status \in BatchActive
    BY <1>1
  <2> QED
    BY <1>1, <1>2, <1>4, <1>5, <2>1, <2>2, <2>3, RefreshStep
<1>7. Types'
  BY <1>1, <1>3, <1>4, <1>6 DEF Types
<1> QED
  BY <1>6, <1>7

LEMMA LookBatches ==
  ASSUME Types, BatchesOK, NEW b \in Batches, Look(b)
  PROVE  Types' /\ BatchesOK'
<1>1. /\ coordinator[b].at = "look"
      /\ UNCHANGED <<current, references, runner, generating, plan, crashed, torn, broken>>
  BY DEF Look, bounds
<1>2. coordinator[b] # NoCoordinator /\ b \notin broken /\ batches[b].status # "none"
  BY <1>1, CoordinatorRow, CoordinatedIsWhole
<1>3. PICK v \in Coordinators : coordinator' = [coordinator EXCEPT ![b] = v]
  BY CoordinatorRow DEF Look, Coordinates
<1>4. /\ coordinator' \in [Batches -> Coordinators]
      /\ \A a \in Batches : a # b => coordinator'[a] = coordinator[a]
  BY <1>3, CoordinatorSet
<1>5. CASE UNCHANGED <<items, candidates, batches>>
  BY <1>1, <1>2, <1>4, <1>5, BatchesStay DEF Types
<1>6. CASE IsActive(b) /\ Cancelling(b)
  <2>1. /\ BatchesOK' /\ batches' \in [Batches -> BatchRows]
        /\ candidates' \in [Candidates -> CandidateRows]
        /\ items' \in [Batches -> [Keys -> ItemRows]]
    BY <1>1, <1>4, <1>6, CancellingFact
  <2> QED
    BY <1>1, <1>4, <2>1 DEF Types
<1> QED
  BY <1>5, <1>6 DEF Look, IsActive

LEMMA CancelBatches ==
  ASSUME Types, BatchesOK, NEW b \in Batches, CancelBatch(b)
  PROVE  Types' /\ BatchesOK'
<1>1. /\ IsActive(b) /\ Cancelling(b)
      /\ UNCHANGED <<current, references, coordinator, runner, generating, plan, crashed,
                     torn, broken>>
  BY DEF CancelBatch, IsActive, threads, bounds
<1>2. /\ BatchesOK' /\ batches' \in [Batches -> BatchRows]
      /\ candidates' \in [Candidates -> CandidateRows]
      /\ items' \in [Batches -> [Keys -> ItemRows]]
  BY <1>1, CancellingFact
<1> QED
  BY <1>1, <1>2 DEF Types

LEMMA RaisesBatches ==
  ASSUME Types, BatchesOK, NEW b \in Batches, CoordinatorRaises(b)
  PROVE  /\ Types' /\ BatchesOK'
         /\ \A a \in Batches, k \in Keys :
              \/ runner'[a][k] = runner[a][k]
              \/ runner'[a][k] = Gone /\ runner[a][k].at \in {"decide", "settle"}
<1>1. /\ coordinator[b] # NoCoordinator
      /\ UNCHANGED <<candidates, current, batches, items, references, generating, plan,
                     crashed, torn, broken>>
  BY DEF CoordinatorRaises, rows
<1>2. b \notin broken /\ batches[b].status # "none"
  BY <1>1, CoordinatedIsWhole
<1>3. PICK v \in Coordinators : coordinator' = [coordinator EXCEPT ![b] = v]
  BY CoordinatorRow DEF CoordinatorRaises, Coordinates
<1>4. /\ coordinator' \in [Batches -> Coordinators]
      /\ \A a \in Batches : a # b => coordinator'[a] = coordinator[a]
  BY <1>3, CoordinatorSet
<1>5. /\ runner' \in [Batches -> [Keys -> Runners]]
      /\ \A a \in Batches, k \in Keys :
           \/ runner'[a][k] = runner[a][k]
           \/ runner'[a][k] = Gone /\ runner[a][k].at \in {"decide", "settle"}
  <2>1. CASE UNCHANGED runner
    BY <2>1 DEF Types
  <2>2. ASSUME NEW k \in Recording(b), runner' = [runner EXCEPT ![b][k] = Gone]
        PROVE  \A a \in Batches, j \in Keys :
                 \/ runner'[a][j] = runner[a][j]
                 \/ runner'[a][j] = Gone /\ runner[a][j].at \in {"decide", "settle"}
    <3>1. k \in Keys /\ runner[b][k].at \in {"decide", "settle"} /\ Gone \in Runners
      BY DEF Recording, Runners
    <3>2. /\ runner' \in [Batches -> [Keys -> Runners]] /\ runner'[b][k] = Gone
          /\ \A j \in Keys : j # k => runner'[b][j] = runner[b][j]
          /\ \A a \in Batches : a # b => runner'[a] = runner[a]
      BY <2>2, <3>1, RunnerSet
    <3> QED
      BY <3>1, <3>2
  <2>3. ASSUME NEW k \in Recording(b), runner' = [runner EXCEPT ![b][k] = Gone]
        PROVE  runner' \in [Batches -> [Keys -> Runners]]
    BY <2>3, RunnerSet DEF Recording, Runners
  <2> QED
    BY <2>1, <2>2, <2>3 DEF CoordinatorRaises
<1>6. Types'
  BY <1>1, <1>4, <1>5 DEF Types
<1>7. BatchesOK'
  <2>1. OneIsActive'
    BY <1>1 DEF BatchesOK, OneIsActive, IsActive
  <2>2. \A a \in Batches, k \in Keys : WorksFor(runner'[a][k], items'[a][k])
    BY <1>1, <1>5 DEF BatchesOK, BatchOK, WorksFor
  <2>3. \A a \in Batches : a \in broken \/ batches[a].status = "none" =>
          coordinator'[a] = coordinator[a]
    BY <1>2, <1>4
  <2>4. \A a \in Batches, k \in Keys : runner[a][k] = Gone => runner'[a][k] = Gone
    BY <1>5
  <2> QED
    BY <1>1, <2>1, <2>2, <2>3, <2>4 DEF BatchesOK, BatchOK
<1> QED
  BY <1>5, <1>6, <1>7

(* Whatever the batch has become meanwhile, it has failed then.            *)
LEMMA FailBatches ==
  ASSUME Types, BatchesOK, NEW b \in Batches, FailBatch(b)
  PROVE  Types' /\ BatchesOK'
<1>1. /\ batches' = [batches EXCEPT ![b].status = "failed"]
      /\ coordinator' = [coordinator EXCEPT ![b] = NoCoordinator]
      /\ broken' = broken \cup {b}
      /\ UNCHANGED <<candidates, current, items, references, runner, generating, plan,
                     crashed, torn>>
  BY DEF FailBatch
<1>2. /\ batches \in [Batches -> BatchRows] /\ batches[b] \in BatchRows
  BY DEF Types
<1>3. [batches[b] EXCEPT !.status = "failed"] \in BatchRows
  BY <1>2 DEF BatchRows, BatchStatuses
<1>4. /\ batches' \in [Batches -> BatchRows]
      /\ batches'[b].status = "failed"
      /\ \A a \in Batches : a # b => batches'[a] = batches[a]
  BY <1>1, <1>2, <1>3 DEF BatchRows
<1>5. /\ coordinator' \in [Batches -> Coordinators] /\ coordinator'[b] = NoCoordinator
      /\ \A a \in Batches : a # b => coordinator'[a] = coordinator[a]
  BY <1>1, CoordinatorSet, CoordinatorRow
<1>6. BatchOK(b)'
  BY <1>1, <1>4, <1>5 DEF BatchesOK, BatchOK, BatchActive
<1>7. BatchesOK'
  BY <1>1, <1>4, <1>5, <1>6, OthersStay DEF OnlyBatch, IsActive, BatchActive
<1> QED
  BY <1>1, <1>4, <1>5, <1>7 DEF Types

LEMMA ClaimBatches ==
  ASSUME Types, BatchesOK, NEW b \in Batches, Claim(b)
  PROVE  /\ Types' /\ BatchesOK'
         /\ \A a \in Batches, k \in Keys :
              \/ UNCHANGED <<items[a][k].status, runner[a][k]>>
              \/ /\ items[a][k].status = "queued" /\ items'[a][k].status = "running"
                 /\ runner[a][k] = Gone /\ runner'[a][k].at = "prepare"
                 /\ runner'[a][k].to = "none"
<1>1. /\ coordinator[b].at = "claim" /\ batches' = Refreshed(b, "running")
      /\ UNCHANGED <<candidates, current, references, generating, plan, crashed, torn, broken>>
  BY DEF Claim, bounds
<1>2. b \notin broken /\ BatchOK(b)
  BY <1>1, CoordinatorRow, CoordinatedIsWhole DEF BatchesOK
<1>3. PICK S \in Claimable(b) :
        /\ items' = [items EXCEPT ![b] = [k \in Keys |-> IF k \in S
             THEN [items[b][k] EXCEPT !.status = "running", !.tries = @ + 1]
             ELSE items[b][k]]]
        /\ runner' = [runner EXCEPT ![b] = [k \in Keys |-> IF k \in S
             THEN [at |-> "prepare", candidate |-> None, to |-> "none"] ELSE runner[b][k]]]
        /\ IF S = {} THEN Coordinates(b, "look", {}) ELSE Coordinates(b, "wait", S)
  BY DEF Claim
<1>4. S \subseteq Keys /\ \A k \in S : items[b][k].status = "queued"
  BY DEF Claimable
<1>5. /\ items \in [Batches -> [Keys -> ItemRows]]
      /\ runner \in [Batches -> [Keys -> Runners]]
      /\ [at |-> "prepare", candidate |-> None, to |-> "none"] \in Runners
  BY DEF Types, Runners
<1>6. ASSUME NEW k \in Keys
      PROVE  /\ [items[b][k] EXCEPT !.status = "running", !.tries = @ + 1] \in ItemRows
             /\ [items[b][k] EXCEPT !.status = "running", !.tries = @ + 1].status = "running"
  <2>1. items[b][k] \in ItemRows
    BY <1>5
  <2>2. items[b][k].tries + 1 \in Nat /\ "running" \in ItemStatuses
    BY <2>1 DEF ItemRows, ItemStatuses
  <2>3. [items[b][k] EXCEPT !.status = "running", !.tries = items[b][k].tries + 1] \in ItemRows
    BY <2>1, <2>2 DEF ItemRows
  <2> QED
    BY <2>1, <2>3 DEF ItemRows
<1>7. /\ items' \in [Batches -> [Keys -> ItemRows]]
      /\ \A a \in Batches : a # b => items'[a] = items[a]
      /\ \A k \in Keys : IF k \in S THEN items'[b][k].status = "running"
                         ELSE items'[b][k] = items[b][k]
  BY <1>3, <1>5, <1>6
<1>8. /\ runner' \in [Batches -> [Keys -> Runners]]
      /\ \A a \in Batches : a # b => runner'[a] = runner[a]
      /\ \A k \in Keys : runner'[b][k] = IF k \in S
           THEN [at |-> "prepare", candidate |-> None, to |-> "none"] ELSE runner[b][k]
  BY <1>3, <1>5
<1>9. PICK v \in Coordinators : coordinator' = [coordinator EXCEPT ![b] = v]
  BY <1>3, <1>4, CoordinatorRow DEF Coordinates
<1>10. /\ coordinator' \in [Batches -> Coordinators]
       /\ \A a \in Batches : a # b => coordinator'[a] = coordinator[a]
  BY <1>9, CoordinatorSet
<1>11. "running" \in BatchStatuses
  BY DEF BatchStatuses, BatchActive
<1>12. OnlyBatch(b)
  <2>1. \A a \in Batches : a # b => batches'[a] = batches[a]
    BY <1>1, <1>7, <1>11, RefreshedFact
  <2> QED
    BY <1>1, <1>7, <1>8, <1>10, <2>1 DEF OnlyBatch
<1>13. BatchesOK' /\ batches' \in [Batches -> BatchRows]
  <2>1. \A k \in Keys : WorksFor(runner'[b][k], items'[b][k])
    BY <1>2, <1>7, <1>8 DEF BatchOK, WorksFor
  <2>2. \A k \in Keys : items'[b][k].status = "none" => items'[b][k] = NoItem
    BY <1>2, <1>7 DEF BatchOK
  <2>3. \A k \in Keys : items'[b][k].status \in BatchActive =>
          items[b][k].status \in BatchActive
    BY <1>4, <1>7 DEF BatchActive
  <2>4. UNCHANGED broken
    BY <1>1
  <2> QED
    BY <1>1, <1>2, <1>7, <1>11, <1>12, <2>1, <2>2, <2>3, <2>4, RefreshStep
<1>14. Types'
  BY <1>1, <1>7, <1>8, <1>10, <1>13 DEF Types
<1>15. \A k \in S : runner[b][k] = Gone
  BY <1>2, <1>4 DEF BatchOK, WorksFor
<1>16. ASSUME NEW a \in Batches, NEW k \in Keys
       PROVE  \/ UNCHANGED <<items[a][k].status, runner[a][k]>>
              \/ /\ items[a][k].status = "queued" /\ items'[a][k].status = "running"
                 /\ runner[a][k] = Gone /\ runner'[a][k].at = "prepare"
                 /\ runner'[a][k].to = "none"
  <2>1. CASE a = b /\ k \in S
    BY <1>4, <1>7, <1>8, <1>15, <2>1
  <2>2. CASE ~ (a = b /\ k \in S)
    BY <1>7, <1>8, <2>2
  <2> QED
    BY <2>1, <2>2
<1> QED
  BY <1>13, <1>14, <1>16

LEMMA GatherBatches ==
  ASSUME Types, BatchesOK, NEW b \in Batches, Gather(b)
  PROVE  Types' /\ BatchesOK'
<1>1. /\ coordinator[b].at = "wait"
      /\ coordinator' = [coordinator EXCEPT ![b] = [at |-> "look", waits |-> {}]]
      /\ UNCHANGED <<candidates, current, batches, items, references, runner, generating,
                     plan, crashed, torn, broken>>
  BY DEF Gather, Coordinates, bounds, rows
<1>2. b \notin broken /\ batches[b].status # "none"
  BY <1>1, CoordinatorRow, CoordinatedIsWhole
<1>3. /\ coordinator' \in [Batches -> Coordinators]
      /\ \A a \in Batches : a # b => coordinator'[a] = coordinator[a]
  BY <1>1, CoordinatorSet, CoordinatorRow
<1> QED
  BY <1>1, <1>2, <1>3, BatchesStay DEF Types

-----------------------------------------------------------------------------
(* Steps that generate nothing: candidates are at most cancelled, and a    *)
(* thread leaves its candidate only when that has ended.                   *)

OnlyCancels ==
    \A c \in Candidates :
      \/ candidates'[c] = candidates[c]
      \/ /\ candidates[c].status \in InFlight
         /\ candidates'[c] = [candidates[c] EXCEPT !.status = "cancelled"]

LeavesEnded ==
    \A b \in Batches, k \in Keys, c \in Candidates :
      /\ RunsFor(b, k, c)' => RunsFor(b, k, c)
      /\ Waits(b, k, c)' => Waits(b, k, c)
      /\ RunsFor(b, k, c) => RunsFor(b, k, c)' \/ candidates'[c].status \notin InFlight

(* What an item or a plan says is explained was said, or is.               *)
SaysNothingNew ==
    /\ \A b \in Batches, k \in Keys :
         items'[b][k].status \in {"completed", "skipped"} =>
           items[b][k].status \in {"completed", "skipped"} \/ Explained(k)
    /\ \A r \in Requests, k \in Keys :
         plan'[r] # Gone /\ plan'[r].items[k].status = "skipped" =>
           \/ plan[r] # Gone /\ plan[r].items[k].status = "skipped"
           \/ Explained(k)

ThreadsSayNothingNew ==
    \A b \in Batches, k \in Keys :
      runner'[b][k] # Gone /\ runner'[b][k].to = "completed" =>
        (runner[b][k] # Gone /\ runner[b][k].to = "completed") \/ Explained(k)

LEMMA CancelledRow ==
  ASSUME Types, OnlyCancels, NEW c \in Candidates
  PROVE  /\ candidates'[c].key = candidates[c].key
         /\ candidates'[c].batch = candidates[c].batch
         /\ \/ candidates'[c].status = candidates[c].status
            \/ candidates[c].status \in InFlight /\ candidates'[c].status = "cancelled"
<1>1. candidates[c] \in CandidateRows
  BY DEF Types
<1> QED
  BY <1>1 DEF OnlyCancels, CandidateRows

LEMMA QuietStays ==
  ASSUME Inv, Types', BatchesOK', OnlyCancels, LeavesEnded, SaysNothingNew,
         ThreadsSayNothingNew,
         UNCHANGED <<generating, current, crashed, torn>>,
         \A c \in Candidates : references'[c] = references[c] \/ candidates[c].batch # None
  PROVE  Inv'
<1>1. Types /\ RunnersOK /\ AllExplained /\ \A c \in Candidates : CandidateOK(c)
  BY DEF Inv
<1>2. \A c \in Candidates :
        /\ candidates'[c].key = candidates[c].key
        /\ candidates'[c].batch = candidates[c].batch
        /\ \/ candidates'[c].status = candidates[c].status
           \/ candidates[c].status \in InFlight /\ candidates'[c].status = "cancelled"
  BY <1>1, CancelledRow
<1>3. \A c \in Candidates :
        /\ candidates'[c].status \in InFlight => candidates[c].status \in InFlight
        /\ candidates'[c].status \in Finished <=> candidates[c].status \in Finished
        /\ candidates'[c].status = "none" <=> candidates[c].status = "none"
        /\ candidates'[c].status = "deleted" <=> candidates[c].status = "deleted"
  BY <1>2, StatusesApart
<1>4. RunnersOK'
  <2>1. ASSUME NEW b \in Batches, NEW k \in Keys, NEW c \in Candidates, RunsFor(b, k, c)'
        PROVE  /\ candidates'[c].status # "none"
               /\ candidates'[c].key = k /\ candidates'[c].batch = b
    BY <1>1, <1>2, <1>3, <2>1 DEF RunnersOK, LeavesEnded
  <2>2. ASSUME NEW b \in Batches, NEW c \in Candidates, candidates'[c].batch = b,
               candidates'[c].status \in InFlight, ~ crashed
        PROVE  \E k \in Keys : RunsFor(b, k, c)'
    <3>1. PICK k \in Keys : RunsFor(b, k, c)
      BY <1>1, <1>2, <1>3, <2>2 DEF RunnersOK
    <3> QED
      BY <2>2, <3>1 DEF LeavesEnded
  <2>3. ASSUME NEW b \in Batches, NEW k \in Keys, NEW c \in Candidates, Waits(b, k, c)'
        PROVE  generating'[c] = "none"
    BY <1>1, <2>3 DEF RunnersOK, LeavesEnded
  <2> QED
    BY <2>1, <2>2, <2>3 DEF RunnersOK
<1>5. ASSUME NEW c \in Candidates
      PROVE  CandidateOK(c)'
  <2>1. CandidateOK(c)
    BY <1>1
  <2>2. candidates[c].status = "none" => candidates[c].batch = None
    BY <2>1 DEF CandidateOK
  <2> QED
    BY <1>2, <1>3, <2>1, <2>2 DEF CandidateOK
<1>6. ASSUME NEW k \in Keys, Explained(k)
      PROVE  Explained(k)'
  BY <1>2, <1>3, <1>6 DEF Explained
<1>7. AllExplained'
  BY <1>1, <1>2, <1>3, <1>6 DEF AllExplained, SaysNothingNew, ThreadsSayNothingNew
<1> QED
  BY <1>4, <1>5, <1>7 DEF Inv

(* The same for a step that leaves the threads of items alone.             *)
LEMMA ThreadsStay ==
  ASSUME UNCHANGED runner
  PROVE  LeavesEnded /\ ThreadsSayNothingNew
BY DEF LeavesEnded, ThreadsSayNothingNew, RunsFor, Waits

LEMMA CandidatesStay ==
  ASSUME UNCHANGED candidates
  PROVE  OnlyCancels
BY DEF OnlyCancels

LEMMA PlanStays ==
  ASSUME UNCHANGED plan,
         \A b \in Batches, k \in Keys :
           items'[b][k].status \in {"completed", "skipped"} =>
             items[b][k].status \in {"completed", "skipped"} \/ Explained(k)
  PROVE  SaysNothingNew
BY DEF SaysNothingNew

LEMMA PlanBatchStep ==
  ASSUME Inv, NEW r \in Requests, NEW s \in Snapshots, NEW p \in Prompts,
         PlanBatch(r, s, p)
  PROVE  Inv'
<1> DEFINE items0 == [k \in Keys |-> Planned(k, s, p)]
<1>1. Types /\ BatchesOK /\ AllExplained
  BY DEF Inv
<1>2. \A k \in Keys : items0[k] = Planned(k, s, p) /\ items0[k] \subseteq PlannedRows
  BY PlannedType
<1>3. Plans(r, s, p, items0)
  BY DEF PlanBatch
<1> HIDE DEF items0
<1>4. /\ Types' /\ BatchesOK'
      /\ UNCHANGED <<candidates, current, batches, items, references, coordinator, runner,
                    generating, crashed, torn, broken>>
      /\ \A q \in Requests : q # r => plan'[q] = plan[q]
      /\ \A k \in Keys : plan'[r].items[k] \in items0[k]
  BY <1>1, <1>2, <1>3, PlansStep
<1>5. ASSUME NEW k \in Keys, plan'[r].items[k].status = "skipped"
      PROVE  Explained(k)
  <2>1. Reusable(k, s, p) # {}
    BY <1>2, <1>4, <1>5, PlannedType
  <2>2. PICK c \in Candidates : candidates[c].key = k /\ candidates[c].status \in Finished
    BY <2>1 DEF Reusable, Finished
  <2> QED
    BY <1>1, <2>2 DEF AllExplained
<1>6. SaysNothingNew
  BY <1>4, <1>5 DEF SaysNothingNew
<1> QED
  BY <1>4, <1>6, CandidatesStay, ThreadsStay, QuietStays

LEMMA PlanRetryStep ==
  ASSUME Inv, NEW r \in Requests, NEW b \in Batches, PlanRetry(r, b)
  PROVE  Inv'
<1> DEFINE failed == {k \in Keys : items[b][k].status = "failed"}
           items0 == [k \in Keys |-> {IF k \in failed
                                      THEN [NoItem EXCEPT !.status = "queued"] ELSE NoItem}]
<1>1. Types /\ BatchesOK
  BY DEF Inv
<1>2. \A k \in Keys : /\ items0[k] \subseteq PlannedRows
                      /\ \A i \in items0[k] : i.status # "skipped"
  BY NoItemRow DEF NoItem
<1>3. PICK s \in Snapshots \cup {None}, p \in Prompts \cup {None} : Plans(r, s, p, items0)
  BY <1>1 DEF PlanRetry, Types, BatchRows
<1> HIDE DEF items0
<1>4. /\ Types' /\ BatchesOK'
      /\ UNCHANGED <<candidates, current, batches, items, references, coordinator, runner,
                    generating, crashed, torn, broken>>
      /\ \A q \in Requests : q # r => plan'[q] = plan[q]
      /\ \A k \in Keys : plan'[r].items[k] \in items0[k]
  BY <1>1, <1>2, <1>3, PlansStep
<1>5. SaysNothingNew
  BY <1>2, <1>4 DEF SaysNothingNew
<1> QED
  BY <1>4, <1>5, CandidatesStay, ThreadsStay, QuietStays

LEMMA CreateBatchStep ==
  ASSUME Inv, NEW r \in Requests, NEW b \in Batches, CreateBatch(r, b)
  PROVE  Inv'
<1>1. Types /\ BatchesOK /\ AllExplained
  BY DEF Inv
<1>2. /\ plan[r] # Gone
      /\ plan' = [plan EXCEPT ![r] = Gone]
      /\ UNCHANGED <<candidates, current, references, runner, generating, crashed, torn>>
      /\ UNCHANGED items \/ items' = [items EXCEPT ![b] = plan[r].items]
  BY DEF CreateBatch, bounds
<1>3. plan[r] \in Plans0
  BY <1>1, <1>2 DEF Types
<1>4. ASSUME NEW a \in Batches, NEW k \in Keys,
             items'[a][k].status \in {"completed", "skipped"}
      PROVE  items[a][k].status \in {"completed", "skipped"} \/ Explained(k)
  <2>1. CASE items'[a] = items[a]
    BY <1>4, <2>1
  <2>2. CASE items'[a] # items[a]
    <3>1. items'[a] = plan[r].items
      BY <1>1, <1>2, <2>2 DEF Types
    <3>2. plan[r].items[k] \in PlannedRows
      BY <1>3 DEF Plans0
    <3>3. plan[r].items[k].status = "skipped"
      BY <1>4, <3>1, <3>2 DEF PlannedRows
    <3> QED
      BY <1>1, <1>2, <3>3 DEF AllExplained
  <2> QED
    BY <2>1, <2>2
<1>5. \A q \in Requests : plan'[q] # Gone => plan'[q] = plan[q]
  BY <1>1, <1>2 DEF Types
<1>6. SaysNothingNew
  BY <1>4, <1>5 DEF SaysNothingNew
<1> QED
  BY <1>1, <1>2, <1>6, CreateBatches, CandidatesStay, ThreadsStay, QuietStays

LEMMA RunnerRow ==
  /\ Gone \in Runners /\ Gone.at = "gone"
  /\ [at |-> "prepare", candidate |-> None, to |-> "none"] \in Runners
  /\ \A r \in Runners : r.at = "gone" <=> r = Gone
  /\ \A c \in Candidates, at \in Holding :
       [at |-> at, candidate |-> c, to |-> "none"] \in Runners
BY DEF Gone, Runners, Holding

LEMMA CoordinateStep ==
  ASSUME Inv, NEW b \in Batches, Coordinate(b) \/ CancelBatch(b) \/ CoordinatorRaises(b)
  PROVE  Inv'
<1>1. Types /\ BatchesOK
  BY DEF Inv
<1>2. Types' /\ BatchesOK'
  BY <1>1, StartBatches, LookBatches, ClaimBatches, GatherBatches, CancelBatches, FailBatches,
     RaisesBatches
  DEF Coordinate
<1>3. UNCHANGED <<current, references, generating, plan, crashed, torn>>
  BY DEF Coordinate, StartBatch, Look, Claim, Gather, CancelBatch, FailBatch,
         CoordinatorRaises, bounds, threads, rows
<1>4. CASE StartBatch(b) \/ Gather(b) \/ FailBatch(b)
  <2>1. UNCHANGED <<candidates, items, runner>>
    BY <1>4 DEF StartBatch, Gather, FailBatch, rows
  <2> QED
    BY <1>2, <1>3, <2>1, PlanStays, CandidatesStay, ThreadsStay, QuietStays
<1>5. CASE Claim(b)
  <2>1. UNCHANGED candidates
    BY <1>5 DEF Claim
  <2>2. \A a \in Batches, k \in Keys :
          \/ UNCHANGED <<items[a][k].status, runner[a][k]>>
          \/ /\ items[a][k].status = "queued" /\ items'[a][k].status = "running"
             /\ runner[a][k] = Gone /\ runner'[a][k].at = "prepare"
             /\ runner'[a][k].to = "none"
    BY <1>1, <1>5, ClaimBatches
  <2>3. LeavesEnded /\ ThreadsSayNothingNew
    BY <2>2, RunnerRow DEF LeavesEnded, ThreadsSayNothingNew, RunsFor, Waits, Holding
  <2>4. SaysNothingNew
    BY <1>3, <2>2, PlanStays
  <2> QED
    BY <1>2, <1>3, <2>1, <2>3, <2>4, CandidatesStay, QuietStays
<1>6. CASE CancelBatch(b) \/ Look(b)
  <2>1. UNCHANGED <<runner, broken>>
    BY <1>6 DEF CancelBatch, Look, threads, bounds
  <2>2. \/ UNCHANGED <<candidates, items>>
        \/ IsActive(b) /\ Cancelling(b)
    BY <1>6 DEF CancelBatch, Look, IsActive
  <2>3. \A a \in Batches : a # b => coordinator'[a] = coordinator[a]
    BY <1>1, <1>6 DEF CancelBatch, Look, threads, Coordinates, Types
  <2>4. /\ OnlyCancels
        /\ \A a \in Batches, k \in Keys :
             items'[a][k].status # items[a][k].status => items'[a][k].status = "cancelled"
    BY <1>1, <2>1, <2>2, <2>3, CancellingFact DEF OnlyCancels
  <2>5. SaysNothingNew
    BY <1>3, <2>4, PlanStays
  <2> QED
    BY <1>2, <1>3, <2>1, <2>4, <2>5, ThreadsStay, QuietStays
<1>7. CASE CoordinatorRaises(b)
  <2>1. UNCHANGED <<candidates, items>>
    BY <1>7 DEF CoordinatorRaises, rows
  <2>2. \A a \in Batches, k \in Keys :
          \/ runner'[a][k] = runner[a][k]
          \/ runner'[a][k] = Gone /\ runner[a][k].at \in {"decide", "settle"}
    BY <1>1, <1>7, RaisesBatches
  <2>3. LeavesEnded /\ ThreadsSayNothingNew
    BY <2>2, RunnerRow DEF LeavesEnded, ThreadsSayNothingNew, RunsFor, Waits, Holding
  <2> QED
    BY <1>2, <1>3, <2>1, <2>3, PlanStays, CandidatesStay, QuietStays
<1> QED
  BY <1>4, <1>5, <1>6, <1>7 DEF Coordinate

-----------------------------------------------------------------------------
(* Candidates that are new *)

LEMMA NewCandidateFact ==
  ASSUME Inv, NEW c \in Candidates, NEW k \in Keys, NEW s \in Snapshots \cup {None},
         NEW p \in Prompts \cup {None}, NEW b \in Batches \cup {None},
         NewCandidate(c, k, s, p, b)
  PROVE  /\ candidates' \in [Candidates -> CandidateRows]
         /\ candidates'[c].status = "pending" /\ candidates'[c].key = k
         /\ candidates'[c].batch = b
         /\ \A d \in Candidates : d # c => candidates'[d] = candidates[d]
         /\ candidates[c].status = "none" /\ generating[c] = "none" /\ references[c] = "none"
         /\ \A a \in Batches, j \in Keys : ~ RunsFor(a, j, c)
<1> DEFINE row == [status |-> "pending", key |-> k, snapshot |-> s, prompt |-> p, batch |-> b]
<1>1. Types /\ RunnersOK /\ CandidateOK(c)
  BY DEF Inv
<1>2. candidates' = [candidates EXCEPT ![c] = row] /\ candidates[c].status = "none"
  BY DEF NewCandidate, NoCandidate
<1>3. row \in CandidateRows
  BY DEF CandidateRows, CandidateStatuses, InFlight
<1>4. /\ candidates' \in [Candidates -> CandidateRows] /\ candidates'[c] = row
      /\ \A d \in Candidates : d # c => candidates'[d] = candidates[d]
  BY <1>1, <1>2, <1>3 DEF Types
<1>5. generating[c] = "none" /\ references[c] = "none"
  BY <1>1, <1>2 DEF CandidateOK
<1>6. \A a \in Batches, j \in Keys : ~ RunsFor(a, j, c)
  BY <1>1, <1>2 DEF RunnersOK
<1> QED
  BY <1>2, <1>4, <1>5, <1>6

(* Nothing that is explained is forgotten when a candidate is new.         *)
LEMMA NewExplains ==
  ASSUME Inv, AllExplained, NEW c \in Candidates, candidates[c].status = "none",
         ThreadsSayNothingNew,
         candidates'[c].status \notin Finished, generating[c] = "none",
         UNCHANGED <<current, torn, items>>,
         \A r \in Requests : plan'[r] = plan[r],
         \A d \in Candidates : d # c => candidates'[d] = candidates[d]
                                        /\ generating'[d] = generating[d]
  PROVE  AllExplained'
<1>1. ASSUME NEW k \in Keys, Explained(k)
      PROVE  Explained(k)'
  BY <1>1 DEF Explained
<1>2. \A d \in Candidates, k \in Keys :
        candidates'[d].status \in Finished /\ candidates'[d].key = k => Explained(k)
  BY DEF AllExplained
<1>3. \A d \in Batches, k \in Keys :
        items'[d][k].status \in {"completed", "skipped"} => Explained(k)
  BY DEF AllExplained
<1>4. \A r \in Requests, k \in Keys :
        plan'[r] # Gone /\ plan'[r].items[k].status = "skipped" => Explained(k)
  BY DEF AllExplained
<1>5. \A b \in Batches, k \in Keys :
        runner'[b][k] # Gone /\ runner'[b][k].to = "completed" => Explained(k)
  BY DEF AllExplained, ThreadsSayNothingNew
<1> QED
  BY <1>1, <1>2, <1>3, <1>4, <1>5 DEF AllExplained

LEMMA PrepareStep ==
  ASSUME Inv, NEW b \in Batches, NEW k \in Keys, NEW c \in Candidates, Prepare(b, k, c)
  PROVE  Inv'
<1>1. /\ runner[b][k].at = "prepare"
      /\ UNCHANGED <<current, batches, items, references, coordinator, generating, plan,
                     crashed, torn, broken>>
      /\ runner' = [runner EXCEPT ![b][k] = [at |-> "register", candidate |-> c, to |-> "none"]]
  BY DEF Prepare, RunnerGoes, bounds
<1>2. Types /\ BatchesOK /\ RunnersOK /\ AllExplained /\ \A d \in Candidates : CandidateOK(d)
  BY DEF Inv
<1>3. /\ candidates' \in [Candidates -> CandidateRows]
      /\ candidates'[c].status = "pending" /\ candidates'[c].key = k
      /\ candidates'[c].batch = b
      /\ \A d \in Candidates : d # c => candidates'[d] = candidates[d]
      /\ candidates[c].status = "none" /\ generating[c] = "none" /\ references[c] = "none"
      /\ \A a \in Batches, j \in Keys : ~ RunsFor(a, j, c)
  BY <1>2, NewCandidateFact DEF Prepare, Types, BatchRows
<1>4. /\ runner' \in [Batches -> [Keys -> Runners]]
      /\ runner'[b][k] = [at |-> "register", candidate |-> c, to |-> "none"]
      /\ \A a \in Batches, j \in Keys : a # b \/ j # k => runner'[a][j] = runner[a][j]
  <2>1. PICK r \in Runners : r = [at |-> "register", candidate |-> c, to |-> "none"]
    BY RunnerRow DEF Holding
  <2>2. runner' = [runner EXCEPT ![b][k] = r]
    BY <1>1, <2>1
  <2>3. /\ runner' \in [Batches -> [Keys -> Runners]] /\ runner'[b][k] = r
        /\ \A j \in Keys : j # k => runner'[b][j] = runner[b][j]
        /\ \A a \in Batches : a # b => runner'[a] = runner[a]
    BY <1>2, <2>2, RunnerSet
  <2> QED
    BY <2>1, <2>3
<1>5. Types'
  BY <1>1, <1>2, <1>3, <1>4 DEF Types
<1>6. BatchesOK'
  <2>1. runner[b][k] # Gone /\ WorksFor(runner[b][k], items[b][k])
    BY <1>1, <1>2, RunnerRow DEF BatchesOK, BatchOK
  <2>2. WorksFor(runner'[b][k], items'[b][k])
    BY <1>1, <1>4, <2>1 DEF WorksFor
  <2>3. \A a \in Batches, j \in Keys :
          /\ runner'[a][j] # Gone => runner[a][j] # Gone
          /\ WorksFor(runner'[a][j], items'[a][j])
    BY <1>1, <1>2, <1>4, <2>1, <2>2 DEF BatchesOK, BatchOK
  <2> QED
    BY <1>1, <1>2, <2>3, RunnersMove
<1>7. RunnersOK'
  <2>1. ASSUME NEW a \in Batches, NEW j \in Keys, NEW d \in Candidates, RunsFor(a, j, d)'
        PROVE  \/ a = b /\ j = k /\ d = c
               \/ d # c /\ RunsFor(a, j, d) /\ (Waits(a, j, d)' => Waits(a, j, d))
    BY <1>3, <1>4, <2>1 DEF RunsFor, Waits, Holding
  <2>2. ASSUME NEW a \in Batches, NEW j \in Keys, NEW d \in Candidates, RunsFor(a, j, d)'
        PROVE  /\ candidates'[d].status # "none"
               /\ candidates'[d].key = j /\ candidates'[d].batch = a
               /\ Waits(a, j, d)' => generating'[d] = "none"
    BY <1>1, <1>2, <1>3, <2>1, <2>2 DEF RunnersOK
  <2>3. ASSUME NEW d \in Candidates, NEW a \in Batches,
               candidates'[d].batch = a, candidates'[d].status \in InFlight, ~ crashed
        PROVE  \E j \in Keys : RunsFor(a, j, d)'
    <3>1. CASE d = c
      BY <1>3, <1>4, <2>3, <3>1, RunnerRow DEF RunsFor, Holding
    <3>2. CASE d # c
      <4>1. PICK j \in Keys : RunsFor(a, j, d)
        BY <1>2, <1>3, <2>3, <3>2 DEF RunnersOK
      <4>2. a # b \/ j # k
        BY <1>1, <4>1 DEF RunsFor, Holding
      <4> QED
        BY <1>4, <4>1, <4>2 DEF RunsFor
    <3> QED
      BY <3>1, <3>2
  <2>4. \A a \in Batches, j \in Keys, d \in Candidates : Waits(a, j, d)' => RunsFor(a, j, d)'
    BY DEF Waits
  <2> QED
    BY <1>1, <2>2, <2>3, <2>4 DEF RunnersOK
<1>8. ASSUME NEW d \in Candidates
      PROVE  CandidateOK(d)'
  <2>1. CASE d # c
    BY <1>1, <1>2, <1>3, <2>1 DEF CandidateOK
  <2>2. CASE d = c
    BY <1>1, <1>3, <2>2, NoneApart DEF CandidateOK
  <2> QED
    BY <2>1, <2>2
<1>9. AllExplained'
  <2>1. ThreadsSayNothingNew
    BY <1>4 DEF ThreadsSayNothingNew
  <2> QED
    BY <1>1, <1>2, <1>3, <2>1, NewExplains DEF Finished
<1> QED
  BY <1>5, <1>6, <1>7, <1>8, <1>9 DEF Inv

LEMMA PrepareOneStep ==
  ASSUME Inv, NEW c \in Candidates, NEW k \in Keys, NEW s \in Snapshots, NEW p \in Prompts,
         NEW named, PrepareOne(c, k, s, p, named)
  PROVE  Inv'
<1>1. /\ generating' = [generating EXCEPT ![c] = "refer"]
      /\ UNCHANGED <<current, batches, items, references, coordinator, runner, plan,
                     crashed, torn, broken>>
  BY DEF PrepareOne, Moves
<1>2. Types /\ BatchesOK /\ RunnersOK /\ AllExplained /\ \A d \in Candidates : CandidateOK(d)
  BY DEF Inv
<1>3. /\ candidates' \in [Candidates -> CandidateRows]
      /\ candidates'[c].status = "pending" /\ candidates'[c].key = k
      /\ candidates'[c].batch = None
      /\ \A d \in Candidates : d # c => candidates'[d] = candidates[d]
      /\ candidates[c].status = "none" /\ generating[c] = "none" /\ references[c] = "none"
      /\ \A a \in Batches, j \in Keys : ~ RunsFor(a, j, c)
  BY NewCandidateFact DEF PrepareOne
<1>4. /\ generating' \in [Candidates -> Phases] /\ generating'[c] = "refer"
      /\ \A d \in Candidates : d # c => generating'[d] = generating[d]
  BY <1>1, <1>2 DEF Types, Phases
<1>5. Types'
  BY <1>1, <1>2, <1>3, <1>4 DEF Types
<1>6. BatchesOK'
  BY <1>1, <1>2, BatchesStay
<1>7. RunnersOK'
  <2>1. \A a \in Batches, j \in Keys, d \in Candidates :
          (RunsFor(a, j, d)' <=> RunsFor(a, j, d)) /\ (Waits(a, j, d)' <=> Waits(a, j, d))
    BY <1>1 DEF RunsFor, Waits
  <2>2. \A a \in Batches, j \in Keys, d \in Candidates :
          Waits(a, j, d) => d # c
    BY <1>3 DEF Waits
  <2>3. \A a \in Batches, j \in Keys, d \in Candidates :
          RunsFor(a, j, d) => d # c
    BY <1>3
  <2>4. \A d \in Candidates, a \in Batches :
          candidates'[d].batch = a /\ candidates'[d].status \in InFlight => d # c
    BY <1>3, NoneApart
  <2> QED
    BY <1>1, <1>2, <1>3, <1>4, <2>1, <2>2, <2>3, <2>4 DEF RunnersOK
<1>8. ASSUME NEW d \in Candidates
      PROVE  CandidateOK(d)'
  <2>1. CASE d # c
    BY <1>1, <1>2, <1>3, <1>4, <2>1 DEF CandidateOK
  <2>2. CASE d = c
    BY <1>1, <1>3, <1>4, <2>2 DEF CandidateOK, Finished
  <2> QED
    BY <2>1, <2>2
<1>9. AllExplained'
  BY <1>1, <1>2, <1>3, <1>4, ThreadsStay, NewExplains DEF Finished
<1> QED
  BY <1>5, <1>6, <1>7, <1>8, <1>9 DEF Inv

-----------------------------------------------------------------------------
(* The thread of an item *)

LEMMA RunnerIs ==
  ASSUME Types, NEW b \in Batches, NEW k \in Keys
  PROVE  LET r == runner[b][k]
         IN  /\ r \in Runners
             /\ r.at \in Holding => /\ r.candidate \in Candidates /\ r.to = "none"
                                    /\ RunsFor(b, k, r.candidate)
                                    /\ \A c \in Candidates : RunsFor(b, k, c) => c = r.candidate
             /\ r.at \notin Holding => \A c \in Candidates : ~ RunsFor(b, k, c)
             /\ r.at \in {"decide", "settle", "keep"} =>
                  /\ r.to \in {"failed", "queued", "cancelled", "completed"}
                  /\ r.to # "completed" => r.candidate \in Candidates \cup {None}
                  /\ r.to = "completed" => r.candidate \in Candidates
             /\ r.at = "keep" => r.to = "completed"
<1>1. runner[b][k] \in Runners
  BY DEF Types
<1> QED
  BY <1>1 DEF Runners, RunsFor, Gone, Holding

(* A thread goes on, and neither begins nor ends what is generated.        *)
LEMMA RunnerMoves ==
  ASSUME Inv, NEW b \in Batches, NEW k \in Keys, NEW r \in Runners, runner[b][k] # Gone,
         runner' = [runner EXCEPT ![b][k] = r],
         UNCHANGED <<current, batches, coordinator, generating, plan, crashed, torn, broken>>,
         items' \in [Batches -> [Keys -> ItemRows]],
         \A a \in Batches, j \in Keys : /\ items'[a][j].status = items[a][j].status
                                        /\ a # b \/ j # k => items'[a][j] = items[a][j],
         candidates' \in [Candidates -> CandidateRows], OnlyCancels,
         references' \in [Candidates -> References],
         \A c \in Candidates : references'[c] = references[c] \/ candidates[c].batch # None,
         WorksFor(r, items[b][k]),
         \A c \in Candidates : RunsFor(b, k, c) =>
           \/ r.at \in Holding /\ r.candidate = c
           \/ candidates'[c].status \notin InFlight,
         r.at \in Holding => runner[b][k].at \in Holding /\ runner[b][k].candidate = r.candidate,
         r.at \in Holding \ {"generate"} => runner[b][k].at # "generate",
         r # Gone /\ r.to = "completed" => runner[b][k].to = "completed" \/ Explained(k)
  PROVE  Inv'
<1>1. Types /\ BatchesOK
  BY DEF Inv
<1>2. /\ runner' \in [Batches -> [Keys -> Runners]] /\ runner'[b][k] = r
      /\ \A a \in Batches, j \in Keys : a # b \/ j # k => runner'[a][j] = runner[a][j]
  BY <1>1, RunnerSet
<1>3. Types'
  BY <1>1, <1>2 DEF Types
<1>4. BatchesOK'
  <2>1. ASSUME NEW a \in Batches, NEW j \in Keys
        PROVE  /\ runner'[a][j] # Gone => runner[a][j] # Gone
               /\ WorksFor(runner'[a][j], items'[a][j])
               /\ items[a][j].status = "none" => items'[a][j] = items[a][j]
    <3>1. CASE a = b /\ j = k
      <4>1. WorksFor(runner[b][k], items[b][k]) /\ WorksFor(r, items'[b][k])
        BY <1>1 DEF BatchesOK, BatchOK, WorksFor
      <4> QED
        BY <1>2, <3>1, <4>1 DEF WorksFor
    <3>2. CASE a # b \/ j # k
      BY <1>1, <1>2, <3>2 DEF BatchesOK, BatchOK
    <3> QED
      BY <3>1, <3>2
  <2> QED
    BY <1>1, <2>1, RunnersMove
<1>5. LeavesEnded
  <2>1. ASSUME NEW a \in Batches, NEW j \in Keys, NEW c \in Candidates
        PROVE  /\ RunsFor(a, j, c)' => RunsFor(a, j, c)
               /\ Waits(a, j, c)' => Waits(a, j, c)
               /\ RunsFor(a, j, c) => RunsFor(a, j, c)' \/ candidates'[c].status \notin InFlight
    <3>1. CASE a = b /\ j = k
      BY <1>2, <3>1 DEF RunsFor, Waits, Holding
    <3>2. CASE a # b \/ j # k
      BY <1>2, <3>2 DEF RunsFor, Waits
    <3> QED
      BY <3>1, <3>2
  <2> QED
    BY <2>1 DEF LeavesEnded
<1>6. SaysNothingNew
  BY PlanStays
<1>7. ThreadsSayNothingNew
  BY <1>2 DEF ThreadsSayNothingNew
<1> QED
  BY <1>3, <1>4, <1>5, <1>6, <1>7, QuietStays

(* The same when no row changes.                                           *)
LEMMA RunnerMovesAlone ==
  ASSUME Inv, NEW b \in Batches, NEW k \in Keys, NEW r \in Runners, runner[b][k] # Gone,
         runner' = [runner EXCEPT ![b][k] = r],
         UNCHANGED <<rows, coordinator, generating, plan, crashed, torn, broken>>,
         WorksFor(r, items[b][k]),
         \A c \in Candidates : RunsFor(b, k, c) =>
           \/ r.at \in Holding /\ r.candidate = c
           \/ candidates[c].status \notin InFlight,
         r.at \in Holding => runner[b][k].at \in Holding /\ runner[b][k].candidate = r.candidate,
         r.at \in Holding \ {"generate"} => runner[b][k].at # "generate",
         r # Gone /\ r.to = "completed" => runner[b][k].to = "completed" \/ Explained(k)
  PROVE  Inv'
<1>1. UNCHANGED <<candidates, current, batches, items, references>>
  BY DEF rows
<1>2. Types
  BY DEF Inv
<1>3. /\ candidates' \in [Candidates -> CandidateRows]
      /\ items' \in [Batches -> [Keys -> ItemRows]]
      /\ references' \in [Candidates -> References]
  BY <1>1, <1>2 DEF Types
<1> QED
  BY <1>1, <1>3, CandidatesStay, RunnerMoves

LEMMA AtWork ==
  ASSUME Inv, NEW b \in Batches, NEW k \in Keys, runner[b][k].at # "gone"
  PROVE  /\ runner[b][k] # Gone /\ WorksFor(runner[b][k], items[b][k])
         /\ runner[b][k].at \in Holding \cup {"prepare"} => items[b][k].status = "running"
         /\ runner[b][k].at = "keep" => items[b][k].status = "completed"
BY RunnerRow DEF Inv, BatchesOK, BatchOK, WorksFor, Holding

LEMMA FailedRow ==
  ASSUME NEW b \in Batches, NEW k \in Keys, NEW to \in FailedOrRetry(b, k),
         NEW c \in Candidates \cup {None}
  PROVE  /\ to \in {"failed", "queued"}
         /\ [at |-> "decide", candidate |-> c, to |-> to] \in Runners
BY DEF FailedOrRetry, Runners

LEMMA PrepareFailsStep ==
  ASSUME Inv, NEW b \in Batches, NEW k \in Keys, PrepareFails(b, k)
  PROVE  Inv'
<1>1. PICK to \in FailedOrRetry(b, k) : RunnerGoes(b, k, "decide", None, to)
  BY DEF PrepareFails
<1> DEFINE r == [at |-> "decide", candidate |-> None, to |-> to]
<1>2. r \in Runners /\ to \in {"failed", "queued"}
  BY FailedRow
<1>3. /\ runner[b][k].at = "prepare"
      /\ UNCHANGED <<rows, coordinator, generating, plan, crashed, torn, broken>>
      /\ runner' = [runner EXCEPT ![b][k] = r]
  BY <1>1 DEF PrepareFails, RunnerGoes, bounds
<1>4. runner[b][k] # Gone /\ WorksFor(r, items[b][k])
  BY <1>3, AtWork DEF WorksFor
<1>5. \A c \in Candidates : ~ RunsFor(b, k, c)
  BY <1>3 DEF RunsFor, Holding
<1>6. r.at \notin Holding /\ r.to # "completed"
  BY <1>2 DEF Holding
<1> QED
  BY <1>2, <1>3, <1>4, <1>5, <1>6, RunnerMovesAlone

LEMMA RegisterStep ==
  ASSUME Inv, NEW b \in Batches, NEW k \in Keys, Register(b, k)
  PROVE  Inv'
<1> DEFINE c == runner[b][k].candidate
           r == [at |-> "check", candidate |-> c, to |-> "none"]
<1>1. /\ runner[b][k].at = "register"
      /\ UNCHANGED <<candidates, current, batches, references, coordinator, generating, plan,
                     crashed, torn, broken>>
      /\ items' = [items EXCEPT ![b][k].candidate = c]
      /\ runner' = [runner EXCEPT ![b][k] = r]
  BY DEF Register, RunnerGoes, bounds
<1>2. Types
  BY DEF Inv
<1>3. /\ c \in Candidates /\ \A d \in Candidates : RunsFor(b, k, d) => d = c
      /\ r \in Runners /\ r.at \in Holding /\ runner[b][k].at \in Holding
  BY <1>1, <1>2, RunnerIs, RunnerRow DEF Holding
<1>4. runner[b][k] # Gone /\ WorksFor(r, items[b][k])
  BY <1>1, AtWork DEF WorksFor, Holding
<1>5. /\ items' \in [Batches -> [Keys -> ItemRows]]
      /\ \A a \in Batches, j \in Keys : /\ items'[a][j].status = items[a][j].status
                                        /\ a # b \/ j # k => items'[a][j] = items[a][j]
  <2>1. items \in [Batches -> [Keys -> ItemRows]] /\ items[b][k] \in ItemRows
    BY <1>2 DEF Types
  <2>2. [items[b][k] EXCEPT !.candidate = c] \in ItemRows
    BY <1>3, <2>1 DEF ItemRows
  <2>3. [items[b] EXCEPT ![k] = [items[b][k] EXCEPT !.candidate = c]] \in [Keys -> ItemRows]
    BY <2>1, <2>2
  <2>4. items' = [items EXCEPT ![b] = [items[b] EXCEPT ![k] =
                                         [items[b][k] EXCEPT !.candidate = c]]]
    BY <1>1
  <2>5. items'[b][k] = [items[b][k] EXCEPT !.candidate = c]
    BY <2>1, <2>4
  <2>6. items'[b][k].status = items[b][k].status
    BY <2>1, <2>5 DEF ItemRows
  <2> QED
    BY <2>1, <2>3, <2>4, <2>6
<1>6. /\ candidates' \in [Candidates -> CandidateRows] /\ OnlyCancels
      /\ references' \in [Candidates -> References] /\ references' = references
  BY <1>1, <1>2, CandidatesStay DEF Types
<1>7. r.to # "completed" /\ r.candidate = c /\ runner[b][k].at # "generate"
  BY <1>1
<1>8. /\ UNCHANGED <<current, batches, coordinator, generating, plan, crashed, torn, broken>>
      /\ runner' = [runner EXCEPT ![b][k] = r]
  BY <1>1
<1>9. r.at \in Holding => runner[b][k].at \in Holding /\ runner[b][k].candidate = r.candidate
  BY <1>3, <1>7
<1>10. \A d \in Candidates : RunsFor(b, k, d) => r.at \in Holding /\ r.candidate = d
  BY <1>3, <1>7
<1> HIDE DEF r, c
<1> QED
  BY <1>3, <1>4, <1>5, <1>6, <1>7, <1>8, <1>9, <1>10, RunnerMoves

LEMMA CheckCancelStep ==
  ASSUME Inv, NEW b \in Batches, NEW k \in Keys, CheckCancel(b, k)
  PROVE  Inv'
<1> DEFINE c == runner[b][k].candidate
           at == IF batches[b].cancel THEN "stop" ELSE "enter"
           r == [at |-> at, candidate |-> c, to |-> "none"]
<1>1. /\ runner[b][k].at = "check"
      /\ UNCHANGED <<rows, coordinator, generating, plan, crashed, torn, broken>>
      /\ runner' = [runner EXCEPT ![b][k] = r]
  BY DEF CheckCancel, RunnerGoes, bounds
<1>2. /\ c \in Candidates /\ \A d \in Candidates : RunsFor(b, k, d) => d = c
      /\ runner[b][k].at \in Holding
  BY <1>1, RunnerIs DEF Inv, Holding
<1>3. at \in Holding /\ at # "keep"
  BY DEF Holding
<1> HIDE DEF at
<1>4. r \in Runners /\ r.at \in Holding /\ r.candidate = c /\ r.to # "completed"
  BY <1>2, <1>3, RunnerRow
<1>5. runner[b][k] # Gone /\ WorksFor(r, items[b][k])
  BY <1>1, <1>3, AtWork DEF WorksFor, Holding
<1> HIDE DEF r, c
<1> QED
  BY <1>1, <1>2, <1>4, <1>5, RunnerMovesAlone DEF c

LEMMA StoppedFact ==
  ASSUME Types, NEW c \in Candidates, candidates' = Stopped(c)
  PROVE  /\ OnlyCancels /\ candidates' \in [Candidates -> CandidateRows]
         /\ candidates'[c].status \notin InFlight
<1>1. candidates \in [Candidates -> CandidateRows] /\ candidates[c] \in CandidateRows
  BY DEF Types
<1>2. CASE candidates[c].status \in InFlight
  <2>1. candidates' = [candidates EXCEPT ![c] = [candidates[c] EXCEPT !.status = "cancelled"]]
    BY <1>2 DEF Stopped
  <2>2. /\ [candidates[c] EXCEPT !.status = "cancelled"] \in CandidateRows
        /\ [candidates[c] EXCEPT !.status = "cancelled"].status = "cancelled"
    BY <1>1 DEF CandidateRows, CandidateStatuses
  <2> QED
    BY <1>1, <1>2, <2>1, <2>2, StatusesApart DEF OnlyCancels
<1>3. CASE candidates[c].status \notin InFlight
  BY <1>1, <1>3 DEF Stopped, OnlyCancels
<1> QED
  BY <1>2, <1>3

LEMMA StopCandidateStep ==
  ASSUME Inv, NEW b \in Batches, NEW k \in Keys, StopCandidate(b, k)
  PROVE  Inv'
<1> DEFINE c == runner[b][k].candidate
<1>1. /\ runner[b][k].at = "stop" /\ candidates' = Stopped(c)
      /\ UNCHANGED <<current, batches, items, references, coordinator, generating, plan,
                     crashed, torn, broken>>
  BY DEF StopCandidate, bounds
<1>2. Types
  BY DEF Inv
<1>3. /\ c \in Candidates /\ \A d \in Candidates : RunsFor(b, k, d) => d = c
      /\ runner[b][k].at \in Holding
  BY <1>1, <1>2, RunnerIs DEF Holding
<1>4. /\ OnlyCancels /\ candidates' \in [Candidates -> CandidateRows]
      /\ candidates'[c].status \notin InFlight
  BY <1>1, <1>2, <1>3, StoppedFact
<1>5. PICK r \in Runners :
        /\ runner' = [runner EXCEPT ![b][k] = r] /\ r.at \in {"enter", "decide"}
        /\ r.candidate = c /\ r.to # "completed"
  <2>1. CASE candidates[c].status \in InFlight
    <3>1. [at |-> "enter", candidate |-> c, to |-> "none"] \in Runners
      BY <1>3, RunnerRow DEF Holding
    <3> QED
      BY <2>1, <3>1 DEF StopCandidate, RunnerGoes
  <2>2. CASE candidates[c].status \notin InFlight
    <3>1. PICK to \in FailedOrRetry(b, k) : RunnerGoes(b, k, "decide", c, to)
      BY <2>2 DEF StopCandidate
    <3>2. to # "completed" /\ [at |-> "decide", candidate |-> c, to |-> to] \in Runners
      BY <1>3, FailedRow
    <3> QED
      BY <3>1, <3>2 DEF RunnerGoes
  <2> QED
    BY <2>1, <2>2
<1>6. runner[b][k] # Gone /\ WorksFor(r, items[b][k])
  BY <1>1, <1>5, AtWork DEF WorksFor, Holding
<1>7. /\ items' \in [Batches -> [Keys -> ItemRows]] /\ items' = items
      /\ references' \in [Candidates -> References] /\ references' = references
  BY <1>1, <1>2 DEF Types
<1>8. runner[b][k].at # "generate"
  BY <1>1
<1>9. \A d \in Candidates : RunsFor(b, k, d) => candidates'[d].status \notin InFlight
  BY <1>3, <1>4
<1> HIDE DEF c
<1> QED
  BY <1>1, <1>3, <1>4, <1>5, <1>6, <1>7, <1>8, <1>9, RunnerMoves DEF c

(* The second look at the flag.  That the batch is cancelled although the  *)
(* first look has not seen it means that the candidate, which was          *)
(* registered before, was cancelled with it (ThreadsOK).                     *)
LEMMA EnterStep ==
  ASSUME Inv, ThreadsOK, NEW b \in Batches, NEW k \in Keys, Enter(b, k)
  PROVE  Inv'
<1> DEFINE c == runner[b][k].candidate
           r == [at |-> "generate", candidate |-> c, to |-> "none"]
           at == IF batches[b].cancel THEN "over" ELSE "start"
<1>1. /\ runner[b][k].at = "enter"
      /\ UNCHANGED <<candidates, current, batches, items, references, coordinator, plan,
                     crashed, torn, broken>>
      /\ generating' = [generating EXCEPT ![c] = at]
      /\ runner' = [runner EXCEPT ![b][k] = r]
  BY DEF Enter, RunnerGoes, rows, bounds
<1>2. Types /\ BatchesOK /\ RunnersOK /\ AllExplained /\ \A d \in Candidates : CandidateOK(d)
  BY DEF Inv
<1>3. /\ c \in Candidates /\ RunsFor(b, k, c)
      /\ \A d \in Candidates : RunsFor(b, k, d) => d = c
  BY <1>1, <1>2, RunnerIs DEF Holding
<1>4. /\ runner' \in [Batches -> [Keys -> Runners]] /\ runner'[b][k] = r
      /\ \A a \in Batches, j \in Keys : a # b \/ j # k => runner'[a][j] = runner[a][j]
  <2>1. r \in Runners
    BY <1>3, RunnerRow DEF Holding
  <2> HIDE DEF r
  <2>2. /\ runner' \in [Batches -> [Keys -> Runners]] /\ runner'[b][k] = r
        /\ \A j \in Keys : j # k => runner'[b][j] = runner[b][j]
        /\ \A a \in Batches : a # b => runner'[a] = runner[a]
    BY <1>1, <1>2, <2>1, RunnerSet
  <2> QED
    BY <2>2
<1>5. at \in {"start", "over"} /\ (at = "over" => candidates[c].status \notin InFlight)
  BY <1>1 DEF ThreadsOK, ThreadOK
<1> HIDE DEF at
<1>6. /\ generating' \in [Candidates -> Phases] /\ generating'[c] = at
      /\ \A d \in Candidates : d # c => generating'[d] = generating[d]
  BY <1>1, <1>2, <1>3, <1>5 DEF Types, Phases
<1>7. Types'
  BY <1>1, <1>2, <1>4, <1>6 DEF Types
<1>8. BatchesOK'
  <2>1. runner[b][k] # Gone /\ WorksFor(r, items[b][k])
    BY <1>1, AtWork DEF WorksFor, Holding
  <2>2. \A a \in Batches, j \in Keys : /\ runner'[a][j] # Gone => runner[a][j] # Gone
                                       /\ WorksFor(runner'[a][j], items'[a][j])
    BY <1>1, <1>2, <1>4, <2>1 DEF BatchesOK, BatchOK
  <2> QED
    BY <1>1, <1>2, <2>2, RunnersMove
<1>9. /\ generating[c] = "none" /\ candidates[c].status # "none"
      /\ candidates[c].key = k /\ candidates[c].batch = b
  BY <1>1, <1>2, <1>3 DEF RunnersOK, Waits
<1>10. ASSUME NEW a \in Batches, NEW j \in Keys, NEW d \in Candidates
       PROVE  /\ RunsFor(a, j, d)' <=> RunsFor(a, j, d)
              /\ Waits(a, j, d)' => Waits(a, j, d) /\ (a # b \/ j # k)
  <2>1. CASE a = b /\ j = k
    BY <1>1, <1>4, <2>1 DEF RunsFor, Waits, Holding
  <2>2. CASE a # b \/ j # k
    BY <1>4, <2>2 DEF RunsFor, Waits
  <2> QED
    BY <2>1, <2>2
<1>11. RunnersOK'
  <2>1. ASSUME NEW a \in Batches, NEW j \in Keys, NEW d \in Candidates, Waits(a, j, d)'
        PROVE  generating'[d] = "none"
    <3>1. Waits(a, j, d) /\ (a # b \/ j # k) /\ RunsFor(a, j, d)
      BY <1>10, <2>1 DEF Waits
    <3>2. d # c
      BY <1>2, <1>9, <3>1 DEF RunnersOK
    <3> QED
      BY <1>2, <1>6, <3>1, <3>2 DEF RunnersOK
  <2> QED
    BY <1>1, <1>2, <1>10, <2>1 DEF RunnersOK
<1>12. ASSUME NEW d \in Candidates
       PROVE  CandidateOK(d)'
  <2>1. CASE d # c
    BY <1>1, <1>2, <1>6, <2>1 DEF CandidateOK
  <2>2. CASE d = c
    BY <1>1, <1>5, <1>6, <1>9, <2>2, NoneApart DEF CandidateOK
  <2> QED
    BY <2>1, <2>2
<1>13. ASSUME NEW j \in Keys, Explained(j)
       PROVE  Explained(j)'
  BY <1>1, <1>6, <1>9, <1>13 DEF Explained
<1>14. ThreadsSayNothingNew
  BY <1>4 DEF ThreadsSayNothingNew
<1>15. AllExplained'
  BY <1>1, <1>2, <1>13, <1>14 DEF AllExplained, ThreadsSayNothingNew
<1> QED
  BY <1>7, <1>8, <1>11, <1>12, <1>15 DEF Inv

LEMMA ReadResultStep ==
  ASSUME Inv, NEW b \in Batches, NEW k \in Keys, ReadResult(b, k)
  PROVE  Inv'
<1> DEFINE c == runner[b][k].candidate
<1>1. /\ runner[b][k].at = "generate" /\ generating[c] = "over"
      /\ UNCHANGED <<rows, coordinator, generating, plan, crashed, torn, broken>>
  BY DEF ReadResult, bounds
<1>2. Types /\ RunnersOK /\ AllExplained /\ \A d \in Candidates : CandidateOK(d)
  BY DEF Inv
<1>3. /\ c \in Candidates /\ RunsFor(b, k, c)
      /\ \A d \in Candidates : RunsFor(b, k, d) => d = c
  BY <1>1, <1>2, RunnerIs DEF Holding
<1>4. candidates[c].status \notin InFlight /\ candidates[c].key = k
  BY <1>1, <1>2, <1>3 DEF CandidateOK, RunnersOK
<1>5. PICK r \in Runners :
        /\ runner' = [runner EXCEPT ![b][k] = r] /\ r.at = "decide"
        /\ r.to = "completed" => candidates[c].status \in Finished
  <2>1. CASE candidates[c].status \in Finished
    <3>1. [at |-> "decide", candidate |-> c, to |-> "completed"] \in Runners
      BY <1>3 DEF Runners
    <3> QED
      BY <2>1, <3>1 DEF ReadResult, RunnerGoes
  <2>2. CASE candidates[c].status \notin Finished
    <3>1. PICK to \in FailedOrRetry(b, k) : RunnerGoes(b, k, "decide", c, to)
      BY <2>2 DEF ReadResult
    <3>2. to # "completed" /\ [at |-> "decide", candidate |-> c, to |-> to] \in Runners
      BY <1>3, FailedRow
    <3> QED
      BY <3>1, <3>2 DEF RunnerGoes
  <2> QED
    BY <2>1, <2>2
<1>6. r.to = "completed" => Explained(k)
  BY <1>2, <1>3, <1>4, <1>5 DEF AllExplained
<1>7. runner[b][k] # Gone /\ WorksFor(r, items[b][k])
  BY <1>1, <1>5, AtWork DEF WorksFor, Holding
<1>8. r.at \notin Holding
  BY <1>5 DEF Holding
<1> HIDE DEF c
<1> QED
  BY <1>1, <1>3, <1>4, <1>5, <1>6, <1>7, <1>8, RunnerMovesAlone

LEMMA DecideStep ==
  ASSUME Inv, NEW b \in Batches, NEW k \in Keys, Decide(b, k)
  PROVE  Inv'
<1> DEFINE old == runner[b][k]
           to == IF batches[b].cancel THEN "cancelled" ELSE old.to
           r == [at |-> "settle", candidate |-> old.candidate, to |-> to]
<1>1. /\ old.at = "decide"
      /\ UNCHANGED <<rows, coordinator, generating, plan, crashed, torn, broken>>
      /\ runner' = [runner EXCEPT ![b][k] = r]
  BY DEF Decide, RunnerGoes, bounds
<1>2. /\ old.to \in {"failed", "queued", "cancelled", "completed"}
      /\ old.candidate \in Candidates \cup {None}
      /\ old.to = "completed" => old.candidate \in Candidates
      /\ \A c \in Candidates : ~ RunsFor(b, k, c)
  BY <1>1, RunnerIs DEF Inv, Holding
<1>3. r \in Runners
  BY <1>2 DEF Runners
<1>4. runner[b][k] # Gone /\ WorksFor(r, items[b][k])
  BY <1>1, AtWork DEF WorksFor
<1>5. r.at \notin Holding /\ (r.to = "completed" => old.to = "completed")
  BY DEF Holding
<1> HIDE DEF r
<1> QED
  BY <1>1, <1>2, <1>3, <1>4, <1>5, RunnerMovesAlone

LEMMA SettleStep ==
  ASSUME Inv, NEW b \in Batches, NEW k \in Keys, Settle(b, k)
  PROVE  Inv'
<1>1. Types /\ BatchesOK /\ AllExplained
  BY DEF Inv
<1>2. /\ BatchesOK' /\ batches' \in [Batches -> BatchRows]
      /\ items' \in [Batches -> [Keys -> ItemRows]]
      /\ runner' \in [Batches -> [Keys -> Runners]]
      /\ items'[b][k].status = runner[b][k].to
      /\ runner'[b][k].at \in {"gone", "keep"}
      /\ runner'[b][k] # Gone => runner[b][k].to = "completed"
      /\ \A a \in Batches, j \in Keys :
           a # b \/ j # k => items'[a][j] = items[a][j] /\ runner'[a][j] = runner[a][j]
  BY <1>1, SettleFact
<1>3. /\ runner[b][k].at = "settle"
      /\ UNCHANGED <<candidates, current, references, coordinator, generating, plan,
                     crashed, torn, broken>>
  BY DEF Settle, bounds
<1>4. Types'
  BY <1>1, <1>2, <1>3 DEF Types
<1>5. LeavesEnded
  <2>1. ASSUME NEW a \in Batches, NEW j \in Keys, NEW c \in Candidates
        PROVE  (RunsFor(a, j, c)' <=> RunsFor(a, j, c)) /\ (Waits(a, j, c)' <=> Waits(a, j, c))
    <3>1. CASE a = b /\ j = k
      BY <1>2, <1>3, <3>1 DEF RunsFor, Waits, Holding
    <3>2. CASE a # b \/ j # k
      BY <1>2, <3>2 DEF RunsFor, Waits
    <3> QED
      BY <3>1, <3>2
  <2> QED
    BY <2>1 DEF LeavesEnded
<1>6. runner[b][k].to = "completed" => Explained(k)
  BY <1>1, <1>3, RunnerRow DEF AllExplained
<1>7. ASSUME NEW a \in Batches, NEW j \in Keys
      PROVE  /\ items'[a][j].status \in {"completed", "skipped"} =>
                  items[a][j].status \in {"completed", "skipped"} \/ Explained(j)
             /\ runner'[a][j] # Gone /\ runner'[a][j].to = "completed" =>
                  (runner[a][j] # Gone /\ runner[a][j].to = "completed") \/ Explained(j)
  <2>1. CASE a = b /\ j = k
    <3>1. runner[b][k].to \in {"failed", "queued", "cancelled", "completed"}
      BY <1>1, <1>3, RunnerIs
    <3> QED
      BY <1>2, <1>6, <2>1, <3>1
  <2>2. CASE a # b \/ j # k
    BY <1>2, <2>2
  <2> QED
    BY <2>1, <2>2
<1>8. SaysNothingNew /\ ThreadsSayNothingNew
  BY <1>3, <1>7, PlanStays DEF ThreadsSayNothingNew
<1> QED
  BY <1>2, <1>3, <1>4, <1>5, <1>8, CandidatesStay, QuietStays

LEMMA KeptFact ==
  ASSUME Types, NEW c \in Candidates
  PROVE  /\ Kept(c) \in [Candidates -> References]
         /\ Kept(c)[c] = IF references[c] = "none" THEN "none" ELSE "permanent"
         /\ \A d \in Candidates : d # c => Kept(c)[d] = references[d]
BY DEF Types, Kept, References

(* The candidate of a batch: a reference is kept if there is one.          *)
LEMMA KeepStep ==
  ASSUME Inv, ThreadsOK, NEW b \in Batches, NEW k \in Keys, Keep(b, k)
  PROVE  Inv'
<1> DEFINE c == runner[b][k].candidate
<1>1. /\ runner[b][k].at = "keep" /\ references' = Kept(c)
      /\ UNCHANGED <<candidates, current, batches, items, coordinator, generating, plan,
                     crashed, torn, broken>>
      /\ runner' = [runner EXCEPT ![b][k] = Gone]
  BY DEF Keep, bounds
<1>2. Types
  BY DEF Inv
<1>3. c \in Candidates /\ \A d \in Candidates : ~ RunsFor(b, k, d)
  BY <1>1, <1>2, RunnerIs DEF Holding
<1>4. /\ references' \in [Candidates -> References]
      /\ \A d \in Candidates : references'[d] = references[d] \/ candidates[d].batch # None
  BY <1>1, <1>2, <1>3, KeptFact, NoneApart DEF ThreadsOK, ThreadOK
<1>5. runner[b][k] # Gone /\ WorksFor(Gone, items[b][k])
  BY <1>1, AtWork DEF WorksFor
<1>6. /\ candidates' \in [Candidates -> CandidateRows] /\ OnlyCancels
      /\ items' \in [Batches -> [Keys -> ItemRows]] /\ items' = items
  BY <1>1, <1>2, CandidatesStay DEF Types
<1>7. Gone.at \notin Holding /\ Gone \in Runners
  BY RunnerRow DEF Holding
<1> HIDE DEF c
<1> QED
  BY <1>1, <1>3, <1>4, <1>5, <1>6, <1>7, RunnerMoves

LEMMA KeepFailsStep ==
  ASSUME Inv, NEW b \in Batches, NEW k \in Keys, KeepFails(b, k)
  PROVE  Inv'
<1> DEFINE c == runner[b][k].candidate
           r == [at |-> "decide", candidate |-> c, to |-> "failed"]
<1>1. /\ runner[b][k].at = "keep"
      /\ UNCHANGED <<rows, coordinator, generating, plan, crashed, torn, broken>>
      /\ runner' = [runner EXCEPT ![b][k] = r]
  BY DEF KeepFails, RunnerGoes
<1>2. c \in Candidates /\ \A d \in Candidates : ~ RunsFor(b, k, d)
  BY <1>1, RunnerIs DEF Inv, Holding
<1>3. r \in Runners
  BY <1>2 DEF Runners
<1>4. runner[b][k] # Gone /\ WorksFor(r, items[b][k])
  BY <1>1, AtWork DEF WorksFor
<1>5. r.at \notin Holding /\ r.to # "completed"
  BY DEF Holding
<1> HIDE DEF r, c
<1> QED
  BY <1>1, <1>2, <1>3, <1>4, <1>5, RunnerMovesAlone

-----------------------------------------------------------------------------
(* The generation of one candidate *)

(* Everything but one candidate stays; what has been explained stays so.   *)
LEMMA GenerateStays ==
  ASSUME Inv, NEW c \in Candidates, Types', CandidateOK(c)',
         UNCHANGED <<batches, items, coordinator, runner, plan, crashed, torn, broken>>,
         \A d \in Candidates : d # c => /\ candidates'[d] = candidates[d]
                                        /\ generating'[d] = generating[d]
                                        /\ references'[d] = references[d],
         candidates'[c].key = candidates[c].key, candidates'[c].batch = candidates[c].batch,
         candidates'[c].status # "none",
         candidates'[c].status \in InFlight => candidates[c].status \in InFlight,
         generating'[c] # generating[c] => generating[c] # "none",
         \A k \in Keys : Explained(k) => Explained(k)',
         \A k \in Keys : candidates'[c].status \in Finished /\ candidates'[c].key = k =>
                           candidates[c].status \in Finished \/ Explained(k)'
  PROVE  Inv'
<1>1. Types /\ BatchesOK /\ RunnersOK /\ AllExplained /\ \A d \in Candidates : CandidateOK(d)
  BY DEF Inv
<1>2. BatchesOK'
  BY <1>1, BatchesStay
<1>3. \A a \in Batches, j \in Keys, d \in Candidates :
        (RunsFor(a, j, d)' <=> RunsFor(a, j, d)) /\ (Waits(a, j, d)' <=> Waits(a, j, d))
  BY DEF RunsFor, Waits
<1>4. RunnersOK'
  <2>1. ASSUME NEW a \in Batches, NEW j \in Keys, NEW d \in Candidates, Waits(a, j, d)
        PROVE  generating'[d] = "none"
    BY <1>1, <2>1 DEF RunnersOK
  <2>2. ASSUME NEW a \in Batches, NEW j \in Keys, NEW d \in Candidates, RunsFor(a, j, d)
        PROVE  /\ candidates'[d].status # "none"
               /\ candidates'[d].key = j /\ candidates'[d].batch = a
    BY <1>1, <2>2 DEF RunnersOK
  <2>3. ASSUME NEW d \in Candidates, NEW a \in Batches,
               candidates'[d].batch = a, candidates'[d].status \in InFlight, ~ crashed
        PROVE  \E j \in Keys : RunsFor(a, j, d)
    BY <1>1, <2>3 DEF RunnersOK
  <2> QED
    BY <1>3, <2>1, <2>2, <2>3 DEF RunnersOK
<1>5. ASSUME NEW d \in Candidates
      PROVE  CandidateOK(d)'
  <2>1. CASE d # c
    BY <1>1, <2>1 DEF CandidateOK
  <2> QED
    BY <2>1
<1>6. AllExplained'
  <2>1. ASSUME NEW d \in Candidates, NEW k \in Keys,
               candidates'[d].status \in Finished, candidates'[d].key = k
        PROVE  Explained(k)'
    BY <1>1, <2>1 DEF AllExplained
  <2> QED
    BY <1>1, <2>1 DEF AllExplained
<1> QED
  BY <1>2, <1>4, <1>5, <1>6 DEF Inv

LEMMA StatusSet ==
  ASSUME Types, NEW c \in Candidates, NEW status \in CandidateStatuses, Becomes(c, status)
  PROVE  /\ candidates' \in [Candidates -> CandidateRows]
         /\ candidates'[c].status = status
         /\ candidates'[c].key = candidates[c].key
         /\ candidates'[c].batch = candidates[c].batch
         /\ \A d \in Candidates : d # c => candidates'[d] = candidates[d]
<1>1. candidates \in [Candidates -> CandidateRows] /\ candidates[c] \in CandidateRows
  BY DEF Types
<1>2. candidates' = [candidates EXCEPT ![c] = [candidates[c] EXCEPT !.status = status]]
  BY DEF Becomes
<1>3. [candidates[c] EXCEPT !.status = status] \in CandidateRows
  BY <1>1 DEF CandidateRows
<1>4. candidates'[c] = [candidates[c] EXCEPT !.status = status]
  BY <1>1, <1>2
<1> QED
  BY <1>1, <1>2, <1>3, <1>4 DEF CandidateRows

LEMMA MovesFact ==
  ASSUME Types, NEW c \in Candidates, NEW at \in Phases, Moves(c, at)
  PROVE  /\ generating' \in [Candidates -> Phases] /\ generating'[c] = at
         /\ \A d \in Candidates : d # c => generating'[d] = generating[d]
BY DEF Types, Moves

(* A step of the generation that does not publish: the candidate goes on,  *)
(* or has ended meanwhile.                                                 *)
LEMMA AdvancesStep ==
  ASSUME Inv, NEW c \in Candidates, generating[c] \in {"start", "nodes", "validate"}, Quiet,
         NEW status \in {"running", "validating", "failed"} \cup Finished,
         NEW at \in {"nodes", "validate", "publish", "over"}, Advances(c, status, at),
         status \in Finished <=> at = "publish", status = "failed" <=> at = "over"
  PROVE  Inv'
<1>1. Types /\ CandidateOK(c)
  BY DEF Inv
<1>2. UNCHANGED <<current, batches, items, references, coordinator, runner, plan,
                  crashed, torn, broken>>
  BY DEF Quiet, bounds
<1>3. PICK to \in {"nodes", "validate", "publish", "over"} :
        /\ Moves(c, to)
        /\ \/ /\ candidates[c].status \in InFlight /\ Becomes(c, status) /\ to = at
           \/ /\ candidates[c].status \notin InFlight /\ UNCHANGED candidates /\ to = "over"
  BY DEF Advances
<1>4. /\ generating' \in [Candidates -> Phases] /\ generating'[c] = to
      /\ \A d \in Candidates : d # c => generating'[d] = generating[d]
  BY <1>1, <1>3, MovesFact DEF Phases
<1>5. /\ candidates' \in [Candidates -> CandidateRows]
      /\ candidates'[c].key = candidates[c].key
      /\ candidates'[c].batch = candidates[c].batch
      /\ \A d \in Candidates : d # c => candidates'[d] = candidates[d]
      /\ \/ candidates'[c].status = status /\ candidates[c].status \in InFlight /\ to = at
         \/ /\ candidates'[c].status = candidates[c].status
            /\ candidates[c].status \notin InFlight /\ to = "over"
  <2>1. status \in CandidateStatuses
    BY DEF CandidateStatuses, InFlight
  <2> QED
    BY <1>1, <1>3, <2>1, StatusSet DEF Types
<1>6. Types'
  BY <1>1, <1>2, <1>4, <1>5 DEF Types
<1>7. candidates[c].status # "none" /\ candidates'[c].status # "none"
  BY <1>1, <1>5 DEF CandidateOK, Finished
<1>8. CandidateOK(c)'
  <2>1. /\ to = "over" => candidates'[c].status \notin InFlight
        /\ to = "publish" => candidates'[c].status \in Finished
    BY <1>5, StatusesApart
  <2> QED
    BY <1>1, <1>2, <1>4, <1>5, <1>7, <2>1 DEF CandidateOK
<1>9. ASSUME NEW k \in Keys, Explained(k)
      PROVE  Explained(k)'
  <2>1. candidates[c].status = "deleted" => candidates'[c].status = "deleted"
    BY <1>5, StatusesApart
  <2> QED
    BY <1>2, <1>4, <1>5, <1>9, <2>1 DEF Explained
<1>10. ASSUME NEW k \in Keys, candidates'[c].status \in Finished, candidates'[c].key = k
       PROVE  candidates[c].status \in Finished \/ Explained(k)'
  <2>1. CASE to = "publish"
    BY <1>4, <1>10, <2>1 DEF Explained
  <2>2. CASE to # "publish"
    BY <1>5, <1>10, <2>2, StatusesApart
  <2> QED
    BY <2>1, <2>2
<1> QED
  BY <1>2, <1>4, <1>5, <1>6, <1>7, <1>8, <1>9, <1>10, StatusesApart, GenerateStays

LEMMA PublishStep ==
  ASSUME Inv, NEW c \in Candidates, Publish(c)
  PROVE  Inv'
<1>1. Types /\ AllExplained /\ CandidateOK(c)
  BY DEF Inv
<1>2. /\ generating[c] = "publish" /\ Moves(c, "over")
      /\ UNCHANGED <<candidates, batches, items, references, coordinator, runner, plan,
                     crashed, torn, broken>>
  BY DEF Publish, bounds
<1>3. /\ generating' \in [Candidates -> Phases] /\ generating'[c] = "over"
      /\ \A d \in Candidates : d # c => generating'[d] = generating[d]
  BY <1>1, <1>2, MovesFact DEF Phases
<1>4. /\ current' \in [Keys -> Candidates \cup {None}]
      /\ \A k \in Keys : current[k] # None => current'[k] # None
      /\ candidates[c].status \in Finished =>
           \A k \in Keys : candidates[c].key = k => current'[k] # None
  BY <1>1, NoneApart DEF Publish, Types
<1>5. Types'
  BY <1>1, <1>2, <1>3, <1>4 DEF Types
<1>6. candidates[c].status \in Finished \cup {"deleted"}
  BY <1>1, <1>2 DEF CandidateOK
<1>7. CandidateOK(c)'
  BY <1>1, <1>2, <1>3, <1>6, StatusesApart DEF CandidateOK
<1>8. ASSUME NEW k \in Keys, Explained(k)
      PROVE  Explained(k)'
  BY <1>2, <1>3, <1>4, <1>6, <1>8 DEF Explained
<1> QED
  BY <1>2, <1>3, <1>5, <1>6, <1>7, <1>8, StatusesApart, GenerateStays

(* What protects the snapshot of a candidate changes with the end of its   *)
(* generation, or with its begin.                                          *)
LEMMA ReferencesStep ==
  ASSUME Inv, NEW c \in Candidates,
         generating[c] \in {"refer", "over"}, candidates[c].status # "none",
         NEW at \in {"none", "start"}, Moves(c, at),
         candidates[c].batch = None, references' \in [Candidates -> References],
         \A d \in Candidates : d # c => references'[d] = references[d],
         at = "start" => references'[c] = "temporary",
         at = "none" => references'[c] = (IF candidates[c].status \in Finished
                                          THEN "permanent" ELSE "none"),
         UNCHANGED <<candidates, current, batches, items, coordinator, runner, plan,
                     crashed, torn, broken>>
  PROVE  Inv'
<1>1. Types /\ CandidateOK(c)
  BY DEF Inv
<1>2. /\ generating' \in [Candidates -> Phases] /\ generating'[c] = at
      /\ \A d \in Candidates : d # c => generating'[d] = generating[d]
  BY <1>1, MovesFact DEF Phases
<1>3. Types'
  BY <1>1, <1>2 DEF Types
<1>4. CandidateOK(c)'
  BY <1>1, <1>2 DEF CandidateOK
<1>5. ASSUME NEW k \in Keys, Explained(k)
      PROVE  Explained(k)'
  BY <1>2, <1>5 DEF Explained
<1> QED
  BY <1>2, <1>3, <1>4, <1>5, GenerateStays

LEMMA ReferOneStep ==
  ASSUME Inv, NEW c \in Candidates, ReferOne(c) \/ ReferFails(c) \/ FinalizeOne(c)
  PROVE  Inv'
<1>1. Types /\ CandidateOK(c)
  BY DEF Inv
<1>2. candidates[c].status # "none"
  BY <1>1 DEF CandidateOK, ReferOne, ReferFails, FinalizeOne
<1>3. UNCHANGED <<candidates, current, batches, items, coordinator, runner, plan,
                  crashed, torn, broken>>
  BY DEF ReferOne, ReferFails, FinalizeOne, rows, bounds
<1>4. CASE ReferOne(c)
  <2>1. /\ references' \in [Candidates -> References] /\ references'[c] = "temporary"
        /\ \A d \in Candidates : d # c => references'[d] = references[d]
    BY <1>1, <1>4 DEF ReferOne, Types, References
  <2> QED
    BY <1>1, <1>2, <1>3, <1>4, <2>1, ReferencesStep DEF ReferOne, CandidateOK
<1>5. CASE ReferFails(c)
  <2>1. references' = references
    BY <1>5 DEF ReferFails, rows
  <2> QED
    BY <1>1, <1>2, <1>3, <1>5, <2>1, ReferencesStep DEF ReferFails, CandidateOK, Types
<1>6. CASE FinalizeOne(c)
  <2>1. /\ references' = Finalized(c) /\ candidates[c].batch = None /\ Moves(c, "none")
        /\ generating[c] = "over"
    BY <1>6 DEF FinalizeOne
  <2>2. references[c] = "temporary"
    BY <1>1, <1>2, <2>1 DEF CandidateOK
  <2>3. /\ references' \in [Candidates -> References]
        /\ \A d \in Candidates : d # c => references'[d] = references[d]
        /\ references'[c] = (IF candidates[c].status \in Finished THEN "permanent" ELSE "none")
    BY <1>1, <2>1, <2>2, KeptFact DEF Finalized, Types, References
  <2> QED
    BY <1>2, <1>3, <2>1, <2>3, ReferencesStep
<1> QED
  BY <1>4, <1>5, <1>6

LEMMA GenerateStep ==
  ASSUME Inv, NEW c \in Candidates, Generate(c) \/ ReferFails(c)
  PROVE  Inv'
<1>1. CASE StartGeneration(c)
  BY <1>1, AdvancesStep, StatusesApart DEF StartGeneration
<1>2. CASE ExplainNodes(c)
  BY <1>2, AdvancesStep, StatusesApart DEF ExplainNodes
<1>3. CASE Validate(c)
  BY <1>3, AdvancesStep, StatusesApart DEF Validate
<1> QED
  BY <1>1, <1>2, <1>3, PublishStep, ReferOneStep DEF Generate

-----------------------------------------------------------------------------
(* Requests about one candidate, and a restart *)

LEMMA CancelOneStep ==
  ASSUME Inv, NEW c \in Candidates, CancelOne(c)
  PROVE  Inv'
<1>1. Types /\ BatchesOK
  BY DEF Inv
<1>2. /\ candidates[c].status \in InFlight /\ Becomes(c, "cancelled")
      /\ UNCHANGED <<current, batches, items, references, coordinator, runner, generating,
                     plan, crashed, torn, broken>>
  BY DEF CancelOne, threads, bounds
<1>3. /\ candidates' \in [Candidates -> CandidateRows]
      /\ \A d \in Candidates : d # c => candidates'[d] = candidates[d]
      /\ candidates'[c] = [candidates[c] EXCEPT !.status = "cancelled"]
  BY <1>1, <1>2, StatusSet DEF CandidateStatuses, Becomes, Types
<1>4. Types' /\ OnlyCancels
  BY <1>1, <1>2, <1>3 DEF Types, OnlyCancels
<1> QED
  BY <1>1, <1>2, <1>4, BatchesStay, ThreadsStay, PlanStays, QuietStays

(* Once something was deleted nothing is said about explanations.          *)
LEMMA DeleteOneStep ==
  ASSUME Inv, NEW c \in Candidates, DeleteOne(c)
  PROVE  Inv'
<1>1. Types /\ CandidateOK(c)
  BY DEF Inv
<1>2. /\ candidates[c].status \notin {"none", "deleted", "running"}
      /\ Becomes(c, "deleted")
      /\ current' = [k \in Keys |-> IF current[k] = c THEN None ELSE current[k]]
      /\ UNCHANGED <<batches, items, references, coordinator, runner, generating, plan,
                     crashed, torn, broken>>
  BY DEF DeleteOne, threads
<1>3. /\ candidates' \in [Candidates -> CandidateRows]
      /\ candidates'[c].status = "deleted"
      /\ candidates'[c].key = candidates[c].key
      /\ candidates'[c].batch = candidates[c].batch
      /\ \A d \in Candidates : d # c => candidates'[d] = candidates[d]
  BY <1>1, <1>2, StatusSet DEF CandidateStatuses
<1>4. current' \in [Keys -> Candidates \cup {None}]
  BY <1>1, <1>2 DEF Types
<1>5. Types'
  BY <1>1, <1>2, <1>3, <1>4 DEF Types
<1>6. CandidateOK(c)'
  BY <1>1, <1>2, <1>3, StatusesApart DEF CandidateOK
<1>7. \A k \in Keys : Explained(k)'
  BY <1>3 DEF Explained
<1> QED
  BY <1>2, <1>3, <1>5, <1>6, <1>7, StatusesApart, GenerateStays

LEMMA RestartBatches ==
  ASSUME Types, BatchesOK, Restart
  PROVE  /\ Types' /\ BatchesOK'
         /\ \A b \in Batches, k \in Keys :
              \/ items'[b][k] = items[b][k]
              \/ items[b][k].status = "running" /\ items'[b][k].status = "queued"
<1>1. /\ items' = Requeued
      /\ batches' = [b \in Batches |-> IF batches[b].status = "running"
                       THEN [batches[b] EXCEPT !.status = "queued"] ELSE batches[b]]
      /\ coordinator' = [b \in Batches |-> NoCoordinator]
      /\ runner' = [b \in Batches |-> [k \in Keys |-> Gone]]
      /\ generating' = [c \in Candidates |-> "none"]
      /\ plan' = [r \in Requests |-> Gone] /\ crashed' = TRUE
      /\ torn' = (torn \/ \E c \in Candidates : generating[c] = "publish")
      /\ UNCHANGED <<candidates, current, references, broken>>
  BY DEF Restart
<1>2. ASSUME NEW b \in Batches, NEW k \in Keys
      PROVE  /\ items'[b][k] \in ItemRows
             /\ \/ items'[b][k] = items[b][k] /\ items[b][k].status # "running"
                \/ items[b][k].status = "running" /\ items'[b][k].status = "queued"
  <2>1. items[b][k] \in ItemRows
    BY DEF Types
  <2>2. /\ [items[b][k] EXCEPT !.status = "queued"] \in ItemRows
        /\ [items[b][k] EXCEPT !.status = "queued"].status = "queued"
    BY <2>1 DEF ItemRows, ItemStatuses
  <2>3. items'[b][k] = IF items[b][k].status = "running"
                       THEN [items[b][k] EXCEPT !.status = "queued"] ELSE items[b][k]
    BY <1>1 DEF Requeued
  <2> QED
    BY <2>1, <2>2, <2>3
<1>3. ASSUME NEW b \in Batches
      PROVE  /\ batches'[b] \in BatchRows
             /\ batches'[b].snapshot = batches[b].snapshot
             /\ batches'[b].prompt = batches[b].prompt
             /\ \/ batches'[b] = batches[b] /\ batches[b].status # "running"
                \/ batches[b].status = "running" /\ batches'[b].status = "queued"
  <2>1. batches[b] \in BatchRows
    BY DEF Types
  <2>2. /\ [batches[b] EXCEPT !.status = "queued"] \in BatchRows
        /\ [batches[b] EXCEPT !.status = "queued"].status = "queued"
        /\ [batches[b] EXCEPT !.status = "queued"].snapshot = batches[b].snapshot
        /\ [batches[b] EXCEPT !.status = "queued"].prompt = batches[b].prompt
    BY <2>1 DEF BatchRows, BatchStatuses, BatchActive
  <2>3. batches'[b] = IF batches[b].status = "running"
                      THEN [batches[b] EXCEPT !.status = "queued"] ELSE batches[b]
    BY <1>1
  <2> QED
    BY <2>1, <2>2, <2>3
<1>4. items' \in [Batches -> [Keys -> ItemRows]]
  BY <1>1, <1>2 DEF Requeued
<1>5. batches' \in [Batches -> BatchRows]
  BY <1>1, <1>3
<1>6. /\ coordinator' \in [Batches -> Coordinators]
      /\ runner' \in [Batches -> [Keys -> Runners]]
      /\ generating' \in [Candidates -> Phases]
      /\ plan' \in [Requests -> {Gone} \cup Plans0]
      /\ torn' \in BOOLEAN /\ crashed' \in BOOLEAN
  BY <1>1, CoordinatorRow, RunnerRow DEF Phases, Types
<1>7. Types'
  BY <1>1, <1>4, <1>5, <1>6 DEF Types
<1>8. ASSUME NEW b \in Batches
      PROVE  /\ BatchOK(b)' /\ (IsActive(b)' <=> IsActive(b))
             /\ batches'[b].snapshot = batches[b].snapshot
             /\ batches'[b].prompt = batches[b].prompt
  <2>1. BatchOK(b)
    BY DEF BatchesOK
  <2>2. coordinator'[b] = NoCoordinator /\ \A k \in Keys : runner'[b][k] = Gone
    BY <1>1
  <2>3. IsActive(b)' <=> IsActive(b)
    BY <1>3 DEF IsActive, BatchActive
  <2>4. b \in broken' <=> b \in broken
    BY <1>1
  <2>5. BatchOK(b)'
    <3>1. \A k \in Keys : items'[b][k].status = "none" => items'[b][k] = NoItem
      BY <1>2, <2>1 DEF BatchOK
    <3>2. batches'[b].status = "completed" =>
            \A k \in Keys : items'[b][k].status \in {"none", "completed", "skipped"}
      BY <1>2, <1>3, <2>1 DEF BatchOK
    <3>3. b \notin broken' /\ batches'[b].status \notin BatchActive =>
            \A k \in Keys : items'[b][k].status \notin BatchActive
      BY <1>2, <1>3, <2>1, <2>3, <2>4 DEF BatchOK, IsActive, BatchActive
    <3>4. b \in broken' => batches'[b].status \notin BatchActive \cup {"none"}
      BY <1>3, <2>1, <2>4 DEF BatchOK, BatchActive
    <3> QED
      BY <2>2, <3>1, <3>2, <3>3, <3>4 DEF BatchOK, WorksFor
  <2> QED
    BY <1>3, <2>3, <2>5
<1>9. OneIsActive'
  BY <1>8 DEF BatchesOK, OneIsActive
<1> QED
  BY <1>2, <1>7, <1>8, <1>9 DEF BatchesOK

LEMMA RestartStep ==
  ASSUME Inv, Restart
  PROVE  Inv'
<1>1. Types /\ BatchesOK /\ AllExplained /\ \A d \in Candidates : CandidateOK(d)
  BY DEF Inv
<1>2. /\ Types' /\ BatchesOK'
      /\ \A b \in Batches, k \in Keys :
           \/ items'[b][k] = items[b][k]
           \/ items[b][k].status = "running" /\ items'[b][k].status = "queued"
  BY <1>1, RestartBatches
<1>3. /\ runner' = [b \in Batches |-> [k \in Keys |-> Gone]]
      /\ generating' = [c \in Candidates |-> "none"]
      /\ plan' = [r \in Requests |-> Gone] /\ crashed' = TRUE
      /\ torn' = (torn \/ \E c \in Candidates : generating[c] = "publish")
      /\ UNCHANGED <<candidates, current, references>>
  BY DEF Restart
<1>4. \A b \in Batches, k \in Keys, c \in Candidates : ~ RunsFor(b, k, c)' /\ ~ Waits(b, k, c)'
  BY <1>3, RunnerRow DEF RunsFor, Waits, Holding
<1>5. RunnersOK'
  BY <1>3, <1>4 DEF RunnersOK
<1>6. ASSUME NEW c \in Candidates
      PROVE  CandidateOK(c)'
  BY <1>1, <1>3 DEF CandidateOK
<1>7. ASSUME NEW k \in Keys, Explained(k)
      PROVE  Explained(k)'
  BY <1>3, <1>7 DEF Explained
<1>8. \A r \in Requests : plan'[r] = Gone
  BY <1>3
<1>9. AllExplained'
  <2>1. \A c \in Candidates, k \in Keys :
          candidates'[c].status \in Finished /\ candidates'[c].key = k => Explained(k)'
    BY <1>1, <1>3, <1>7 DEF AllExplained
  <2>2. \A b \in Batches, k \in Keys :
          items'[b][k].status \in {"completed", "skipped"} => Explained(k)'
    BY <1>1, <1>2, <1>7 DEF AllExplained
  <2>3. \A b \in Batches, k \in Keys : runner'[b][k] = Gone
    BY <1>3
  <2> QED
    BY <1>8, <2>1, <2>2, <2>3 DEF AllExplained
<1> QED
  BY <1>2, <1>5, <1>6, <1>9 DEF Inv

-----------------------------------------------------------------------------
(* The invariant *)

LEMMA InitOK == Init => Inv
<1> SUFFICES ASSUME Init
             PROVE  Inv
  OBVIOUS
<1>1. /\ candidates = [c \in Candidates |-> NoCandidate]
      /\ current = [k \in Keys |-> None]
      /\ batches = [b \in Batches |-> NoBatch]
      /\ items = [b \in Batches |-> [k \in Keys |-> NoItem]]
      /\ references = [c \in Candidates |-> "none"]
      /\ coordinator = [b \in Batches |-> NoCoordinator]
      /\ runner = [b \in Batches |-> [k \in Keys |-> Gone]]
      /\ generating = [c \in Candidates |-> "none"]
      /\ plan = [r \in Requests |-> Gone]
      /\ crashed = FALSE /\ torn = FALSE /\ broken = {}
  BY DEF Init
<1>2. /\ NoCandidate \in CandidateRows /\ NoBatch \in BatchRows /\ NoItem \in ItemRows
      /\ NoCandidate.status = "none" /\ NoCandidate.batch = None
      /\ NoBatch.status = "none" /\ NoItem.status = "none"
  BY DEF NoCandidate, NoBatch, NoItem, CandidateRows, CandidateStatuses, BatchRows,
         BatchStatuses, ItemRows, ItemStatuses
<1>3. Types
  BY <1>1, <1>2, CoordinatorRow, RunnerRow DEF Types, References, Phases
<1>4. BatchesOK
  BY <1>1, <1>2, StatusesApart DEF BatchesOK, OneIsActive, IsActive, BatchOK, WorksFor
<1>5. RunnersOK
  BY <1>1, <1>2, NoneApart, RunnerRow DEF RunnersOK, RunsFor, Waits, Holding
<1>6. AllExplained
  BY <1>1, <1>2, StatusesApart DEF AllExplained
<1>7. \A c \in Candidates : CandidateOK(c)
  BY <1>1, <1>2 DEF CandidateOK
<1> QED
  BY <1>3, <1>4, <1>5, <1>6, <1>7 DEF Inv

LEMMA InvStays == Inv /\ ThreadsOK /\ [Next]_vars => Inv'
<1> SUFFICES ASSUME Inv, ThreadsOK, [Next]_vars
             PROVE  Inv'
  OBVIOUS
<1>1. ASSUME UNCHANGED vars
      PROVE  Inv'
  <2>1. UNCHANGED <<candidates, current, batches, items, references, coordinator, runner,
                    generating, plan, crashed, torn, broken>>
    BY <1>1 DEF vars, rows, threads, bounds
  <2>2. Types' /\ BatchesOK'
    BY <2>1, BatchesStay DEF Inv, Types
  <2> QED
    BY <2>1, <2>2, CandidatesStay, ThreadsStay, PlanStays, QuietStays
<1>2. ASSUME NEW b \in Batches, NEW k \in Keys, RunItem(b, k) \/ KeepFails(b, k)
      PROVE  Inv'
  BY <1>2, PrepareStep, PrepareFailsStep, RegisterStep, CheckCancelStep, StopCandidateStep,
     EnterStep, ReadResultStep, DecideStep, SettleStep, KeepStep, KeepFailsStep
  DEF RunItem
<1> QED
  BY <1>1, <1>2, PlanBatchStep, PlanRetryStep, CreateBatchStep, CoordinateStep, GenerateStep,
     CancelOneStep, DeleteOneStep, PrepareOneStep, RestartStep
  DEF Next

-----------------------------------------------------------------------------
(* What a step does to candidates: one that is there stays in its batch,   *)
(* and one that has ended is at most deleted.                              *)

GoesOn(c) ==
    /\ candidates[c].status # "none" => candidates'[c].batch = candidates[c].batch
    /\ candidates[c].status \notin {"none"} \cup InFlight =>
         candidates'[c].status \in {candidates[c].status, "deleted"}

LEMMA CandidatesGoOn ==
  ASSUME Inv, [Next]_vars
  PROVE  \A c \in Candidates : GoesOn(c)
<1> SUFFICES ASSUME NEW c \in Candidates
             PROVE  GoesOn(c)
  OBVIOUS
<1>1. Types /\ BatchesOK
  BY DEF Inv
<1>2. CASE UNCHANGED candidates
  BY <1>2 DEF GoesOn
<1>3. ASSUME OnlyCancels
      PROVE  GoesOn(c)
  BY <1>1, <1>3, CancelledRow DEF GoesOn
<1>4. ASSUME NEW d \in Candidates, NEW k, NEW s, NEW p, NEW b, NewCandidate(d, k, s, p, b)
      PROVE  GoesOn(c)
  BY <1>1, <1>4 DEF NewCandidate, NoCandidate, Types, GoesOn
<1>5. ASSUME NEW d \in Candidates, NEW status \in CandidateStatuses, Becomes(d, status),
             candidates[d].status \in InFlight \/ status = "deleted"
      PROVE  GoesOn(c)
  BY <1>1, <1>5, StatusSet DEF GoesOn
<1>6. ASSUME NEW b \in Batches, CancelBatch(b) \/ Look(b)
      PROVE  GoesOn(c)
  <2>1. UNCHANGED candidates \/ candidates' = CancelledCandidates(b)
    BY <1>6 DEF CancelBatch, Look, Cancelling
  <2>2. OnlyCancels
    BY <1>1, <2>1 DEF OnlyCancels, CancelledCandidates
  <2> QED
    BY <1>3, <2>2
<1>7. ASSUME NEW b \in Batches, NEW k \in Keys, StopCandidate(b, k)
      PROVE  GoesOn(c)
  <2>1. runner[b][k].at = "stop" /\ candidates' = Stopped(runner[b][k].candidate)
    BY <1>7 DEF StopCandidate
  <2>2. runner[b][k].candidate \in Candidates
    BY <1>1, <2>1, RunnerIs DEF Holding
  <2> QED
    BY <1>1, <1>3, <2>1, <2>2, StoppedFact
<1>8. ASSUME NEW d \in Candidates, NEW status \in CandidateStatuses, NEW at,
             Advances(d, status, at)
      PROVE  GoesOn(c)
  BY <1>2, <1>5, <1>8 DEF Advances
<1>9. {"running", "validating", "failed", "cancelled", "deleted"} \cup Finished
        \subseteq CandidateStatuses
  BY DEF CandidateStatuses, InFlight
<1>10. ASSUME NEW d \in Candidates,
              Generate(d) \/ CancelOne(d) \/ DeleteOne(d) \/ ReferFails(d)
       PROVE  GoesOn(c)
  <2>1. CASE StartGeneration(d) \/ ExplainNodes(d) \/ Validate(d)
    BY <1>8, <1>9, <2>1 DEF StartGeneration, ExplainNodes, Validate
  <2>2. CASE CancelOne(d) \/ DeleteOne(d)
    BY <1>5, <1>9, <2>2 DEF CancelOne, DeleteOne
  <2>3. CASE ReferOne(d) \/ Publish(d) \/ FinalizeOne(d) \/ ReferFails(d)
    BY <1>2, <2>3 DEF ReferOne, Publish, FinalizeOne, ReferFails, rows
  <2> QED
    BY <1>10, <2>1, <2>2, <2>3 DEF Generate
<1>11. ASSUME NEW b \in Batches, NEW k \in Keys, RunItem(b, k) \/ KeepFails(b, k)
       PROVE  GoesOn(c)
  <2>1. CASE \E d \in Candidates : Prepare(b, k, d)
    BY <1>4, <2>1 DEF Prepare
  <2>2. CASE \/ PrepareFails(b, k) \/ Register(b, k) \/ CheckCancel(b, k) \/ Enter(b, k)
             \/ ReadResult(b, k) \/ Decide(b, k) \/ Settle(b, k) \/ Keep(b, k)
             \/ KeepFails(b, k)
    BY <1>2, <2>2 DEF PrepareFails, Register, CheckCancel, Enter, ReadResult, Decide, Settle,
                      Keep, KeepFails, rows
  <2> QED
    BY <1>7, <1>11, <2>1, <2>2 DEF RunItem
<1>12. ASSUME NEW b \in Batches, CancelBatch(b) \/ Coordinate(b) \/ CoordinatorRaises(b)
       PROVE  GoesOn(c)
  BY <1>2, <1>6, <1>12 DEF Coordinate, StartBatch, Claim, Gather, FailBatch,
                           CoordinatorRaises, rows
<1>13. ASSUME \/ \E r \in Requests, s \in Snapshots, p \in Prompts : PlanBatch(r, s, p)
              \/ \E r \in Requests, b \in Batches : PlanRetry(r, b) \/ CreateBatch(r, b)
              \/ Restart \/ UNCHANGED vars
       PROVE  GoesOn(c)
  BY <1>2, <1>13 DEF PlanBatch, PlanRetry, Plans, CreateBatch, Restart, vars, rows
<1>14. ASSUME NEW d \in Candidates, NEW k \in Keys, NEW s \in Snapshots, NEW p \in Prompts,
              NEW named \in Named, PrepareOne(d, k, s, p, named)
       PROVE  GoesOn(c)
  BY <1>4, <1>14 DEF PrepareOne
<1> QED
  BY <1>10, <1>11, <1>12, <1>13, <1>14 DEF Next

-----------------------------------------------------------------------------
(* Threads keep to their candidates *)

(* What others do to the thread of an item.                                *)
LeftAlone(a, j) ==
    \/ runner'[a][j].at \in {"gone", "prepare"}
    \/ /\ runner'[a][j] = runner[a][j]
       /\ items'[a][j].candidate = items[a][j].candidate
       /\ runner[a][j].at = "enter" /\ batches'[a].cancel =>
            batches[a].cancel \/ (items[a][j].status = "running" /\ Cancelling(a))

LEMMA CreateLeavesAlone ==
  ASSUME Inv, NEW r \in Requests, NEW b \in Batches, CreateBatch(r, b),
         NEW a \in Batches, NEW j \in Keys
  PROVE  LeftAlone(a, j)
<1>1. /\ UNCHANGED runner /\ batches[b] = NoBatch
      /\ \A d \in Batches : d # b => batches'[d] = batches[d] /\ items'[d] = items[d]
  BY DEF CreateBatch, Inv, Types
<1>2. CASE a = b
  <2>1. runner[b][j] = Gone
    BY <1>1 DEF Inv, BatchesOK, BatchOK, NoBatch
  <2> QED
    BY <1>1, <1>2, <2>1, RunnerRow DEF LeftAlone
<1>3. CASE a # b
  BY <1>1, <1>3 DEF LeftAlone
<1> QED
  BY <1>2, <1>3

LEMMA ClaimLeavesAlone ==
  ASSUME Inv, NEW b \in Batches, Claim(b), NEW a \in Batches, NEW j \in Keys
  PROVE  LeftAlone(a, j)
<1>1. Types /\ BatchesOK
  BY DEF Inv
<1>2. runner'[a][j] = runner[a][j] \/ runner'[a][j].at = "prepare"
  BY <1>1, ClaimBatches
<1>3. PICK S \in Claimable(b) :
        items' = [items EXCEPT ![b] = [k \in Keys |-> IF k \in S
             THEN [items[b][k] EXCEPT !.status = "running", !.tries = @ + 1]
             ELSE items[b][k]]]
  BY DEF Claim
<1>4. items'[a][j].candidate = items[a][j].candidate
  <2>1. items \in [Batches -> [Keys -> ItemRows]] /\ items[a][j] \in ItemRows
    BY <1>1 DEF Types
  <2>2. \/ items'[a][j] = items[a][j]
        \/ items'[a][j] = [items[a][j] EXCEPT !.status = "running", !.tries = @ + 1]
    BY <1>3, <2>1
  <2> QED
    BY <2>1, <2>2 DEF ItemRows
<1>5. batches'[a].cancel = batches[a].cancel
  <2>1. batches' = Refreshed(b, "running") /\ "running" \in BatchStatuses
    BY DEF Claim, BatchStatuses, BatchActive
  <2>2. items' \in [Batches -> [Keys -> ItemRows]]
    BY <1>1, ClaimBatches DEF Types
  <2> QED
    BY <1>1, <2>1, <2>2, RefreshedFact
<1> QED
  BY <1>2, <1>4, <1>5 DEF LeftAlone

LEMMA CancellingLeavesAlone ==
  ASSUME Inv, NEW b \in Batches, IsActive(b), Cancelling(b), UNCHANGED runner,
         NEW a \in Batches, NEW j \in Keys
  PROVE  LeftAlone(a, j)
<1>1. /\ items \in [Batches -> [Keys -> ItemRows]] /\ items[a][j] \in ItemRows
      /\ batches \in [Batches -> BatchRows]
  BY DEF Inv, Types
<1>2. items'[a][j].candidate = items[a][j].candidate
  <2>1. \/ items'[a][j] = items[a][j]
        \/ items'[a][j] = [items[a][j] EXCEPT !.status = "cancelled"]
    BY <1>1 DEF Cancelling, CancelledItems
  <2> QED
    BY <1>1, <2>1 DEF ItemRows
<1>3. CASE a # b
  <2>1. batches'[a] = batches[a]
    BY <1>1, <1>3 DEF Cancelling
  <2> QED
    BY <1>2, <2>1 DEF LeftAlone
<1>4. CASE a = b /\ items[a][j].status = "running"
  BY <1>2, <1>4 DEF LeftAlone
<1>5. CASE a = b /\ items[a][j].status # "running"
  <2>1. runner[a][j].at \in {"gone", "keep", "decide", "settle"}
    BY <1>5, RunnerRow DEF Inv, BatchesOK, BatchOK, WorksFor
  <2> QED
    BY <1>2, <1>5, <2>1 DEF LeftAlone
<1> QED
  BY <1>3, <1>4, <1>5

LEMMA RefreshedCancel ==
  ASSUME Types, NEW b \in Batches, NEW run, batches' = Refreshed(b, run)
  PROVE  \A a \in Batches : batches'[a].cancel = batches[a].cancel
<1>1. PICK status : batches' = [batches EXCEPT ![b].status = status]
  BY DEF Refreshed
<1>2. batches \in [Batches -> BatchRows]
  BY DEF Types
<1>3. \A a \in Batches : \/ batches'[a] = batches[a]
                         \/ batches'[a] = [batches[a] EXCEPT !.status = status]
  BY <1>1, <1>2
<1> QED
  BY <1>2, <1>3 DEF BatchRows

(* A batch that has ended is not active again after an item has ended.     *)
LEMMA SettledStatus ==
  ASSUME Types, BatchesOK, NEW b \in Batches, NEW k \in Keys, Settle(b, k)
  PROVE  \A a \in Batches : IsActive(a)' => IsActive(a)
<1>1. /\ items' \in [Batches -> [Keys -> ItemRows]]
      /\ batches' = Refreshed(b, batches[b].status) /\ batches[b].status \in BatchStatuses
  BY SettleFact DEF Settle, Types, BatchRows
<1>2. /\ \A a \in Batches : a # b => batches'[a] = batches[a]
      /\ \/ batches'[b].status = batches[b].status
         \/ batches'[b].status \notin BatchActive
  BY <1>1, RefreshedFact
<1> QED
  BY <1>2 DEF IsActive

LEMMA OthersLeaveAlone ==
  ASSUME Inv, [Next]_vars, NEW a \in Batches, NEW j \in Keys,
         ~ RunItem(a, j), ~ KeepFails(a, j)
  PROVE  LeftAlone(a, j)
<1>1. Types /\ BatchesOK
  BY DEF Inv
<1>2. ASSUME UNCHANGED <<batches, items, runner>>
      PROVE  LeftAlone(a, j)
  BY <1>2 DEF LeftAlone
<1>3. ASSUME NEW b \in Batches, NEW k \in Keys, RunItem(b, k) \/ KeepFails(b, k)
      PROVE  LeftAlone(a, j)
  <2>1. a # b \/ j # k
    BY <1>3
  <2>2. PICK r : runner' = [runner EXCEPT ![b][k] = r]
    BY <1>3 DEF RunItem, Prepare, PrepareFails, Register, CheckCancel, StopCandidate, Enter,
                ReadResult, Decide, Settle, Keep, KeepFails, RunnerGoes
  <2>3. runner'[a][j] = runner[a][j]
    BY <1>1, <2>1, <2>2 DEF Types
  <2>4. items'[a][j] = items[a][j]
    BY <1>1, <1>3, <2>1 DEF RunItem, Prepare, PrepareFails, Register, CheckCancel,
         StopCandidate, Enter, ReadResult, Decide, Settle, Keep, KeepFails, rows, Types
  <2>5. batches'[a].cancel = batches[a].cancel
    <3>1. CASE Settle(b, k)
      BY <1>1, <3>1, RefreshedCancel DEF Settle
    <3> QED
      BY <1>3, <3>1 DEF RunItem, Prepare, PrepareFails, Register, CheckCancel,
         StopCandidate, Enter, ReadResult, Decide, Keep, KeepFails, rows
  <2> QED
    BY <2>3, <2>4, <2>5 DEF LeftAlone
<1>4. ASSUME NEW b \in Batches, CancelBatch(b) \/ Look(b)
      PROVE  LeftAlone(a, j)
  BY <1>2, <1>4, CancellingLeavesAlone DEF CancelBatch, Look, threads, IsActive
<1>5. ASSUME NEW b \in Batches, StartBatch(b) \/ Gather(b) \/ FailBatch(b)
      PROVE  LeftAlone(a, j)
  <2>1. UNCHANGED <<items, runner>>
    BY <1>5 DEF StartBatch, Gather, FailBatch, rows
  <2>2. batches'[a].cancel = batches[a].cancel
    <3>1. CASE StartBatch(b)
      BY <1>1, <3>1, RefreshedCancel DEF StartBatch
    <3>2. CASE Gather(b)
      BY <3>2 DEF Gather, rows
    <3>3. CASE FailBatch(b)
      <4>1. batches \in [Batches -> BatchRows]
        BY <1>1 DEF Types
      <4>2. batches'[a] = batches[a] \/ batches'[a] = [batches[a] EXCEPT !.status = "failed"]
        BY <3>3, <4>1 DEF FailBatch
      <4> QED
        BY <4>1, <4>2 DEF BatchRows
    <3> QED
      BY <1>5, <3>1, <3>2, <3>3
  <2> QED
    BY <2>1, <2>2 DEF LeftAlone
<1>6. ASSUME NEW b \in Batches, CoordinatorRaises(b)
      PROVE  LeftAlone(a, j)
  BY <1>1, <1>6, RaisesBatches, RunnerRow DEF CoordinatorRaises, rows, LeftAlone
<1>7. ASSUME NEW b \in Batches, CancelBatch(b) \/ Coordinate(b) \/ CoordinatorRaises(b)
      PROVE  LeftAlone(a, j)
  BY <1>4, <1>5, <1>6, <1>7, ClaimLeavesAlone DEF Coordinate
<1>8. ASSUME NEW c \in Candidates,
             Generate(c) \/ CancelOne(c) \/ DeleteOne(c) \/ ReferFails(c)
      PROVE  LeftAlone(a, j)
  BY <1>2, <1>8 DEF Generate, ReferOne, StartGeneration, ExplainNodes, Validate, Publish,
     FinalizeOne, CancelOne, DeleteOne, ReferFails, Quiet, threads, rows
<1>9. ASSUME NEW c \in Candidates, NEW k \in Keys, NEW s \in Snapshots, NEW p \in Prompts,
             NEW named \in Named, PrepareOne(c, k, s, p, named)
      PROVE  LeftAlone(a, j)
  BY <1>2, <1>9 DEF PrepareOne
<1>10. CASE \/ \E r \in Requests, s \in Snapshots, p \in Prompts : PlanBatch(r, s, p)
            \/ \E r \in Requests, b \in Batches : PlanRetry(r, b)
            \/ UNCHANGED vars
  BY <1>2, <1>10 DEF PlanBatch, PlanRetry, Plans, rows, vars, threads
<1>11. CASE Restart
  BY <1>11, RunnerRow DEF Restart, LeftAlone
<1> QED
  BY <1>3, <1>7, <1>8, <1>9, <1>10, <1>11, CreateLeavesAlone DEF Next

LEMMA ThreadGoesOn ==
  ASSUME Inv, ThreadsOK, NEW b \in Batches, NEW k \in Keys,
         \A c \in Candidates : GoesOn(c), RunItem(b, k) \/ KeepFails(b, k)
  PROVE  ThreadOK(b, k)'
<1> DEFINE old == runner[b][k]
<1>1. Types /\ ThreadOK(b, k) /\ \A c \in Candidates : CandidateOK(c)
  BY DEF Inv, ThreadsOK
<1>2. runner \in [Batches -> [Keys -> Runners]]
  BY <1>1 DEF Types
<1>3. old.at \notin {"gone", "prepare"} /\ old.candidate # None =>
        old.candidate \in Candidates /\ candidates'[old.candidate].batch = b
  <2>1. SUFFICES ASSUME old.at \notin {"gone", "prepare"}, old.candidate # None
                 PROVE  old.candidate \in Candidates /\ candidates'[old.candidate].batch = b
    OBVIOUS
  <2>a. old \in Runners
    BY <1>2
  <2>b. old.candidate \in Candidates
    BY <2>1, <2>a DEF Runners, Gone
  <2>2. old.candidate \in Candidates /\ candidates[old.candidate].batch = b
    BY <1>1, <2>1, <2>b DEF ThreadOK
  <2>3. candidates[old.candidate].status # "none"
    BY <1>1, <2>2, NoneApart DEF CandidateOK
  <2> QED
    BY <2>2, <2>3 DEF GoesOn
<1>4. CASE \E c \in Candidates : Prepare(b, k, c)
  <2>1. PICK c \in Candidates : Prepare(b, k, c)
    BY <1>4
  <2>2. runner'[b][k] = [at |-> "register", candidate |-> c, to |-> "none"]
    BY <1>2, <2>1 DEF Prepare, RunnerGoes
  <2>3. candidates'[c].batch = b
    BY <1>1, <2>1 DEF Prepare, NewCandidate, Types
  <2> QED
    BY <2>2, <2>3 DEF ThreadOK, Holding
<1>5. CASE Register(b, k)
  <2>1. /\ old.at = "register" /\ items' = [items EXCEPT ![b][k].candidate = old.candidate]
        /\ runner'[b][k] = [at |-> "check", candidate |-> old.candidate, to |-> "none"]
    BY <1>2, <1>5 DEF Register, RunnerGoes
  <2>2. items'[b][k].candidate = old.candidate
    <3>1. items \in [Batches -> [Keys -> ItemRows]] /\ items[b][k] \in ItemRows
      BY <1>1 DEF Types
    <3> QED
      BY <2>1, <3>1 DEF ItemRows
  <2> QED
    BY <1>3, <2>1, <2>2 DEF ThreadOK
<1>6. CASE CheckCancel(b, k)
  <2>1. /\ old.at = "check" /\ UNCHANGED <<items, batches>>
        /\ runner'[b][k] = [at |-> IF batches[b].cancel THEN "stop" ELSE "enter",
                            candidate |-> old.candidate, to |-> "none"]
    BY <1>2, <1>6 DEF CheckCancel, RunnerGoes, rows
  <2> QED
    BY <1>1, <1>3, <2>1 DEF ThreadOK, Holding
<1>7. CASE StopCandidate(b, k)
  <2>1. /\ old.at = "stop" /\ UNCHANGED <<items, batches>>
        /\ candidates' = Stopped(old.candidate)
        /\ runner'[b][k].candidate = old.candidate
        /\ runner'[b][k].at \in {"enter", "decide"}
    BY <1>2, <1>7 DEF StopCandidate, RunnerGoes
  <2>2. old.candidate \in Candidates
    BY <1>1, <2>1, RunnerIs DEF Holding
  <2>3. candidates'[old.candidate].status \notin InFlight
    BY <1>1, <2>1, <2>2, StoppedFact
  <2> QED
    BY <1>1, <1>3, <2>1, <2>3 DEF ThreadOK, Holding
<1>8. CASE Enter(b, k)
  <2>1. /\ old.at = "enter" /\ UNCHANGED <<items, batches>>
        /\ runner'[b][k] = [at |-> "generate", candidate |-> old.candidate, to |-> "none"]
    BY <1>2, <1>8 DEF Enter, RunnerGoes, rows
  <2> QED
    BY <1>1, <1>3, <2>1 DEF ThreadOK, Holding
<1>9. CASE \/ PrepareFails(b, k) \/ ReadResult(b, k) \/ Decide(b, k) \/ Settle(b, k)
           \/ Keep(b, k) \/ KeepFails(b, k)
  <2>1. \/ runner'[b][k] = Gone
        \/ /\ runner'[b][k].at \in {"decide", "settle", "keep"}
           /\ \/ runner'[b][k].candidate = None
              \/ /\ runner'[b][k].candidate = old.candidate
                 /\ old.at \in {"generate", "decide", "settle", "keep"}
    BY <1>2, <1>9 DEF PrepareFails, ReadResult, Decide, Settle, Keep, KeepFails, RunnerGoes
  <2> QED
    BY <1>3, <2>1, RunnerRow DEF ThreadOK, Holding
<1> QED
  BY <1>4, <1>5, <1>6, <1>7, <1>8, <1>9 DEF RunItem

LEMMA ThreadsGoOn ==
  ASSUME Inv, ThreadsOK, [Next]_vars
  PROVE  ThreadsOK'
<1>1. Types /\ \A c \in Candidates : GoesOn(c) /\ CandidateOK(c)
  BY CandidatesGoOn DEF Inv
<1>2. ASSUME NEW b \in Batches, NEW k \in Keys, LeftAlone(b, k)
      PROVE  ThreadOK(b, k)'
  <2>1. CASE runner'[b][k].at \in {"gone", "prepare"}
    BY <2>1 DEF ThreadOK, Holding
  <2>2. CASE runner'[b][k].at \notin {"gone", "prepare"}
    <3> DEFINE r == runner[b][k]
    <3>1. /\ runner'[b][k] = r /\ r.at \notin {"gone", "prepare"}
          /\ items'[b][k].candidate = items[b][k].candidate
      BY <1>2, <2>2 DEF LeftAlone
    <3>2. ThreadOK(b, k)
      BY DEF ThreadsOK
    <3>3. r.candidate # None => /\ r.candidate \in Candidates
                                /\ candidates[r.candidate].batch = b
                                /\ candidates[r.candidate].status # "none"
      <4>1. r \in Runners
        BY <1>1 DEF Types
      <4>2. r.candidate # None => r.candidate \in Candidates
        BY <3>1, <4>1 DEF Runners, Gone
      <4> QED
        BY <1>1, <3>1, <3>2, <4>2, NoneApart DEF ThreadOK, CandidateOK
    <3>4. r.candidate # None => candidates'[r.candidate].batch = b
      BY <1>1, <3>3 DEF GoesOn
    <3>5. r.at \in Holding \ {"register"} => items'[b][k].candidate = r.candidate
      BY <3>1, <3>2 DEF ThreadOK
    <3>6. ASSUME r.at = "enter", batches'[b].cancel
          PROVE  candidates'[r.candidate].status \notin InFlight
      <4>1. r.candidate \in Candidates /\ r.candidate # None
        BY <1>1, <3>6, RunnerIs, NoneApart DEF Holding
      <4>2. CASE batches[b].cancel
        <5>1. candidates[r.candidate].status \notin {"none"} \cup InFlight
          BY <3>2, <3>3, <3>6, <4>1, <4>2 DEF ThreadOK
        <5> QED
          BY <1>1, <4>1, <5>1, StatusesApart DEF GoesOn
      <4>3. CASE items[b][k].status = "running" /\ Cancelling(b)
        <5>1. items[b][k].candidate = r.candidate
          BY <3>2, <3>6 DEF ThreadOK, Holding
        <5>2. r.candidate \in InWork(b)
          BY <4>3, <5>1 DEF InWork
        <5>3. candidates' = CancelledCandidates(b) /\ candidates[r.candidate] \in CandidateRows
          BY <1>1, <4>1, <4>3 DEF Cancelling, Types
        <5> QED
          BY <4>1, <5>2, <5>3, StatusesApart DEF CancelledCandidates, CandidateRows
      <4> QED
        BY <1>2, <2>2, <3>6, <4>2, <4>3 DEF LeftAlone
    <3> QED
      BY <3>1, <3>4, <3>5, <3>6 DEF ThreadOK
  <2> QED
    BY <2>1, <2>2
<1>3. ASSUME NEW b \in Batches, NEW k \in Keys
      PROVE  ThreadOK(b, k)'
  BY <1>1, <1>2, OthersLeaveAlone, ThreadGoesOn
<1> QED
  BY <1>3 DEF ThreadsOK

-----------------------------------------------------------------------------
(* Coordinators *)

(* What others do to a batch between two steps of its coordinator: threads *)
(* end, and queued items are cancelled with their batch.                   *)
Undisturbed(a) ==
    /\ coordinator'[a] = coordinator[a]
    /\ \A k \in Keys : runner[a][k] = Gone => runner'[a][k] = Gone
    /\ IsActive(a)' => IsActive(a)
    /\ coordinator[a].at = "claim" /\ batches'[a].cancel =>
         \/ batches[a].cancel /\ \A k \in Keys : items'[a][k].status = items[a][k].status
         \/ \A k \in Keys : items'[a][k].status # "queued"

LEMMA UndisturbedOK ==
  ASSUME NEW a \in Batches, CoordinatedOK(a), Undisturbed(a)
  PROVE  CoordinatedOK(a)'
BY DEF CoordinatedOK, Undisturbed

LEMMA RunsUndisturbed ==
  ASSUME Inv, Coordinated, NEW b \in Batches, NEW k \in Keys, RunItem(b, k) \/ KeepFails(b, k)
  PROVE  \A a \in Batches : Undisturbed(a)
<1> SUFFICES ASSUME NEW a \in Batches
             PROVE  Undisturbed(a)
  OBVIOUS
<1>1. Types /\ BatchesOK /\ CoordinatedOK(b)
  BY DEF Inv, Coordinated
<1>2. runner[b][k] # Gone
  BY RunnerRow DEF RunItem, Prepare, PrepareFails, Register, CheckCancel, StopCandidate,
     Enter, ReadResult, Decide, Settle, Keep, KeepFails
<1>3. UNCHANGED coordinator
  BY DEF RunItem, Prepare, PrepareFails, Register, CheckCancel, StopCandidate,
     Enter, ReadResult, Decide, Settle, Keep, KeepFails
<1>4. PICK r : runner' = [runner EXCEPT ![b][k] = r]
  BY DEF RunItem, Prepare, PrepareFails, Register, CheckCancel, StopCandidate, Enter,
         ReadResult, Decide, Settle, Keep, KeepFails, RunnerGoes
<1>5. \A j \in Keys : runner[a][j] = Gone => runner'[a][j] = Gone
  BY <1>1, <1>2, <1>4 DEF Types
<1>6. IsActive(a)' => IsActive(a)
  <2>1. CASE Settle(b, k)
    BY <1>1, <2>1, SettledStatus
  <2> QED
    BY <2>1 DEF RunItem, Prepare, PrepareFails, Register, CheckCancel,
       StopCandidate, Enter, ReadResult, Decide, Keep, KeepFails, rows, IsActive
<1>7. batches'[a].cancel = batches[a].cancel
  <2>1. CASE Settle(b, k)
    BY <1>1, <2>1, RefreshedCancel DEF Settle
  <2> QED
    BY <2>1 DEF RunItem, Prepare, PrepareFails, Register, CheckCancel,
       StopCandidate, Enter, ReadResult, Decide, Keep, KeepFails, rows
<1>8. coordinator[a].at = "claim" => a # b
  BY <1>1, <1>2 DEF CoordinatedOK
<1>9. a # b => items'[a] = items[a]
  BY <1>1 DEF RunItem, Prepare, PrepareFails, Register, CheckCancel,
       StopCandidate, Enter, ReadResult, Decide, Settle, Keep, KeepFails, rows, Types
<1> QED
  BY <1>3, <1>5, <1>6, <1>7, <1>8, <1>9 DEF Undisturbed

LEMMA CoordinateCoordinated ==
  ASSUME Inv, Coordinated, NEW b \in Batches, Coordinate(b) \/ CoordinatorRaises(b)
  PROVE  /\ CoordinatedOK(b)'
         /\ \A a \in Batches : a # b => Undisturbed(a)
<1>1. Types /\ BatchesOK /\ CoordinatedOK(b)
  BY DEF Inv, Coordinated
<1>2. /\ coordinator \in [Batches -> Coordinators]
      /\ runner \in [Batches -> [Keys -> Runners]]
      /\ items \in [Batches -> [Keys -> ItemRows]] /\ batches \in [Batches -> BatchRows]
  BY <1>1 DEF Types
<1>3. ASSUME NEW a \in Batches, a # b
      PROVE  Undisturbed(a)
  <2>1. /\ coordinator'[a] = coordinator[a] /\ runner'[a] = runner[a]
        /\ items'[a] = items[a] /\ batches'[a] = batches[a]
    BY <1>2, <1>3 DEF Coordinate, StartBatch, Look, Claim, Gather, FailBatch,
       CoordinatorRaises, Coordinates, Refreshed, Cancelling, CancelledItems, rows
  <2> QED
    BY <2>1 DEF Undisturbed, IsActive
<1> SUFFICES CoordinatedOK(b)'
  BY <1>3
<1>4. CASE StartBatch(b)
  <2>1. /\ coordinator[b] = NoCoordinator /\ IsActive(b) /\ UNCHANGED runner
        /\ coordinator'[b] = [at |-> "look", waits |-> {}]
    BY <1>2, <1>4 DEF StartBatch, Coordinates, IsActive
  <2>2. \A k \in Keys : runner'[b][k] = Gone
    BY <1>1, <2>1, CoordinatorRow DEF CoordinatedOK
  <2>3. coordinator'[b].at = "look"
    BY <2>1
  <2> QED
    BY <2>2, <2>3 DEF CoordinatedOK
<1>5. CASE Look(b)
  <2>1. coordinator[b].at = "look" /\ UNCHANGED runner
    BY <1>5 DEF Look
  <2>2. \A k \in Keys : runner'[b][k] = Gone
    BY <1>1, <2>1 DEF CoordinatedOK
  <2>3. \/ coordinator'[b] = NoCoordinator
        \/ /\ coordinator'[b] = [at |-> "claim", waits |-> {}]
           /\ ~ batches[b].cancel /\ UNCHANGED batches
    BY <1>2, <1>5 DEF Look, Coordinates
  <2>4. \/ coordinator'[b].at = "none"
        \/ coordinator'[b].at = "claim" /\ ~ batches'[b].cancel
    BY <2>3, CoordinatorRow
  <2> QED
    BY <2>2, <2>4 DEF CoordinatedOK
<1>6. CASE Claim(b)
  <2>1. PICK S \in Claimable(b) :
          /\ runner' = [runner EXCEPT ![b] = [k \in Keys |-> IF k \in S
               THEN [at |-> "prepare", candidate |-> None, to |-> "none"] ELSE runner[b][k]]]
          /\ IF S = {} THEN Coordinates(b, "look", {}) ELSE Coordinates(b, "wait", S)
    BY <1>6 DEF Claim
  <2>2. \A k \in Keys : runner[b][k] = Gone
    BY <1>1, <1>6 DEF Claim, CoordinatedOK
  <2>3. \A k \in Keys : k \notin S => runner'[b][k] = Gone
    BY <1>2, <2>1, <2>2
  <2>4. \/ S = {} /\ coordinator'[b] = [at |-> "look", waits |-> {}]
        \/ coordinator'[b] = [at |-> "wait", waits |-> S]
    BY <1>2, <2>1 DEF Coordinates
  <2>5. CASE S = {} /\ coordinator'[b].at = "look"
    BY <2>3, <2>5 DEF CoordinatedOK
  <2>6. CASE coordinator'[b].at = "wait" /\ coordinator'[b].waits = S
    BY <2>3, <2>6 DEF CoordinatedOK
  <2> QED
    BY <2>4, <2>5, <2>6
<1>7. CASE Gather(b)
  <2>1. /\ coordinator[b].at = "wait" /\ UNCHANGED runner
        /\ \A k \in coordinator[b].waits : runner[b][k] = Gone
        /\ coordinator'[b] = [at |-> "look", waits |-> {}]
    BY <1>2, <1>7 DEF Gather, Coordinates
  <2>2. \A k \in Keys : runner'[b][k] = Gone
    BY <1>1, <2>1 DEF CoordinatedOK
  <2>3. coordinator'[b].at = "look"
    BY <2>1
  <2> QED
    BY <2>2, <2>3 DEF CoordinatedOK
<1>8. CASE FailBatch(b)
  <2>1. coordinator'[b] = NoCoordinator /\ ~ IsActive(b)'
    BY <1>2, <1>8 DEF FailBatch, IsActive, BatchRows, BatchActive
  <2> QED
    BY <2>1, CoordinatorRow DEF CoordinatedOK
<1>9. CASE CoordinatorRaises(b)
  <2>1. \/ coordinator'[b] = [at |-> "fail", waits |-> {}]
        \/ coordinator'[b] = NoCoordinator /\ ~ IsActive(b) /\ UNCHANGED batches
    BY <1>2, <1>9 DEF CoordinatorRaises, Coordinates, IsActive, rows
  <2>2. \/ coordinator'[b].at = "fail"
        \/ coordinator'[b].at = "none" /\ ~ IsActive(b)'
    BY <2>1, CoordinatorRow DEF IsActive
  <2> QED
    BY <2>2 DEF CoordinatedOK
<1> QED
  BY <1>4, <1>5, <1>6, <1>7, <1>8, <1>9 DEF Coordinate

LEMMA CancelCoordinated ==
  ASSUME Inv, NEW b \in Batches, CancelBatch(b), NEW a \in Batches
  PROVE  Undisturbed(a)
<1>1. /\ IsActive(b) /\ Cancelling(b) /\ UNCHANGED <<coordinator, runner>>
      /\ items \in [Batches -> [Keys -> ItemRows]] /\ batches \in [Batches -> BatchRows]
  BY DEF CancelBatch, IsActive, threads, Inv, Types
<1>2. CASE a # b
  <2>1. items'[a] = items[a] /\ batches'[a] = batches[a]
    BY <1>1, <1>2 DEF Cancelling, CancelledItems
  <2> QED
    BY <1>1, <2>1 DEF Undisturbed, IsActive
<1>3. CASE a = b
  <2>1. \A k \in Keys : items'[b][k].status # "queued"
    <3> SUFFICES ASSUME NEW k \in Keys
                 PROVE  items'[b][k].status # "queued"
      OBVIOUS
    <3>1. items[b][k] \in ItemRows
      BY <1>1
    <3>2. items'[b][k] = IF items[b][k].status = "queued"
                         THEN [items[b][k] EXCEPT !.status = "cancelled"] ELSE items[b][k]
      BY <1>1 DEF Cancelling, CancelledItems
    <3> QED
      BY <3>1, <3>2 DEF ItemRows
  <2> QED
    BY <1>1, <1>3, <2>1 DEF Undisturbed
<1> QED
  BY <1>2, <1>3

LEMMA CreateCoordinated ==
  ASSUME Inv, NEW r \in Requests, NEW b \in Batches, CreateBatch(r, b)
  PROVE  \A a \in Batches : CoordinatedOK(a) => CoordinatedOK(a)'
<1>1. /\ UNCHANGED <<runner, coordinator>> /\ batches[b] = NoBatch
      /\ \A d \in Batches : d # b => batches'[d] = batches[d] /\ items'[d] = items[d]
  BY DEF CreateBatch, Inv, Types
<1>2. coordinator[b] = NoCoordinator /\ \A k \in Keys : runner[b][k] = Gone
  BY <1>1 DEF Inv, BatchesOK, BatchOK, NoBatch
<1>3. CoordinatedOK(b)'
  BY <1>1, <1>2, CoordinatorRow DEF CoordinatedOK
<1>4. \A a \in Batches : a # b => Undisturbed(a)
  BY <1>1 DEF Undisturbed, IsActive
<1> QED
  BY <1>3, <1>4, UndisturbedOK

LEMMA CoordinatedGoesOn ==
  ASSUME Inv, Coordinated, [Next]_vars
  PROVE  Coordinated'
<1>1. ASSUME \A a \in Batches : Undisturbed(a)
      PROVE  Coordinated'
  BY <1>1, UndisturbedOK DEF Coordinated
<1>2. ASSUME UNCHANGED <<batches, items, coordinator, runner>>
      PROVE  Coordinated'
  BY <1>1, <1>2 DEF Undisturbed, IsActive
<1>3. ASSUME NEW b \in Batches, Coordinate(b) \/ CoordinatorRaises(b)
      PROVE  Coordinated'
  BY <1>3, CoordinateCoordinated, UndisturbedOK DEF Coordinated
<1>4. ASSUME NEW c \in Candidates,
             Generate(c) \/ CancelOne(c) \/ DeleteOne(c) \/ ReferFails(c)
      PROVE  Coordinated'
  BY <1>2, <1>4 DEF Generate, ReferOne, StartGeneration, ExplainNodes, Validate, Publish,
     FinalizeOne, CancelOne, DeleteOne, ReferFails, Quiet, threads, rows
<1>5. ASSUME NEW c \in Candidates, NEW k \in Keys, NEW s \in Snapshots, NEW p \in Prompts,
             NEW named \in Named, PrepareOne(c, k, s, p, named)
      PROVE  Coordinated'
  BY <1>2, <1>5 DEF PrepareOne
<1>6. CASE \/ \E r \in Requests, s \in Snapshots, p \in Prompts : PlanBatch(r, s, p)
           \/ \E r \in Requests, b \in Batches : PlanRetry(r, b)
           \/ UNCHANGED vars
  BY <1>2, <1>6 DEF PlanBatch, PlanRetry, Plans, rows, vars, threads
<1>7. CASE Restart
  BY <1>7, CoordinatorRow DEF Restart, Coordinated, CoordinatedOK
<1>8. ASSUME NEW r \in Requests, NEW b \in Batches, CreateBatch(r, b)
      PROVE  Coordinated'
  BY <1>8, CreateCoordinated DEF Coordinated
<1> QED
  BY <1>1, <1>3, <1>4, <1>5, <1>6, <1>7, <1>8, CancelCoordinated, RunsUndisturbed DEF Next

(* Every reachable state satisfies the invariants.                         *)
THEOREM Invariance == Spec => [](Inv /\ ThreadsOK /\ Coordinated)
<1>1. Init => Inv /\ ThreadsOK /\ Coordinated
  <2> SUFFICES ASSUME Init
               PROVE  Inv /\ ThreadsOK /\ Coordinated
    OBVIOUS
  <2>1. /\ \A b \in Batches, k \in Keys : runner[b][k] = Gone
        /\ \A b \in Batches : coordinator[b] = NoCoordinator
    BY DEF Init
  <2>2. ThreadsOK
    BY <2>1, RunnerRow DEF ThreadsOK, ThreadOK, Holding
  <2>3. Coordinated
    BY <2>1, CoordinatorRow DEF Coordinated, CoordinatedOK
  <2> QED
    BY <2>2, <2>3, InitOK
<1>2. /\ Inv /\ ThreadsOK /\ Coordinated /\ [Next]_vars
      => Inv' /\ ThreadsOK' /\ Coordinated'
  BY InvStays, ThreadsGoOn, CoordinatedGoesOn
<1> QED
  BY <1>1, <1>2, PTL DEF Spec

-----------------------------------------------------------------------------
(* What the runs check *)

(* Rows have their types and no two batches of a snapshot and a prompt are *)
(* active; what has ended has no work and no thread that explains, and     *)
(* generates nothing any more after it was cancelled - wherever between    *)
(* the steps of a thread the cancellation comes.                           *)
THEOREM EndedIsAtRestHolds == Spec => []EndedIsAtRest
<1>1. Inv => TypeOK
  BY DEF Inv, Types, BatchesOK, OneIsActive, IsActive, TypeOK, CandidateRows, BatchRows,
         CandidateStatuses, BatchStatuses, ItemRows, ItemStatuses, References
<1>2. Inv => EndedHasNoWork
  <2> SUFFICES ASSUME Inv, NEW b \in Batches \ broken, batches[b].status \notin BatchActive,
                      NEW k \in Keys
               PROVE  /\ items[b][k].status \notin BatchActive
                      /\ runner[b][k].at \notin Explaining
    BY DEF EndedHasNoWork
  <2>1. items[b][k].status \notin BatchActive
    BY DEF Inv, BatchesOK, BatchOK
  <2> QED
    BY <2>1, AtWork DEF Explaining, Holding, BatchActive
<1>3. Inv => CancelledStops
  <2> SUFFICES ASSUME Inv, NEW c \in Candidates, NEW b \in Batches, candidates[c].batch = b,
                      batches[b].status \notin BatchActive, b \notin broken, ~ crashed
               PROVE  candidates[c].status \notin InFlight
    BY DEF CancelledStops, Inv, Types, CandidateRows
  <2>1. \A k \in Keys : ~ RunsFor(b, k, c)
    <3> SUFFICES ASSUME NEW k \in Keys, runner[b][k].at \in Holding
                 PROVE  FALSE
      BY DEF RunsFor
    <3>1. items[b][k].status = "running"
      BY AtWork DEF Holding
    <3> QED
      BY <3>1 DEF Inv, BatchesOK, BatchOK, BatchActive
  <2> QED
    BY <2>1 DEF Inv, RunnersOK
<1>4. Inv => EndedIsAtRest
  BY <1>1, <1>2, <1>3 DEF EndedIsAtRest
<1> QED
  BY <1>4, Invariance, PTL

(* Each endpoint of a completed batch has been explained, and the          *)
(* reference of a candidate that a user asked for tells whether it has an  *)
(* explanation.                                                            *)
THEOREM ExplanationsAreKeptHolds == Spec => []ExplanationsAreKept
<1>1. Inv => CompletedMeansExplained
  <2> SUFFICES ASSUME Inv, NEW b \in Batches, NEW k \in Keys,
                      batches[b].status = "completed", items[b][k] # NoItem
               PROVE  Explained(k)
    BY DEF CompletedMeansExplained, Explained
  <2>1. items[b][k].status \in {"completed", "skipped"}
    BY DEF Inv, BatchesOK, BatchOK
  <2> QED
    BY <2>1 DEF Inv, AllExplained
<1>2. Inv => SinglesAreProtected
  BY DEF Inv, CandidateOK, SinglesAreProtected
<1>3. Inv => ExplanationsAreKept
  BY <1>1, <1>2 DEF ExplanationsAreKept
<1> QED
  BY <1>3, Invariance, PTL

(* No item of a cancelled batch is run again, although a thread may queue  *)
(* its item after the cancellation, and the coordinator may claim items    *)
(* that it has seen queued before.                                         *)
LEMMA NotResumed ==
  ASSUME Inv, Coordinated, [Next]_vars
  PROVE  CancelledIsNotResumed
<1> SUFFICES ASSUME NEW b \in Batches, NEW k \in Keys, batches[b].cancel,
                    items[b][k].status # "running", items'[b][k].status = "running"
             PROVE  FALSE
  BY DEF CancelledIsNotResumed
<1>1. Types /\ BatchesOK /\ CoordinatedOK(b)
  BY DEF Inv, Coordinated
<1>2. /\ items \in [Batches -> [Keys -> ItemRows]] /\ items[b][k] \in ItemRows
      /\ items' # items
  BY <1>1 DEF Types
<1>3. ASSUME NEW a \in Batches, Cancelling(a)
      PROVE  FALSE
  <2>1. items'[b][k] \in {items[b][k], [items[b][k] EXCEPT !.status = "cancelled"]}
    BY <1>2, <1>3 DEF Cancelling, CancelledItems
  <2> QED
    BY <1>2, <2>1 DEF ItemRows
<1>4. ASSUME NEW a \in Batches, Claim(a)
      PROVE  FALSE
  <2>1. PICK S \in Claimable(a) :
          items' = [items EXCEPT ![a] = [j \in Keys |-> IF j \in S
              THEN [items[a][j] EXCEPT !.status = "running", !.tries = @ + 1]
              ELSE items[a][j]]]
    BY <1>4 DEF Claim
  <2>2. a = b /\ k \in S
    BY <1>2, <2>1
  <2>3. items[b][k].status = "queued" /\ coordinator[b].at = "claim"
    BY <1>4, <2>2 DEF Claimable, Claim
  <2> QED
    BY <1>1, <2>3 DEF CoordinatedOK
<1>5. ASSUME NEW a \in Batches, CancelBatch(a) \/ Coordinate(a) \/ CoordinatorRaises(a)
      PROVE  FALSE
  BY <1>2, <1>3, <1>4, <1>5 DEF CancelBatch, Coordinate, StartBatch, Look, Gather, FailBatch,
     CoordinatorRaises, rows
<1>6. ASSUME NEW a \in Batches, NEW j \in Keys, RunItem(a, j) \/ KeepFails(a, j)
      PROVE  FALSE
  <2>1. CASE Settle(a, j)
    <3>1. runner[a][j].to \in {"failed", "queued", "cancelled", "completed"}
      BY <1>1, <2>1, RunnerIs DEF Settle
    <3>2. items'[b][k] \in {items[b][k], [items[b][k] EXCEPT !.status = runner[a][j].to]}
      BY <1>2, <2>1 DEF Settle
    <3> QED
      BY <1>2, <3>1, <3>2 DEF ItemRows
  <2>2. CASE Register(a, j)
    <3>1. \/ items'[b][k] = items[b][k]
          \/ items'[b][k] = [items[b][k] EXCEPT !.candidate = runner[a][j].candidate]
      BY <1>2, <2>2 DEF Register
    <3> QED
      BY <1>2, <3>1 DEF ItemRows
  <2> QED
    BY <1>2, <1>6, <2>1, <2>2 DEF RunItem, Prepare, PrepareFails, CheckCancel,
       StopCandidate, Enter, ReadResult, Decide, Keep, KeepFails, rows
<1>7. ASSUME NEW r \in Requests, NEW a \in Batches, CreateBatch(r, a)
      PROVE  FALSE
  <2>1. batches[a] = NoBatch /\ (a # b => items'[b] = items[b])
    BY <1>2, <1>7 DEF CreateBatch
  <2> QED
    BY <1>2, <2>1 DEF NoBatch
<1>8. ASSUME Restart
      PROVE  FALSE
  <2>1. items'[b][k] \in {items[b][k], [items[b][k] EXCEPT !.status = "queued"]}
    BY <1>8 DEF Restart, Requeued
  <2> QED
    BY <1>2, <2>1 DEF ItemRows
<1>9. ASSUME NEW c \in Candidates,
             Generate(c) \/ CancelOne(c) \/ DeleteOne(c) \/ ReferFails(c)
      PROVE  FALSE
  BY <1>2, <1>9 DEF Generate, ReferOne, StartGeneration, ExplainNodes, Validate, Publish,
     FinalizeOne, CancelOne, DeleteOne, ReferFails, Quiet, rows
<1>10. ASSUME NEW c \in Candidates, NEW j \in Keys, NEW s \in Snapshots, NEW p \in Prompts,
              NEW named \in Named, PrepareOne(c, j, s, p, named)
       PROVE  FALSE
  BY <1>2, <1>10 DEF PrepareOne
<1>11. ASSUME \/ \E r \in Requests, s \in Snapshots, p \in Prompts : PlanBatch(r, s, p)
              \/ \E r \in Requests, a \in Batches : PlanRetry(r, a)
              \/ UNCHANGED vars
       PROVE  FALSE
  BY <1>2, <1>11 DEF PlanBatch, PlanRetry, Plans, rows, vars
<1> QED
  BY <1>5, <1>6, <1>7, <1>8, <1>9, <1>10, <1>11 DEF Next

(* A candidate that has ended is not written any more, except that it may  *)
(* be deleted; and no item of a cancelled batch is run again.              *)
THEOREM EndedStaysHolds == Spec => EndedStays
<1>1. Inv /\ [Next]_vars => [NoCandidateRevives]_vars
  BY CandidatesGoOn DEF GoesOn, NoCandidateRevives
<1>2. Inv /\ Coordinated /\ [Next]_vars => CancelledIsNotResumed
  BY NotResumed
<1>3. Inv /\ Coordinated /\ [Next]_vars => [NoCandidateRevives /\ CancelledIsNotResumed]_vars
  BY <1>1, <1>2
<1> QED
  BY <1>3, Invariance, PTL DEF Spec, EndedStays
=============================================================================
