------------------------- MODULE AnalysisRunsProofs -------------------------
(***************************************************************************)
(* Theorems about AnalysisRuns for every set of runs, members, threads and *)
(* keys and every pipeline of stages.                                      *)
(*                                                                         *)
(* The order is: type correctness; who holds which attempt; the race       *)
(* between cancelling and publishing; one active attempt per member; the   *)
(* status of runs; the release of what threads reserve; and that           *)
(* AnalysisRuns implements AttemptLifecycle.                               *)
(***************************************************************************)
EXTENDS AnalysisRuns, TLAPS

-----------------------------------------------------------------------------
(* Types *)

(* Splitting an attempt identifier into its run and its member. *)
LEMMA AttemptParts ==
    ASSUME NEW a \in Attempts
    PROVE  a[1] \in Runs /\ a[2] \in Members /\ a = <<a[1], a[2]>>
BY DEF Attempts

(* The aggregate of any outcomes is a status of a created run. *)
LEMMA AggregateType ==
    ASSUME NEW outcomes, NEW anyStarted \in BOOLEAN
    PROVE  AggregateRunStatus(outcomes, anyStarted) \in RunStatuses \ {"none"}
BY DEF AggregateRunStatus, RunStatuses, TerminalRunStatuses

LEMMA RecomputedType ==
    ASSUME NEW row \in RunRows, NEW r, NEW table
    PROVE  /\ Recomputed(row, r, table) \in RunRows
           /\ Recomputed(row, r, table).status = RunStatus(row, r, table)
           /\ Recomputed(row, r, table).status # "none"
           /\ Recomputed(row, r, table).selected = row.selected
           /\ Recomputed(row, r, table).blocker = row.blocker
           /\ Recomputed(row, r, table).key = row.key
           /\ Recomputed(row, r, table).completions
                = Completions(row, RunStatus(row, r, table))
<1>1. RunStatus(row, r, table) \in RunStatuses \ {"none"}
  BY AggregateType DEF RunStatus
<1>2. Completions(row, RunStatus(row, r, table)) \in Nat
  BY DEF Completions, RunRows
<1> QED
  BY <1>1, <1>2 DEF Recomputed, RunRows

(* An attempt row with another status and stage is an attempt row. *)
LEMMA RowUpdate ==
    ASSUME NEW row \in AttemptRows, NEW status \in AttemptStatuses,
           NEW stage \in Stages
    PROVE  [row EXCEPT !.status = status, !.stage = stage] \in AttemptRows
BY DEF AttemptRows

LEMMA ClaimedRow ==
    ASSUME NEW row \in AttemptRows
    PROVE  [row EXCEPT !.status = "running", !.stage = "validating",
                       !.started = TRUE] \in AttemptRows
<1>1. "running" \in AttemptStatuses /\ "validating" \in Stages
  BY DEF AttemptStatuses, ActiveStatuses, Stages
<1> QED
  BY <1>1 DEF AttemptRows

LEMMA StoreType ==
    ASSUME TypeOK, NEW a \in Attempts, NEW row \in AttemptRows, Store(a, row)
    PROVE  /\ attempt' \in [Attempts -> AttemptRows]
           /\ run' \in [Runs -> RunRows]
<1>1. a[1] \in Runs
  BY AttemptParts
<1>2. Recomputed(run[a[1]], a[1], attempt') \in RunRows
  BY <1>1, RecomputedType DEF TypeOK
<1> QED
  BY <1>1, <1>2 DEF Store, TypeOK

(* The number of a new attempt. *)
LEMMA NewRowNumber ==
  ASSUME NEW m, NEW retryOf
  PROVE  NewRow(m, retryOf).no = lastNo[m] + 1
BY DEF NewRow, NoRow

LEMMA InsertRunType ==
    ASSUME TypeOK, NEW r \in Runs, NEW S \in SUBSET Members,
           NEW key \in Keys \cup {NoKey},
           NEW retryOf \in [Members -> Attempts \cup {NoAttempt}],
           InsertRun(r, S, key, retryOf)
    PROVE  /\ attempt' \in [Attempts -> AttemptRows]
           /\ run' \in [Runs -> RunRows]
           /\ lastNo' \in [Members -> Nat]
<1> DEFINE queued == {m \in S : ~ Busy(m)}
           active(m) == CHOOSE a \in Attempts : a[2] = m /\ Active(a)
           blocker == [m \in Members |->
                         IF m \in S /\ Busy(m) THEN active(m) ELSE NoAttempt]
           row == [NoRun EXCEPT !.selected = S, !.key = key,
                                !.blocker = blocker]
<1>1. ASSUME NEW m \in Members
      PROVE  NewRow(m, retryOf[m]) \in AttemptRows
  <2>1. lastNo[m] + 1 \in Nat /\ retryOf[m] \in Attempts \cup {NoAttempt}
    BY DEF TypeOK
  <2>2. "pending" \in AttemptStatuses /\ "queued" \in Stages
    BY DEF AttemptStatuses, ActiveStatuses, Stages
  <2> QED
    BY <2>1, <2>2 DEF NewRow, NoRow, AttemptRows
<1>2. attempt' \in [Attempts -> AttemptRows]
  BY <1>1, AttemptParts DEF InsertRun, TypeOK
<1>3. blocker \in [Members -> Attempts \cup {NoAttempt}]
  BY DEF Busy
<1>4. row \in RunRows
  BY <1>3 DEF NoRun, RunRows, RunStatuses
<1>5. run' = [run EXCEPT ![r] = Recomputed(row, r, attempt')]
  BY DEF InsertRun
<1>6. Recomputed(row, r, attempt') \in RunRows
  BY <1>4, RecomputedType
<1>7. run' \in [Runs -> RunRows]
  BY <1>5, <1>6 DEF TypeOK
<1>8. lastNo' \in [Members -> Nat]
  <2>1. \A m \in Members : lastNo[m] + 1 \in Nat
    BY DEF TypeOK
  <2>2. \A m \in Members : NewRow(m, retryOf[m]).no \in Nat
    BY <2>1, NewRowNumber
  <2> QED
    BY <2>2 DEF InsertRun, TypeOK
<1> QED
  BY <1>2, <1>7, <1>8

(* A thread has a job exactly when it is not idle, and a dead process has  *)
(* no busy threads.                                                        *)
JobInv ==
    /\ \A w \in Workers : job[w] = NoAttempt <=> pc[w] = "idle"
    /\ ~ up => \A w \in Workers : pc[w] = "idle"

TypeInv == TypeOK /\ JobInv

LEMMA FinishType ==
    ASSUME TypeOK, NEW a \in Attempts, NEW status \in AttemptStatuses,
           Finish(a, status)
    PROVE  /\ attempt' \in [Attempts -> AttemptRows]
           /\ run' \in [Runs -> RunRows]
<1>1. [attempt[a] EXCEPT !.status = status, !.stage = "finished"] \in AttemptRows
  BY RowUpdate DEF TypeOK, Stages
<1> QED
  BY <1>1, StoreType DEF Finish, TypeOK

(* The state functions keep their types, and threads keep their jobs. *)
LEMMA TypeStep ==
    ASSUME TypeInv, [Next]_vars
    PROVE  TypeInv'
<1> USE DEF TypeInv
<1>1. ASSUME NEW m \in Members, RetireMember(m)
      PROVE  TypeInv'
  BY <1>1 DEF RetireMember, TypeOK, JobInv
<1>2. ASSUME NEW r \in Runs, NEW S \in SUBSET Members,
             NEW key \in Keys \cup {NoKey}, CreateRun(r, S, key)
      PROVE  TypeInv'
  <2>1. [m \in Members |-> NoAttempt] \in [Members -> Attempts \cup {NoAttempt}]
    OBVIOUS
  <2> QED
    BY <1>2, <2>1, InsertRunType DEF CreateRun, TypeOK, JobInv
<1>3. ASSUME NEW r \in Runs, NEW new \in Runs, NEW S \in SUBSET Members,
             RetryRun(r, new, S)
      PROVE  TypeInv'
  <2>1. [m \in Members |-> IF m \in S THEN <<r, m>> ELSE NoAttempt]
          \in [Members -> Attempts \cup {NoAttempt}]
    BY DEF Attempts
  <2>2. /\ attempt' \in [Attempts -> AttemptRows]
        /\ run' \in [Runs -> RunRows]
        /\ lastNo' \in [Members -> Nat]
    BY <1>3, <2>1, InsertRunType DEF RetryRun
  <2> QED
    BY <1>3, <2>2 DEF RetryRun, TypeOK, JobInv
<1>4. ASSUME NEW a \in Attempts, RequestCancel(a)
      PROVE  TypeInv'
  <2>1. "cancelled" \in AttemptStatuses /\ "finished" \in Stages
    BY DEF AttemptStatuses, TerminalStatuses, Stages
  <2>2. Cancelled(attempt[a]) \in AttemptRows
    BY <2>1 DEF Cancelled, TypeOK, AttemptRows
  <2> QED
    BY <1>4, <2>2, StoreType DEF RequestCancel, TypeOK, JobInv
<1>5. ASSUME NEW w \in Workers, Work(w)
      PROVE  TypeInv'
  <2>1. CASE \E a \in Attempts : Claim(w, a)
    <3>1. PICK a \in Attempts : Claim(w, a)
      BY <2>1
    <3>2. [attempt[a] EXCEPT !.status = "running", !.stage = "validating",
                             !.started = TRUE] \in AttemptRows
      BY ClaimedRow DEF TypeOK
    <3>3. attempt' \in [Attempts -> AttemptRows] /\ run' \in [Runs -> RunRows]
      BY <3>1, <3>2, StoreType DEF Claim
    <3> QED
      BY <3>1, <3>3, NoAttemptAssumption
      DEF Claim, Goto, TypeOK, JobInv, Holding, Attempts
  <2>2. CASE \/ Execute(w) \/ CheckBoundary(w) \/ FinishStage(w)
             \/ StopCommand(w) \/ Raise(w) \/ RecheckCancel(w)
    <3>1. pc[w] # "idle"
      BY <2>2 DEF Execute, CheckBoundary, FinishStage, StopCommand, Raise,
                  RecheckCancel
    <3>2. up /\ job[w] \in Attempts
      BY <2>2, <3>1 DEF Execute, CheckBoundary, FinishStage, StopCommand,
                        Raise, RecheckCancel, TypeOK, JobInv
    <3>3. \E label \in Holding : pc' = [pc EXCEPT ![w] = label]
      BY <2>2 DEF Execute, CheckBoundary, FinishStage, StopCommand, Raise,
                  RecheckCancel, Goto, Holding
    <3>4. reserved' \subseteq Attempts
      BY <2>2, <3>2 DEF Execute, CheckBoundary, FinishStage, StopCommand, Raise,
                        RecheckCancel, TypeOK
    <3>5. UNCHANGED <<retired, run, attempt, lastNo, up, job>>
      BY <2>2 DEF Execute, CheckBoundary, FinishStage, StopCommand, Raise,
                  RecheckCancel
    <3> QED
      BY <3>1, <3>2, <3>3, <3>4, <3>5 DEF TypeOK, JobInv, Holding
  <2>3. CASE \E stage \in Stages : SetStage(w, stage)
    <3>1. PICK stage \in Stages : SetStage(w, stage)
      BY <2>3
    <3>2. job[w] \in Attempts
      BY <3>1 DEF SetStage, TypeOK, JobInv
    <3>3. [attempt[job[w]] EXCEPT !.stage = stage] \in AttemptRows
      BY <3>2 DEF TypeOK, AttemptRows
    <3>4. attempt' \in [Attempts -> AttemptRows] /\ run' \in [Runs -> RunRows]
      BY <3>1, <3>2, <3>3, StoreType DEF SetStage, TypeOK
    <3> QED
      BY <3>1, <3>4 DEF SetStage, Goto, TypeOK, JobInv, Holding
  <2>4. CASE \E status \in SuccessStatuses : PublishSnapshot(w, status)
    <3>1. PICK status \in SuccessStatuses : PublishSnapshot(w, status)
      BY <2>4
    <3>2. job[w] \in Attempts
      BY <3>1 DEF PublishSnapshot, TypeOK, JobInv
    <3>3. status \in AttemptStatuses /\ "finished" \in Stages
      BY DEF AttemptStatuses, TerminalStatuses, Stages
    <3>4. [attempt[job[w]] EXCEPT !.status = status, !.stage = "finished"]
            \in AttemptRows
      BY <3>2, <3>3, RowUpdate DEF TypeOK
    <3>5. attempt' \in [Attempts -> AttemptRows] /\ run' \in [Runs -> RunRows]
      BY <3>1, <3>2, <3>4, StoreType DEF PublishSnapshot, TypeOK
    <3> QED
      BY <3>1, <3>5 DEF PublishSnapshot, Goto, TypeOK, JobInv, Holding
  <2>5. CASE FinishCancelled(w) \/ FinishFailed(w) \/ HandleEscaped(w)
    <3>1. job[w] \in Attempts
      BY <2>5 DEF FinishCancelled, FinishFailed, HandleEscaped, TypeOK, JobInv
    <3>2. {"cancelled", "failed"} \subseteq AttemptStatuses
      BY DEF AttemptStatuses, TerminalStatuses
    <3>3. attempt' \in [Attempts -> AttemptRows] /\ run' \in [Runs -> RunRows]
      BY <2>5, <3>1, <3>2, FinishType
      DEF FinishCancelled, FinishFailed, HandleEscaped
    <3> QED
      BY <2>5, <3>3 DEF FinishCancelled, FinishFailed, HandleEscaped, Goto,
                        TypeOK, JobInv, Holding
  <2>6. CASE ReleaseStorage(w)
    BY <2>6 DEF ReleaseStorage, Goto, TypeOK, JobInv, Holding
  <2> QED
    BY <1>5, <2>1, <2>2, <2>3, <2>4, <2>5, <2>6 DEF Work
<1>6. CASE Crash
  BY <1>6 DEF Crash, TypeOK, JobInv
<1>7. CASE Restart
  <2>1. attempt' \in [Attempts -> AttemptRows]
    BY <1>7 DEF Restart, Interrupted, TypeOK, AttemptRows, AttemptStatuses,
                TerminalStatuses
  <2>2. run' \in [Runs -> RunRows]
    BY <1>7, RecomputedType DEF Restart, TypeOK
  <2> QED
    BY <1>7, <2>1, <2>2 DEF Restart, TypeOK, JobInv
<1>8. CASE UNCHANGED vars
  BY <1>8 DEF vars, TypeOK, JobInv
<1> QED
  BY <1>1, <1>2, <1>3, <1>4, <1>5, <1>6, <1>7, <1>8 DEF Next, Request

LEMMA TypeInit == Init => TypeInv
<1> SUFFICES ASSUME Init PROVE TypeInv
  OBVIOUS
<1>1. NoRow \in AttemptRows
  BY DEF NoRow, AttemptRows, AttemptStatuses, Stages
<1>2. NoRun \in RunRows
  BY DEF NoRun, RunRows, RunStatuses
<1> QED
  BY <1>1, <1>2 DEF Init, TypeInv, TypeOK, JobInv

LEMMA TypeInvariant == Spec => []TypeInv
BY TypeInit, TypeStep, PTL DEF Spec

(* Every variable keeps its type. *)
THEOREM TypeCorrect == Spec => []TypeOK
BY TypeInvariant, PTL DEF TypeInv

-----------------------------------------------------------------------------
(* What a step does to the tables.  The invariants on runs and attempts    *)
(* follow from this description; only those on threads need the actions.   *)

(* The rows an attempt may get from the one it has. *)
Moves(old, new) ==
    /\ new.no = old.no /\ new.retryOf = old.retryOf
    /\ \/ new = old
       \/ /\ old.status = "pending" /\ new.status = "running"
          /\ new.cancel = old.cancel
       \/ /\ old.status = "pending" /\ new.status = "cancelled"
          /\ new.cancel
       \/ /\ old.status = "running" /\ new.status = "running"
          /\ new.cancel \/ new.cancel = old.cancel
       \/ /\ old.status = "running" /\ new.status \in SuccessStatuses
          /\ ~ old.cancel /\ ~ new.cancel
       \/ /\ old.status = "running" /\ new.status = "failed"
          /\ new.cancel = old.cancel
       \/ /\ old.status = "running" /\ new.status = "cancelled"
          /\ new.cancel = old.cancel

StoreStep(a, row) ==
    /\ attempt[a].status # "none"
    /\ Moves(attempt[a], row)
    /\ Store(a, row)
    /\ UNCHANGED lastNo

InsertStep(r, S, key, retryOf) ==
    /\ ~ Created(r)
    /\ ~ KeyIsUsed(key)
    /\ InsertRun(r, S, key, retryOf)
    /\ \A m \in Members :
         retryOf[m] # NoAttempt =>
           /\ retryOf[m] \in Attempts /\ retryOf[m][2] = m
           /\ attempt[retryOf[m]].status \in RetryableStatuses

Inserts ==
    \E r \in Runs, S \in SUBSET Members, key \in Keys \cup {NoKey},
       retryOf \in [Members -> Attempts \cup {NoAttempt}] :
      InsertStep(r, S, key, retryOf)

Stores == \E a \in Attempts, row \in AttemptRows : StoreStep(a, row)

Quiet == UNCHANGED <<run, attempt, lastNo>>

Effect == Quiet \/ Inserts \/ Stores \/ Restart

(* Writing a terminal status over a running attempt is a move. *)
LEMMA FinishEffect ==
    ASSUME TypeInv, NEW a \in Attempts, NEW status \in {"failed", "cancelled"},
           Finish(a, status), UNCHANGED lastNo
    PROVE  Quiet \/ Stores
<1> DEFINE row == [attempt[a] EXCEPT !.status = status, !.stage = "finished"]
<1>1. CASE attempt[a].status = "running"
  <2>1. attempt[a] \in AttemptRows
    BY DEF TypeInv, TypeOK
  <2>2. "finished" \in Stages /\ status \in AttemptStatuses
    BY DEF Stages, AttemptStatuses, TerminalStatuses
  <2>3. row \in AttemptRows
    BY <2>1, <2>2, RowUpdate
  <2>4. Moves(attempt[a], row)
    BY <1>1, <2>1 DEF Moves, AttemptRows
  <2>5. Store(a, row)
    BY <1>1 DEF Finish
  <2> QED
    BY <1>1, <2>3, <2>4, <2>5 DEF Stores, StoreStep
<1>2. CASE attempt[a].status # "running"
  BY <1>2 DEF Finish, Quiet
<1> QED
  BY <1>1, <1>2

LEMMA WorkEffect ==
    ASSUME TypeInv, NEW w \in Workers, Work(w)
    PROVE  Quiet \/ Stores
<1>1. CASE \E a \in Attempts : Claim(w, a)
  <2>1. PICK a \in Attempts : Claim(w, a)
    BY <1>1
  <2> DEFINE row == [attempt[a] EXCEPT !.status = "running",
                       !.stage = "validating", !.started = TRUE]
  <2>2. attempt[a] \in AttemptRows
    BY DEF TypeInv, TypeOK
  <2>3. row \in AttemptRows
    BY <2>2, ClaimedRow
  <2>4. attempt[a].status = "pending" /\ Store(a, row) /\ UNCHANGED lastNo
    BY <2>1 DEF Claim, Claimable
  <2>5. Moves(attempt[a], row)
    BY <2>2, <2>4 DEF Moves, AttemptRows
  <2> QED
    BY <2>3, <2>4, <2>5 DEF Stores, StoreStep
<1>2. CASE \E stage \in Stages : SetStage(w, stage)
  <2>1. PICK stage \in Stages : SetStage(w, stage)
    BY <1>2
  <2> DEFINE row == [attempt[job[w]] EXCEPT !.stage = stage]
  <2>2. job[w] \in Attempts
    BY <2>1 DEF SetStage, TypeInv, TypeOK, JobInv
  <2>3. CASE attempt[job[w]].status = "running"
    <3>1. attempt[job[w]] \in AttemptRows
      BY <2>2 DEF TypeInv, TypeOK
    <3>2. row \in AttemptRows
      BY <3>1 DEF AttemptRows
    <3>3. Moves(attempt[job[w]], row)
      BY <2>3, <3>1 DEF Moves, AttemptRows
    <3>4. Store(job[w], row) /\ UNCHANGED lastNo
      BY <2>1, <2>3 DEF SetStage
    <3> QED
      BY <2>2, <2>3, <3>2, <3>3, <3>4 DEF Stores, StoreStep
  <2>4. CASE attempt[job[w]].status # "running"
    BY <2>1, <2>4 DEF SetStage, Quiet
  <2> QED
    BY <2>3, <2>4
<1>3. CASE \E status \in SuccessStatuses : PublishSnapshot(w, status)
  <2>1. PICK status \in SuccessStatuses : PublishSnapshot(w, status)
    BY <1>3
  <2> DEFINE row == [attempt[job[w]] EXCEPT !.status = status,
                                            !.stage = "finished"]
  <2>2. job[w] \in Attempts
    BY <2>1 DEF PublishSnapshot, TypeInv, TypeOK, JobInv
  <2>3. CASE MayPublish(attempt[job[w]])
    <3>1. attempt[job[w]] \in AttemptRows
      BY <2>2 DEF TypeInv, TypeOK
    <3>2. status \in AttemptStatuses /\ "finished" \in Stages
      BY DEF AttemptStatuses, TerminalStatuses, Stages
    <3>3. row \in AttemptRows
      BY <3>1, <3>2, RowUpdate
    <3>4. Moves(attempt[job[w]], row)
      BY <2>3, <3>1 DEF Moves, AttemptRows, MayPublish
    <3>5. Store(job[w], row) /\ UNCHANGED lastNo
      BY <2>1, <2>3 DEF PublishSnapshot
    <3>6. attempt[job[w]].status # "none"
      BY <2>3 DEF MayPublish
    <3> QED
      BY <2>2, <3>3, <3>4, <3>5, <3>6 DEF Stores, StoreStep
  <2>4. CASE ~ MayPublish(attempt[job[w]])
    BY <2>1, <2>4 DEF PublishSnapshot, Quiet
  <2> QED
    BY <2>3, <2>4
<1>4. CASE FinishCancelled(w) \/ FinishFailed(w) \/ HandleEscaped(w)
  <2>1. job[w] \in Attempts
    BY <1>4 DEF FinishCancelled, FinishFailed, HandleEscaped, TypeInv, TypeOK,
                JobInv
  <2>2. \E status \in {"failed", "cancelled"} :
          Finish(job[w], status) /\ UNCHANGED lastNo
    BY <1>4 DEF FinishCancelled, FinishFailed, HandleEscaped
  <2> QED
    BY <2>1, <2>2, FinishEffect
<1>5. CASE \/ Execute(w) \/ CheckBoundary(w) \/ FinishStage(w)
           \/ StopCommand(w) \/ Raise(w) \/ RecheckCancel(w)
           \/ ReleaseStorage(w)
  BY <1>5 DEF Execute, CheckBoundary, FinishStage, StopCommand, Raise,
              RecheckCancel, ReleaseStorage, Quiet
<1> QED
  BY <1>1, <1>2, <1>3, <1>4, <1>5 DEF Work

(* Both ways of creating a run insert rows for a run that is not there. *)
LEMMA RequestInserts ==
    ASSUME NEW r \in Runs, NEW S \in SUBSET Members,
           \/ \E key \in Keys \cup {NoKey} : CreateRun(r, S, key)
           \/ \E old \in Runs : RetryRun(old, r, S)
    PROVE  Inserts /\ UNCHANGED <<up, pc, job>>
<1>1. CASE \E key \in Keys \cup {NoKey} : CreateRun(r, S, key)
  <2>1. PICK key \in Keys \cup {NoKey} : CreateRun(r, S, key)
    BY <1>1
  <2> DEFINE retryOf == [m \in Members |-> NoAttempt]
  <2>2. retryOf \in [Members -> Attempts \cup {NoAttempt}]
    OBVIOUS
  <2>3. InsertStep(r, S, key, retryOf)
    BY <2>1 DEF CreateRun, InsertStep
  <2> QED
    BY <2>1, <2>2, <2>3 DEF Inserts, CreateRun
<1>2. CASE \E old \in Runs : RetryRun(old, r, S)
  <2>1. PICK old \in Runs : RetryRun(old, r, S)
    BY <1>2
  <2> DEFINE retryOf == [m \in Members |->
                           IF m \in S THEN <<old, m>> ELSE NoAttempt]
  <2>2. retryOf \in [Members -> Attempts \cup {NoAttempt}]
    BY DEF Attempts
  <2>3. ASSUME NEW m \in Members, retryOf[m] # NoAttempt
        PROVE  /\ retryOf[m] \in Attempts /\ retryOf[m][2] = m
               /\ attempt[retryOf[m]].status \in RetryableStatuses
    BY <2>1, <2>3 DEF RetryRun, Retryable, Attempts
  <2>4. InsertStep(r, S, NoKey, retryOf)
    BY <2>1, <2>3 DEF RetryRun, InsertStep, KeyIsUsed
  <2> QED
    BY <2>1, <2>2, <2>4 DEF Inserts, RetryRun
<1> QED
  BY <1>1, <1>2

(* Every step has one of the four effects. *)
LEMMA Effects ==
    ASSUME TypeInv, [Next]_vars
    PROVE  Effect
<1>1. ASSUME NEW m \in Members, RetireMember(m)
      PROVE  Effect
  BY <1>1 DEF RetireMember, Effect, Quiet
<1>2. ASSUME NEW r \in Runs, NEW S \in SUBSET Members,
             NEW key \in Keys \cup {NoKey}, CreateRun(r, S, key)
      PROVE  Effect
  BY <1>2, RequestInserts DEF Effect
<1>3. ASSUME NEW r \in Runs, NEW new \in Runs, NEW S \in SUBSET Members,
             RetryRun(r, new, S)
      PROVE  Effect
  BY <1>3, RequestInserts DEF Effect
<1>4. ASSUME NEW a \in Attempts, RequestCancel(a)
      PROVE  Effect
  <2> DEFINE row == Cancelled(attempt[a])
  <2>1. attempt[a] \in AttemptRows
    BY DEF TypeInv, TypeOK
  <2>2. "cancelled" \in AttemptStatuses /\ "finished" \in Stages
    BY DEF AttemptStatuses, TerminalStatuses, Stages
  <2>3. row \in AttemptRows
    BY <2>1, <2>2 DEF Cancelled, AttemptRows
  <2>4. Moves(attempt[a], row)
    BY <2>1 DEF Moves, Cancelled, CancelAccepted, AttemptRows
  <2> QED
    BY <1>4, <2>3, <2>4 DEF RequestCancel, Effect, Stores, StoreStep
<1>5. ASSUME NEW w \in Workers, Work(w)
      PROVE  Effect
  BY <1>5, WorkEffect DEF Effect
<1>6. CASE Crash
  BY <1>6 DEF Crash, Effect, Quiet
<1>7. CASE Restart
  BY <1>7 DEF Effect
<1>8. CASE UNCHANGED vars
  BY <1>8 DEF vars, Effect, Quiet
<1> QED
  BY <1>1, <1>2, <1>3, <1>4, <1>5, <1>6, <1>7, <1>8 DEF Next, Request

-----------------------------------------------------------------------------
(* Runs know their attempts *)

(* An attempt belongs to a created run that selected its member and queued *)
(* it instead of recording it as already_running.                          *)
MemberInv ==
    \A a \in Attempts :
        attempt[a].status # "none" =>
            /\ Created(a[1])
            /\ a[2] \in run[a[1]].selected
            /\ run[a[1]].blocker[a[2]] = NoAttempt

(* Inserting a run adds pending attempts where there were none. *)
LEMMA InsertRows ==
    ASSUME TypeInv, MemberInv, NEW r \in Runs, NEW S \in SUBSET Members,
           NEW key, NEW retryOf, InsertStep(r, S, key, retryOf),
           NEW a \in Attempts
    PROVE  \/ /\ a[1] = r /\ a[2] \in S /\ ~ Busy(a[2])
              /\ attempt[a].status = "none"
              /\ attempt'[a] = NewRow(a[2], retryOf[a[2]])
              /\ attempt'[a].status = "pending"
              /\ attempt'[a].cancel = FALSE
              /\ attempt'[a].no = lastNo[a[2]] + 1
           \/ /\ ~ (a[1] = r /\ a[2] \in S /\ ~ Busy(a[2]))
              /\ attempt'[a] = attempt[a]
<1>1. attempt[a].status # "none" => a[1] # r
  BY DEF MemberInv, InsertStep
<1>2. attempt'[a] = IF a[1] = r /\ a[2] \in {m \in S : ~ Busy(m)}
                    THEN NewRow(a[2], retryOf[a[2]]) ELSE attempt[a]
  BY DEF InsertStep, InsertRun
<1>3. /\ NewRow(a[2], retryOf[a[2]]).status = "pending"
      /\ NewRow(a[2], retryOf[a[2]]).cancel = FALSE
      /\ NewRow(a[2], retryOf[a[2]]).no = lastNo[a[2]] + 1
  BY DEF NewRow, NoRow
<1> QED
  BY <1>1, <1>2, <1>3

(* Inserting a run writes only the row of that run. *)
LEMMA InsertRunRow ==
    ASSUME TypeInv, NEW r \in Runs, NEW S \in SUBSET Members,
           NEW key \in Keys \cup {NoKey}, NEW retryOf,
           InsertStep(r, S, key, retryOf)
    PROVE  /\ \A q \in Runs : q # r => run'[q] = run[q]
           /\ run'[r].status = RunStatus(run'[r], r, attempt')
           /\ run'[r].status # "none"
           /\ run'[r].selected = S /\ run'[r].key = key
           /\ \A m \in S : ~ Busy(m) => run'[r].blocker[m] = NoAttempt
           /\ run'[r].completions
                = IF run'[r].status \in TerminalRunStatuses THEN 1 ELSE 0
<1> DEFINE active(m) == CHOOSE a \in Attempts : a[2] = m /\ Active(a)
           blocker == [m \in Members |->
                         IF m \in S /\ Busy(m) THEN active(m) ELSE NoAttempt]
           row == [NoRun EXCEPT !.selected = S, !.key = key,
                                !.blocker = blocker]
<1>1. run' = [run EXCEPT ![r] = Recomputed(row, r, attempt')]
  BY DEF InsertStep, InsertRun
<1>2. blocker \in [Members -> Attempts \cup {NoAttempt}]
  BY DEF Busy
<1>3. /\ row \in RunRows
      /\ row.selected = S /\ row.blocker = blocker /\ row.completions = 0
      /\ row.key = key
  BY <1>2 DEF NoRun, RunRows, RunStatuses
<1>4. run'[r] = Recomputed(row, r, attempt')
  BY <1>1 DEF TypeInv, TypeOK
<1> HIDE DEF row
<1>5. /\ run'[r].status = RunStatus(row, r, attempt')
      /\ run'[r].status # "none"
      /\ run'[r].selected = S /\ run'[r].blocker = blocker
      /\ run'[r].key = key
      /\ run'[r].completions = Completions(row, RunStatus(row, r, attempt'))
  BY <1>3, <1>4, RecomputedType
<1>6. RunStatus(row, r, attempt') = RunStatus(run'[r], r, attempt')
  BY <1>3, <1>5 DEF RunStatus, Outcomes
<1>7. run'[r].completions
        = IF run'[r].status \in TerminalRunStatuses THEN 1 ELSE 0
  BY <1>3, <1>5 DEF Completions
<1> QED
  BY <1>1, <1>5, <1>6, <1>7 DEF TypeInv, TypeOK

(* Storing an attempt recomputes its run and leaves the other runs alone. *)
LEMMA StoreRunRow ==
    ASSUME TypeInv, NEW a \in Attempts, NEW row, Store(a, row)
    PROVE  /\ \A b \in Attempts : b # a => attempt'[b] = attempt[b]
           /\ attempt'[a] = row
           /\ \A q \in Runs : q # a[1] => run'[q] = run[q]
           /\ run'[a[1]] = Recomputed(run[a[1]], a[1], attempt')
           /\ run'[a[1]].status = RunStatus(run'[a[1]], a[1], attempt')
           /\ run'[a[1]].status # "none"
           /\ run'[a[1]].selected = run[a[1]].selected
           /\ run'[a[1]].blocker = run[a[1]].blocker
           /\ run'[a[1]].key = run[a[1]].key
           /\ run'[a[1]].completions
                = Completions(run[a[1]], run'[a[1]].status)
<1>1. a[1] \in Runs /\ run[a[1]] \in RunRows
  BY AttemptParts DEF TypeInv, TypeOK
<1>2. run'[a[1]] = Recomputed(run[a[1]], a[1], attempt')
  BY <1>1 DEF Store, TypeInv, TypeOK
<1>3. /\ run'[a[1]].status = RunStatus(run[a[1]], a[1], attempt')
      /\ run'[a[1]].status # "none"
      /\ run'[a[1]].selected = run[a[1]].selected
      /\ run'[a[1]].blocker = run[a[1]].blocker
      /\ run'[a[1]].key = run[a[1]].key
      /\ run'[a[1]].completions
           = Completions(run[a[1]], RunStatus(run[a[1]], a[1], attempt'))
  BY <1>1, <1>2, RecomputedType
<1>4. RunStatus(run[a[1]], a[1], attempt') = RunStatus(run'[a[1]], a[1], attempt')
  BY <1>3 DEF RunStatus, Outcomes
<1> QED
  BY <1>1, <1>2, <1>3, <1>4 DEF Store, TypeInv, TypeOK

(* A restart interrupts the active attempts and recomputes their runs. *)
LEMMA RestartRows ==
    ASSUME TypeInv, Restart
    PROVE  /\ \A a \in Attempts :
                /\ attempt'[a] = Interrupted(attempt[a])
                /\ attempt'[a].cancel = attempt[a].cancel
                /\ attempt'[a].no = attempt[a].no
                /\ attempt'[a].retryOf = attempt[a].retryOf
                /\ IF Active(a)
                   THEN attempt'[a].status = "interrupted"
                   ELSE attempt'[a] = attempt[a]
           /\ \A r \in Runs :
                \/ /\ \A a \in Attempts : a[1] = r => ~ Active(a)
                   /\ run'[r] = run[r]
                \/ /\ \E a \in Attempts : a[1] = r /\ Active(a)
                   /\ run'[r].status = RunStatus(run'[r], r, attempt')
                   /\ run'[r].status # "none"
                   /\ run'[r].selected = run[r].selected
                   /\ run'[r].blocker = run[r].blocker
                   /\ run'[r].key = run[r].key
                   /\ run'[r].completions = Completions(run[r], run'[r].status)
<1>1. ASSUME NEW a \in Attempts
      PROVE  /\ attempt'[a] = Interrupted(attempt[a])
             /\ attempt'[a].cancel = attempt[a].cancel
             /\ attempt'[a].no = attempt[a].no
             /\ attempt'[a].retryOf = attempt[a].retryOf
             /\ IF Active(a)
                THEN attempt'[a].status = "interrupted"
                ELSE attempt'[a] = attempt[a]
  <2>1. attempt[a] \in AttemptRows /\ attempt'[a] = Interrupted(attempt[a])
    BY DEF Restart, TypeInv, TypeOK
  <2> QED
    BY <2>1 DEF Interrupted, Active, AttemptRows
<1>2. ASSUME NEW r \in Runs, \E a \in Attempts : a[1] = r /\ Active(a)
      PROVE  /\ run'[r].status = RunStatus(run'[r], r, attempt')
             /\ run'[r].status # "none"
             /\ run'[r].selected = run[r].selected
             /\ run'[r].blocker = run[r].blocker
             /\ run'[r].key = run[r].key
             /\ run'[r].completions = Completions(run[r], run'[r].status)
  <2>1. run[r] \in RunRows /\ run'[r] = Recomputed(run[r], r, attempt')
    BY <1>2 DEF Restart, TypeInv, TypeOK
  <2>2. /\ run'[r].status = RunStatus(run[r], r, attempt')
        /\ run'[r].status # "none"
        /\ run'[r].selected = run[r].selected
        /\ run'[r].blocker = run[r].blocker
        /\ run'[r].key = run[r].key
        /\ run'[r].completions
             = Completions(run[r], RunStatus(run[r], r, attempt'))
    BY <2>1, RecomputedType
  <2>3. RunStatus(run[r], r, attempt') = RunStatus(run'[r], r, attempt')
    BY <2>2 DEF RunStatus, Outcomes
  <2> QED
    BY <2>2, <2>3
<1>3. ASSUME NEW r \in Runs, ~ \E a \in Attempts : a[1] = r /\ Active(a)
      PROVE  run'[r] = run[r]
  BY <1>3 DEF Restart
<1> QED
  BY <1>1, <1>2, <1>3

LEMMA MemberStep ==
    ASSUME TypeInv, MemberInv, Effect
    PROVE  MemberInv'
<1> SUFFICES ASSUME NEW a \in Attempts, attempt'[a].status # "none"
             PROVE  /\ run'[a[1]].status # "none"
                    /\ a[2] \in run'[a[1]].selected
                    /\ run'[a[1]].blocker[a[2]] = NoAttempt
  BY DEF MemberInv, Created
<1>0. a[1] \in Runs
  BY AttemptParts
<1>1. CASE Quiet
  BY <1>1 DEF Quiet, MemberInv, Created
<1>2. CASE Inserts
  <2>1. PICK r \in Runs, S \in SUBSET Members, key \in Keys \cup {NoKey},
             retryOf \in [Members -> Attempts \cup {NoAttempt}] :
               InsertStep(r, S, key, retryOf)
    BY <1>2 DEF Inserts
  <2>2. CASE a[1] = r
    <3>1. attempt[a].status = "none"
      BY <2>1, <2>2 DEF MemberInv, InsertStep
    <3>2. a[2] \in S /\ ~ Busy(a[2])
      BY <2>1, <2>2, <3>1, InsertRows
    <3> QED
      BY <2>1, <2>2, <3>2, InsertRunRow
  <2>3. CASE a[1] # r
    <3>1. run'[a[1]] = run[a[1]]
      BY <1>0, <2>1, <2>3, InsertRunRow
    <3>2. attempt[a].status # "none"
      BY <2>1, <2>3, InsertRows
    <3> QED
      BY <3>1, <3>2 DEF MemberInv, Created
  <2> QED
    BY <2>2, <2>3
<1>3. CASE Stores
  <2>1. PICK b \in Attempts, row \in AttemptRows : StoreStep(b, row)
    BY <1>3 DEF Stores
  <2>2. attempt[a].status # "none"
    BY <2>1, StoreRunRow DEF StoreStep
  <2> QED
    BY <1>0, <2>1, <2>2, StoreRunRow DEF StoreStep, MemberInv, Created
<1>4. CASE Restart
  <2>1. attempt[a].status # "none"
    BY <1>4, RestartRows DEF Active, ActiveStatuses
  <2> QED
    BY <1>0, <1>4, <2>1, RestartRows DEF MemberInv, Created
<1> QED
  BY <1>1, <1>2, <1>3, <1>4 DEF Effect

-----------------------------------------------------------------------------
(* Attempts of one member *)

(* What a move does not do: revive, or rewrite what has ended. *)
LEMMA MoveFacts ==
    ASSUME NEW old \in AttemptRows, NEW new \in AttemptRows,
           Moves(old, new), old.status # "none"
    PROVE  /\ new.status # "none"
           /\ new.status \in ActiveStatuses => old.status \in ActiveStatuses
           /\ old.status \notin ActiveStatuses => new = old
           /\ new.no = old.no /\ new.retryOf = old.retryOf
           /\ new.cancel \/ ~ old.cancel
BY DEF Moves, ActiveStatuses, SuccessStatuses, AttemptRows

LEMMA StoreRows ==
    ASSUME TypeInv, NEW a \in Attempts, NEW row \in AttemptRows,
           StoreStep(a, row), NEW b \in Attempts
    PROVE  /\ attempt'[b].no = attempt[b].no
           /\ attempt'[b].retryOf = attempt[b].retryOf
           /\ attempt[b].status # "none" <=> attempt'[b].status # "none"
           /\ attempt'[b].status \in ActiveStatuses
                => attempt[b].status \in ActiveStatuses
           /\ attempt[b].status \notin ActiveStatuses
                => attempt'[b] = attempt[b]
<1>1. attempt[a] \in AttemptRows /\ attempt[b] \in AttemptRows
  BY DEF TypeInv, TypeOK
<1>2. b # a => attempt'[b] = attempt[b]
  BY StoreRunRow DEF StoreStep
<1>3. attempt'[a] = row
  BY StoreRunRow DEF StoreStep
<1> QED
  BY <1>1, <1>2, <1>3, MoveFacts DEF StoreStep

LEMMA OneActiveStep ==
    ASSUME TypeInv, MemberInv, OneActiveAttempt, Effect
    PROVE  OneActiveAttempt'
<1> SUFFICES ASSUME NEW a \in Attempts, NEW b \in Attempts,
                    attempt'[a].status \in ActiveStatuses,
                    attempt'[b].status \in ActiveStatuses, a[2] = b[2]
             PROVE  a = b
  BY DEF OneActiveAttempt, Active
<1>1. CASE Quiet
  BY <1>1 DEF Quiet, OneActiveAttempt, Active
<1>2. CASE Inserts
  <2>1. PICK r \in Runs, S \in SUBSET Members, key \in Keys \cup {NoKey},
             retryOf \in [Members -> Attempts \cup {NoAttempt}] :
               InsertStep(r, S, key, retryOf)
    BY <1>2 DEF Inserts
  <2> DEFINE New(c) == c[1] = r /\ c[2] \in S /\ ~ Busy(c[2])
  <2>2. \A c \in Attempts : ~ New(c) => attempt'[c] = attempt[c]
    BY <2>1, InsertRows
  <2>3. CASE New(a) /\ New(b)
    BY <2>3, AttemptParts
  <2>4. CASE ~ New(a) /\ ~ New(b)
    BY <2>2, <2>4 DEF OneActiveAttempt, Active
  <2>5. CASE New(a) /\ ~ New(b)
    BY <2>2, <2>5 DEF Busy, Active
  <2>6. CASE ~ New(a) /\ New(b)
    BY <2>2, <2>6 DEF Busy, Active
  <2> QED
    BY <2>3, <2>4, <2>5, <2>6
<1>3. CASE Stores
  BY <1>3, StoreRows DEF Stores, OneActiveAttempt, Active
<1>4. CASE Restart
  <2>1. attempt'[a].status \notin ActiveStatuses
    BY <1>4, RestartRows DEF Active, ActiveStatuses
  <2> QED
    BY <2>1
<1> QED
  BY <1>1, <1>2, <1>3, <1>4 DEF Effect

(* Numbers are bounded by the counter of the member, distinct, and in the  *)
(* order in which the attempts ended.                                      *)
SerialInv ==
    /\ \A a \in Attempts :
         attempt[a].status # "none" => attempt[a].no <= lastNo[a[2]]
    /\ AttemptsAreSerial

LEMMA SerialStep ==
    ASSUME TypeInv, MemberInv, SerialInv, Effect
    PROVE  SerialInv'
<1> DEFINE Exists(a) == attempt[a].status # "none"
<1>0. \A a \in Attempts : /\ attempt[a] \in AttemptRows
                          /\ attempt[a].no \in Nat /\ a[2] \in Members
                          /\ lastNo[a[2]] \in Nat
                          /\ Exists(a) => Active(a) \/ Terminal(a)
  BY AttemptParts DEF TypeInv, TypeOK, AttemptRows, AttemptStatuses, Active,
                      Terminal
<1>1. CASE Quiet
  BY <1>1 DEF Quiet, SerialInv, AttemptsAreSerial, Terminal
<1>2. CASE Inserts
  <2>1. PICK r \in Runs, S \in SUBSET Members, key \in Keys \cup {NoKey},
             retryOf \in [Members -> Attempts \cup {NoAttempt}] :
               InsertStep(r, S, key, retryOf)
    BY <1>2 DEF Inserts
  <2> DEFINE New(c) == c[1] = r /\ c[2] \in S /\ ~ Busy(c[2])
  <2>2. \A c \in Attempts :
          /\ New(c) => attempt'[c].no = lastNo[c[2]] + 1
          /\ ~ New(c) => attempt'[c] = attempt[c]
    BY <2>1, InsertRows
  <2>3. \A c \in Attempts :
          /\ lastNo'[c[2]] >= lastNo[c[2]]
          /\ New(c) => lastNo'[c[2]] = lastNo[c[2]] + 1
    BY <1>0, <2>1, NewRowNumber DEF InsertStep, InsertRun
  <2>4. ASSUME NEW a \in Attempts, attempt'[a].status # "none"
        PROVE  attempt'[a].no <= lastNo'[a[2]]
    <3>1. CASE New(a)
      BY <1>0, <2>2, <2>3, <3>1
    <3>2. CASE ~ New(a)
      <4>1. attempt[a].no <= lastNo[a[2]]
        BY <2>2, <2>4, <3>2 DEF SerialInv
      <4>2. lastNo'[a[2]] \in Nat
        BY <1>0, <2>1, InsertRunType DEF InsertStep, TypeInv
      <4> QED
        BY <1>0, <2>2, <2>3, <3>2, <4>1, <4>2
    <3> QED
      BY <3>1, <3>2
  <2>5. ASSUME NEW a \in Attempts, NEW b \in Attempts, a # b, a[2] = b[2],
               attempt'[a].status # "none", attempt'[b].status # "none"
        PROVE  /\ attempt'[a].no # attempt'[b].no
               /\ attempt'[a].no < attempt'[b].no
                    => attempt'[a].status \in TerminalStatuses
    <3>1. ~ (New(a) /\ New(b))
      BY <2>5, AttemptParts
    <3>2. CASE New(a) /\ ~ New(b)
      <4>1. attempt[b].no <= lastNo[b[2]]
        BY <2>2, <2>5, <3>2 DEF SerialInv
      <4> QED
        BY <1>0, <2>2, <2>5, <3>2, <4>1
    <3>3. CASE ~ New(a) /\ New(b)
      <4>1. attempt[a].no <= lastNo[a[2]]
        BY <2>2, <2>5, <3>3 DEF SerialInv
      <4>2. Terminal(a)
        BY <1>0, <2>2, <2>5, <3>3 DEF Busy
      <4> QED
        BY <1>0, <2>2, <2>5, <3>3, <4>1, <4>2 DEF Terminal
    <3>4. CASE ~ New(a) /\ ~ New(b)
      BY <2>2, <2>5, <3>4 DEF SerialInv, AttemptsAreSerial, Terminal
    <3> QED
      BY <3>1, <3>2, <3>3, <3>4
  <2> QED
    BY <2>4, <2>5 DEF SerialInv, AttemptsAreSerial, Terminal
<1>3. CASE Stores
  <2>1. PICK s \in Attempts, row \in AttemptRows : StoreStep(s, row)
    BY <1>3 DEF Stores
  <2>2. \A a \in Attempts :
          /\ attempt'[a].no = attempt[a].no
          /\ attempt[a].status # "none" <=> attempt'[a].status # "none"
          /\ Terminal(a) => attempt'[a].status \in TerminalStatuses
    BY <2>1, StoreRows DEF Terminal, TerminalStatuses, SuccessStatuses,
                           ActiveStatuses
  <2>3. UNCHANGED lastNo
    BY <2>1 DEF StoreStep
  <2> QED
    BY <2>2, <2>3 DEF SerialInv, AttemptsAreSerial, Terminal
<1>4. CASE Restart
  <2>1. \A a \in Attempts :
          /\ attempt'[a].no = attempt[a].no
          /\ attempt[a].status # "none" <=> attempt'[a].status # "none"
          /\ Terminal(a) => attempt'[a].status \in TerminalStatuses
    BY <1>4, RestartRows DEF Terminal, TerminalStatuses, Active, ActiveStatuses
  <2>2. UNCHANGED lastNo
    BY <1>4 DEF Restart
  <2> QED
    BY <2>1, <2>2 DEF SerialInv, AttemptsAreSerial, Terminal
<1> QED
  BY <1>1, <1>2, <1>3, <1>4 DEF Effect

LEMMA RetryStep ==
    ASSUME TypeInv, MemberInv, SerialInv, RetriesPointBack, Effect
    PROVE  RetriesPointBack'
<1> SUFFICES ASSUME NEW a \in Attempts, NEW b, b = attempt'[a].retryOf,
                    b # NoAttempt
             PROVE  /\ b[2] = a[2]
                    /\ attempt'[b].status \in RetryableStatuses
                    /\ attempt'[b].no < attempt'[a].no
  BY DEF RetriesPointBack
<1>0. /\ \A c \in Attempts : attempt[c] \in AttemptRows
      /\ \A c \in Attempts : attempt[c].status \in RetryableStatuses =>
           /\ attempt[c].status \notin ActiveStatuses
           /\ attempt[c].status # "none"
  BY DEF TypeInv, TypeOK, RetryableStatuses, ActiveStatuses
<1>1. attempt[a].retryOf \in Attempts \cup {NoAttempt}
  BY <1>0 DEF AttemptRows
<1>2. CASE Quiet
  BY <1>2 DEF Quiet, RetriesPointBack
<1>3. CASE Inserts
  <2>1. PICK r \in Runs, S \in SUBSET Members, key \in Keys \cup {NoKey},
             retryOf \in [Members -> Attempts \cup {NoAttempt}] :
               InsertStep(r, S, key, retryOf)
    BY <1>3 DEF Inserts
  <2>2. ASSUME NEW c \in Attempts, attempt[c].status \in RetryableStatuses
        PROVE  attempt'[c] = attempt[c]
    BY <1>0, <2>1, <2>2, InsertRows
  <2>3. CASE attempt'[a] = attempt[a]
    BY <1>1, <2>2, <2>3 DEF RetriesPointBack
  <2>4. CASE attempt'[a] = NewRow(a[2], retryOf[a[2]])
    <3>1. b = retryOf[a[2]] /\ attempt'[a].no = lastNo[a[2]] + 1
      BY <2>4 DEF NewRow, NoRow
    <3>2. b \in Attempts /\ b[2] = a[2] /\ attempt[b].status \in RetryableStatuses
      BY <2>1, <3>1, AttemptParts DEF InsertStep
    <3>3. attempt[b].no <= lastNo[a[2]] /\ attempt[b].no \in Nat
      BY <1>0, <3>2 DEF SerialInv, AttemptRows
    <3>4. lastNo[a[2]] \in Nat
      BY AttemptParts DEF TypeInv, TypeOK
    <3> QED
      BY <2>2, <3>1, <3>2, <3>3, <3>4
  <2>5. \/ attempt'[a] = attempt[a]
        \/ attempt'[a] = NewRow(a[2], retryOf[a[2]])
    BY <2>1 DEF InsertStep, InsertRun
  <2> QED
    BY <2>3, <2>4, <2>5
<1>4. CASE Stores
  <2>1. PICK s \in Attempts, row \in AttemptRows : StoreStep(s, row)
    BY <1>4 DEF Stores
  <2>2. attempt'[a].no = attempt[a].no /\ attempt[a].retryOf = b
    BY <2>1, StoreRows
  <2>3. /\ b \in Attempts /\ b[2] = a[2]
        /\ attempt[b].status \in RetryableStatuses
        /\ attempt[b].no < attempt[a].no
    BY <1>1, <2>2 DEF RetriesPointBack
  <2>4. attempt'[b] = attempt[b]
    BY <1>0, <2>1, <2>3, StoreRows
  <2> QED
    BY <2>2, <2>3, <2>4
<1>5. CASE Restart
  <2>1. attempt'[a].no = attempt[a].no /\ attempt[a].retryOf = b
    BY <1>5, RestartRows
  <2>2. /\ b \in Attempts /\ b[2] = a[2]
        /\ attempt[b].status \in RetryableStatuses
        /\ attempt[b].no < attempt[a].no
    BY <1>1, <2>1 DEF RetriesPointBack
  <2>3. attempt'[b] = attempt[b]
    BY <1>0, <1>5, <2>2, RestartRows DEF Active
  <2> QED
    BY <2>1, <2>2, <2>3
<1> QED
  BY <1>2, <1>3, <1>4, <1>5 DEF Effect

-----------------------------------------------------------------------------
(* The status of runs *)

(* The aggregate is terminal exactly when no outcome is active. *)
LEMMA TerminalAggregate ==
    ASSUME NEW outcomes, NEW anyStarted \in BOOLEAN
    PROVE  AggregateRunStatus(outcomes, anyStarted) \in TerminalRunStatuses
             <=> "running" \notin outcomes /\ "pending" \notin outcomes
BY DEF AggregateRunStatus, TerminalRunStatuses

(* The aggregate depends only on the rows of the run's own attempts. *)
LEMMA SameStatus ==
    ASSUME NEW row \in RunRows, NEW r \in Runs, NEW table, NEW other,
           \A m \in Members : table[<<r, m>>] = other[<<r, m>>]
    PROVE  RunStatus(row, r, table) = RunStatus(row, r, other)
<1>1. \A m \in row.selected : table[<<r, m>>] = other[<<r, m>>]
  BY DEF RunRows
<1>2. Outcomes(row, r, table) = Outcomes(row, r, other)
  BY <1>1 DEF Outcomes
<1>3. (\E m \in row.selected : row.blocker[m] = NoAttempt /\ table[<<r, m>>].started)
        <=> (\E m \in row.selected :
               row.blocker[m] = NoAttempt /\ other[<<r, m>>].started)
  BY <1>1
<1> QED
  BY <1>2, <1>3 DEF RunStatus

RunInv == RunStatusIsAggregate /\ CompletedOnce

(* A run with an active attempt has not ended. *)
LEMMA ActiveRun ==
    ASSUME TypeInv, MemberInv, RunInv, NEW a \in Attempts, Active(a)
    PROVE  run[a[1]].status \notin TerminalRunStatuses
<1>1. /\ a[1] \in Runs /\ a = <<a[1], a[2]>>
      /\ attempt[a].status \in {"pending", "running"}
  BY AttemptParts DEF Active, ActiveStatuses
<1>2. /\ Created(a[1])
      /\ a[2] \in run[a[1]].selected
      /\ run[a[1]].blocker[a[2]] = NoAttempt
  BY <1>1 DEF MemberInv
<1>3. attempt[a].status \in Outcomes(run[a[1]], a[1], attempt)
  BY <1>1, <1>2 DEF Outcomes
<1>4. run[a[1]].status = RunStatus(run[a[1]], a[1], attempt)
  BY <1>1, <1>2 DEF RunInv, RunStatusIsAggregate
<1> QED
  BY <1>1, <1>3, <1>4, TerminalAggregate DEF RunStatus

(* A step keeps an attempt that has ended and a run that has ended. *)
Final ==
    /\ \A a \in Attempts : Terminal(a) => attempt'[a] = attempt[a]
    /\ \A r \in Runs :
         run[r].status \in TerminalRunStatuses => run'[r] = run[r]

LEMMA FinalStep ==
    ASSUME TypeInv, MemberInv, RunInv, Effect
    PROVE  Final
<1>0. \A a \in Attempts : Terminal(a) => ~ Active(a) /\ attempt[a].status # "none"
  BY DEF Terminal, Active, TerminalStatuses, SuccessStatuses, ActiveStatuses
<1>1. CASE Quiet
  BY <1>1 DEF Quiet, Final
<1>2. CASE Inserts
  <2>1. PICK r \in Runs, S \in SUBSET Members, key \in Keys \cup {NoKey},
             retryOf \in [Members -> Attempts \cup {NoAttempt}] :
               InsertStep(r, S, key, retryOf)
    BY <1>2 DEF Inserts
  <2>2. \A a \in Attempts : Terminal(a) => attempt'[a] = attempt[a]
    BY <1>0, <2>1, InsertRows
  <2>3. run[r].status \notin TerminalRunStatuses
    BY <2>1 DEF InsertStep, Created, TerminalRunStatuses
  <2> QED
    BY <2>1, <2>2, <2>3, InsertRunRow DEF Final
<1>3. CASE Stores
  <2>1. PICK s \in Attempts, row \in AttemptRows : StoreStep(s, row)
    BY <1>3 DEF Stores
  <2>2. \A a \in Attempts : Terminal(a) => attempt'[a] = attempt[a]
    BY <1>0, <2>1, StoreRows DEF Active
  <2>3. ASSUME NEW r \in Runs, run[r].status \in TerminalRunStatuses
        PROVE  run'[r] = run[r]
    <3>1. CASE r # s[1]
      BY <2>1, <3>1, StoreRunRow DEF StoreStep
    <3>2. CASE r = s[1]
      <4>1. ~ Active(s)
        BY <2>3, <3>2, ActiveRun
      <4>2. attempt' = attempt
        BY <2>1, <4>1, StoreRows DEF StoreStep, Store, TypeInv, TypeOK, Active
      <4>3. run'[r] = Recomputed(run[r], r, attempt)
        BY <2>1, <3>2, <4>2, StoreRunRow DEF StoreStep
      <4>4. Created(r)
        BY <2>3 DEF Created, TerminalRunStatuses
      <4>5. run[r] \in RunRows /\ run[r].status = RunStatus(run[r], r, attempt)
        BY <4>4 DEF RunInv, RunStatusIsAggregate, TypeInv, TypeOK
      <4>6. run[r].completions = 1
        BY <2>3 DEF RunInv, CompletedOnce
      <4>7. Completions(run[r], run[r].status) = run[r].completions
        BY <4>6 DEF Completions
      <4>8. run'[r] = [run[r] EXCEPT !.status = run[r].status,
                                     !.completions = run[r].completions]
        BY <4>3, <4>5, <4>7 DEF Recomputed
      <4> QED
        BY <4>5, <4>8 DEF RunRows
    <3> QED
      BY <3>1, <3>2
  <2> QED
    BY <2>2, <2>3 DEF Final
<1>4. CASE Restart
  <2>1. \A a \in Attempts : Terminal(a) => attempt'[a] = attempt[a]
    BY <1>0, <1>4, RestartRows
  <2>2. ASSUME NEW r \in Runs, run[r].status \in TerminalRunStatuses
        PROVE  run'[r] = run[r]
    <3>1. \A a \in Attempts : a[1] = r => ~ Active(a)
      BY <2>2, ActiveRun
    <3> QED
      BY <1>4, <3>1, RestartRows
  <2> QED
    BY <2>1, <2>2 DEF Final
<1> QED
  BY <1>1, <1>2, <1>3, <1>4 DEF Effect

LEMMA RunStep ==
    ASSUME TypeInv, TypeInv', MemberInv, RunInv, Effect
    PROVE  RunInv'
<1> SUFFICES ASSUME NEW r \in Runs
             PROVE  /\ run'[r].status # "none" =>
                         run'[r].status = RunStatus(run'[r], r, attempt')
                    /\ run'[r].completions =
                         IF run'[r].status \in TerminalRunStatuses THEN 1 ELSE 0
  BY DEF RunInv, RunStatusIsAggregate, CompletedOnce, Created
<1>0. /\ run[r] \in RunRows
      /\ run[r].status # "none" =>
           run[r].status = RunStatus(run[r], r, attempt)
      /\ run[r].completions =
           IF run[r].status \in TerminalRunStatuses THEN 1 ELSE 0
  BY DEF RunInv, RunStatusIsAggregate, CompletedOnce, Created, TypeInv, TypeOK
<1>1. ASSUME run'[r] = run[r],
             \A m \in Members : attempt'[<<r, m>>] = attempt[<<r, m>>]
      PROVE  RunStatus(run'[r], r, attempt') = RunStatus(run[r], r, attempt)
  BY <1>0, <1>1, SameStatus
<1>2. ASSUME run[r].status \notin TerminalRunStatuses,
             run'[r].completions = Completions(run[r], run'[r].status)
      PROVE  run'[r].completions =
               IF run'[r].status \in TerminalRunStatuses THEN 1 ELSE 0
  BY <1>0, <1>2 DEF Completions
<1>3. CASE Quiet
  BY <1>0, <1>3 DEF Quiet
<1>4. CASE Inserts
  <2>1. PICK q \in Runs, S \in SUBSET Members, key \in Keys \cup {NoKey},
             retryOf \in [Members -> Attempts \cup {NoAttempt}] :
               InsertStep(q, S, key, retryOf)
    BY <1>4 DEF Inserts
  <2>2. CASE r = q
    BY <2>1, <2>2, InsertRunRow
  <2>3. CASE r # q
    <3>1. run'[r] = run[r]
      BY <2>1, <2>3, InsertRunRow
    <3>2. ASSUME NEW m \in Members
          PROVE  attempt'[<<r, m>>] = attempt[<<r, m>>]
      <4>1. <<r, m>> \in Attempts
        BY DEF Attempts
      <4> QED
        BY <2>1, <2>3, <4>1, InsertRows
    <3> QED
      BY <1>0, <1>1, <3>1, <3>2
  <2> QED
    BY <2>2, <2>3
<1>5. CASE Stores
  <2>1. PICK s \in Attempts, row \in AttemptRows : StoreStep(s, row)
    BY <1>5 DEF Stores
  <2>2. CASE r # s[1]
    <3>1. run'[r] = run[r]
      BY <2>1, <2>2, StoreRunRow DEF StoreStep
    <3>2. ASSUME NEW m \in Members
          PROVE  attempt'[<<r, m>>] = attempt[<<r, m>>]
      <4>1. <<r, m>> \in Attempts /\ <<r, m>> # s
        BY <2>2 DEF Attempts
      <4> QED
        BY <2>1, <4>1, StoreRunRow DEF StoreStep
    <3> QED
      BY <1>0, <1>1, <3>1, <3>2
  <2>3. CASE r = s[1]
    <3>1. /\ run'[r].status = RunStatus(run'[r], r, attempt')
          /\ run'[r].completions = Completions(run[r], run'[r].status)
      BY <2>1, <2>3, StoreRunRow DEF StoreStep
    <3>2. CASE run[r].status \notin TerminalRunStatuses
      BY <1>2, <3>1, <3>2
    <3>3. CASE run[r].status \in TerminalRunStatuses
      <4>1. run'[r] = run[r]
        BY <1>5, <3>3, FinalStep DEF Final, Effect
      <4> QED
        BY <1>0, <3>1, <4>1
    <3> QED
      BY <3>1, <3>2, <3>3
  <2> QED
    BY <2>2, <2>3
<1>6. CASE Restart
  <2>1. CASE \A a \in Attempts : a[1] = r => ~ Active(a)
    <3>1. run'[r] = run[r]
      BY <1>6, <2>1, RestartRows
    <3>2. ASSUME NEW m \in Members
          PROVE  attempt'[<<r, m>>] = attempt[<<r, m>>]
      <4>1. <<r, m>> \in Attempts
        BY DEF Attempts
      <4> QED
        BY <1>6, <2>1, <4>1, RestartRows
    <3> QED
      BY <1>0, <1>1, <3>1, <3>2
  <2>2. CASE \E a \in Attempts : a[1] = r /\ Active(a)
    <3>1. run[r].status \notin TerminalRunStatuses
      BY <2>2, ActiveRun
    <3>2. /\ run'[r].status = RunStatus(run'[r], r, attempt')
          /\ run'[r].completions = Completions(run[r], run'[r].status)
      BY <1>6, <2>2, RestartRows
    <3> QED
      BY <1>2, <3>1, <3>2
  <2> QED
    BY <2>1, <2>2
<1> QED
  BY <1>3, <1>4, <1>5, <1>6 DEF Effect

-----------------------------------------------------------------------------
(* The keys of requests *)

(* A run keeps the key that it was created with. *)
LEMMA KeyIsKept ==
    ASSUME TypeInv, NEW r \in Runs, Quiet \/ Stores \/ Restart
    PROVE  run'[r].key = run[r].key
<1>1. CASE Quiet
  BY <1>1 DEF Quiet
<1>2. CASE Stores
  <2>1. PICK a \in Attempts, row \in AttemptRows : StoreStep(a, row)
    BY <1>2 DEF Stores
  <2> QED
    BY <2>1, StoreRunRow DEF StoreStep
<1>3. CASE Restart
  BY <1>3, RestartRows
<1> QED
  BY <1>1, <1>2, <1>3

LEMMA KeyStep ==
    ASSUME TypeInv, KeyNamesOneRun, Effect
    PROVE  KeyNamesOneRun'
<1>1. CASE Inserts
  <2>1. PICK r \in Runs, S \in SUBSET Members, key \in Keys \cup {NoKey},
             retryOf \in [Members -> Attempts \cup {NoAttempt}] :
               InsertStep(r, S, key, retryOf)
    BY <1>1 DEF Inserts
  <2>2. /\ run'[r].key = key
        /\ \A q \in Runs : q # r => run'[q].key = run[q].key
    BY <2>1, InsertRunRow
  <2>3. key # NoKey => \A q \in Runs : run[q].key # key
    BY <2>1 DEF InsertStep, KeyIsUsed
  <2> QED
    BY <2>2, <2>3 DEF KeyNamesOneRun
<1>2. CASE Quiet \/ Stores \/ Restart
  BY <1>2, KeyIsKept DEF KeyNamesOneRun
<1> QED
  BY <1>1, <1>2 DEF Effect

-----------------------------------------------------------------------------
(* The tables together *)

TableInv ==
    /\ TypeInv
    /\ MemberInv
    /\ OneActiveAttempt
    /\ SerialInv
    /\ RetriesPointBack
    /\ RunInv
    /\ KeyNamesOneRun

LEMMA TableInit == Init => TableInv
<1> SUFFICES ASSUME Init PROVE TableInv
  OBVIOUS
<1>1. TypeInv
  BY TypeInit
<1>2. \A a \in Attempts : attempt[a].status = "none" /\ attempt[a].retryOf = NoAttempt
  BY DEF Init, NoRow
<1>3. \A r \in Runs : run[r].status = "none" /\ run[r].completions = 0
  BY DEF Init, NoRun
<1>4. MemberInv /\ SerialInv /\ RetriesPointBack
  BY <1>2 DEF MemberInv, SerialInv, AttemptsAreSerial, RetriesPointBack
<1>5. OneActiveAttempt
  BY <1>2 DEF OneActiveAttempt, Active, ActiveStatuses
<1>6. RunInv
  BY <1>3 DEF RunInv, RunStatusIsAggregate, CompletedOnce, Created,
              TerminalRunStatuses
<1>7. KeyNamesOneRun
  BY DEF Init, NoRun, KeyNamesOneRun
<1> QED
  BY <1>1, <1>4, <1>5, <1>6, <1>7 DEF TableInv

LEMMA TableStep ==
    ASSUME TableInv, [Next]_vars
    PROVE  TableInv'
BY Effects, TypeStep, MemberStep, OneActiveStep, SerialStep, RetryStep, RunStep,
   KeyStep
DEF TableInv

LEMMA TableInvariant == Spec => []TableInv
BY TableInit, TableStep, PTL DEF Spec

(* A member never has two active attempts. *)
THEOREM OneActiveAttemptHolds == Spec => []OneActiveAttempt
BY TableInvariant, PTL DEF TableInv

(* The attempts of a member are numbered apart and follow one another. *)
THEOREM AttemptsAreSerialHolds == Spec => []AttemptsAreSerial
BY TableInvariant, PTL DEF TableInv, SerialInv

(* A retry refers to an earlier unsuccessful attempt of its member. *)
THEOREM RetriesPointBackHolds == Spec => []RetriesPointBack
BY TableInvariant, PTL DEF TableInv

(* The status of a run is the aggregate of its members after every step,   *)
(* and completed_at was written once, when the run ended.                  *)
THEOREM RunsAreAggregated == Spec => [](RunStatusIsAggregate /\ CompletedOnce)
BY TableInvariant, PTL DEF TableInv, RunInv

(* A request that is repeated under its key starts no second run. *)
THEOREM KeyNamesOneRunHolds == Spec => []KeyNamesOneRun
BY TableInvariant, PTL DEF TableInv

(* The attempts of a member come one after the other, whatever runs are    *)
(* created, retried, cancelled and interrupted around them.                *)
THEOREM AttemptsInOrderHolds == Spec => []AttemptsInOrder
BY OneActiveAttemptHolds, AttemptsAreSerialHolds, RetriesPointBackHolds, PTL
DEF AttemptsInOrder

(* The rows of runs agree with those of attempts and with the requests.    *)
THEOREM RunsAgreeHolds == Spec => []RunsAgree
BY RunsAreAggregated, KeyNamesOneRunHolds, PTL DEF RunsAgree

(* What has ended, attempt or run, is never rewritten. *)
THEOREM TerminalIsFinalHolds == Spec => TerminalIsFinal
<1>1. TableInv /\ [Next]_vars => [Final]_vars
  BY Effects, FinalStep DEF TableInv
<1>2. [Final]_vars
        <=> [/\ \A a \in Attempts : Terminal(a) => attempt'[a] = attempt[a]
             /\ \A r \in Runs :
                  run[r].status \in TerminalRunStatuses => run'[r] = run[r]]_vars
  BY DEF Final
<1> QED
  BY <1>1, <1>2, TableInvariant, PTL DEF Spec, TerminalIsFinal

-----------------------------------------------------------------------------
(* Threads, and the race between cancelling and publishing *)

(* What a thread knows of the attempt it works on.  The point where the    *)
(* race is decided is the write of the stage publishing: from then on      *)
(* request_cancel leaves the flag alone, so the last look at the flag      *)
(* (recheck) still holds when the snapshot is published.                   *)
ThreadOK(w) ==
    /\ pc[w] \in Holding => attempt[job[w]].status = "running"
    /\ pc[w] = "release" => Terminal(job[w])
    /\ pc[w] \in {"recheck", "publish"} => attempt[job[w]].stage = "publishing"
    /\ pc[w] = "publish" => ~ attempt[job[w]].cancel
    /\ pc[w] = "cancelled" => attempt[job[w]].cancel

FlagOK(row) ==
    /\ row.status \in SuccessStatuses => ~ row.cancel
    /\ row.status = "cancelled" => row.cancel
    /\ row.status = "none" => ~ row.cancel

ThreadInv ==
    /\ \A w \in Workers : ThreadOK(w)
    /\ \A a \in Attempts : FlagOK(attempt[a])
    /\ RunningIsOwned

(* A thread that is not moved, and whose attempt keeps its row, stays OK. *)
LEMMA BystanderOK ==
    ASSUME NEW v \in Workers, ThreadOK(v), pc'[v] = pc[v], job'[v] = job[v],
           attempt'[job[v]] = attempt[job[v]]
    PROVE  ThreadOK(v)'
BY DEF ThreadOK, Terminal

(* A thread that is not idle works on an attempt that exists. *)
LEMMA JobExists ==
    ASSUME TypeInv, ThreadInv, NEW w \in Workers, pc[w] # "idle"
    PROVE  /\ job[w] \in Attempts
           /\ attempt[job[w]].status # "none"
           /\ attempt[job[w]].status # "pending"
BY DEF TypeInv, TypeOK, JobInv, ThreadInv, ThreadOK, Terminal,
       TerminalStatuses, SuccessStatuses

(* Inserting a run disturbs no thread. *)
LEMMA InsertThread ==
    ASSUME TableInv, ThreadInv, Inserts, UNCHANGED <<up, pc, job>>
    PROVE  ThreadInv'
<1>1. PICK r \in Runs, S \in SUBSET Members, key \in Keys \cup {NoKey},
           retryOf \in [Members -> Attempts \cup {NoAttempt}] :
             InsertStep(r, S, key, retryOf)
  BY DEF Inserts
<1>2. \A a \in Attempts :
        \/ attempt'[a] = attempt[a]
        \/ /\ attempt[a].status = "none"
           /\ attempt'[a].status = "pending" /\ attempt'[a].cancel = FALSE
  BY <1>1, InsertRows DEF TableInv
<1>3. ASSUME NEW v \in Workers
      PROVE  ThreadOK(v)'
  <2>1. CASE pc[v] = "idle"
    BY <2>1 DEF ThreadOK, Holding
  <2>2. CASE pc[v] # "idle"
    <3>1. attempt'[job[v]] = attempt[job[v]]
      BY <1>2, <2>2, JobExists DEF TableInv
    <3> QED
      BY <3>1, BystanderOK DEF ThreadInv
  <2> QED
    BY <2>1, <2>2
<1>4. ASSUME NEW a \in Attempts
      PROVE  FlagOK(attempt'[a])
  BY <1>2 DEF ThreadInv, FlagOK, SuccessStatuses
<1>5. RunningIsOwned'
  BY <1>2 DEF ThreadInv, RunningIsOwned
<1> QED
  BY <1>3, <1>4, <1>5 DEF ThreadInv

LEMMA CancelThread ==
    ASSUME TableInv, ThreadInv, NEW a \in Attempts, RequestCancel(a)
    PROVE  ThreadInv'
<1>1. /\ attempt[a] \in AttemptRows
      /\ attempt'[a] = Cancelled(attempt[a])
      /\ \A b \in Attempts : b # a => attempt'[b] = attempt[b]
      /\ UNCHANGED <<up, pc, job>>
  BY StoreRunRow DEF RequestCancel, TableInv, TypeInv, TypeOK
<1>2. \/ attempt'[a] = attempt[a]
      \/ /\ attempt[a].status = "pending"
         /\ attempt'[a].status = "cancelled" /\ attempt'[a].cancel = TRUE
      \/ /\ attempt[a].status = "running" /\ attempt'[a].status = "running"
         /\ attempt[a].stage # "publishing"
         /\ attempt'[a].stage = attempt[a].stage /\ attempt'[a].cancel = TRUE
  BY <1>1 DEF Cancelled, CancelAccepted, AttemptRows
<1>3. ASSUME NEW v \in Workers
      PROVE  ThreadOK(v)'
  <2>1. CASE pc[v] = "idle"
    BY <1>1, <2>1 DEF ThreadOK, Holding
  <2>2. CASE pc[v] # "idle" /\ job[v] # a
    BY <1>1, <2>2, JobExists, BystanderOK DEF ThreadInv, TableInv
  <2>3. CASE pc[v] # "idle" /\ job[v] = a
    <3>1. attempt[a].status # "pending" /\ ThreadOK(v)
      BY <2>3, JobExists DEF ThreadInv, TableInv
    <3> QED
      BY <1>1, <1>2, <2>3, <3>1
      DEF ThreadOK, Terminal, TerminalStatuses, SuccessStatuses, Holding
  <2> QED
    BY <2>1, <2>2, <2>3
<1>4. ASSUME NEW b \in Attempts
      PROVE  FlagOK(attempt'[b])
  BY <1>1, <1>2 DEF ThreadInv, FlagOK, SuccessStatuses
<1>5. RunningIsOwned'
  BY <1>1, <1>2 DEF ThreadInv, RunningIsOwned
<1> QED
  BY <1>3, <1>4, <1>5 DEF ThreadInv

LEMMA ClaimThread ==
    ASSUME TableInv, ThreadInv, NEW w \in Workers, NEW a \in Attempts, Claim(w, a)
    PROVE  ThreadInv'
<1>1. /\ attempt[a] \in AttemptRows /\ attempt[a].status = "pending"
      /\ attempt'[a].status = "running"
      /\ attempt'[a].cancel = attempt[a].cancel
      /\ \A b \in Attempts : b # a => attempt'[b] = attempt[b]
  <2> DEFINE row == [attempt[a] EXCEPT !.status = "running",
                                       !.stage = "validating", !.started = TRUE]
  <2>1. attempt[a] \in AttemptRows /\ attempt[a].status = "pending"
    BY DEF Claim, Claimable, TableInv, TypeInv, TypeOK
  <2>2. Store(a, row) /\ TypeInv
    BY DEF Claim, TableInv
  <2>3. /\ attempt'[a] = row
        /\ \A b \in Attempts : b # a => attempt'[b] = attempt[b]
    BY <2>2, StoreRunRow
  <2>4. row.status = "running" /\ row.cancel = attempt[a].cancel
    BY <2>1, ClaimedRow DEF AttemptRows
  <2> QED
    BY <2>1, <2>3, <2>4
<1>2. /\ pc[w] = "idle" /\ pc'[w] = "execute" /\ job'[w] = a
      /\ \A v \in Workers : v # w => pc'[v] = pc[v] /\ job'[v] = job[v]
      /\ UNCHANGED up
  BY DEF Claim, Goto, TableInv, TypeInv, TypeOK
<1>3. \A v \in Workers : job[v] # a
  <2> SUFFICES ASSUME NEW v \in Workers, job[v] = a
               PROVE  FALSE
    OBVIOUS
  <2>1. pc[v] # "idle"
    BY NoAttemptAssumption DEF TableInv, TypeInv, JobInv, Attempts
  <2> QED
    BY <1>1, <2>1, JobExists DEF TableInv
<1>4. ASSUME NEW v \in Workers
      PROVE  ThreadOK(v)'
  <2>1. CASE v = w
    BY <1>1, <1>2, <2>1 DEF ThreadOK
  <2>2. CASE v # w /\ pc[v] = "idle"
    BY <1>2, <2>2 DEF ThreadOK, Holding
  <2>3. CASE v # w /\ pc[v] # "idle"
    BY <1>1, <1>2, <1>3, <2>3, JobExists, BystanderOK DEF ThreadInv, TableInv
  <2> QED
    BY <2>1, <2>2, <2>3
<1>5. ASSUME NEW b \in Attempts
      PROVE  FlagOK(attempt'[b])
  BY <1>1 DEF ThreadInv, FlagOK, SuccessStatuses
<1>6. RunningIsOwned'
  <2>1. up' => \A b \in Attempts :
          attempt'[b].status = "running" => \E v \in Workers : job'[v] = b
    <3> SUFFICES ASSUME up, NEW b \in Attempts, attempt'[b].status = "running"
                 PROVE  \E v \in Workers : job'[v] = b
      BY <1>2
    <3>1. CASE b = a
      BY <1>2, <3>1
    <3>2. CASE b # a
      <4>1. PICK v \in Workers : job[v] = b
        BY <1>1, <3>2 DEF ThreadInv, RunningIsOwned
      <4>2. v # w
        BY <1>2, <4>1, NoAttemptAssumption
        DEF TableInv, TypeInv, JobInv, Attempts
      <4> QED
        BY <1>2, <4>1, <4>2
    <3> QED
      BY <3>1, <3>2
  <2>2. \A u, v \in Workers : job'[u] = job'[v] /\ job'[u] # NoAttempt => u = v
    BY <1>2, <1>3 DEF ThreadInv, RunningIsOwned
  <2> QED
    BY <2>1, <2>2 DEF RunningIsOwned
<1> QED
  BY <1>4, <1>5, <1>6 DEF ThreadInv

(* A thread that is not idle moves on with its own attempt: the rest of    *)
(* ThreadInv follows when that thread and that attempt are in order.       *)
LEMMA OwnStep ==
    ASSUME TableInv, ThreadInv, NEW w \in Workers, pc[w] # "idle",
           \A v \in Workers : v # w => pc'[v] = pc[v] /\ job'[v] = job[v],
           \A b \in Attempts : b # job[w] => attempt'[b] = attempt[b],
           UNCHANGED up, ThreadOK(w)', FlagOK(attempt'[job[w]]),
           \/ job'[w] = job[w]
           \/ job'[w] = NoAttempt /\ attempt'[job[w]].status # "running"
    PROVE  ThreadInv'
<1>1. job[w] \in Attempts /\ job[w] # NoAttempt
  BY JobExists, NoAttemptAssumption DEF TableInv, Attempts
<1>2. ASSUME NEW v \in Workers
      PROVE  ThreadOK(v)'
  <2>1. CASE v = w
    BY <2>1
  <2>2. CASE v # w /\ pc[v] = "idle"
    BY <2>2 DEF ThreadOK, Holding
  <2>3. CASE v # w /\ pc[v] # "idle"
    <3>1. job[v] \in Attempts /\ job[v] # job[w]
      BY <1>1, <2>3, JobExists DEF TableInv, ThreadInv, RunningIsOwned
    <3> QED
      BY <2>3, <3>1, BystanderOK DEF ThreadInv
  <2> QED
    BY <2>1, <2>2, <2>3
<1>3. ASSUME NEW b \in Attempts
      PROVE  FlagOK(attempt'[b])
  <2>1. CASE b = job[w]
    BY <2>1
  <2>2. CASE b # job[w]
    BY <2>2 DEF ThreadInv, FlagOK
  <2> QED
    BY <2>1, <2>2
<1>4. RunningIsOwned'
  <2>1. up' => \A b \in Attempts :
          attempt'[b].status = "running" => \E v \in Workers : job'[v] = b
    <3> SUFFICES ASSUME up, NEW b \in Attempts, attempt'[b].status = "running"
                 PROVE  \E v \in Workers : job'[v] = b
      OBVIOUS
    <3>1. CASE b = job[w]
      BY <3>1
    <3>2. CASE b # job[w]
      <4>1. PICK v \in Workers : job[v] = b
        BY <3>2 DEF ThreadInv, RunningIsOwned
      <4> QED
        BY <3>2, <4>1
    <3> QED
      BY <3>1, <3>2
  <2>2. \A u, v \in Workers : job'[u] = job'[v] /\ job'[u] # NoAttempt => u = v
    BY DEF ThreadInv, RunningIsOwned
  <2> QED
    BY <2>1, <2>2 DEF RunningIsOwned
<1> QED
  BY <1>2, <1>3, <1>4 DEF ThreadInv

(* Steps of a thread that leave the store alone. *)
LEMMA LocalThread ==
    ASSUME TableInv, ThreadInv, NEW w \in Workers,
           \/ Execute(w) \/ CheckBoundary(w) \/ FinishStage(w)
           \/ StopCommand(w) \/ Raise(w) \/ RecheckCancel(w)
    PROVE  ThreadInv'
<1>1. /\ pc[w] # "idle" /\ pc[w] \in Holding
      /\ UNCHANGED <<attempt, up, job>>
      /\ \A v \in Workers : v # w => pc'[v] = pc[v]
  BY DEF Execute, CheckBoundary, FinishStage, StopCommand, Raise,
         RecheckCancel, Goto, Holding, TableInv, TypeInv, TypeOK
<1>2. ThreadOK(w) /\ FlagOK(attempt[job[w]])
  BY <1>1, JobExists DEF ThreadInv, TableInv
<1>3. attempt[job[w]].status = "running"
  BY <1>1, <1>2 DEF ThreadOK
<1>4. /\ pc'[w] # "release"
      /\ pc'[w] \notin {"recheck"}
      /\ pc'[w] = "publish" => pc[w] = "recheck" /\ ~ attempt[job[w]].cancel
      /\ pc'[w] = "cancelled" => attempt[job[w]].cancel
  BY <1>3 DEF Execute, CheckBoundary, FinishStage, StopCommand, Raise,
              RecheckCancel, Goto, SeesCancel, TableInv, TypeInv, TypeOK
<1>5. ThreadOK(w)'
  BY <1>1, <1>2, <1>3, <1>4 DEF ThreadOK
<1>6. FlagOK(attempt'[job[w]])
  BY <1>1, <1>2 DEF FlagOK
<1> QED
  BY <1>1, <1>5, <1>6, OwnStep

LEMMA StageThread ==
    ASSUME TableInv, ThreadInv, NEW w \in Workers, NEW stage \in Stages,
           SetStage(w, stage)
    PROVE  ThreadInv'
<1> DEFINE a == job[w]
           row == [attempt[a] EXCEPT !.stage = stage]
<1>1. /\ pc[w] = "cas" /\ UNCHANGED <<up, job>>
      /\ \A v \in Workers : v # w => pc'[v] = pc[v]
      /\ pc'[w] \in {"recheck", "work", "failed"}
  BY DEF SetStage, Goto, TableInv, TypeInv, TypeOK
<1>2. /\ a \in Attempts /\ attempt[a] \in AttemptRows
      /\ attempt[a].status = "running" /\ FlagOK(attempt[a])
  BY <1>1, JobExists DEF ThreadInv, ThreadOK, Holding, TableInv, TypeInv, TypeOK
<1>3. Store(a, row) /\ (pc'[w] = "recheck" => stage = "publishing")
  BY <1>1, <1>2 DEF SetStage, Goto, TableInv, TypeInv, TypeOK
<1>4. /\ attempt'[a] = row
      /\ \A b \in Attempts : b # a => attempt'[b] = attempt[b]
  BY <1>2, <1>3, StoreRunRow DEF TableInv
<1>5. row.status = "running" /\ row.stage = stage /\ row.cancel = attempt[a].cancel
  BY <1>2 DEF AttemptRows
<1>6. ThreadOK(w)'
  BY <1>1, <1>3, <1>4, <1>5 DEF ThreadOK
<1>7. FlagOK(attempt'[a])
  BY <1>1, <1>4, <1>5 DEF FlagOK, SuccessStatuses
<1> QED
  BY <1>1, <1>4, <1>6, <1>7, OwnStep

(* A thread writes the outcome of its attempt: a success that nobody       *)
(* cancelled, a cancellation that somebody asked for, or a failure.        *)
LEMMA OutcomeThread ==
    ASSUME TableInv, ThreadInv, NEW w \in Workers, pc[w] \in Holding,
           NEW status \in TerminalStatuses,
           status \in SuccessStatuses => ~ attempt[job[w]].cancel,
           status = "cancelled" => attempt[job[w]].cancel,
           Store(job[w], [attempt[job[w]] EXCEPT !.status = status,
                                                 !.stage = "finished"]),
           UNCHANGED up, \A v \in Workers : v # w => pc'[v] = pc[v] /\ job'[v] = job[v],
           \/ pc'[w] = "release" /\ job'[w] = job[w]
           \/ pc'[w] = "idle" /\ job'[w] = NoAttempt
    PROVE  ThreadInv'
<1> DEFINE a == job[w]
           row == [attempt[a] EXCEPT !.status = status, !.stage = "finished"]
<1>1. pc[w] # "idle" /\ a \in Attempts /\ attempt[a] \in AttemptRows
  BY JobExists DEF Holding, TableInv, TypeInv, TypeOK
<1>2. /\ attempt'[a] = row
      /\ \A b \in Attempts : b # a => attempt'[b] = attempt[b]
  BY <1>1, StoreRunRow DEF TableInv
<1>3. row.status = status /\ row.cancel = attempt[a].cancel
  BY <1>1 DEF AttemptRows
<1>4. status # "running" /\ status # "none"
  BY DEF TerminalStatuses, SuccessStatuses
<1>5. ThreadOK(w)'
  BY <1>2, <1>3 DEF ThreadOK, Terminal, Holding
<1>6. FlagOK(attempt'[a])
  <2>1. attempt'[a].status = status /\ attempt'[a].cancel = attempt[a].cancel
    BY <1>2, <1>3
  <2>2. /\ attempt'[a].status \in SuccessStatuses => ~ attempt'[a].cancel
        /\ attempt'[a].status = "cancelled" => attempt'[a].cancel
        /\ attempt'[a].status # "none"
    BY <1>4, <2>1
  <2> QED
    BY <1>1, <2>2 DEF FlagOK
<1> QED
  BY <1>1, <1>2, <1>3, <1>4, <1>5, <1>6, OwnStep

(* Publishing, and the three ways of ending without success. *)
LEMMA EndThread ==
    ASSUME TableInv, ThreadInv, NEW w \in Workers,
           \/ \E status \in SuccessStatuses : PublishSnapshot(w, status)
           \/ FinishCancelled(w) \/ FinishFailed(w) \/ HandleEscaped(w)
    PROVE  ThreadInv'
<1>1. /\ pc[w] \in Holding /\ UNCHANGED up
      /\ \A v \in Workers : v # w => pc'[v] = pc[v] /\ job'[v] = job[v]
  BY DEF PublishSnapshot, FinishCancelled, FinishFailed, HandleEscaped, Goto,
         Holding, TableInv, TypeInv, TypeOK
<1>2. ThreadOK(w) /\ attempt[job[w]].status = "running"
  BY <1>1 DEF ThreadInv, ThreadOK
<1>3. CASE \E status \in SuccessStatuses : PublishSnapshot(w, status)
  <2>1. PICK status \in SuccessStatuses : PublishSnapshot(w, status)
    BY <1>3
  <2>2. pc[w] = "publish" /\ MayPublish(attempt[job[w]])
    BY <1>2, <2>1 DEF PublishSnapshot, MayPublish, ThreadOK
  <2>3. /\ Store(job[w], [attempt[job[w]] EXCEPT !.status = status,
                                                 !.stage = "finished"])
        /\ pc'[w] = "release" /\ job' = job
    BY <2>1, <2>2 DEF PublishSnapshot, Goto, TableInv, TypeInv, TypeOK
  <2>4. status \in TerminalStatuses /\ status # "cancelled"
    BY DEF TerminalStatuses, SuccessStatuses
  <2> QED
    BY <1>1, <2>2, <2>3, <2>4, OutcomeThread DEF MayPublish
<1>4. CASE FinishCancelled(w)
  <2>1. /\ Store(job[w], [attempt[job[w]] EXCEPT !.status = "cancelled",
                                                 !.stage = "finished"])
        /\ pc[w] = "cancelled" /\ pc'[w] = "release" /\ job' = job
    BY <1>2, <1>4 DEF FinishCancelled, Finish, Goto, TableInv, TypeInv, TypeOK
  <2>2. attempt[job[w]].cancel
    BY <1>2, <2>1 DEF ThreadOK
  <2>3. "cancelled" \in TerminalStatuses /\ "cancelled" \notin SuccessStatuses
    BY DEF TerminalStatuses, SuccessStatuses
  <2> QED
    BY <1>1, <2>1, <2>2, <2>3, OutcomeThread
<1>5. CASE FinishFailed(w) \/ HandleEscaped(w)
  <2>1. /\ Store(job[w], [attempt[job[w]] EXCEPT !.status = "failed",
                                                 !.stage = "finished"])
        /\ \/ pc'[w] = "release" /\ job' = job
           \/ pc'[w] = "idle" /\ job'[w] = NoAttempt
    BY <1>2, <1>5 DEF FinishFailed, HandleEscaped, Finish, Goto, TableInv,
                      TypeInv, TypeOK
  <2>2. "failed" \in TerminalStatuses /\ "failed" \notin SuccessStatuses
    BY DEF TerminalStatuses, SuccessStatuses
  <2> QED
    BY <1>1, <2>1, <2>2, OutcomeThread
<1> QED
  BY <1>3, <1>4, <1>5

LEMMA ReleaseThread ==
    ASSUME TableInv, ThreadInv, NEW w \in Workers, ReleaseStorage(w)
    PROVE  ThreadInv'
<1>1. /\ pc[w] \in {"release", "escaped"} /\ UNCHANGED <<attempt, up>>
      /\ \A v \in Workers : v # w => pc'[v] = pc[v] /\ job'[v] = job[v]
  BY DEF ReleaseStorage, Goto, TableInv, TypeInv, TypeOK
<1>2. /\ job[w] \in Attempts /\ ThreadOK(w) /\ FlagOK(attempt[job[w]])
  BY <1>1, JobExists DEF ThreadInv, TableInv
<1>3. CASE pc[w] = "escaped"
  <2>1. pc'[w] = "handler" /\ job' = job
    BY <1>3 DEF ReleaseStorage, Goto, TableInv, TypeInv, TypeOK
  <2>2. ThreadOK(w)'
    BY <1>1, <1>2, <1>3, <2>1 DEF ThreadOK, Holding
  <2> QED
    BY <1>1, <1>2, <2>1, <2>2, OwnStep
<1>4. CASE pc[w] = "release"
  <2>1. pc'[w] = "idle" /\ job'[w] = NoAttempt
    BY <1>4 DEF ReleaseStorage, Goto, TableInv, TypeInv, TypeOK
  <2>2. ThreadOK(w)'
    BY <2>1 DEF ThreadOK, Holding
  <2>3. attempt[job[w]].status # "running"
    BY <1>2, <1>4 DEF ThreadOK, Terminal, TerminalStatuses, SuccessStatuses
  <2> QED
    BY <1>1, <1>2, <2>1, <2>2, <2>3, OwnStep
<1> QED
  BY <1>1, <1>3, <1>4

LEMMA CrashThread ==
    ASSUME ThreadInv, Crash
    PROVE  ThreadInv'
<1>1. \A w \in Workers : pc'[w] = "idle" /\ job'[w] = NoAttempt
  BY DEF Crash
<1>2. \A w \in Workers : ThreadOK(w)'
  BY <1>1 DEF ThreadOK, Holding
<1>3. \A a \in Attempts : FlagOK(attempt'[a])
  BY DEF Crash, ThreadInv
<1>4. RunningIsOwned'
  BY <1>1 DEF Crash, RunningIsOwned
<1> QED
  BY <1>2, <1>3, <1>4 DEF ThreadInv

(* A service that is down has no threads, so its restart meets none. *)
DownIdle == ~ up => \A w \in Workers : pc[w] = "idle"

LEMMA RestartThread ==
    ASSUME TableInv, ThreadInv, DownIdle, Restart
    PROVE  ThreadInv'
<1>1. \A w \in Workers : pc'[w] = "idle" /\ job'[w] = NoAttempt
  BY DEF Restart, DownIdle, TableInv, TypeInv, JobInv
<1>2. \A w \in Workers : ThreadOK(w)'
  BY <1>1 DEF ThreadOK, Holding
<1>3. \A a \in Attempts :
        /\ attempt'[a].status # "running"
        /\ \/ attempt'[a] = attempt[a]
           \/ attempt'[a].status = "interrupted"
  BY RestartRows DEF TableInv, Active, ActiveStatuses
<1>4. \A a \in Attempts : FlagOK(attempt'[a])
  BY <1>3 DEF ThreadInv, FlagOK, SuccessStatuses
<1>5. RunningIsOwned'
  BY <1>1, <1>3 DEF RunningIsOwned
<1> QED
  BY <1>2, <1>4, <1>5 DEF ThreadInv

LEMMA DownIdleStep ==
    ASSUME DownIdle, [Next]_vars
    PROVE  DownIdle'
<1>1. ASSUME NEW w \in Workers, Work(w)
      PROVE  up /\ up' = up
  <2>1. up
    BY <1>1, ZenonT(30)
    DEF Work, Claim, Execute, CheckBoundary, SetStage, FinishStage,
        StopCommand, Raise, RecheckCancel, PublishSnapshot, FinishCancelled,
        FinishFailed, ReleaseStorage, HandleEscaped
  <2>2. up' = up
    BY <1>1, ZenonT(30)
    DEF Work, Claim, Execute, CheckBoundary, SetStage, FinishStage,
        StopCommand, Raise, RecheckCancel, PublishSnapshot, FinishCancelled,
        FinishFailed, ReleaseStorage, HandleEscaped
  <2> QED
    BY <2>1, <2>2
<1>2. CASE Request
  BY <1>2 DEF Request, RetireMember, CreateRun, RetryRun, RequestCancel, DownIdle
<1>3. CASE Crash \/ Restart \/ UNCHANGED vars
  BY <1>3 DEF Crash, Restart, vars, DownIdle
<1> QED
  BY <1>1, <1>2, <1>3 DEF Next, DownIdle

LEMMA ThreadStep ==
    ASSUME TableInv, ThreadInv, DownIdle, [Next]_vars
    PROVE  ThreadInv'
<1>1. ASSUME NEW r \in Runs, NEW S \in SUBSET Members,
             NEW key \in Keys \cup {NoKey}, CreateRun(r, S, key)
      PROVE  ThreadInv'
  BY <1>1, RequestInserts, InsertThread
<1>2. ASSUME NEW r \in Runs, NEW new \in Runs, NEW S \in SUBSET Members,
             RetryRun(r, new, S)
      PROVE  ThreadInv'
  BY <1>2, RequestInserts, InsertThread
<1>3. ASSUME NEW w \in Workers, Work(w)
      PROVE  ThreadInv'
  BY <1>3, ClaimThread, LocalThread, StageThread, EndThread, ReleaseThread
  DEF Work
<1>4. CASE (\E m \in Members : RetireMember(m)) \/ UNCHANGED vars
  <2>1. UNCHANGED <<attempt, up, pc, job>>
    BY <1>4 DEF RetireMember, vars
  <2> QED
    BY <2>1 DEF ThreadInv, ThreadOK, FlagOK, RunningIsOwned, Terminal
<1> QED
  BY <1>1, <1>2, <1>3, <1>4, CancelThread, CrashThread, RestartThread
  DEF Next, Request

LEMMA ThreadInit == Init => ThreadInv /\ DownIdle
<1> SUFFICES ASSUME Init
             PROVE  ThreadInv /\ DownIdle
  OBVIOUS
<1>1. \A w \in Workers : ThreadOK(w) /\ job[w] = NoAttempt
  BY DEF Init, ThreadOK, Holding
<1>2. \A a \in Attempts : attempt[a].status = "none" /\ ~ attempt[a].cancel
  BY DEF Init, NoRow
<1>3. \A a \in Attempts : FlagOK(attempt[a])
  BY <1>2 DEF FlagOK, SuccessStatuses
<1>4. RunningIsOwned
  BY <1>1, <1>2 DEF RunningIsOwned
<1> QED
  BY <1>1, <1>3, <1>4 DEF ThreadInv, DownIdle, Init

LEMMA ThreadInvariant == Spec => [](TableInv /\ ThreadInv /\ DownIdle)
<1>1. Init => TableInv /\ ThreadInv /\ DownIdle
  BY TableInit, ThreadInit
<1>2. TableInv /\ ThreadInv /\ DownIdle /\ [Next]_vars
        => (TableInv /\ ThreadInv /\ DownIdle)'
  BY TableStep, ThreadStep, DownIdleStep
<1> QED
  BY <1>1, <1>2, PTL DEF Spec

(* While the service is up, every running attempt has exactly one thread.  *)
THEOREM RunningIsOwnedHolds == Spec => []RunningIsOwned
<1>1. ThreadInv => RunningIsOwned
  BY DEF ThreadInv
<1> QED
  BY <1>1, ThreadInvariant, PTL

(* No attempt both succeeds and has its cancellation accepted, and none is *)
(* cancelled unasked.                                                      *)
THEOREM CancelExcludesSuccessHolds == Spec => []CancelExcludesSuccess
<1>1. ThreadInv => CancelExcludesSuccess
  BY DEF ThreadInv, FlagOK, CancelExcludesSuccess
<1> QED
  BY <1>1, ThreadInvariant, PTL

(* After the last look at the flag the publishing transaction is accepted. *)
THEOREM PublicationIsNotRefusedHolds == Spec => []PublicationIsNotRefused
<1>1. ThreadInv => PublicationIsNotRefused
  BY DEF ThreadInv, ThreadOK, Holding, PublicationIsNotRefused, MayPublish
<1> QED
  BY <1>1, ThreadInvariant, PTL

(* The race between cancelling and publishing is decided once.             *)
THEOREM CancelIsDecidedHolds == Spec => []CancelIsDecided
BY CancelExcludesSuccessHolds, PublicationIsNotRefusedHolds, PTL DEF CancelIsDecided

(* A thread that stands in the handler of an escaped error has already     *)
(* given its reservation back, and nobody else can take it again: to       *)
(* reserve is to work on the attempt, and it has one thread.               *)
HandlerReleased == \A w \in Workers : pc[w] = "handler" => job[w] \notin reserved

LEMMA ReleaseStep ==
    ASSUME TypeInv, RunningIsOwned, HandlerReleased, [Next]_vars
    PROVE  /\ HandlerReleased'
           /\ \A w \in Workers :
                job[w] # NoAttempt /\ job'[w] # job[w] /\ up'
                  => job[w] \notin reserved'
<1> DEFINE Freed == \A w \in Workers :
                      job[w] # NoAttempt /\ job'[w] # job[w] /\ up'
                        => job[w] \notin reserved'
<1>1. ASSUME UNCHANGED <<reserved, pc, job>>
      PROVE  HandlerReleased' /\ Freed
  BY <1>1 DEF HandlerReleased
<1>2. CASE Request \/ Restart \/ UNCHANGED vars
  <2>1. UNCHANGED <<reserved, pc, job>>
    BY <1>2 DEF Request, RetireMember, CreateRun, RetryRun, RequestCancel,
                Restart, vars
  <2> QED
    BY <2>1, <1>1
<1>3. CASE Crash
  <2>1. ~ up' /\ \A w \in Workers : pc'[w] = "idle"
    BY <1>3 DEF Crash
  <2> QED
    BY <2>1 DEF HandlerReleased
<1>4. ASSUME NEW w \in Workers, Work(w)
      PROVE  HandlerReleased' /\ Freed
  <2> USE DEF TypeInv, TypeOK, Goto
  <2>1. CASE \E a \in Attempts : Claim(w, a)
    <3>1. job[w] = NoAttempt
      BY <2>1 DEF Claim, JobInv
    <3> QED
      BY <2>1, <3>1 DEF Claim, HandlerReleased
  <2>2. CASE FinishStage(w)
    <3>1. job[w] # NoAttempt
      BY <2>2 DEF FinishStage, JobInv
    <3>2. \A v \in Workers : v # w => job[v] # job[w]
      BY <3>1 DEF RunningIsOwned
    <3>3. UNCHANGED job /\ reserved' \subseteq reserved \cup {job[w]}
      BY <2>2 DEF FinishStage
    <3>4. \A v \in Workers : pc'[v] = "handler" => v # w /\ pc[v] = "handler"
      BY <2>2 DEF FinishStage
    <3> QED
      BY <3>2, <3>3, <3>4 DEF HandlerReleased
  <2>3. CASE ReleaseStorage(w)
    BY <2>3 DEF ReleaseStorage, HandlerReleased
  <2>4. CASE HandleEscaped(w)
    BY <2>4 DEF HandleEscaped, HandlerReleased
  <2>5. CASE \/ Execute(w) \/ CheckBoundary(w) \/ StopCommand(w) \/ Raise(w)
             \/ RecheckCancel(w) \/ FinishCancelled(w) \/ FinishFailed(w)
             \/ \E stage \in Stages : SetStage(w, stage)
             \/ \E status \in SuccessStatuses : PublishSnapshot(w, status)
    <3>1. UNCHANGED <<reserved, job>>
      BY <2>5 DEF Execute, CheckBoundary, StopCommand, Raise, RecheckCancel,
                  FinishCancelled, FinishFailed, SetStage, PublishSnapshot
    <3>2. \A v \in Workers : pc'[v] = "handler" => pc[v] = "handler"
      BY <2>5 DEF Execute, CheckBoundary, StopCommand, Raise, RecheckCancel,
                  FinishCancelled, FinishFailed, SetStage, PublishSnapshot
    <3> QED
      BY <3>1, <3>2 DEF HandlerReleased
  <2> QED
    BY <1>4, <2>1, <2>2, <2>3, <2>4, <2>5 DEF Work
<1> QED
  BY <1>2, <1>3, <1>4 DEF Next

(* However a thread leaves its attempt, short of the end of the process,   *)
(* it leaves no storage reservation behind.                                *)
THEOREM ReservationsAreReleasedHolds == Spec => ReservationsAreReleased
<1> DEFINE Freed == \A w \in Workers :
                      job[w] # NoAttempt /\ job'[w] # job[w] /\ up'
                        => job[w] \notin reserved'
<1>1. Init => HandlerReleased
  BY DEF Init, HandlerReleased
<1>2. TypeInv /\ RunningIsOwned /\ HandlerReleased /\ [Next]_vars
        => HandlerReleased' /\ [Freed]_vars
  BY ReleaseStep
<1>3. ReservationsAreReleased <=> [][Freed]_vars
  BY DEF ReservationsAreReleased
<1> HIDE DEF Freed
<1> QED
  BY <1>1, <1>2, <1>3, TypeInvariant, RunningIsOwnedHolds, PTL DEF Spec

-----------------------------------------------------------------------------
(* Refinement of AttemptLifecycle *)

(* What AttemptLifecycle sees of the store. *)
Status == [a \in Attempts |-> attempt[a].status]
Vetoed == {a \in Attempts : attempt[a].cancel}

LEMMA LifecycleInit ==
    ASSUME Init
    PROVE  Lifecycle!Init
<1>1. \A a \in Attempts : attempt[a].status = "none" /\ ~ attempt[a].cancel
  BY DEF Init, NoRow
<1> QED
  BY <1>1 DEF Lifecycle!Init, Lifecycle!Attempts, Attempts

(* A store changes one status and adds at most one veto. *)
LEMMA StoredView ==
    ASSUME TypeInv, NEW a \in Attempts, NEW row \in AttemptRows, Store(a, row)
    PROVE  /\ Status' = [Status EXCEPT ![a] = row.status]
           /\ row.cancel = attempt[a].cancel => Vetoed' = Vetoed
           /\ row.cancel => Vetoed' = Vetoed \cup {a}
<1>1. /\ attempt'[a] = row
      /\ \A b \in Attempts : b # a => attempt'[b] = attempt[b]
  BY StoreRunRow
<1> QED
  BY <1>1 DEF Status, Vetoed

LEMMA StoreLifecycle ==
    ASSUME TableInv, NEW a \in Attempts, NEW row \in AttemptRows,
           StoreStep(a, row), row.status = "cancelled" => row.cancel
    PROVE  [Lifecycle!Next]_Lifecycle!vars
<1> DEFINE old == attempt[a]
<1>1. old \in AttemptRows /\ Moves(old, row) /\ Store(a, row)
  BY DEF StoreStep, TableInv, TypeInv, TypeOK
<1>2. /\ Status' = [Status EXCEPT ![a] = row.status]
      /\ row.cancel = old.cancel => Vetoed' = Vetoed
      /\ row.cancel => Vetoed' = Vetoed \cup {a}
  BY <1>1, StoredView DEF TableInv
<1>3. Status[a] = old.status /\ (a \in Vetoed <=> old.cancel)
  BY DEF Status, Vetoed
<1>4. /\ Lifecycle!vars = <<Status, Vetoed>>
      /\ Lifecycle!Attempts = Attempts
  BY DEF Lifecycle!vars, Status, Vetoed, Lifecycle!Attempts, Attempts
<1>5. /\ Lifecycle!Claim(a)
           <=> Status[a] = "pending" /\ Status' = [Status EXCEPT ![a] = "running"]
               /\ Vetoed' = Vetoed
      /\ Lifecycle!CancelPending(a)
           <=> Status[a] = "pending" /\ Status' = [Status EXCEPT ![a] = "cancelled"]
               /\ Vetoed' = Vetoed \cup {a}
      /\ Lifecycle!Veto(a)
           <=> Status[a] = "running" /\ Vetoed' = Vetoed \cup {a}
               /\ Status' = Status
      /\ Lifecycle!Succeed(a)
           <=> a \notin Vetoed /\ Vetoed' = Vetoed
               /\ \E s \in SuccessStatuses :
                    Status[a] = "running" /\ Status' = [Status EXCEPT ![a] = s]
      /\ Lifecycle!Fail(a)
           <=> Status[a] = "running" /\ Status' = [Status EXCEPT ![a] = "failed"]
               /\ Vetoed' = Vetoed
      /\ Lifecycle!Cancel(a)
           <=> a \in Vetoed /\ Vetoed' = Vetoed /\ Status[a] = "running"
               /\ Status' = [Status EXCEPT ![a] = "cancelled"]
  BY DEF Lifecycle!Claim, Lifecycle!CancelPending, Lifecycle!Veto,
         Lifecycle!Succeed, Lifecycle!Fail, Lifecycle!Cancel, Lifecycle!Move,
         Lifecycle!Successes, SuccessStatuses, Status, Vetoed
<1>6. \/ row = old
      \/ Lifecycle!Claim(a) \/ Lifecycle!CancelPending(a)
      \/ Lifecycle!Veto(a) \/ UNCHANGED <<Status, Vetoed>>
      \/ Lifecycle!Succeed(a) \/ Lifecycle!Fail(a) \/ Lifecycle!Cancel(a)
  <2>1. CASE row = old
    BY <2>1
  <2>2. CASE old.status = "pending" /\ row.status = "running"
             /\ row.cancel = old.cancel
    BY <2>2, <1>2, <1>3, <1>5
  <2>3. CASE old.status = "pending" /\ row.status = "cancelled" /\ row.cancel
    BY <2>3, <1>2, <1>3, <1>5
  <2>4. CASE old.status = "running" /\ row.status = "running"
             /\ (row.cancel \/ row.cancel = old.cancel)
    <3>1. Status' = Status
      BY <2>4, <1>2, <1>3 DEF Status
    <3> QED
      BY <2>4, <3>1, <1>2, <1>3, <1>5
  <2>5. CASE old.status = "running" /\ row.status \in SuccessStatuses
             /\ ~ old.cancel /\ ~ row.cancel
    <3>1. row.cancel = old.cancel
      BY <2>5, <1>1 DEF AttemptRows
    <3> QED
      BY <2>5, <3>1, <1>2, <1>3, <1>5
  <2>6. CASE old.status = "running" /\ row.status = "failed"
             /\ row.cancel = old.cancel
    BY <2>6, <1>2, <1>3, <1>5
  <2>7. CASE old.status = "running" /\ row.status = "cancelled"
             /\ row.cancel = old.cancel
    BY <2>7, <1>2, <1>3, <1>5
  <2> QED
    BY <1>1, <2>1, <2>2, <2>3, <2>4, <2>5, <2>6, <2>7 DEF Moves
<1>7. row = old => UNCHANGED <<Status, Vetoed>>
  BY <1>2, <1>3 DEF Status
<1>8. CASE UNCHANGED <<Status, Vetoed>>
  BY <1>8 DEF Lifecycle!vars, Status, Vetoed
<1>9. CASE ~ UNCHANGED <<Status, Vetoed>>
  <2>1. \/ Lifecycle!Claim(a) \/ Lifecycle!CancelPending(a) \/ Lifecycle!Veto(a)
        \/ Lifecycle!Succeed(a) \/ Lifecycle!Fail(a) \/ Lifecycle!Cancel(a)
    BY <1>6, <1>7, <1>9
  <2>2. a \in Lifecycle!Attempts
    BY <1>4
  <2>3. Lifecycle!Next
    BY <2>1, <2>2, Zenon DEF Lifecycle!Next
  <2> QED
    BY <2>3
<1> QED
  BY <1>8, <1>9

LEMMA InsertLifecycle ==
    ASSUME TableInv, ThreadInv, Inserts
    PROVE  [Lifecycle!Next]_Lifecycle!vars
<1>1. PICK r \in Runs, S \in SUBSET Members, key \in Keys \cup {NoKey},
           retryOf \in [Members -> Attempts \cup {NoAttempt}] :
             InsertStep(r, S, key, retryOf)
  BY DEF Inserts
<1>2. PICK queued \in SUBSET Members : queued = {m \in S : ~ Busy(m)}
  OBVIOUS
<1>3. /\ attempt' = [a \in Attempts |->
                       IF a[1] = r /\ a[2] \in queued
                       THEN NewRow(a[2], retryOf[a[2]]) ELSE attempt[a]]
      /\ ~ Created(r)
  BY <1>1, <1>2 DEF InsertStep, InsertRun
<1>4. \A a \in Attempts :
        a[1] = r => attempt[a].status = "none" /\ ~ attempt[a].cancel
  BY <1>3 DEF TableInv, MemberInv, ThreadInv, FlagOK
<1>5. \A m \in Members, q \in Attempts \cup {NoAttempt} :
        NewRow(m, q).status = "pending" /\ NewRow(m, q).cancel = FALSE
  BY DEF NewRow, NoRow
<1>6. Status' = [a \in Attempts |->
                   IF a[1] = r /\ a[2] \in queued THEN "pending" ELSE Status[a]]
  BY <1>3, <1>5, AttemptParts DEF Status
<1>7. Vetoed' = Vetoed
  BY <1>3, <1>4, <1>5, AttemptParts DEF Vetoed
<1>8. ASSUME NEW m \in queued
      PROVE  /\ \A a \in Attempts : a[2] = m => Status[a] \notin ActiveStatuses
             /\ Status[<<r, m>>] = "none"
  <2>1. <<r, m>> \in Attempts /\ <<r, m>>[1] = r
    BY DEF Attempts
  <2>2. attempt[<<r, m>>].status = "none"
    BY <1>4, <2>1
  <2>3. \A a \in Attempts : a[2] = m => attempt[a].status \notin ActiveStatuses
    BY <1>2 DEF Busy, Active
  <2> QED
    BY <2>1, <2>2, <2>3 DEF Status
<1>9. Lifecycle!Queue(r, queued)
  BY <1>6, <1>7, <1>8
  DEF Lifecycle!Queue, Lifecycle!Idle, Lifecycle!Active, Lifecycle!Actives,
      Lifecycle!Attempts, Attempts, ActiveStatuses, Status, Vetoed
<1> QED
  BY <1>9, Zenon DEF Lifecycle!Next

LEMMA LifecycleStep ==
    ASSUME TableInv, ThreadInv, ThreadInv', [Next]_vars
    PROVE  [Lifecycle!Next]_Lifecycle!vars
<1>1. CASE Quiet
  BY <1>1 DEF Quiet, Lifecycle!vars
<1>2. CASE Stores
  <2>1. PICK a \in Attempts, row \in AttemptRows : StoreStep(a, row)
    BY <1>2 DEF Stores
  <2>2. row.status = "cancelled" => row.cancel
    BY <2>1, StoreRunRow DEF StoreStep, TableInv, ThreadInv, FlagOK
  <2> QED
    BY <2>1, <2>2, StoreLifecycle
<1>3. CASE Restart
  <2>1. Status' = [a \in Attempts |-> IF Status[a] \in ActiveStatuses
                                      THEN "interrupted" ELSE Status[a]]
    BY <1>3, RestartRows DEF TableInv, Status, Active
  <2>2. Vetoed' = Vetoed
    BY <1>3, RestartRows DEF TableInv, Vetoed
  <2>3. Lifecycle!InterruptAll
    BY <2>1, <2>2
    DEF Lifecycle!InterruptAll, Lifecycle!Active, Lifecycle!Actives,
        Lifecycle!Attempts, Attempts, ActiveStatuses, Status, Vetoed
  <2> QED
    BY <2>3 DEF Lifecycle!Next
<1> QED
  BY <1>1, <1>2, <1>3, InsertLifecycle, Effects DEF Effect, TableInv

(* The threads, stages, crashes and restarts of AnalysisRuns do to the     *)
(* attempts only what AttemptLifecycle allows.                             *)
THEOREM LifecycleImplemented == Spec => ImplementsLifecycle
<1>1. Init => Lifecycle!Init
  BY LifecycleInit
<1>2. (TableInv /\ ThreadInv) /\ (TableInv /\ ThreadInv)' /\ [Next]_vars
        => [Lifecycle!Next]_Lifecycle!vars
  <2>1. (TableInv /\ ThreadInv)' => ThreadInv'
    OBVIOUS
  <2> QED
    BY <2>1, LifecycleStep
<1> QED
  BY <1>1, <1>2, ThreadInvariant, PTL
  DEF Spec, ImplementsLifecycle, Lifecycle!Spec
=============================================================================
