-------------------------- MODULE AttemptLifecycle --------------------------
(***************************************************************************)
(* What the analysis subsystem promises about attempts, without saying how *)
(* it keeps the promise: no workers, no stages, no service process, no     *)
(* runs.  A member has at most one active attempt, an attempt ends once,   *)
(* and an accepted cancellation and a success exclude each other.          *)
(* AnalysisRuns implements this specification.                             *)
(***************************************************************************)

CONSTANTS
    Runs,     \* run identifiers
    Members   \* repository members

VARIABLES
    status,   \* status[<<r, m>>]: life of the attempt of member m in run r
    vetoed    \* attempts whose cancellation has been accepted

vars == <<status, vetoed>>

Attempts == Runs \X Members

Successes == {"completed", "unchanged"}
Terminals == Successes \cup {"failed", "cancelled", "interrupted"}
Actives == {"pending", "running"}
Statuses == Actives \cup Terminals \cup {"none"}

Active(a) == status[a] \in Actives
Idle(m) == \A a \in Attempts : a[2] = m => ~ Active(a)

TypeOK ==
    /\ status \in [Attempts -> Statuses]
    /\ vetoed \subseteq Attempts

Init ==
    /\ status = [a \in Attempts |-> "none"]
    /\ vetoed = {}

Move(a, from, to) ==
    /\ status[a] = from
    /\ status' = [status EXCEPT ![a] = to]

-----------------------------------------------------------------------------

(* A run queues one attempt for each selected member that is idle.         *)
Queue(r, S) ==
    /\ \A m \in S : Idle(m) /\ status[<<r, m>>] = "none"
    /\ status' = [a \in Attempts |->
                    IF a[1] = r /\ a[2] \in S THEN "pending" ELSE status[a]]
    /\ UNCHANGED vetoed

Claim(a) == Move(a, "pending", "running") /\ UNCHANGED vetoed

(* A cancellation ends a pending attempt at once and vetoes a running one. *)
CancelPending(a) ==
    /\ Move(a, "pending", "cancelled")
    /\ vetoed' = vetoed \cup {a}

Veto(a) ==
    /\ status[a] = "running"
    /\ vetoed' = vetoed \cup {a}
    /\ UNCHANGED status

Succeed(a) ==
    /\ a \notin vetoed
    /\ \E s \in Successes : Move(a, "running", s)
    /\ UNCHANGED vetoed

Fail(a) == Move(a, "running", "failed") /\ UNCHANGED vetoed

(* Only a vetoed attempt may end as cancelled. *)
Cancel(a) ==
    /\ a \in vetoed
    /\ Move(a, "running", "cancelled")
    /\ UNCHANGED vetoed

(* A restart interrupts everything that was active. *)
InterruptAll ==
    /\ status' = [a \in Attempts |->
                    IF Active(a) THEN "interrupted" ELSE status[a]]
    /\ UNCHANGED vetoed

Next ==
    \/ \E r \in Runs, S \in SUBSET Members : Queue(r, S)
    \/ \E a \in Attempts :
         \/ Claim(a)
         \/ CancelPending(a)
         \/ Veto(a)
         \/ Succeed(a)
         \/ Fail(a)
         \/ Cancel(a)
    \/ InterruptAll

Spec == Init /\ [][Next]_vars
=============================================================================
