------------------------- MODULE StorageReservations -------------------------
(***************************************************************************)
(* The admission of attempts against the free space of the disk: an        *)
(* attempt estimates what it will need, measures what is free, adds up     *)
(* what the others have reserved, and reserves.  Attempts run in a pool of *)
(* threads; the sum is read before the transaction that reserves begins.   *)
(* A reservation counts until it expires, whether its attempt has ended or *)
(* not.                                                                    *)
(***************************************************************************)
EXTENDS Naturals, FiniteSetsExt

CONSTANTS
    Attempts,
    Capacity,  \* free space at the beginning
    MaxNeed,   \* bound on what one attempt needs
    Kept,      \* how long a reservation counts
    MaxTime    \* bound on the clock

VARIABLES
    row,      \* storage_reservations: bytes and expiry of each attempt
    at,       \* where the attempt is
    need,     \* its estimate
    free,     \* disk_usage().free as it has measured it
    sum,      \* what it has seen reserved by others
    written,  \* what it has written
    now,
    raced     \* admissions have overlapped, or one and the end of another
              \* attempt, or a reservation has expired under its attempt

vars == <<row, at, need, free, sum, written, now, raced>>

NoRow == [bytes |-> 0, expires |-> 0]
Live(a) == row[a].expires > now
Total(f, S) == MapThenSumSet(LAMBDA a : f[a], S)
Bytes == [a \in Attempts |-> row[a].bytes]
Running == {a \in Attempts : at[a] = "running"}
Admitting == {a \in Attempts : at[a] \in {"measured", "summed"}}

Begin(a, bytes) ==
    /\ at[a] = "new" /\ bytes \in 1 .. MaxNeed
    /\ at' = [at EXCEPT ![a] = "measured"]
    /\ need' = [need EXCEPT ![a] = bytes]
    /\ free' = [free EXCEPT ![a] = Capacity - Total(written, Attempts)]
    /\ raced' = (raced \/ Admitting # {})
    /\ UNCHANGED <<row, sum, written, now>>

CountedNew(a) ==   \* mutation: only reservations that do not expire soon
    {b \in Attempts \ {a} : row[b].expires > now + 1}
Counted(a) == {b \in Attempts \ {a} : Live(b)}

ReadSum(a) ==
    /\ at[a] = "measured"
    /\ at' = [at EXCEPT ![a] = "summed"]
    /\ sum' = [sum EXCEPT ![a] = Total(Bytes, Counted(a))]
    /\ UNCHANGED <<row, need, free, written, now, raced>>

Rest(a) == IF free[a] > sum[a] THEN free[a] - sum[a] ELSE 0

Reserve(a) ==
    /\ at[a] = "summed"
    /\ IF need[a] > Rest(a)
       THEN at' = [at EXCEPT ![a] = "refused"] /\ UNCHANGED row
       ELSE /\ at' = [at EXCEPT ![a] = "running"]
            /\ row' = [row EXCEPT ![a] = [bytes |-> need[a], expires |-> now + Kept]]
    /\ UNCHANGED <<need, free, sum, written, now, raced>>

(* The attempt writes at most what it has estimated. *)
Write(a) ==
    /\ at[a] = "running" /\ written[a] < need[a]
    /\ written' = [written EXCEPT ![a] = @ + 1]
    /\ UNCHANGED <<row, at, need, free, sum, now, raced>>

(* release_storage, in the end of the attempt *)
Release(a) ==
    /\ at[a] = "running"
    /\ at' = [at EXCEPT ![a] = "ended"]
    /\ row' = [row EXCEPT ![a] = NoRow]
    /\ raced' = (raced \/ \E b \in Attempts : at[b] = "measured")
    /\ UNCHANGED <<need, free, sum, written, now>>

Tick ==
    /\ now < MaxTime
    /\ now' = now + 1
    /\ raced' = (raced \/ \E a \in Running : row[a].expires <= now')
    /\ UNCHANGED <<row, at, need, free, sum, written>>

Init ==
    /\ row = [a \in Attempts |-> NoRow] /\ at = [a \in Attempts |-> "new"]
    /\ need = [a \in Attempts |-> 0] /\ free = need /\ sum = need /\ written = need
    /\ now = 0 /\ raced = FALSE

Next ==
    \/ \E a \in Attempts, bytes \in 1 .. MaxNeed : Begin(a, bytes)
    \/ \E a \in Attempts : ReadSum(a) \/ Reserve(a) \/ Write(a) \/ Release(a)
    \/ Tick

Spec == Init /\ [][Next]_vars

-----------------------------------------------------------------------------
(* Properties *)

Fits == Total(need, Running) + Total(written, Attempts \ Running) <= Capacity

(* Attempts that run fit on the disk together with what others have left   *)
(* there, unless admissions have overlapped, an attempt has ended between  *)
(* another's measuring and adding, or has outlived its reservation.        *)
SoldOnce == ~ raced => Fits
=============================================================================
