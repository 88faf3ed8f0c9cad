--------------------------- MODULE SnapshotCatalog ---------------------------
(***************************************************************************)
(* What the catalog promises its readers about snapshots: a snapshot is    *)
(* published once, can be read until it is deleted, and is gone for good   *)
(* after that; the latest snapshot of a member and the snapshots that are  *)
(* held are not deleted.  SnapshotRetention implements this specification. *)
(***************************************************************************)

CONSTANTS
    Members,
    Snapshots,
    None        \* no snapshot

VARIABLES
    readable,   \* snapshots that can be read
    gone,       \* snapshots that have been deleted
    latest,     \* latest[m]: the snapshot queries about member m go to
    held        \* snapshots that views or rules are built on

vars == <<readable, gone, latest, held>>

Init ==
    /\ readable = {} /\ gone = {} /\ held = {}
    /\ latest = [m \in Members |-> None]

Publish(m, s) ==
    /\ s \notin readable \cup gone
    /\ readable' = readable \cup {s}
    /\ latest' \in {latest, [latest EXCEPT ![m] = s]}
    /\ UNCHANGED <<gone, held>>

SwitchBack(m, s) ==
    /\ s \in readable
    /\ latest' = [latest EXCEPT ![m] = s]
    /\ UNCHANGED <<readable, gone, held>>

Hold(S) ==
    /\ S \subseteq readable
    /\ held' = held \cup S
    /\ UNCHANGED <<readable, gone, latest>>

LetGo(s) ==
    /\ held' = held \ {s}
    /\ UNCHANGED <<readable, gone, latest>>

Delete(s) ==
    /\ s \in readable \ held
    /\ \A m \in Members : latest[m] # s
    /\ readable' = readable \ {s}
    /\ gone' = gone \cup {s}
    /\ UNCHANGED <<latest, held>>

Next ==
    \/ \E m \in Members, s \in Snapshots : Publish(m, s) \/ SwitchBack(m, s)
    \/ \E S \in SUBSET Snapshots : Hold(S)
    \/ \E s \in Snapshots : LetGo(s) \/ Delete(s)

Spec == Init /\ [][Next]_vars
=============================================================================
