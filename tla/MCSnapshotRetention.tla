------------------------ MODULE MCSnapshotRetention ------------------------
(* The small instances of SnapshotRetention that TLC checks. *)
EXTENDS SnapshotRetention, TLC

(* Evidences and sweeps are interchangeable in safety runs. *)
Symmetry == Permutations(Evidences) \cup Permutations(Sweepers)
=============================================================================
