--------------------------- MODULE MCAnalysisRuns ---------------------------
(* Instances of AnalysisRuns for TLC. *)
EXTENDS AnalysisRuns, TLC

(* A pipeline without the six stages between the first scan, which makes   *)
(* the reservation, and publishing.                                        *)
ShortPipeline(stage) ==
    CASE stage = "validating"    -> {"digest_before"}
      [] stage = "digest_before" -> {"publishing"}
      [] OTHER                   -> {}

(* Bounds of the search, not of the model: runs commit in the order of     *)
(* their numbers, the first of them carries the key, and crashes leave at  *)
(* most one reservation behind.                                            *)
InOrder == \A r \in Runs : Created(r) => \A q \in Runs : q < r => Created(q)
Leaked == {a \in reserved : Terminal(a) /\ \A w \in Workers : job[w] # a}
FewLeaks == \A a, b \in Leaked : a = b
FirstIsKeyed == Created(1) => run[1].key # NoKey
Bounds == InOrder /\ FirstIsKeyed /\ FewLeaks

(* Members and threads are interchangeable in safety runs. *)
Symmetry == Permutations(Members) \cup Permutations(Workers)
=============================================================================
