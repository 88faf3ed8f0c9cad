--------------------------- MODULE MCExplanations ---------------------------
EXTENDS Explanations

CONSTANTS k1, k2

Budget(keys, incomplete, plans, singles, crashes, faults, deletions) ==
    [keys |-> keys, incomplete |-> incomplete, plans |-> plans, singles |-> singles,
     crashes |-> crashes, faults |-> faults, deletions |-> deletions]

(* A batch of two endpoints, with a crash and with errors; two batches of  *)
(* one, and a deletion; requests beside a batch, with a crash and with     *)
(* errors; and endpoints that are incomplete, of which a second batch is   *)
(* made.                                                                   *)
MCBudgets ==
    {Budget({k1, k2}, {}, 1, 0, 1, 0, 0), Budget({k1, k2}, {}, 1, 0, 0, 1, 0),
     Budget({k1}, {}, 2, 0, 0, 0, 1),
     Budget({k1}, {}, 1, 2, 1, 0, 0), Budget({k1}, {}, 1, 1, 0, 1, 1),
     Budget({k1, k2}, {k2}, 1, 0, 1, 0, 0), Budget({k1}, {k1}, 2, 0, 0, 0, 0)}
=============================================================================
