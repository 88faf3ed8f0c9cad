\* One member whose working tree goes back and forth between two contents:
\* two snapshots with artifacts of their own, two deletion jobs, views and rules, two sweeps.
CONSTANTS
    Members = {m1}
    Evidences = {e1, e2}
    MaxVersion = 1
    MaxJobs = 2
    Sweepers = {w1, w2}
    Clients = {"view", "rule"}
    None = None
SPECIFICATION Spec
SYMMETRY Symmetry
INVARIANTS
    ReadableIsKept
PROPERTIES
    ImplementsCatalog
