\* One content analysed before and after an upgrade: two snapshots share an
\* evidence artifact, pins and explanations come and go.
CONSTANTS
    Members = {m1}
    Evidences = {e1}
    MaxVersion = 2
    MaxJobs = 3
    Sweepers = {w1}
    Clients = {"snapshot_pin", "api_explanation"}
    None = None
SPECIFICATION Spec
SYMMETRY Symmetry
INVARIANTS
    EvidenceLostOnlyBySharing
