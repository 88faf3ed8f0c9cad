SPECIFICATION Spec
CONSTANTS
    s1 = s1
    m1 = m1
    m2 = m2
    a = a
    b = b
    p = p
    q = q
    Scopes = {s1, s2}
    Members = {m1, m2}
    Names = {a, b}
    Paths = {p, q}
    Updates <- MCUpdates
    ToCreate = {s1}
    ToRetire = {s1}
    Requests = {c1, c2}
    MaxSnapshots = 1
    MaxViews = 1
    MaxTime = 2
    Lifetime = 2
    Catalogs <- MCCatalogs
    None = None
    Admissions = {a1, a2, a3}
    Capacity = 3
    MaxNeed = 2
    KeptFor = 2
    x = x
    y = y
    z = z
    Files = {1, 2}
    Readable = {x, y}
    Oversized = {z}
    Declared = {2}
    Indexed = {1, 2}
    Absent = Absent
    Trees <- MCTrees
    Graphs <- MCGraphs
    MaxEdits = 2
    MaxAttempts = 2
    Openers = {o1, o2}
    Jobs = {j1, j2}
    OldViews = {v1}
    Newest = 4
    MaxOpenings = 3
    MaxCrashes = 1
    purchase = purchase
    approve = approve
    bill = bill
    invoice = invoice
    r1 = r1
    r2 = r2
    r3 = r3
    Terms = {purchase, approve, bill, invoice}
    Extracted = {r1, r2, r3}
    Aligned = {w1, w2}
    Recognized <- MCRecognized
    Owned <- MCOwned
    Held <- MCHeld
    Alike <- MCAlike
    MaxReviews = 1
SYMMETRY Symmetric
INVARIANTS
    ViewsHold SoldOnce PublishedIsOneState UpgradeKeepsAll
PROPERTY PinsStay ReviewsStand
CHECK_DEADLOCK FALSE
