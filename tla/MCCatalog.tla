----------------------------- MODULE MCCatalog -----------------------------
(***************************************************************************)
(* The parts around the database of snapshots that share nothing with each *)
(* other: the administration of the catalog, the views of it, the          *)
(* reservation of storage, the capture of a snapshot, the upgrade of the   *)
(* schema, and the terms found in snapshots and reviewed.  A behaviour is  *)
(* one of them; the others stay as they began.                             *)
(***************************************************************************)
EXTENDS Naturals, Sequences, FiniteSets, TLC

CONSTANTS s1, m1, m2, a, b, p, q, x, y, z,
          Scopes, Members, Names, Paths, Updates,
          ToCreate,   \* scopes that administration creates
          ToRetire, Requests, MaxSnapshots, MaxViews, MaxTime, Lifetime, Catalogs, None,
          Admissions, Capacity, MaxNeed, KeptFor,
          Files, Readable, Oversized, Declared, Indexed, Absent, Trees, Graphs, MaxEdits, MaxAttempts,
          Openers, Jobs, OldViews, Newest, MaxOpenings, MaxCrashes,
          purchase, approve, bill, invoice, r1, r2, r3,
          Terms, Extracted, Aligned, Recognized, Owned, Held, Alike, MaxReviews

ASSUME TimesAssumption == {Lifetime, KeptFor} \subseteq Nat \ {0}
ASSUME ViewsAssumption == {MaxSnapshots, MaxTime} \subseteq Nat /\ None \notin Nat
ASSUME ScopesAssumption == ToRetire \subseteq Scopes
ASSUME UpdatesAssumption == Updates \subseteq (Names \cup {None}) \X (Paths \cup {None})
ASSUME SpaceAssumption == {Capacity, MaxNeed} \subseteq Nat
ASSUME AdmissionsAssumption == IsFiniteSet(Admissions)
ASSUME UpgradeAssumption ==
    /\ Newest \in Nat /\ Newest > 2
    /\ None \notin [shape : {"first", "attempts", "all"}, rows : SUBSET Jobs] \cup Scopes
ASSUME FilesAssumption ==
    /\ IsFiniteSet(Files) /\ Files = 1 .. Cardinality(Files)
    /\ Indexed \cup Declared \subseteq Files /\ MaxAttempts \in Nat
ASSUME WorldsAssumption ==
    /\ Trees \subseteq [Files -> Readable \cup Oversized \cup {Absent}]
    /\ Graphs \subseteq UNION {[D -> Readable] : D \in SUBSET Indexed}
ASSUME ContentsAssumption == Readable \cap Oversized = {} /\ Absent \notin Readable \cup Oversized
ASSUME TermsAssumption ==
    /\ \A s \in Extracted : \A types \in DOMAIN Recognized[s] :
         LET found == Recognized[s][types].found IN
         /\ DOMAIN found \subseteq Terms /\ \A t \in DOMAIN found : found[t].evidence # {}
    /\ \A s \in Extracted : "all" \in DOMAIN Recognized[s]
    /\ \A v \in Aligned : Held[v] \in Seq(Extracted)

VARIABLES scopes, members, current, views, refs, now, request,
          row, at, need, free, sum, written, raced,
          tree, past, reverted, edits, graph, left, stray, strayed, stage, cursor, seen, frozen,
          mid, cancelled, attempt, outcome, staging, store, published,
          version, jobs, legacy, fresh, columns, spans, scopeOf, pc, read, known, alone,
          openings, crashes,
          terms, results, evidence, relations, alignments, aligning,
          focus

cataloging == <<scopes, members, current, views, refs, request>>
storing == <<row, at, need, free, sum, written, raced>>
capturing == <<tree, past, reverted, edits, graph, left, stray, strayed, stage, cursor, seen,
               frozen, mid, cancelled, attempt, outcome, staging, store, published>>
upgrading == <<version, jobs, legacy, fresh, columns, spans, scopeOf, pc, read, known, alone,
               openings, crashes>>
reviewing == <<terms, results, evidence, relations, alignments, aligning>>

-----------------------------------------------------------------------------
NoMember == [scope |-> None, name |-> None, path |-> None, identity |-> None, retired |-> FALSE]
ASSUME CatalogsAssumption ==
    \A c \in Catalogs :
      /\ c.scopes \in [Scopes -> {"none", "active", "retired"}]
      /\ c.members \in [Members -> [scope : Scopes \cup {None}, name : Names \cup {None},
                                    path : Paths \cup {None}, identity : Paths \cup {None},
                                    retired : BOOLEAN]]
      /\ c.current \in [Members -> 0 .. MaxSnapshots]
      /\ \A m \in Members : /\ c.members[m].path = c.members[m].identity
                            /\ c.members[m] = NoMember \/ c.members[m].scope \in Scopes
      /\ \A m, n \in {k \in Members : c.members[k] # NoMember /\ ~ c.members[k].retired} :
           c.members[m].path = c.members[n].path => m = n

(* The instance that is checked.  The catalog is empty; or has a member    *)
(* with a current snapshot and, in the same scope or in another, one       *)
(* without.                                                                *)
Member(scope, name, path) ==
    [scope |-> scope, name |-> name, path |-> path, identity |-> path, retired |-> FALSE]
Nothing == [t \in Scopes |-> "none"]
Empty == [scopes |-> Nothing, members |-> [m \in Members |-> NoMember],
          current |-> [m \in Members |-> 0]]
Full == {[scopes |-> [t \in Scopes |-> "active"],
          members |-> (m1 :> Member(s1, a, p) @@ m2 :> Member(s, b, q)),
          current |-> (m1 :> 1 @@ m2 :> 0)] : s \in Scopes}
MCCatalogs == {Empty} \cup Full
MCUpdates == {<<a, None>>, <<None, p>>, <<None, q>>, <<b, q>>}

(* One source, with or without one that is declared and is not read; a     *)
(* database that is empty, or of another content.                          *)
MCTrees == {<<x, Absent>>, <<y, z>>}
MCGraphs == {<<>>, <<y>>}

(* Two snapshots of one repository, the newer with a handler that is named *)
(* like a page (the page is left out), and one of another; two views that  *)
(* hold the newer and the other.                                           *)
Found(values) == [status |-> "accepted", evidence |-> values]
MCRecognized == r1 :> ("all" :> [found |-> purchase :> Found({"definition"}),
                                 relations |-> {<<approve, purchase>>}]
                       @@ "action" :> [found |-> approve :> Found({"handler"}), relations |-> {}])
                @@ r2 :> ("all" :> [found |-> purchase :> Found({"definition"}), relations |-> {}])
                @@ r3 :> ("all" :> [found |-> bill :> Found({"route"}) @@ invoice :> Found({"route"}),
                                    relations |-> {}])
MCOwned == r1 :> {purchase} @@ r2 :> {} @@ r3 :> {}
MCHeld == [v \in Aligned |-> <<r1, r3>>]
MCAlike == {{purchase, bill}, {purchase, invoice}}

Symmetric == Permutations(Openers) \cup Permutations(Aligned) \cup Permutations({bill, invoice})

-----------------------------------------------------------------------------
G == INSTANCE GraphViews
S == INSTANCE StorageReservations WITH Attempts <- Admissions, Kept <- KeptFor
C == INSTANCE CapturePublish
U == INSTANCE SchemaUpgrade WITH Views <- OldViews, seen <- read
T == INSTANCE TermReviews
       WITH Snapshots <- Extracted, Views <- Aligned, Reports <- Recognized, Owns <- Owned,
            Members <- Held

Init ==
    /\ focus \in {"administration", "views", "storage", "capture", "upgrade", "reviewing"}
    /\ G!Init /\ (focus = "views") # (scopes = Nothing)
    /\ S!Init
    /\ C!Init /\ (focus = "capture" \/ <<tree, graph>> = CHOOSE w \in Trees \X Graphs : TRUE)
    /\ IF focus = "upgrade" THEN U!Init
       ELSE /\ version = 0 /\ jobs = None /\ legacy = None /\ fresh = None /\ columns = {}
            /\ spans = <<>> /\ scopeOf = <<>> /\ pc = <<>> /\ read = <<>> /\ known = {}
            /\ alone = TRUE /\ openings = 0 /\ crashes = 0
    /\ IF focus = "reviewing" THEN T!Init
       ELSE /\ terms = {} /\ results = <<>> /\ evidence = {} /\ relations = {}
            /\ alignments = <<>> /\ aligning = None

Viewing == G!Viewing \/ G!Tick \/ \E m \in Members : G!RetireMember(m) \/ G!Publish(m)
Next ==
    /\ UNCHANGED focus
    /\ \/ /\ focus = "administration" /\ G!Administration /\ \A s \in Scopes \ ToCreate : UNCHANGED scopes[s]
          /\ UNCHANGED <<storing, capturing, upgrading, reviewing>>
       \/ focus = "views" /\ Viewing /\ UNCHANGED <<storing, capturing, upgrading, reviewing>>
       \/ focus = "storage" /\ S!Next /\ UNCHANGED <<cataloging, capturing, upgrading, reviewing>>
       \/ focus = "capture" /\ C!Next /\ UNCHANGED <<cataloging, now, storing, upgrading, reviewing>>
       \/ focus = "upgrade" /\ U!Next /\ UNCHANGED <<cataloging, now, storing, capturing, reviewing>>
       \/ focus = "reviewing" /\ T!Next /\ UNCHANGED <<cataloging, now, storing, capturing, upgrading>>
Spec == Init /\ [][Next]_<<cataloging, storing, now, capturing, upgrading, reviewing, focus>>

(* See GraphViews, StorageReservations, CapturePublish, SchemaUpgrade and  *)
(* TermReviews:                                                            *)
(* a view keeps to its scope and its snapshots;                            *)
ViewsHold == focus \in {"administration", "views"} => G!ViewsHold
(* what refers to a snapshot for good does so from then on;                *)
PinsStay == [][G!PinStays]_cataloging
(* admissions that do not overlap do not oversell the disk;                *)
SoldOnce == S!SoldOnce
(* what is published is one state of the tree, whole, and stays stored;    *)
PublishedIsOneState == focus = "capture" => C!PublishedIsOneState
(* no upgrade of the database, however disturbed, loses anything;          *)
UpgradeKeepsAll == focus = "upgrade" => U!UpgradeKeepsAll
(* and extraction and alignment, again and in several snapshots and views  *)
(* at once, leave what was decided about terms and what it rests on.       *)
ReviewsStand == [][focus = "reviewing" => T!ReviewStands]_<<reviewing, focus>>
=============================================================================
