--------------------------- MODULE CapturePublish ---------------------------
(***************************************************************************)
(* How an attempt turns a working tree that may change at any time into an *)
(* immutable snapshot: it scans the tree, lets CodeGraph update its        *)
(* database, scans again, freezes the database and the sources, scans a    *)
(* third time, analyzes what it has frozen, and publishes it if the three  *)
(* scans agree.                                                            *)
(*                                                                         *)
(* A scan and a freeze read one file after the other, with edits between;  *)
(* CodeGraph does, too.  Attempts of one repository follow each other; a   *)
(* command that could not be terminated goes on beside the next attempt.   *)
(* The rows of attempts and runs are those of AnalysisRuns, and not        *)
(* repeated here.                                                          *)
(***************************************************************************)
EXTENDS Naturals, FiniteSets

CONSTANTS
    Files,        \* numbers, in the order of paths
    Readable,     \* contents a scan reads
    Oversized,    \* contents a scan excludes: too large, binary, a symlink
    Declared,     \* files matched by a declared glob
    Indexed,      \* files CodeGraph indexes
    Absent,       \* there is no such file
    Trees,        \* working trees to begin with
    Graphs,       \* databases of CodeGraph to begin with
    MaxEdits,     \* bound on edits
    MaxAttempts   \* bound on attempts

VARIABLES
    tree,      \* the working tree
    past,      \* what each file has been since the attempt began
    reverted,  \* a file has become again what it was during the attempt
    edits,     \* edits so far
    graph,     \* .codegraph/codegraph.db: the contents CodeGraph has indexed
    left,      \* files the command of the attempt has still to index
    stray,     \* pending writes of commands that could not be terminated
    strayed,   \* there has been such a write since the attempt began
    stage,     \* where the attempt is
    cursor,    \* files of the scan or freeze that are left
    seen,      \* observations: before, after, final
    frozen,    \* the staging directory
    mid,       \* the tree when the last source had been frozen
    cancelled, \* cancellation_requested_at
    attempt,   \* number of the attempt
    outcome,   \* status of each attempt
    staging,   \* attempts that have a staging directory
    store,     \* content-addressed artifacts
    published  \* rows of repository_analysis_snapshots

world == <<tree, past, reverted, edits>>
indexer == <<graph, left, stray, strayed>>
capture == <<seen, frozen, mid>>
results == <<staging, store, published>>
vars == <<world, indexer, stage, cursor, capture, cancelled, attempt, outcome, results>>

Attempts == 1 .. MaxAttempts
Contents == Readable \cup Oversized
Nothing == [f \in {} |-> Absent]
NoScan == [entries |-> Nothing, excluded |-> {}]
NoFreeze == [graph |-> Nothing, expected |-> Nothing, sources |-> Nothing]
Scans == {"before", "after", "final"}

Present == {f \in Files : tree[f] # Absent}
First(S) == CHOOSE f \in S : \A g \in S : f <= g
Put(m, f, c) == [g \in DOMAIN m \cup {f} |-> IF g = f THEN c ELSE m[g]]
Only(m, S) == [f \in DOMAIN m \cap S |-> m[f]]

-----------------------------------------------------------------------------
(* The working tree *)

Edited(f, c) ==
    /\ c # tree[f] /\ edits < MaxEdits
    /\ tree' = [tree EXCEPT ![f] = c]
    /\ past' = [past EXCEPT ![f] = @ \cup {c}]
    /\ reverted' = (reverted \/ c \in past[f])
    /\ edits' = edits + 1

Edit(f, c) ==
    /\ stage # "idle" /\ Edited(f, c)
    /\ UNCHANGED <<indexer, stage, cursor, capture, cancelled, attempt, outcome, results>>

-----------------------------------------------------------------------------
(* The frame of an attempt *)

(* __call__ creates the staging directory, and the first scan enumerates   *)
(* the files there are.                                                    *)
Begin ==
    /\ stage = "idle" /\ attempt < MaxAttempts
    /\ attempt' = attempt + 1
    /\ stage' = "before" /\ cursor' = Present
    /\ past' = [f \in Files |-> {tree[f]}]
    /\ staging' = staging \cup {attempt + 1}
    /\ outcome' = [outcome EXCEPT ![attempt + 1] = "running"]
    /\ UNCHANGED <<tree, reverted, edits, indexer, capture, cancelled, store, published>>

(* The attempt ends, and what it had in memory is gone.                    *)
Over ==
    /\ stage' = "idle" /\ cursor' = {}
    /\ seen' = [p \in Scans |-> NoScan] /\ frozen' = NoFreeze /\ mid' = Nothing
    /\ past' = [f \in Files |-> {}] /\ reverted' = FALSE
    /\ left' = {} /\ strayed' = FALSE /\ cancelled' = FALSE

(* Errors the worker knows, and cancellation, reclaim the staging          *)
(* directory; any other error leaves it to the scavenger.                  *)
End(status, reclaimed) ==
    /\ Over
    /\ outcome' = [outcome EXCEPT ![attempt] = status]
    /\ staging' = IF reclaimed THEN staging \ {attempt} ELSE staging
    /\ UNCHANGED <<tree, edits, graph, attempt, store, published>>

Fail == End("failed", TRUE) /\ UNCHANGED stray

(* _stage: a stage begins unless cancellation has been requested. *)
Goes(next, files, freeze, indexing) ==
    IF cancelled THEN End("cancelled", TRUE) /\ UNCHANGED stray
    ELSE /\ stage' = next /\ cursor' = files
         /\ frozen' = freeze
         /\ mid' = IF next = "final" THEN tree ELSE mid
         /\ left' = indexing
         /\ UNCHANGED <<world, graph, stray, strayed, seen, cancelled, attempt,
                        outcome, results>>
Enter(next, files) == Goes(next, files, frozen, {})

(* request_cancel is refused when the attempt is publishing. *)
Publishing == stage \in {"communication", "evidence", "row", "cleanup"}
Cancel ==
    /\ stage # "idle" /\ ~ Publishing /\ ~ cancelled
    /\ cancelled' = TRUE
    /\ UNCHANGED <<world, indexer, stage, cursor, capture, attempt, outcome, results>>

(* Anything may raise: the disk is full, the database is locked, Git does  *)
(* not answer, the analyzer has an error.                                  *)
Raise ==
    /\ stage \notin {"idle", "cleanup"}
    /\ \E known \in BOOLEAN : End("failed", known)
    /\ UNCHANGED stray

-----------------------------------------------------------------------------
(* Scans *)

Scanning == stage \in Scans
Entry(f, c) == seen' = [seen EXCEPT ![stage].entries = Put(@, f, c)]
Exclusion(f) == seen' = [seen EXCEPT ![stage].excluded = @ \cup {f}]

(* A file is read, or excluded by its kind, or gone. *)
ReadFile ==
    LET f == First(cursor)
    IN  /\ Scanning /\ cursor # {}
        /\ IF tree[f] \in Readable THEN Entry(f, tree[f]) ELSE Exclusion(f)
        /\ cursor' = cursor \ {f}
        /\ UNCHANGED <<world, indexer, stage, frozen, mid, cancelled, attempt, outcome, results>>

(* It changes while it is read. *)
ReadUnstable(c) ==
    LET f == First(cursor)
    IN  /\ Scanning /\ cursor # {} /\ tree[f] \in Readable
        /\ Edited(f, c) /\ Exclusion(f)
        /\ cursor' = cursor \ {f}
        /\ UNCHANGED <<indexer, stage, frozen, mid, cancelled, attempt, outcome, results>>

ScanEnds(scan) == stage = scan /\ cursor = {}

(* source_digest is about the entries, and not about the exclusions. *)
AgreesOnPaths(scan) ==    \* mutation: the same paths are enough
    DOMAIN seen[scan].entries = DOMAIN seen["before"].entries
AgreesOnCommon(scan) ==   \* mutation: new files do not matter
    \A f \in DOMAIN seen["before"].entries :
        /\ f \in DOMAIN seen[scan].entries
        /\ seen[scan].entries[f] = seen["before"].entries[f]
AgreesWithSecond(scan) == \* mutation: compared with the scan after the command
    seen[scan].entries = seen["after"].entries
Agrees(scan) == seen[scan].entries = seen["before"].entries

AfterFirstScan ==
    /\ ScanEnds("before")
    /\ Goes("command", {}, frozen, Indexed)

AfterSecondScan ==
    /\ ScanEnds("after")
    /\ IF Agrees("after") THEN Enter("graph", {}) ELSE Fail

AfterFinalScan ==
    /\ ScanEnds("final")
    /\ IF Agrees("final") /\ frozen.expected = frozen.sources
       THEN Enter("analyze", {}) ELSE Fail

-----------------------------------------------------------------------------
(* The CodeGraph command *)

IndexingAny(g, f, c) ==   \* mutation: any content is indexed
    Put(g, f, c)
Indexing(g, f, c) == IF c \in Readable THEN Put(g, f, c) ELSE Only(g, Files \ {f})

IndexFile ==
    LET f == First(left)
    IN  /\ stage = "command" /\ left # {}
        /\ graph' = Indexing(graph, f, tree[f])
        /\ left' = left \ {f}
        /\ UNCHANGED <<world, stray, strayed, stage, cursor, capture, cancelled,
                       attempt, outcome, results>>

CommandSucceeds ==
    /\ stage = "command" /\ left = {}
    /\ Enter("after", Present)

(* The loop that waits for the command ends it when cancellation is        *)
(* requested or its time is up.  If that fails, the attempt has failed and *)
(* the command goes on, with what it has read.                             *)
Terminated(status) ==
    \/ End(status, TRUE) /\ UNCHANGED stray
    \/ /\ End("failed", TRUE)
       /\ stray' = stray \cup {<<f, tree[f]>> : f \in left}

StopCommand ==
    /\ stage = "command"
    /\ Terminated(IF cancelled THEN "cancelled" ELSE "failed")

StrayWrite(w) ==
    /\ w \in stray
    /\ graph' = Indexing(graph, w[1], w[2])
    /\ stray' = stray \ {w}
    /\ strayed' = (stage # "idle")
    /\ UNCHANGED <<world, left, stage, cursor, capture, cancelled, attempt, outcome, results>>

-----------------------------------------------------------------------------
(* Freezing *)

(* The database is copied as of one moment.  The sources to be frozen are  *)
(* those that CodeGraph has or that are declared, as the second scan saw   *)
(* them.                                                                   *)
ExpectedOf(scan) == Only(scan.entries, DOMAIN graph \cup Declared)

FreezeGraph ==
    /\ stage = "graph"
    /\ LET expected == ExpectedOf(seen["after"])
       IN  Goes("freeze", DOMAIN expected,
                [graph |-> graph, expected |-> expected, sources |-> Nothing], {})

(* freeze_sources: each file must still be what was observed. *)
Still(f) == tree[f] = frozen.expected[f]

FreezeFile ==
    LET f == First(cursor)
    IN  /\ stage = "freeze" /\ cursor # {}
        /\ IF Still(f)
           THEN /\ frozen' = [frozen EXCEPT !.sources = Put(@, f, tree[f])]
                /\ cursor' = cursor \ {f}
                /\ UNCHANGED <<world, indexer, stage, seen, mid, cancelled, attempt,
                               outcome, results>>
           ELSE Fail

FreezeEnds ==
    /\ stage = "freeze" /\ cursor = {}
    /\ Enter("final", Present)

(* The analysis reads what has been frozen. *)
Analyze ==
    /\ stage = "analyze"
    /\ Enter("communication", {})

-----------------------------------------------------------------------------
(* Publication *)

Manifest == [graph |-> frozen.graph, sources |-> frozen.sources,
             excluded |-> seen["after"].excluded]
Communication == [attempt |-> attempt]   \* it has the id of the snapshot in it

Store(stageOfObject, object, next) ==
    /\ stage = stageOfObject
    /\ store' = store \cup {object}
    /\ stage' = next
    /\ UNCHANGED <<world, indexer, cursor, capture, cancelled, attempt, outcome,
                   staging, published>>
StoreCommunication == Store("communication", Communication, "evidence")
StoreEvidence == Store("evidence", Manifest, "row")

(* publish_snapshot: a manifest that is known makes no new snapshot. *)
Known == \E s \in published : s.evidence = Manifest
PublishRow ==
    /\ stage = "row" /\ ~ cancelled
    /\ published' = IF Known THEN published
                    ELSE published \cup {[id |-> attempt, evidence |-> Manifest,
                                          communication |-> Communication]}
    /\ outcome' = [outcome EXCEPT ![attempt] = IF Known THEN "unchanged" ELSE "completed"]
    /\ stage' = "cleanup"
    /\ UNCHANGED <<world, indexer, cursor, capture, cancelled, attempt, staging, store>>

(* The communication artifact of a result that was known is removed, if    *)
(* nothing goes wrong, and the staging directory is reclaimed.             *)
ReclaimedAll == {Communication, Manifest}   \* mutation: the evidence, too
Reclaimed == {Communication}

Cleanup ==
    /\ stage = "cleanup"
    /\ \/ store' = IF outcome[attempt] = "unchanged" THEN store \ Reclaimed ELSE store
       \/ UNCHANGED store
    /\ Over
    /\ staging' = staging \ {attempt}
    /\ UNCHANGED <<tree, edits, graph, stray, attempt, outcome, published>>

(* scavenge_staging removes old directories of attempts that do not run. *)
ProtectedNot == {}   \* mutation: protected_names is not given
Protected == {a \in staging : outcome[a] = "running"}

ScavengeStaging(a) ==
    /\ a \in staging \ Protected
    /\ staging' = staging \ {a}
    /\ UNCHANGED <<world, indexer, stage, cursor, capture, cancelled, attempt, outcome,
                   store, published>>

Init ==
    /\ tree \in Trees /\ graph \in Graphs
    /\ past = [f \in Files |-> {}] /\ reverted = FALSE /\ edits = 0
    /\ left = {} /\ stray = {} /\ strayed = FALSE
    /\ stage = "idle" /\ cursor = {}
    /\ seen = [p \in Scans |-> NoScan] /\ frozen = NoFreeze /\ mid = Nothing
    /\ cancelled = FALSE /\ attempt = 0
    /\ outcome = [a \in Attempts |-> "none"]
    /\ staging = {} /\ store = {} /\ published = {}

(* What the worker does without waiting for the command. *)
Work ==
    \/ Begin
    \/ ReadFile \/ AfterFirstScan \/ AfterSecondScan \/ AfterFinalScan
    \/ CommandSucceeds
    \/ FreezeGraph \/ FreezeFile \/ FreezeEnds \/ Analyze
    \/ StoreCommunication \/ StoreEvidence \/ PublishRow \/ Cleanup

Next ==
    \/ Work \/ IndexFile \/ StopCommand \/ Raise \/ Cancel
    \/ \E f \in Files, c \in Contents \cup {Absent} : Edit(f, c)
    \/ \E c \in Contents \cup {Absent} : ReadUnstable(c)
    \/ \E w \in Files \X (Contents \cup {Absent}) : StrayWrite(w)
    \/ \E a \in Attempts : ScavengeStaging(a)

Spec == Init /\ [][Next]_vars

-----------------------------------------------------------------------------
(* Properties *)

FileMaps(S, C) == UNION {[D -> C] : D \in SUBSET S}
ScanResults == [entries : FileMaps(Files, Readable), excluded : SUBSET Files]

(* Every variable has its type. *)
TypeOK ==
    /\ tree \in [Files -> Contents \cup {Absent}]
    /\ graph \in FileMaps(Indexed, Readable)
    /\ left \subseteq Indexed /\ cursor \subseteq Files
    /\ \A p \in Scans : seen[p] \in ScanResults
    /\ frozen.graph \in FileMaps(Indexed, Readable)
    /\ frozen.expected \in FileMaps(Files, Readable)
    /\ frozen.sources \in FileMaps(Files, Readable)
    /\ attempt \in 0 .. MaxAttempts /\ staging \subseteq Attempts
    /\ outcome \in [Attempts -> {"none", "running", "failed", "cancelled",
                                 "completed", "unchanged"}]

Verified == stage = "analyze" \/ Publishing

(* What is analyzed and published is one state of the working tree: the    *)
(* sources are what the tree was when the last of them had been copied,    *)
(* whatever was edited during the scans, the command and the copies.  (An  *)
(* edit that is taken back in time is not noticed: scans compare contents.)*)
FrozenIsOneState ==
    Verified /\ ~ reverted =>
      \A f \in DOMAIN frozen.sources : frozen.sources[f] = mid[f]

(* The graph is about the sources it is published with: what CodeGraph has *)
(* indexed of each is what has been copied, and none is missing.           *)
GraphIsOfSources ==
    Verified /\ ~ reverted /\ ~ strayed =>
      \A f \in Indexed \cap DOMAIN frozen.sources :
          f \in DOMAIN frozen.graph /\ frozen.graph[f] = frozen.sources[f]

(* No file that CodeGraph has or that is declared is left out, also if it  *)
(* is new, unless the third scan has excluded it, even when edits are      *)
(* taken back.  (The manifest lists the exclusions of the second scan: a   *)
(* file that is created later and excluded by the third is not missed.)    *)
CompleteMeansAll ==
    Verified =>
      \A f \in Declared \cup DOMAIN frozen.graph :
          mid[f] \in Readable => f \in DOMAIN frozen.sources \cup seen["final"].excluded

(* A published snapshot has its evidence and its communication artifact,   *)
(* though later attempts with the same result remove what they stored.     *)
PublishedIsStored ==
    \A s \in published : {s.evidence, s.communication} \subseteq store

(* The directory an attempt works in is not scavenged under it. *)
WorkKeepsStaging == stage \notin {"idle", "cleanup"} => attempt \in staging

(* What is published is one state of the tree, whole, and stays stored,    *)
(* whatever is edited, fails, is cancelled or scavenged on the way.        *)
PublishedIsOneState ==
    /\ TypeOK /\ FrozenIsOneState /\ GraphIsOfSources /\ CompleteMeansAll
    /\ PublishedIsStored /\ WorkKeepsStaging
=============================================================================
