-------------------------- MODULE EvolutionHistory --------------------------
(***************************************************************************)
(* The history of features that the evolution engine derives from the      *)
(* commits of a repository.                                                *)
(*                                                                         *)
(* An engine walks commits from old to new.  For each it reads the entry   *)
(* points from CodeGraph, matches them with the features it remembers, and *)
(* writes features, snapshots and events in one transaction.  Its memory   *)
(* (the matcher) is filled from the database when the engine is opened and *)
(* changes with every entry point; the database keeps no matcher.  Walks   *)
(* fail and processes die at any point; meanwhile the head of the          *)
(* repository moves forward, or to another branch.                         *)
(***************************************************************************)
EXTENDS Naturals, Sequences, FiniteSets

CONSTANTS
    Commits,      \* numbers, in the order of their dates
    Graphs,       \* possible histories: the parents of each commit
    Sources,      \* possible contents: the entry points of each commit
    Ratio,        \* similarity of the texts of two call chains, in percent
    RatioCallees, \* the same when the first one has lost its callers
    MaxFailures,  \* bound on failures and crashes
    None

ASSUME CommitsAssumption ==
    IsFiniteSet(Commits) /\ Commits = 1 .. Cardinality(Commits) /\ 1 \in Commits
ASSUME GraphsAssumption ==
    \A parents \in Graphs, c \in Commits : parents[c] \in Seq(1 .. c - 1)
ASSUME FailuresAssumption == MaxFailures \in Nat

VARIABLES
    repo,     \* the repository: parents, contents, head; Config.first_parent
    db,       \* the database of the EvolutionStore
    at,       \* what the engine is doing
    todo,     \* commits of the walk that are left
    memory,   \* FeatureMatcher: index and fingerprints
    saved,    \* the matcher before the commit
    tx,       \* the database as the open transaction sees it
    eps,      \* entry points of the commit that are left
    seen,     \* stable ids of the commit so far
    failures  \* failures and crashes so far

commit == <<saved, tx, eps, seen>>
vars == <<repo, db, at, todo, memory, commit, failures>>

SeqRange(s) == {s[i] : i \in 1 .. Len(s)}
Entries == UNION {SeqRange(src[c]) : src \in Sources, c \in Commits}
ASSUME SourcesAssumption ==
    /\ \A src \in Sources, c \in Commits : src[c] \in Seq(Entries)
    /\ \A e \in Entries : e.type \in STRING /\ e.sig \in STRING
Names == {e.name : e \in Entries}   \* qualified names, the stable ids
Ids == Commits                      \* commits.id, in the order of recording

(* Fingerprints of call trees. *)
Prints == [type : STRING, tree : SUBSET UNION {e.calls : e \in Entries},
           chain : {e.chain : e \in Entries} \cup {None}, callers : BOOLEAN]
ASSUME NoneAssumption == None \notin Commits /\ None \notin Entries /\ None \notin Prints

-----------------------------------------------------------------------------
(* Git *)

Included(c) ==
    LET p == repo.parents[c]
    IN  IF repo.firstParent /\ p # <<>> THEN {p[1]} ELSE SeqRange(p)

Lines[c \in Commits] == {c} \cup UNION {Lines[p] : p \in Included(c)}
Ancestors[c \in Commits] ==
    {c} \cup UNION {Ancestors[p] : p \in SeqRange(repo.parents[c])}

Ascending(S) ==
    [i \in 1 .. Cardinality(S) |->
        CHOOSE c \in S : Cardinality({d \in S : d <= c}) = i]

(* git log --reverse start..HEAD.  --first-parent restricts the commits    *)
(* that are listed, and not those that are excluded.                       *)
WalkByDate(start) ==   \* mutation: git log --since instead of a range
    Ascending({c \in Lines[repo.head] : start = None \/ c > start})
WalkNewestFirst(start) ==   \* mutation: without --reverse
    LET w == Ascending(Lines[repo.head]
                         \ (IF start = None THEN {} ELSE Ancestors[start]))
    IN  [i \in 1 .. Len(w) |-> w[Len(w) + 1 - i]]

WalkFrom(start) ==
    Ascending(Lines[repo.head] \ (IF start = None THEN {} ELSE Ancestors[start]))

-----------------------------------------------------------------------------
(* The database *)

NoRow == [status |-> "none", type |-> None, sig |-> None, first |-> 0, last |-> 0]
EmptyDb == [log |-> <<>>, row |-> [f \in Names |-> NoRow],
            snap |-> [f \in Names |-> [i \in Ids |-> None]], events |-> {}]

Recorded == SeqRange(db.log)
Active(d) == {f \in Names : d.row[f].status = "active"}
LatestCommit == IF db.log = <<>> THEN None ELSE db.log[Len(db.log)]

(* insert_commit: INSERT OR IGNORE, then the id of the hash. *)
InsertCommit(d, c) == IF c \in SeqRange(d.log) THEN d
                      ELSE [d EXCEPT !.log = Append(@, c)]
IdNext(d, c) == Len(d.log) + 1   \* mutation: lastrowid though nothing was inserted
IdOf(d, c) == CHOOSE i \in 1 .. Len(d.log) : d.log[i] = c

(* get_latest_snapshot: of the highest commit id, in whatever order the    *)
(* commits were analyzed.                                                  *)
Latest(d, f) ==
    LET ids == {i \in Ids : d.snap[f][i] # None}
    IN  IF ids = {} THEN None
        ELSE d.snap[f][CHOOSE i \in ids : \A j \in ids : j <= i]

InsertFeatureAgain(d, e, i) ==   \* mutation: INSERT OR REPLACE
    [d EXCEPT !.row[e.name] =
        [status |-> "active", type |-> e.type, sig |-> e.sig,
         first |-> 1, last |-> i]]
InsertFeature(d, e, i) ==
    IF d.row[e.name].status # "none" THEN d
    ELSE [d EXCEPT !.row[e.name] =
            [status |-> "active", type |-> e.type, sig |-> e.sig,
             first |-> i, last |-> i]]

(* insert_snapshot replaces the one of the same commit, insert_event       *)
(* ignores an event that is there.                                         *)
Write(d, f, i, e, types) ==
    [d EXCEPT !.snap[f][i] = e,
              !.events = @ \cup {<<f, i, t>> : t \in types}]

-----------------------------------------------------------------------------
(* FeatureMatcher and EvolutionAnalyzer *)

Register(m, f, e, print) ==
    [index |-> {x \in m.index : x[1] # <<e.type, e.sig>>}
                  \cup {<<<<e.type, e.sig>>, f>>},
     prints |-> [m.prints EXCEPT ![f] = print]]
Unregister(m, type, sig) ==
    [m EXCEPT !.index = {x \in @ : x[1] # <<type, sig>>}]

Trace(e) == [type |-> e.type, tree |-> e.calls, chain |-> e.chain, callers |-> TRUE]

(* The score of level L2, and that of L3 if the call trees differ too      *)
(* much, in percent; 0 if the fingerprint does not qualify.                *)
TreeScore(a, b) ==
    IF a = {} THEN 0 ELSE (100 * Cardinality(a \cap b)) \div Cardinality(a \cup b)
TextScore(e, p) == (IF p.callers THEN Ratio ELSE RatioCallees)[<<p.chain, e.chain>>]
Score(e, p) ==
    IF p = None \/ p.type # e.type THEN 0
    ELSE IF TreeScore(e.calls, p.tree) >= 75 THEN TreeScore(e.calls, p.tree)
    ELSE IF TextScore(e, p) >= 82 THEN TextScore(e, p) ELSE 0

(* Fingerprints are never removed, so features that have died are          *)
(* candidates as long as the engine lives.                                 *)
Candidates(m, e) == {f \in Names : Score(e, m.prints[f]) > 0}
Best(m, e) ==
    {f \in Candidates(m, e) :
        \A g \in Names : Score(e, m.prints[g]) <= Score(e, m.prints[f])}

Exact(m, e) == {x[2] : x \in {y \in m.index : y[1] = <<e.type, e.sig>>}}
Matches(m, e) == IF Exact(m, e) # {} THEN Exact(m, e) ELSE Best(m, e)
Ambiguous(m, e) == Exact(m, e) = {} /\ Cardinality(Candidates(m, e)) > 1

AtLeast(a, b) == IF a > b THEN a ELSE b

(* analyze.  No snapshot has test nodes, and MODIFIED needs a change that  *)
(* makes no event; neither occurs.                                         *)
EventTypes == {"BORN", "DIED", "GROWN", "SHRUNK", "EXTENDED", "CONTRACTED", "MOVED",
               "DEP_CREATED", "DEP_REMOVED", "RENAMED", "MERGED", "SPLIT"}
Grew(old, new) == 10 * new >= 13 * AtLeast(old, 1)
Shrank(old, new) == 10 * new <= 7 * AtLeast(old, 1)
If(condition, t) == IF condition THEN {t} ELSE {}
Changes(old, new) ==
    IF old = None THEN {"BORN"}
    ELSE LET n == Cardinality(old.calls)
             m == Cardinality(new.calls)
         IN  If(Grew(n, m), "GROWN") \cup If(Shrank(n, m), "SHRUNK")
             \cup If(Grew(old.depth, new.depth), "EXTENDED")
             \cup If(Shrank(old.depth, new.depth), "CONTRACTED")
             \cup If(new.edges > old.edges, "DEP_CREATED")
             \cup If(new.edges < old.edges, "DEP_REMOVED")
             \cup If(new.file # old.file, "MOVED")

-----------------------------------------------------------------------------
(* The engine is opened and closed *)

NoMemory == [index |-> {}, prints |-> [f \in Names |-> None]]

(* _hydrate_matcher: active features under their stored type and           *)
(* signature, with the names that are called in the latest snapshot.       *)
Hydrated(d) ==
    [index |-> {<<<<d.row[f].type, d.row[f].sig>>, f>> : f \in Active(d)},
     prints |-> [f \in Names |->
        LET s == Latest(d, f)
        IN  IF f \notin Active(d) THEN None
            ELSE [type |-> d.row[f].type, callers |-> FALSE,
                  tree |-> IF s = None THEN {} ELSE s.calls,
                  chain |-> IF s = None THEN None ELSE s.chain]]]

Open ==
    /\ at = "closed"
    /\ at' = "idle"
    /\ memory' = Hydrated(db)
    /\ UNCHANGED <<repo, db, todo, commit, failures>>

NoCommit == /\ saved' = NoMemory /\ tx' = EmptyDb
            /\ eps' = <<>> /\ seen' = {}

(* The process ends, or dies: SQLite rolls an open transaction back.       *)
Forget ==
    /\ at' = "closed" /\ todo' = <<>> /\ memory' = NoMemory /\ NoCommit
    /\ UNCHANGED <<repo, db>>
Close == at = "idle" /\ Forget /\ UNCHANGED failures
Fails == failures < MaxFailures /\ failures' = failures + 1
Crash == at # "closed" /\ Forget /\ Fails

-----------------------------------------------------------------------------
(* Walks *)

StartWalk(start) ==
    /\ at = "idle"
    /\ todo' = WalkFrom(start)
    /\ at' = "walk"
    /\ UNCHANGED <<repo, db, memory, commit, failures>>

(* backfill raises unless the database is empty. *)
Backfill == db.log = <<>> /\ StartWalk(None)

(* update goes on from the commit that was recorded last. *)
ResumeAtOldest == IF db.log = <<>> THEN None ELSE Head(db.log)   \* mutation
ResumeAt == LatestCommit
Update == StartWalk(ResumeAt)

EndWalk ==
    /\ at = "walk" /\ todo = <<>>
    /\ at' = "idle"
    /\ UNCHANGED <<repo, db, todo, memory, commit, failures>>

(* _process_commit up to the entry points. *)
BeginCommitLoose ==   \* mutation: insert_commit is outside of the transaction
    /\ at = "walk" /\ todo # <<>>
    /\ at' = "entries"
    /\ saved' = memory
    /\ db' = InsertCommit(db, Head(todo)) /\ tx' = db'
    /\ eps' = repo.contents[Head(todo)]
    /\ seen' = {}
    /\ UNCHANGED <<repo, todo, memory, failures>>

BeginCommit ==
    /\ at = "walk" /\ todo # <<>>
    /\ at' = "entries"
    /\ saved' = memory
    /\ tx' = InsertCommit(db, Head(todo))
    /\ eps' = repo.contents[Head(todo)]
    /\ seen' = {}
    /\ UNCHANGED <<repo, db, todo, memory, failures>>

(* The checkout or the synchronisation of CodeGraph fails, or a command of *)
(* the next walk does; the walk ends with an exception.                    *)
SyncFails ==
    /\ at = "walk" /\ todo # <<>> /\ Fails
    /\ at' = "idle" /\ todo' = <<>>
    /\ UNCHANGED <<repo, db, memory, commit>>

(* An exception within the transaction: both the database and the matcher  *)
(* are what they were before the commit.                                   *)
RestoredNot == memory       \* mutation: the matcher is not restored
RestoredEmpty == NoMemory   \* mutation: it is cleared
Restored == saved

CommitFails ==
    /\ at = "entries" /\ Fails
    /\ at' = "idle" /\ todo' = <<>>
    /\ memory' = Restored
    /\ NoCommit
    /\ UNCHANGED <<repo, db>>

-----------------------------------------------------------------------------
(* Entry points *)

Here == IdOf(tx, Head(todo))
Split(f) == If(f \in seen, "SPLIT")

(* An entry point is an earlier feature, though perhaps under another      *)
(* signature.  The status stays what it is.                                *)
Recognise(e, f) ==
    LET old == tx.row[f].sig
        types == Changes(Latest(tx, f), e)
                   \cup If(Ambiguous(memory, e), "MERGED")
                   \cup If(old # e.sig, "RENAMED")
        moved == IF old # e.sig THEN Unregister(memory, e.type, old) ELSE memory
    IN  /\ f \in Matches(memory, e)
        /\ tx.row[f].status # "none"
        /\ tx' = [Write(tx, f, Here, e, types \cup Split(f))
                    EXCEPT !.row[f].sig = e.sig, !.row[f].last = Here]
        /\ memory' = Register(moved, f, e, Trace(e))
        /\ seen' = seen \cup {f}

(* Nothing matches: a new feature, or one of the same qualified name,      *)
(* whose row stays as it is except that a removed one is active again.     *)
Revived(d, f, i) ==
    IF d.row[f].status # "removed" THEN d
    ELSE [d EXCEPT !.row[f].status = "active", !.row[f].last = i]

Introduce(e) ==
    /\ Matches(memory, e) = {}
    /\ tx' = Write(Revived(InsertFeature(tx, e, Here), e.name, Here), e.name, Here, e,
                   {"BORN"} \cup Split(e.name))
    /\ memory' = Register(memory, e.name, e, Trace(e))
    /\ seen' = seen \cup {e.name}

(* _process_one_entry_point, and the SPLIT event of its caller.  A match   *)
(* that is not in the database does not occur: see MemoryIsRecorded.       *)
EntryPoint ==
    /\ at = "entries" /\ eps # <<>>
    /\ eps' = Tail(eps)
    /\ Introduce(Head(eps)) \/ \E f \in Names : Recognise(Head(eps), f)
    /\ UNCHANGED <<repo, db, at, todo, saved, failures>>

(* The rest of _process_entry_points, and the commit of the transaction:   *)
(* features that were active and were not seen have died, under the        *)
(* signature they had before.                                              *)
GoneUnlessKnown ==   \* mutation: what the matcher has a fingerprint of stays
    {f \in Active(db) \ seen : memory.prints[f].callers}
Gone == Active(db) \ seen

EndCommit ==
    LET died == {f \in Gone : Latest(tx, f) # None}
        keys == {<<db.row[f].type, db.row[f].sig>> : f \in Gone}
    IN  /\ at = "entries" /\ eps = <<>>
        /\ db' = [tx EXCEPT
              !.events = @ \cup {<<f, Here, "DIED">> : f \in died},
              !.row = [f \in Names |-> IF f \in Gone
                         THEN [@[f] EXCEPT !.status = "removed"] ELSE @[f]]]
        /\ memory' = [memory EXCEPT !.index = {x \in @ : x[1] \notin keys}]
        /\ at' = "walk" /\ todo' = Tail(todo)
        /\ NoCommit
        /\ UNCHANGED <<repo, failures>>

-----------------------------------------------------------------------------
(* The repository *)

(* New commits, a reset, or another branch: git moves HEAD at any time.    *)
MoveHead(c) ==
    /\ c # repo.head
    /\ repo' = [repo EXCEPT !.head = c]
    /\ UNCHANGED <<db, at, todo, memory, commit, failures>>

Init ==
    /\ repo \in [parents : Graphs, contents : Sources, head : {1},
                firstParent : BOOLEAN]
    /\ db = EmptyDb
    /\ at = "closed" /\ todo = <<>> /\ memory = NoMemory
    /\ saved = NoMemory /\ tx = EmptyDb /\ eps = <<>> /\ seen = {}
    /\ failures = 0

Walk == EndWalk \/ BeginCommit \/ EntryPoint \/ EndCommit

Next ==
    \/ Open \/ Close \/ Crash \/ Backfill \/ Update
    \/ Walk \/ SyncFails \/ CommitFails
    \/ \E c \in Commits : MoveHead(c)

(* Whoever keeps a history runs update again and again, and a walk that    *)
(* nothing prevents goes on.                                               *)
Fairness == WF_vars(Open) /\ SF_vars(Update) /\ WF_vars(Walk)
Spec == Init /\ [][Next]_vars /\ Fairness

-----------------------------------------------------------------------------
(* Properties *)

Rows == [status : {"none", "active", "removed"}, type : STRING, sig : STRING,
         first : Nat, last : Nat] \cup {NoRow}

(* Every variable has its type (the memory: MemoryIsRecorded). *)
TypeOK ==
    /\ repo.head \in Commits
    /\ \A d \in {db, tx} :
         /\ d.log \in Seq(Commits)
         /\ d.row \in [Names -> Rows]
         /\ d.snap \in [Names -> [Ids -> Entries \cup {None}]]
         /\ \A e \in d.events : e \in Names \X (1 .. Len(d.log)) \X EventTypes
    /\ at \in {"closed", "idle", "walk", "entries"}
    /\ todo \in Seq(Commits) /\ eps \in Seq(Entries)
    /\ seen \subseteq Names /\ failures \in 0 .. MaxFailures

Settled == at \in {"idle", "walk"}

(* Between two commits the matcher knows nothing that is not in the        *)
(* database, whatever failed in between: each fingerprint is of a call     *)
(* tree that is recorded, and the branch "in matcher but not in DB" never  *)
(* runs.                                                                   *)
MemoryIsRecorded ==
    Settled => /\ \A x \in memory.index : db.row[x[2]].status # "none"
               /\ \A f \in Names : memory.prints[f] # None =>
                    \E i \in Ids : /\ db.snap[f][i] # None
                                   /\ db.snap[f][i].calls = memory.prints[f].tree

(* Between two commits the matcher knows every active feature, after       *)
(* renames, splits, rolled back commits and restarts.  (Not always under   *)
(* its signature: a feature that is revived keeps the row it had, and its  *)
(* old signature is unregistered later even if another feature has it.)    *)
ActiveIsRemembered ==
    Settled => \A f \in Active(db) : memory.prints[f] # None

(* The active features are those of one commit: all have been seen in it.  *)
ActiveAreOfOneCommit ==
    db.log # <<>> =>
      \E i \in 1 .. Len(db.log) : \A f \in Active(db) : db.snap[f][i] # None

(* The life of a feature is in the events: each begins with BORN at the    *)
(* commit that made the row, and one that was removed has died.            *)
LivesAreRecorded ==
    \A f \in Names :
      /\ db.row[f].status # "none" => <<f, db.row[f].first, "BORN">> \in db.events
      /\ db.row[f].status = "removed" => \E i \in Ids : <<f, i, "DIED">> \in db.events

(* A commit is recorded with everything in it or not at all, whatever      *)
(* fails or dies in the middle.                                            *)
CommitsAreWhole ==
    \A i \in 1 .. Len(db.log) :
      repo.contents[db.log[i]] # <<>> <=> \E f \in Names : db.snap[f][i] # None

(* No commit is recorded before those it is made from, though walks end    *)
(* early and the head changes.  (Following first parents the engine leaves *)
(* out side branches, and may meet their later commits.)                   *)
NoGaps ==
    \/ repo.firstParent /\ \E c \in Commits : Len(repo.parents[c]) > 1
    \/ \A c \in Recorded : Ancestors[c] \subseteq Recorded

(* The matcher in memory and the history in the database agree between two *)
(* commits, after failures, crashes and restarts.                          *)
MemoryAgrees == TypeOK /\ MemoryIsRecorded /\ ActiveIsRemembered

(* What is recorded is the whole history up to some commits, and the lives *)
(* of the features in it.                                                  *)
HistoryIsWhole == ActiveAreOfOneCommit /\ LivesAreRecorded /\ CommitsAreWhole /\ NoGaps

(* A walk does not return to what the commit recorded last is made from.   *)
NeverBehind ==
    [][at = "walk" /\ at' = "entries" /\ db.log # <<>> =>
         Head(todo) \notin Ancestors[LatestCommit]]_vars

(* Failures and crashes delay a history; when they cease, update reaches   *)
(* the head, or has recorded a commit made from it.                        *)
CatchesUp == []<>(\E c \in Recorded : repo.head \in Ancestors[c])
=============================================================================
