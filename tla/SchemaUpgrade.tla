---------------------------- MODULE SchemaUpgrade ----------------------------
(***************************************************************************)
(* Opening the database of the analysis catalog                            *)
(* (infrastructure/analysis_snapshot_sqlite.py, migrate): the table of     *)
(* artifact jobs is repaired, then the schema is brought to the current    *)
(* version in one transaction, then the contract of the graph views is     *)
(* completed column by column.  Outside of a transaction every statement   *)
(* commits by itself, so that processes that open the database together    *)
(* meet between statements, and a process may die between them.            *)
(***************************************************************************)
EXTENDS Integers, Sequences, FiniteSets, FiniteSetsExt

CONSTANTS
    Openers,      \* processes that open the database
    Jobs,         \* rows of the table of artifact jobs
    Views, Scopes,
    Newest,       \* the version this program knows
    None,
    MaxOpenings, MaxCrashes   \* bounds

VARIABLES
    version,      \* PRAGMA user_version
    jobs, legacy, fresh,   \* graph_view_artifact_jobs, .._legacy and .._v3: None or [shape, rows]
    columns,      \* columns of the view contract that are there
    spans,        \* view -> the scopes its members belong to
    scopeOf,      \* view -> its frozen scope, or None
    pc, seen,     \* opener -> where it is, and what it has read
    known,        \* rows that were ever written
    alone,        \* no two openings overlapped and none was cut short
    openings, crashes

tables == <<jobs, legacy, fresh>>
contract == <<columns, spans, scopeOf>>
vars == <<version, tables, contract, pc, seen, known, alone, openings, crashes>>

(* The columns of the contract in the order they are added, and the first  *)
(* of each of the three tables.                                            *)
Columns == <<"scope_id", "identity_schema", "topology_rules_digest",
             "display_name", "view_aliases", "member_aliases">>
Firsts == {1, 4, 6}

-----------------------------------------------------------------------------
(* A job table has the columns of the first schema ("first"), those of     *)
(* attempts and retries too ("attempts"), or all ("all").                  *)
Unknown(shape, rows) == [shape |-> "v3", rows |-> rows]
Table(shape, rows) == [shape |-> shape, rows |-> rows]
Go(o, where) == pc' = [pc EXCEPT ![o] = where]
Raise(o) == Go(o, "closed")
HasViews == version > 0

Open(o) ==
    /\ pc[o] = "closed" /\ openings < MaxOpenings
    /\ Go(o, "look") /\ openings' = openings + 1
    /\ alone' = (alone /\ \A p \in Openers : pc[p] \in {"closed", "open"})
    /\ UNCHANGED <<version, tables, contract, seen, known, crashes>>

(* What there is of the job table decides what is to be done about it. *)
Look(o) ==
    /\ pc[o] = "look"
    /\ Go(o, CASE ~HasViews -> "version"
               [] HasViews /\ jobs = None -> "create"
               [] HasViews /\ jobs # None /\ jobs.shape = "first" -> "rename"
               [] HasViews /\ jobs # None /\ jobs.shape = "attempts" -> "widen"
               [] OTHER -> "version")
    /\ UNCHANGED <<version, tables, contract, seen, known, alone, openings, crashes>>

Create(o) ==
    /\ pc[o] = "create"
    /\ IF jobs = None THEN jobs' = Table("attempts", {}) /\ Go(o, "version")
       ELSE UNCHANGED jobs /\ Raise(o)
    /\ UNCHANGED <<version, legacy, fresh, contract, seen, known, alone, openings, crashes>>
Widen(o) ==
    /\ pc[o] = "widen"
    /\ IF jobs # None /\ jobs.shape = "attempts"
       THEN jobs' = Table("all", jobs.rows) /\ Go(o, "version")
       ELSE UNCHANGED jobs /\ Raise(o)
    /\ UNCHANGED <<version, legacy, fresh, contract, seen, known, alone, openings, crashes>>
Rename(o) ==
    /\ pc[o] = "rename"
    /\ IF jobs # None /\ legacy = None
       THEN legacy' = jobs /\ jobs' = None /\ Go(o, "make")
       ELSE UNCHANGED <<jobs, legacy>> /\ Raise(o)
    /\ UNCHANGED <<version, fresh, contract, seen, known, alone, openings, crashes>>
Make(o) ==
    /\ pc[o] = "make"
    /\ IF fresh = None THEN fresh' = Table("attempts", {}) /\ Go(o, "copy")
       ELSE UNCHANGED fresh /\ Raise(o)
    /\ UNCHANGED <<version, jobs, legacy, contract, seen, known, alone, openings, crashes>>
(* The INSERT opens a transaction, which lasts until both tables have gone *)
(* to their places; it is rolled back when a statement of it fails.        *)
Anyway == TRUE
Placed == jobs = None
Copy(o) ==
    /\ pc[o] = "copy"
    /\ IF legacy # None /\ fresh # None /\ Placed
       THEN /\ jobs' = Table(fresh.shape, fresh.rows \cup legacy.rows)
            /\ legacy' = None /\ fresh' = None /\ Go(o, "version")
       ELSE UNCHANGED tables /\ Raise(o)
    /\ UNCHANGED <<version, contract, seen, known, alone, openings, crashes>>

-----------------------------------------------------------------------------
(* The version is read; what lies between it and version 3 is done in one  *)
(* exclusive transaction, which fails when a table to be made is there.    *)
ReadVersion(o) ==
    /\ pc[o] = "version"
    /\ seen' = [seen EXCEPT ![o].version = version]
    /\ IF version > Newest THEN Raise(o) ELSE Go(o, IF version <= 2 THEN "script" ELSE "contract")
    /\ UNCHANGED <<version, tables, contract, known, alone, openings, crashes>>
Rows(table) == IF table = None THEN {} ELSE table.rows
Forgotten(table) == {}
Carried(table) == Rows(table)
Script(o) ==
    /\ pc[o] = "script"
    /\ LET fails == fresh # None \/ (seen[o].version = 0 /\ HasViews)
       IN  IF fails THEN UNCHANGED <<jobs, version, columns>> /\ Raise(o)
           ELSE /\ jobs' = Table("all", Carried(jobs))
                /\ version' = Newest
                /\ columns' = IF seen[o].version = 0 THEN 1 .. Len(Columns) ELSE columns
                /\ Go(o, "contract")
    /\ UNCHANGED <<legacy, fresh, spans, scopeOf, seen, known, alone, openings, crashes>>

(* Each table is read once and gets the columns it lacked then, one by     *)
(* one.                                                                    *)
Start(o) ==
    /\ pc[o] = "contract"
    /\ seen' = [seen EXCEPT ![o].next = 1] /\ Go(o, "columns")
    /\ UNCHANGED <<version, tables, contract, known, alone, openings, crashes>>
AddColumn(o) ==
    /\ pc[o] = "columns" /\ seen[o].next <= Len(Columns)
    /\ LET i == seen[o].next
           there == IF i \in Firsts THEN columns ELSE seen[o].columns
       IN  /\ seen' = [seen EXCEPT ![o].next = i + 1, ![o].columns = there]
           /\ IF i \in there THEN UNCHANGED <<columns, pc>>
              ELSE IF i \in columns THEN UNCHANGED columns /\ Raise(o)
              ELSE columns' = columns \cup {i} /\ UNCHANGED pc
    /\ UNCHANGED <<version, tables, spans, scopeOf, known, alone, openings, crashes>>

(* A view whose members are of one scope belongs to it. *)
Anyhow(view) == spans[view] # {}
Certain(view) == Cardinality(spans[view]) = 1
Backfill(o) ==
    /\ pc[o] = "columns" /\ seen[o].next > Len(Columns)
    /\ scopeOf' = [v \in Views |-> IF scopeOf[v] = None /\ Certain(v)
                                   THEN CHOOSE s \in spans[v] : TRUE ELSE scopeOf[v]]
    /\ Go(o, "stamp")
    /\ UNCHANGED <<version, tables, columns, spans, seen, known, alone, openings, crashes>>
Stamp(o) ==
    /\ pc[o] = "stamp"
    /\ version' = IF seen[o].version < Newest THEN Newest ELSE version
    /\ Go(o, "open")
    /\ UNCHANGED <<tables, contract, seen, known, alone, openings, crashes>>

-----------------------------------------------------------------------------
(* An open database gets a job, if its table has the columns for it. *)
Enqueue(o, job) ==
    /\ pc[o] = "open" /\ job \notin known
    /\ jobs # None /\ jobs.shape = "all"
    /\ jobs' = Table(jobs.shape, jobs.rows \cup {job}) /\ known' = known \cup {job}
    /\ UNCHANGED <<version, legacy, fresh, contract, pc, seen, alone, openings, crashes>>
Crash(o) ==
    /\ pc[o] \notin {"closed", "open"} /\ crashes < MaxCrashes
    /\ crashes' = crashes + 1 /\ alone' = FALSE /\ Raise(o)
    /\ UNCHANGED <<version, tables, contract, seen, known, openings>>
Close(o) ==
    /\ pc[o] = "open" /\ Raise(o)
    /\ UNCHANGED <<version, tables, contract, seen, known, alone, openings, crashes>>

(* A new database; one of an earlier version, with the first schema of the *)
(* job table or, from version 3 on, possibly with a later one; a newer     *)
(* one.                                                                    *)
Init ==
    /\ version \in 0 .. Newest + 1
    /\ jobs \in {None} \cup {Table(shape, rows) : shape \in {"first", "attempts", "all"}, rows \in SUBSET Jobs}
    /\ (jobs = None) = (version <= 1)
    /\ version = 2 => jobs.shape = "first"
    /\ version = Newest + 1 => jobs.shape = "all"
    /\ legacy = None /\ fresh = None
    /\ columns \in {{}, 1 .. Len(Columns)}
    /\ version <= 3 => columns = {}
    /\ version >= Newest => columns # {}
    /\ spans \in [Views -> SUBSET Scopes \ {{}}]
    /\ scopeOf = [v \in Views |-> None]
    /\ pc = [o \in Openers |-> "closed"]
    /\ seen = [o \in Openers |-> [version |-> 0, next |-> 1, columns |-> {}]]
    /\ known = Rows(jobs)
    /\ alone = TRUE /\ openings = 0 /\ crashes = 0

Opening(o) ==
    \/ Open(o) \/ Look(o) \/ Create(o) \/ Widen(o) \/ Rename(o) \/ Make(o) \/ Copy(o)
    \/ ReadVersion(o) \/ Script(o) \/ Start(o) \/ AddColumn(o) \/ Backfill(o) \/ Stamp(o)
Next == \E o \in Openers : Opening(o) \/ Crash(o) \/ Close(o) \/ \E job \in Jobs : Enqueue(o, job)
Spec == Init /\ [][Next]_vars

-----------------------------------------------------------------------------
(* The three job tables are absent or hold jobs in one of the shapes. *)
TypeOK ==
    /\ version \in 0 .. Newest + 1
    /\ \A table \in {jobs, legacy, fresh} :
         table = None \/ (table.shape \in {"first", "attempts", "all"} /\ table.rows \subseteq Jobs)
    /\ columns \subseteq 1 .. Len(Columns) /\ scopeOf \in [Views -> Scopes \cup {None}]

(* Whoever opens the database together with others, and whenever they die, *)
(* no job is in none of the three tables: nothing is destroyed that was    *)
(* not copied before.                                                      *)
NothingIsDestroyed == known = Rows(jobs) \cup Rows(legacy) \cup Rows(fresh)

(* An upgrade that nobody disturbs brings all the jobs of the earlier      *)
(* schemas to the table in use.                                            *)
JobsAreKept == alone /\ (\E o \in Openers : pc[o] = "open") => Rows(jobs) = known

(* Whoever has opened the database finds the version it knows, all columns *)
(* of the view contract, and every view either in the only scope of its    *)
(* members or, when they are of several, in none.                          *)
OpenHasContract ==
    (\E o \in Openers : pc[o] = "open") =>
        /\ version = Newest /\ columns = 1 .. Len(Columns)
        /\ \A v \in Views : scopeOf[v] = IF Cardinality(spans[v]) = 1
                                          THEN CHOOSE s \in spans[v] : TRUE ELSE None

(* Whatever the version, and whoever else opens the database or dies in    *)
(* it: nothing is lost, and whoever has opened it can work.                *)
UpgradeKeepsAll == TypeOK /\ NothingIsDestroyed /\ JobsAreKept /\ OpenHasContract

(* The comment in migrate: the tables are repaired before requests are     *)
(* served.  The job table that an open database works with would then have *)
(* all its columns.  It does not: a table of the first schema in a         *)
(* database of version 3 or later gets the columns of attempts only, and   *)
(* the others when the database is opened once more.                       *)
OpenIsComplete ==
    (\E o \in Openers : pc[o] = "open") /\ alone => jobs # None /\ jobs.shape = "all"
=============================================================================
