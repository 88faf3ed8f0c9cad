-------------------------- MODULE SnapshotRetention --------------------------
(***************************************************************************)
(* Publication of snapshots, the references that protect them, and their   *)
(* two-phase deletion.                                                     *)
(*                                                                         *)
(* Workers publish artifacts into the content-addressed store and then     *)
(* commit a snapshot to the catalog; handlers pin snapshots, refer to them *)
(* and request their deletion; sweeps, started by requests of their own,   *)
(* move the artifacts of a deleted snapshot to trash, record it and purge  *)
(* the trash.  Steps on the file system and transactions on the catalog    *)
(* interleave; the service may die between any two of them.                *)
(*                                                                         *)
(* The catalog holds one row per identity <<member, evidence, version>>    *)
(* and no code deletes rows, so the identity names the snapshot.  A        *)
(* version stands for the digests of analyzer, rules, schema and options,  *)
(* which the service only changes when it starts.                          *)
(***************************************************************************)
EXTENDS Naturals

CONSTANTS
    Members,     \* repository members
    Evidences,   \* evidence digests: contents of a working tree
    MaxVersion,  \* bound on the upgrades of the analyzer
    MaxJobs,     \* bound on the deletion jobs
    Sweepers,    \* requests that run scavenge_orphans
    Clients,     \* kinds of owners that come up besides "current"
    None         \* no snapshot, no job (SQL NULL)

ASSUME MaxVersionAssumption == MaxVersion \in Nat \ {0}
ASSUME MaxJobsAssumption == MaxJobs \in Nat

Versions == 1 .. MaxVersion
Snapshots == Members \X Evidences \X Versions
JobIds == 1 .. MaxJobs     \* in the order of requested_at

ASSUME NoneAssumption == None \notin Snapshots \cup JobIds

VARIABLES
    up,         \* the service process is running
    version,    \* version of the analyzer that is installed
    retired,    \* members that are retired
    deletion,   \* deletion_state of each snapshot, "absent" without a row
    orphaned,   \* snapshots whose row has orphaned = 1
    current,    \* current_repository_snapshots
    refs,       \* snapshot_references: <<snapshot, kind of owner>>
    jobs,       \* deletion_jobs
    cas,        \* keys of the artifacts in artifacts/sha256
    trash,      \* <<job, key>>: artifacts in the trash bucket of the job
    publisher,  \* the worker thread that publishes for a member
    checked,    \* snapshots an add_snapshot_reference has seen to be active
    sweeper     \* the sweeps

catalog == <<deletion, orphaned, current, refs, jobs>>
disk == <<cas, trash>>
threads == <<publisher, checked, sweeper>>
vars == <<up, version, retired, catalog, disk, threads>>

-----------------------------------------------------------------------------
(* Snapshots, owners of references and keys of artifacts *)

MemberOf(s) == s[1]
EvidenceOf(s) == s[2]

(* Owners of one kind are merged: a pair stands for at least one of them.  *)
(* A view keeps its references for good.                                   *)
ClientOwners == {"snapshot_pin", "view", "rule", "api_explanation"}
Owners == {"current"} \cup ClientOwners

ASSUME ClientsAssumption == Clients \subseteq ClientOwners

DeletionStates == {"absent", "active", "deletion_pending", "trashed"}
Exists(s) == deletion[s] # "absent"
Readable(s) == deletion[s] = "active"
RefersTo(s) == {o \in Owners : <<s, o>> \in refs}

(* Artifact kinds in the order in which scavenge takes them.  Snapshots of *)
(* equal evidence share one evidence artifact; the communication artifact  *)
(* contains the snapshot's identifier and belongs to it alone.             *)
Kinds == {"evidence", "communication"}
Key(kind, s) == <<kind, IF kind = "evidence" THEN EvidenceOf(s) ELSE s>>
Keys == {Key(kind, s) : kind \in Kinds, s \in Snapshots}

JobStatuses == {"none", "pending", "trashed", "completed"}

-----------------------------------------------------------------------------
(* The end of an analysis: publication.  A member has at most one running  *)
(* attempt (AnalysisRuns), hence one publisher.                            *)

IdlePublisher == [at |-> "idle", snapshot |-> None]

(* Rename the staged artifacts into the store; an artifact that is there   *)
(* already is reused.  The communication artifact of this attempt is known *)
(* to nobody else before the commit, which is where it enters cas here.    *)
PublishArtifacts(m, e) ==
    LET s == <<m, e, version>>
    IN  /\ up /\ publisher[m].at = "idle"
        /\ cas' = cas \cup {Key("evidence", s)}
        /\ publisher' = [publisher EXCEPT ![m] = [at |-> "measure", snapshot |-> s]]
        /\ UNCHANGED <<up, version, retired, catalog, trash, checked, sweeper>>

(* Open the evidence artifact for its size; the attempt fails without it.  *)
MeasureArtifact(m) ==
    /\ up /\ publisher[m].at = "measure"
    /\ publisher' = [publisher EXCEPT ![m] =
                       IF Key("evidence", publisher[m].snapshot) \in cas
                       THEN [@ EXCEPT !.at = "commit"] ELSE IdlePublisher]
    /\ UNCHANGED <<up, version, retired, catalog, disk, checked, sweeper>>

(* The row publish_snapshot inserts unless the identity exists. *)
InsertedAgain(s) ==   \* mutation: a row that exists becomes active again
    [deletion EXCEPT ![s] = "active"]

Inserted(s) == [deletion EXCEPT ![s] = IF Exists(s) THEN @ ELSE "active"]
InsertedOrphans(m, s) ==
    IF ~ Exists(s) /\ m \in retired THEN orphaned \cup {s} ELSE orphaned

(* Without a new row the fresh communication artifact is removed again.    *)
FactsOfReusedLost(s) ==   \* mutation: the reused snapshot's artifact is removed
    IF Exists(s) THEN cas \ {Key("communication", s)}
    ELSE cas \cup {Key("communication", s)}

FactsStored(s) ==
    IF Exists(s) THEN cas ELSE cas \cup {Key("communication", s)}

(* The triggers on current_repository_snapshots abort the transaction.     *)
CurrentAllowedAlways(s) == TRUE   \* mutation: the trigger is missing

CurrentAllowed(s) == Exists(s) => Readable(s) /\ s \notin orphaned

SetCurrent(m, s) ==
    /\ current' = [current EXCEPT ![m] = s]
    /\ refs' = (refs \ {<<t, "current">> : t \in {x \in Snapshots : MemberOf(x) = m}})
                 \cup {<<s, "current">>}

(* publish_snapshot, one transaction: insert the snapshot or find it       *)
(* unchanged; unless the member is retired, make it the current one.       *)
CommitSnapshot(m) ==
    LET s == publisher[m].snapshot
        keepCurrent == m \in retired \/ current[m] = s
    IN  /\ up /\ publisher[m].at = "commit"
        /\ publisher' = [publisher EXCEPT ![m] = IdlePublisher]
        /\ IF keepCurrent \/ CurrentAllowed(s)
           THEN /\ deletion' = Inserted(s)
                /\ orphaned' = InsertedOrphans(m, s)
                /\ cas' = FactsStored(s)
                /\ IF keepCurrent THEN UNCHANGED <<current, refs>>
                   ELSE SetCurrent(m, s)
           ELSE UNCHANGED <<deletion, orphaned, current, refs, cas>>
        /\ UNCHANGED <<up, version, retired, jobs, trash, checked, sweeper>>

-----------------------------------------------------------------------------
(* Handlers that protect a snapshot or give the protection up *)

RetireMember(m) ==
    /\ up /\ m \notin retired
    /\ retired' = retired \cup {m}
    /\ UNCHANGED <<up, version, catalog, disk, threads>>

Protect(S, owner) == refs' = refs \cup (S \X {owner})
Release(s, owner) == refs' = refs \ {<<s, owner>>}

(* update_snapshot_metadata does not look at the deletion state. *)
PinSnapshot(s) ==
    /\ up /\ "snapshot_pin" \in Clients
    /\ Exists(s)
    /\ Protect({s}, "snapshot_pin")
    /\ UNCHANGED <<up, version, retired, deletion, orphaned, current, jobs,
                   disk, threads>>

UnpinSnapshot(s) ==
    /\ up /\ Exists(s)
    /\ Release(s, "snapshot_pin")
    /\ UNCHANGED <<up, version, retired, deletion, orphaned, current, jobs,
                   disk, threads>>

(* _create_view takes snapshots of distinct members, chosen by the client  *)
(* or read earlier from the currents; the trigger on graph_view_members    *)
(* aborts the transaction unless all of them are active.                   *)
ViewAllowed(S) == \A s \in S : Readable(s)

CreateView(S) ==
    /\ up /\ "view" \in Clients
    /\ S # {}
    /\ \A s, t \in S : MemberOf(s) = MemberOf(t) => s = t
    /\ \A s \in S : Exists(s)
    /\ ViewAllowed(S)
    /\ Protect(S, "view")
    /\ UNCHANGED <<up, version, retired, deletion, orphaned, current, jobs,
                   disk, threads>>

(* create_rule_candidate checks and protects in one transaction. *)
CreateCandidate(s) ==
    /\ up /\ "rule" \in Clients
    /\ Readable(s)
    /\ Protect({s}, "rule")
    /\ UNCHANGED <<up, version, retired, deletion, orphaned, current, jobs,
                   disk, threads>>

(* finish_rule_candidate, for a candidate that did not complete. *)
DropCandidate(s) ==
    /\ up
    /\ Release(s, "rule")
    /\ UNCHANGED <<up, version, retired, deletion, orphaned, current, jobs,
                   disk, threads>>

(* add_snapshot_reference selects the snapshot before its transaction      *)
(* begins, which is at the insert.                                         *)
CheckSnapshot(s) ==
    /\ up /\ "api_explanation" \in Clients
    /\ Readable(s)
    /\ checked' = checked \cup {s}
    /\ UNCHANGED <<up, version, retired, catalog, disk, publisher, sweeper>>

AddReference(s) ==
    /\ up /\ s \in checked
    /\ checked' = checked \ {s}
    /\ Protect({s}, "api_explanation")
    /\ UNCHANGED <<up, version, retired, deletion, orphaned, current, jobs,
                   disk, publisher, sweeper>>

RemoveReference(s) ==
    /\ up
    /\ Release(s, "api_explanation")
    /\ UNCHANGED <<up, version, retired, deletion, orphaned, current, jobs,
                   disk, threads>>

-----------------------------------------------------------------------------
(* Deletion *)

UnprotectedByViews(s) ==   \* mutation: only some kinds of owner count
    /\ \A m \in Members : current[m] # s
    /\ RefersTo(s) \subseteq {"view"}

Unprotected(s) ==
    /\ \A m \in Members : current[m] # s
    /\ RefersTo(s) = {}

NewJob(j) == jobs[j].status = "none" /\ \A i \in 1 .. j - 1 : jobs[i].status # "none"

(* request_snapshot_deletion, one transaction; it does not look at the     *)
(* deletion state.  A request of a client and one of plan_member_retention *)
(* come here alike.                                                        *)
RequestUnmarked(s, j) ==   \* mutation: the snapshot is not marked
    /\ up /\ Exists(s) /\ Unprotected(s) /\ NewJob(j)
    /\ jobs' = [jobs EXCEPT ![j] = [target |-> s, status |-> "pending"]]
    /\ UNCHANGED <<up, version, retired, deletion, orphaned, current, refs, disk,
                   threads>>

RequestDeletion(s, j) ==
    /\ up /\ Exists(s) /\ Unprotected(s) /\ NewJob(j)
    /\ deletion' = [deletion EXCEPT ![s] = "deletion_pending"]
    /\ jobs' = [jobs EXCEPT ![j] = [target |-> s, status |-> "pending"]]
    /\ UNCHANGED <<up, version, retired, orphaned, current, refs, disk, threads>>

-----------------------------------------------------------------------------
(* A sweep: scavenge_orphans, which calls scavenge for one pending job     *)
(* after another.  Sweeps may run side by side.                            *)

IdleSweeper == [at |-> "idle", todo |-> {}, job |-> None, kind |-> "evidence"]

Sweep(w, next) == sweeper' = [sweeper EXCEPT ![w] = next]
NextJob(w) == Sweep(w, [sweeper[w] EXCEPT !.at = "next", !.job = None])
At(w, label) == Sweep(w, [sweeper[w] EXCEPT !.at = label])
SweepAborts(w) == Sweep(w, IdleSweeper)

Running(w, label) == up /\ sweeper[w].at = label
Target(w) == jobs[sweeper[w].job].target
TargetKey(w) == Key(sweeper[w].kind, Target(w))
InBucket(w) == <<sweeper[w].job, TargetKey(w)>> \in trash

StartSweep(w) ==
    /\ Running(w, "idle")
    /\ Sweep(w, [IdleSweeper EXCEPT !.at = "next",
                   !.todo = {j \in JobIds : jobs[j].status = "pending"}])
    /\ UNCHANGED <<up, version, retired, catalog, disk, publisher, checked>>

(* The oldest listed job; it is skipped when it is no longer pending. *)
TakeJob(w, j) ==
    /\ Running(w, "next")
    /\ j \in sweeper[w].todo /\ \A i \in sweeper[w].todo : j <= i
    /\ LET rest == sweeper[w].todo \ {j}
       IN  Sweep(w, IF jobs[j].status = "pending"
                    THEN [at |-> "check", todo |-> rest, job |-> j, kind |-> "evidence"]
                    ELSE [sweeper[w] EXCEPT !.todo = rest])
    /\ UNCHANGED <<up, version, retired, catalog, disk, publisher, checked>>

(* The end of the sweep purges the buckets that are old enough. *)
EndSweep(w) ==
    /\ Running(w, "next") /\ sweeper[w].todo = {}
    /\ Sweep(w, IdleSweeper)
    /\ \E old \in SUBSET JobIds : trash' = {t \in trash : t[1] \notin old}
    /\ UNCHANGED <<up, version, retired, catalog, cas, publisher, checked>>

KeyDone(w) ==
    IF sweeper[w].kind = "evidence"
    THEN Sweep(w, [sweeper[w] EXCEPT !.at = "check", !.kind = "communication"])
    ELSE At(w, "select")

(* An artifact in the job's bucket is done.  One that is in neither place  *)
(* raises ArtifactStoreError, which scavenge_orphans does not catch.       *)
CheckArtifact(w) ==
    /\ Running(w, "check")
    /\ IF InBucket(w) THEN KeyDone(w)
       ELSE IF TargetKey(w) \in cas THEN At(w, "move")
       ELSE SweepAborts(w)
    /\ UNCHANGED <<up, version, retired, catalog, disk, publisher, checked>>

(* The rename; it raises OSError, which ends this job only, when another   *)
(* sweep was faster.                                                       *)
MoveToTrash(w) ==
    /\ Running(w, "move")
    /\ IF TargetKey(w) \in cas /\ ~ InBucket(w)
       THEN /\ cas' = cas \ {TargetKey(w)}
            /\ trash' = trash \cup {<<sweeper[w].job, TargetKey(w)>>}
            /\ KeyDone(w)
       ELSE UNCHANGED disk /\ NextJob(w)
    /\ UNCHANGED <<up, version, retired, catalog, publisher, checked>>

(* mark_deletion_trashed selects the job before its transaction begins.    *)
SelectPendingJob(w) ==
    /\ Running(w, "select")
    /\ IF jobs[sweeper[w].job].status = "pending" THEN At(w, "mark") ELSE NextJob(w)
    /\ UNCHANGED <<up, version, retired, catalog, disk, publisher, checked>>

MarkTrashed(w) ==
    /\ Running(w, "mark")
    /\ deletion' = [deletion EXCEPT ![Target(w)] = "trashed"]
    /\ jobs' = [jobs EXCEPT ![sweeper[w].job].status = "trashed"]
    /\ At(w, "purge")
    /\ UNCHANGED <<up, version, retired, orphaned, current, refs, disk,
                   publisher, checked>>

(* purge_trash; an error leaves the job as trashed. *)
PurgeTrash(w) ==
    LET bucket == {t \in trash : t[1] = sweeper[w].job}
    IN  /\ Running(w, "purge")
        /\ \/ bucket # {} /\ trash' = trash \ bucket /\ At(w, "complete")
           \/ UNCHANGED trash /\ NextJob(w)
        /\ UNCHANGED <<up, version, retired, catalog, cas, publisher, checked>>

CompleteDeletion(w) ==
    /\ Running(w, "complete")
    /\ jobs' = [jobs EXCEPT ![sweeper[w].job].status =
                  IF @ \in {"pending", "trashed"} THEN "completed" ELSE @]
    /\ NextJob(w)
    /\ UNCHANGED <<up, version, retired, deletion, orphaned, current, refs, disk,
                   publisher, checked>>

-----------------------------------------------------------------------------
(* The process dies; it comes back, perhaps with a new analyzer. *)

Crash ==
    /\ up
    /\ up' = FALSE
    /\ publisher' = [m \in Members |-> IdlePublisher]
    /\ checked' = {}
    /\ sweeper' = [w \in Sweepers |-> IdleSweeper]
    /\ UNCHANGED <<version, retired, catalog, disk>>

Restart ==
    /\ ~ up
    /\ up' = TRUE
    /\ version' \in {version, version + 1} \cap Versions
    /\ UNCHANGED <<retired, catalog, disk, threads>>

Init ==
    /\ up = TRUE /\ version = 1 /\ retired = {}
    /\ deletion = [s \in Snapshots |-> "absent"]
    /\ orphaned = {}
    /\ current = [m \in Members |-> None]
    /\ refs = {}
    /\ jobs = [j \in JobIds |-> [target |-> None, status |-> "none"]]
    /\ cas = {} /\ trash = {}
    /\ publisher = [m \in Members |-> IdlePublisher]
    /\ checked = {}
    /\ sweeper = [w \in Sweepers |-> IdleSweeper]

Publication ==
    \E m \in Members :
      \/ \E e \in Evidences : PublishArtifacts(m, e)
      \/ MeasureArtifact(m)
      \/ CommitSnapshot(m)

Protection ==
    \/ \E m \in Members : RetireMember(m)
    \/ \E S \in SUBSET Snapshots : CreateView(S)
    \/ \E s \in Snapshots :
         \/ PinSnapshot(s)
         \/ UnpinSnapshot(s)
         \/ CreateCandidate(s)
         \/ DropCandidate(s)
         \/ CheckSnapshot(s)
         \/ AddReference(s)
         \/ RemoveReference(s)

SweepStep(w) ==
    \/ StartSweep(w)
    \/ \E j \in JobIds : TakeJob(w, j)
    \/ EndSweep(w)
    \/ CheckArtifact(w)
    \/ MoveToTrash(w)
    \/ SelectPendingJob(w)
    \/ MarkTrashed(w)
    \/ PurgeTrash(w)
    \/ CompleteDeletion(w)

Next ==
    \/ Publication
    \/ Protection
    \/ \E s \in Snapshots, j \in JobIds : RequestDeletion(s, j)
    \/ \E w \in Sweepers : SweepStep(w)
    \/ Crash
    \/ Restart

Spec == Init /\ [][Next]_vars

-----------------------------------------------------------------------------
(* Properties *)

PublisherStates ==
    [at : {"idle", "measure", "commit"}, snapshot : Snapshots \cup {None}]
SweeperStates ==
    [at : {"idle", "next", "check", "move", "select", "mark", "purge", "complete"},
     todo : SUBSET JobIds, job : JobIds \cup {None}, kind : Kinds]

(* Every variable has its type. *)
TypeOK ==
    /\ up \in BOOLEAN /\ version \in Versions /\ retired \subseteq Members
    /\ deletion \in [Snapshots -> DeletionStates]
    /\ orphaned \subseteq Snapshots
    /\ current \in [Members -> Snapshots \cup {None}]
    /\ refs \subseteq Snapshots \X Owners
    /\ jobs \in [JobIds -> [target : Snapshots \cup {None}, status : JobStatuses]]
    /\ cas \subseteq Keys /\ trash \subseteq JobIds \X Keys
    /\ publisher \in [Members -> PublisherStates]
    /\ checked \subseteq Snapshots
    /\ sweeper \in [Sweepers -> SweeperStates]

(* The current snapshot of a member is one of its own, readable and not    *)
(* orphaned, whatever deletions, sweeps and repeated analyses go on, and   *)
(* exactly this snapshot of the member has the reference of the current.   *)
CurrentIsReadable ==
    \A m \in Members, s \in Snapshots :
      MemberOf(s) = m =>
        /\ current[m] = s => Readable(s) /\ s \notin orphaned
        /\ <<s, "current">> \in refs <=> current[m] = s

(* A snapshot that belongs to a view or has a rule is readable: views may  *)
(* be built from currents read earlier, and rules may be written while a   *)
(* client asks for the deletion.                                           *)
ProtectedIsReadable ==
    \A s \in Snapshots : RefersTo(s) \cap {"view", "rule"} # {} => Readable(s)

(* The communication artifact of a readable snapshot is in the store: no   *)
(* sweep and no repeated analysis removes it.                              *)
CommunicationIsKept ==
    \A s \in Snapshots : Readable(s) => Key("communication", s) \in cas

(* What somebody is shown or may rely on can be read, together with the    *)
(* artifact that topologies are built from.                                *)
ReadableIsKept == CurrentIsReadable /\ ProtectedIsReadable /\ CommunicationIsKept

(* A readable snapshot loses its evidence artifact only to the deletion of *)
(* another snapshot that shares it: scavenge does not ask who shares it.   *)
EvidenceLostOnlyBySharing ==
    \A s \in Snapshots :
      Readable(s) /\ Key("evidence", s) \notin cas =>
        \E j \in JobIds : /\ jobs[j].status # "none"
                          /\ jobs[j].target # s
                          /\ EvidenceOf(jobs[j].target) = EvidenceOf(s)

(* What the catalog promises, without artifacts, jobs and threads: it is   *)
(* implemented by reading the states of the rows.                          *)
Promise == INSTANCE SnapshotCatalog WITH
    readable <- {s \in Snapshots : Readable(s)},
    gone <- {s \in Snapshots : Exists(s) /\ ~ Readable(s)},
    latest <- current,
    held <- {s \in Snapshots : RefersTo(s) \cap {"view", "rule"} # {}}
ImplementsCatalog == Promise!Spec
=============================================================================
