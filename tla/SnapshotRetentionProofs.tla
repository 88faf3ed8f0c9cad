----------------------- MODULE SnapshotRetentionProofs -----------------------
(***************************************************************************)
(* Theorems about SnapshotRetention for any number of members, contents,   *)
(* versions, jobs and sweeps.                                              *)
(*                                                                         *)
(* The inductive invariant Inv adds to the properties why they hold: a     *)
(* deletion job names a snapshot that is no longer readable, a sweep at    *)
(* work on a job works on one that exists, and a publisher publishes for   *)
(* its own member.  The file system is of no concern to the catalog, so    *)
(* every step is one of six kinds of changes of the catalog (Effect), and  *)
(* the properties are proved from the kinds.                               *)
(***************************************************************************)
EXTENDS SnapshotRetention, TLAPS

Working == {"check", "move", "select", "mark", "purge", "complete"}
Deleted(s) == Exists(s) /\ ~ Readable(s)

(* A job that was created names a snapshot that has been deleted. *)
JobsInv ==
    \A j \in JobIds : jobs[j].status # "none" =>
      jobs[j].target \in Snapshots /\ Deleted(jobs[j].target)

(* A sweep works on a job that was created. *)
SweepInv ==
    \A w \in Sweepers : sweeper[w].at \in Working =>
      sweeper[w].job \in JobIds /\ jobs[sweeper[w].job].status # "none"

(* A publisher has a snapshot of its member. *)
PublisherInv ==
    \A m \in Members : publisher[m].at # "idle" =>
      publisher[m].snapshot \in Snapshots /\ MemberOf(publisher[m].snapshot) = m

(* Only a row can be orphaned. *)
OrphansExist == \A s \in orphaned : Exists(s)

Inv ==
    /\ TypeOK /\ JobsInv /\ SweepInv /\ PublisherInv /\ OrphansExist
    /\ CurrentIsReadable /\ ProtectedIsReadable /\ CommunicationIsKept

-----------------------------------------------------------------------------
(* Facts about the parts *)

LEMMA SnapshotParts ==
  ASSUME NEW s \in Snapshots
  PROVE  /\ s = <<s[1], s[2], s[3]>>
         /\ s[1] \in Members /\ s[2] \in Evidences /\ s[3] \in Versions
BY DEF Snapshots

LEMMA KeyType ==
  ASSUME NEW s \in Snapshots, NEW kind \in Kinds
  PROVE  Key(kind, s) \in Keys
BY DEF Keys

(* Communication artifacts are nobody else's, and no evidence artifact. *)
LEMMA KeysApart ==
  ASSUME NEW s \in Snapshots, NEW t \in Snapshots, NEW kind \in Kinds,
         Key(kind, t) = Key("communication", s)
  PROVE  t = s
BY DEF Key, Kinds

LEMMA IdleTypes ==
  /\ IdlePublisher \in PublisherStates
  /\ IdleSweeper \in SweeperStates
BY DEF IdlePublisher, PublisherStates, IdleSweeper, SweeperStates, Kinds

(* A sweep's new state. *)
LEMMA SweepType ==
  ASSUME TypeOK, NEW w \in Sweepers, NEW next \in SweeperStates, Sweep(w, next)
  PROVE  /\ sweeper' \in [Sweepers -> SweeperStates]
         /\ sweeper'[w] = next
         /\ \A v \in Sweepers : v # w => sweeper'[v] = sweeper[v]
BY DEF TypeOK, Sweep

LEMMA LabelTypes ==
  ASSUME TypeOK, NEW w \in Sweepers
  PROVE  /\ sweeper[w] \in SweeperStates
         /\ [sweeper[w] EXCEPT !.at = "next", !.job = None] \in SweeperStates
         /\ \A label \in {"idle", "next"} \cup Working :
              [sweeper[w] EXCEPT !.at = label] \in SweeperStates
         /\ [sweeper[w] EXCEPT !.at = "check", !.kind = "communication"]
              \in SweeperStates
<1>1. sweeper[w] \in SweeperStates
  BY DEF TypeOK
<1> QED
  BY <1>1 DEF SweeperStates, Working, Kinds

(* What the next state of a sweep may be: idle, between jobs, or at work   *)
(* on the same job as before.                                              *)
Follows(w) ==
    /\ sweeper' \in [Sweepers -> SweeperStates]
    /\ \A v \in Sweepers : v # w => sweeper'[v] = sweeper[v]
    /\ sweeper'[w].at \in Working => sweeper'[w].job = sweeper[w].job

LEMMA NextJobFollows ==
  ASSUME TypeOK, NEW w \in Sweepers, NextJob(w)
  PROVE  Follows(w)
<1> DEFINE next == [sweeper[w] EXCEPT !.at = "next", !.job = None]
<1>1. next \in SweeperStates /\ Sweep(w, next)
  BY LabelTypes DEF NextJob
<1>2. next.at = "next"
  BY LabelTypes DEF SweeperStates
<1> HIDE DEF next
<1> QED
  BY <1>1, <1>2, SweepType DEF Follows, Working

LEMMA AtFollows ==
  ASSUME TypeOK, NEW w \in Sweepers, NEW label \in Working, At(w, label)
  PROVE  Follows(w)
<1> DEFINE next == [sweeper[w] EXCEPT !.at = label]
<1>1. next \in SweeperStates /\ Sweep(w, next)
  BY LabelTypes DEF At
<1>2. next.job = sweeper[w].job
  BY LabelTypes DEF SweeperStates
<1> HIDE DEF next
<1> QED
  BY <1>1, <1>2, SweepType DEF Follows

LEMMA AbortFollows ==
  ASSUME TypeOK, NEW w \in Sweepers, SweepAborts(w)
  PROVE  Follows(w)
<1>1. IdleSweeper \in SweeperStates /\ Sweep(w, IdleSweeper)
  BY IdleTypes DEF SweepAborts
<1>2. IdleSweeper.at = "idle"
  BY DEF IdleSweeper
<1> QED
  BY <1>1, <1>2, SweepType DEF Follows, Working

LEMMA KeyDoneFollows ==
  ASSUME TypeOK, NEW w \in Sweepers, KeyDone(w)
  PROVE  Follows(w)
<1> DEFINE next == [sweeper[w] EXCEPT !.at = "check", !.kind = "communication"]
<1>1. CASE sweeper[w].kind = "evidence"
  <2>1. next \in SweeperStates /\ Sweep(w, next)
    BY <1>1, LabelTypes DEF KeyDone
  <2>2. next.job = sweeper[w].job
    BY LabelTypes DEF SweeperStates
  <2> HIDE DEF next
  <2> QED
    BY <2>1, <2>2, SweepType DEF Follows
<1>2. CASE sweeper[w].kind # "evidence"
  BY <1>2, AtFollows DEF KeyDone, Working
<1> QED
  BY <1>1, <1>2

-----------------------------------------------------------------------------
(* What a step does to the catalog *)

Protects(S, o) ==
    /\ UNCHANGED <<deletion, orphaned, current>>
    /\ Protect(S, o)
    /\ o \in {"view", "rule"} => \A s \in S : Readable(s)

Releases(s, o) ==
    /\ UNCHANGED <<deletion, orphaned, current>>
    /\ Release(s, o)

Requests(s) ==
    /\ Exists(s) /\ Unprotected(s)
    /\ deletion' = [deletion EXCEPT ![s] = "deletion_pending"]
    /\ UNCHANGED <<orphaned, current, refs>>

Trashes(s) ==
    /\ Deleted(s)
    /\ deletion' = [deletion EXCEPT ![s] = "trashed"]
    /\ UNCHANGED <<orphaned, current, refs>>

Publishes(m, s) ==
    LET keepCurrent == m \in retired \/ current[m] = s
    IN  /\ MemberOf(s) = m
        /\ keepCurrent \/ CurrentAllowed(s)
        /\ deletion' = Inserted(s)
        /\ orphaned' = InsertedOrphans(m, s)
        /\ ~ Exists(s) => Key("communication", s) \in cas'
        /\ IF keepCurrent THEN UNCHANGED <<current, refs>> ELSE SetCurrent(m, s)

CatalogEffect ==
    \/ UNCHANGED <<deletion, orphaned, current, refs>>
    \/ \E S \in SUBSET Snapshots, o \in ClientOwners : Protects(S, o)
    \/ \E s \in Snapshots, o \in ClientOwners : Releases(s, o)
    \/ \E s \in Snapshots : Requests(s) \/ Trashes(s)
    \/ \E m \in Members, s \in Snapshots : Publishes(m, s)

(* Only artifacts of deleted snapshots leave the store. *)
DiskEffect ==
    \A key \in cas \ cas' :
      \E s \in Snapshots, kind \in Kinds : Deleted(s) /\ key = Key(kind, s)

Effect == CatalogEffect /\ DiskEffect

(* What is shown of each action. *)
StepOK == TypeOK' /\ JobsInv' /\ SweepInv' /\ PublisherInv' /\ Effect

LEMMA NothingLeaves ==
  ASSUME cas \subseteq cas'
  PROVE  DiskEffect
BY DEF DiskEffect

-----------------------------------------------------------------------------
(* The actions *)

(* A step that leaves the catalog and its jobs alone: the types of the     *)
(* variables it may change, and the sweeps and publishers, are left.       *)
LEMMA CatalogUntouched ==
  ASSUME Inv, UNCHANGED catalog,
         up' \in BOOLEAN, version' \in Versions, retired' \subseteq Members,
         cas' \subseteq Keys, trash' \subseteq JobIds \X Keys,
         publisher' \in [Members -> PublisherStates], PublisherInv',
         checked' \subseteq Snapshots,
         sweeper' \in [Sweepers -> SweeperStates],
         \A w \in Sweepers : sweeper'[w].at \in Working =>
           sweeper'[w].job \in JobIds /\ jobs[sweeper'[w].job].status # "none",
         DiskEffect
  PROVE  StepOK
<1>1. TypeOK'
  BY DEF Inv, TypeOK, catalog
<1>2. JobsInv'
  BY DEF Inv, JobsInv, catalog, Deleted, Exists, Readable
<1>3. SweepInv'
  BY DEF SweepInv, catalog
<1> QED
  BY <1>1, <1>2, <1>3 DEF StepOK, Effect, CatalogEffect, catalog

(* The same when only one sweep moves on. *)
LEMMA OneSweepMoves ==
  ASSUME Inv, NEW w \in Sweepers, Follows(w), sweeper[w].at \in Working,
         UNCHANGED <<up, version, retired, catalog, publisher, checked>>,
         cas' \subseteq Keys, trash' \subseteq JobIds \X Keys, DiskEffect
  PROVE  StepOK
<1>1. PublisherInv'
  BY DEF Inv, PublisherInv
<1>2. ASSUME NEW v \in Sweepers, sweeper'[v].at \in Working
      PROVE  sweeper'[v].job \in JobIds /\ jobs[sweeper'[v].job].status # "none"
  BY <1>2 DEF Inv, SweepInv, Follows
<1>3. sweeper' \in [Sweepers -> SweeperStates]
  BY DEF Follows
<1> QED
  BY <1>1, <1>2, <1>3, CatalogUntouched DEF Inv, TypeOK

(* A step that only changes references. *)
LEMMA OnlyReferences ==
  ASSUME Inv, CatalogEffect, refs' \subseteq Snapshots \X Owners,
         checked' \subseteq Snapshots,
         UNCHANGED <<up, version, retired, deletion, orphaned, current, jobs,
                     disk, publisher, sweeper>>
  PROVE  StepOK
<1>1. TypeOK'
  BY DEF Inv, TypeOK, disk
<1>2. JobsInv' /\ SweepInv' /\ PublisherInv'
  BY DEF Inv, JobsInv, SweepInv, PublisherInv, Deleted, Exists, Readable
<1> QED
  BY <1>1, <1>2, NothingLeaves DEF StepOK, Effect, disk

LEMMA PublicationSteps ==
  ASSUME Inv, NEW m \in Members,
         \/ \E e \in Evidences : PublishArtifacts(m, e)
         \/ MeasureArtifact(m)
         \/ CommitSnapshot(m)
  PROVE  StepOK
<1>1. CASE \E e \in Evidences : PublishArtifacts(m, e)
  <2>1. PICK e \in Evidences : PublishArtifacts(m, e)
    BY <1>1
  <2> DEFINE s == <<m, e, version>>
  <2>2. s \in Snapshots /\ MemberOf(s) = m /\ Key("evidence", s) \in Keys
    BY KeyType DEF Inv, TypeOK, Snapshots, MemberOf, Kinds
  <2> DEFINE p == [at |-> "measure", snapshot |-> s]
  <2>3. p \in PublisherStates
    BY <2>2 DEF PublisherStates
  <2>4. publisher' = [publisher EXCEPT ![m] = p] /\ cas' = cas \cup {Key("evidence", s)}
    BY <2>1 DEF PublishArtifacts
  <2>5. p.snapshot = s
    OBVIOUS
  <2> HIDE DEF s, p
  <2>6. publisher' \in [Members -> PublisherStates] /\ PublisherInv'
    BY <2>2, <2>3, <2>4, <2>5 DEF Inv, TypeOK, PublisherInv
  <2>7. cas' \subseteq Keys /\ DiskEffect
    BY <2>2, <2>4, NothingLeaves DEF Inv, TypeOK
  <2>8. UNCHANGED <<up, version, retired, catalog, trash, checked, sweeper>>
    BY <2>1 DEF PublishArtifacts
  <2> QED
    BY <2>6, <2>7, <2>8, CatalogUntouched DEF Inv, TypeOK, SweepInv
<1>2. CASE MeasureArtifact(m)
  <2> DEFINE p == IF Key("evidence", publisher[m].snapshot) \in cas
                  THEN [publisher[m] EXCEPT !.at = "commit"] ELSE IdlePublisher
  <2>1. publisher[m] \in PublisherStates /\ publisher[m].at = "measure"
    BY <1>2 DEF Inv, TypeOK, MeasureArtifact
  <2>2. p \in PublisherStates
    BY <2>1, IdleTypes DEF PublisherStates
  <2>3. p.at # "idle" => p.snapshot = publisher[m].snapshot
    BY <2>1 DEF PublisherStates, IdlePublisher
  <2>4. publisher' = [publisher EXCEPT ![m] = p]
    BY <1>2 DEF MeasureArtifact
  <2> HIDE DEF p
  <2>5. publisher' \in [Members -> PublisherStates] /\ PublisherInv'
    BY <2>1, <2>2, <2>3, <2>4 DEF Inv, TypeOK, PublisherInv
  <2>6. UNCHANGED <<up, version, retired, catalog, disk, checked, sweeper>>
    BY <1>2 DEF MeasureArtifact
  <2> QED
    BY <2>5, <2>6, NothingLeaves, CatalogUntouched DEF Inv, TypeOK, SweepInv, disk
<1>3. CASE CommitSnapshot(m)
  <2> DEFINE s == publisher[m].snapshot
             keepCurrent == m \in retired \/ current[m] = s
  <2>1. s \in Snapshots /\ MemberOf(s) = m
    BY <1>3 DEF CommitSnapshot, Inv, PublisherInv
  <2>2. publisher' \in [Members -> PublisherStates] /\ PublisherInv'
    BY <1>3, IdleTypes DEF CommitSnapshot, Inv, TypeOK, PublisherInv, IdlePublisher
  <2>3. UNCHANGED <<up, version, retired, jobs, trash, checked, sweeper>>
    BY <1>3 DEF CommitSnapshot
  <2>4. CASE ~ (keepCurrent \/ CurrentAllowed(s))
    <3>1. UNCHANGED catalog /\ UNCHANGED cas
      BY <1>3, <2>3, <2>4 DEF CommitSnapshot, catalog
    <3> QED
      BY <2>2, <2>3, <3>1, NothingLeaves, CatalogUntouched DEF Inv, TypeOK, SweepInv
  <2>5. CASE keepCurrent \/ CurrentAllowed(s)
    <3>1. /\ deletion' = Inserted(s) /\ orphaned' = InsertedOrphans(m, s)
          /\ cas' = FactsStored(s)
          /\ IF keepCurrent THEN UNCHANGED <<current, refs>> ELSE SetCurrent(m, s)
      BY <1>3, <2>5 DEF CommitSnapshot
    <3> HIDE DEF s
    <3>2. Key("communication", s) \in Keys
      BY <2>1, KeyType DEF Kinds
    <3>3. deletion' \in [Snapshots -> DeletionStates] /\ orphaned' \subseteq Snapshots
      BY <2>1, <3>1 DEF Inv, TypeOK, Inserted, InsertedOrphans, DeletionStates
    <3>4. current' \in [Members -> Snapshots \cup {None}] /\ refs' \subseteq Snapshots \X Owners
      BY <2>1, <3>1 DEF Inv, TypeOK, SetCurrent, Owners
    <3>5. cas' \subseteq Keys /\ cas \subseteq cas'
      BY <3>1, <3>2 DEF Inv, TypeOK, FactsStored
    <3>6. TypeOK'
      BY <2>2, <2>3, <3>3, <3>4, <3>5 DEF Inv, TypeOK
    <3>7. JobsInv'
      <4>1. \A t \in Snapshots : Deleted(t) => Deleted(t)'
        BY <2>1, <3>1 DEF Inv, TypeOK, Inserted, Deleted, Exists, Readable
      <4> QED
        BY <2>3, <4>1 DEF Inv, JobsInv
    <3>8. SweepInv'
      BY <2>3 DEF Inv, SweepInv
    <3>9. Publishes(m, s)
      BY <2>1, <2>5, <3>1 DEF Publishes, FactsStored
    <3> QED
      BY <2>1, <2>2, <3>5, <3>6, <3>7, <3>8, <3>9, NothingLeaves
      DEF StepOK, Effect, CatalogEffect
  <2> QED
    BY <2>4, <2>5
<1> QED
  BY <1>1, <1>2, <1>3

LEMMA ProtectionSteps ==
  ASSUME Inv, Protection
  PROVE  StepOK
<1>1. ASSUME NEW S \in SUBSET Snapshots, NEW o \in ClientOwners, Protect(S, o)
      PROVE  refs' \subseteq Snapshots \X Owners
  BY <1>1 DEF Protect, Inv, TypeOK, Owners
<1>2. ASSUME NEW s, NEW o, Release(s, o)
      PROVE  refs' \subseteq Snapshots \X Owners
  BY <1>2 DEF Release, Inv, TypeOK
<1>3. ASSUME NEW m \in Members, RetireMember(m)
      PROVE  StepOK
  <2>1. /\ retired' \subseteq Members
        /\ UNCHANGED <<up, version, catalog, disk, threads>>
    BY <1>3 DEF RetireMember, Inv, TypeOK
  <2> QED
    BY <2>1, NothingLeaves, CatalogUntouched
    DEF Inv, TypeOK, SweepInv, PublisherInv, disk, threads
<1>4. ASSUME NEW S \in SUBSET Snapshots, CreateView(S)
      PROVE  StepOK
  <2>1. Protects(S, "view")
    BY <1>4 DEF CreateView, ViewAllowed, Protects
  <2>2. CatalogEffect
    BY <2>1 DEF CatalogEffect, ClientOwners
  <2>3. refs' \subseteq Snapshots \X Owners
    BY <1>1, <2>1 DEF Protects, ClientOwners
  <2> QED
    BY <1>4, <2>2, <2>3, OnlyReferences DEF CreateView, threads, Inv, TypeOK
<1>5. ASSUME NEW s \in Snapshots, PinSnapshot(s)
      PROVE  StepOK
  <2>1. Protects({s}, "snapshot_pin")
    BY <1>5 DEF PinSnapshot, Protects
  <2>2. CatalogEffect
    BY <2>1 DEF CatalogEffect, ClientOwners
  <2>3. refs' \subseteq Snapshots \X Owners
    BY <1>1, <2>1 DEF Protects, ClientOwners
  <2> QED
    BY <1>5, <2>2, <2>3, OnlyReferences DEF PinSnapshot, threads, Inv, TypeOK
<1>6. ASSUME NEW s \in Snapshots, UnpinSnapshot(s)
      PROVE  StepOK
  <2>1. Releases(s, "snapshot_pin")
    BY <1>6 DEF UnpinSnapshot, Releases
  <2>2. CatalogEffect
    BY <2>1 DEF CatalogEffect, ClientOwners
  <2>3. refs' \subseteq Snapshots \X Owners
    BY <1>2, <2>1 DEF Releases
  <2> QED
    BY <1>6, <2>2, <2>3, OnlyReferences DEF UnpinSnapshot, threads, Inv, TypeOK
<1>7. ASSUME NEW s \in Snapshots, CreateCandidate(s)
      PROVE  StepOK
  <2>1. Protects({s}, "rule")
    BY <1>7 DEF CreateCandidate, Protects
  <2>2. CatalogEffect
    BY <2>1 DEF CatalogEffect, ClientOwners
  <2>3. refs' \subseteq Snapshots \X Owners
    BY <1>1, <2>1 DEF Protects, ClientOwners
  <2> QED
    BY <1>7, <2>2, <2>3, OnlyReferences DEF CreateCandidate, threads, Inv, TypeOK
<1>8. ASSUME NEW s \in Snapshots, DropCandidate(s)
      PROVE  StepOK
  <2>1. Releases(s, "rule")
    BY <1>8 DEF DropCandidate, Releases
  <2>2. CatalogEffect
    BY <2>1 DEF CatalogEffect, ClientOwners
  <2>3. refs' \subseteq Snapshots \X Owners
    BY <1>2, <2>1 DEF Releases
  <2> QED
    BY <1>8, <2>2, <2>3, OnlyReferences DEF DropCandidate, threads, Inv, TypeOK
<1>9. ASSUME NEW s \in Snapshots, CheckSnapshot(s)
      PROVE  StepOK
  <2>1. /\ checked' \subseteq Snapshots
        /\ UNCHANGED <<up, version, retired, catalog, disk, publisher, sweeper>>
    BY <1>9 DEF CheckSnapshot, Inv, TypeOK
  <2> QED
    BY <2>1, NothingLeaves, CatalogUntouched
    DEF Inv, TypeOK, SweepInv, PublisherInv, disk
<1>10. ASSUME NEW s \in Snapshots, AddReference(s)
       PROVE  StepOK
  <2>1. Protects({s}, "api_explanation")
    BY <1>10 DEF AddReference, Protects
  <2>2. CatalogEffect
    BY <2>1 DEF CatalogEffect, ClientOwners
  <2>3. refs' \subseteq Snapshots \X Owners
    BY <1>1, <2>1 DEF Protects, ClientOwners
  <2> QED
    BY <1>10, <2>2, <2>3, OnlyReferences DEF AddReference, Inv, TypeOK
<1>11. ASSUME NEW s \in Snapshots, RemoveReference(s)
       PROVE  StepOK
  <2>1. Releases(s, "api_explanation")
    BY <1>11 DEF RemoveReference, Releases
  <2>2. CatalogEffect
    BY <2>1 DEF CatalogEffect, ClientOwners
  <2>3. refs' \subseteq Snapshots \X Owners
    BY <1>2, <2>1 DEF Releases
  <2> QED
    BY <1>11, <2>2, <2>3, OnlyReferences DEF RemoveReference, threads, Inv, TypeOK
<1> QED
  BY <1>3, <1>4, <1>5, <1>6, <1>7, <1>8, <1>9, <1>10, <1>11 DEF Protection

LEMMA RequestStep ==
  ASSUME Inv, NEW s \in Snapshots, NEW j \in JobIds, RequestDeletion(s, j)
  PROVE  StepOK
<1> DEFINE row == [target |-> s, status |-> "pending"]
<1>1. /\ deletion' = [deletion EXCEPT ![s] = "deletion_pending"]
      /\ jobs' = [jobs EXCEPT ![j] = row]
      /\ UNCHANGED <<up, version, retired, orphaned, current, refs, disk, threads>>
      /\ Requests(s)
  BY DEF RequestDeletion, Requests
<1>2. row.target = s /\ row.status = "pending"
  OBVIOUS
<1>3. jobs' \in [JobIds -> [target : Snapshots \cup {None}, status : JobStatuses]]
  BY <1>1 DEF Inv, TypeOK, JobStatuses
<1>4. TypeOK'
  BY <1>1, <1>3 DEF Inv, TypeOK, disk, threads, DeletionStates
<1> HIDE DEF row
<1>5. \A i \in JobIds : jobs'[i] = IF i = j THEN row ELSE jobs[i]
  BY <1>1 DEF Inv, TypeOK
<1>6. \A t \in Snapshots : t = s \/ Deleted(t) => Deleted(t)'
  BY <1>1 DEF Inv, TypeOK, Deleted, Exists, Readable
<1>7. JobsInv'
  BY <1>2, <1>5, <1>6 DEF Inv, JobsInv
<1>8. SweepInv' /\ PublisherInv'
  BY <1>1, <1>2, <1>5 DEF Inv, SweepInv, PublisherInv, threads
<1> QED
  BY <1>1, <1>4, <1>7, <1>8, NothingLeaves
  DEF StepOK, Effect, CatalogEffect, disk

LEMMA ProcessSteps ==
  ASSUME Inv, Crash \/ Restart
  PROVE  StepOK
<1>1. CASE Crash
  <2>1. /\ up' \in BOOLEAN /\ checked' = {}
        /\ publisher' = [m \in Members |-> IdlePublisher]
        /\ sweeper' = [w \in Sweepers |-> IdleSweeper]
        /\ UNCHANGED <<version, retired, catalog, disk>>
    BY <1>1 DEF Crash
  <2>2. PublisherInv' /\ publisher' \in [Members -> PublisherStates]
    BY <2>1, IdleTypes DEF PublisherInv, IdlePublisher
  <2>3. \A w \in Sweepers : sweeper'[w].at = "idle"
    BY <2>1 DEF IdleSweeper
  <2>4. sweeper' \in [Sweepers -> SweeperStates]
    BY <2>1, IdleTypes
  <2> QED
    BY <2>1, <2>2, <2>3, <2>4, NothingLeaves, CatalogUntouched
    DEF Inv, TypeOK, disk, Working
<1>2. CASE Restart
  <2>1. /\ up' \in BOOLEAN /\ version' \in Versions
        /\ UNCHANGED <<retired, catalog, disk, threads>>
    BY <1>2 DEF Restart
  <2> QED
    BY <2>1, NothingLeaves, CatalogUntouched
    DEF Inv, TypeOK, SweepInv, PublisherInv, disk, threads
<1> QED
  BY <1>1, <1>2

LEMMA SweepSteps ==
  ASSUME Inv, NEW w \in Sweepers, SweepStep(w)
  PROVE  StepOK
<1>0. /\ TypeOK
      /\ sweeper[w].at \in Working =>
           /\ sweeper[w].job \in JobIds
           /\ Target(w) \in Snapshots /\ Deleted(Target(w))
           /\ TargetKey(w) \in Keys
  <2>1. sweeper[w].kind \in Kinds
    BY DEF Inv, TypeOK, SweeperStates
  <2> QED
    BY <2>1, KeyType DEF Inv, SweepInv, JobsInv, Target, TargetKey
<1>1. CASE StartSweep(w)
  <2> DEFINE todo == {j \in JobIds : jobs[j].status = "pending"}
             next == [IdleSweeper EXCEPT !.at = "next", !.todo = todo]
  <2>1. next \in SweeperStates /\ next.at = "next"
    BY IdleTypes DEF SweeperStates
  <2>2. Sweep(w, next) /\ UNCHANGED <<up, version, retired, catalog, disk,
                                        publisher, checked>>
    BY <1>1 DEF StartSweep
  <2> HIDE DEF next
  <2>3. /\ sweeper' \in [Sweepers -> SweeperStates]
        /\ \A v \in Sweepers : sweeper'[v] = IF v = w THEN next ELSE sweeper[v]
    BY <1>0, <2>1, <2>2, SweepType
  <2> QED
    BY <2>1, <2>2, <2>3, NothingLeaves, CatalogUntouched
    DEF Inv, TypeOK, SweepInv, PublisherInv, disk, Working
<1>2. ASSUME NEW j \in JobIds, TakeJob(w, j)
      PROVE  StepOK
  <2> DEFINE rest == sweeper[w].todo \ {j}
             next == IF jobs[j].status = "pending"
                     THEN [at |-> "check", todo |-> rest, job |-> j, kind |-> "evidence"]
                     ELSE [sweeper[w] EXCEPT !.todo = rest]
  <2>1. sweeper[w] \in SweeperStates /\ sweeper[w].at = "next"
    BY <1>0, <1>2 DEF TakeJob, Running, TypeOK
  <2>2. next \in SweeperStates
    BY <2>1 DEF SweeperStates, Kinds
  <2>3. next.at \in Working => next.job = j /\ jobs[j].status # "none"
    BY <2>1 DEF SweeperStates, Working
  <2>4. Sweep(w, next) /\ UNCHANGED <<up, version, retired, catalog, disk,
                                        publisher, checked>>
    BY <1>2 DEF TakeJob
  <2> HIDE DEF next
  <2>5. /\ sweeper' \in [Sweepers -> SweeperStates]
        /\ \A v \in Sweepers : sweeper'[v] = IF v = w THEN next ELSE sweeper[v]
    BY <1>0, <2>2, <2>4, SweepType
  <2> QED
    BY <2>3, <2>4, <2>5, NothingLeaves, CatalogUntouched
    DEF Inv, TypeOK, SweepInv, PublisherInv, disk
<1>3. CASE EndSweep(w)
  <2>1. /\ SweepAborts(w) /\ trash' \subseteq trash
        /\ UNCHANGED <<up, version, retired, catalog, cas, publisher, checked>>
    BY <1>3 DEF EndSweep, SweepAborts
  <2>2. /\ sweeper' \in [Sweepers -> SweeperStates]
        /\ \A v \in Sweepers : sweeper'[v] = IF v = w THEN IdleSweeper ELSE sweeper[v]
    BY <1>0, <2>1, IdleTypes, SweepType DEF SweepAborts
  <2>3. IdleSweeper.at \notin Working
    BY DEF IdleSweeper, Working
  <2> QED
    BY <2>1, <2>2, <2>3, NothingLeaves, CatalogUntouched
    DEF Inv, TypeOK, SweepInv, PublisherInv
<1>4. CASE CheckArtifact(w)
  <2>1. Follows(w)
    BY <1>0, <1>4, KeyDoneFollows, AtFollows, AbortFollows
    DEF CheckArtifact, Working
  <2> QED
    BY <1>4, <2>1, NothingLeaves, OneSweepMoves
    DEF CheckArtifact, Running, Working, disk, Inv, TypeOK
<1>5. CASE MoveToTrash(w)
  <2>1. sweeper[w].at \in Working
    BY <1>5 DEF MoveToTrash, Running, Working
  <2>2. Follows(w)
    BY <1>0, <1>5, KeyDoneFollows, NextJobFollows DEF MoveToTrash
  <2>3. DiskEffect
    <3>1. sweeper[w].kind \in Kinds
      BY <1>0 DEF TypeOK, SweeperStates
    <3>2. cas' = cas \/ cas' = cas \ {TargetKey(w)}
      BY <1>5 DEF MoveToTrash, disk
    <3> QED
      BY <1>0, <2>1, <3>1, <3>2 DEF DiskEffect, TargetKey
  <2>4. cas' \subseteq Keys /\ trash' \subseteq JobIds \X Keys
    BY <1>0, <1>5, <2>1 DEF MoveToTrash, disk, TypeOK
  <2> QED
    BY <1>5, <2>1, <2>2, <2>3, <2>4, OneSweepMoves DEF MoveToTrash
<1>6. CASE SelectPendingJob(w)
  <2>1. Follows(w)
    BY <1>0, <1>6, NextJobFollows, AtFollows DEF SelectPendingJob, Working
  <2> QED
    BY <1>6, <2>1, NothingLeaves, OneSweepMoves
    DEF SelectPendingJob, Running, Working, disk, Inv, TypeOK
<1>7. CASE PurgeTrash(w)
  <2>1. Follows(w)
    BY <1>0, <1>7, NextJobFollows, AtFollows DEF PurgeTrash, Working
  <2>2. trash' \subseteq trash
    BY <1>7 DEF PurgeTrash
  <2> QED
    BY <1>7, <2>1, <2>2, NothingLeaves, OneSweepMoves
    DEF PurgeTrash, Running, Working, Inv, TypeOK
<1>8. CASE MarkTrashed(w)
  <2> DEFINE t == Target(w)
             j == sweeper[w].job
  <2>1. j \in JobIds /\ t \in Snapshots /\ Deleted(t) /\ jobs[j].status # "none"
    BY <1>0, <1>8 DEF MarkTrashed, Running, Working, Inv, SweepInv
  <2>2. /\ deletion' = [deletion EXCEPT ![t] = "trashed"]
        /\ jobs' = [jobs EXCEPT ![j].status = "trashed"]
        /\ UNCHANGED <<up, version, retired, orphaned, current, refs, disk,
                       publisher, checked>>
    BY <1>8 DEF MarkTrashed
  <2>3. Follows(w)
    BY <1>0, <1>8, AtFollows DEF MarkTrashed, Working
  <2> HIDE DEF t, j
  <2>4. jobs' \in [JobIds -> [target : Snapshots \cup {None}, status : JobStatuses]]
    BY <1>0, <2>1, <2>2 DEF TypeOK, JobStatuses
  <2>5. TypeOK'
    BY <1>0, <2>2, <2>3, <2>4 DEF TypeOK, disk, DeletionStates, Follows
  <2>6. \A i \in JobIds : /\ jobs'[i].target = jobs[i].target
                          /\ jobs'[i].status # "none" <=> jobs[i].status # "none"
    BY <1>0, <2>1, <2>2 DEF TypeOK
  <2>7. \A x \in Snapshots : Deleted(x) => Deleted(x)'
    BY <1>0, <2>1, <2>2 DEF TypeOK, Deleted, Exists, Readable
  <2>8. JobsInv'
    BY <2>6, <2>7 DEF Inv, JobsInv
  <2>9. SweepInv'
    BY <2>3, <2>6, <1>8 DEF Inv, SweepInv, Follows, MarkTrashed, Running, Working
  <2>10. PublisherInv' /\ Trashes(t) /\ cas' = cas
    BY <2>1, <2>2 DEF Inv, PublisherInv, Trashes, disk
  <2> QED
    BY <2>1, <2>5, <2>8, <2>9, <2>10, NothingLeaves
    DEF StepOK, Effect, CatalogEffect
<1>9. CASE CompleteDeletion(w)
  <2> DEFINE j == sweeper[w].job
  <2>1. j \in JobIds /\ jobs[j].status # "none"
    BY <1>9 DEF CompleteDeletion, Running, Working, Inv, SweepInv
  <2>2. /\ jobs' = [jobs EXCEPT ![j].status =
                      IF @ \in {"pending", "trashed"} THEN "completed" ELSE @]
        /\ UNCHANGED <<up, version, retired, deletion, orphaned, current, refs,
                       disk, publisher, checked>>
    BY <1>9 DEF CompleteDeletion
  <2>3. Follows(w)
    BY <1>0, <1>9, NextJobFollows DEF CompleteDeletion
  <2> HIDE DEF j
  <2>4. jobs' \in [JobIds -> [target : Snapshots \cup {None}, status : JobStatuses]]
    BY <1>0, <2>1, <2>2 DEF TypeOK, JobStatuses
  <2>5. TypeOK'
    BY <1>0, <2>2, <2>3, <2>4 DEF TypeOK, disk, Follows
  <2>6. \A i \in JobIds : /\ jobs'[i].target = jobs[i].target
                          /\ jobs'[i].status # "none" <=> jobs[i].status # "none"
    BY <1>0, <2>1, <2>2 DEF TypeOK
  <2>7. JobsInv'
    BY <2>2, <2>6 DEF Inv, JobsInv, Deleted, Exists, Readable
  <2>8. SweepInv'
    BY <2>3, <2>6, <1>9 DEF Inv, SweepInv, Follows, CompleteDeletion, Running, Working
  <2>9. PublisherInv' /\ cas' = cas
    BY <2>2 DEF Inv, PublisherInv, disk
  <2> QED
    BY <2>2, <2>5, <2>7, <2>8, <2>9, NothingLeaves
    DEF StepOK, Effect, CatalogEffect
<1> QED
  BY <1>1, <1>2, <1>3, <1>4, <1>5, <1>6, <1>7, <1>8, <1>9 DEF SweepStep

-----------------------------------------------------------------------------
(* The properties, from the kinds of changes *)

LEMMA EveryStep ==
  ASSUME Inv, Next
  PROVE  StepOK
BY PublicationSteps, ProtectionSteps, RequestStep, SweepSteps, ProcessSteps
DEF Next, Publication

(* What a change of a row means for its being readable and its references. *)
LEMMA RefsOfEffect ==
  ASSUME NEW s \in Snapshots, NEW o \in Owners
  PROVE  o \in RefersTo(s) <=> <<s, o>> \in refs
BY DEF RefersTo

LEMMA CurrentPreserved ==
  ASSUME Inv, CatalogEffect
  PROVE  CurrentIsReadable'
<1> USE DEF Inv, CurrentIsReadable
<1>1. CASE UNCHANGED <<deletion, orphaned, current, refs>>
  BY <1>1 DEF Readable
<1>2. ASSUME NEW S \in SUBSET Snapshots, NEW o \in ClientOwners, Protects(S, o)
      PROVE  CurrentIsReadable'
  BY <1>2 DEF Protects, Protect, ClientOwners, Readable
<1>3. ASSUME NEW s \in Snapshots, NEW o \in ClientOwners, Releases(s, o)
      PROVE  CurrentIsReadable'
  BY <1>3 DEF Releases, Release, ClientOwners, Readable
<1>4. ASSUME NEW s \in Snapshots, Requests(s) \/ Trashes(s)
      PROVE  CurrentIsReadable'
  <2>1. \A m \in Members : MemberOf(s) = m => current[m] # s
    BY <1>4 DEF Requests, Unprotected, Trashes, Deleted
  <2>2. \A t \in Snapshots : t # s => deletion'[t] = deletion[t]
    BY <1>4 DEF Requests, Trashes, TypeOK
  <2> QED
    BY <1>4, <2>1, <2>2 DEF Requests, Trashes, Readable
<1>5. ASSUME NEW m \in Members, NEW s \in Snapshots, Publishes(m, s)
      PROVE  CurrentIsReadable'
  <2>1. \A t \in Snapshots : Readable(t) => Readable(t)'
    BY <1>5 DEF Publishes, Inserted, TypeOK, Readable, Exists
  <2>2. \A t \in Snapshots : Exists(t) /\ t \notin orphaned => t \notin orphaned'
    BY <1>5 DEF Publishes, InsertedOrphans
  <2>3. CASE UNCHANGED <<current, refs>>
    BY <2>1, <2>2, <2>3 DEF Readable, Exists
  <2>4. CASE SetCurrent(m, s) /\ m \notin retired /\ CurrentAllowed(s)
    <3>1. Readable(s)' /\ (Exists(s) => s \notin orphaned)
      BY <1>5, <2>4 DEF Publishes, Inserted, TypeOK, Readable, Exists, CurrentAllowed
    <3>2. orphaned' = orphaned
      BY <1>5, <2>4 DEF Publishes, InsertedOrphans
    <3>3. ~ Exists(s) => s \notin orphaned
      BY DEF OrphansExist
    <3>4. MemberOf(s) = m /\ current' = [current EXCEPT ![m] = s]
      BY <1>5, <2>4 DEF Publishes, SetCurrent
    <3>5. \A n \in Members : current'[n] = IF n = m THEN s ELSE current[n]
      BY <3>4 DEF TypeOK
    <3>6. \A t \in Snapshots :
            <<t, "current">> \in refs' <=>
              t = s \/ (MemberOf(t) # m /\ <<t, "current">> \in refs)
      BY <2>4 DEF SetCurrent
    <3> QED
      BY <2>1, <3>1, <3>2, <3>3, <3>4, <3>5, <3>6
  <2> QED
    BY <1>5, <2>3, <2>4 DEF Publishes
<1> QED
  BY <1>1, <1>2, <1>3, <1>4, <1>5 DEF CatalogEffect

LEMMA ProtectedPreserved ==
  ASSUME Inv, CatalogEffect
  PROVE  ProtectedIsReadable'
<1> DEFINE Held(s) == <<s, "view">> \in refs \/ <<s, "rule">> \in refs
<1>0. /\ ProtectedIsReadable <=> \A s \in Snapshots : Held(s) => Readable(s)
      /\ ProtectedIsReadable' <=> \A s \in Snapshots : Held(s)' => Readable(s)'
  BY DEF ProtectedIsReadable, RefersTo, Owners, ClientOwners
<1>1. CASE UNCHANGED <<deletion, orphaned, current, refs>>
  BY <1>0, <1>1 DEF Readable, Inv
<1>2. ASSUME NEW S \in SUBSET Snapshots, NEW o \in ClientOwners, Protects(S, o)
      PROVE  ProtectedIsReadable'
  BY <1>0, <1>2 DEF Protects, Protect, ClientOwners, Readable, Inv
<1>3. ASSUME NEW s \in Snapshots, NEW o \in ClientOwners, Releases(s, o)
      PROVE  ProtectedIsReadable'
  BY <1>0, <1>3 DEF Releases, Release, ClientOwners, Readable, Inv
<1>4. ASSUME NEW s \in Snapshots, Requests(s) \/ Trashes(s)
      PROVE  ProtectedIsReadable'
  <2>1. ~ Held(s)
    BY <1>0, <1>4 DEF Requests, Unprotected, RefersTo, Owners, ClientOwners,
                      Trashes, Deleted, Inv
  <2>2. \A t \in Snapshots : t # s => deletion'[t] = deletion[t]
    BY <1>4 DEF Requests, Trashes, TypeOK, Inv
  <2> QED
    BY <1>0, <1>4, <2>1, <2>2 DEF Requests, Trashes, Readable, Inv
<1>5. ASSUME NEW m \in Members, NEW s \in Snapshots, Publishes(m, s)
      PROVE  ProtectedIsReadable'
  <2>1. \A t \in Snapshots : Readable(t) => Readable(t)'
    BY <1>5 DEF Publishes, Inserted, Inv, TypeOK, Readable, Exists
  <2>2. \A t \in Snapshots : Held(t)' => Held(t)
    BY <1>5 DEF Publishes, SetCurrent
  <2> QED
    BY <1>0, <2>1, <2>2 DEF Inv
<1> QED
  BY <1>1, <1>2, <1>3, <1>4, <1>5 DEF CatalogEffect

LEMMA CommunicationPreserved ==
  ASSUME Inv, Effect
  PROVE  CommunicationIsKept'
<1>1. ASSUME NEW s \in Snapshots, Readable(s)'
      PROVE  Key("communication", s) \in cas'
  <2>1. CASE Readable(s)
    <3>1. Key("communication", s) \in cas
      BY <2>1 DEF Inv, CommunicationIsKept
    <3> QED
      BY <2>1, <3>1, KeysApart DEF Effect, DiskEffect, Deleted
  <2>2. CASE ~ Readable(s)
    <3>1. PICK m \in Members, t \in Snapshots : Publishes(m, t)
      BY <1>1, <2>2 DEF Effect, CatalogEffect, Protects, Releases, Requests,
                        Trashes, Readable, Inv, TypeOK
    <3>2. t = s /\ ~ Exists(s)
      BY <1>1, <2>2, <3>1 DEF Publishes, Inserted, Readable, Exists, Inv, TypeOK
    <3> QED
      BY <3>1, <3>2 DEF Publishes
  <2> QED
    BY <2>1, <2>2
<1> QED
  BY <1>1 DEF CommunicationIsKept, Key

LEMMA OrphansPreserved ==
  ASSUME Inv, CatalogEffect
  PROVE  OrphansExist'
<1>1. \A t \in Snapshots : Exists(t) => Exists(t)'
  BY DEF CatalogEffect, Protects, Releases, Requests, Trashes, Publishes,
         Inserted, Exists, Inv, TypeOK
<1>2. ASSUME NEW t \in orphaned', t \notin orphaned
      PROVE  Exists(t)'
  <2>1. PICK m \in Members, s \in Snapshots : Publishes(m, s)
    BY <1>2 DEF CatalogEffect, Protects, Releases, Requests, Trashes
  <2> QED
    BY <1>2, <2>1 DEF Publishes, InsertedOrphans, Inserted, Exists, Inv, TypeOK
<1> QED
  BY <1>1, <1>2 DEF OrphansExist, Inv, TypeOK

LEMMA InitInv ==
  ASSUME Init
  PROVE  Inv
<1>1. TypeOK
  BY IdleTypes, MaxVersionAssumption
  DEF Init, TypeOK, Versions, DeletionStates, JobStatuses
<1>2. JobsInv /\ SweepInv /\ PublisherInv /\ OrphansExist
  BY DEF Init, JobsInv, SweepInv, PublisherInv, OrphansExist, IdleSweeper,
         IdlePublisher, Working
<1>3. CurrentIsReadable /\ ProtectedIsReadable /\ CommunicationIsKept
  <2>1. \A m \in Members, s \in Snapshots : current[m] # s
    BY NoneAssumption DEF Init
  <2>2. refs = {} /\ \A s \in Snapshots : ~ Readable(s)
    BY DEF Init, Readable
  <2> QED
    BY <2>1, <2>2 DEF CurrentIsReadable, ProtectedIsReadable,
                      CommunicationIsKept, RefersTo
<1> QED
  BY <1>1, <1>2, <1>3 DEF Inv

LEMMA NextInv ==
  ASSUME Inv, [Next]_vars
  PROVE  Inv'
<1>1. CASE Next
  <2>1. StepOK
    BY <1>1, EveryStep
  <2>2. CurrentIsReadable' /\ ProtectedIsReadable' /\ OrphansExist'
    BY <2>1, CurrentPreserved, ProtectedPreserved, OrphansPreserved
    DEF StepOK, Effect
  <2>3. CommunicationIsKept'
    BY <2>1, CommunicationPreserved DEF StepOK
  <2> QED
    BY <2>1, <2>2, <2>3 DEF StepOK, Inv
<1>2. CASE UNCHANGED vars
  BY <1>2 DEF vars, catalog, disk, threads, Inv, TypeOK, JobsInv, SweepInv,
              PublisherInv, OrphansExist, CurrentIsReadable, ProtectedIsReadable,
              CommunicationIsKept, Deleted, Exists, Readable, RefersTo, Key
<1> QED
  BY <1>1, <1>2

(* The invariant holds in every reachable state. *)
THEOREM InvHolds == Spec => []Inv
<1>1. Init => Inv
  BY InitInv
<1>2. Inv /\ [Next]_vars => Inv'
  BY NextInv
<1> QED
  BY <1>1, <1>2, PTL DEF Spec

-----------------------------------------------------------------------------
(* Every variable of publication, references, deletion jobs, artifacts and *)
(* threads keeps its type.                                                 *)
THEOREM TypeCorrect == Spec => []TypeOK
<1>1. Inv => TypeOK
  BY DEF Inv
<1> QED
  BY <1>1, InvHolds, PTL

(* The current snapshot of a member is readable, its own and not orphaned, *)
(* and holds the only reference as the current one: publish_snapshot, its  *)
(* triggers and request_snapshot_deletion keep this together.              *)
THEOREM CurrentIsReadableHolds == Spec => []CurrentIsReadable
<1>1. Inv => CurrentIsReadable
  BY DEF Inv
<1> QED
  BY <1>1, InvHolds, PTL

(* What a view shows or a rule describes is readable, however creation and *)
(* deletion interleave.                                                    *)
THEOREM ProtectedIsReadableHolds == Spec => []ProtectedIsReadable
<1>1. Inv => ProtectedIsReadable
  BY DEF Inv
<1> QED
  BY <1>1, InvHolds, PTL

(* No sweep and no repeated analysis takes the communication artifact of a *)
(* readable snapshot out of the store.                                     *)
THEOREM CommunicationIsKeptHolds == Spec => []CommunicationIsKept
<1>1. Inv => CommunicationIsKept
  BY DEF Inv
<1> QED
  BY <1>1, InvHolds, PTL

(* What is shown or relied on can be read, with the artifact that          *)
(* topologies are built from.                                              *)
THEOREM ReadableIsKeptHolds == Spec => []ReadableIsKept
BY CurrentIsReadableHolds, ProtectedIsReadableHolds, CommunicationIsKeptHolds, PTL
DEF ReadableIsKept

-----------------------------------------------------------------------------
(* Evidence artifacts.  InvHolds does not say who takes one: what follows  *)
(* adds the deletion job to it, of the snapshot itself or of another one.  *)

(* Somebody has asked for the deletion of a snapshot of this evidence.     *)
Deleting(e) ==
    \E j \in JobIds : jobs[j].status # "none" /\ EvidenceOf(jobs[j].target) = e

(* A publisher that has measured its artifact loses it only to a deletion. *)
MeasuredIsThere ==
    \A m \in Members :
      publisher[m].at = "commit" =>
        \/ Key("evidence", publisher[m].snapshot) \in cas
        \/ Deleting(EvidenceOf(publisher[m].snapshot))

EvidenceInv == MeasuredIsThere /\ EvidenceLostOnlyBySharing

(* No deletion job disappears or gets another target. *)
JobsStay ==
    \A j \in JobIds : jobs[j].status # "none" =>
      jobs'[j].status # "none" /\ jobs'[j].target = jobs[j].target

(* Who is ready to commit was so before, or has seen the artifact.         *)
PublishersMeasure ==
    \A m \in Members : publisher'[m].at = "commit" =>
      \/ publisher'[m] = publisher[m]
      \/ Key("evidence", publisher'[m].snapshot) \in cas /\ cas' = cas

(* What leaves the store is an artifact of the target of a job.            *)
JobsTake ==
    \A key \in cas \ cas' :
      \E j \in JobIds, kind \in Kinds :
        jobs[j].status # "none" /\ key = Key(kind, jobs[j].target)

(* A new row is inserted by a publisher that is ready to commit.           *)
PublishersInsert ==
    \A s \in Snapshots : ~ Exists(s) /\ Exists(s)' =>
      /\ \E m \in Members : publisher[m].at = "commit" /\ publisher[m].snapshot = s
      /\ cas \subseteq cas'

EvidenceEffect == JobsStay /\ PublishersMeasure /\ JobsTake /\ PublishersInsert

LEMMA NothingToDoWithEvidence ==
  ASSUME UNCHANGED <<deletion, jobs, publisher>>, cas \subseteq cas'
  PROVE  EvidenceEffect
BY DEF EvidenceEffect, JobsStay, PublishersMeasure, JobsTake, PublishersInsert, Exists

LEMMA PublicationAndEvidence ==
  ASSUME Inv, Publication
  PROVE  EvidenceEffect
<1>1. PICK m \in Members : \/ \E e \in Evidences : PublishArtifacts(m, e)
                           \/ MeasureArtifact(m)
                           \/ CommitSnapshot(m)
  BY DEF Publication
<1>2. publisher \in [Members -> PublisherStates] /\ deletion \in [Snapshots -> DeletionStates]
  BY DEF Inv, TypeOK
<1>3. jobs' = jobs
  BY <1>1 DEF PublishArtifacts, MeasureArtifact, CommitSnapshot, catalog
<1>4. cas \subseteq cas'
  BY <1>1 DEF PublishArtifacts, MeasureArtifact, CommitSnapshot, disk, FactsStored
<1>5. PublishersMeasure
  <2>1. CASE \E e \in Evidences : PublishArtifacts(m, e)
    BY <1>2, <2>1 DEF PublishArtifacts, PublishersMeasure
  <2>2. CASE MeasureArtifact(m)
    <3>1. publisher[m] \in PublisherStates /\ cas' = cas
      BY <1>2, <2>2 DEF MeasureArtifact, disk
    <3>2. publisher'[m].at = "commit" =>
            Key("evidence", publisher'[m].snapshot) \in cas
      BY <1>2, <2>2, <3>1 DEF MeasureArtifact, PublisherStates, IdlePublisher
    <3>3. \A n \in Members : n # m => publisher'[n] = publisher[n]
      BY <1>2, <2>2 DEF MeasureArtifact
    <3> QED
      BY <3>1, <3>2, <3>3 DEF PublishersMeasure
  <2>3. CASE CommitSnapshot(m)
    BY <1>2, <2>3 DEF CommitSnapshot, PublishersMeasure, IdlePublisher
  <2> QED
    BY <1>1, <2>1, <2>2, <2>3
<1>6. PublishersInsert
  <2>1. ASSUME NEW s \in Snapshots, ~ Exists(s), Exists(s)'
        PROVE  publisher[m].at = "commit" /\ publisher[m].snapshot = s
    <3>1. CommitSnapshot(m)
      BY <1>1, <2>1 DEF PublishArtifacts, MeasureArtifact, catalog, Exists
    <3>2. deletion' = Inserted(publisher[m].snapshot)
      BY <2>1, <3>1 DEF CommitSnapshot, Exists
    <3> QED
      BY <1>2, <2>1, <3>1, <3>2 DEF CommitSnapshot, Inserted, Exists
  <2> QED
    BY <1>4, <2>1 DEF PublishersInsert
<1> QED
  BY <1>3, <1>4, <1>5, <1>6 DEF EvidenceEffect, JobsStay, JobsTake

LEMMA SweepsAndEvidence ==
  ASSUME Inv, NEW w \in Sweepers, SweepStep(w)
  PROVE  EvidenceEffect
<1>1. UNCHANGED publisher
  BY DEF SweepStep, StartSweep, TakeJob, EndSweep, CheckArtifact, MoveToTrash,
         SelectPendingJob, MarkTrashed, PurgeTrash, CompleteDeletion
<1>2. CASE MoveToTrash(w)
  <2>1. sweeper[w].job \in JobIds /\ jobs[sweeper[w].job].status # "none"
    BY <1>2 DEF Inv, SweepInv, MoveToTrash, Running, Working
  <2>2. sweeper[w].kind \in Kinds
    BY DEF Inv, TypeOK, SweeperStates
  <2>3. cas' = cas \/ cas' = cas \ {Key(sweeper[w].kind, jobs[sweeper[w].job].target)}
    BY <1>2 DEF MoveToTrash, disk, TargetKey, Target
  <2>4. UNCHANGED <<deletion, jobs>>
    BY <1>2 DEF MoveToTrash, catalog
  <2> QED
    BY <1>1, <2>1, <2>2, <2>3, <2>4
    DEF EvidenceEffect, JobsStay, PublishersMeasure, JobsTake, PublishersInsert, Exists
<1>3. CASE MarkTrashed(w) \/ CompleteDeletion(w)
  <2>1. sweeper[w].job \in JobIds /\ jobs[sweeper[w].job].status # "none"
        /\ jobs[sweeper[w].job].target \in Snapshots
        /\ Deleted(jobs[sweeper[w].job].target)
    BY <1>3 DEF Inv, SweepInv, JobsInv, MarkTrashed, CompleteDeletion, Running, Working
  <2>2. UNCHANGED cas
    BY <1>3 DEF MarkTrashed, CompleteDeletion, disk
  <2>3. JobsStay
    BY <1>3, <2>1 DEF Inv, TypeOK, JobsStay, MarkTrashed, CompleteDeletion
  <2>4. \A s \in Snapshots : Exists(s)' => Exists(s)
    BY <1>3, <2>1 DEF Inv, TypeOK, MarkTrashed, CompleteDeletion, Target, Exists, Deleted
  <2> QED
    BY <1>1, <2>2, <2>3, <2>4
    DEF EvidenceEffect, PublishersMeasure, JobsTake, PublishersInsert
<1>4. CASE UNCHANGED <<deletion, jobs, cas>>
  BY <1>1, <1>4, NothingToDoWithEvidence
<1> QED
  BY <1>2, <1>3, <1>4
  DEF SweepStep, StartSweep, TakeJob, EndSweep, CheckArtifact, SelectPendingJob,
      PurgeTrash, catalog, disk

LEMMA RequestAndEvidence ==
  ASSUME Inv, NEW s \in Snapshots, NEW j \in JobIds, RequestDeletion(s, j)
  PROVE  EvidenceEffect
<1>1. /\ jobs[j].status = "none" /\ Exists(s)
      /\ deletion' = [deletion EXCEPT ![s] = "deletion_pending"]
      /\ jobs' = [jobs EXCEPT ![j] = [target |-> s, status |-> "pending"]]
      /\ UNCHANGED <<cas, publisher>>
  BY DEF RequestDeletion, NewJob, disk, threads
<1>2. JobsStay
  BY <1>1 DEF Inv, TypeOK, JobsStay
<1>3. \A t \in Snapshots : Exists(t)' => Exists(t)
  BY <1>1 DEF Inv, TypeOK, Exists
<1> QED
  BY <1>1, <1>2, <1>3
  DEF EvidenceEffect, PublishersMeasure, JobsTake, PublishersInsert

LEMMA StepsAndEvidence ==
  ASSUME Inv, [Next]_vars
  PROVE  EvidenceEffect
<1>1. CASE Protection \/ Restart \/ UNCHANGED vars
  <2>1. UNCHANGED <<deletion, jobs, publisher, cas>>
    BY <1>1 DEF Protection, RetireMember, CreateView, PinSnapshot, UnpinSnapshot,
                CreateCandidate, DropCandidate, CheckSnapshot, AddReference,
                RemoveReference, Restart, vars, catalog, disk, threads
  <2> QED
    BY <2>1, NothingToDoWithEvidence
<1>2. CASE Crash
  <2>1. UNCHANGED <<deletion, jobs, cas>> /\ \A m \in Members : publisher'[m].at = "idle"
    BY <1>2 DEF Crash, catalog, disk, IdlePublisher
  <2> QED
    BY <2>1 DEF EvidenceEffect, JobsStay, PublishersMeasure, JobsTake,
                PublishersInsert, Exists
<1> QED
  BY <1>1, <1>2, PublicationAndEvidence, SweepsAndEvidence, RequestAndEvidence DEF Next

(* A snapshot that becomes readable had no row. *)
LEMMA NoRowReturns ==
  ASSUME Inv, CatalogEffect, NEW s \in Snapshots, ~ Readable(s), Readable(s)'
  PROVE  ~ Exists(s) /\ Exists(s)'
<1>1. Exists(s)'
  BY DEF Readable, Exists
<1>2. PICK m \in Members, t \in Snapshots : Publishes(m, t)
  BY DEF CatalogEffect, Protects, Releases, Requests, Trashes, Readable, Inv, TypeOK
<1> QED
  BY <1>1, <1>2 DEF Publishes, Inserted, Readable, Exists, Inv, TypeOK

LEMMA SameEvidence ==
  ASSUME NEW s, NEW t, NEW kind \in Kinds, Key(kind, t) = Key("evidence", s)
  PROVE  EvidenceOf(t) = EvidenceOf(s)
BY DEF Key, Kinds

LEMMA EvidencePreserved ==
  ASSUME Inv, EvidenceInv, EvidenceEffect, CatalogEffect
  PROVE  EvidenceInv'
<1>1. \A e : Deleting(e) => Deleting(e)'
  BY DEF EvidenceEffect, JobsStay, Deleting
<1>2. ASSUME NEW s, Key("evidence", s) \in cas, Key("evidence", s) \notin cas'
      PROVE  \E j \in JobIds : /\ jobs[j].status # "none" /\ jobs'[j].status # "none"
                               /\ jobs'[j].target = jobs[j].target
                               /\ EvidenceOf(jobs[j].target) = EvidenceOf(s)
  <2>1. PICK j \in JobIds, kind \in Kinds :
          jobs[j].status # "none" /\ Key("evidence", s) = Key(kind, jobs[j].target)
    BY <1>2 DEF EvidenceEffect, JobsTake
  <2> QED
    BY <2>1, SameEvidence DEF EvidenceEffect, JobsStay
<1>3. MeasuredIsThere'
  <2>1. ASSUME NEW m \in Members, publisher'[m].at = "commit"
        PROVE  \/ Key("evidence", publisher'[m].snapshot) \in cas'
               \/ Deleting(EvidenceOf(publisher[m].snapshot))'
                    /\ publisher'[m] = publisher[m]
    <3>1. CASE publisher'[m] = publisher[m]
      <4>1. \/ Key("evidence", publisher[m].snapshot) \in cas
            \/ Deleting(EvidenceOf(publisher[m].snapshot))
        BY <2>1, <3>1 DEF EvidenceInv, MeasuredIsThere
      <4> QED
        BY <1>1, <1>2, <3>1, <4>1 DEF Deleting
    <3> QED
      BY <2>1, <3>1 DEF EvidenceEffect, PublishersMeasure
  <2> QED
    BY <2>1 DEF MeasuredIsThere, Deleting, Key
<1>4. EvidenceLostOnlyBySharing'
  <2> SUFFICES ASSUME NEW s \in Snapshots, Readable(s)', Key("evidence", s) \notin cas'
               PROVE  \E j \in JobIds : /\ jobs'[j].status # "none"
                                        /\ jobs'[j].target # s
                                        /\ EvidenceOf(jobs'[j].target) = EvidenceOf(s)
    BY DEF EvidenceLostOnlyBySharing, Key
  <2>1. \A j \in JobIds : jobs[j].status # "none" =>
                            ~ Readable(jobs[j].target) /\ Exists(jobs[j].target)
    BY DEF Inv, JobsInv, Deleted
  <2>2. CASE Readable(s)
    <3>1. CASE Key("evidence", s) \in cas
      BY <1>2, <2>1, <2>2, <3>1
    <3>2. CASE Key("evidence", s) \notin cas
      BY <2>2, <3>2 DEF EvidenceInv, EvidenceLostOnlyBySharing, EvidenceEffect, JobsStay
    <3> QED
      BY <3>1, <3>2
  <2>3. CASE ~ Readable(s)
    <3>1. ~ Exists(s) /\ Exists(s)'
      BY <2>3, NoRowReturns DEF Readable, Exists
    <3>2. PICK m \in Members : publisher[m].at = "commit" /\ publisher[m].snapshot = s
      BY <3>1 DEF EvidenceEffect, PublishersInsert
    <3>3. Key("evidence", s) \notin cas
      BY <3>1 DEF EvidenceEffect, PublishersInsert
    <3>4. Deleting(EvidenceOf(s))
      BY <3>2, <3>3 DEF EvidenceInv, MeasuredIsThere
    <3> QED
      BY <2>1, <3>1, <3>4 DEF Deleting, EvidenceEffect, JobsStay
  <2> QED
    BY <2>2, <2>3
<1> QED
  BY <1>3, <1>4 DEF EvidenceInv

(* A readable snapshot is without its evidence artifact only when another  *)
(* snapshot of the same evidence was deleted: scavenge moves what a        *)
(* deleted snapshot names and does not ask who shares it, and nothing else *)
(* (publish_snapshot, repeated analyses, crashes) removes evidence.        *)
THEOREM EvidenceLostOnlyBySharingHolds == Spec => []EvidenceLostOnlyBySharing
<1>1. Init => EvidenceInv
  BY DEF Init, EvidenceInv, MeasuredIsThere, EvidenceLostOnlyBySharing,
         IdlePublisher, Readable
<1>2. Inv /\ EvidenceInv /\ [Next]_vars => EvidenceInv'
  <2> SUFFICES ASSUME Inv, EvidenceInv, [Next]_vars
               PROVE  EvidenceInv'
    OBVIOUS
  <2>1. CASE Next
    <3>1. CatalogEffect
      BY <2>1, EveryStep DEF StepOK, Effect
    <3> QED
      BY <3>1, StepsAndEvidence, EvidencePreserved
  <2>2. CASE UNCHANGED vars
    <3>1. CatalogEffect
      BY <2>2 DEF vars, catalog, CatalogEffect
    <3> QED
      BY <3>1, StepsAndEvidence, EvidencePreserved
  <2> QED
    BY <2>1, <2>2
<1>3. EvidenceInv => EvidenceLostOnlyBySharing
  BY DEF EvidenceInv
<1> QED
  BY <1>1, <1>2, <1>3, InvHolds, PTL DEF Spec

-----------------------------------------------------------------------------
(* The refinement of SnapshotCatalog *)

ReadableSet == {s \in Snapshots : Readable(s)}
GoneSet == {s \in Snapshots : Exists(s) /\ ~ Readable(s)}
HeldSet == {s \in Snapshots : RefersTo(s) \cap {"view", "rule"} # {}}

LEMMA Held ==
  ASSUME NEW s \in Snapshots
  PROVE  s \in HeldSet <=> <<s, "view">> \in refs \/ <<s, "rule">> \in refs
BY DEF HeldSet, RefersTo, Owners, ClientOwners

LEMMA HeldNext ==
  ASSUME NEW s \in Snapshots
  PROVE  s \in HeldSet' <=> <<s, "view">> \in refs' \/ <<s, "rule">> \in refs'
BY DEF HeldSet, RefersTo, Owners, ClientOwners

LEMMA EffectImplements ==
  ASSUME Inv, CatalogEffect
  PROVE  Promise!Next \/ UNCHANGED Promise!vars
<1> USE DEF ReadableSet, GoneSet, HeldSet
<1>1. CASE UNCHANGED <<deletion, orphaned, current, refs>>
  BY <1>1 DEF Promise!vars, Readable, Exists, RefersTo
<1>2. ASSUME NEW S \in SUBSET Snapshots, NEW o \in ClientOwners, Protects(S, o)
      PROVE  Promise!Next \/ UNCHANGED Promise!vars
  <2>1. ReadableSet' = ReadableSet /\ GoneSet' = GoneSet /\ current' = current
    BY <1>2 DEF Protects, Readable, Exists
  <2>2. CASE o \in {"view", "rule"}
    <3>1. S \subseteq ReadableSet
      BY <1>2, <2>2 DEF Protects
    <3>2. HeldSet' = HeldSet \cup S
      <4>1. \A s \in Snapshots : s \in HeldSet' <=> s \in HeldSet \cup S
        BY <1>2, <2>2, Held, HeldNext DEF Protects, Protect
      <4> QED
        BY <4>1
    <3>3. Promise!Hold(S)
      BY <2>1, <3>1, <3>2 DEF Promise!Hold
    <3> QED
      BY <3>3 DEF Promise!Next
  <2>3. CASE o \notin {"view", "rule"}
    <3>1. HeldSet' = HeldSet
      <4>1. \A s \in Snapshots : s \in HeldSet' <=> s \in HeldSet
        BY <1>2, <2>3, Held, HeldNext DEF Protects, Protect
      <4> QED
        BY <4>1
    <3> QED
      BY <2>1, <3>1 DEF Promise!vars
  <2> QED
    BY <2>2, <2>3
<1>3. ASSUME NEW s \in Snapshots, NEW o \in ClientOwners, Releases(s, o)
      PROVE  Promise!Next \/ UNCHANGED Promise!vars
  <2>1. ReadableSet' = ReadableSet /\ GoneSet' = GoneSet /\ current' = current
    BY <1>3 DEF Releases, Readable, Exists
  <2>2. \A t \in Snapshots : t # s => (t \in HeldSet' <=> t \in HeldSet)
    BY <1>3, Held, HeldNext DEF Releases, Release
  <2>3. s \in HeldSet' => s \in HeldSet
    BY <1>3, Held, HeldNext DEF Releases, Release
  <2>4. HeldSet' = HeldSet \/ HeldSet' = HeldSet \ {s}
    BY <2>2, <2>3
  <2> QED
    BY <2>1, <2>4 DEF Promise!Next, Promise!LetGo, Promise!vars
<1>4. ASSUME NEW s \in Snapshots, Requests(s)
      PROVE  Promise!Next \/ UNCHANGED Promise!vars
  <2>1. HeldSet' = HeldSet /\ current' = current
    BY <1>4 DEF Requests, RefersTo
  <2>2. s \notin HeldSet /\ \A m \in Members : current[m] # s
    BY <1>4 DEF Requests, Unprotected
  <2>3. \A t \in Snapshots : deletion'[t] = IF t = s THEN "deletion_pending"
                                            ELSE deletion[t]
    BY <1>4 DEF Requests, Inv, TypeOK
  <2>4. ReadableSet' = ReadableSet \ {s} /\ GoneSet' = GoneSet \cup {s}
    BY <2>3 DEF Readable, Exists
  <2>5. CASE Readable(s)
    <3>1. Promise!Delete(s)
      BY <2>1, <2>2, <2>4, <2>5 DEF Promise!Delete
    <3> QED
      BY <3>1 DEF Promise!Next
  <2>6. CASE ~ Readable(s)
    <3>1. ReadableSet' = ReadableSet /\ GoneSet' = GoneSet
      BY <1>4, <2>4, <2>6 DEF Requests
    <3> QED
      BY <2>1, <3>1 DEF Promise!vars
  <2> QED
    BY <2>5, <2>6
<1>5. ASSUME NEW s \in Snapshots, Trashes(s)
      PROVE  Promise!Next \/ UNCHANGED Promise!vars
  <2>1. HeldSet' = HeldSet /\ current' = current
    BY <1>5 DEF Trashes, RefersTo
  <2>2. \A t \in Snapshots : deletion'[t] = IF t = s THEN "trashed" ELSE deletion[t]
    BY <1>5 DEF Trashes, Inv, TypeOK
  <2>3. ReadableSet' = ReadableSet /\ GoneSet' = GoneSet
    BY <1>5, <2>2 DEF Trashes, Deleted, Readable, Exists
  <2> QED
    BY <2>1, <2>3 DEF Promise!vars
<1>6. ASSUME NEW m \in Members, NEW s \in Snapshots, Publishes(m, s)
      PROVE  Promise!Next \/ UNCHANGED Promise!vars
  <2>1. HeldSet' = HeldSet
    <3>1. \A t \in Snapshots : t \in HeldSet' <=> t \in HeldSet
      BY <1>6, Held, HeldNext DEF Publishes, SetCurrent
    <3> QED
      BY <3>1
  <2>2. current' = current \/ current' = [current EXCEPT ![m] = s]
    BY <1>6 DEF Publishes, SetCurrent
  <2>3. \A t \in Snapshots : deletion'[t] = IF t = s /\ ~ Exists(s) THEN "active"
                                            ELSE deletion[t]
    BY <1>6 DEF Publishes, Inserted, Inv, TypeOK, Exists
  <2>4. CASE ~ Exists(s)
    <3>1. ReadableSet' = ReadableSet \cup {s} /\ GoneSet' = GoneSet
      BY <2>3, <2>4 DEF Readable, Exists
    <3>2. s \notin ReadableSet \cup GoneSet
      BY <2>4 DEF Readable, Exists
    <3>3. Promise!Publish(m, s)
      BY <2>1, <2>2, <3>1, <3>2 DEF Promise!Publish
    <3> QED
      BY <3>3 DEF Promise!Next
  <2>5. CASE Exists(s)
    <3>1. ReadableSet' = ReadableSet /\ GoneSet' = GoneSet
      BY <2>3, <2>5 DEF Readable, Exists
    <3>2. CASE current' = current
      BY <2>1, <3>1, <3>2 DEF Promise!vars
    <3>3. CASE current' # current
      <4>1. s \in ReadableSet
        BY <1>6, <2>5, <3>3 DEF Publishes, CurrentAllowed
      <4>2. Promise!SwitchBack(m, s)
        BY <2>1, <2>2, <3>1, <3>3, <4>1 DEF Promise!SwitchBack
      <4> QED
        BY <4>2 DEF Promise!Next
    <3> QED
      BY <3>2, <3>3
  <2> QED
    BY <2>4, <2>5
<1> QED
  BY <1>1, <1>2, <1>3, <1>4, <1>5, <1>6 DEF CatalogEffect

(* SnapshotRetention implements SnapshotCatalog: a snapshot is published   *)
(* once, only unprotected ones are deleted, and what is deleted stays so.  *)
THEOREM CatalogImplemented == Spec => ImplementsCatalog
<1>1. Init => Promise!Init
  BY DEF Init, Promise!Init, Readable, Exists, RefersTo
<1>2. Inv /\ [Next]_vars => [Promise!Next]_(Promise!vars)
  <2>1. ASSUME Inv, Next
        PROVE  Promise!Next \/ UNCHANGED Promise!vars
    BY <2>1, EveryStep, EffectImplements DEF StepOK, Effect
  <2>2. ASSUME UNCHANGED vars
        PROVE  UNCHANGED Promise!vars
    BY <2>2 DEF vars, catalog, Promise!vars, Readable, Exists, RefersTo
  <2> QED
    BY <2>1, <2>2
<1> QED
  BY <1>1, <1>2, InvHolds, PTL DEF Spec, ImplementsCatalog, Promise!Spec
=============================================================================
