----------------------------- MODULE LocalProofs -----------------------------
(***************************************************************************)
(* Theorems about the parts that Local puts side by side.                  *)
(***************************************************************************)
EXTENDS Local, FiniteSetTheorems, SequenceTheorems, TLAPS

-----------------------------------------------------------------------------
(* The control of the service.  Who holds the lock is at work, and knows   *)
(* about processes and the record what PlaceOK says; a server that is      *)
(* neither recorded nor a child of a command was left by one that was      *)
(* killed.                                                                 *)

Procs == [id : Nat, kind : {"server", "own", "foreign"}, alive : BOOLEAN, listens : BOOLEAN,
          parent : Threads \cup {None}]
Records == [pid : Processes, started : Nat]
Ports == [id : Nat, kind : {"server", "api", "other"}]
Places == {"idle", "inspect", "identify", "probe", "spawn", "record", "await", "give up", "gone",
           "terminate", "grace", "wait"}
Reports == {"none", "refused", "already running", "failed", "started", "occupied", "not running",
            "stopped", "stuck", "killed"}
Works == [pc : Places, mode : {"none", "start", "stop", "restart"}, pid : Processes \cup {None},
          checked : Nat, recorded : Nat, report : Reports]

ServiceTyped ==
    /\ procs \in [Processes -> Procs \cup {None}] /\ port \in Ports \cup {None}
    /\ record \in Records \cup {None} /\ lock \in Threads \cup {None}
    /\ ops \in [Threads -> Works] /\ born \in Nat /\ crashes \in Nat

There(p) == procs[p] # None
IdsOK ==
    /\ \A p \in Processes : There(p) => /\ procs[p].id \in 1 .. born
                                        /\ procs[p].alive \/ procs[p].parent # None
    /\ \A p, i \in Processes : There(p) /\ There(i) /\ procs[p].id = procs[i].id => p = i
    /\ record # None => record.started \in 1 .. born

RunsRecorded(p) == record # None /\ record.pid = p /\ record.started = procs[p].id
Unserved == \A p \in S!Servers : ~ RunsRecorded(p)
Row(w) == [pid |-> w.pid, started |-> w.recorded]
Child(c, w) ==
    /\ w.pid \in Processes /\ There(w.pid) /\ procs[w.pid].id = w.recorded
    /\ procs[w.pid].parent = c /\ procs[w.pid].kind = "server"
(* The recorded process has the number, or nobody, or a later one has.     *)
Known(w) ==
    /\ record # None /\ w.recorded = record.started /\ w.recorded <= w.checked /\ w.checked <= born
    /\ There(w.pid) => procs[w.pid].id = w.recorded \/ procs[w.pid].id > w.checked
    /\ \A p \in Processes : There(p) /\ procs[p].id = w.recorded => p = w.pid

Starting == {"record", "await", "give up"}
Ending == {"terminate", "grace", "wait"}
Served == port # None /\ port.kind = "server"
PlaceOK(c, w) ==
    /\ w.pc \in {"inspect", "identify", "gone"} \cup Ending =>
         w.pid = IF record = None THEN None ELSE record.pid
    /\ w.pc \in {"probe", "spawn", "record"} => record = None
    /\ w.pc \in Starting => Child(c, w)
    /\ w.pc = "await" => record = Row(w)
    /\ w.pc = "give up" => record \in {None, Row(w)}
    /\ w.pc = "gone" => Unserved
    /\ w.pc \in Ending => Known(w)
    /\ crashes = 0 => /\ w.pc = "spawn" => ~ Served
                      /\ w.pc \in Starting /\ Served => port.id = w.recorded

LockOK == \A c \in Threads : ops[c].pc # "idle" <=> lock = c
HolderOK == lock # None => PlaceOK(lock, ops[lock])
ParentsOK ==
    \A p \in Processes : There(p) /\ procs[p].parent # None =>
      lock = procs[p].parent /\ ops[lock].pc \in Starting /\ ops[lock].pid = p

Strays == {p \in S!Servers : procs[p].parent = None /\ ~ RunsRecorded(p)}
StraysOK == Cardinality(Strays) <= crashes

ServiceInv ==
    /\ ServiceTyped /\ IdsOK /\ LockOK /\ HolderOK /\ ParentsOK /\ StraysOK
    /\ S!NoStrangerIsKilled

LEMMA ServiceNone ==
  None \notin Procs /\ None \notin Records /\ None \notin Ports /\ None \notin Threads /\ None \notin Processes
BY NothingAssumption, ActorsAssumption DEF Procs, Records, Ports

LEMMA CountIs ==
  ASSUME NEW W
  PROVE  S!Cardinality(W) = Cardinality(W)
BY DEF S!Cardinality, Cardinality

LEMMA ServersFact ==
  ASSUME ServiceTyped, NEW p
  PROVE  p \in S!Servers <=> p \in Processes /\ There(p) /\ procs[p].alive /\ procs[p].kind = "server"
BY DEF S!Servers, S!Alive, There, ServiceTyped, Procs

LEMMA StraysFinite ==
  /\ Strays \subseteq Processes /\ IsFiniteSet(Strays)
  /\ \A W \in SUBSET Processes : IsFiniteSet(W)
<1>1. Strays \subseteq Processes
  BY DEF Strays, S!Servers, S!Alive
<1> QED
  BY <1>1, FS_Subset, ActorsAssumption

(* As long as no server is left, no more is astray. *)
LEMMA StraysStay ==
  ASSUME StraysOK, Strays' \subseteq Strays, crashes' \in Nat, crashes \in Nat, crashes' >= crashes
  PROVE  StraysOK'
<1>1. Cardinality(Strays') <= Cardinality(Strays) /\ Cardinality(Strays') \in Nat /\ Cardinality(Strays) \in Nat
  BY StraysFinite, FS_Subset, FS_CardinalityType
<1> QED
  BY <1>1 DEF StraysOK

LEMMA OneMoreStray ==
  ASSUME StraysOK, NEW p, Strays' \subseteq Strays \cup {p}, crashes \in Nat, crashes' = crashes + 1
  PROVE  StraysOK'
<1>1. IsFiniteSet(Strays) /\ Cardinality(Strays) \in Nat /\ Cardinality(Strays) <= crashes
  BY StraysFinite, FS_CardinalityType DEF StraysOK
<1>2. /\ IsFiniteSet(Strays \cup {p})
      /\ Cardinality(Strays \cup {p}) = Cardinality(Strays) \/ Cardinality(Strays \cup {p}) = Cardinality(Strays) + 1
  <2>1. CASE p \in Strays
    <3>1. Strays \cup {p} = Strays
      BY <2>1
    <3> QED
      BY <3>1, <1>1
  <2>2. CASE p \notin Strays
    BY <2>2, <1>1, FS_AddElement
  <2> QED
    BY <2>1, <2>2
<1>3. IsFiniteSet(Strays') /\ Cardinality(Strays') <= Cardinality(Strays \cup {p}) /\ Cardinality(Strays') \in Nat
  BY <1>2, FS_Subset, FS_CardinalityType
<1> QED
  BY <1>1, <1>2, <1>3 DEF StraysOK

LEMMA StrayFact ==
  ASSUME ServiceTyped, NEW p
  PROVE  p \in Strays <=> /\ p \in Processes /\ There(p) /\ procs[p].alive /\ procs[p].kind = "server"
                          /\ procs[p].parent = None /\ ~ RunsRecorded(p)
BY ServersFact DEF Strays

LEMMA StrayLater ==
  ASSUME ServiceTyped', NEW p
  PROVE  p \in Strays' <=> /\ p \in Processes /\ There(p)' /\ procs'[p].alive /\ procs'[p].kind = "server"
                           /\ procs'[p].parent = None /\ ~ RunsRecorded(p)'
<1>1. p \in S!Servers' <=> p \in Processes /\ There(p)' /\ procs'[p].alive /\ procs'[p].kind = "server"
  BY DEF S!Servers, S!Alive, There, ServiceTyped, Procs
<1> QED
  BY <1>1 DEF Strays

(* Only who starts the service has a child. *)
LEMMA NoChildren ==
  ASSUME ServiceInv, \A c \in Threads : lock = c => ops[c].pc \notin Starting, NEW p \in Processes, There(p)
  PROVE  procs[p].parent = None
<1>1. procs[p].parent \in Threads \cup {None}
  BY DEF ServiceInv, ServiceTyped, There, Procs
<1> QED
  BY <1>1 DEF ServiceInv, ParentsOK

LEMMA HolderKnows ==
  ASSUME ServiceInv, NEW c \in Threads, ops[c].pc # "idle"
  PROVE  /\ lock = c /\ c # None /\ ops[c] \in Works /\ PlaceOK(c, ops[c])
         /\ \A i \in Threads : i # c => ops[i].pc = "idle"
BY ServiceNone DEF ServiceInv, ServiceTyped, LockOK, HolderOK

(* ----------------------------- what a step may do ---------------------- *)

(* A process that was there dies, loses its number, or stays; a number is  *)
(* given to one of somebody else.                                          *)
Later(p) ==
    \/ procs'[p] = None /\ (There(p) => procs[p].parent = None)
    \/ /\ There(p) /\ procs'[p] # None
       /\ procs'[p].id = procs[p].id /\ procs'[p].kind = procs[p].kind /\ procs'[p].parent = procs[p].parent
       /\ procs'[p].alive => procs[p].alive
       /\ procs'[p].alive \/ procs[p].parent # None
    \/ /\ ~ There(p) /\ procs'[p] # None
       /\ procs'[p].id = born + 1 /\ born' = born + 1 /\ procs'[p].kind \in {"own", "foreign"}
       /\ procs'[p].parent = None /\ procs'[p].alive
Alters ==
    /\ procs' \in [Processes -> Procs \cup {None}] /\ port' \in Ports \cup {None} /\ born' \in {born, born + 1}
    /\ record' = record /\ crashes' = crashes /\ lock' = lock
    /\ \A p \in Processes : Later(p)
    /\ \A p, i \in Processes : ~ There(p) /\ ~ There(i) /\ procs'[p] # None /\ procs'[i] # None => p = i
PortAlters(w) ==
    crashes = 0 => /\ w.pc = "spawn" => ~ Served'
                   /\ w.pc \in Starting /\ Served' => port'.id = w.recorded

LEMMA AltersPlace ==
  ASSUME ServiceTyped, IdsOK, Alters, NEW c \in Threads, NEW w \in Works, PlaceOK(c, w), PortAlters(w)
  PROVE  PlaceOK(c, w)'
<1>1. w.pc \in Starting => Child(c, w)'
  <2> SUFFICES ASSUME w.pc \in Starting PROVE Child(c, w)'
    OBVIOUS
  <2>1. Child(c, w)
    BY DEF PlaceOK
  <2>2. w.pid \in Processes /\ Later(w.pid) /\ There(w.pid) /\ procs[w.pid].parent # None
    BY <2>1, ServiceNone DEF Alters, Child
  <2> QED
    BY <2>1, <2>2 DEF Later, Child, There
<1>2. w.pc = "gone" => Unserved'
  <2> SUFFICES ASSUME w.pc = "gone", NEW p \in S!Servers', RunsRecorded(p)' PROVE FALSE
    BY DEF Unserved
  <2>1. p \in Processes /\ procs'[p] # None /\ procs'[p].alive /\ procs'[p].kind = "server"
    BY DEF S!Servers, S!Alive, Alters, Procs
  <2>2. There(p) /\ procs'[p].id = procs[p].id /\ procs[p].kind = "server" /\ procs[p].alive
    BY <2>1 DEF Alters, Later
  <2>3. RunsRecorded(p)
    BY <2>2 DEF RunsRecorded, Alters
  <2>4. Unserved
    BY DEF PlaceOK
  <2> QED
    BY <2>1, <2>2, <2>3, <2>4, ServersFact DEF Unserved
<1>3. w.pc \in Ending => Known(w)'
  <2> SUFFICES ASSUME w.pc \in Ending PROVE Known(w)'
    OBVIOUS
  <2>1. Known(w)
    BY DEF PlaceOK
  <2>2. record # None /\ w.recorded = record.started /\ w.recorded \in Nat /\ w.checked \in Nat /\ born \in Nat
    BY <2>1 DEF Known, Works, ServiceTyped
  <2>3. w.pid \in Processes
    <3>1. w.pid = record.pid
      BY <2>2 DEF PlaceOK
    <3> QED
      BY <3>1, <2>2 DEF ServiceTyped, Records
  <2>4. ASSUME NEW p \in Processes, procs'[p] # None, procs'[p].id = w.recorded PROVE p = w.pid
    <3>1. There(p) /\ procs[p].id = procs'[p].id
      BY <2>1, <2>2, <2>4 DEF Alters, Later, Known
    <3> QED
      BY <3>1, <2>1, <2>4 DEF Known
  <2>5. procs'[w.pid] # None => procs'[w.pid].id = w.recorded \/ procs'[w.pid].id > w.checked
    BY <2>1, <2>2, <2>3 DEF Alters, Later, Known
  <2>6. w.recorded <= w.checked /\ w.checked <= born'
    BY <2>1, <2>2 DEF Alters, Known
  <2> QED
    BY <2>2, <2>4, <2>5, <2>6 DEF Known, Alters, There
<1>4. record' = record /\ crashes' = crashes
  BY DEF Alters
<1>5. w.pc = "await" => record' = Row(w)
  BY <1>4 DEF PlaceOK
<1>6. w.pc = "give up" => record' \in {None, Row(w)}
  BY <1>4 DEF PlaceOK
<1>7. w.pc \in {"inspect", "identify", "gone"} \cup Ending => w.pid = IF record' = None THEN None ELSE record'.pid
  BY <1>4 DEF PlaceOK
<1>8. w.pc \in {"probe", "spawn", "record"} => record' = None
  BY <1>4 DEF PlaceOK
<1> QED
  BY <1>1, <1>2, <1>3, <1>4, <1>5, <1>6, <1>7, <1>8 DEF PlaceOK, PortAlters, Served, Row

LEMMA AltersKeeps ==
  ASSUME ServiceInv, Alters
  PROVE  /\ IdsOK' /\ Strays' \subseteq Strays
         /\ \A p \in Processes : procs'[p] # None /\ procs'[p].parent # None =>
              There(p) /\ procs[p].parent = procs'[p].parent
<1> USE DEF ServiceInv
<1>0. born \in Nat /\ born' \in Nat /\ born <= born' /\ record' = record /\ crashes' = crashes
  BY DEF ServiceTyped, Alters
<1>a. \A p \in Processes : procs'[p] # None => procs'[p] \in Procs
  BY DEF Alters
<1>1. ASSUME NEW p \in Processes, procs'[p] # None
      PROVE  /\ procs'[p].id \in 1 .. born' /\ (procs'[p].alive \/ procs'[p].parent # None)
             /\ There(p) => procs'[p].id = procs[p].id
             /\ ~ There(p) => procs'[p].id = born + 1
             /\ procs'[p].parent # None => There(p) /\ procs[p].parent = procs'[p].parent
  <2>1. Later(p)
    BY DEF Alters
  <2>2. There(p) => procs[p].id \in 1 .. born
    BY DEF IdsOK
  <2> QED
    BY <2>1, <2>2, <1>0, <1>1 DEF Later
<1>2. ASSUME NEW p \in Processes, NEW i \in Processes, procs'[p] # None, procs'[i] # None, procs'[p].id = procs'[i].id
      PROVE  p = i
  <2>1. CASE There(p) /\ There(i)
    BY <1>1, <1>2, <2>1 DEF IdsOK
  <2>2. CASE ~ There(p) /\ ~ There(i)
    BY <1>2, <2>2 DEF Alters
  <2>3. CASE There(p) /\ ~ There(i)
    BY <1>0, <1>1, <1>2, <2>3 DEF IdsOK
  <2>4. CASE ~ There(p) /\ There(i)
    BY <1>0, <1>1, <1>2, <2>4 DEF IdsOK
  <2> QED
    BY <2>1, <2>2, <2>3, <2>4
<1>3. record' # None => record'.started \in 1 .. born'
  <2>1. record # None => record.started \in 1 .. born
    BY DEF IdsOK
  <2> QED
    BY <1>0, <2>1
<1>4. IdsOK'
  BY <1>1, <1>2, <1>3 DEF IdsOK, There
<1>5. ASSUME NEW p \in Strays' PROVE p \in Strays
  <2>1. /\ p \in Processes /\ procs'[p] # None /\ procs'[p].alive /\ procs'[p].kind = "server"
        /\ procs'[p].parent = None /\ ~ RunsRecorded(p)'
    BY <1>a DEF Strays, S!Servers, S!Alive, Alters, Procs
  <2>2. /\ There(p) /\ procs[p].id = procs'[p].id /\ procs[p].alive /\ procs[p].kind = "server"
        /\ procs[p].parent = None
    BY <2>1 DEF Alters, Later
  <2>3. ~ RunsRecorded(p)
    BY <2>1, <2>2, <1>0 DEF RunsRecorded
  <2> QED
    BY <2>1, <2>2, <2>3, StrayFact
<1> QED
  BY <1>1, <1>4, <1>5

(* Whoever holds the lock goes on. *)
LEMMA HolderGoesOn ==
  ASSUME ServiceInv, Alters, NEW c \in Threads, lock = c, NEW w \in Works, ops' = [ops EXCEPT ![c] = w],
         w.pc # "idle", PlaceOK(c, w), PortAlters(w), S!NoStrangerIsKilled',
         ops[c].pc \in Starting => w.pc \in Starting /\ w.pid = ops[c].pid
  PROVE  ServiceInv'
<1>1. ServiceTyped /\ IdsOK /\ LockOK /\ ParentsOK /\ StraysOK
  BY DEF ServiceInv
<1>2. PlaceOK(c, w)'
  BY <1>1, AltersPlace
<1>3. IdsOK' /\ Strays' \subseteq Strays
  BY AltersKeeps
<1>4. lock' = c /\ c # None /\ ops'[c] = w /\ \A i \in Threads : i # c => ops'[i] = ops[i]
  BY <1>1, ServiceNone DEF Alters, ServiceTyped
<1>5. ServiceTyped'
  <2>1. ops' \in [Threads -> Works] /\ born' \in Nat /\ crashes' \in Nat
    BY <1>1 DEF ServiceTyped, Alters
  <2> QED
    BY <1>1, <2>1 DEF ServiceTyped, Alters
<1>6. StraysOK'
  <2>1. crashes' \in Nat /\ crashes \in Nat /\ crashes' >= crashes
    BY <1>1 DEF ServiceTyped, Alters
  <2> QED
    BY <1>1, <1>3, <2>1, StraysStay
<1>7. LockOK'
  BY <1>1, <1>4 DEF LockOK
<1>8. HolderOK'
  BY <1>2, <1>4 DEF HolderOK
<1>9. ParentsOK'
  <2> SUFFICES ASSUME NEW p \in Processes, procs'[p] # None, procs'[p].parent # None
               PROVE  c = procs'[p].parent /\ w.pc \in Starting /\ w.pid = p
    BY <1>4 DEF ParentsOK, There
  <2>1. There(p) /\ procs[p].parent = procs'[p].parent
    BY AltersKeeps
  <2> QED
    BY <1>1, <2>1 DEF ParentsOK
<1> QED
  BY <1>3, <1>5, <1>6, <1>7, <1>8, <1>9 DEF ServiceInv

(* Others do, who change no record and no lock. *)
LEMMA OthersGoOn ==
  ASSUME ServiceInv, Alters, ops' = ops, signalled' = signalled, lock # None => PortAlters(ops[lock])
  PROVE  ServiceInv'
<1>1. ServiceTyped /\ IdsOK /\ LockOK /\ HolderOK /\ ParentsOK /\ StraysOK /\ lock' = lock
  BY DEF ServiceInv, Alters
<1>2. IdsOK' /\ Strays' \subseteq Strays
  BY AltersKeeps
<1>3. ServiceTyped'
  <2>1. born' \in Nat /\ crashes' \in Nat
    BY <1>1 DEF ServiceTyped, Alters
  <2> QED
    BY <1>1, <2>1 DEF ServiceTyped, Alters
<1>4. StraysOK'
  <2>1. crashes' \in Nat /\ crashes \in Nat /\ crashes' >= crashes
    BY <1>1 DEF ServiceTyped, Alters
  <2> QED
    BY <1>1, <1>2, <2>1, StraysStay
<1>5. LockOK'
  BY <1>1 DEF LockOK
<1>6. HolderOK'
  <2> SUFFICES ASSUME lock # None PROVE PlaceOK(lock, ops[lock])'
    BY <1>1 DEF HolderOK
  <2>1. lock \in Threads /\ ops[lock] \in Works /\ PlaceOK(lock, ops[lock])
    BY <1>1 DEF HolderOK, ServiceTyped
  <2>2. PICK c \in Threads : c = lock
    BY <2>1
  <2>3. PICK w \in Works : w = ops[lock]
    BY <2>1
  <2>4. PlaceOK(c, w)'
    BY <1>1, <2>1, <2>2, <2>3, AltersPlace
  <2>5. lock' = c /\ ops'[lock'] = w
    BY <1>1, <2>2, <2>3
  <2> QED
    BY <2>4, <2>5
<1>7. ParentsOK'
  <2> SUFFICES ASSUME NEW p \in Processes, procs'[p] # None, procs'[p].parent # None
               PROVE  lock = procs'[p].parent /\ ops[lock].pc \in Starting /\ ops[lock].pid = p
    BY <1>1 DEF ParentsOK, There
  <2>1. There(p) /\ procs[p].parent = procs'[p].parent
    BY AltersKeeps
  <2> QED
    BY <1>1, <2>1 DEF ParentsOK
<1>8. S!NoStrangerIsKilled'
  BY DEF ServiceInv, S!NoStrangerIsKilled
<1> QED
  BY <1>2, <1>3, <1>4, <1>5, <1>6, <1>7, <1>8 DEF ServiceInv

(* The record is written or removed by the holder of the lock. *)
LEMMA HolderMarks ==
  ASSUME ServiceInv, NEW c \in Threads, lock = c, NEW w \in Works, ops' = [ops EXCEPT ![c] = w],
         w.pc # "idle", PlaceOK(c, w)', UNCHANGED <<procs, port, lock, born, crashes, signalled>>,
         record' \in Records \cup {None}, record' # None => record'.started \in 1 .. born,
         Strays' \subseteq Strays, ops[c].pc \in Starting => w.pc \in Starting /\ w.pid = ops[c].pid
  PROVE  ServiceInv'
<1>1. ServiceTyped /\ IdsOK /\ LockOK /\ ParentsOK /\ StraysOK
  BY DEF ServiceInv
<1>2. lock' = c /\ c # None /\ ops'[c] = w /\ \A i \in Threads : i # c => ops'[i] = ops[i]
  BY <1>1, ServiceNone DEF ServiceTyped
<1>3. ServiceTyped'
  BY <1>1 DEF ServiceTyped
<1>4. IdsOK'
  BY <1>1 DEF IdsOK, There
<1>5. StraysOK'
  <2>1. crashes' \in Nat /\ crashes \in Nat /\ crashes' >= crashes
    BY <1>1 DEF ServiceTyped
  <2> QED
    BY <1>1, <2>1, StraysStay
<1>6. LockOK' /\ HolderOK'
  BY <1>1, <1>2 DEF LockOK, HolderOK
<1>7. ParentsOK'
  <2> SUFFICES ASSUME NEW p \in Processes, There(p), procs[p].parent # None
               PROVE  c = procs[p].parent /\ w.pc \in Starting /\ w.pid = p
    BY <1>2 DEF ParentsOK, There
  <2> QED
    BY <1>1 DEF ParentsOK
<1>8. S!NoStrangerIsKilled'
  BY DEF ServiceInv, S!NoStrangerIsKilled
<1> QED
  BY <1>3, <1>4, <1>5, <1>6, <1>7, <1>8 DEF ServiceInv

(* A command ends: its children lose their parent, and those that nobody   *)
(* waited for are gone.                                                    *)
Freed(p) ==
    \/ procs'[p] = None
    \/ There(p) /\ procs[p].alive /\ procs'[p] = [procs[p] EXCEPT !.parent = None]
LEMMA HolderEnds ==
  ASSUME ServiceInv, NEW c \in Threads, lock = c, NEW w \in Works, ops' = [ops EXCEPT ![c] = w],
         w.pc = "idle", lock' = None, born' = born, signalled' = signalled, crashes' \in Nat,
         port' \in Ports \cup {None}, record' \in {record, None}, StraysOK',
         procs' \in [Processes -> Procs \cup {None}], \A p \in Processes : Freed(p)
  PROVE  ServiceInv'
<1>1. ServiceTyped /\ IdsOK /\ LockOK
  BY DEF ServiceInv
<1>2. \A p \in Processes : procs'[p] # None => /\ There(p) /\ procs[p].alive /\ procs'[p].alive
                                               /\ procs'[p].id = procs[p].id /\ procs'[p].parent = None
  BY <1>1 DEF Freed, ServiceTyped, There, Procs
<1>3. ServiceTyped'
  BY <1>1 DEF ServiceTyped
<1>4. IdsOK'
  <2>1. record' # None => record'.started \in 1 .. born
    BY <1>1 DEF IdsOK
  <2> QED
    BY <1>1, <1>2, <2>1 DEF IdsOK, There
<1>5. LockOK'
  <2>1. \A i \in Threads : ops'[i].pc = "idle"
    BY <1>1, ServiceNone DEF LockOK, ServiceTyped
  <2> QED
    BY <2>1, ServiceNone DEF LockOK
<1>6. HolderOK' /\ ParentsOK'
  BY <1>2 DEF HolderOK, ParentsOK, There
<1>7. S!NoStrangerIsKilled'
  BY DEF ServiceInv, S!NoStrangerIsKilled
<1> QED
  BY <1>3, <1>4, <1>5, <1>6, <1>7 DEF ServiceInv

LEMMA OrphanedFrees ==
  ASSUME ServiceInv, NEW c \in Threads, lock = c, procs' = S!Orphaned(c)
  PROVE  /\ procs' \in [Processes -> Procs \cup {None}] /\ \A p \in Processes : Freed(p)
         /\ \A p \in Processes : There(p) /\ procs[p].alive => procs'[p] # None
<1>1. ServiceTyped /\ IdsOK /\ ParentsOK /\ c # None
  BY ServiceNone DEF ServiceInv
<1>2. ASSUME NEW p \in Processes
      PROVE  procs'[p] \in Procs \cup {None} /\ Freed(p) /\ (There(p) /\ procs[p].alive => procs'[p] # None)
  <2>1. procs'[p] = IF procs[p] = None THEN None
                    ELSE IF procs[p].parent # c THEN procs[p]
                    ELSE IF procs[p].alive THEN [procs[p] EXCEPT !.parent = None] ELSE None
    BY DEF S!Orphaned
  <2>2. CASE procs[p] = None
    BY <2>1, <2>2 DEF Freed, There
  <2>3. CASE procs[p] # None /\ procs[p].parent # c
    <3>1. procs[p].parent = None
      BY <1>1, <2>3 DEF ParentsOK, There
    <3>2. procs[p] \in Procs
      BY <1>1, <2>3 DEF ServiceTyped
    <3>3. [procs[p] EXCEPT !.parent = None] = procs[p]
      BY <3>1, <3>2 DEF Procs
    <3>4. procs[p].alive
      BY <1>1, <2>3, <3>1 DEF IdsOK, There
    <3> QED
      BY <2>1, <2>3, <3>2, <3>3, <3>4, ServiceNone DEF Freed, There
  <2>4. CASE procs[p] # None /\ procs[p].parent = c
    <3>2. procs[p] \in Procs
      BY <1>1, <2>4 DEF ServiceTyped
    <3>3. [procs[p] EXCEPT !.parent = None] \in Procs
      BY <3>2 DEF Procs
    <3> QED
      BY <2>1, <2>4, <3>3, ServiceNone DEF Freed, There
  <2> QED
    BY <2>2, <2>3, <2>4
<1>3. procs' = [p \in Processes |-> procs'[p]]
  BY DEF S!Orphaned
<1> QED
  BY <1>2, <1>3

LEMMA StateFact ==
  ASSUME ServiceTyped, NEW p \in Processes \cup {None}
  PROVE  /\ S!State(p) \in {"stopped", "running", "unknown"}
         /\ S!State(p) = "running" <=> p # None /\ There(p) /\ procs[p].alive /\ procs[p].kind # "foreign"
         /\ S!State(p) = "stopped" <=> ~ (p # None /\ There(p) /\ procs[p].alive)
BY DEF S!State, There, ServiceTyped, Procs

(* No server is recorded if the process that the record names has ended. *)
LEMMA EndedUnserved ==
  ASSUME ServiceTyped, NEW p \in Processes \cup {None}, p = IF record = None THEN None ELSE record.pid,
         S!State(p) # "running"
  PROVE  Unserved
<1> SUFFICES ASSUME NEW i \in S!Servers, RunsRecorded(i) PROVE FALSE
  BY DEF Unserved
<1>1. i \in Processes /\ There(i) /\ procs[i].alive /\ procs[i].kind = "server"
  BY ServersFact
<1>2. p = i
  BY DEF RunsRecorded
<1>3. i # None
  BY <1>1, ServiceNone
<1> QED
  BY <1>1, <1>2, <1>3, StateFact

At(c, pc, w) ==
    /\ w = [ops[c] EXCEPT !.pc = pc] /\ [ops EXCEPT ![c].pc = pc] = [ops EXCEPT ![c] = w]
    /\ w.pc = pc /\ w.pid = ops[c].pid /\ w.recorded = ops[c].recorded /\ w.checked = ops[c].checked
LEMMA WorkAt ==
  ASSUME ServiceTyped, NEW c \in Threads, NEW pc \in Places
  PROVE  \E w \in Works : At(c, pc, w)
<1>1. ops[c] \in Works /\ [ops[c] EXCEPT !.pc = pc] \in Works
  BY DEF ServiceTyped, Works
<1>2. [ops EXCEPT ![c].pc = pc] = [ops EXCEPT ![c] = [ops[c] EXCEPT !.pc = pc]]
  BY DEF ServiceTyped
<1> QED
  BY <1>1, <1>2 DEF Works, At

LEMMA StaysPut ==
  ASSUME ServiceInv, UNCHANGED <<procs, port, record, born, crashes, lock>>
  PROVE  Alters
BY DEF Alters, Later, There, ServiceInv, ServiceTyped, IdsOK

LEMMA GoesOnTo ==
  ASSUME ServiceInv, NEW c \in Threads, ops[c].pc # "idle", NEW w \in Works, ops' = [ops EXCEPT ![c] = w],
         w.pc # "idle", PlaceOK(c, w), UNCHANGED <<procs, port, record, born, crashes, lock>>,
         S!NoStrangerIsKilled', ops[c].pc \in Starting => w.pc \in Starting /\ w.pid = ops[c].pid
  PROVE  ServiceInv'
<1>1. Alters /\ lock = c
  BY StaysPut, HolderKnows
<1>2. PortAlters(w)
  BY DEF PlaceOK, PortAlters, Served
<1> QED
  BY <1>1, <1>2, HolderGoesOn

LEMMA NobodyToldMore ==
  ASSUME ServiceInv, signalled' = signalled
  PROVE  S!NoStrangerIsKilled'
BY DEF ServiceInv, S!NoStrangerIsKilled

(* ------------------------------- how commands end ---------------------- *)
LEMMA EndsAs ==
  ASSUME ServiceInv, NEW c \in Threads, ops[c].pc # "idle", NEW report \in Reports, S!Ends(c, report),
         UNCHANGED <<port, born, signalled>>, record' \in {record, None}, crashes' \in Nat, StraysOK'
  PROVE  ServiceInv'
<1>1. ServiceTyped /\ lock = c /\ ops[c] \in Works
  BY HolderKnows DEF ServiceInv
<1> DEFINE w == [S!Idle EXCEPT !.pid = ops[c].pid, !.recorded = ops[c].recorded, !.report = report]
<1>2. w \in Works /\ w.pc = "idle"
  BY <1>1 DEF Works, Places, S!Idle
<1>3. ops' = [ops EXCEPT ![c] = w] /\ lock' = None /\ procs' = S!Orphaned(c)
  BY <1>1 DEF S!Ends
<1>4. procs' \in [Processes -> Procs \cup {None}] /\ \A p \in Processes : Freed(p)
  BY <1>1, <1>3, OrphanedFrees
<1>5. port' \in Ports \cup {None}
  BY <1>1 DEF ServiceTyped
<1> HIDE DEF w
<1> QED
  BY <1>1, <1>2, <1>3, <1>4, <1>5, HolderEnds

LEMMA EndsLeaves ==
  ASSUME ServiceInv, NEW c \in Threads, ops[c].pc # "idle", NEW report, S!Ends(c, report), NEW p \in Strays'
  PROVE  /\ p \in S!Servers /\ ~ RunsRecorded(p)' /\ procs'[p].id = procs[p].id
         /\ procs[p].parent # None => ops[c].pc \in Starting /\ ops[c].pid = p
<1>1. ServiceTyped /\ lock = c /\ ParentsOK
  BY HolderKnows DEF ServiceInv
<1>2. procs' \in [Processes -> Procs \cup {None}] /\ \A i \in Processes : Freed(i)
  BY <1>1, OrphanedFrees DEF S!Ends
<1>3. /\ p \in Processes /\ procs'[p] # None /\ procs'[p].alive /\ procs'[p].kind = "server"
      /\ ~ RunsRecorded(p)'
  BY <1>2 DEF Strays, S!Servers, S!Alive, Procs
<1>4. /\ There(p) /\ procs[p].alive /\ procs'[p] = [procs[p] EXCEPT !.parent = None] /\ procs[p] \in Procs
  BY <1>1, <1>2, <1>3 DEF Freed, There, ServiceTyped
<1>5. procs'[p].id = procs[p].id /\ procs'[p].kind = procs[p].kind
  BY <1>4 DEF Procs
<1>6. ASSUME procs[p].parent # None PROVE ops[c].pc \in Starting /\ ops[c].pid = p
  <2>1. lock = procs[p].parent /\ ops[lock].pc \in Starting /\ ops[lock].pid = p
    BY <1>1, <1>3, <1>4, <1>6 DEF ParentsOK
  <2> QED
    BY <2>1, <1>1
<1> QED
  BY <1>1, <1>3, <1>4, <1>5, <1>6, ServersFact

LEMMA EndsWith ==
  ASSUME ServiceInv, NEW c \in Threads, ops[c].pc # "idle", NEW report \in Reports, S!Ends(c, report),
         UNCHANGED <<port, born, signalled, crashes>>, record' \in {record, None}, Strays' \subseteq Strays
  PROVE  ServiceInv'
<1>1. crashes \in Nat /\ StraysOK
  BY DEF ServiceInv, ServiceTyped
<1>2. crashes' \in Nat /\ crashes' >= crashes
  BY <1>1
<1>3. StraysOK'
  BY <1>1, <1>2, StraysStay
<1> QED
  BY <1>2, <1>3, EndsAs

(* Without a child, and without a change of what is recorded as running.   *)
LEMMA EndsQuiet ==
  ASSUME ServiceInv, NEW c \in Threads, ops[c].pc \notin Starting \cup {"idle"}, NEW report \in Reports,
         S!Ends(c, report), UNCHANGED <<port, born, signalled, crashes>>,
         record' # record => record' = None /\ Unserved
  PROVE  ServiceInv'
<1>1. ServiceTyped
  BY DEF ServiceInv
<1>2. ASSUME NEW p \in Strays' PROVE p \in Strays
  <2>1. p \in S!Servers /\ ~ RunsRecorded(p)' /\ procs'[p].id = procs[p].id /\ procs[p].parent = None
    BY EndsLeaves
  <2>2. ~ RunsRecorded(p)
    <3>1. CASE record' = record
      BY <3>1, <2>1 DEF RunsRecorded
    <3>2. CASE Unserved
      BY <3>2, <2>1 DEF Unserved
    <3> QED
      BY <3>1, <3>2
  <2> QED
    BY <2>1, <2>2 DEF Strays
<1> QED
  BY <1>2, EndsWith

(* The child has died. *)
LEMMA EndsDead ==
  ASSUME ServiceInv, NEW c \in Threads, ops[c].pc \in {"await", "give up"}, ~ procs[ops[c].pid].alive,
         NEW report \in Reports, S!Ends(c, report), UNCHANGED <<port, born, signalled, crashes>>, record' = None
  PROVE  ServiceInv'
<1>1. ServiceTyped /\ PlaceOK(c, ops[c]) /\ ops[c].pc \in Starting
  BY HolderKnows DEF ServiceInv, Starting
<1>2. ASSUME NEW p \in Strays' PROVE p \in Strays
  <2>1. /\ p \in S!Servers /\ ~ RunsRecorded(p)' /\ procs'[p].id = procs[p].id
        /\ procs[p].parent # None => ops[c].pc \in Starting /\ ops[c].pid = p
    BY EndsLeaves
  <2>2. procs[p].alive
    BY <1>1, <2>1, ServersFact
  <2>3. ops[c].pid # p
    BY <2>2
  <2>4. ~ RunsRecorded(p)
    <3>1. record \in {None, Row(ops[c])}
      BY <1>1 DEF PlaceOK
    <3>2. Row(ops[c]).pid = ops[c].pid
      BY DEF Row
    <3>3. record # None => record.pid = ops[c].pid
      BY <3>1, <3>2
    <3> QED
      BY <2>3, <3>3 DEF RunsRecorded
  <2> QED
    BY <2>1, <2>3, <2>4 DEF Strays
<1>3. ops[c].pc # "idle"
  OBVIOUS
<1> QED
  BY <1>2, <1>3, EndsWith

(* ------------------------------- the actions --------------------------- *)
LEMMA AcquireKeeps ==
  ASSUME ServiceInv, NEW c \in Threads, S!Acquire(c)
  PROVE  ServiceInv'
<1>1. /\ ServiceTyped /\ IdsOK /\ LockOK /\ ParentsOK /\ StraysOK
      /\ lock = None /\ lock' = c /\ c # None
      /\ UNCHANGED <<procs, port, record, born, crashes, signalled>>
  BY ServiceNone DEF ServiceInv, S!Acquire, S!Free
<1>2. PICK mode \in {"start", "stop", "restart"} :
        ops' = [ops EXCEPT ![c] = [S!Idle EXCEPT !.pc = "inspect", !.mode = mode,
                                                 !.pid = IF record = None THEN None ELSE record.pid]]
  BY DEF S!Acquire
<1>3. PICK pid \in Processes \cup {None} : pid = IF record = None THEN None ELSE record.pid
  BY <1>1 DEF ServiceTyped, Records
<1>a. [S!Idle EXCEPT !.pc = "inspect", !.mode = mode, !.pid = pid] \in Works
  BY DEF Works, Places, Reports, S!Idle
<1>4. PICK w \in Works : /\ w = [S!Idle EXCEPT !.pc = "inspect", !.mode = mode, !.pid = pid]
                        /\ w.pc = "inspect" /\ w.pid = pid
  BY <1>a DEF Works, S!Idle
<1>5. ops'[c] = w /\ ops' \in [Threads -> Works] /\ \A i \in Threads : i # c => ops'[i] = ops[i]
  BY <1>1, <1>2, <1>3, <1>4 DEF ServiceTyped
<1>6. PlaceOK(c, w)'
  BY <1>1, <1>3, <1>4 DEF PlaceOK, Starting, Ending
<1>7. ServiceTyped' /\ IdsOK' /\ HolderOK'
  BY <1>1, <1>5, <1>6 DEF ServiceTyped, IdsOK, There, HolderOK
<1>8. LockOK'
  BY <1>1, <1>4, <1>5, ServiceNone DEF LockOK
<1>9. ParentsOK'
  <2>1. \A p \in Processes : There(p) => procs[p].parent = None
    BY <1>1 DEF ParentsOK, ServiceTyped, There, Procs
  <2> QED
    BY <1>1, <2>1 DEF ParentsOK, There
<1>10. StraysOK'
  <2>1. Strays' \subseteq Strays
    BY <1>1 DEF Strays, S!Servers, S!Alive, RunsRecorded
  <2>2. crashes' \in Nat /\ crashes \in Nat /\ crashes' >= crashes
    BY <1>1 DEF ServiceTyped
  <2> QED
    BY <1>1, <2>1, <2>2, StraysStay
<1> QED
  BY <1>1, <1>7, <1>8, <1>9, <1>10, NobodyToldMore DEF ServiceInv

(* What is recorded as running has ended: its record is removed, or it is  *)
(* identified, or nothing is known of it.                                  *)
LEMMA InspectForStartKeeps ==
  ASSUME ServiceInv, NEW c \in Threads, S!InspectForStart(c)
  PROVE  ServiceInv'
<1>1. /\ ServiceTyped /\ ops[c].pc = "inspect" /\ lock = c /\ c # None /\ ops[c] \in Works /\ PlaceOK(c, ops[c])
      /\ UNCHANGED <<port, born, crashes, signalled>>
  BY HolderKnows DEF ServiceInv, S!InspectForStart
<1>2. ops[c].pid \in Processes \cup {None} /\ ops[c].pid = IF record = None THEN None ELSE record.pid
  BY <1>1 DEF PlaceOK, Works
<1>3. ops[c].pc \notin Starting /\ "refused" \in Reports
  BY <1>1 DEF Starting, Reports
<1>4. CASE S!State(ops[c].pid) = "unknown"
  <2>1. S!Ends(c, "refused") /\ record' = record
    BY <1>4 DEF S!InspectForStart
  <2> QED
    BY <1>1, <1>3, <2>1, EndsQuiet
<1>5. CASE S!State(ops[c].pid) = "running"
  <2>1. S!GoesOn(c, "identify") /\ record' = record
    BY <1>5 DEF S!InspectForStart
  <2>a. "identify" \in Places
    BY DEF Places
  <2>2. PICK w \in Works : At(c, "identify", w)
    BY <1>1, <2>a, WorkAt
  <2>3. ops' = [ops EXCEPT ![c] = w] /\ UNCHANGED <<procs, lock>>
    BY <2>1, <2>2 DEF S!GoesOn, At
  <2>4. PlaceOK(c, w)
    BY <1>1, <1>2, <2>2 DEF At, PlaceOK, Starting, Ending
  <2>5. S!NoStrangerIsKilled'
    BY <1>1, NobodyToldMore
  <2> QED
    BY <1>1, <1>3, <2>1, <2>2, <2>3, <2>4, <2>5, GoesOnTo DEF At
<1>6. CASE S!State(ops[c].pid) = "stopped"
  <2>1. S!GoesOn(c, "probe") /\ record' = None
    BY <1>6 DEF S!InspectForStart
  <2>a. "probe" \in Places
    BY DEF Places
  <2>2. PICK w \in Works : At(c, "probe", w)
    BY <1>1, <2>a, WorkAt
  <2>3. ops' = [ops EXCEPT ![c] = w] /\ UNCHANGED <<procs, lock>>
    BY <2>1, <2>2 DEF S!GoesOn, At
  <2>4. PlaceOK(c, w)'
    BY <2>1, <2>2 DEF At, PlaceOK, Starting, Ending
  <2>5. Unserved
    BY <1>1, <1>2, <1>6, EndedUnserved
  <2>6. Strays' \subseteq Strays
    BY <2>3, <2>5 DEF Strays, S!Servers, S!Alive, Unserved
  <2> QED
    BY <1>1, <1>3, <2>1, <2>2, <2>3, <2>4, <2>6, HolderMarks DEF At
<1>7. S!State(ops[c].pid) \in {"stopped", "running", "unknown"}
  BY <1>1, <1>2, StateFact
<1> QED
  BY <1>4, <1>5, <1>6, <1>7

LEMMA IdentifyForStartKeeps ==
  ASSUME ServiceInv, NEW c \in Threads, S!IdentifyForStart(c)
  PROVE  ServiceInv'
<1>1. ops[c].pc = "identify" /\ UNCHANGED <<port, record, born, crashes, signalled>>
  BY DEF S!IdentifyForStart
<1>2. PICK report \in {"already running", "refused"} : S!Ends(c, report)
  BY DEF S!IdentifyForStart
<1>3. ops[c].pc \notin Starting \cup {"idle"} /\ report \in Reports
  BY <1>1 DEF Starting, Reports
<1> QED
  BY <1>1, <1>2, <1>3, EndsQuiet

LEMMA ProbeKeeps ==
  ASSUME ServiceInv, NEW c \in Threads, S!Probe(c)
  PROVE  ServiceInv'
<1>1. /\ ServiceTyped /\ ops[c].pc = "probe" /\ PlaceOK(c, ops[c])
      /\ UNCHANGED <<port, record, born, crashes, signalled>>
  BY HolderKnows DEF ServiceInv, S!Probe
<1>2. ops[c].pc \notin Starting \cup {"idle"} /\ "refused" \in Reports
  BY <1>1 DEF Starting, Reports
<1>3. CASE port = None
  <2>1. S!GoesOn(c, "spawn")
    BY <1>3 DEF S!Probe, S!Available
  <2>a. "spawn" \in Places
    BY DEF Places
  <2>2. PICK w \in Works : At(c, "spawn", w)
    BY <1>1, <2>a, WorkAt
  <2>3. ops' = [ops EXCEPT ![c] = w] /\ UNCHANGED <<procs, lock>>
    BY <2>1, <2>2 DEF S!GoesOn, At
  <2>4. PlaceOK(c, w)
    BY <1>1, <1>3, <2>2 DEF At, PlaceOK, Served, Starting, Ending
  <2>5. S!NoStrangerIsKilled'
    BY <1>1, NobodyToldMore
  <2> QED
    BY <1>1, <1>2, <2>2, <2>3, <2>4, <2>5, GoesOnTo DEF At
<1>4. CASE port # None
  <2>1. S!Ends(c, "refused")
    BY <1>4 DEF S!Probe, S!Available
  <2> QED
    BY <1>1, <1>2, <2>1, EndsQuiet
<1> QED
  BY <1>3, <1>4

LEMMA SpawnKeeps ==
  ASSUME ServiceInv, NEW c \in Threads, S!Spawn(c)
  PROVE  ServiceInv'
<1>1. /\ ServiceTyped /\ IdsOK /\ LockOK /\ StraysOK /\ ops[c].pc = "spawn" /\ lock = c /\ c # None
      /\ ops[c] \in Works /\ PlaceOK(c, ops[c]) /\ UNCHANGED <<port, crashes, signalled>>
  BY HolderKnows DEF ServiceInv, S!Spawn
<1>2. ops[c].pc \notin Starting \cup {"idle"} /\ "failed" \in Reports
  BY <1>1 DEF Starting, Reports
<1>3. record = None
  BY <1>1 DEF PlaceOK
<1>4. CASE S!Ends(c, "failed") /\ record' = None /\ born' = born
  <2>1. record' = record
    BY <1>3, <1>4
  <2> QED
    BY <1>1, <1>2, <1>4, <2>1, EndsQuiet
<1>5. ASSUME born' = born + 1, NEW pid \in Processes, procs[pid] = None,
             procs' = [procs EXCEPT ![pid] = [id |-> born + 1, kind |-> "server", alive |-> TRUE,
                                              listens |-> FALSE, parent |-> c]],
             ops' = [ops EXCEPT ![c].pc = "record", ![c].pid = pid, ![c].recorded = born + 1],
             UNCHANGED <<record, lock>>
      PROVE  ServiceInv'
  <2>1. born \in Nat /\ born + 1 \in Nat /\ \A p \in Processes : There(p) => procs[p].parent = None
    BY <1>1, <1>2, NoChildren DEF ServiceTyped
  <2>2. [ops[c] EXCEPT !.pc = "record", !.pid = pid, !.recorded = born + 1] \in Works
    BY <1>1, <2>1 DEF Works, Places
  <2>3. PICK w \in Works : w = [ops[c] EXCEPT !.pc = "record", !.pid = pid, !.recorded = born + 1]
    BY <2>2
  <2>4. w.pc = "record" /\ w.pid = pid /\ w.recorded = born + 1
    BY <1>1, <2>3 DEF Works
  <2>5. ops'[c] = w /\ ops' \in [Threads -> Works] /\ \A i \in Threads : i # c => ops'[i] = ops[i]
    BY <1>1, <1>5, <2>3 DEF ServiceTyped
  <2>6. PICK q \in Procs : q = [id |-> born + 1, kind |-> "server", alive |-> TRUE, listens |-> FALSE, parent |-> c]
    BY <2>1 DEF Procs
  <2>7. /\ procs'[pid] = q /\ procs' \in [Processes -> Procs \cup {None}] /\ q # None
        /\ \A i \in Processes : i # pid => procs'[i] = procs[i]
    BY <1>1, <1>5, <2>6, ServiceNone DEF ServiceTyped
  <2>8. q.id = born + 1 /\ q.kind = "server" /\ q.alive /\ q.parent = c
    BY <2>6
  <2>9. ServiceTyped'
    BY <1>1, <1>5, <2>1, <2>5, <2>7 DEF ServiceTyped
  <2>10. IdsOK'
    <3>1. \A p \in Processes : There(p) => procs[p].id \in 1 .. born /\ (procs[p].alive \/ procs[p].parent # None)
      BY <1>1 DEF IdsOK
    <3>2. \A p \in Processes : There(p)' => /\ procs'[p].id \in 1 .. born + 1
                                            /\ procs'[p].alive \/ procs'[p].parent # None
      BY <2>1, <2>7, <2>8, <3>1 DEF There
    <3>3. ASSUME NEW p \in Processes, NEW i \in Processes, There(p)', There(i)', procs'[p].id = procs'[i].id
          PROVE  p = i
      <4>1. CASE p = pid /\ i # pid
        BY <2>1, <2>7, <2>8, <3>1, <3>3, <4>1 DEF There
      <4>2. CASE i = pid /\ p # pid
        BY <2>1, <2>7, <2>8, <3>1, <3>3, <4>2 DEF There
      <4>3. CASE p # pid /\ i # pid
        BY <1>1, <2>7, <3>3, <4>3 DEF IdsOK, There
      <4> QED
        BY <4>1, <4>2, <4>3
    <3> QED
      BY <1>3, <1>5, <3>2, <3>3 DEF IdsOK
  <2>11. LockOK'
    BY <1>1, <1>5, <2>4, <2>5 DEF LockOK
  <2>12. Child(c, w)'
    BY <2>4, <2>7, <2>8 DEF Child, There
  <2>13. crashes' = 0 => ~ Served'
    BY <1>1 DEF PlaceOK, Served
  <2>14. PlaceOK(c, w)'
    BY <1>3, <1>5, <2>4, <2>12, <2>13 DEF PlaceOK, Ending
  <2>15. HolderOK'
    BY <1>1, <1>5, <2>5, <2>14 DEF HolderOK
  <2>16. ParentsOK'
    BY <1>1, <1>5, <2>1, <2>4, <2>5, <2>7, <2>8 DEF ParentsOK, There, Starting
  <2>17. ASSUME NEW p \in Strays' PROVE p \in Strays
    <3>1. /\ p \in Processes /\ There(p)' /\ procs'[p].alive /\ procs'[p].kind = "server"
          /\ procs'[p].parent = None /\ ~ RunsRecorded(p)'
      BY <2>9, StrayLater
    <3>2. p # pid
      BY <1>1, <2>7, <2>8, <3>1
    <3> QED
      BY <1>1, <1>5, <2>7, <3>1, <3>2, StrayFact DEF There, RunsRecorded
  <2>18. StraysOK'
    <3>1. crashes' \in Nat /\ crashes \in Nat /\ crashes' >= crashes
      BY <1>1 DEF ServiceTyped
    <3> QED
      BY <1>1, <2>17, <3>1, StraysStay
  <2>19. S!NoStrangerIsKilled'
    BY <1>1, NobodyToldMore
  <2> QED
    BY <2>9, <2>10, <2>11, <2>15, <2>16, <2>18, <2>19 DEF ServiceInv
<1> QED
  BY <1>4, <1>5 DEF S!Spawn

LEMMA RecordKeeps ==
  ASSUME ServiceInv, NEW c \in Threads, S!Record(c)
  PROVE  ServiceInv'
<1>1. /\ ServiceTyped /\ IdsOK /\ ops[c].pc = "record" /\ lock = c
      /\ ops[c] \in Works /\ PlaceOK(c, ops[c]) /\ UNCHANGED <<port, born, crashes, signalled>>
  BY HolderKnows DEF ServiceInv, S!Record
<1>2. record = None /\ Child(c, ops[c]) /\ ops[c].pc # "idle"
  BY <1>1 DEF PlaceOK, Starting
<1>3. crashes = 0 /\ Served => port.id = ops[c].recorded
  BY <1>1 DEF PlaceOK, Starting
<1>4. CASE record' = [pid |-> ops[c].pid, started |-> procs[ops[c].pid].id] /\ S!GoesOn(c, "await")
  <2>a. "await" \in Places
    BY DEF Places
  <2>1. PICK w \in Works : At(c, "await", w)
    BY <1>1, <2>a, WorkAt
  <2>2. ops' = [ops EXCEPT ![c] = w] /\ UNCHANGED <<procs, lock>> /\ w.pc = "await"
    BY <1>4, <2>1 DEF S!GoesOn, At
  <2>3. w.pid = ops[c].pid /\ w.recorded = ops[c].recorded
    BY <2>1 DEF At
  <2>4. record' = Row(w)
    BY <1>2, <1>4, <2>3 DEF Row, Child
  <2>5. record' \in Records /\ record'.started \in 1 .. born
    BY <1>1, <1>2, <1>4 DEF Records, Child, IdsOK, ServiceTyped
  <2>6. Child(c, w)'
    BY <1>2, <2>2, <2>3 DEF Child, There
  <2>7. PlaceOK(c, w)'
    BY <1>1, <1>3, <2>2, <2>3, <2>4, <2>6 DEF PlaceOK, Served, Ending
  <2>8. Strays' \subseteq Strays
    BY <1>2, <2>2 DEF Strays, RunsRecorded, S!Servers, S!Alive
  <2>9. w.pc \in Starting
    BY <2>2 DEF Starting
  <2> QED
    BY <1>1, <1>2, <2>2, <2>3, <2>5, <2>7, <2>8, <2>9, HolderMarks
<1>5. CASE S!GoesOn(c, "give up") /\ record' = record
  <2>a. "give up" \in Places
    BY DEF Places
  <2>1. PICK w \in Works : At(c, "give up", w)
    BY <1>1, <2>a, WorkAt
  <2>2. ops' = [ops EXCEPT ![c] = w] /\ UNCHANGED <<procs, lock>> /\ w.pc = "give up"
    BY <1>5, <2>1 DEF S!GoesOn, At
  <2>3. w.pid = ops[c].pid /\ w.recorded = ops[c].recorded /\ w.pc \in Starting
    BY <2>1, <2>2 DEF At, Starting
  <2>4. PlaceOK(c, w)
    BY <1>2, <1>3, <2>2, <2>3 DEF PlaceOK, Ending, Child
  <2>5. S!NoStrangerIsKilled'
    BY <1>1, NobodyToldMore
  <2> QED
    BY <1>1, <1>2, <1>5, <2>2, <2>3, <2>4, <2>5, GoesOnTo
<1> QED
  BY <1>4, <1>5 DEF S!Record

(* Whoever answers on the port, the process that was started is recorded.  *)
LEMMA AwaitKeeps ==
  ASSUME ServiceInv, NEW c \in Threads, S!Await(c)
  PROVE  ServiceInv'
<1>1. /\ ServiceTyped /\ ops[c].pc = "await" /\ lock = c
      /\ ops[c] \in Works /\ PlaceOK(c, ops[c]) /\ UNCHANGED <<port, born, crashes, signalled>>
  BY HolderKnows DEF ServiceInv, S!Await
<1>2. record = Row(ops[c]) /\ Child(c, ops[c]) /\ ops[c].pc # "idle"
  BY <1>1 DEF PlaceOK, Starting
<1>3. crashes = 0 /\ Served => port.id = ops[c].recorded
  BY <1>1 DEF PlaceOK, Starting
<1>4. "failed" \in Reports /\ "started" \in Reports
  BY DEF Reports
<1>5. CASE ~ procs[ops[c].pid].alive /\ S!Ends(c, "failed") /\ record' = None
  BY <1>1, <1>4, <1>5, EndsDead
<1>6. CASE S!Ends(c, "started") /\ record' = record
  <2>1. ASSUME NEW p \in Strays' PROVE p \in Strays
    <3>1. /\ p \in S!Servers /\ ~ RunsRecorded(p)' /\ procs'[p].id = procs[p].id
          /\ procs[p].parent # None => ops[c].pc \in Starting /\ ops[c].pid = p
      BY <1>2, <1>6, EndsLeaves
    <3>2. ~ RunsRecorded(p)
      BY <1>6, <3>1 DEF RunsRecorded
    <3>a. /\ Row(ops[c]) \in Records /\ Row(ops[c]).pid = ops[c].pid
          /\ Row(ops[c]).started = procs[ops[c].pid].id
      BY <1>1, <1>2 DEF Row, Records, Works, Child
    <3>3. p # ops[c].pid
      BY <1>2, <3>2, <3>a, ServiceNone DEF RunsRecorded
    <3> QED
      BY <3>1, <3>2, <3>3 DEF Strays
  <2> QED
    BY <1>1, <1>2, <1>4, <1>6, <2>1, EndsWith
<1>7. CASE S!GoesOn(c, "give up") /\ record' = record
  <2>a. "give up" \in Places
    BY DEF Places
  <2>1. PICK w \in Works : At(c, "give up", w)
    BY <1>1, <2>a, WorkAt
  <2>2. ops' = [ops EXCEPT ![c] = w] /\ UNCHANGED <<procs, lock>> /\ w.pc = "give up"
    BY <1>7, <2>1 DEF S!GoesOn, At
  <2>3. w.pid = ops[c].pid /\ w.recorded = ops[c].recorded /\ w.pc \in Starting
    BY <2>1, <2>2 DEF At, Starting
  <2>4. PlaceOK(c, w)
    BY <1>2, <1>3, <2>2, <2>3 DEF PlaceOK, Ending, Child, Row
  <2>5. S!NoStrangerIsKilled'
    BY <1>1, NobodyToldMore
  <2> QED
    BY <1>1, <1>2, <1>7, <2>2, <2>3, <2>4, <2>5, GoesOnTo
<1> QED
  BY <1>5, <1>6, <1>7 DEF S!Await

LEMMA GivenUpKeeps ==
  ASSUME ServiceInv, NEW c \in Threads, S!GivenUp(c)
  PROVE  ServiceInv'
<1>1. /\ ops[c].pc = "give up" /\ ~ procs[ops[c].pid].alive /\ S!Ends(c, "failed") /\ record' = None
      /\ UNCHANGED <<port, born, crashes, signalled>> /\ "failed" \in Reports
  BY DEF S!GivenUp, Reports
<1> QED
  BY <1>1, EndsDead

(* The child is ended and waited for; what it left may listen on.          *)
LEMMA GiveUpKeeps ==
  ASSUME ServiceInv, NEW c \in Threads, S!GiveUp(c)
  PROVE  ServiceInv'
<1>1. /\ ServiceTyped /\ IdsOK /\ ParentsOK /\ StraysOK /\ ops[c].pc = "give up" /\ lock = c /\ c # None
      /\ ops[c] \in Works /\ PlaceOK(c, ops[c]) /\ UNCHANGED <<born, crashes, signalled>>
      /\ procs' = [procs EXCEPT ![ops[c].pid] = None] /\ lock' = None /\ record' = None
  BY HolderKnows DEF ServiceInv, S!GiveUp
<1>2. Child(c, ops[c]) /\ record \in {None, Row(ops[c])}
  BY <1>1 DEF PlaceOK, Starting
<1>3. [S!Idle EXCEPT !.pid = ops[c].pid, !.report = "failed"] \in Works
  BY <1>1 DEF Works, Places, Reports, S!Idle
<1>4. PICK w \in Works : w = [S!Idle EXCEPT !.pid = ops[c].pid, !.report = "failed"]
  BY <1>3
<1>5. ops' = [ops EXCEPT ![c] = w] /\ w.pc = "idle"
  BY <1>4 DEF S!GiveUp, S!Idle
<1>6. port' \in Ports \cup {None}
  BY <1>1 DEF S!GiveUp, S!Left, ServiceTyped
<1>7. /\ procs' \in [Processes -> Procs \cup {None}] /\ procs'[ops[c].pid] = None
      /\ \A p \in Processes : p # ops[c].pid => procs'[p] = procs[p]
  BY <1>1, <1>2 DEF ServiceTyped, Child
<1>8. ASSUME NEW p \in Processes PROVE Freed(p)
  <2>1. CASE p = ops[c].pid \/ procs[p] = None
    BY <1>7, <2>1 DEF Freed
  <2>2. CASE p # ops[c].pid /\ procs[p] # None
    <3>1. procs[p].parent = None /\ procs[p] \in Procs
      BY <1>1, <2>2 DEF ParentsOK, There, ServiceTyped
    <3>2. [procs[p] EXCEPT !.parent = None] = procs[p]
      BY <3>1 DEF Procs
    <3> QED
      BY <1>1, <1>7, <2>2, <3>1, <3>2 DEF Freed, There, IdsOK
  <2> QED
    BY <2>1, <2>2
<1>9. ASSUME NEW p \in Strays' PROVE p \in Strays
  <2>1. p \in Processes /\ procs'[p] # None /\ procs'[p].alive /\ procs'[p].kind = "server" /\ procs'[p].parent = None
    BY <1>7 DEF Strays, S!Servers, S!Alive, Procs
  <2>2. p # ops[c].pid /\ procs'[p] = procs[p]
    BY <1>7, <2>1
  <2>3. Row(ops[c]).pid = ops[c].pid
    BY DEF Row
  <2>4. ~ RunsRecorded(p)
    BY <1>2, <2>2, <2>3 DEF RunsRecorded
  <2> QED
    BY <1>1, <2>1, <2>2, <2>4, StrayFact DEF There
<1>a. crashes \in Nat /\ crashes' = crashes
  BY <1>1 DEF ServiceTyped
<1>10. crashes' \in Nat /\ crashes \in Nat /\ crashes' >= crashes
  BY <1>a
<1>11. StraysOK'
  BY <1>1, <1>9, <1>10, StraysStay
<1> QED
  BY <1>1, <1>5, <1>6, <1>7, <1>8, <1>10, <1>11, HolderEnds

LEMMA InspectForStopKeeps ==
  ASSUME ServiceInv, NEW c \in Threads, S!InspectForStop(c)
  PROVE  ServiceInv'
<1>1. /\ ServiceTyped /\ ops[c].pc = "inspect" /\ lock = c /\ ops[c] \in Works /\ PlaceOK(c, ops[c])
      /\ UNCHANGED <<port, record, born, crashes, signalled>>
  BY HolderKnows DEF ServiceInv, S!InspectForStop
<1>2. ops[c].pid \in Processes \cup {None} /\ ops[c].pid = IF record = None THEN None ELSE record.pid
  BY <1>1 DEF PlaceOK, Works
<1>3. ops[c].pc \notin Starting \cup {"idle"} /\ "refused" \in Reports
  BY <1>1 DEF Starting, Reports
<1>4. CASE S!State(ops[c].pid) = "unknown"
  <2>1. S!Ends(c, "refused")
    BY <1>4 DEF S!InspectForStop
  <2> QED
    BY <1>1, <1>3, <2>1, EndsQuiet
<1>5. ASSUME NEW pc \in {"identify", "gone"}, S!GoesOn(c, pc), pc = "gone" => Unserved
      PROVE  ServiceInv'
  <2>a. pc \in Places
    BY <1>5 DEF Places
  <2>1. PICK w \in Works : At(c, pc, w)
    BY <1>1, <2>a, WorkAt
  <2>2. ops' = [ops EXCEPT ![c] = w] /\ UNCHANGED <<procs, lock>> /\ w.pc = pc /\ w.pid = ops[c].pid
    BY <1>5, <2>1 DEF S!GoesOn, At
  <2>3. PlaceOK(c, w)
    BY <1>2, <1>5, <2>2 DEF PlaceOK, Starting, Ending
  <2>4. S!NoStrangerIsKilled' /\ w.pc # "idle"
    BY <1>1, <2>2, NobodyToldMore
  <2> QED
    BY <1>1, <1>3, <2>2, <2>3, <2>4, GoesOnTo
<1>6. CASE S!State(ops[c].pid) = "running"
  <2>1. S!GoesOn(c, "identify")
    BY <1>6 DEF S!InspectForStop
  <2> QED
    BY <1>5, <2>1
<1>7. CASE S!State(ops[c].pid) = "stopped"
  <2>1. S!GoesOn(c, "gone")
    BY <1>7 DEF S!InspectForStop
  <2>2. Unserved
    BY <1>1, <1>2, <1>7, EndedUnserved
  <2> QED
    BY <1>5, <2>1, <2>2
<1>8. S!State(ops[c].pid) \in {"stopped", "running", "unknown"}
  BY <1>1, <1>2, StateFact
<1> QED
  BY <1>4, <1>6, <1>7, <1>8

(* The record is removed; a restart goes on to start.                      *)
LEMMA StoppedKeeps ==
  ASSUME ServiceInv, NEW c \in Threads, ops[c].pc \in {"gone", "wait"}, Unserved, NEW report \in Reports,
         S!Stopped(c, report), UNCHANGED <<port, born, crashes, signalled>>
  PROVE  ServiceInv'
<1>1. ServiceTyped /\ lock = c /\ ops[c] \in Works /\ record' = None
  BY HolderKnows DEF ServiceInv, S!Stopped
<1>2. ops[c].pc \notin Starting \cup {"idle"}
  BY DEF Starting
<1>3. CASE S!Ends(c, report)
  BY <1>1, <1>2, <1>3, EndsQuiet
<1>4. CASE /\ ops' = [ops EXCEPT ![c].pc = "inspect", ![c].mode = "start", ![c].pid = None, ![c].report = report]
           /\ UNCHANGED <<procs, lock>>
  <2>1. [ops[c] EXCEPT !.pc = "inspect", !.mode = "start", !.pid = None, !.report = report] \in Works
    BY <1>1 DEF Works, Places
  <2>2. PICK w \in Works : w = [ops[c] EXCEPT !.pc = "inspect", !.mode = "start", !.pid = None, !.report = report]
    BY <2>1
  <2>3. w.pc = "inspect" /\ w.pid = None
    BY <1>1, <2>2 DEF Works
  <2>4. ops' = [ops EXCEPT ![c] = w]
    BY <1>1, <1>4, <2>2 DEF ServiceTyped
  <2>5. PlaceOK(c, w)'
    BY <1>1, <2>3 DEF PlaceOK, Starting, Ending
  <2>6. Strays' \subseteq Strays
    BY <1>4 DEF Strays, Unserved, S!Servers, S!Alive
  <2> QED
    BY <1>1, <1>2, <1>4, <2>3, <2>4, <2>5, <2>6, HolderMarks
<1> QED
  BY <1>3, <1>4 DEF S!Stopped

LEMMA GoneKeeps ==
  ASSUME ServiceInv, NEW c \in Threads, S!Gone(c)
  PROVE  ServiceInv'
<1>1. /\ ops[c].pc = "gone" /\ PlaceOK(c, ops[c]) /\ UNCHANGED <<port, born, crashes, signalled>>
  BY HolderKnows DEF S!Gone
<1>2. Unserved /\ ops[c].pc \notin Starting \cup {"idle"} /\ "occupied" \in Reports /\ "not running" \in Reports
  BY <1>1 DEF PlaceOK, Starting, Reports
<1>3. CASE S!Ends(c, "occupied") /\ record' = record
  BY <1>1, <1>2, <1>3, EndsQuiet
<1>4. CASE S!Stopped(c, "not running")
  BY <1>1, <1>2, <1>4, StoppedKeeps
<1> QED
  BY <1>3, <1>4 DEF S!Gone

LEMMA IdentifyForStopKeeps ==
  ASSUME ServiceInv, NEW c \in Threads, S!IdentifyForStop(c)
  PROVE  ServiceInv'
<1>1. /\ ServiceTyped /\ IdsOK /\ ops[c].pc = "identify" /\ lock = c /\ ops[c] \in Works
      /\ UNCHANGED <<port, record, born, crashes, signalled>>
  BY HolderKnows DEF ServiceInv, S!IdentifyForStop
<1>2. ops[c].pc \notin Starting \cup {"idle"} /\ "refused" \in Reports
  BY <1>1 DEF Starting, Reports
<1>3. CASE S!Matches(ops[c].pid)
  <2>1. ops' = [ops EXCEPT ![c].pc = "terminate", ![c].checked = born, ![c].recorded = record.started]
        /\ UNCHANGED <<procs, lock>>
    BY <1>3 DEF S!IdentifyForStop
  <2>2. /\ S!State(ops[c].pid) = "running" /\ record # None /\ record.pid = ops[c].pid
        /\ record.started = procs[ops[c].pid].id
    BY <1>3 DEF S!Matches
  <2>3. /\ ops[c].pid \in Processes /\ There(ops[c].pid) /\ record.started \in Nat /\ born \in Nat
        /\ record.started <= born
    <3>1. ops[c].pid \in Processes /\ There(ops[c].pid)
      BY <1>1, <2>2, StateFact DEF Works
    <3>2. record.started \in Nat /\ born \in Nat /\ record.started \in 1 .. born
      BY <1>1, <2>2 DEF ServiceTyped, Records, IdsOK
    <3> QED
      BY <3>1, <3>2
  <2>4. [ops[c] EXCEPT !.pc = "terminate", !.checked = born, !.recorded = record.started] \in Works
    BY <1>1, <2>3 DEF Works, Places
  <2>5. PICK w \in Works : w = [ops[c] EXCEPT !.pc = "terminate", !.checked = born, !.recorded = record.started]
    BY <2>4
  <2>6. w.pc = "terminate" /\ w.pid = ops[c].pid /\ w.checked = born /\ w.recorded = record.started
    BY <1>1, <2>5 DEF Works
  <2>7. ops' = [ops EXCEPT ![c] = w]
    BY <1>1, <2>1, <2>5 DEF ServiceTyped
  <2>8. Known(w)
    BY <1>1, <2>2, <2>3, <2>6 DEF Known, IdsOK
  <2>9. PlaceOK(c, w)
    BY <2>2, <2>6, <2>8 DEF PlaceOK, Starting
  <2>10. S!NoStrangerIsKilled'
    BY <1>1, NobodyToldMore
  <2> QED
    BY <1>1, <1>2, <2>1, <2>6, <2>7, <2>9, <2>10, GoesOnTo
<1>4. CASE ~ S!Matches(ops[c].pid)
  <2>1. S!Ends(c, "refused")
    BY <1>4 DEF S!IdentifyForStop
  <2> QED
    BY <1>1, <1>2, <2>1, EndsQuiet
<1> QED
  BY <1>3, <1>4

(* Who is told to end was identified, or has the number since.             *)
LEMMA ToldWasKnown ==
  ASSUME ServiceInv, NEW c \in Threads, ops[c].pc \in Ending, There(ops[c].pid), S!Signal(c)
  PROVE  S!NoStrangerIsKilled'
<1>1. ServiceTyped /\ PlaceOK(c, ops[c]) /\ ops[c].pc # "idle" /\ S!NoStrangerIsKilled
  BY HolderKnows DEF ServiceInv, Ending
<1>2. procs[ops[c].pid].id = ops[c].recorded \/ procs[ops[c].pid].id > ops[c].checked
  BY <1>1 DEF PlaceOK, Known
<1>3. PICK s : s = [id |-> procs[ops[c].pid].id, asked |-> ops[c].recorded,
                    late |-> procs[ops[c].pid].id > ops[c].checked]
  OBVIOUS
<1>4. s.id = s.asked \/ s.late
  <2>1. CASE procs[ops[c].pid].id = ops[c].recorded
    BY <1>3, <2>1
  <2>2. CASE procs[ops[c].pid].id > ops[c].checked
    BY <1>3, <2>2
  <2> QED
    BY <1>2, <2>1, <2>2
<1>5. signalled' = signalled \cup {s}
  BY <1>3 DEF S!Signal
<1> QED
  BY <1>1, <1>4, <1>5 DEF S!NoStrangerIsKilled

LEMMA EndingGoesOn ==
  ASSUME ServiceInv, NEW c \in Threads, ops[c].pc \in Ending, NEW pc \in {"grace", "wait"}, S!GoesOn(c, pc),
         UNCHANGED <<port, record, born, crashes>>, S!NoStrangerIsKilled'
  PROVE  ServiceInv'
<1>1. ops[c].pc \notin Starting \cup {"idle"} /\ pc \in Places /\ pc \in Ending
  BY DEF Starting, Ending, Places
<1>2. ServiceTyped /\ ops[c] \in Works /\ PlaceOK(c, ops[c])
  BY <1>1, HolderKnows DEF ServiceInv
<1>3. PICK w \in Works : At(c, pc, w)
  BY <1>1, <1>2, WorkAt
<1>4. /\ ops' = [ops EXCEPT ![c] = w] /\ UNCHANGED <<procs, lock>>
      /\ w.pc = pc /\ w.pid = ops[c].pid /\ w.recorded = ops[c].recorded /\ w.checked = ops[c].checked
  BY <1>3 DEF S!GoesOn, At
<1>5. Known(w) /\ w.pid = IF record = None THEN None ELSE record.pid
  BY <1>2, <1>4 DEF PlaceOK, Known
<1>6. PlaceOK(c, w)
  BY <1>4, <1>5 DEF PlaceOK, Starting
<1> QED
  BY <1>1, <1>4, <1>6, GoesOnTo

LEMMA TerminateKeeps ==
  ASSUME ServiceInv, NEW c \in Threads, S!Terminate(c)
  PROVE  ServiceInv'
<1>1. /\ ops[c].pc = "terminate" /\ UNCHANGED <<port, record, born, crashes>>
      /\ ops[c].pc \in Ending /\ ops[c].pc \notin Starting \cup {"idle"} /\ "failed" \in Reports
  BY DEF S!Terminate, Ending, Starting, Reports
<1>2. CASE S!GoesOn(c, "wait") /\ signalled' = signalled
  BY <1>1, <1>2, NobodyToldMore, EndingGoesOn
<1>3. CASE S!Ends(c, "failed") /\ signalled' = signalled
  BY <1>1, <1>3, EndsQuiet
<1>4. CASE There(ops[c].pid) /\ S!GoesOn(c, "grace") /\ S!Signal(c)
  BY <1>1, <1>4, ToldWasKnown, EndingGoesOn
<1> QED
  BY <1>2, <1>3, <1>4 DEF S!Terminate, There

LEMMA ObservedKeeps ==
  ASSUME ServiceInv, NEW c \in Threads, S!Observed(c)
  PROVE  ServiceInv'
<1>1. /\ ops[c].pc \in Ending /\ S!GoesOn(c, "wait") /\ UNCHANGED <<port, record, born, crashes, signalled>>
  BY DEF S!Observed, Ending
<1> QED
  BY <1>1, NobodyToldMore, EndingGoesOn

(* ------------------------ what other processes do ---------------------- *)
LEMMA DiesAlters ==
  ASSUME ServiceInv, NEW p \in Processes, There(p), procs'[p] \in {None, [procs[p] EXCEPT !.alive = FALSE]},
         procs[p].parent = None <=> procs'[p] = None, procs' = [procs EXCEPT ![p] = procs'[p]],
         port' \in Ports \cup {None}, UNCHANGED <<record, crashes, born, lock>>
  PROVE  Alters
<1>1. procs \in [Processes -> Procs \cup {None}] /\ procs[p] \in Procs
  BY DEF ServiceInv, ServiceTyped, There
<1>2. [procs[p] EXCEPT !.alive = FALSE] \in Procs
  BY <1>1 DEF Procs
<1>3. procs' \in [Processes -> Procs \cup {None}] /\ \A i \in Processes : i # p => procs'[i] = procs[i]
  <2>1. PICK v \in Procs \cup {None} : v = procs'[p]
    BY <1>2
  <2>2. procs' = [procs EXCEPT ![p] = v]
    BY <2>1
  <2> QED
    BY <1>1, <2>2
<1>4. Later(p)
  BY <1>1 DEF Later, There, Procs
<1>5. \A i \in Processes : i # p => Later(i)
  BY <1>3 DEF Later, There, ServiceInv, IdsOK
<1> QED
  BY <1>3, <1>4, <1>5 DEF Alters, There

LEMMA DiedAlters ==
  ASSUME ServiceInv, NEW p \in Processes, There(p), S!Died(p),
         port' \in Ports \cup {None}, UNCHANGED <<record, crashes, born, lock>>
  PROVE  Alters
<1>1. procs \in [Processes -> Procs \cup {None}] /\ procs[p] \in Procs
  BY DEF ServiceInv, ServiceTyped, There
<1>2. procs'[p] = IF procs[p].parent = None THEN None ELSE [procs[p] EXCEPT !.alive = FALSE]
  BY <1>1 DEF S!Died
<1>3. procs' = [procs EXCEPT ![p] = procs'[p]]
  BY <1>1, <1>2 DEF S!Died
<1>4. [procs[p] EXCEPT !.alive = FALSE] \in Procs
  BY <1>1 DEF Procs
<1>5. procs[p].parent = None <=> procs'[p] = None
  BY <1>2, <1>4, ServiceNone
<1>6. procs'[p] \in {None, [procs[p] EXCEPT !.alive = FALSE]}
  BY <1>2
<1> QED
  BY <1>3, <1>5, <1>6, DiesAlters

LEMMA PortOnlyFreed ==
  ASSUME ServiceInv, port' \in {port, None}, lock # None
  PROVE  PortAlters(ops[lock]) /\ port' \in Ports \cup {None}
<1>1. PlaceOK(lock, ops[lock]) /\ port \in Ports \cup {None}
  BY DEF ServiceInv, HolderOK, ServiceTyped
<1> QED
  BY <1>1 DEF PlaceOK, PortAlters, Served

LEMMA KillKeeps ==
  ASSUME ServiceInv, NEW c \in Threads, S!Kill(c)
  PROVE  ServiceInv'
<1>1. /\ ops[c].pc = "grace" /\ UNCHANGED <<record, born, crashes>>
      /\ ops[c].pc \in Ending /\ ops[c].pc \notin Starting \cup {"idle"} /\ "failed" \in Reports
  BY DEF S!Kill, Ending, Starting, Reports
<1>2. CASE S!GoesOn(c, "wait") /\ UNCHANGED <<port, signalled>>
  BY <1>1, <1>2, NobodyToldMore, EndingGoesOn
<1>3. CASE S!Ends(c, "failed") /\ UNCHANGED <<port, signalled>>
  BY <1>1, <1>3, EndsQuiet
<1>4. ASSUME There(ops[c].pid),
             procs' = [procs EXCEPT ![ops[c].pid] = IF procs[ops[c].pid].parent = None THEN None
                                                    ELSE [procs[ops[c].pid] EXCEPT !.alive = FALSE]],
             port' = IF port # None /\ port.id = procs[ops[c].pid].id THEN None ELSE port,
             ops' = [ops EXCEPT ![c].pc = "wait"], S!Signal(c), UNCHANGED lock
      PROVE  ServiceInv'
  <2>1. /\ ServiceTyped /\ lock = c /\ c # None /\ ops[c] \in Works /\ PlaceOK(c, ops[c]) /\ Known(ops[c])
        /\ "wait" \in Places
    BY <1>1, HolderKnows DEF ServiceInv, PlaceOK, Places
  <2>2. ops[c].pid \in Processes
    <3>1. record # None /\ ops[c].pid = record.pid
      BY <1>1, <2>1 DEF PlaceOK, Known
    <3> QED
      BY <2>1, <3>1 DEF ServiceTyped, Records
  <2>3. procs[ops[c].pid].parent = None
    BY <1>1, <1>4, <2>1, <2>2, NoChildren
  <2>4. procs'[ops[c].pid] = None /\ procs' = [procs EXCEPT ![ops[c].pid] = procs'[ops[c].pid]]
    BY <1>4, <2>1, <2>2, <2>3 DEF ServiceTyped
  <2>5. port' \in {port, None} /\ port' \in Ports \cup {None} /\ PortAlters(ops[c])
    BY <1>4, <2>1, PortOnlyFreed
  <2>6. Alters
    BY <1>1, <1>4, <2>2, <2>3, <2>4, <2>5, DiesAlters
  <2>7. PICK w \in Works : At(c, "wait", w)
    BY <2>1, WorkAt
  <2>8. /\ ops' = [ops EXCEPT ![c] = w] /\ w.pc = "wait" /\ w.pid = ops[c].pid
        /\ w.recorded = ops[c].recorded /\ w.checked = ops[c].checked
    BY <1>4, <2>7 DEF At
  <2>9. Known(w) /\ w.pid = IF record = None THEN None ELSE record.pid
    BY <1>1, <2>1, <2>8 DEF PlaceOK, Known
  <2>10. PlaceOK(c, w) /\ PortAlters(w) /\ w.pc # "idle"
    BY <2>8, <2>9 DEF PlaceOK, PortAlters, Served, Starting
  <2>11. S!NoStrangerIsKilled'
    BY <1>1, <1>4, ToldWasKnown
  <2> QED
    BY <1>1, <2>1, <2>6, <2>8, <2>10, <2>11, HolderGoesOn
<1> QED
  BY <1>2, <1>3, <1>4 DEF S!Kill, There

LEMMA WaitKeeps ==
  ASSUME ServiceInv, NEW c \in Threads, S!Wait(c)
  PROVE  ServiceInv'
<1>1. /\ ServiceTyped /\ ops[c].pc = "wait" /\ ops[c] \in Works /\ PlaceOK(c, ops[c])
      /\ UNCHANGED <<port, born, crashes, signalled>>
      /\ ops[c].pc \notin Starting \cup {"idle"} /\ "stuck" \in Reports /\ "stopped" \in Reports
  BY HolderKnows DEF ServiceInv, S!Wait, Starting, Reports
<1>2. ops[c].pid \in Processes \cup {None} /\ ops[c].pid = IF record = None THEN None ELSE record.pid
  BY <1>1 DEF PlaceOK, Works, Ending
<1>3. CASE S!Down(c) /\ S!Stopped(c, "stopped")
  <2>1. Unserved
    BY <1>1, <1>2, <1>3, EndedUnserved DEF S!Down
  <2> QED
    BY <1>1, <1>3, <2>1, StoppedKeeps
<1>4. CASE S!Ends(c, "stuck") /\ record' = record
  BY <1>1, <1>4, EndsQuiet
<1> QED
  BY <1>3, <1>4 DEF S!Wait

(* The child of a command that is killed is on its own.                    *)
LEMMA CrashKeeps ==
  ASSUME ServiceInv, NEW c \in Threads, S!Crash(c)
  PROVE  ServiceInv'
<1>1. /\ ServiceTyped /\ StraysOK /\ ops[c].pc # "idle" /\ crashes' = crashes + 1 /\ S!Ends(c, "killed")
      /\ UNCHANGED <<port, record, born, signalled>> /\ "killed" \in Reports
  BY DEF ServiceInv, S!Crash, Reports
<1>2. ASSUME NEW p \in Strays' PROVE p \in Strays \cup {ops[c].pid}
  <2>1. /\ p \in S!Servers /\ ~ RunsRecorded(p)' /\ procs'[p].id = procs[p].id
        /\ procs[p].parent # None => ops[c].pc \in Starting /\ ops[c].pid = p
    BY <1>1, EndsLeaves
  <2>2. ~ RunsRecorded(p)
    BY <1>1, <2>1 DEF RunsRecorded
  <2> QED
    BY <2>1, <2>2 DEF Strays
<1>3. crashes \in Nat /\ crashes' \in Nat
  BY <1>1 DEF ServiceTyped
<1>4. StraysOK'
  BY <1>1, <1>2, <1>3, OneMoreStray
<1> QED
  BY <1>1, <1>3, <1>4, EndsAs

LEMMA NoneAstray ==
  ASSUME ServiceInv, crashes = 0
  PROVE  Strays = {}
<1>1. IsFiniteSet(Strays) /\ Cardinality(Strays) \in Nat /\ Cardinality(Strays) <= 0
  BY StraysFinite, FS_CardinalityType DEF ServiceInv, StraysOK
<1>2. Cardinality(Strays) = 0
  BY <1>1
<1> QED
  BY <1>1, <1>2, FS_EmptySet

(* As long as no command was killed, a server is recorded or a child.      *)
LEMMA ServerIsOf ==
  ASSUME ServiceInv, NEW p \in S!Servers
  PROVE  \/ p \in Strays
         \/ RunsRecorded(p)
         \/ /\ lock # None /\ ops[lock].pc \in Starting /\ ops[lock].pid = p /\ Child(lock, ops[lock])
            /\ lock \in Threads
<1>1. ServiceTyped /\ p \in Processes /\ There(p)
  BY ServersFact DEF ServiceInv
<1>2. ASSUME procs[p].parent # None
      PROVE  /\ lock # None /\ ops[lock].pc \in Starting /\ ops[lock].pid = p /\ Child(lock, ops[lock])
             /\ lock \in Threads
  <2>1. lock # None /\ ops[lock].pc \in Starting /\ ops[lock].pid = p /\ lock \in Threads
    BY <1>1, <1>2 DEF ServiceInv, ParentsOK, ServiceTyped
  <2>2. PlaceOK(lock, ops[lock])
    BY <2>1 DEF ServiceInv, HolderOK
  <2> QED
    BY <2>1, <2>2 DEF PlaceOK
<1> QED
  BY <1>2 DEF Strays

LEMMA ListensAlters ==
  ASSUME ServiceInv, NEW p \in Processes, There(p), procs' = [procs EXCEPT ![p].listens = TRUE], port' \in Ports,
         UNCHANGED <<record, lock, ops, born, crashes, signalled>>
  PROVE  Alters
<1>1. procs \in [Processes -> Procs \cup {None}] /\ procs[p] \in Procs
  BY DEF There, ServiceInv, ServiceTyped
<1>2. [procs[p] EXCEPT !.listens = TRUE] \in Procs
  BY <1>1 DEF Procs
<1>3. PICK q \in Procs : q = [procs[p] EXCEPT !.listens = TRUE]
  BY <1>2
<1>4. q.id = procs[p].id /\ q.kind = procs[p].kind /\ q.alive = procs[p].alive /\ q.parent = procs[p].parent
  BY <1>1, <1>3 DEF Procs
<1>5. procs' = [procs EXCEPT ![p] = q]
  BY <1>1, <1>3
<1>6. /\ procs' \in [Processes -> Procs \cup {None}] /\ procs'[p] = q /\ q # None
      /\ \A i \in Processes : i # p => procs'[i] = procs[i]
  BY <1>1, <1>5, ServiceNone
<1>7. \A i \in Processes : Later(i)
  BY <1>1, <1>4, <1>6 DEF Later, There, ServiceInv, IdsOK
<1> QED
  BY <1>1, <1>6, <1>7 DEF Alters, There, ServiceInv, ServiceTyped

(* Another program that takes the port does not serve in the name of a     *)
(* command.                                                                *)
LEMMA OccupyKeeps ==
  ASSUME ServiceInv, NEW p \in Processes, S!Occupy(p)
  PROVE  ServiceInv'
<1>1. /\ There(p) /\ procs[p] \in Procs /\ UNCHANGED <<record, lock, ops, born, crashes, signalled>>
      /\ procs' = [procs EXCEPT ![p].listens = TRUE]
  BY DEF S!Occupy, S!Alive, There, ServiceInv, ServiceTyped
<1>2. PICK kind \in {"api", "other"} : port' = [id |-> procs[p].id, kind |-> kind]
  BY DEF S!Occupy
<1>3. port' \in Ports /\ ~ Served'
  BY <1>1, <1>2 DEF Ports, Procs, Served
<1>4. Alters
  BY <1>1, <1>3, ListensAlters
<1>5. lock # None => PortAlters(ops[lock])
  BY <1>3 DEF PortAlters
<1> QED
  BY <1>1, <1>4, <1>5, OthersGoOn

LEMMA ListenKeeps ==
  ASSUME ServiceInv, NEW p \in Processes, S!Listen(p)
  PROVE  ServiceInv'
<1>1. /\ ServiceTyped /\ p \in S!Servers /\ There(p) /\ procs[p] \in Procs /\ procs[p].kind = "server"
      /\ UNCHANGED <<record, lock, ops, born, crashes, signalled>>
  BY DEF S!Listen, S!Servers, S!Alive, There, ServiceInv, ServiceTyped
<1>2. CASE S!Died(p) /\ port' = port
  <2>1. Alters
    BY <1>1, <1>2, DiedAlters DEF ServiceTyped
  <2> QED
    BY <1>1, <1>2, <2>1, PortOnlyFreed, OthersGoOn
<1>3. CASE port = None /\ port' = [id |-> procs[p].id, kind |-> "server"] /\ procs' = [procs EXCEPT ![p].listens = TRUE]
  <2>1. port' \in Ports /\ port'.id = procs[p].id
    BY <1>1, <1>3 DEF Ports, Procs
  <2>2. Alters
    BY <1>1, <1>3, <2>1, ListensAlters
  <2>3. ASSUME crashes = 0, lock # None
        PROVE  ops[lock].pc # "spawn" /\ (ops[lock].pc \in Starting => procs[p].id = ops[lock].recorded)
    <3>1. PlaceOK(lock, ops[lock]) /\ Strays = {}
      BY <2>3, NoneAstray DEF ServiceInv, HolderOK
    <3>2. CASE RunsRecorded(p)
      <4>1. record # None /\ record.pid = p /\ record.started = procs[p].id
        BY <3>2 DEF RunsRecorded
      <4>2. ops[lock].pc # "spawn"
        BY <3>1, <4>1 DEF PlaceOK
      <4>3. ops[lock].pc \in Starting => record = Row(ops[lock])
        BY <3>1, <4>1 DEF PlaceOK, Starting
      <4> QED
        BY <4>1, <4>2, <4>3 DEF Row
    <3>3. CASE ops[lock].pc \in Starting /\ ops[lock].pid = p /\ Child(lock, ops[lock])
      BY <3>3 DEF Starting, Child
    <3> QED
      BY <1>1, <3>1, <3>2, <3>3, ServerIsOf
  <2>4. lock # None => PortAlters(ops[lock])
    BY <2>1, <2>3 DEF PortAlters, Served, Starting
  <2> QED
    BY <1>1, <2>2, <2>4, OthersGoOn
<1> QED
  BY <1>2, <1>3 DEF S!Listen

LEMMA DieKeeps ==
  ASSUME ServiceInv, NEW p \in Processes, S!Die(p)
  PROVE  ServiceInv'
<1>1. /\ There(p) /\ S!Died(p) /\ port' \in {port, None}
      /\ UNCHANGED <<record, lock, ops, born, crashes, signalled>>
  BY DEF S!Die, S!Alive, There, S!Left
<1>2. port' \in Ports \cup {None}
  BY <1>1 DEF ServiceInv, ServiceTyped
<1>3. Alters
  BY <1>1, <1>2, DiedAlters
<1> QED
  BY <1>1, <1>3, PortOnlyFreed, OthersGoOn

(* A process of somebody else is given a number that is free.              *)
LEMMA BeginKeeps ==
  ASSUME ServiceInv, NEW p \in Processes, S!Begin(p)
  PROVE  ServiceInv'
<1>1. /\ ServiceTyped /\ IdsOK /\ ~ There(p) /\ born' = born + 1 /\ born \in Nat
      /\ UNCHANGED <<port, record, lock, ops, crashes, signalled>>
  BY DEF ServiceInv, S!Begin, There, ServiceTyped
<1>2. PICK kind \in {"own", "foreign"} :
        procs' = [procs EXCEPT ![p] = [id |-> born + 1, kind |-> kind, alive |-> TRUE, listens |-> FALSE, parent |-> None]]
  BY DEF S!Begin
<1>a. [id |-> born + 1, kind |-> kind, alive |-> TRUE, listens |-> FALSE, parent |-> None] \in Procs
  BY <1>1 DEF Procs
<1>3. PICK q \in Procs : q = [id |-> born + 1, kind |-> kind, alive |-> TRUE, listens |-> FALSE, parent |-> None]
  BY <1>a
<1>4. /\ procs' \in [Processes -> Procs \cup {None}] /\ procs'[p] = q /\ q # None
      /\ \A i \in Processes : i # p => procs'[i] = procs[i]
  BY <1>1, <1>2, <1>3, ServiceNone DEF ServiceTyped
<1>5. q.id = born + 1 /\ q.kind \in {"own", "foreign"} /\ q.parent = None /\ q.alive
  BY <1>3
<1>6. \A i \in Processes : Later(i)
  BY <1>1, <1>4, <1>5 DEF Later, There, IdsOK
<1>7. Alters
  BY <1>1, <1>4, <1>6 DEF Alters, There, ServiceTyped
<1> QED
  BY <1>1, <1>7, PortOnlyFreed, OthersGoOn

LEMMA ReleaseKeeps ==
  ASSUME ServiceInv, S!Release
  PROVE  ServiceInv'
<1>1. port' = None /\ UNCHANGED <<procs, record, lock, ops, born, crashes, signalled>>
  BY DEF S!Release
<1>2. ServiceTyped /\ IdsOK
  BY DEF ServiceInv
<1>3. Alters
  BY <1>1, <1>2 DEF Alters, Later, There, ServiceTyped, IdsOK
<1> QED
  BY <1>1, <1>3, PortOnlyFreed, OthersGoOn

LEMMA ServiceInit ==
  ASSUME S!Init
  PROVE  ServiceInv
<1> USE DEF S!Init
<1>1. S!Idle \in Works /\ S!Idle.pc = "idle"
  BY DEF S!Idle, Works, Places, Reports
<1>2. ServiceTyped
  BY <1>1 DEF ServiceTyped
<1>3. IdsOK /\ LockOK /\ HolderOK /\ ParentsOK /\ S!NoStrangerIsKilled
  BY <1>1, ServiceNone DEF IdsOK, LockOK, HolderOK, ParentsOK, There, S!NoStrangerIsKilled
<1>4. Strays = {}
  BY DEF Strays, S!Servers, S!Alive
<1>5. StraysOK
  BY <1>4, FS_EmptySet DEF StraysOK
<1> QED
  BY <1>2, <1>3, <1>5 DEF ServiceInv

LEMMA ServiceStep ==
  ASSUME ServiceInv, S!Next
  PROVE  ServiceInv'
<1>1. ASSUME NEW c \in Threads,
             \/ S!Acquire(c) \/ S!InspectForStart(c) \/ S!IdentifyForStart(c) \/ S!Probe(c) \/ S!Spawn(c)
             \/ S!Record(c) \/ S!Await(c) \/ S!GiveUp(c) \/ S!GivenUp(c)
             \/ S!InspectForStop(c) \/ S!Gone(c) \/ S!IdentifyForStop(c) \/ S!Terminate(c) \/ S!Observed(c)
             \/ S!Kill(c) \/ S!Wait(c) \/ S!Crash(c)
      PROVE  ServiceInv'
  BY <1>1, AcquireKeeps, InspectForStartKeeps, IdentifyForStartKeeps, ProbeKeeps, SpawnKeeps, RecordKeeps,
     AwaitKeeps, GiveUpKeeps, GivenUpKeeps, InspectForStopKeeps, GoneKeeps, IdentifyForStopKeeps, TerminateKeeps,
     ObservedKeeps, KillKeeps, WaitKeeps, CrashKeeps
<1>2. ASSUME NEW p \in Processes, S!Listen(p) \/ S!Occupy(p) \/ S!Die(p) \/ S!Begin(p)
      PROVE  ServiceInv'
  BY <1>2, ListenKeeps, OccupyKeeps, DieKeeps, BeginKeeps
<1> QED
  BY <1>1, <1>2, ReleaseKeeps DEF S!Next

LEMMA ServiceSame ==
  ASSUME ServiceInv, UNCHANGED <<procs, port, record, lock, ops, born, signalled, crashes>>
  PROVE  ServiceInv'
<1>1. Alters
  BY StaysPut
<1> QED
  BY <1>1, PortOnlyFreed, OthersGoOn

LEMMA KnownFromInv ==
  ASSUME ServiceInv
  PROVE  S!ServiceIsKnown
<1>1. ServiceTyped /\ IdsOK /\ LockOK /\ S!NoStrangerIsKilled
  BY DEF ServiceInv
<1>2. S!TypeOK
  <2>1. ASSUME NEW p \in Processes, There(p)
        PROVE  /\ procs[p].id \in 1 .. born /\ procs[p].kind \in {"server", "own", "foreign"}
               /\ ~ procs[p].alive => procs[p].parent \in Threads
    BY <1>1, <2>1 DEF ServiceTyped, IdsOK, There, Procs
  <2>2. lock # None => ops[lock].pc # "idle"
    BY <1>1 DEF LockOK, ServiceTyped
  <2>3. record # None => record.pid \in Processes /\ record.started \in 1 .. born
    BY <1>1 DEF ServiceTyped, IdsOK, Records
  <2> QED
    BY <2>1, <2>2, <2>3 DEF S!TypeOK, There
<1>3. S!OneServer
  <2>1. crashes \in Nat /\ Cardinality(Strays) <= crashes /\ Cardinality(Strays) \in Nat /\ IsFiniteSet(Strays)
    BY <1>1, StraysFinite, FS_CardinalityType DEF ServiceInv, StraysOK, ServiceTyped
  <2>2. PICK x : \A p \in S!Servers : p \in Strays \/ p = x
    <3>1. CASE record # None
      <4>1. ASSUME NEW p \in S!Servers PROVE p \in Strays \/ p = record.pid
        <5>1. ASSUME lock \in Threads, lock # None, ops[lock].pc \in Starting, ops[lock].pid = p PROVE p = record.pid
          <6>1. PlaceOK(lock, ops[lock])
            BY <5>1 DEF ServiceInv, HolderOK
          <6>2. record = Row(ops[lock])
            BY <3>1, <5>1, <6>1 DEF PlaceOK, Starting
          <6> QED
            BY <5>1, <6>2 DEF Row
        <5> QED
          BY <5>1, ServerIsOf DEF RunsRecorded
      <4> QED
        BY <4>1
    <3>2. CASE record = None
      <4>1. \A p \in S!Servers : p \in Strays \/ p = ops[lock].pid
        BY <3>2, ServerIsOf DEF RunsRecorded
      <4> QED
        BY <4>1
    <3> QED
      BY <3>1, <3>2
  <2>3. IsFiniteSet(Strays \cup {x}) /\ Cardinality(Strays \cup {x}) <= Cardinality(Strays) + 1
    <3>1. CASE x \in Strays
      <4>1. Strays \cup {x} = Strays
        BY <3>1
      <4> QED
        BY <4>1, <2>1
    <3>2. CASE x \notin Strays
      BY <3>2, <2>1, FS_AddElement
    <3> QED
      BY <3>1, <3>2
  <2>4. S!Servers \subseteq Strays \cup {x}
    BY <2>2
  <2>5. Cardinality(S!Servers) <= Cardinality(Strays \cup {x}) /\ IsFiniteSet(S!Servers)
    BY <2>3, <2>4, FS_Subset
  <2>6. Cardinality(S!Servers) \in Nat /\ Cardinality(Strays \cup {x}) \in Nat
    BY <2>3, <2>5, FS_CardinalityType
  <2>7. Cardinality(S!Servers) <= 1 + crashes
    BY <2>1, <2>3, <2>5, <2>6
  <2> QED
    BY <2>7, CountIs DEF S!OneServer
<1>4. S!NothingRunsUnrecorded
  <2> SUFFICES ASSUME crashes = 0, lock = None, NEW p \in S!Servers
               PROVE  record = [pid |-> p, started |-> procs[p].id]
    BY DEF S!NothingRunsUnrecorded
  <2>1. Strays = {}
    BY NoneAstray
  <2>2. RunsRecorded(p)
    BY <2>1, ServerIsOf
  <2>3. record \in Records
    BY <1>1, <2>2 DEF RunsRecorded, ServiceTyped
  <2> QED
    BY <2>2, <2>3 DEF RunsRecorded, Records
<1> QED
  BY <1>1, <1>2, <1>3, <1>4 DEF S!ServiceIsKnown

ServiceHolds == focus = "service" => ServiceInv

LEMMA ServiceHoldsInit == Init => ServiceHolds
BY ServiceInit DEF Init, ServiceHolds

LEMMA ServiceHoldsStep ==
  ServiceHolds /\ [Next]_vars => ServiceHolds'
<1> SUFFICES ASSUME ServiceHolds, [Next]_vars,
                    focus' = "service"
             PROVE  ServiceInv'
  BY DEF ServiceHolds
<1>1. focus = "service" /\ ServiceInv
  BY DEF Next, vars, ServiceHolds
<1>2. CASE S!Next
  BY <1>1, <1>2, ServiceStep
<1>3. CASE UNCHANGED vars
  BY <1>1, <1>3, ServiceSame DEF vars, keeping, serving
<1> QED
  BY <1>1, <1>2, <1>3 DEF Next, keeping

(* Commands know the service that runs: only the process that was recorded *)
(* is told to end, or one that took its number since; there is one server, *)
(* and another only for a command that was killed; and unless one was, the *)
(* record names the server that runs.  For any number of shells and of     *)
(* processes, commands and deaths.                                         *)
THEOREM ServiceIsKnownHolds == Spec => []ServiceIsKnown
<1>1. ServiceHolds => ServiceIsKnown
  BY KnownFromInv DEF ServiceHolds, ServiceIsKnown
<1> QED
  BY <1>1, ServiceHoldsInit, ServiceHoldsStep, PTL DEF Spec

(* ------------------------------- what commands report ------------------ *)

(* At most c reports something, and then r.                                *)
Tells(c, r) == \A i \in Threads : ops'[i].report # ops[i].report => i = c /\ ops'[i].report = r
Quiet == Reports \ {"started", "stopped"}

LEMMA TellsFact ==
  ASSUME ServiceTyped, NEW c \in Threads, NEW r
  PROVE  /\ S!Ends(c, r) => Tells(c, r)
         /\ S!Stopped(c, r) => Tells(c, r)
         /\ \A pc : S!GoesOn(c, pc) => Tells(c, "none")
<1>1. S!Ends(c, r) => Tells(c, r)
  BY DEF S!Ends, S!Idle, Tells, ServiceTyped
<1>2. S!Stopped(c, r) => Tells(c, r)
  <2>1. CASE ops' = [ops EXCEPT ![c].pc = "inspect", ![c].mode = "start", ![c].pid = None, ![c].report = r]
    <3>1. PICK w : w = [ops[c] EXCEPT !.pc = "inspect", !.mode = "start", !.pid = None, !.report = r]
      OBVIOUS
    <3>2. w.report = r
      BY <3>1 DEF ServiceTyped, Works
    <3>3. ops' = [ops EXCEPT ![c] = w]
      BY <2>1, <3>1 DEF ServiceTyped
    <3> QED
      BY <3>2, <3>3 DEF Tells, ServiceTyped
  <2> QED
    BY <1>1, <2>1 DEF S!Stopped
<1>3. ASSUME NEW pc, S!GoesOn(c, pc) PROVE Tells(c, "none")
  <2>1. PICK w : w = [ops[c] EXCEPT !.pc = pc]
    OBVIOUS
  <2>2. w.report = ops[c].report
    BY <2>1 DEF ServiceTyped, Works
  <2>3. ops' = [ops EXCEPT ![c] = w]
    BY <1>3, <2>1 DEF ServiceTyped, S!GoesOn
  <2> QED
    BY <2>2, <2>3 DEF Tells, ServiceTyped
<1> QED
  BY <1>1, <1>2, <1>3

LEMMA QuietTells ==
  ASSUME ServiceInv, NEW c \in Threads,
         \/ S!Acquire(c) \/ S!InspectForStart(c) \/ S!IdentifyForStart(c) \/ S!Probe(c) \/ S!Spawn(c)
         \/ S!Record(c) \/ S!GiveUp(c) \/ S!GivenUp(c)
         \/ S!InspectForStop(c) \/ S!Gone(c) \/ S!IdentifyForStop(c) \/ S!Terminate(c) \/ S!Observed(c)
         \/ S!Kill(c) \/ S!Crash(c)
  PROVE  \E r \in Quiet : Tells(c, r)
<1>1. ServiceTyped /\ ops[c] \in Works
  BY DEF ServiceInv, ServiceTyped
<1>2. {"none", "refused", "already running", "failed", "occupied", "not running", "killed"} \subseteq Quiet
  BY DEF Quiet, Reports
<1>3. S!Acquire(c) => Tells(c, "none")
  BY <1>1 DEF S!Acquire, S!Idle, Tells, ServiceTyped
<1>4. S!GiveUp(c) => Tells(c, "failed")
  <2> SUFFICES ASSUME S!GiveUp(c)
               PROVE  Tells(c, "failed")
    OBVIOUS
  <2>0. PICK w : w = [S!Idle EXCEPT !.pid = ops[c].pid, !.report = "failed"]
    OBVIOUS
  <2>1. w.report = "failed"
    BY <2>0 DEF S!Idle
  <2>2. ops' = [ops EXCEPT ![c] = w]
    BY <2>0 DEF S!GiveUp
  <2> QED
    BY <1>1, <2>1, <2>2 DEF Tells, ServiceTyped
<1>5. S!Spawn(c) => Tells(c, "failed") \/ Tells(c, "none")
  <2>1. ASSUME NEW pid \in Processes, ops' = [ops EXCEPT ![c].pc = "record", ![c].pid = pid, ![c].recorded = born + 1]
        PROVE  Tells(c, "none")
    <3>1. PICK w : w = [ops[c] EXCEPT !.pc = "record", !.pid = pid, !.recorded = born + 1]
      OBVIOUS
    <3>2. w.report = ops[c].report
      BY <1>1, <3>1 DEF Works
    <3>3. ops' = [ops EXCEPT ![c] = w]
      BY <1>1, <2>1, <3>1 DEF ServiceTyped
    <3> QED
      BY <1>1, <3>2, <3>3 DEF Tells, ServiceTyped
  <2> QED
    BY <1>1, <2>1, TellsFact DEF S!Spawn
<1>6. S!IdentifyForStop(c) => Tells(c, "refused") \/ Tells(c, "none")
  <2>1. ASSUME ops' = [ops EXCEPT ![c].pc = "terminate", ![c].checked = born, ![c].recorded = record.started]
        PROVE  Tells(c, "none")
    <3>1. PICK w : w = [ops[c] EXCEPT !.pc = "terminate", !.checked = born, !.recorded = record.started]
      OBVIOUS
    <3>2. w.report = ops[c].report
      BY <1>1, <3>1 DEF Works
    <3>3. ops' = [ops EXCEPT ![c] = w]
      BY <1>1, <2>1, <3>1 DEF ServiceTyped
    <3> QED
      BY <1>1, <3>2, <3>3 DEF Tells, ServiceTyped
  <2> QED
    BY <1>1, <2>1, TellsFact DEF S!IdentifyForStop
<1>7. S!Kill(c) => Tells(c, "failed") \/ Tells(c, "none")
  <2>1. ASSUME ops' = [ops EXCEPT ![c].pc = "wait"] PROVE Tells(c, "none")
    <3>1. PICK w : w = [ops[c] EXCEPT !.pc = "wait"]
      OBVIOUS
    <3>2. w.report = ops[c].report
      BY <1>1, <3>1 DEF Works
    <3>3. ops' = [ops EXCEPT ![c] = w]
      BY <1>1, <2>1, <3>1 DEF ServiceTyped
    <3> QED
      BY <1>1, <3>2, <3>3 DEF Tells, ServiceTyped
  <2> QED
    BY <1>1, <2>1, TellsFact DEF S!Kill
<1>a. S!State(ops[c].pid) \in {"stopped", "running", "unknown"}
  BY <1>1, StateFact DEF Works
<1>8. S!InspectForStart(c) => Tells(c, "refused") \/ Tells(c, "none")
  BY <1>1, <1>a, TellsFact DEF S!InspectForStart
<1>9. S!InspectForStop(c) => Tells(c, "refused") \/ Tells(c, "none")
  BY <1>1, <1>a, TellsFact DEF S!InspectForStop
<1>10. S!IdentifyForStart(c) => Tells(c, "refused") \/ Tells(c, "already running")
  BY <1>1, TellsFact DEF S!IdentifyForStart
<1>11. (S!Probe(c) => Tells(c, "refused") \/ Tells(c, "none")) /\ (S!Record(c) => Tells(c, "none"))
  BY <1>1, TellsFact DEF S!Probe, S!Record
<1>12. (S!GivenUp(c) => Tells(c, "failed")) /\ (S!Crash(c) => Tells(c, "killed"))
  BY <1>1, TellsFact DEF S!GivenUp, S!Crash
<1>13. (S!Terminate(c) => Tells(c, "failed") \/ Tells(c, "none")) /\ (S!Observed(c) => Tells(c, "none"))
  BY <1>1, TellsFact DEF S!Terminate, S!Observed
<1>14. S!Gone(c) => Tells(c, "occupied") \/ Tells(c, "not running")
  BY <1>1, TellsFact DEF S!Gone
<1> QED
  BY <1>2, <1>3, <1>4, <1>5, <1>6, <1>7, <1>8, <1>9, <1>10, <1>11, <1>12, <1>13, <1>14

(* Nothing is reported, or something that needs no proof.                  *)
LEMMA QuietIsTrue ==
  ASSUME NEW c, NEW r \in Quiet, Tells(c, r)
  PROVE  S!ReportIsTrue
BY DEF Tells, Quiet, S!ReportIsTrue, S!StartedAnswers, S!StoppedIsGone, S!Reports

LEMMA StartedIsTrue ==
  ASSUME ServiceInv, NEW c \in Threads, S!Await(c)
  PROVE  S!ReportIsTrue
<1>1. /\ ServiceTyped /\ ops[c].pc = "await" /\ PlaceOK(c, ops[c])
  BY HolderKnows DEF ServiceInv, S!Await
<1>2. "failed" \in Quiet /\ "none" \in Quiet
  BY DEF Quiet, Reports
<1>3. CASE S!Answering /\ S!Ends(c, "started")
  <2>1. Tells(c, "started")
    BY <1>1, <1>3, TellsFact
  <2>2. record.started = ops[c].recorded
    BY <1>1 DEF PlaceOK, Row
  <2>3. crashes = 0 /\ port.kind = "server" => port.id = ops[c].recorded
    BY <1>1, <1>3 DEF PlaceOK, Served, Starting, S!Answering
  <2> QED
    BY <2>1, <2>2, <2>3 DEF Tells, S!ReportIsTrue, S!StartedAnswers, S!StoppedIsGone, S!Reports
<1>4. ASSUME NEW r \in {"failed", "none"}, Tells(c, r) PROVE S!ReportIsTrue
  BY <1>2, <1>4, QuietIsTrue
<1> QED
  BY <1>1, <1>3, <1>4, TellsFact DEF S!Await

LEMMA StoppedIsTrue ==
  ASSUME ServiceInv, NEW c \in Threads, S!Wait(c)
  PROVE  S!ReportIsTrue
<1>1. /\ ServiceTyped /\ ops[c].pc = "wait" /\ ops[c] \in Works /\ PlaceOK(c, ops[c])
  BY HolderKnows DEF ServiceInv, S!Wait
<1>2. "stuck" \in Quiet
  BY DEF Quiet, Reports
<1>3. CASE S!Down(c) /\ S!Stopped(c, "stopped")
  <2>1. Tells(c, "stopped") /\ port = None /\ S!State(ops[c].pid) # "running"
    BY <1>1, <1>3, TellsFact DEF S!Down
  <2>2. ASSUME NEW p \in S!Servers, procs[p].id = ops[c].recorded PROVE FALSE
    <3>1. p \in Processes /\ There(p) /\ procs[p].alive /\ procs[p].kind = "server"
      BY <1>1, ServersFact
    <3>2. p = ops[c].pid
      BY <1>1, <2>2, <3>1 DEF PlaceOK, Ending, Known
    <3> QED
      BY <1>1, <2>1, <3>1, <3>2, StateFact, ServiceNone
  <2> QED
    BY <2>1, <2>2 DEF Tells, S!ReportIsTrue, S!StartedAnswers, S!StoppedIsGone, S!Reports
<1>4. CASE S!Ends(c, "stuck")
  <2>1. Tells(c, "stuck")
    BY <1>1, <1>4, TellsFact
  <2> QED
    BY <1>2, <2>1, QuietIsTrue
<1> QED
  BY <1>3, <1>4 DEF S!Wait

LEMMA ReportStep ==
  ASSUME ServiceInv, S!Next
  PROVE  S!ReportIsTrue
<1>1. ASSUME NEW c \in Threads,
             \/ S!Acquire(c) \/ S!InspectForStart(c) \/ S!IdentifyForStart(c) \/ S!Probe(c) \/ S!Spawn(c)
             \/ S!Record(c) \/ S!GiveUp(c) \/ S!GivenUp(c)
             \/ S!InspectForStop(c) \/ S!Gone(c) \/ S!IdentifyForStop(c) \/ S!Terminate(c) \/ S!Observed(c)
             \/ S!Kill(c) \/ S!Crash(c)
      PROVE  S!ReportIsTrue
  BY <1>1, QuietTells, QuietIsTrue
<1>2. ASSUME ops' = ops PROVE S!ReportIsTrue
  BY <1>2 DEF S!ReportIsTrue, S!StartedAnswers, S!StoppedIsGone, S!Reports
<1>3. ASSUME NEW p \in Processes, S!Listen(p) \/ S!Occupy(p) \/ S!Die(p) \/ S!Begin(p) PROVE S!ReportIsTrue
  BY <1>2, <1>3 DEF S!Listen, S!Occupy, S!Die, S!Begin
<1>4. S!Release => S!ReportIsTrue
  BY <1>2 DEF S!Release
<1> QED
  BY <1>1, <1>3, <1>4, StartedIsTrue, StoppedIsTrue DEF S!Next

(* What a command reports is so, whatever dies, takes the port or the      *)
(* number meanwhile: unless a command was killed, "started" means that the *)
(* process that was started is recorded, and that no other process that a  *)
(* command started answers instead, only a program that took the port      *)
(* after it was found free; "stopped" means that the process is gone and   *)
(* that nothing of it listens.                                             *)
THEOREM ReportsAreTrueHolds == Spec => ReportsAreTrue
<1>1. ServiceHolds /\ [Next]_vars
        => [S!ReportIsTrue]_<<serving, crashes>>
  <2> SUFFICES ASSUME ServiceHolds, [Next]_vars,
                      ~ UNCHANGED <<serving, crashes>>
               PROVE  S!ReportIsTrue
    OBVIOUS
  <2>1. CASE focus = "service" /\ S!Next
    BY <2>1, ReportStep DEF ServiceHolds
  <2>2. CASE UNCHANGED serving
    BY <2>2 DEF serving, S!ReportIsTrue, S!StartedAnswers, S!StoppedIsGone, S!Reports
  <2> QED
    BY <2>1, <2>2 DEF Next, vars, keeping
<1> QED
  BY <1>1, ServiceHoldsInit, ServiceHoldsStep, PTL DEF Spec, ReportsAreTrue

-----------------------------------------------------------------------------
(* What is selected by position: the k-th of the positions that are kept.  *)
(* Every one of them has a place, and they keep their order.               *)
Upto(kept, i) == {j \in kept : j <= i}
Place(kept, i) == Cardinality(Upto(kept, i))
Nth(kept, k) == CHOOSE i \in kept : Place(kept, i) = k

LEMMA Placed ==
  ASSUME NEW kept \in SUBSET Int, IsFiniteSet(kept)
  PROVE  /\ Cardinality(kept) \in Nat
         /\ \A i \in kept : Place(kept, i) \in 1 .. Cardinality(kept)
         /\ \A i, j \in kept : i < j => Place(kept, i) < Place(kept, j)
         /\ \A k \in 1 .. Cardinality(kept) : Nth(kept, k) \in kept /\ Place(kept, Nth(kept, k)) = k
         /\ \A i \in kept : Nth(kept, Place(kept, i)) = i
<1>0. Cardinality(kept) \in Nat
  BY FS_CardinalityType
<1>1. ASSUME NEW i \in kept
      PROVE  IsFiniteSet(Upto(kept, i)) /\ Place(kept, i) \in 1 .. Cardinality(kept)
  <2>1. Upto(kept, i) \subseteq kept /\ i \in Upto(kept, i)
    BY DEF Upto
  <2>2. IsFiniteSet(Upto(kept, i)) /\ Cardinality(Upto(kept, i)) <= Cardinality(kept)
    BY <2>1, FS_Subset
  <2>3. Cardinality(Upto(kept, i)) \in Nat /\ Cardinality(Upto(kept, i)) # 0
    BY <2>1, <2>2, FS_CardinalityType, FS_EmptySet
  <2> QED
    BY <1>0, <2>2, <2>3 DEF Place
<1>2. ASSUME NEW i \in kept, NEW j \in kept, i < j
      PROVE  Place(kept, i) < Place(kept, j)
  <2>a. i \in Int /\ j \in Int /\ i < j /\ \A k \in kept : k \in Int
    BY <1>2
  <2>b. \A k \in kept : k <= i => k <= j
    BY <2>a
  <2>c. j <= j /\ ~ (j <= i)
    BY <2>a
  <2>1. Upto(kept, i) \subseteq Upto(kept, j) /\ j \in Upto(kept, j) /\ j \notin Upto(kept, i)
    BY <2>b, <2>c DEF Upto
  <2>2. IsFiniteSet(Upto(kept, j))
    BY <1>1
  <2>3. /\ Cardinality(Upto(kept, i)) <= Cardinality(Upto(kept, j))
        /\ Cardinality(Upto(kept, i)) # Cardinality(Upto(kept, j))
    BY <2>1, <2>2, FS_Subset
  <2>4. Place(kept, i) \in Int /\ Place(kept, j) \in Int
    BY <1>1
  <2> QED
    BY <2>3, <2>4 DEF Place
<1>3. ASSUME NEW i \in kept, NEW j \in kept, Place(kept, i) = Place(kept, j)
      PROVE  i = j
  <2>1. Place(kept, i) \in Int /\ ~ (i < j) /\ ~ (j < i)
    BY <1>1, <1>2, <1>3
  <2> QED
    BY <2>1
<1>4. \A k \in 1 .. Cardinality(kept) : \E i \in kept : Place(kept, i) = k
  <2>1. PICK f : f = [i \in kept |-> Place(kept, i)]
    OBVIOUS
  <2>2. f \in Injection(kept, 1 .. Cardinality(kept))
    BY <1>1, <1>3, <2>1 DEF Injection, IsInjective
  <2>3. /\ IsFiniteSet(1 .. Cardinality(kept))
        /\ Cardinality(1 .. Cardinality(kept)) = Cardinality(kept)
    BY <1>0, FS_Interval
  <2>4. f \in Surjection(kept, 1 .. Cardinality(kept))
    BY <2>2, <2>3, FS_Injection
  <2> QED
    BY <2>1, <2>4 DEF Surjection
<1>5. \A k \in 1 .. Cardinality(kept) : Nth(kept, k) \in kept /\ Place(kept, Nth(kept, k)) = k
  BY <1>4 DEF Nth
<1> QED
  BY <1>0, <1>1, <1>2, <1>3, <1>5

-----------------------------------------------------------------------------
(* The registry.  What is in the file, in a writer's hands or read by a    *)
(* service names a service once, and a member of it once.                  *)
Entries == [name : Services, members : Seq(DOMAIN Basename), stamp : Nat]
Distinct(s) == \A i, j \in DOMAIN s : s[i] = s[j] => i = j
EntryOK(entry) == entry.members # <<>> /\ Distinct(entry.members)
Registries ==
    {e \in Seq(Entries) : /\ \A i, j \in DOMAIN e : e[i].name = e[j].name => i = j
                          /\ \A i \in DOMAIN e : EntryOK(e[i])}
Kinds == {"register", "unregister", "remove"}
Asking == {"create", "fill", "load", "reload"}
Changes == [kind : Kinds, name : Services, paths : PathLists, held : Registries,
            unread : BOOLEAN, loaded : Nat, at : Kinds \cup Asking \cup {"refresh"}]
Starts == [at : {"backup", "commit"}, raw : {e \in Registries : R!Parsed(e)}]

RegistryTyped ==
    /\ file \in Registries \cup {None} /\ saves \in Nat
    /\ torn \in BOOLEAN /\ (torn => file = <<>>)
    /\ saving \in [Threads -> Changes \cup {R!Idle}]
    /\ servers \in [Processes -> Starts \cup {R!Down, [at |-> "up"], [at |-> "refused"]}]
Knows(q) ==   \* what a writer has loaded and nobody has saved since is in the file
    /\ q.at \in Kinds => q.at = q.kind
    /\ q.at # "idle" => q.loaded <= saves
    /\ q.at \in Kinds \cup {"refresh"} /\ ~ q.unread /\ q.loaded = saves => file \in {q.held, <<>>}
WritersOK ==
    \A w \in Threads : /\ saving[w].at \notin {"idle", "create"} => file \in Registries
                       /\ Knows(saving[w])
BackedUp == \A s \in Processes : servers[s].at = "commit" => servers[s].raw \in backups
CatalogOK ==
    /\ \A x, y \in catalog : x.path = y.path /\ x.path # None => x = y
    /\ \A x \in catalog : R!Scope(x.scope) \in catalog
RegistryInv == RegistryTyped /\ WritersOK /\ BackedUp /\ CatalogOK /\ R!MarkedIsImported

LEMMA SelectedIs ==
  ASSUME NEW s, NEW kept
  PROVE  R!Selected(s, kept) = [k \in 1 .. Cardinality(kept) |-> s[Nth(kept, k)]]
BY DEF R!Selected, Nth, Place, Upto, R!Cardinality, Cardinality

LEMMA SelectedFact ==
  ASSUME NEW T, NEW s \in Seq(T), NEW kept \in SUBSET DOMAIN s
  PROVE  /\ Cardinality(kept) \in Nat /\ R!Selected(s, kept) \in Seq(T)
         /\ DOMAIN R!Selected(s, kept) = 1 .. Cardinality(kept)
         /\ Len(R!Selected(s, kept)) = Cardinality(kept)
         /\ \A k \in 1 .. Cardinality(kept) : /\ Nth(kept, k) \in kept
                                              /\ R!Selected(s, kept)[k] = s[Nth(kept, k)]
         /\ \A k, l \in 1 .. Cardinality(kept) : Nth(kept, k) = Nth(kept, l) => k = l
         /\ \A i \in kept : /\ Place(kept, i) \in DOMAIN R!Selected(s, kept)
                            /\ R!Selected(s, kept)[Place(kept, i)] = s[i]
<1>1. DOMAIN s = 1 .. Len(s) /\ Len(s) \in Nat /\ \A i \in DOMAIN s : s[i] \in T
  OBVIOUS
<1>2. kept \in SUBSET Int /\ IsFiniteSet(kept)
  <2>1. IsFiniteSet(1 .. Len(s)) /\ kept \in SUBSET (1 .. Len(s))
    BY <1>1, FS_Interval
  <2> QED
    BY <1>1, <2>1, FS_Subset
<1>3. /\ Cardinality(kept) \in Nat
      /\ \A i \in kept : Place(kept, i) \in 1 .. Cardinality(kept) /\ Nth(kept, Place(kept, i)) = i
      /\ \A k \in 1 .. Cardinality(kept) : Nth(kept, k) \in kept /\ Place(kept, Nth(kept, k)) = k
  BY <1>2, Placed
<1>4. PICK n \in Nat : n = Cardinality(kept)
  BY <1>3
<1>5. PICK f : f = R!Selected(s, kept)
  OBVIOUS
<1>6. f = [k \in 1 .. n |-> s[Nth(kept, k)]]
  BY <1>4, <1>5, SelectedIs
<1>7. f \in [1 .. n -> T]
  BY <1>1, <1>3, <1>4, <1>6
<1>8. f \in Seq(T) /\ Len(f) = n /\ DOMAIN f = 1 .. n
  BY <1>7
<1> QED
  BY <1>3, <1>4, <1>5, <1>6, <1>8

LEMMA RegistryIs ==
  ASSUME NEW e \in Registries
  PROVE  /\ e \in Seq(Entries) /\ DOMAIN e = 1 .. Len(e) /\ Len(e) \in Nat
         /\ \A i \in DOMAIN e : /\ e[i] \in Entries /\ EntryOK(e[i])
                                /\ e[i].members \in Seq(DOMAIN Basename) /\ e[i].name \in Services
         /\ \A i, j \in DOMAIN e : e[i].name = e[j].name => i = j
<1>1. e \in Seq(Entries) /\ \A i \in DOMAIN e : e[i] \in Entries
  BY DEF Registries
<1>2. DOMAIN e = 1 .. Len(e) /\ Len(e) \in Nat
  BY <1>1
<1>3. \A i, j \in DOMAIN e : e[i].name = e[j].name => i = j
  BY DEF Registries
<1>4. \A i \in DOMAIN e : EntryOK(e[i])
  BY DEF Registries
<1> QED
  BY <1>1, <1>2, <1>3, <1>4 DEF Entries

(* Who loses the entry of one name keeps the others.                       *)
LEMMA WithoutKeeps ==
  ASSUME NEW e \in Registries, NEW n
  PROVE  /\ R!Without(e, n) \in Registries
         /\ \A i \in DOMAIN e : e[i].name # n =>
              \E k \in DOMAIN R!Without(e, n) : R!Without(e, n)[k].name = e[i].name
<1>1. PICK kept : kept = DOMAIN e \ R!At(e, n)
  OBVIOUS
<1>2. PICK f : f = R!Without(e, n)
  OBVIOUS
<1>3. f = R!Selected(e, kept) /\ kept \in SUBSET DOMAIN e /\ \A i \in DOMAIN e : e[i].name # n => i \in kept
  BY <1>1, <1>2 DEF R!Without, R!At
<1>4. e \in Seq(Entries) /\ \A i \in DOMAIN e : EntryOK(e[i])
  BY RegistryIs
<1>5. /\ f \in Seq(Entries) /\ DOMAIN f = 1 .. Cardinality(kept)
      /\ \A k \in 1 .. Cardinality(kept) : Nth(kept, k) \in kept /\ f[k] = e[Nth(kept, k)]
      /\ \A k, l \in 1 .. Cardinality(kept) : Nth(kept, k) = Nth(kept, l) => k = l
      /\ \A i \in kept : Place(kept, i) \in DOMAIN f /\ f[Place(kept, i)] = e[i]
  BY <1>3, <1>4, SelectedFact
<1>6. \A k, l \in DOMAIN f : f[k].name = f[l].name => k = l
  <2> SUFFICES ASSUME NEW k \in DOMAIN f, NEW l \in DOMAIN f, f[k].name = f[l].name PROVE k = l
    OBVIOUS
  <2>1. Nth(kept, k) \in DOMAIN e /\ Nth(kept, l) \in DOMAIN e /\ f[k] = e[Nth(kept, k)] /\ f[l] = e[Nth(kept, l)]
    BY <1>3, <1>5
  <2>2. Nth(kept, k) = Nth(kept, l)
    BY <2>1, RegistryIs
  <2> QED
    BY <1>5, <2>2
<1>7. \A k \in DOMAIN f : EntryOK(f[k])
  BY <1>3, <1>4, <1>5
<1>8. f \in Registries
  BY <1>5, <1>6, <1>7 DEF Registries
<1>9. \A i \in DOMAIN e : e[i].name # n => \E k \in DOMAIN f : f[k].name = e[i].name
  BY <1>3, <1>5
<1> QED
  BY <1>2, <1>8, <1>9

LEMMA RefreshedKeeps ==
  ASSUME NEW e \in Registries, NEW n, saves \in Nat
  PROVE  /\ R!Refreshed(e, n) \in Registries
         /\ \A i \in DOMAIN e : i \in DOMAIN R!Refreshed(e, n) /\ R!Refreshed(e, n)[i].name = e[i].name
<1>1. PICK f : f = R!Refreshed(e, n)
  OBVIOUS
<1>2. f = [i \in DOMAIN e |-> IF e[i].name = n THEN [e[i] EXCEPT !.stamp = saves] ELSE e[i]]
  BY <1>1 DEF R!Refreshed
<1>3. DOMAIN f = 1 .. Len(e) /\ Len(e) \in Nat
  BY <1>2, RegistryIs
<1>4. ASSUME NEW i \in DOMAIN e
      PROVE  f[i] \in Entries /\ f[i].name = e[i].name /\ f[i].members = e[i].members
  <2>1. e[i] \in Entries /\ [e[i] EXCEPT !.stamp = saves] \in Entries
    <3>1. e[i] \in Entries
      BY RegistryIs
    <3>2. \A x \in Entries : [x EXCEPT !.stamp = saves] \in Entries
      BY DEF Entries
    <3> QED
      BY <3>1, <3>2
  <2>2. f[i] = IF e[i].name = n THEN [e[i] EXCEPT !.stamp = saves] ELSE e[i]
    BY <1>2
  <2>3. CASE e[i].name = n
    BY <2>1, <2>2, <2>3 DEF Entries
  <2>4. CASE e[i].name # n
    BY <2>1, <2>2, <2>4
  <2> QED
    BY <2>3, <2>4
<1>5. f \in Seq(Entries)
  <2>1. f \in [1 .. Len(e) -> Entries]
    BY <1>2, <1>3, <1>4
  <2> QED
    BY <1>3, <2>1
<1>6. \A i, j \in DOMAIN f : f[i].name = f[j].name => i = j
  BY <1>2, <1>4, RegistryIs
<1>7. \A i \in DOMAIN f : EntryOK(f[i])
  BY <1>2, <1>4, RegistryIs DEF EntryOK
<1> QED
  BY <1>1, <1>2, <1>4, <1>5, <1>6, <1>7 DEF Registries

LEMMA PathsAre ==
  ASSUME NEW paths \in PathLists
  PROVE  paths \in Seq(DOMAIN Basename) /\ DOMAIN paths = 1 .. Len(paths) /\ Len(paths) \in Nat
         /\ paths # <<>> /\ Distinct(paths)
<1>1. paths \in Seq(DOMAIN Basename) /\ paths # <<>> /\ \A i, j \in 1 .. Len(paths) : paths[i] = paths[j] => i = j
  BY PathsAssumption
<1>2. DOMAIN paths = 1 .. Len(paths) /\ Len(paths) \in Nat
  BY <1>1
<1> QED
  BY <1>1, <1>2 DEF Distinct

(* New paths are put behind the members that there are.                    *)
LEMMA MembersAdded ==
  ASSUME NEW m \in Seq(DOMAIN Basename), Distinct(m), m # <<>>, NEW paths \in PathLists,
         NEW kept \in SUBSET DOMAIN paths, \A k \in kept : paths[k] \notin R!Range(m)
  PROVE  /\ m \o R!Selected(paths, kept) \in Seq(DOMAIN Basename)
         /\ m \o R!Selected(paths, kept) # <<>> /\ Distinct(m \o R!Selected(paths, kept))
<1>1. PICK f : f = R!Selected(paths, kept)
  OBVIOUS
<1>2. /\ Cardinality(kept) \in Nat /\ f \in Seq(DOMAIN Basename) /\ DOMAIN f = 1 .. Cardinality(kept)
      /\ Len(f) = Cardinality(kept)
      /\ \A k \in 1 .. Cardinality(kept) : Nth(kept, k) \in kept /\ f[k] = paths[Nth(kept, k)]
      /\ \A k, l \in 1 .. Cardinality(kept) : Nth(kept, k) = Nth(kept, l) => k = l
  <2>1. paths \in Seq(DOMAIN Basename)
    BY PathsAre
  <2> QED
    BY <1>1, <2>1, SelectedFact
<1>3. \A k \in DOMAIN f : f[k] \notin R!Range(m)
  BY <1>2
<1>4. Distinct(f)
  <2> SUFFICES ASSUME NEW k \in DOMAIN f, NEW l \in DOMAIN f, f[k] = f[l] PROVE k = l
    BY DEF Distinct
  <2>1. /\ Nth(kept, k) \in DOMAIN paths /\ Nth(kept, l) \in DOMAIN paths
        /\ paths[Nth(kept, k)] = paths[Nth(kept, l)]
    BY <1>2
  <2>2. Nth(kept, k) = Nth(kept, l)
    BY <2>1, PathsAre DEF Distinct
  <2> QED
    BY <1>2, <2>2
<1>5. PICK g : g = m \o f
  OBVIOUS
<1>6. /\ g \in Seq(DOMAIN Basename) /\ Len(g) = Len(m) + Len(f) /\ Len(m) \in Nat /\ Len(f) \in Nat
      /\ DOMAIN g = 1 .. Len(g) /\ DOMAIN m = 1 .. Len(m) /\ DOMAIN f = 1 .. Len(f)
      /\ \A i \in 1 .. Len(m) : g[i] = m[i]
      /\ \A i \in Len(m) + 1 .. Len(m) + Len(f) : g[i] = f[i - Len(m)] /\ i - Len(m) \in 1 .. Len(f)
  <2>1. f \in Seq(DOMAIN Basename)
    BY <1>2
  <2>2. Len(m) \in Nat /\ Len(f) \in Nat /\ DOMAIN m = 1 .. Len(m) /\ DOMAIN f = 1 .. Len(f)
    BY <2>1
  <2>3. g \in Seq(DOMAIN Basename) /\ Len(g) = Len(m) + Len(f)
    BY <1>5, <2>1
  <2>4. DOMAIN g = 1 .. Len(g)
    BY <2>3
  <2>5. \A i \in 1 .. Len(m) : g[i] = m[i]
    BY <1>5, <2>1, <2>2
  <2>6. \A i \in Len(m) + 1 .. Len(m) + Len(f) : g[i] = f[i - Len(m)] /\ i - Len(m) \in 1 .. Len(f)
    BY <1>5, <2>1, <2>2
  <2> QED
    BY <2>2, <2>3, <2>4, <2>5, <2>6
<1>7. Distinct(g)
  <2> SUFFICES ASSUME NEW i \in DOMAIN g, NEW j \in DOMAIN g, g[i] = g[j] PROVE i = j
    BY DEF Distinct
  <2>1. ASSUME NEW x \in 1 .. Len(m), NEW y \in Len(m) + 1 .. Len(m) + Len(f), g[x] = g[y] PROVE FALSE
    <3>1. g[x] \in R!Range(m)
      BY <1>6 DEF R!Range
    <3>2. g[y] \notin R!Range(m)
      BY <1>3, <1>6
    <3> QED
      BY <2>1, <3>1, <3>2
  <2>2. CASE i \in 1 .. Len(m) /\ j \in 1 .. Len(m)
    BY <1>6, <2>2 DEF Distinct
  <2>3. CASE i \in Len(m) + 1 .. Len(m) + Len(f) /\ j \in Len(m) + 1 .. Len(m) + Len(f)
    <3>1. i - Len(m) = j - Len(m)
      BY <1>4, <1>6, <2>3 DEF Distinct
    <3>2. i \in Int /\ j \in Int /\ Len(m) \in Int
      BY <1>6, <2>3
    <3> QED
      BY <3>1, <3>2
  <2>4. i \in 1 .. Len(m) \/ i \in Len(m) + 1 .. Len(m) + Len(f)
    BY <1>6
  <2>5. j \in 1 .. Len(m) \/ j \in Len(m) + 1 .. Len(m) + Len(f)
    BY <1>6
  <2> QED
    BY <2>1, <2>2, <2>3, <2>4, <2>5
<1>8. g # <<>>
  <2>1. Len(m) # 0
    BY <1>6
  <2>2. Len(g) # 0
    BY <1>6, <2>1
  <2> QED
    BY <2>2
<1> QED
  BY <1>1, <1>5, <1>6, <1>7, <1>8

LEMMA RegisteredKeeps ==
  ASSUME NEW e \in Registries, NEW n \in Services, NEW paths \in PathLists, saves \in Nat
  PROVE  /\ R!Registered(e, n, paths) \in Registries
         /\ \A i \in DOMAIN e : /\ i \in DOMAIN R!Registered(e, n, paths)
                                /\ R!Registered(e, n, paths)[i].name = e[i].name
<1>1. PICK f : f = R!Registered(e, n, paths)
  OBVIOUS
<1>2. CASE R!At(e, n) = {}
  <2>1. [name |-> n, members |-> paths, stamp |-> saves] \in Entries
    BY PathsAre DEF Entries
  <2>2. PICK new \in Entries : new = [name |-> n, members |-> paths, stamp |-> saves]
    BY <2>1
  <2>3. f = Append(e, new)
    BY <1>1, <1>2, <2>2 DEF R!Registered, R!Appended
  <2>4. /\ f \in Seq(Entries) /\ DOMAIN f = 1 .. Len(e) + 1 /\ f[Len(e) + 1] = new
        /\ \A i \in DOMAIN e : i \in DOMAIN f /\ f[i] = e[i]
    <3>1. e \in Seq(Entries) /\ DOMAIN e = 1 .. Len(e) /\ Len(e) \in Nat
      BY RegistryIs
    <3> QED
      BY <2>3, <3>1
  <2>5. \A i \in DOMAIN e : e[i].name # n
    BY <1>2 DEF R!At
  <2>6. ASSUME NEW i \in DOMAIN f, NEW j \in DOMAIN f, f[i].name = f[j].name PROVE i = j
    <3>1. (i \in DOMAIN e \/ i = Len(e) + 1) /\ (j \in DOMAIN e \/ j = Len(e) + 1)
      BY <2>4, RegistryIs
    <3>2. new.name = n
      BY <2>2
    <3> QED
      BY <2>4, <2>5, <2>6, <3>1, <3>2, RegistryIs
  <2>7. ASSUME NEW i \in DOMAIN f PROVE EntryOK(f[i])
    <3>1. i \in DOMAIN e \/ i = Len(e) + 1
      BY <2>4, RegistryIs
    <3>2. EntryOK(new)
      BY <2>2, PathsAre DEF EntryOK
    <3> QED
      BY <2>4, <3>1, <3>2, RegistryIs
  <2> QED
    BY <1>1, <2>4, <2>6, <2>7 DEF Registries
<1>3. CASE R!At(e, n) # {}
  <2>1. f = [i \in DOMAIN e |->
               IF e[i].name # n THEN e[i]
               ELSE [e[i] EXCEPT !.stamp = saves,
                       !.members = e[i].members \o
                         R!Selected(paths, {k \in DOMAIN paths : paths[k] \notin R!Members(e[i])})]]
    BY <1>1, <1>3 DEF R!Registered
  <2>2. DOMAIN f = 1 .. Len(e) /\ Len(e) \in Nat /\ DOMAIN e = 1 .. Len(e)
    BY <2>1, RegistryIs
  <2>3. ASSUME NEW i \in DOMAIN e
        PROVE  f[i] \in Entries /\ f[i].name = e[i].name /\ EntryOK(f[i])
    <3>1. e[i] \in Entries /\ EntryOK(e[i]) /\ e[i].members \in Seq(DOMAIN Basename)
      BY RegistryIs
    <3>2. CASE e[i].name # n
      BY <2>1, <3>1, <3>2
    <3>3. CASE e[i].name = n
      <4>1. PICK kept : kept = {k \in DOMAIN paths : paths[k] \notin R!Range(e[i].members)}
        OBVIOUS
      <4>2. PICK m : m = e[i].members \o R!Selected(paths, kept)
        OBVIOUS
      <4>3. m \in Seq(DOMAIN Basename) /\ m # <<>> /\ Distinct(m)
        BY <3>1, <4>1, <4>2, MembersAdded DEF EntryOK
      <4>4. f[i] = [e[i] EXCEPT !.stamp = saves, !.members = m]
        BY <2>1, <3>3, <4>1, <4>2 DEF R!Members
      <4> QED
        BY <3>1, <4>3, <4>4 DEF Entries, EntryOK
    <3> QED
      BY <3>2, <3>3
  <2>4. f \in Seq(Entries)
    <3>1. f \in [1 .. Len(e) -> Entries]
      BY <2>1, <2>2, <2>3
    <3> QED
      BY <2>2, <3>1
  <2>5. \A i, j \in DOMAIN f : f[i].name = f[j].name => i = j
    BY <2>2, <2>3, RegistryIs
  <2> QED
    BY <1>1, <2>2, <2>3, <2>4, <2>5 DEF Registries
<1> QED
  BY <1>2, <1>3

(* What a parsed file brings to the catalog: a member has one row, and the *)
(* scope of every row is among the rows.                                   *)
LEMMA SlotIs ==
  ASSUME NEW e \in Registries, NEW s \in R!Slots(e)
  PROVE  /\ s[1] \in DOMAIN e /\ s[2] \in DOMAIN e[s[1]].members
         /\ R!PathAt(e, s) \in DOMAIN Basename /\ R!PathAt(e, s) # None
<1>1. PICK i \in DOMAIN e : s \in {i} \X DOMAIN e[i].members
  BY DEF R!Slots
<1>2. s[1] = i /\ s[2] \in DOMAIN e[i].members
  BY <1>1
<1>3. e[i].members \in Seq(DOMAIN Basename)
  BY <1>1, RegistryIs
<1>4. e[i].members[s[2]] \in DOMAIN Basename
  BY <1>2, <1>3
<1> QED
  BY <1>1, <1>2, <1>4, PathsAssumption DEF R!PathAt

LEMMA RowsAre ==
  ASSUME NEW e \in Registries, R!Parsed(e)
  PROVE  /\ \A x, y \in R!Rows(e) : x.path = y.path /\ x.path # None => x = y
         /\ \A x \in R!Rows(e) : R!Scope(x.scope) \in R!Rows(e)
<1>1. \A x \in R!Rows(e) :
        \/ \E i \in DOMAIN e : x = R!Scope(e[i].name)
        \/ \E s \in R!Slots(e) : x = [scope |-> e[s[1]].name, path |-> R!PathAt(e, s)]
  BY DEF R!Rows
<1>2. \A i \in DOMAIN e : /\ R!Scope(e[i].name) \in R!Rows(e) /\ R!Scope(e[i].name).scope = e[i].name
                          /\ R!Scope(e[i].name).path = None
  BY DEF R!Rows, R!Scope
<1>3. ASSUME NEW x \in R!Rows(e) PROVE R!Scope(x.scope) \in R!Rows(e)
  <2>1. ASSUME NEW i \in DOMAIN e, x = R!Scope(e[i].name) PROVE R!Scope(x.scope) \in R!Rows(e)
    BY <1>2, <2>1
  <2>2. ASSUME NEW s \in R!Slots(e), x = [scope |-> e[s[1]].name, path |-> R!PathAt(e, s)]
        PROVE  R!Scope(x.scope) \in R!Rows(e)
    <3>1. s[1] \in DOMAIN e /\ x.scope = e[s[1]].name
      BY <2>2, SlotIs
    <3> QED
      BY <1>2, <3>1
  <2> QED
    BY <1>1, <2>1, <2>2
<1>4. ASSUME NEW x \in R!Rows(e), NEW y \in R!Rows(e), x.path = y.path, x.path # None
      PROVE  x = y
  <2>1. PICK s \in R!Slots(e) : x = [scope |-> e[s[1]].name, path |-> R!PathAt(e, s)]
    BY <1>1, <1>2, <1>4
  <2>2. PICK u \in R!Slots(e) : y = [scope |-> e[u[1]].name, path |-> R!PathAt(e, u)]
    BY <1>1, <1>2, <1>4
  <2>3. R!PathAt(e, s) = R!PathAt(e, u)
    BY <1>4, <2>1, <2>2
  <2>4. s = u
    BY <2>3 DEF R!Parsed
  <2> QED
    BY <2>1, <2>2, <2>4
<1> QED
  BY <1>3, <1>4

(* ------------------------------- the writers --------------------------- *)
LEMMA IdleIs ==
  /\ R!Idle.at = "idle" /\ "idle" \notin Kinds \cup Asking \cup {"refresh"}
  /\ \A q \in Changes \cup {R!Idle} : q.at # "idle" => q \in Changes
BY DEF R!Idle, Kinds, Asking

LEMMA WriterSteps ==
  ASSUME RegistryInv, NEW w \in Threads, NEW q \in Changes \cup {R!Idle}, R!Step(w, q),
         file' \in Registries \cup {None}, UNCHANGED <<servers, backups, catalog, marker>>,
         torn' \in BOOLEAN, torn' => file' = <<>>,
         \/ saves' = saves /\ file' \in {file, <<>>}
         \/ saves' = saves + 1,
         file \in Registries => file' \in Registries,
         q.at \notin {"idle", "create"} => file' \in Registries, Knows(q)'
  PROVE  RegistryInv' /\ R!ImportedOnce
<1>1. RegistryTyped /\ WritersOK /\ BackedUp /\ CatalogOK /\ R!MarkedIsImported
  BY DEF RegistryInv
<1>2. saving' \in [Threads -> Changes \cup {R!Idle}] /\ saving'[w] = q /\ \A u \in Threads : u # w => saving'[u] = saving[u]
  BY <1>1 DEF RegistryTyped, R!Step
<1>3. RegistryTyped'
  BY <1>1, <1>2 DEF RegistryTyped
<1>7. ASSUME NEW u \in Threads, u # w
      PROVE  Knows(saving[u])'
  <2>1. PICK o : o = saving[u] /\ o = saving'[u] /\ Knows(o)
    BY <1>1, <1>2, <1>7 DEF WritersOK
  <2>2. o.at # "idle" => o.loaded \in Nat
    BY <1>1, <2>1, IdleIs DEF RegistryTyped, Changes
  <2>3. CASE saves' = saves /\ file' \in {file, <<>>}
    BY <2>1, <2>3 DEF Knows
  <2>4. CASE saves' = saves + 1
    <3>1. o.at # "idle" => o.loaded <= saves' /\ o.loaded # saves'
      BY <1>1, <2>1, <2>2, <2>4 DEF Knows, RegistryTyped
    <3>2. o.at \in Kinds \cup {"refresh"} => o.at # "idle"
      BY DEF Kinds
    <3> QED
      BY <2>1, <3>1, <3>2 DEF Knows
  <2> QED
    BY <2>3, <2>4
<1>4. WritersOK'
  BY <1>1, <1>2, <1>7 DEF WritersOK
<1>5. BackedUp' /\ CatalogOK' /\ R!MarkedIsImported'
  BY <1>1 DEF BackedUp, CatalogOK, R!MarkedIsImported
<1>6. R!ImportedOnce
  BY DEF R!ImportedOnce
<1> QED
  BY <1>3, <1>4, <1>5, <1>6 DEF RegistryInv

(* Whose names all stay forgets none.                                      *)
LEMMA NamesStay ==
  ASSUME file # None =>
           \A i \in DOMAIN file : \E k \in DOMAIN file' : file'[k].name = file[i].name
  PROVE  R!OnlyOverlapForgets
BY DEF R!OnlyOverlapForgets, R!At

LEMMA ChangeIs ==
  ASSUME RegistryInv, NEW w \in Threads, saving[w].at # "idle"
  PROVE  /\ saving[w] \in Changes /\ saving[w] # R!Idle /\ saving[w].name \in Services /\ saving[w].paths \in PathLists
         /\ saving[w].held \in Registries /\ saving[w].kind \in Kinds
         /\ saving[w].at # "create" => file \in Registries
         /\ Knows(saving[w])
         /\ saving[w].at \in Kinds => saving[w].at = saving[w].kind
<1>1. RegistryTyped /\ WritersOK /\ R!Idle.at = "idle"
  BY DEF RegistryInv, R!Idle
<1>2. saving[w] \in Changes /\ saving[w] # R!Idle
  BY <1>1 DEF RegistryTyped
<1>3. saving[w].at \in Kinds \cup Asking \cup {"refresh"}
  BY <1>2 DEF Changes
<1> QED
  BY <1>1, <1>2, <1>3 DEF Changes, WritersOK, Knows, Asking

(* A writer that has not loaded the file yet knows nothing of it.          *)
LEMMA KnowsNothing ==
  ASSUME saves \in Nat, saves' = saves, NEW q, q.at \in Asking, q.loaded \in 0 .. saves
  PROVE  Knows(q)'
<1>1. q.at \notin Kinds /\ q.at # "refresh"
  BY DEF Asking, Kinds
<1> QED
  BY <1>1 DEF Knows

LEMMA BeginStep ==
  ASSUME RegistryInv, R!Begin
  PROVE  RegistryInv' /\ R!ImportedOnce /\ R!OnlyOverlapForgets
<1>1. PICK w \in Threads, n \in Services, paths \in PathLists, kind \in Kinds :
        R!Step(w, [kind |-> kind, name |-> n, paths |-> paths, held |-> <<>>, unread |-> FALSE,
                   loaded |-> saves, at |-> IF file = None THEN "create" ELSE "load"])
  BY DEF R!Begin, Kinds
<1>2. UNCHANGED <<file, torn, saves, servers, backups, catalog, marker>>
  BY DEF R!Begin, R!Catalogued, R!Unsaved
<1>3. <<>> \in Registries
  BY DEF Registries
<1>4. PICK at \in {"create", "load"} : at = IF file = None THEN "create" ELSE "load"
  OBVIOUS
<1>8. RegistryTyped /\ saves \in Nat
  BY DEF RegistryInv, RegistryTyped
<1>5. [kind |-> kind, name |-> n, paths |-> paths, held |-> <<>>, unread |-> FALSE, loaded |-> saves,
       at |-> at] \in Changes
  BY <1>3, <1>8 DEF Changes, Asking
<1>6. PICK q \in Changes : q = [kind |-> kind, name |-> n, paths |-> paths, held |-> <<>>,
                                unread |-> FALSE, loaded |-> saves, at |-> at]
  BY <1>5
<1>7. R!Step(w, q) /\ q.at = at /\ q.loaded = saves
  BY <1>1, <1>4, <1>6
<1>9. q.at # "create" => file' \in Registries
  BY <1>2, <1>4, <1>7, <1>8 DEF RegistryTyped
<1>10. Knows(q)'
  BY <1>2, <1>4, <1>7, <1>8, KnowsNothing DEF Asking
<1>11. RegistryInv' /\ R!ImportedOnce
  BY <1>2, <1>7, <1>8, <1>9, <1>10, WriterSteps DEF RegistryTyped
<1> QED
  BY <1>2, <1>11, NamesStay

LEMMA CreateStep ==
  ASSUME RegistryInv, R!Create
  PROVE  RegistryInv' /\ R!ImportedOnce /\ R!OnlyOverlapForgets
<1>1. PICK w \in Threads : saving[w].at = "create" /\ R!Step(w, [saving[w] EXCEPT !.at = "fill", !.loaded = saves])
  BY DEF R!Create
<1>2. file' = <<>> /\ torn' = TRUE /\ UNCHANGED <<saves, servers, backups, catalog, marker>>
  BY DEF R!Create, R!Catalogued
<1>3. <<>> \in Registries /\ saves \in Nat
  BY DEF Registries, RegistryInv, RegistryTyped
<1>4. saving[w] \in Changes /\ saving[w] # R!Idle
  BY <1>1, ChangeIs
<1>5. [saving[w] EXCEPT !.at = "fill", !.loaded = saves] \in Changes
  BY <1>3, <1>4 DEF Changes, Asking
<1>6. PICK q \in Changes : q = [saving[w] EXCEPT !.at = "fill", !.loaded = saves]
  BY <1>5
<1>7. R!Step(w, q) /\ q.at = "fill" /\ q.loaded = saves
  BY <1>1, <1>4, <1>6 DEF Changes
<1>11. Knows(q)'
  BY <1>2, <1>3, <1>7, KnowsNothing DEF Asking
<1>8. RegistryInv' /\ R!ImportedOnce
  BY <1>2, <1>3, <1>7, <1>11, WriterSteps
<1>9. saving'[w] # saving[w]
  <2>1. saving'[w] = q
    BY <1>7 DEF R!Step, RegistryInv, RegistryTyped
  <2> QED
    BY <1>1, <1>7, <2>1
<1>10. R!OnlyOverlapForgets
  BY <1>1, <1>4, <1>9 DEF R!OnlyOverlapForgets, R!Overtaken
<1> QED
  BY <1>8, <1>10

LEMMA FillStep ==
  ASSUME RegistryInv, R!Fill
  PROVE  RegistryInv' /\ R!ImportedOnce /\ R!OnlyOverlapForgets
<1>1. PICK w \in Threads : /\ saving[w].at = "fill" /\ R!Step(w, [saving[w] EXCEPT !.at = "load"])
                           /\ torn' = (torn /\ saving[w].loaded # saves)
  BY DEF R!Fill
<1>2. UNCHANGED <<file, saves, servers, backups, catalog, marker>>
  BY DEF R!Fill, R!Catalogued
<1>3. /\ saving[w] \in Changes /\ file \in Registries /\ saves \in Nat
      /\ Knows(saving[w]) /\ torn \in BOOLEAN /\ (torn => file = <<>>)
  BY <1>1, ChangeIs DEF RegistryInv, RegistryTyped
<1>4. [saving[w] EXCEPT !.at = "load"] \in Changes
  BY <1>3 DEF Changes, Asking
<1>5. PICK q \in Changes : q = [saving[w] EXCEPT !.at = "load"]
  BY <1>4
<1>6. R!Step(w, q) /\ q.at = "load" /\ q.loaded \in 0 .. saves
  BY <1>1, <1>3, <1>5 DEF Changes, Knows
<1>7. Knows(q)'
  BY <1>2, <1>3, <1>6, KnowsNothing DEF Asking
<1>8. RegistryInv' /\ R!ImportedOnce
  BY <1>1, <1>2, <1>3, <1>6, <1>7, WriterSteps
<1> QED
  BY <1>2, <1>8, NamesStay

LEMMA LoadStep ==
  ASSUME RegistryInv, R!Load
  PROVE  RegistryInv' /\ R!ImportedOnce /\ R!OnlyOverlapForgets
<1>1. PICK w \in Threads, unread \in BOOLEAN :
        /\ saving[w].at \in {"load", "reload"}
        /\ R!Step(w, [saving[w] EXCEPT !.at = IF saving[w].at = "load" THEN saving[w].kind ELSE "refresh",
                                       !.held = IF unread THEN <<>> ELSE file,
                                       !.unread = unread, !.loaded = saves])
  BY DEF R!Load
<1>2. UNCHANGED <<file, torn, saves, servers, backups, catalog, marker>>
  BY DEF R!Load, R!Catalogued, R!Unsaved
<1>3. RegistryTyped /\ saving[w] \in Changes /\ saving[w].kind \in Kinds /\ file \in Registries /\ saves \in Nat
  BY <1>1, ChangeIs DEF RegistryInv, RegistryTyped
<1>4. PICK at : at = IF saving[w].at = "load" THEN saving[w].kind ELSE "refresh"
  OBVIOUS
<1>5. PICK held \in Registries : held = IF unread THEN <<>> ELSE file
  <2>1. <<>> \in Registries
    BY DEF Registries
  <2> QED
    BY <1>3, <2>1
<1>6. [saving[w] EXCEPT !.at = at, !.held = held, !.unread = unread, !.loaded = saves] \in Changes
  BY <1>3, <1>4 DEF Changes
<1>7. PICK q \in Changes : q = [saving[w] EXCEPT !.at = at, !.held = held, !.unread = unread, !.loaded = saves]
  BY <1>6
<1>8. /\ R!Step(w, q) /\ q.loaded = saves /\ q.unread = unread /\ q.held = held
      /\ q.at \in Kinds => q.at = q.kind
  BY <1>1, <1>3, <1>4, <1>5, <1>7 DEF Changes, Kinds
<1>9. Knows(q)'
  BY <1>2, <1>3, <1>5, <1>8 DEF Knows
<1>10. RegistryInv' /\ R!ImportedOnce
  BY <1>2, <1>3, <1>8, <1>9, WriterSteps DEF RegistryTyped
<1> QED
  BY <1>2, <1>10, NamesStay

(* A writer that ends its change with a save drops only what it was asked  *)
(* to remove, unless it was overtaken or could not read the file.          *)
LEMMA SaveForgets ==
  ASSUME RegistryInv, NEW w \in Threads, saving[w].at \in Kinds \cup {"refresh"}, saving'[w] # saving[w],
         \A j \in DOMAIN saving[w].held :
           ~ R!Asked(saving[w], saving[w].held[j].name) =>
             \E k \in DOMAIN file' : file'[k].name = saving[w].held[j].name
  PROVE  R!OnlyOverlapForgets
<1>1. saving[w] # R!Idle /\ Knows(saving[w])
  <2>1. saving[w].at # "idle"
    BY DEF Kinds
  <2> QED
    BY <2>1, ChangeIs
<1> SUFFICES ASSUME NEW i \in DOMAIN file, R!At(file', file[i].name) = {},
                    ~ R!Asked(saving[w], file[i].name), ~ R!Overtaken(saving[w]), ~ saving[w].unread
             PROVE  FALSE
  BY <1>1 DEF R!OnlyOverlapForgets
<1>2. file = saving[w].held
  BY <1>1 DEF R!Overtaken, Knows
<1>3. \E k \in DOMAIN file' : file'[k].name = file[i].name
  BY <1>2
<1> QED
  BY <1>3 DEF R!At

LEMMA WriterSaves ==
  ASSUME RegistryInv, NEW w \in Threads, saving[w].at \in Kinds \cup {"refresh"}, R!Step(w, R!Idle),
         NEW f \in Registries, R!Save(f), UNCHANGED <<servers, backups, catalog, marker>>,
         \A j \in DOMAIN saving[w].held :
           ~ R!Asked(saving[w], saving[w].held[j].name) => \E k \in DOMAIN f : f[k].name = saving[w].held[j].name
  PROVE  RegistryInv' /\ R!ImportedOnce /\ R!OnlyOverlapForgets
<1>1. file' = f /\ torn' = FALSE /\ saves' = saves + 1
  BY DEF R!Save
<1>2. R!Idle.at = "idle" /\ Knows(R!Idle)'
  BY IdleIs DEF Knows
<1>3. RegistryInv' /\ R!ImportedOnce
  BY <1>1, <1>2, WriterSteps
<1>4. saving'[w] # saving[w]
  BY <1>2, IdleIs DEF R!Step, RegistryInv, RegistryTyped
<1> QED
  BY <1>1, <1>3, <1>4, SaveForgets

LEMMA WriterLeaves ==
  ASSUME RegistryInv, NEW w \in Threads, R!Step(w, R!Idle), R!Unsaved,
         UNCHANGED <<servers, backups, catalog, marker>>
  PROVE  RegistryInv' /\ R!ImportedOnce /\ R!OnlyOverlapForgets
<1>1. RegistryTyped /\ UNCHANGED <<file, torn, saves>>
  BY DEF RegistryInv, R!Unsaved
<1>2. R!Idle.at = "idle" /\ Knows(R!Idle)'
  BY IdleIs DEF Knows
<1>3. RegistryInv' /\ R!ImportedOnce
  BY <1>1, <1>2, WriterSteps DEF RegistryTyped
<1> QED
  BY <1>1, <1>3, NamesStay

LEMMA RegisterStep ==
  ASSUME RegistryInv, R!Register
  PROVE  RegistryInv' /\ R!ImportedOnce /\ R!OnlyOverlapForgets
<1>1. PICK w \in Threads :
        /\ saving[w].at = "register" /\ R!Step(w, R!Idle)
        /\ IF R!Taken(saving[w].held, saving[w].name, saving[w].paths) THEN R!Unsaved
           ELSE R!Save(R!Registered(saving[w].held, saving[w].name, saving[w].paths))
  BY DEF R!Register
<1>2. UNCHANGED <<servers, backups, catalog, marker>>
  BY DEF R!Register, R!Catalogued
<1>3. CASE R!Taken(saving[w].held, saving[w].name, saving[w].paths)
  BY <1>1, <1>2, <1>3, WriterLeaves
<1>4. CASE R!Save(R!Registered(saving[w].held, saving[w].name, saving[w].paths))
  <2>1. PICK f : f = R!Registered(saving[w].held, saving[w].name, saving[w].paths)
    OBVIOUS
  <2>2. saving[w].name \in Services /\ saving[w].paths \in PathLists /\ saving[w].held \in Registries /\ saves \in Nat
    BY <1>1, ChangeIs DEF RegistryInv, RegistryTyped
  <2>3. f \in Registries /\ \A i \in DOMAIN saving[w].held : i \in DOMAIN f /\ f[i].name = saving[w].held[i].name
    BY <2>1, <2>2, RegisteredKeeps
  <2> QED
    BY <1>1, <1>2, <1>4, <2>1, <2>3, WriterSaves DEF Kinds
<1> QED
  BY <1>1, <1>3, <1>4

LEMMA RemovesEntry ==
  ASSUME RegistryInv, NEW w \in Threads, saving[w].at \in {"unregister", "remove"}, R!Step(w, R!Idle),
         R!Save(R!Without(saving[w].held, saving[w].name)), UNCHANGED <<servers, backups, catalog, marker>>
  PROVE  RegistryInv' /\ R!ImportedOnce /\ R!OnlyOverlapForgets
<1>1. saving[w].held \in Registries /\ saving[w].kind \in {"unregister", "remove"} /\ saving[w].at # "idle"
  <2>1. saving[w].at # "idle" /\ saving[w].at \in Kinds
    BY DEF Kinds
  <2> QED
    BY <2>1, ChangeIs
<1>2. PICK f : f = R!Without(saving[w].held, saving[w].name)
  OBVIOUS
<1>3. /\ f \in Registries
      /\ \A i \in DOMAIN saving[w].held :
           saving[w].held[i].name # saving[w].name => \E k \in DOMAIN f : f[k].name = saving[w].held[i].name
  BY <1>1, <1>2, WithoutKeeps
<1>4. \A i \in DOMAIN saving[w].held :
        ~ R!Asked(saving[w], saving[w].held[i].name) => \E k \in DOMAIN f : f[k].name = saving[w].held[i].name
  BY <1>1, <1>3 DEF R!Asked
<1> QED
  BY <1>1, <1>2, <1>3, <1>4, WriterSaves DEF Kinds

LEMMA UnregisterStep ==
  ASSUME RegistryInv, R!Unregister
  PROVE  RegistryInv' /\ R!ImportedOnce /\ R!OnlyOverlapForgets
<1>1. PICK w \in Threads : /\ saving[w].at = "unregister" /\ R!Step(w, R!Idle)
                           /\ R!Save(R!Without(saving[w].held, saving[w].name))
  BY DEF R!Unregister
<1>2. UNCHANGED <<servers, backups, catalog, marker>>
  BY DEF R!Unregister, R!Catalogued
<1> QED
  BY <1>1, <1>2, RemovesEntry

LEMMA RemoveMemberStep ==
  ASSUME RegistryInv, R!RemoveMember
  PROVE  RegistryInv' /\ R!ImportedOnce /\ R!OnlyOverlapForgets
<1>1. PICK w \in Threads :
        /\ saving[w].at = "remove"
        /\ IF saving[w].paths[1] \notin R!MembersOf(saving[w].held, saving[w].name)
           THEN R!Step(w, R!Idle) /\ R!Unsaved
           ELSE IF R!MembersOf(saving[w].held, saving[w].name) = {saving[w].paths[1]}
           THEN R!Step(w, R!Idle) /\ R!Save(R!Without(saving[w].held, saving[w].name))
           ELSE R!Step(w, [saving[w] EXCEPT !.at = "reload"]) /\ R!Unsaved
  BY DEF R!RemoveMember
<1>2. UNCHANGED <<servers, backups, catalog, marker>>
  BY DEF R!RemoveMember, R!Catalogued
<1>3. CASE R!Step(w, R!Idle) /\ R!Unsaved
  BY <1>2, <1>3, WriterLeaves
<1>4. CASE R!Step(w, R!Idle) /\ R!Save(R!Without(saving[w].held, saving[w].name))
  BY <1>1, <1>2, <1>4, RemovesEntry
<1>5. CASE R!Step(w, [saving[w] EXCEPT !.at = "reload"]) /\ R!Unsaved
  <2>1. /\ saving[w] \in Changes /\ file \in Registries /\ saves \in Nat /\ UNCHANGED <<file, torn, saves>>
        /\ RegistryTyped /\ Knows(saving[w])
    BY <1>1, <1>5, ChangeIs DEF RegistryInv, RegistryTyped, R!Unsaved
  <2>2. [saving[w] EXCEPT !.at = "reload"] \in Changes
    BY <2>1 DEF Changes, Asking
  <2>3. PICK q \in Changes : q = [saving[w] EXCEPT !.at = "reload"]
    BY <2>2
  <2>4. R!Step(w, q) /\ q.at = "reload" /\ q.loaded \in 0 .. saves
    BY <1>1, <1>5, <2>1, <2>3 DEF Changes, Knows
  <2>5. Knows(q)'
    BY <2>1, <2>4, KnowsNothing DEF Asking
  <2>6. RegistryInv' /\ R!ImportedOnce
    BY <1>2, <2>1, <2>4, <2>5, WriterSteps DEF RegistryTyped
  <2> QED
    BY <2>1, <2>6, NamesStay
<1> QED
  BY <1>1, <1>3, <1>4, <1>5

LEMMA RefreshStep ==
  ASSUME RegistryInv, R!Refresh
  PROVE  RegistryInv' /\ R!ImportedOnce /\ R!OnlyOverlapForgets
<1>1. PICK w \in Threads :
        /\ saving[w].at = "refresh" /\ R!Step(w, R!Idle)
        /\ IF R!At(saving[w].held, saving[w].name) = {} THEN R!Unsaved
           ELSE R!Save(R!Refreshed(saving[w].held, saving[w].name))
  BY DEF R!Refresh
<1>2. UNCHANGED <<servers, backups, catalog, marker>>
  BY DEF R!Refresh, R!Catalogued
<1>3. CASE R!Unsaved
  BY <1>1, <1>2, <1>3, WriterLeaves
<1>4. CASE R!Save(R!Refreshed(saving[w].held, saving[w].name))
  <2>1. PICK f : f = R!Refreshed(saving[w].held, saving[w].name)
    OBVIOUS
  <2>2. saving[w].held \in Registries /\ saves \in Nat
    BY <1>1, ChangeIs DEF RegistryInv, RegistryTyped
  <2>3. f \in Registries /\ \A i \in DOMAIN saving[w].held : i \in DOMAIN f /\ f[i].name = saving[w].held[i].name
    BY <2>1, <2>2, RefreshedKeeps
  <2> QED
    BY <1>1, <1>2, <1>4, <2>1, <2>3, WriterSaves
<1> QED
  BY <1>1, <1>3, <1>4

(* ------------------------------- the import ---------------------------- *)
LEMMA ServerSteps ==
  ASSUME RegistryInv, UNCHANGED <<file, torn, saving, saves>>, CatalogOK', R!MarkedIsImported',
         NEW s \in Processes, NEW x \in Starts \cup {R!Down, [at |-> "up"], [at |-> "refused"]}, R!Become(s, x),
         backups \subseteq backups', x.at = "commit" => x.raw \in backups'
  PROVE  RegistryInv' /\ R!OnlyOverlapForgets
<1>1. RegistryTyped /\ WritersOK /\ BackedUp
  BY DEF RegistryInv
<1>2. servers' \in [Processes -> Starts \cup {R!Down, [at |-> "up"], [at |-> "refused"]}]
      /\ servers'[s] = x /\ \A i \in Processes : i # s => servers'[i] = servers[i]
  BY <1>1 DEF RegistryTyped, R!Become
<1>3. RegistryTyped' /\ WritersOK'
  BY <1>1, <1>2 DEF RegistryTyped, WritersOK, Knows
<1>4. BackedUp'
  BY <1>1, <1>2 DEF BackedUp
<1> QED
  BY <1>3, <1>4, NamesStay DEF RegistryInv

LEMMA StartingIs ==
  ASSUME RegistryInv, NEW s \in Processes, servers[s].at \in {"backup", "commit"}
  PROVE  servers[s] \in Starts /\ servers[s].raw \in Registries /\ R!Parsed(servers[s].raw)
<1>1. servers[s] \in Starts \cup {R!Down, [at |-> "up"], [at |-> "refused"]}
  BY DEF RegistryInv, RegistryTyped
<1>2. servers[s] \in Starts
  BY <1>1 DEF R!Down
<1> QED
  BY <1>2 DEF Starts

LEMMA CatalogKept ==
  ASSUME RegistryInv, UNCHANGED <<catalog, marker>>, backups \subseteq backups'
  PROVE  CatalogOK' /\ R!MarkedIsImported' /\ R!ImportedOnce
BY DEF RegistryInv, CatalogOK, R!MarkedIsImported, R!ImportedOnce

LEMMA StartStep ==
  ASSUME RegistryInv, R!Start
  PROVE  RegistryInv' /\ R!ImportedOnce /\ R!OnlyOverlapForgets
<1>1. PICK s \in Processes :
        \/ R!Become(s, [at |-> "up"]) \/ R!Become(s, [at |-> "refused"])
        \/ file # None /\ R!Parsed(file) /\ R!Become(s, [at |-> "backup", raw |-> file])
  BY DEF R!Start, R!Importable
<1>2. UNCHANGED <<file, torn, saving, saves, backups, catalog, marker>>
  BY DEF R!Start, R!Unwritten
<1>3. CatalogOK' /\ R!MarkedIsImported' /\ R!ImportedOnce
  BY <1>2, CatalogKept
<1>4. ASSUME NEW x \in {[at |-> "up"], [at |-> "refused"]}, R!Become(s, x) PROVE RegistryInv' /\ R!OnlyOverlapForgets
  BY <1>2, <1>3, <1>4, ServerSteps
<1>5. CASE file # None /\ R!Parsed(file) /\ R!Become(s, [at |-> "backup", raw |-> file])
  <2>1. [at |-> "backup", raw |-> file] \in Starts
    BY <1>5 DEF Starts, RegistryInv, RegistryTyped
  <2> QED
    BY <1>2, <1>3, <1>5, <2>1, ServerSteps
<1> QED
  BY <1>1, <1>3, <1>4, <1>5

LEMMA BackupStep ==
  ASSUME RegistryInv, R!Backup
  PROVE  RegistryInv' /\ R!ImportedOnce /\ R!OnlyOverlapForgets
<1>1. PICK s \in Processes : /\ servers[s].at = "backup" /\ backups' = backups \cup {servers[s].raw}
                             /\ R!Become(s, [servers[s] EXCEPT !.at = "commit"])
  BY DEF R!Backup, R!Copied
<1>2. UNCHANGED <<file, torn, saving, saves, catalog, marker>>
  BY DEF R!Backup, R!Unwritten
<1>3. CatalogOK' /\ R!MarkedIsImported' /\ R!ImportedOnce
  BY <1>1, <1>2, CatalogKept
<1>4. servers[s] \in Starts
  BY <1>1, StartingIs
<1>5. [servers[s] EXCEPT !.at = "commit"] \in Starts
  BY <1>4 DEF Starts
<1>6. PICK x \in Starts : x = [servers[s] EXCEPT !.at = "commit"]
  BY <1>5
<1>7. x.raw \in backups' /\ R!Become(s, x)
  BY <1>1, <1>4, <1>6 DEF Starts
<1>8. backups \subseteq backups'
  BY <1>1
<1> QED
  BY <1>2, <1>3, <1>7, <1>8, ServerSteps

(* Rows that are in conflict with none of the catalog are new to it.       *)
LEMMA NewRows ==
  ASSUME NEW rows, ~ R!Conflicts(rows), CatalogOK, catalog' = catalog \cup rows,
         \A x, y \in rows : x.path = y.path /\ x.path # None => x = y,
         \A x \in rows : R!Scope(x.scope) \in catalog'
  PROVE  CatalogOK' /\ catalog' \ catalog = rows
<1>1. \A x \in rows, y \in catalog : ~ (x.path = y.path /\ (x.path = None => x.scope = y.scope))
  BY DEF R!Conflicts
<1>2. \A x \in rows : x \notin catalog
  BY <1>1
<1>3. ASSUME NEW x \in catalog', NEW y \in catalog', x.path = y.path, x.path # None PROVE x = y
  <2>1. CASE x \in rows /\ y \in rows
    BY <1>3, <2>1
  <2>2. CASE x \in catalog /\ y \in catalog
    BY <1>3, <2>2 DEF CatalogOK
  <2>3. CASE x \in rows /\ y \in catalog
    BY <1>1, <1>3, <2>3
  <2>4. CASE x \in catalog /\ y \in rows
    BY <1>1, <1>3, <2>4
  <2> QED
    BY <2>1, <2>2, <2>3, <2>4
<1>4. \A x \in catalog' : R!Scope(x.scope) \in catalog'
  BY DEF CatalogOK
<1> QED
  BY <1>2, <1>3, <1>4 DEF CatalogOK

LEMMA CommitStep ==
  ASSUME RegistryInv, R!Commit
  PROVE  RegistryInv' /\ R!ImportedOnce /\ R!OnlyOverlapForgets
<1>1. PICK s \in Processes :
        /\ servers[s].at = "commit"
        /\ \/ /\ marker # None /\ R!Become(s, [at |-> IF marker = servers[s].raw THEN "up" ELSE "refused"])
              /\ UNCHANGED <<catalog, marker>>
           \/ R!Become(s, [at |-> "refused"]) /\ UNCHANGED <<catalog, marker>>
           \/ /\ marker = None /\ ~ R!Conflicts(R!Rows(servers[s].raw)) /\ R!Become(s, [at |-> "up"])
              /\ catalog' = catalog \cup R!Rows(servers[s].raw) /\ marker' = servers[s].raw
  BY DEF R!Commit, R!Imported
<1>2. UNCHANGED <<file, torn, saving, saves, backups>>
  BY DEF R!Commit, R!Unwritten
<1>3. ASSUME UNCHANGED <<catalog, marker>>, NEW x \in {[at |-> "up"], [at |-> "refused"]}, R!Become(s, x)
      PROVE  RegistryInv' /\ R!ImportedOnce /\ R!OnlyOverlapForgets
  <2>1. CatalogOK' /\ R!MarkedIsImported' /\ R!ImportedOnce
    BY <1>2, <1>3, CatalogKept
  <2> QED
    BY <1>2, <1>3, <2>1, ServerSteps
<1>4. ASSUME marker = None, ~ R!Conflicts(R!Rows(servers[s].raw)), R!Become(s, [at |-> "up"]),
             catalog' = catalog \cup R!Rows(servers[s].raw), marker' = servers[s].raw
      PROVE  RegistryInv' /\ R!ImportedOnce /\ R!OnlyOverlapForgets
  <2>1. servers[s].raw \in Registries /\ R!Parsed(servers[s].raw) /\ servers[s].raw \in backups
    BY <1>1, StartingIs DEF RegistryInv, BackedUp
  <2>2. PICK rows : rows = R!Rows(servers[s].raw)
    OBVIOUS
  <2>3. /\ \A x, y \in rows : x.path = y.path /\ x.path # None => x = y
        /\ \A x \in rows : R!Scope(x.scope) \in rows
    BY <2>1, <2>2, RowsAre
  <2>4. CatalogOK' /\ catalog' \ catalog = rows
    <3>1. catalog' = catalog \cup rows /\ CatalogOK /\ ~ R!Conflicts(rows)
      BY <1>4, <2>2 DEF RegistryInv
    <3> QED
      BY <2>3, <3>1, NewRows
  <2>5. R!MarkedIsImported'
    <3>1. marker' \in backups' /\ R!Rows(marker') \subseteq catalog'
      BY <1>2, <1>4, <2>1
    <3> QED
      BY <3>1 DEF R!MarkedIsImported
  <2>6. R!ImportedOnce
    BY <1>4, <2>2, <2>4 DEF R!ImportedOnce
  <2> QED
    BY <1>2, <1>4, <2>4, <2>5, <2>6, ServerSteps
<1>5. CASE marker # None /\ R!Become(s, [at |-> IF marker = servers[s].raw THEN "up" ELSE "refused"])
           /\ UNCHANGED <<catalog, marker>>
  BY <1>3, <1>5
<1> QED
  BY <1>1, <1>3, <1>4, <1>5

LEMMA AddRowStep ==
  ASSUME RegistryInv, R!AddRow
  PROVE  RegistryInv' /\ R!ImportedOnce /\ R!OnlyOverlapForgets
<1>1. PICK row \in OwnRows : /\ ~ R!Conflicts({row}) /\ catalog' = catalog \cup {row}
                             /\ row.path # None => R!Scope(row.scope) \in catalog
  BY DEF R!AddRow
<1>2. UNCHANGED <<file, torn, saving, saves, servers, backups, marker>>
  BY DEF R!AddRow, R!Unwritten
<1>3. R!Scope(row.scope) \in catalog'
  <2>1. row \in [scope : Services, path : DOMAIN Basename \cup {None}]
    BY PathsAssumption
  <2>2. CASE row.path = None
    BY <1>1, <2>1, <2>2 DEF R!Scope
  <2> QED
    BY <1>1, <2>2
<1>4. CatalogOK' /\ catalog' \ catalog = {row}
  <2>1. PICK rows : rows = {row}
    OBVIOUS
  <2>2. CatalogOK' /\ catalog' \ catalog = rows
    BY <1>1, <1>3, <2>1, NewRows DEF RegistryInv
  <2> QED
    BY <2>1, <2>2
<1>5. R!MarkedIsImported'
  BY <1>1, <1>2 DEF RegistryInv, R!MarkedIsImported
<1>6. R!ImportedOnce
  <2>1. Cardinality(catalog' \ catalog) = 1
    BY <1>4, FS_Singleton
  <2>2. R!Cardinality(catalog' \ catalog) = 1
    BY <2>1 DEF R!Cardinality, Cardinality
  <2> QED
    BY <1>1, <1>2, <2>2 DEF R!ImportedOnce
<1>7. RegistryTyped' /\ WritersOK' /\ BackedUp'
  BY <1>2 DEF RegistryInv, RegistryTyped, WritersOK, Knows, BackedUp
<1> QED
  BY <1>2, <1>4, <1>5, <1>6, <1>7, NamesStay DEF RegistryInv

LEMMA RegistryCrash ==
  ASSUME RegistryInv, R!Crash
  PROVE  RegistryInv' /\ R!ImportedOnce /\ R!OnlyOverlapForgets
<1>1. R!Unsaved /\ UNCHANGED <<file, torn, saves, backups, catalog, marker>>
  BY DEF R!Crash, R!Unsaved
<1>2. ASSUME NEW s \in Processes, R!Become(s, R!Down), UNCHANGED saving
      PROVE  RegistryInv' /\ R!ImportedOnce /\ R!OnlyOverlapForgets
  <2>1. CatalogOK' /\ R!MarkedIsImported' /\ R!ImportedOnce
    BY <1>1, CatalogKept
  <2>2. R!Down.at # "commit"
    BY DEF R!Down
  <2> QED
    BY <1>1, <1>2, <2>1, <2>2, ServerSteps
<1>3. ASSUME NEW w \in Threads, R!Step(w, R!Idle), UNCHANGED servers
      PROVE  RegistryInv' /\ R!ImportedOnce /\ R!OnlyOverlapForgets
  BY <1>1, <1>3, WriterLeaves
<1> QED
  BY <1>2, <1>3 DEF R!Crash

LEMMA RegistryStep ==
  ASSUME RegistryInv, R!Next
  PROVE  RegistryInv' /\ R!ImportedOnce /\ R!OnlyOverlapForgets
BY BeginStep, CreateStep, FillStep, LoadStep, RegisterStep, UnregisterStep, RemoveMemberStep, RefreshStep,
   StartStep, BackupStep, CommitStep, AddRowStep, RegistryCrash DEF R!Next

LEMMA RegistrySame ==
  ASSUME RegistryInv, UNCHANGED registering
  PROVE  RegistryInv'
BY DEF RegistryInv, RegistryTyped, WritersOK, Knows, BackedUp, CatalogOK, R!MarkedIsImported, registering

LEMMA RegistryInit ==
  ASSUME R!Init
  PROVE  RegistryInv
<1> USE DEF R!Init
<1>1. RegistryTyped
  BY DEF RegistryTyped
<1>2. WritersOK /\ BackedUp
  BY IdleIs DEF WritersOK, Knows, BackedUp, R!Down
<1>3. CatalogOK /\ R!MarkedIsImported
  BY DEF CatalogOK, R!MarkedIsImported
<1> QED
  BY <1>1, <1>2, <1>3 DEF RegistryInv

LEMMA RegistryTypeLater ==
  ASSUME RegistryInv'
  PROVE  R!TypeOK'
<1>1. file' \in Registries \cup {None} /\ CatalogOK' /\ (torn' => file' = <<>>)
  BY DEF RegistryInv, RegistryTyped
<1>2. ASSUME file' # None, NEW i \in DOMAIN file'
      PROVE  /\ R!At(file', file'[i].name) = {i} /\ R!Members(file'[i]) \subseteq R!Paths
             /\ R!IsInjective(file'[i].members) /\ file'[i].members # <<>>
  <2>1. PICK e \in Registries : e = file'
    BY <1>1, <1>2
  <2>2. /\ EntryOK(e[i]) /\ e[i].members \in Seq(DOMAIN Basename)
        /\ \A j \in DOMAIN e : e[j].name = e[i].name => j = i
    BY <1>2, <2>1, RegistryIs
  <2>3. R!At(e, e[i].name) = {i}
    BY <1>2, <2>1, <2>2 DEF R!At
  <2>4. R!Members(e[i]) \subseteq R!Paths
    BY <2>2 DEF R!Members, R!Range, R!Paths
  <2>5. R!IsInjective(e[i].members) /\ e[i].members # <<>>
    BY <2>2 DEF EntryOK, Distinct, R!IsInjective
  <2> QED
    BY <2>1, <2>3, <2>4, <2>5
<1> QED
  BY <1>1, <1>2 DEF R!TypeOK, CatalogOK

RegistryHolds == focus = "registry" => RegistryInv

LEMMA RegistryHoldsInit == Init => RegistryHolds
BY RegistryInit DEF Init, RegistryHolds

LEMMA RegistryHoldsStep ==
  RegistryHolds /\ [Next]_vars => RegistryHolds'
<1> SUFFICES ASSUME RegistryHolds, [Next]_vars,
                    focus' = "registry"
             PROVE  RegistryInv'
  BY DEF RegistryHolds
<1>1. focus = "registry" /\ RegistryInv
  BY DEF Next, vars, RegistryHolds
<1>2. CASE R!Next
  BY <1>1, <1>2, RegistryStep
<1>3. CASE UNCHANGED vars
  BY <1>1, <1>3, RegistrySame DEF vars, keeping
<1> QED
  BY <1>1, <1>2, <1>3 DEF Next, keeping

(* No step of a writer, an import or a crash loses a service that was      *)
(* registered: the file forgets a name only for a writer that was asked to *)
(* remove it, that was overtaken by another's save, or that could not read *)
(* the file; the catalog takes in one file at most; and what is marked as  *)
(* imported is backed up and in the catalog.  For any number of writers,   *)
(* of services that start, and of repositories.                            *)
THEOREM RegistryIsKeptHolds == Spec => RegistryIsKept
<1>1. RegistryHolds /\ [Next]_vars
        => [R!NothingIsForgotten]_registering
  <2> SUFFICES ASSUME RegistryHolds, [Next]_vars,
                      ~ UNCHANGED registering
               PROVE  R!NothingIsForgotten
    OBVIOUS
  <2>1. focus = "registry" /\ R!Next
    BY DEF Next, vars, keeping
  <2>2. RegistryInv' /\ R!ImportedOnce /\ R!OnlyOverlapForgets
    BY <2>1, RegistryStep DEF RegistryHolds
  <2>3. R!MarkedIsImported'
    BY <2>2 DEF RegistryInv
  <2> QED
    BY <2>2, <2>3, RegistryTypeLater DEF R!NothingIsForgotten
<1> QED
  BY <1>1, RegistryHoldsInit, RegistryHoldsStep, PTL DEF Spec, RegistryIsKept

-----------------------------------------------------------------------------
(* Recordings.  The page holds the last of what the user has done, and a   *)
(* request a stretch of it; what is written, held and in the page is       *)
(* apart, and what is nowhere was lost or filled in again.                 *)
Sources == [target : Nat, status : {"recording", "recorded"}]
StepRows == [recording : Nat, sequence : Nat, number : Nat]
Collecting == [kind : {"collect", "stop"}, recording : Nat, held : Seq(Nat),
               at : {"export", "append", "leave", "finish"}]

UiTyped ==
    /\ targets \in Seq([name : Pages, origin : Origins])
    /\ recordings \in Seq(Sources) /\ done \in Seq(Seq(Fields \cup {Click})) /\ page \in Seq(Seq(Nat))
    /\ recorder \in Seq(BOOLEAN) /\ steps \in Seq(StepRows)
    /\ Len(done) = Len(recordings) /\ Len(page) = Len(recordings) /\ Len(recorder) = Len(recordings)
    /\ requests = [t \in Threads |-> requests[t]]
TargetsOK ==
    /\ \A i, j \in DOMAIN targets : targets[i].name = targets[j].name => i = j
    /\ \A r \in DOMAIN recordings : recordings[r].target \in DOMAIN targets
RecorderOK == \A r \in DOMAIN recordings : recordings[r].status = "recorded" => ~ recorder[r]
StepsOK ==
    \A i \in DOMAIN steps : /\ steps[i].recording \in DOMAIN recordings
                            /\ steps[i].number \in DOMAIN done[steps[i].recording] \cup {0}

Stretch(s, last, b) == b + Len(s) <= last /\ \A k \in DOMAIN s : s[k] = b + k
PageOK ==
    \A r \in DOMAIN recordings :
      /\ Len(page[r]) <= Len(done[r])
      /\ Stretch(page[r], Len(done[r]), Len(done[r]) - Len(page[r]))
Collects(q) ==
    /\ q \in Collecting /\ q.recording \in DOMAIN recordings
    /\ q.at # "append" => q.held = <<>>
    /\ q.at = "finish" => ~ recorder[q.recording]
    /\ \E b \in Nat : Stretch(q.held, Len(done[q.recording]), b)
Replays(q) == q.kind = "replay" /\ DOMAIN q = {"kind", "run", "todo", "at"}
RequestsOK == \A t \in Threads : requests[t] = V!Idle \/ Replays(requests[t]) \/ Collects(requests[t])

InPage(r, n) == r \in DOMAIN recordings /\ \E k \in DOMAIN page[r] : page[r][k] = n
InSteps(r, n) == \E i \in DOMAIN steps : steps[i].recording = r /\ steps[i].number = n
InHand(t, r, n) ==
    "held" \in DOMAIN requests[t] /\ requests[t].recording = r /\ \E k \in DOMAIN requests[t].held : requests[t].held[k] = n
Again(r, n) == done[r][n] # Click /\ n + 1 \in DOMAIN done[r] /\ done[r][n + 1] = done[r][n]
Apart ==
    /\ \A i, j \in DOMAIN steps :
         steps[i].recording = steps[j].recording /\ steps[i].number = steps[j].number /\ steps[i].number # 0 => i = j
    /\ \A r, n \in Nat : InPage(r, n) => ~ InSteps(r, n)
    /\ \A r, n \in Nat, t \in Threads : InHand(t, r, n) => ~ InPage(r, n) /\ ~ InSteps(r, n)
    /\ \A r, n \in Nat, t, u \in Threads : InHand(t, r, n) /\ InHand(u, r, n) => t = u
Kept ==
    \A r \in DOMAIN recordings : \A n \in DOMAIN done[r] :
      \/ InPage(r, n) \/ InSteps(r, n) \/ V!Of(r, n) \in lost \/ \E t \in Threads : InHand(t, r, n)
      \/ Again(r, n)
Numbered ==
    \A r \in DOMAIN recordings :
      {steps[i].sequence : i \in V!StepsOf(r)} = 1 .. Cardinality(V!StepsOf(r))
UiInv ==
    /\ UiTyped /\ TargetsOK /\ RecorderOK /\ StepsOK /\ PageOK /\ RequestsOK
    /\ Apart /\ Kept /\ Numbered

LEMMA Element ==
  ASSUME NEW T, NEW s \in Seq(T), NEW i \in DOMAIN s
  PROVE  s[i] \in T
OBVIOUS

LEMMA Changed ==
  ASSUME NEW T, NEW s \in Seq(T), NEW i \in DOMAIN s, NEW e \in T
  PROVE  [s EXCEPT ![i] = e] \in Seq(T) /\ Len([s EXCEPT ![i] = e]) = Len(s)
OBVIOUS

LEMMA Added ==
  ASSUME NEW T, NEW s \in Seq(T), NEW e \in T
  PROVE  /\ Append(s, e) \in Seq(T) /\ Len(Append(s, e)) = Len(s) + 1
         /\ DOMAIN Append(s, e) = DOMAIN s \cup {Len(s) + 1}
         /\ \A i \in DOMAIN s : Append(s, e)[i] = s[i]
         /\ Append(s, e)[Len(s) + 1] = e
OBVIOUS

(* Where the actions of the user are, when requests only drop what they    *)
(* hold, and what they drop is lost.                                       *)
LEMMA OnlyDrops ==
  ASSUME UiInv, DOMAIN recordings' = DOMAIN recordings, UNCHANGED <<steps, done, page>>, lost \subseteq lost',
         \A r, n \in Nat, t \in Threads : InHand(t, r, n)' => InHand(t, r, n),
         \A r, n \in Nat, t \in Threads : InHand(t, r, n) => InHand(t, r, n)' \/ V!Of(r, n) \in lost'
  PROVE  StepsOK' /\ PageOK' /\ Apart' /\ Kept' /\ Numbered'
<1>1. StepsOK' /\ PageOK'
  BY DEF UiInv, StepsOK, PageOK
<1>2. Numbered'
  <2>1. \A r \in DOMAIN recordings : V!StepsOf(r)' = V!StepsOf(r)
    BY DEF V!StepsOf
  <2>2. \A r \in DOMAIN recordings : {steps[i].sequence : i \in V!StepsOf(r)} = 1 .. Cardinality(V!StepsOf(r))
    BY DEF UiInv, Numbered
  <2> QED
    BY <2>1, <2>2 DEF Numbered
<1>3. /\ \A r, n : InPage(r, n)' <=> InPage(r, n)
      /\ \A r, n : InSteps(r, n)' <=> InSteps(r, n)
      /\ \A r, n : Again(r, n)' <=> Again(r, n)
  BY DEF InPage, InSteps, Again
<1>4. Apart'
  <2>1. \A r, n \in Nat, t, u \in Threads : InHand(t, r, n)' /\ InHand(u, r, n)' => t = u
    BY DEF UiInv, Apart
  <2>2. \A r, n \in Nat, t \in Threads : InHand(t, r, n)' => ~ InPage(r, n)' /\ ~ InSteps(r, n)'
    BY <1>3 DEF UiInv, Apart
  <2> QED
    BY <1>3, <2>1, <2>2 DEF UiInv, Apart
<1>5. Kept'
  <2>1. \A r \in DOMAIN recordings : r \in Nat /\ \A n \in DOMAIN done[r] : n \in Nat
    <3>1. recordings \in Seq(Sources) /\ done \in Seq(Seq(Fields \cup {Click})) /\ DOMAIN done = DOMAIN recordings
      BY DEF UiInv, UiTyped
    <3>2. \A r \in DOMAIN recordings : done[r] \in Seq(Fields \cup {Click})
      BY <3>1, Element
    <3> QED
      BY <3>1, <3>2
  <2>2. ASSUME NEW r \in DOMAIN recordings, NEW n \in DOMAIN done[r]
        PROVE  \/ InPage(r, n)' \/ InSteps(r, n)' \/ (V!Of(r, n) \in lost)' \/ (\E t \in Threads : InHand(t, r, n)')
               \/ Again(r, n)'
    <3>1. r \in Nat /\ n \in Nat
      BY <2>1
    <3>2. \/ InPage(r, n) \/ InSteps(r, n) \/ V!Of(r, n) \in lost \/ \E t \in Threads : InHand(t, r, n)
          \/ Again(r, n)
      BY DEF UiInv, Kept
    <3>3. V!Of(r, n)' = V!Of(r, n)
      BY DEF V!Of
    <3> QED
      BY <1>3, <3>1, <3>2, <3>3
  <2> QED
    BY <2>2 DEF Kept
<1> QED
  BY <1>1, <1>2, <1>4, <1>5

(* What the actions that only touch targets leave alone. *)
LEMMA RestStays ==
  ASSUME UiInv, UNCHANGED <<recordings, steps, done, page, recorder, requests, lost>>
  PROVE  RecorderOK' /\ StepsOK' /\ PageOK' /\ RequestsOK' /\ Apart' /\ Kept' /\ Numbered'
<1>1. RecorderOK' /\ RequestsOK'
  BY DEF UiInv, RecorderOK, RequestsOK, Collects
<1>2. \A r, n \in Nat, t \in Threads : InHand(t, r, n)' <=> InHand(t, r, n)
  BY DEF InHand
<1> QED
  BY <1>1, <1>2, OnlyDrops

LEMMA AddTargetKeeps ==
  ASSUME UiInv, V!AddTarget
  PROVE  UiInv'
<1>1. PICK name \in Pages, origin \in Origins :
        targets' = IF V!Registered(name) = {} THEN Append(targets, [name |-> name, origin |-> origin])
                   ELSE [i \in DOMAIN targets |->
                           IF i \in V!Registered(name) THEN [targets[i] EXCEPT !.origin = origin] ELSE targets[i]]
  BY DEF V!AddTarget
<1>2. UNCHANGED <<recordings, steps, runs, done, page, recorder, requests, lost, crashes>>
  BY DEF V!AddTarget
<1>3. targets \in Seq([name : Pages, origin : Origins]) /\ TargetsOK
  BY DEF UiInv, UiTyped
<1>4. targets' \in Seq([name : Pages, origin : Origins]) /\ TargetsOK'
  <2>1. CASE V!Registered(name) = {}
    <3>1. PICK e \in [name : Pages, origin : Origins] : e = [name |-> name, origin |-> origin]
      OBVIOUS
    <3>2. targets' = Append(targets, e) /\ e.name = name
      BY <1>1, <2>1, <3>1
    <3>3. \A i \in DOMAIN targets : targets[i].name # name
      BY <2>1 DEF V!Registered
    <3> QED
      BY <1>2, <1>3, <3>2, <3>3, Added DEF TargetsOK
  <2>2. CASE V!Registered(name) # {}
    <3>1. targets' = [i \in DOMAIN targets |->
                        IF i \in V!Registered(name) THEN [targets[i] EXCEPT !.origin = origin] ELSE targets[i]]
      BY <1>1, <2>2
    <3>2. \A i \in DOMAIN targets : targets'[i] \in [name : Pages, origin : Origins] /\ targets'[i].name = targets[i].name
      <4>1. \A i \in DOMAIN targets : targets[i] \in [name : Pages, origin : Origins]
        BY <1>3, Element
      <4>2. \A e \in [name : Pages, origin : Origins] :
              /\ [e EXCEPT !.origin = origin] \in [name : Pages, origin : Origins]
              /\ [e EXCEPT !.origin = origin].name = e.name
        OBVIOUS
      <4> QED
        BY <3>1, <4>1, <4>2
    <3>3. DOMAIN targets' = DOMAIN targets
      BY <3>1
    <3>4. targets' \in Seq([name : Pages, origin : Origins])
      <4>1. targets' \in [1 .. Len(targets) -> [name : Pages, origin : Origins]]
        BY <1>3, <3>1, <3>2
      <4> QED
        BY <1>3, <4>1
    <3> QED
      BY <1>2, <1>3, <3>2, <3>3, <3>4 DEF TargetsOK
  <2> QED
    BY <2>1, <2>2
<1>5. UiTyped'
  BY <1>2, <1>4 DEF UiInv, UiTyped
<1> QED
  BY <1>2, <1>4, <1>5, RestStays DEF UiInv

(* A recording begins: it has nothing yet. *)
LEMMA StartRecordingKeeps ==
  ASSUME UiInv, V!StartRecording
  PROVE  UiInv'
<1>1. PICK target \in DOMAIN targets : recordings' = Append(recordings, [target |-> target, status |-> "recording"])
  BY DEF V!StartRecording
<1>2. /\ done' = Append(done, <<>>) /\ page' = Append(page, <<>>) /\ recorder' = Append(recorder, TRUE)
      /\ UNCHANGED <<targets, steps, runs, requests, lost, crashes>>
  BY DEF V!StartRecording
<1>3. UiTyped /\ TargetsOK /\ RecorderOK /\ StepsOK /\ PageOK /\ RequestsOK /\ Apart /\ Kept /\ Numbered
  BY DEF UiInv
<1>4. recordings \in Seq(Sources) /\ Len(done) = Len(recordings) /\ Len(page) = Len(recordings) /\ Len(recorder) = Len(recordings)
  BY <1>3 DEF UiTyped
<1>20. PICK new \in Nat : new = Len(recordings) + 1
  BY <1>4
<1>5. PICK row \in Sources : row = [target |-> target, status |-> "recording"]
  <2>1. target \in Nat
    BY <1>3 DEF UiTyped
  <2> QED
    BY <2>1 DEF Sources
<1>6. /\ recordings' \in Seq(Sources) /\ Len(recordings') = new /\ DOMAIN recordings' = DOMAIN recordings \cup {new}
      /\ recordings'[new] = row /\ \A r \in DOMAIN recordings : recordings'[r] = recordings[r]
  BY <1>1, <1>4, <1>5, <1>20, Added
<1>7. /\ done' \in Seq(Seq(Fields \cup {Click})) /\ Len(done') = new
      /\ done'[new] = <<>> /\ \A r \in DOMAIN recordings : done'[r] = done[r]
  <2>1. <<>> \in Seq(Fields \cup {Click}) /\ done \in Seq(Seq(Fields \cup {Click})) /\ DOMAIN done = DOMAIN recordings
    BY <1>3 DEF UiTyped
  <2> QED
    BY <1>2, <1>4, <1>20, <2>1, Added
<1>8. /\ page' \in Seq(Seq(Nat)) /\ Len(page') = new
      /\ page'[new] = <<>> /\ \A r \in DOMAIN recordings : page'[r] = page[r]
  <2>1. <<>> \in Seq(Nat) /\ page \in Seq(Seq(Nat)) /\ DOMAIN page = DOMAIN recordings
    BY <1>3 DEF UiTyped
  <2> QED
    BY <1>2, <1>4, <1>20, <2>1, Added
<1>9. /\ recorder' \in Seq(BOOLEAN) /\ Len(recorder') = new
      /\ \A r \in DOMAIN recordings : recorder'[r] = recorder[r]
  <2>1. TRUE \in BOOLEAN /\ recorder \in Seq(BOOLEAN) /\ DOMAIN recorder = DOMAIN recordings
    BY <1>3 DEF UiTyped
  <2>2. PICK flag \in BOOLEAN : flag = TRUE
    OBVIOUS
  <2>3. recorder' = Append(recorder, flag)
    BY <1>2, <2>2
  <2> QED
    BY <1>4, <1>20, <2>1, <2>3, Added
<1>10. UiTyped'
  BY <1>2, <1>3, <1>6, <1>7, <1>8, <1>9 DEF UiTyped
<1>11. TargetsOK' /\ RecorderOK' /\ StepsOK'
  BY <1>1, <1>2, <1>3, <1>5, <1>6, <1>7, <1>9 DEF TargetsOK, RecorderOK, StepsOK
<1>12. PageOK'
  <2>1. Len(page'[new]) = 0 /\ Len(done'[new]) = 0 /\ DOMAIN page'[new] = {}
    BY <1>7, <1>8
  <2>2. Len(page'[new]) <= Len(done'[new]) /\ Stretch(page'[new], Len(done'[new]), Len(done'[new]) - Len(page'[new]))
    BY <2>1 DEF Stretch
  <2>3. \A r \in DOMAIN recordings : page'[r] = page[r] /\ done'[r] = done[r]
    BY <1>7, <1>8
  <2> QED
    BY <1>3, <1>6, <2>2, <2>3 DEF PageOK
<1>13. RequestsOK'
  BY <1>2, <1>3, <1>6, <1>7, <1>9 DEF RequestsOK, Collects, Replays
<1>14. /\ \A r, n \in Nat : InPage(r, n)' <=> InPage(r, n)
       /\ \A r, n \in Nat : InSteps(r, n)' <=> InSteps(r, n)
       /\ \A r, n \in Nat, t \in Threads : InHand(t, r, n)' <=> InHand(t, r, n)
  <2>1. DOMAIN page'[new] = {}
    BY <1>8
  <2>2. \A r, n \in Nat : InPage(r, n)' <=> InPage(r, n)
    BY <1>6, <1>8, <2>1 DEF InPage
  <2>3. \A r, n \in Nat : InSteps(r, n)' <=> InSteps(r, n)
    BY <1>2 DEF InSteps
  <2>4. \A r, n \in Nat, t \in Threads : InHand(t, r, n)' <=> InHand(t, r, n)
    BY <1>2 DEF InHand
  <2> QED
    BY <2>2, <2>3, <2>4
<1>15. Apart'
  BY <1>2, <1>3, <1>14 DEF Apart
<1>16. Kept'
  <2>1. \A r \in DOMAIN recordings : r \in Nat /\ \A n \in DOMAIN done[r] : n \in Nat /\ (Again(r, n) => Again(r, n)')
    <3>1. \A r \in DOMAIN recordings : r \in Nat /\ done[r] \in Seq(Fields \cup {Click}) /\ done'[r] = done[r]
      <4>1. done \in Seq(Seq(Fields \cup {Click})) /\ DOMAIN done = DOMAIN recordings
        BY <1>3, <1>4 DEF UiTyped
      <4>2. \A r \in DOMAIN recordings : r \in Nat
        BY <1>4
      <4> QED
        BY <1>7, <4>1, <4>2, Element
    <3> QED
      BY <3>1 DEF Again
  <2>2. DOMAIN done'[new] = {}
    BY <1>7
  <2>3. \A r \in DOMAIN recordings : DOMAIN done'[r] = DOMAIN done[r]
    BY <1>7
  <2>4. ASSUME NEW r \in DOMAIN recordings, NEW n \in DOMAIN done[r]
        PROVE  \/ InPage(r, n)' \/ InSteps(r, n)' \/ (V!Of(r, n) \in lost)' \/ (\E t \in Threads : InHand(t, r, n)')
               \/ Again(r, n)'
    <3>1. r \in Nat /\ n \in Nat /\ (Again(r, n) => Again(r, n)')
      BY <2>1
    <3>2. \/ InPage(r, n) \/ InSteps(r, n) \/ V!Of(r, n) \in lost \/ \E t \in Threads : InHand(t, r, n)
          \/ Again(r, n)
      BY <1>3 DEF Kept
    <3> QED
      BY <1>2, <1>14, <3>1, <3>2
  <2> QED
    BY <1>6, <2>2, <2>3, <2>4 DEF Kept
<1>17. Numbered'
  <2>1. \A r \in DOMAIN recordings : V!StepsOf(r)' = V!StepsOf(r)
    BY <1>2 DEF V!StepsOf
  <2>2. new \notin DOMAIN recordings
    BY <1>4, <1>20
  <2>3. V!StepsOf(new)' = {}
    BY <1>2, <1>3, <2>2 DEF V!StepsOf, StepsOK
  <2>4. {steps'[i].sequence : i \in V!StepsOf(new)'} = 1 .. Cardinality(V!StepsOf(new)')
    BY <2>3, FS_EmptySet
  <2>5. ASSUME NEW r \in DOMAIN recordings
        PROVE  {steps'[i].sequence : i \in V!StepsOf(r)'} = 1 .. Cardinality(V!StepsOf(r)')
    <3>1. {steps[i].sequence : i \in V!StepsOf(r)} = 1 .. Cardinality(V!StepsOf(r))
      BY <1>3 DEF Numbered
    <3> QED
      BY <1>2, <2>1, <3>1
  <2> QED
    BY <1>6, <2>4, <2>5 DEF Numbered
<1> QED
  BY <1>10, <1>11, <1>12, <1>13, <1>15, <1>16, <1>17 DEF UiInv

LEMMA Tails ==
  ASSUME NEW a \in Nat, NEW b \in Nat, b <= a
  PROVE  /\ a - b \in Nat /\ (a - b) + b = a /\ (a + 1) - (b + 1) = a - b
         /\ ((a + 1) - (b + 1)) + (b + 1) = a + 1
         /\ \A k \in 1 .. b : (a - b) + k \in 1 .. a
OBVIOUS

(* What is in hand or written has been done. *)
LEMMA DoneBefore ==
  ASSUME UiInv, NEW r \in Nat, NEW n \in Nat
  PROVE  /\ InPage(r, n) => n \in DOMAIN done[r]
         /\ InSteps(r, n) => r \in DOMAIN recordings /\ n \in DOMAIN done[r] \cup {0}
         /\ \A t \in Threads : InHand(t, r, n) => r \in DOMAIN recordings /\ n \in DOMAIN done[r]
<1>1. UiTyped /\ StepsOK /\ PageOK /\ RequestsOK
  BY DEF UiInv
<1>2. \A x \in DOMAIN recordings : page[x] \in Seq(Nat) /\ done[x] \in Seq(Fields \cup {Click})
  <2>1. /\ page \in Seq(Seq(Nat)) /\ done \in Seq(Seq(Fields \cup {Click}))
        /\ DOMAIN page = DOMAIN recordings /\ DOMAIN done = DOMAIN recordings
    BY <1>1 DEF UiTyped
  <2> QED
    BY <2>1, Element
<1>3. InPage(r, n) => n \in DOMAIN done[r]
  <2> SUFFICES ASSUME InPage(r, n)
               PROVE  n \in DOMAIN done[r]
    OBVIOUS
  <2>1. r \in DOMAIN recordings
    BY DEF InPage
  <2>2. PICK k \in DOMAIN page[r] : page[r][k] = n
    BY DEF InPage
  <2>3. Len(page[r]) \in Nat /\ Len(done[r]) \in Nat /\ DOMAIN done[r] = 1 .. Len(done[r]) /\ k \in 1 .. Len(page[r])
    BY <1>2, <2>1, <2>2
  <2>4. n = (Len(done[r]) - Len(page[r])) + k /\ Len(page[r]) <= Len(done[r])
    BY <1>1, <2>1, <2>2 DEF PageOK, Stretch
  <2>5. (Len(done[r]) - Len(page[r])) + k \in 1 .. Len(done[r])
    BY <2>3, <2>4, Tails
  <2> QED
    BY <2>3, <2>4, <2>5
<1>4. InSteps(r, n) => r \in DOMAIN recordings /\ n \in DOMAIN done[r] \cup {0}
  BY <1>1 DEF InSteps, StepsOK
<1>5. ASSUME NEW t \in Threads, InHand(t, r, n)
      PROVE  r \in DOMAIN recordings /\ n \in DOMAIN done[r]
  <2>1. requests[t] # V!Idle /\ ~ Replays(requests[t])
    BY <1>5 DEF InHand, V!Idle, Replays
  <2>2. Collects(requests[t])
    BY <1>1, <2>1 DEF RequestsOK
  <2>3. r \in DOMAIN recordings /\ requests[t].held \in Seq(Nat)
    BY <1>5, <2>2 DEF InHand, Collects, Collecting
  <2>4. PICK b \in Nat : Stretch(requests[t].held, Len(done[r]), b)
    BY <1>5, <2>2 DEF InHand, Collects
  <2>5. PICK k \in DOMAIN requests[t].held : requests[t].held[k] = n
    BY <1>5 DEF InHand
  <2> QED
    BY <1>2, <2>3, <2>4, <2>5 DEF Stretch
<1> QED
  BY <1>3, <1>4, <1>5

(* What the user does is new: it is in the page and nowhere else. *)
LEMMA ActKeeps ==
  ASSUME UiInv, V!Act
  PROVE  UiInv'
<1>1. PICK r0 \in DOMAIN recordings, what \in Fields \cup {Click} :
        /\ recorder[r0] = TRUE
        /\ done' = [done EXCEPT ![r0] = Append(@, what)]
        /\ page' = [page EXCEPT ![r0] = Append(@, Len(done[r0]) + 1)]
  BY DEF V!Act
<1>2. UNCHANGED <<targets, recordings, steps, runs, recorder, requests, lost, crashes>>
  BY DEF V!Act
<1>3. UiTyped /\ TargetsOK /\ RecorderOK /\ StepsOK /\ PageOK /\ RequestsOK /\ Apart /\ Kept /\ Numbered
  BY DEF UiInv
<1>4. /\ done \in Seq(Seq(Fields \cup {Click})) /\ page \in Seq(Seq(Nat))
      /\ DOMAIN done = DOMAIN recordings /\ DOMAIN page = DOMAIN recordings /\ DOMAIN recordings \subseteq Nat
  BY <1>3 DEF UiTyped
<1>5. \A r \in DOMAIN recordings : done[r] \in Seq(Fields \cup {Click}) /\ page[r] \in Seq(Nat)
  BY <1>4, Element
<1>6. PICK n0 \in Nat : n0 = Len(done[r0]) + 1
  BY <1>5
<1>7. PICK d \in Seq(Fields \cup {Click}) : d = Append(done[r0], what)
  BY <1>5, Added
<1>8. PICK p \in Seq(Nat) : p = Append(page[r0], n0)
  BY <1>5, Added
<1>9. /\ Len(d) = n0 /\ DOMAIN d = DOMAIN done[r0] \cup {n0} /\ \A n \in DOMAIN done[r0] : d[n] = done[r0][n]
      /\ Len(p) = Len(page[r0]) + 1 /\ DOMAIN p = DOMAIN page[r0] \cup {Len(page[r0]) + 1}
      /\ p[Len(page[r0]) + 1] = n0 /\ \A k \in DOMAIN page[r0] : p[k] = page[r0][k]
  <2>1. Len(d) = n0 /\ DOMAIN d = DOMAIN done[r0] \cup {n0} /\ \A n \in DOMAIN done[r0] : d[n] = done[r0][n]
    BY <1>5, <1>6, <1>7, Added
  <2>2. /\ Len(p) = Len(page[r0]) + 1 /\ DOMAIN p = DOMAIN page[r0] \cup {Len(page[r0]) + 1}
        /\ p[Len(page[r0]) + 1] = n0 /\ \A k \in DOMAIN page[r0] : p[k] = page[r0][k]
    BY <1>5, <1>8, Added
  <2> QED
    BY <2>1, <2>2
<1>10. done' = [done EXCEPT ![r0] = d] /\ page' = [page EXCEPT ![r0] = p]
  BY <1>1, <1>4, <1>6, <1>7, <1>8
<1>11. /\ done' \in Seq(Seq(Fields \cup {Click})) /\ Len(done') = Len(done)
       /\ page' \in Seq(Seq(Nat)) /\ Len(page') = Len(page)
  BY <1>4, <1>10, Changed
<1>12. /\ done'[r0] = d /\ page'[r0] = p
       /\ \A r \in DOMAIN recordings : r # r0 => done'[r] = done[r] /\ page'[r] = page[r]
  BY <1>4, <1>10
<1>13. UiTyped'
  BY <1>2, <1>3, <1>11 DEF UiTyped
<1>14. TargetsOK' /\ RecorderOK'
  BY <1>2, <1>3 DEF TargetsOK, RecorderOK
<1>15. \A r \in DOMAIN recordings : DOMAIN done[r] \subseteq DOMAIN done'[r] /\ Len(done[r]) <= Len(done'[r])
  <2>1. DOMAIN done[r0] \subseteq DOMAIN done'[r0] /\ Len(done[r0]) <= Len(done'[r0])
    <3>1. DOMAIN done[r0] \subseteq DOMAIN d /\ Len(d) = n0
      BY <1>9
    <3>2. Len(done[r0]) <= n0
      BY <1>5, <1>6
    <3> QED
      BY <1>12, <3>1, <3>2
  <2>2. \A r \in DOMAIN recordings : Len(done[r]) \in Nat
    BY <1>5
  <2> QED
    BY <1>12, <2>1, <2>2
<1>16. StepsOK'
  BY <1>2, <1>3, <1>15 DEF StepsOK
<1>17. PageOK'
  <2>1. Len(p) <= Len(d) /\ Stretch(p, Len(d), Len(d) - Len(p))
    <3>1. Len(page[r0]) <= Len(done[r0]) /\ Stretch(page[r0], Len(done[r0]), Len(done[r0]) - Len(page[r0]))
      BY <1>3 DEF PageOK
    <3>2. Len(d) - Len(p) = Len(done[r0]) - Len(page[r0]) /\ Len(done[r0]) \in Nat /\ Len(page[r0]) \in Nat
      <4>1. Len(done[r0]) \in Nat /\ Len(page[r0]) \in Nat
        BY <1>5
      <4> QED
        BY <1>6, <1>9, <3>1, <4>1, Tails
    <3>3. \A k \in DOMAIN page[r0] : p[k] = (Len(d) - Len(p)) + k
      BY <1>9, <3>1, <3>2 DEF Stretch
    <3>4. p[Len(page[r0]) + 1] = (Len(d) - Len(p)) + (Len(page[r0]) + 1)
      <4>1. p[Len(page[r0]) + 1] = n0 /\ Len(d) = n0 /\ Len(p) = Len(page[r0]) + 1
        BY <1>9
      <4>2. Len(p) \in Nat /\ Len(p) <= n0
        BY <1>6, <3>1, <3>2, <4>1
      <4>3. n0 = (n0 - Len(p)) + Len(p)
        BY <4>2, Tails
      <4> QED
        BY <4>1, <4>3
    <3>5. \A k \in DOMAIN p : p[k] = (Len(d) - Len(p)) + k
      BY <1>9, <3>3, <3>4
    <3>6. Len(d) = Len(done[r0]) + 1 /\ Len(p) = Len(page[r0]) + 1 /\ Len(page[r0]) <= Len(done[r0])
      BY <1>6, <1>9, <3>1
    <3>7. Len(p) <= Len(d) /\ (Len(d) - Len(p)) + Len(p) <= Len(d)
      <4>1. Len(p) \in Nat /\ Len(d) \in Nat /\ Len(p) <= Len(d)
        BY <3>2, <3>6
      <4> QED
        BY <4>1, Tails
    <3> QED
      BY <3>5, <3>7 DEF Stretch
  <2> QED
    BY <1>2, <1>3, <1>12, <2>1 DEF PageOK
<1>18. RequestsOK'
  <2>1. ASSUME NEW q, Collects(q)
        PROVE  Collects(q)'
    <3>1. q \in Collecting /\ q.recording \in DOMAIN recordings
      BY <2>1 DEF Collects
    <3>2. PICK b \in Nat : Stretch(q.held, Len(done[q.recording]), b)
      BY <2>1 DEF Collects
    <3>3. Len(q.held) \in Nat /\ Len(done[q.recording]) \in Nat /\ Len(done'[q.recording]) \in Nat
      BY <1>5, <1>7, <1>12, <3>1 DEF Collecting
    <3>4. Stretch(q.held, Len(done'[q.recording]), b)
      BY <1>15, <3>1, <3>2, <3>3 DEF Stretch
    <3> QED
      BY <1>2, <2>1, <3>1, <3>4 DEF Collects
  <2> QED
    BY <1>2, <1>3, <2>1 DEF RequestsOK
<1>19. /\ \A r, n \in Nat : InPage(r, n)' <=> InPage(r, n) \/ (r = r0 /\ n = n0)
       /\ \A r, n \in Nat : InSteps(r, n)' <=> InSteps(r, n)
       /\ \A r, n \in Nat, t \in Threads : InHand(t, r, n)' <=> InHand(t, r, n)
  <2>1. \A r, n \in Nat : InPage(r, n)' <=> InPage(r, n) \/ (r = r0 /\ n = n0)
    <3>1. \A n \in Nat : (\E k \in DOMAIN p : p[k] = n) <=> (\E k \in DOMAIN page[r0] : page[r0][k] = n) \/ n = n0
      BY <1>9
    <3>2. \A n \in Nat : InPage(r0, n)' <=> InPage(r0, n) \/ n = n0
      BY <1>2, <1>12, <3>1 DEF InPage
    <3>3. \A r, n \in Nat : r # r0 => (InPage(r, n)' <=> InPage(r, n))
      BY <1>2, <1>12 DEF InPage
    <3> QED
      BY <3>2, <3>3
  <2>2. \A r, n \in Nat : InSteps(r, n)' <=> InSteps(r, n)
    BY <1>2 DEF InSteps
  <2>3. \A r, n \in Nat, t \in Threads : InHand(t, r, n)' <=> InHand(t, r, n)
    BY <1>2 DEF InHand
  <2> QED
    BY <2>1, <2>2, <2>3
<1>20. r0 \in Nat /\ n0 # 0 /\ ~ InSteps(r0, n0) /\ \A t \in Threads : ~ InHand(t, r0, n0)
  <2>1. n0 \notin DOMAIN done[r0] /\ n0 # 0 /\ r0 \in Nat
    BY <1>4, <1>5, <1>6
  <2> QED
    BY <2>1, DoneBefore
<1>21. Apart'
  <2>1. \A r, n \in Nat : InPage(r, n)' => ~ InSteps(r, n)'
    <3>1. \A r, n \in Nat : InPage(r, n) => ~ InSteps(r, n)
      BY <1>3 DEF Apart
    <3> QED
      BY <1>19, <1>20, <3>1
  <2>2. \A r, n \in Nat, t \in Threads : InHand(t, r, n)' => ~ InPage(r, n)' /\ ~ InSteps(r, n)'
    <3>1. \A r, n \in Nat, t \in Threads : InHand(t, r, n) => ~ InPage(r, n) /\ ~ InSteps(r, n)
      BY <1>3 DEF Apart
    <3>2. ASSUME NEW r \in Nat, NEW n \in Nat, NEW t \in Threads, InHand(t, r, n)'
          PROVE  ~ InPage(r, n)' /\ ~ InSteps(r, n)'
      <4>1. InHand(t, r, n)
        BY <1>19, <3>2
      <4>2. ~ InPage(r, n) /\ ~ InSteps(r, n) /\ ~ (r = r0 /\ n = n0)
        BY <1>20, <3>1, <4>1
      <4> QED
        BY <1>19, <4>2
    <3> QED
      BY <3>2
  <2>3. \A r, n \in Nat, t, u \in Threads : InHand(t, r, n)' /\ InHand(u, r, n)' => t = u
    <3>1. \A r, n \in Nat, t, u \in Threads : InHand(t, r, n) /\ InHand(u, r, n) => t = u
      BY <1>3 DEF Apart
    <3> QED
      BY <1>19, <3>1
  <2> QED
    BY <1>2, <1>3, <2>1, <2>2, <2>3 DEF Apart
<1>22. Kept'
  <2>1. ASSUME NEW r \in DOMAIN recordings, NEW n \in DOMAIN done[r]
        PROVE  \/ InPage(r, n)' \/ InSteps(r, n)' \/ (V!Of(r, n) \in lost)' \/ (\E t \in Threads : InHand(t, r, n)')
               \/ Again(r, n)'
    <3>1. r \in Nat /\ n \in Nat
      BY <1>4, <1>5
    <3>2. \A m \in DOMAIN done[r] : m \in DOMAIN done'[r] /\ done'[r][m] = done[r][m]
      BY <1>9, <1>12
    <3>3. Again(r, n) => Again(r, n)'
      BY <3>2 DEF Again
    <3>4. \/ InPage(r, n) \/ InSteps(r, n) \/ V!Of(r, n) \in lost \/ \E t \in Threads : InHand(t, r, n)
          \/ Again(r, n)
      BY <1>3 DEF Kept
    <3> QED
      BY <1>2, <1>19, <3>1, <3>3, <3>4
  <2>2. InPage(r0, n0)'
    BY <1>19, <1>20
  <2> QED
    BY <1>2, <1>9, <1>12, <2>1, <2>2 DEF Kept
<1>23. Numbered'
  BY <1>2, <1>3 DEF Numbered, V!StepsOf
<1> QED
  BY <1>13, <1>14, <1>16, <1>17, <1>18, <1>21, <1>22, <1>23 DEF UiInv

LEMMA NothingInHand ==
  ASSUME NEW t, NEW r, NEW n
  PROVE  InHand(t, r, n) => requests[t] # V!Idle /\ ~ Replays(requests[t]) /\ requests[t].held # <<>>
BY DEF InHand, V!Idle, Replays

LEMMA RequestIs ==
  ASSUME UiInv, NEW t \in Threads
  PROVE  /\ requests[t] # V!Idle /\ requests[t].kind # "replay" => Collects(requests[t])
         /\ requests[t] # V!Idle /\ requests[t].kind = "replay" => Replays(requests[t])
         /\ requests[t] # V!Idle /\ requests[t].kind = "stop" => Collects(requests[t])
BY DEF UiInv, RequestsOK, Replays, Collects, Collecting

(* A request begins, goes on or ends that holds nothing before or after. *)
LEMMA HoldsNothing ==
  ASSUME UiInv, NEW t \in Threads, NEW q, requests' = [requests EXCEPT ![t] = q],
         DOMAIN recordings' = DOMAIN recordings, UNCHANGED <<steps, done, page, lost>>,
         \A r, n : ~ InHand(t, r, n), "held" \in DOMAIN q => q.held = <<>>
  PROVE  /\ StepsOK' /\ PageOK' /\ Apart' /\ Kept' /\ Numbered'
         /\ requests' = [x \in Threads |-> requests'[x]]
         /\ requests'[t] = q /\ \A u \in Threads : u # t => requests'[u] = requests[u]
<1>1. requests = [x \in Threads |-> requests[x]]
  BY DEF UiInv, UiTyped
<1>2. /\ requests' = [x \in Threads |-> requests'[x]]
      /\ requests'[t] = q /\ \A u \in Threads : u # t => requests'[u] = requests[u]
  BY <1>1
<1>3. \A r, n \in Nat, u \in Threads : InHand(u, r, n)' <=> InHand(u, r, n)
  <2>1. \A r, n \in Nat : ~ InHand(t, r, n)'
    BY <1>2 DEF InHand
  <2>2. \A r, n \in Nat, u \in Threads : u # t => (InHand(u, r, n)' <=> InHand(u, r, n))
    BY <1>2 DEF InHand
  <2> QED
    BY <2>1, <2>2
<1> QED
  BY <1>2, <1>3, OnlyDrops

(* A request stays in order while others move. *)
LEMMA CollectsStays ==
  ASSUME NEW q, Collects(q), DOMAIN recordings' = DOMAIN recordings, UNCHANGED done,
         \A r \in DOMAIN recordings : recorder'[r] => recorder[r]
  PROVE  Collects(q)'
BY DEF Collects

LEMMA RequestsStay ==
  ASSUME UiInv, NEW t \in Threads, NEW q, requests'[t] = q,
         \A u \in Threads : u # t => requests'[u] = requests[u],
         DOMAIN recordings' = DOMAIN recordings, UNCHANGED done,
         \A r \in DOMAIN recordings : recorder'[r] => recorder[r],
         q = V!Idle \/ Replays(q) \/ Collects(q)'
  PROVE  RequestsOK'
<1>1. V!Idle' = V!Idle
  BY DEF V!Idle
<1>2. requests'[t] = V!Idle \/ Replays(requests'[t]) \/ Collects(requests[t])'
  BY DEF Collects
<1>3. ASSUME NEW u \in Threads, u # t
      PROVE  requests'[u] = V!Idle \/ Replays(requests'[u]) \/ Collects(requests[u])'
  <2>1. requests[u] = V!Idle \/ Replays(requests[u]) \/ Collects(requests[u])
    BY DEF UiInv, RequestsOK
  <2>2. Collects(requests[u]) => Collects(requests[u])'
    <3>1. PICK p : p = requests[u]
      OBVIOUS
    <3>2. p = requests'[u]
      BY <1>3, <3>1
    <3>3. Collects(p) => Collects(p)'
      BY CollectsStays
    <3> QED
      BY <3>1, <3>2, <3>3 DEF Collects
  <2> QED
    BY <1>3, <2>1, <2>2
<1> QED
  BY <1>1, <1>2, <1>3 DEF RequestsOK, Replays

LEMMA UiBeginKeeps ==
  ASSUME UiInv, V!Begin
  PROVE  UiInv'
<1>1. PICK t \in Threads, kind \in {"collect", "stop"}, r \in DOMAIN recordings :
        /\ requests[t] = V!Idle
        /\ requests' = [requests EXCEPT ![t] =
              [kind |-> kind, recording |-> r, held |-> <<>>,
               at |-> IF recordings[r].status = "recording" THEN "export" ELSE "leave"]]
  BY DEF V!Begin
<1>2. UNCHANGED <<targets, recordings, steps, runs, done, page, recorder, lost, crashes>>
  BY DEF V!Begin, V!rows
<1>3. PICK at \in {"export", "leave"} : at = IF recordings[r].status = "recording" THEN "export" ELSE "leave"
  OBVIOUS
<1>4. PICK q : q = [kind |-> kind, recording |-> r, held |-> <<>>, at |-> at]
  OBVIOUS
<1>5. requests' = [requests EXCEPT ![t] = q]
  BY <1>1, <1>3, <1>4
<1>6. UiTyped /\ TargetsOK /\ RecorderOK /\ RequestsOK
  BY DEF UiInv
<1>7. r \in Nat /\ q \in Collecting /\ q.held = <<>> /\ q.at = at /\ q.recording = r
  BY <1>4, <1>6 DEF UiTyped, Collecting
<1>8. \A x, n : ~ InHand(t, x, n)
  BY <1>1, NothingInHand
<1>9. /\ StepsOK' /\ PageOK' /\ Apart' /\ Kept' /\ Numbered'
      /\ requests' = [x \in Threads |-> requests'[x]]
      /\ requests'[t] = q /\ \A u \in Threads : u # t => requests'[u] = requests[u]
  BY <1>2, <1>5, <1>7, <1>8, HoldsNothing
<1>10. RequestsOK'
  <2>1. Collects(q)'
    <3>1. Len(done[r]) \in Nat
      <4>1. done \in Seq(Seq(Fields \cup {Click})) /\ DOMAIN done = DOMAIN recordings
        BY <1>6 DEF UiTyped
      <4>2. done[r] \in Seq(Fields \cup {Click})
        BY <4>1, Element
      <4> QED
        BY <4>2
    <3>2. 0 \in Nat /\ Stretch(q.held, Len(done[r]), 0)
      BY <1>7, <3>1 DEF Stretch
    <3> QED
      BY <1>2, <1>3, <1>7, <3>2 DEF Collects
  <2> QED
    BY <1>2, <1>9, <2>1, RequestsStay
<1>11. UiTyped' /\ TargetsOK' /\ RecorderOK'
  BY <1>2, <1>6, <1>9 DEF UiTyped, TargetsOK, RecorderOK
<1> QED
  BY <1>9, <1>10, <1>11 DEF UiInv

LEMMA HoldsOnlyAppending ==
  ASSUME UiInv, NEW t \in Threads, NEW r, NEW n, InHand(t, r, n)
  PROVE  Collects(requests[t]) /\ requests[t].at = "append"
<1>1. requests[t] # V!Idle /\ ~ Replays(requests[t]) /\ requests[t].held # <<>>
  BY NothingInHand
<1>2. Collects(requests[t])
  BY <1>1 DEF UiInv, RequestsOK
<1> QED
  BY <1>1, <1>2 DEF Collects

LEMMA LeavePageKeeps ==
  ASSUME UiInv, V!LeavePage
  PROVE  UiInv'
<1>1. PICK t \in Threads :
        /\ requests[t] # V!Idle /\ requests[t].kind = "stop" /\ requests[t].at = "leave"
        /\ recorder' = [recorder EXCEPT ![requests[t].recording] = FALSE]
        /\ requests' = [requests EXCEPT ![t] = [requests[t] EXCEPT !.at = "finish"]]
  BY DEF V!LeavePage
<1>2. UNCHANGED <<targets, recordings, steps, runs, done, page, lost, crashes>>
  BY DEF V!LeavePage, V!rows
<1>3. UiTyped /\ TargetsOK /\ RecorderOK /\ RequestsOK
  BY DEF UiInv
<1>4. Collects(requests[t])
  BY <1>1, RequestIs
<1>5. PICK r : r = requests[t].recording
  OBVIOUS
<1>6. r \in DOMAIN recordings /\ requests[t] \in Collecting /\ requests[t].held = <<>>
  BY <1>1, <1>4, <1>5 DEF Collects
<1>7. PICK q : q = [requests[t] EXCEPT !.at = "finish"]
  OBVIOUS
<1>8. q \in Collecting /\ q.recording = r /\ q.held = <<>> /\ q.at = "finish"
  BY <1>5, <1>6, <1>7 DEF Collecting
<1>9. \A x, n : ~ InHand(t, x, n)
  BY <1>6, NothingInHand
<1>10. /\ StepsOK' /\ PageOK' /\ Apart' /\ Kept' /\ Numbered'
       /\ requests' = [x \in Threads |-> requests'[x]]
       /\ requests'[t] = q /\ \A u \in Threads : u # t => requests'[u] = requests[u]
  BY <1>1, <1>2, <1>7, <1>8, <1>9, HoldsNothing
<1>11. PICK flag \in BOOLEAN : flag = FALSE
  OBVIOUS
<1>12. recorder' = [recorder EXCEPT ![r] = flag] /\ recorder \in Seq(BOOLEAN) /\ DOMAIN recorder = DOMAIN recordings
  <2>1. recorder' = [recorder EXCEPT ![r] = flag]
    BY <1>1, <1>5, <1>11, Zenon
  <2>2. recorder \in Seq(BOOLEAN) /\ DOMAIN recorder = DOMAIN recordings
    BY <1>3 DEF UiTyped
  <2> QED
    BY <2>1, <2>2
<1>13. recorder' \in Seq(BOOLEAN) /\ Len(recorder') = Len(recorder)
  BY <1>6, <1>12, Changed
<1>14. recorder'[r] = flag /\ \A x \in DOMAIN recordings : x # r => recorder'[x] = recorder[x]
  BY <1>6, <1>12
<1>15. ~ recorder'[r] /\ \A x \in DOMAIN recordings : recorder'[x] => recorder[x]
  BY <1>11, <1>14
<1>16. UiTyped' /\ TargetsOK' /\ RecorderOK'
  BY <1>2, <1>3, <1>10, <1>13, <1>15 DEF UiTyped, TargetsOK, RecorderOK
<1>17. Collects(q)'
  <2>1. PICK b \in Nat : Stretch(requests[t].held, Len(done[r]), b)
    BY <1>4, <1>5 DEF Collects
  <2>2. Stretch(q.held, Len(done[r]), b)
    BY <1>6, <1>8, <2>1
  <2> QED
    BY <1>2, <1>6, <1>8, <1>15, <2>2 DEF Collects
<1>18. RequestsOK'
  BY <1>2, <1>10, <1>15, <1>17, RequestsStay
<1> QED
  BY <1>10, <1>16, <1>18 DEF UiInv

LEMMA FinishRecordingKeeps ==
  ASSUME UiInv, V!FinishRecording
  PROVE  UiInv'
<1>1. PICK t \in Threads :
        /\ requests[t] # V!Idle /\ requests[t].kind = "stop" /\ requests[t].at = "finish"
        /\ recordings' = [recordings EXCEPT ![requests[t].recording].status = "recorded"]
        /\ requests' = [requests EXCEPT ![t] = V!Idle]
  BY DEF V!FinishRecording
<1>2. UNCHANGED <<targets, steps, runs, done, page, recorder, lost, crashes>>
  BY DEF V!FinishRecording
<1>3. UiTyped /\ TargetsOK /\ RecorderOK /\ RequestsOK
  BY DEF UiInv
<1>4. Collects(requests[t])
  BY <1>1, RequestIs
<1>5. PICK r : r = requests[t].recording
  OBVIOUS
<1>6. r \in DOMAIN recordings /\ requests[t].held = <<>> /\ ~ recorder[r]
  BY <1>1, <1>4, <1>5 DEF Collects
<1>7. recordings \in Seq(Sources)
  BY <1>3 DEF UiTyped
<1>8. recordings[r] \in Sources
  BY <1>6, <1>7, Element
<1>9. PICK row \in Sources : row = [recordings[r] EXCEPT !.status = "recorded"] /\ row.target = recordings[r].target
  <2>1. \A e \in Sources : [e EXCEPT !.status = "recorded"] \in Sources /\ [e EXCEPT !.status = "recorded"].target = e.target
    BY DEF Sources
  <2> QED
    BY <1>8, <2>1
<1>10. recordings' = [recordings EXCEPT ![r] = row]
  BY <1>1, <1>5, <1>6, <1>7, <1>9
<1>11. recordings' \in Seq(Sources) /\ Len(recordings') = Len(recordings)
  BY <1>6, <1>7, <1>10, Changed
<1>12. DOMAIN recordings' = DOMAIN recordings
  BY <1>10
<1>13. recordings'[r] = row /\ \A x \in DOMAIN recordings : x # r => recordings'[x] = recordings[x]
  BY <1>6, <1>10
<1>14. \A x, n : ~ InHand(t, x, n)
  BY <1>6, NothingInHand
<1>15. "held" \notin DOMAIN V!Idle
  BY DEF V!Idle
<1>16. /\ StepsOK' /\ PageOK' /\ Apart' /\ Kept' /\ Numbered'
       /\ requests' = [x \in Threads |-> requests'[x]]
       /\ requests'[t] = V!Idle /\ \A u \in Threads : u # t => requests'[u] = requests[u]
  BY <1>1, <1>2, <1>12, <1>14, <1>15, HoldsNothing
<1>17. UiTyped' /\ TargetsOK' /\ RecorderOK'
  BY <1>2, <1>3, <1>6, <1>9, <1>11, <1>12, <1>13, <1>16 DEF UiTyped, TargetsOK, RecorderOK
<1>18. RequestsOK'
  BY <1>2, <1>12, <1>16, RequestsStay
<1> QED
  BY <1>16, <1>17, <1>18 DEF UiInv

LEMMA ReplayKeeps ==
  ASSUME UiInv, V!Replay
  PROVE  UiInv'
<1>1. PICK t \in Threads, r \in DOMAIN recordings :
        /\ requests[t] = V!Idle
        /\ requests' = [requests EXCEPT ![t] =
              [kind |-> "replay", run |-> Len(runs'), todo |-> V!InOrder(r), at |-> 0]]
  BY DEF V!Replay
<1>2. UNCHANGED <<targets, recordings, steps, done, page, recorder, lost, crashes>>
  BY DEF V!Replay
<1>3. PICK q : q = [kind |-> "replay", run |-> Len(runs'), todo |-> V!InOrder(r), at |-> 0]
  OBVIOUS
<1>4. Replays(q) /\ "held" \notin DOMAIN q
  BY <1>3 DEF Replays
<1>5. \A x, n : ~ InHand(t, x, n)
  BY <1>1, NothingInHand
<1>6. /\ StepsOK' /\ PageOK' /\ Apart' /\ Kept' /\ Numbered'
      /\ requests' = [x \in Threads |-> requests'[x]]
      /\ requests'[t] = q /\ \A u \in Threads : u # t => requests'[u] = requests[u]
  BY <1>1, <1>2, <1>3, <1>4, <1>5, HoldsNothing
<1>7. UiTyped' /\ TargetsOK' /\ RecorderOK'
  BY <1>2, <1>6 DEF UiInv, UiTyped, TargetsOK, RecorderOK
<1>8. RequestsOK'
  BY <1>2, <1>4, <1>6, RequestsStay
<1> QED
  BY <1>6, <1>7, <1>8 DEF UiInv

LEMMA RunStepKeeps ==
  ASSUME UiInv, V!RunStep
  PROVE  UiInv'
<1>1. PICK t \in Threads :
        /\ requests[t] # V!Idle /\ requests[t].kind = "replay"
        /\ \/ /\ requests' = [requests EXCEPT ![t] =
                    [requests[t] EXCEPT !.todo = Tail(@), !.at = steps[Head(requests[t].todo)].sequence]]
              /\ UNCHANGED <<V!rows, done, page, recorder, lost, crashes>>
           \/ V!EndRun(t, "passed")
           \/ V!EndRun(t, "failed")
  BY DEF V!RunStep
<1>2. UNCHANGED <<targets, recordings, steps, done, page, recorder, lost, crashes>>
  BY <1>1 DEF V!rows, V!EndRun
<1>3. Replays(requests[t])
  BY <1>1, RequestIs
<1>4. PICK q : requests' = [requests EXCEPT ![t] = q] /\ (q = V!Idle \/ Replays(q))
  <2>1. ASSUME requests' = [requests EXCEPT ![t] =
                 [requests[t] EXCEPT !.todo = Tail(@), !.at = steps[Head(requests[t].todo)].sequence]]
        PROVE  \E q : requests' = [requests EXCEPT ![t] = q] /\ (q = V!Idle \/ Replays(q))
    <3>1. PICK q : q = [requests[t] EXCEPT !.todo = Tail(@), !.at = steps[Head(requests[t].todo)].sequence]
      OBVIOUS
    <3>2. Replays(q)
      BY <1>3, <3>1 DEF Replays
    <3> QED
      BY <2>1, <3>1, <3>2
  <2>2. ASSUME NEW status, V!EndRun(t, status)
        PROVE  \E q : requests' = [requests EXCEPT ![t] = q] /\ (q = V!Idle \/ Replays(q))
    BY <2>2 DEF V!EndRun
  <2> QED
    BY <1>1, <2>1, <2>2
<1>5. "held" \notin DOMAIN q
  BY <1>4 DEF V!Idle, Replays
<1>6. \A x, n : ~ InHand(t, x, n)
  BY <1>3, NothingInHand
<1>7. /\ StepsOK' /\ PageOK' /\ Apart' /\ Kept' /\ Numbered'
      /\ requests' = [x \in Threads |-> requests'[x]]
      /\ requests'[t] = q /\ \A u \in Threads : u # t => requests'[u] = requests[u]
  BY <1>2, <1>4, <1>5, <1>6, HoldsNothing
<1>8. UiTyped' /\ TargetsOK' /\ RecorderOK'
  BY <1>2, <1>7 DEF UiInv, UiTyped, TargetsOK, RecorderOK
<1>9. RequestsOK'
  BY <1>2, <1>4, <1>7, RequestsStay
<1> QED
  BY <1>7, <1>8, <1>9 DEF UiInv

(* A request that ends loses what it held, and a crash what all held. *)
LEMMA RefusedKeeps ==
  ASSUME UiInv, V!Refused
  PROVE  UiInv'
<1>1. PICK t \in Threads :
        /\ requests[t] # V!Idle /\ requests[t].kind # "replay"
        /\ requests' = [requests EXCEPT ![t] = V!Idle]
        /\ lost' = lost \cup {V!Of(requests[t].recording, n) : n \in V!Range(requests[t].held)}
  BY DEF V!Refused
<1>2. UNCHANGED <<targets, recordings, steps, runs, done, page, recorder, crashes>>
  BY DEF V!Refused, V!rows
<1>3. requests = [x \in Threads |-> requests[x]]
  BY DEF UiInv, UiTyped
<1>4. /\ requests' = [x \in Threads |-> requests'[x]]
      /\ requests'[t] = V!Idle /\ \A u \in Threads : u # t => requests'[u] = requests[u]
  BY <1>1, <1>3
<1>5. "held" \notin DOMAIN V!Idle
  BY DEF V!Idle
<1>6. \A r, n \in Nat, u \in Threads : InHand(u, r, n)' => InHand(u, r, n)
  <2>1. \A r, n \in Nat : ~ InHand(t, r, n)'
    BY <1>4, <1>5 DEF InHand
  <2>2. \A r, n \in Nat, u \in Threads : u # t => (InHand(u, r, n)' => InHand(u, r, n))
    BY <1>4 DEF InHand
  <2> QED
    BY <2>1, <2>2
<1>7. \A r, n \in Nat, u \in Threads : InHand(u, r, n) => InHand(u, r, n)' \/ V!Of(r, n) \in lost'
  <2>1. \A r, n \in Nat : InHand(t, r, n) => V!Of(r, n) \in lost'
    BY <1>1 DEF InHand, V!Range
  <2>2. \A r, n \in Nat, u \in Threads : u # t => (InHand(u, r, n) => InHand(u, r, n)')
    BY <1>4 DEF InHand
  <2> QED
    BY <2>1, <2>2
<1>8. StepsOK' /\ PageOK' /\ Apart' /\ Kept' /\ Numbered'
  BY <1>1, <1>2, <1>6, <1>7, OnlyDrops
<1>9. UiTyped' /\ TargetsOK' /\ RecorderOK'
  BY <1>2, <1>4 DEF UiInv, UiTyped, TargetsOK, RecorderOK
<1>10. RequestsOK'
  BY <1>2, <1>4, RequestsStay
<1> QED
  BY <1>8, <1>9, <1>10 DEF UiInv

LEMMA UiCrashKeeps ==
  ASSUME UiInv, V!Crash
  PROVE  UiInv'
<1>1. /\ requests' = [t \in Threads |-> V!Idle]
      /\ lost' = lost \cup UNION {{V!Of(requests[t].recording, n) : n \in V!Range(requests[t].held)} :
                                    t \in {u \in Threads : "held" \in DOMAIN requests[u]}}
  BY DEF V!Crash
<1>2. UNCHANGED <<targets, recordings, steps, runs, done, page, recorder>>
  BY DEF V!Crash
<1>3. \A u \in Threads : requests'[u] = V!Idle
  BY <1>1
<1>4. \A r, n \in Nat, u \in Threads : ~ InHand(u, r, n)'
  BY <1>3 DEF InHand, V!Idle
<1>5. \A r, n \in Nat, u \in Threads : InHand(u, r, n) => V!Of(r, n) \in lost'
  BY <1>1 DEF InHand, V!Range
<1>6. StepsOK' /\ PageOK' /\ Apart' /\ Kept' /\ Numbered'
  BY <1>1, <1>2, <1>4, <1>5, OnlyDrops
<1>7. UiTyped' /\ TargetsOK' /\ RecorderOK'
  BY <1>1, <1>2 DEF UiInv, UiTyped, TargetsOK, RecorderOK
<1>8. RequestsOK'
  BY <1>3 DEF RequestsOK, V!Idle
<1> QED
  BY <1>6, <1>7, <1>8 DEF UiInv

(* The page is emptied into the hands of the request that reads it. *)
LEMMA ExportKeeps ==
  ASSUME UiInv, V!Export
  PROVE  UiInv'
<1>1. PICK t0 \in Threads :
        /\ requests[t0] # V!Idle /\ requests[t0].kind # "replay" /\ requests[t0].at = "export"
        /\ requests' = [requests EXCEPT ![t0] =
              [requests[t0] EXCEPT !.at = "append", !.held = page[requests[t0].recording]]]
        /\ page' = [page EXCEPT ![requests[t0].recording] = <<>>]
  BY DEF V!Export, V!Exported
<1>2. UNCHANGED <<targets, recordings, steps, runs, done, recorder, lost, crashes>>
  BY DEF V!Export, V!rows
<1>3. UiTyped /\ TargetsOK /\ RecorderOK /\ StepsOK /\ PageOK /\ RequestsOK /\ Apart /\ Kept /\ Numbered
  BY DEF UiInv
<1>4. Collects(requests[t0])
  BY <1>1, RequestIs
<1>5. PICK r0 : r0 = requests[t0].recording
  OBVIOUS
<1>6. r0 \in DOMAIN recordings /\ requests[t0] \in Collecting /\ requests[t0].held = <<>>
  BY <1>1, <1>4, <1>5 DEF Collects
<1>7. /\ page \in Seq(Seq(Nat)) /\ done \in Seq(Seq(Fields \cup {Click}))
      /\ DOMAIN page = DOMAIN recordings /\ DOMAIN done = DOMAIN recordings /\ DOMAIN recordings \subseteq Nat
      /\ requests = [x \in Threads |-> requests[x]]
  BY <1>3 DEF UiTyped
<1>8. \A r \in DOMAIN recordings : page[r] \in Seq(Nat) /\ done[r] \in Seq(Fields \cup {Click})
  BY <1>7, Element
<1>9. PICK q : q = [requests[t0] EXCEPT !.at = "append", !.held = page[r0]]
  OBVIOUS
<1>10. q \in Collecting /\ q.recording = r0 /\ q.held = page[r0] /\ q.at = "append" /\ "held" \in DOMAIN q
  BY <1>5, <1>6, <1>8, <1>9 DEF Collecting
<1>11. /\ requests' = [x \in Threads |-> requests'[x]]
       /\ requests'[t0] = q /\ \A u \in Threads : u # t0 => requests'[u] = requests[u]
  BY <1>1, <1>5, <1>7, <1>9
<1>12. PICK e \in Seq(Nat) : e = <<>>
  <2>1. <<>> \in Seq(Nat)
    OBVIOUS
  <2> QED
    BY <2>1
<1>13. page' = [page EXCEPT ![r0] = e]
  BY <1>1, <1>5, <1>12
<1>14. page' \in Seq(Seq(Nat)) /\ Len(page') = Len(page)
  BY <1>6, <1>7, <1>13, Changed
<1>15. page'[r0] = <<>> /\ \A r \in DOMAIN recordings : r # r0 => page'[r] = page[r]
  BY <1>6, <1>7, <1>12, <1>13
<1>16. UiTyped' /\ TargetsOK' /\ RecorderOK' /\ StepsOK' /\ Numbered'
  <2>1. UiTyped' /\ TargetsOK'
    BY <1>2, <1>3, <1>11, <1>14 DEF UiTyped, TargetsOK
  <2>2. RecorderOK' /\ StepsOK'
    BY <1>2, <1>3 DEF RecorderOK, StepsOK
  <2>3. Numbered'
    <3>1. \A r : V!StepsOf(r)' = V!StepsOf(r)
      BY <1>2 DEF V!StepsOf
    <3> QED
      BY <1>2, <1>3, <3>1 DEF Numbered
  <2> QED
    BY <2>1, <2>2, <2>3
<1>17. PageOK'
  <2>1. Len(page'[r0]) = 0 /\ DOMAIN page'[r0] = {}
    BY <1>15
  <2>2. Len(done[r0]) \in Nat
    BY <1>6, <1>8
  <2>3. Len(page'[r0]) <= Len(done[r0]) /\ Stretch(page'[r0], Len(done[r0]), Len(done[r0]) - Len(page'[r0]))
    BY <2>1, <2>2 DEF Stretch
  <2> QED
    BY <1>2, <1>3, <1>15, <2>3 DEF PageOK
<1>18. RequestsOK'
  <2>1. Collects(q)'
    <3>1. Len(page[r0]) <= Len(done[r0]) /\ Stretch(page[r0], Len(done[r0]), Len(done[r0]) - Len(page[r0]))
      BY <1>3, <1>6 DEF PageOK
    <3>2. Len(done[r0]) \in Nat /\ Len(page[r0]) \in Nat
      BY <1>6, <1>8
    <3>3. PICK b \in Nat : b = Len(done[r0]) - Len(page[r0])
      BY <3>1, <3>2, Tails
    <3>4. Stretch(q.held, Len(done[r0]), b)
      BY <1>10, <3>1, <3>3
    <3> QED
      BY <1>2, <1>6, <1>10, <3>4 DEF Collects
  <2> QED
    BY <1>2, <1>11, <2>1, RequestsStay
<1>19. /\ \A r, n \in Nat : InPage(r, n)' <=> InPage(r, n) /\ r # r0
       /\ \A r, n \in Nat : InSteps(r, n)' <=> InSteps(r, n)
       /\ \A r, n \in Nat, t \in Threads : InHand(t, r, n)' <=> InHand(t, r, n) \/ (t = t0 /\ r = r0 /\ InPage(r0, n))
  <2>1. \A r, n \in Nat : InPage(r, n)' <=> InPage(r, n) /\ r # r0
    <3>1. \A n \in Nat : ~ InPage(r0, n)'
      BY <1>15 DEF InPage
    <3>2. \A r, n \in Nat : r # r0 => (InPage(r, n)' <=> InPage(r, n))
      BY <1>2, <1>15 DEF InPage
    <3> QED
      BY <3>1, <3>2
  <2>2. \A r, n \in Nat : InSteps(r, n)' <=> InSteps(r, n)
    BY <1>2 DEF InSteps
  <2>3. \A r, n \in Nat, t \in Threads : t # t0 => (InHand(t, r, n)' <=> InHand(t, r, n))
    BY <1>11 DEF InHand
  <2>4. \A r, n \in Nat : ~ InHand(t0, r, n)
    BY <1>6 DEF InHand
  <2>5. \A r, n \in Nat : InHand(t0, r, n)' <=> r = r0 /\ InPage(r0, n)
    BY <1>6, <1>10, <1>11 DEF InHand, InPage
  <2> QED
    BY <2>1, <2>2, <2>3, <2>4, <2>5
<1>20. r0 \in Nat
  BY <1>6, <1>7
<1>21. Apart'
  <2>1. \A r, n \in Nat : InPage(r, n)' => ~ InSteps(r, n)'
    BY <1>3, <1>19 DEF Apart
  <2>2. \A r, n \in Nat, t \in Threads : InHand(t, r, n)' => ~ InPage(r, n)' /\ ~ InSteps(r, n)'
    <3>1. \A r, n \in Nat, t \in Threads : InHand(t, r, n) => ~ InPage(r, n) /\ ~ InSteps(r, n)
      BY <1>3 DEF Apart
    <3>2. \A n \in Nat : InPage(r0, n) => ~ InSteps(r0, n)
      BY <1>3, <1>20 DEF Apart
    <3> QED
      BY <1>19, <3>1, <3>2
  <2>3. \A r, n \in Nat, t, u \in Threads : InHand(t, r, n)' /\ InHand(u, r, n)' => t = u
    <3>1. \A r, n \in Nat, t, u \in Threads : InHand(t, r, n) /\ InHand(u, r, n) => t = u
      BY <1>3 DEF Apart
    <3>2. \A n \in Nat, t \in Threads : InHand(t, r0, n) => ~ InPage(r0, n)
      BY <1>3, <1>20 DEF Apart
    <3> QED
      BY <1>19, <3>1, <3>2
  <2> QED
    BY <1>2, <1>3, <2>1, <2>2, <2>3 DEF Apart
<1>22. Kept'
  <2>1. ASSUME NEW r \in DOMAIN recordings, NEW n \in DOMAIN done[r]
        PROVE  \/ InPage(r, n)' \/ InSteps(r, n)' \/ (V!Of(r, n) \in lost)' \/ (\E t \in Threads : InHand(t, r, n)')
               \/ Again(r, n)'
    <3>1. r \in Nat /\ n \in Nat
      BY <1>7, <1>8
    <3>2. Again(r, n) => Again(r, n)'
      BY <1>2 DEF Again
    <3>3. \/ InPage(r, n) \/ InSteps(r, n) \/ V!Of(r, n) \in lost \/ \E t \in Threads : InHand(t, r, n)
          \/ Again(r, n)
      BY <1>3 DEF Kept
    <3> QED
      BY <1>2, <1>19, <3>1, <3>2, <3>3
  <2> QED
    BY <1>2, <2>1 DEF Kept
<1> QED
  BY <1>16, <1>17, <1>18, <1>21, <1>22 DEF UiInv

(* Steps are appended under the next numbers of their recording. *)
LEMMA StepsAdded ==
  ASSUME NEW s \in Seq(StepRows), NEW new \in Seq(StepRows)
  PROVE  /\ s \o new \in Seq(StepRows)
         /\ \A i \in DOMAIN s : i \in DOMAIN (s \o new) /\ (s \o new)[i] = s[i]
         /\ \A j \in DOMAIN new : /\ Len(s) + j \in DOMAIN (s \o new) /\ (s \o new)[Len(s) + j] = new[j]
                                 /\ Len(s) + j \notin DOMAIN s
         /\ \A i \in DOMAIN (s \o new) : i \in DOMAIN s \/ \E j \in DOMAIN new : i = Len(s) + j
<1>1. s \o new \in Seq(StepRows) /\ Len(s \o new) = Len(s) + Len(new) /\ Len(s) \in Nat /\ Len(new) \in Nat
  OBVIOUS
<1>2. DOMAIN s = 1 .. Len(s) /\ DOMAIN new = 1 .. Len(new) /\ DOMAIN (s \o new) = 1 .. (Len(s) + Len(new))
  BY <1>1
<1>3. \A i \in DOMAIN s : i \in DOMAIN (s \o new) /\ (s \o new)[i] = s[i]
  OBVIOUS
<1>4. \A j \in DOMAIN new : /\ Len(s) + j \in DOMAIN (s \o new) /\ (s \o new)[Len(s) + j] = new[j]
                           /\ Len(s) + j \notin DOMAIN s
  OBVIOUS
<1>5. ASSUME NEW i \in DOMAIN (s \o new), i \notin DOMAIN s
      PROVE  \E j \in DOMAIN new : i = Len(s) + j
  <2>1. i \in Nat /\ i - Len(s) \in 1 .. Len(new) /\ i = Len(s) + (i - Len(s))
    BY <1>1, <1>2, <1>5
  <2> QED
    BY <1>2, <2>1
<1> QED
  BY <1>1, <1>3, <1>4, <1>5

LEMMA NextIs ==
  ASSUME UiInv, NEW r \in DOMAIN recordings
  PROVE  /\ IsFiniteSet(V!StepsOf(r)) /\ Cardinality(V!StepsOf(r)) \in Nat
         /\ V!NextSequence(r) = Cardinality(V!StepsOf(r)) + 1
<1>1. IsFiniteSet(V!StepsOf(r)) /\ Cardinality(V!StepsOf(r)) \in Nat
  <2>1. Len(steps) \in Nat /\ DOMAIN steps = 1 .. Len(steps)
    BY DEF UiInv, UiTyped
  <2>2. IsFiniteSet(DOMAIN steps)
    BY <2>1, FS_Interval
  <2> QED
    BY <2>2, FS_Subset, FS_CardinalityType DEF V!StepsOf
<1>2. PICK c \in Nat : c = Cardinality(V!StepsOf(r))
  BY <1>1
<1>3. {steps[i].sequence : i \in V!StepsOf(r)} \cup {0} = 0 .. c
  <2>1. {steps[i].sequence : i \in V!StepsOf(r)} = 1 .. c
    BY <1>2 DEF UiInv, Numbered
  <2>2. (1 .. c) \cup {0} = 0 .. c
    OBVIOUS
  <2> QED
    BY <2>1, <2>2
<1>4. V!Max(0 .. c) = c
  BY DEF V!Max
<1>5. V!LastSequence(r) = c
  BY <1>3, <1>4 DEF V!LastSequence
<1> QED
  BY <1>1, <1>2, <1>5 DEF V!NextSequence

LEMMA NumbersGrow ==
  ASSUME UiInv, NEW r0 \in DOMAIN recordings, NEW new \in Seq(StepRows), steps' = steps \o new,
         DOMAIN recordings' = DOMAIN recordings,
         \A j \in DOMAIN new : new[j].recording = r0 /\ new[j].sequence = V!NextSequence(r0) + j - 1
  PROVE  Numbered'
<1>1. steps \in Seq(StepRows)
  BY DEF UiInv, UiTyped
<1>2. /\ \A i \in DOMAIN steps : i \in DOMAIN steps' /\ steps'[i] = steps[i]
      /\ \A j \in DOMAIN new : Len(steps) + j \in DOMAIN steps' /\ steps'[Len(steps) + j] = new[j] /\ Len(steps) + j \notin DOMAIN steps
      /\ \A i \in DOMAIN steps' : i \in DOMAIN steps \/ \E j \in DOMAIN new : i = Len(steps) + j
  <2>1. PICK s \in Seq(StepRows) : s = steps
    BY <1>1
  <2>2. steps' = s \o new
    BY <2>1
  <2>3. /\ \A i \in DOMAIN s : i \in DOMAIN (s \o new) /\ (s \o new)[i] = s[i]
        /\ \A j \in DOMAIN new : Len(s) + j \in DOMAIN (s \o new) /\ (s \o new)[Len(s) + j] = new[j] /\ Len(s) + j \notin DOMAIN s
        /\ \A i \in DOMAIN (s \o new) : i \in DOMAIN s \/ \E j \in DOMAIN new : i = Len(s) + j
    BY StepsAdded, Zenon
  <2> QED
    BY <2>1, <2>2, <2>3
<1>3. ASSUME NEW r \in DOMAIN recordings, r # r0
      PROVE  {steps'[i].sequence : i \in V!StepsOf(r)'} = 1 .. Cardinality(V!StepsOf(r)')
  <2>1. V!StepsOf(r)' = V!StepsOf(r)
    BY <1>2, <1>3 DEF V!StepsOf
  <2>2. \A i \in V!StepsOf(r) : steps'[i] = steps[i]
    BY <1>2 DEF V!StepsOf
  <2>3. {steps[i].sequence : i \in V!StepsOf(r)} = 1 .. Cardinality(V!StepsOf(r))
    BY DEF UiInv, Numbered
  <2> QED
    BY <2>1, <2>2, <2>3
<1>4. {steps'[i].sequence : i \in V!StepsOf(r0)'} = 1 .. Cardinality(V!StepsOf(r0)')
  <2>1. PICK old : old = V!StepsOf(r0)
    OBVIOUS
  <2>2. PICK c \in Nat : c = Cardinality(old)
    BY <2>1, NextIs
  <2>3. PICK m \in Nat : m = Len(new)
    OBVIOUS
  <2>4. PICK a \in Nat : a = Len(steps)
    BY <1>1
  <2>5. V!NextSequence(r0) = c + 1 /\ IsFiniteSet(old)
    BY <2>1, <2>2, NextIs
  <2>6. DOMAIN new = 1 .. m
    BY <2>3
  <2>7. V!StepsOf(r0)' = old \cup (a + 1) .. (a + m)
    <3>1. \A i \in old : i \in V!StepsOf(r0)'
      BY <1>2, <2>1 DEF V!StepsOf
    <3>2. \A j \in 1 .. m : a + j \in V!StepsOf(r0)'
      BY <1>2, <2>4, <2>6 DEF V!StepsOf
    <3>3. \A i \in V!StepsOf(r0)' : i \in old \/ \E j \in 1 .. m : i = a + j
      BY <1>2, <2>1, <2>4, <2>6 DEF V!StepsOf
    <3>4. \A i : i \in (a + 1) .. (a + m) <=> \E j \in 1 .. m : i = a + j
      <4>1. \A i \in (a + 1) .. (a + m) : i - a \in 1 .. m /\ i = a + (i - a)
        OBVIOUS
      <4>2. \A j \in 1 .. m : a + j \in (a + 1) .. (a + m)
        OBVIOUS
      <4> QED
        BY <4>1, <4>2
    <3> QED
      BY <3>1, <3>2, <3>3, <3>4
  <2>8. Cardinality(V!StepsOf(r0)') = c + m
    <3>1. IsFiniteSet((a + 1) .. (a + m)) /\ Cardinality((a + 1) .. (a + m)) = m
      BY FS_Interval
    <3>2. old \cap (a + 1) .. (a + m) = {}
      BY <1>1, <2>1, <2>4 DEF V!StepsOf
    <3>3. PICK late : late = (a + 1) .. (a + m)
      OBVIOUS
    <3>4. IsFiniteSet(late) /\ Cardinality(late) = m /\ old \cap late = {}
      BY <3>1, <3>2, <3>3
    <3>5. Cardinality(old \cup late) = Cardinality(old) + Cardinality(late) - Cardinality(old \cap late)
      BY <2>5, <3>4, FS_Union
    <3>6. Cardinality(old \cup late) = c + m - 0
      BY <2>2, <3>4, <3>5, FS_EmptySet
    <3> QED
      BY <2>7, <3>3, <3>6
  <2>9. {steps[i].sequence : i \in old} = 1 .. c
    BY <2>1, <2>2 DEF UiInv, Numbered
  <2>10. \A i \in old : steps'[i] = steps[i]
    BY <1>2, <2>1 DEF V!StepsOf
  <2>11. \A j \in 1 .. m : steps'[a + j].sequence = c + j
    <3>1. \A j \in 1 .. m : steps'[a + j].sequence = (c + 1) + j - 1
      BY <1>2, <2>4, <2>5, <2>6
    <3>2. \A j \in 1 .. m : (c + 1) + j - 1 = c + j
      OBVIOUS
    <3> QED
      BY <3>1, <3>2
  <2>12. ASSUME NEW v \in {steps'[i].sequence : i \in V!StepsOf(r0)'}
         PROVE  v \in 1 .. (c + m)
    <3>1. PICK i \in V!StepsOf(r0)' : v = steps'[i].sequence
      OBVIOUS
    <3>2. CASE i \in old
      <4>1. v \in 1 .. c
        BY <2>9, <2>10, <3>1, <3>2
      <4> QED
        BY <4>1
    <3>3. CASE i \in (a + 1) .. (a + m)
      <4>1. i - a \in 1 .. m /\ i = a + (i - a)
        BY <3>3
      <4>2. v = c + (i - a)
        BY <2>11, <3>1, <4>1
      <4> QED
        BY <4>1, <4>2
    <3> QED
      BY <2>7, <3>1, <3>2, <3>3
  <2>13. ASSUME NEW v \in 1 .. (c + m)
         PROVE  v \in {steps'[i].sequence : i \in V!StepsOf(r0)'}
    <3>1. CASE v \in 1 .. c
      <4>1. PICK i \in old : v = steps[i].sequence
        BY <2>9, <3>1
      <4> QED
        BY <2>7, <2>10, <4>1
    <3>2. CASE v \notin 1 .. c
      <4>1. v - c \in 1 .. m /\ v = c + (v - c)
        BY <3>2
      <4>2. a + (v - c) \in (a + 1) .. (a + m)
        BY <4>1
      <4>3. steps'[a + (v - c)].sequence = v
        BY <2>11, <4>1
      <4> QED
        BY <2>7, <4>2, <4>3
    <3> QED
      BY <3>1, <3>2
  <2>14. {steps'[i].sequence : i \in V!StepsOf(r0)'} = 1 .. (c + m)
    BY <2>12, <2>13
  <2> QED
    BY <2>8, <2>14
<1> QED
  BY <1>3, <1>4 DEF Numbered

(* Where the actions of the user are, when rows are added. *)
LEMMA RowsAdded ==
  ASSUME UiInv, NEW new \in Seq(StepRows), steps' = steps \o new
  PROVE  /\ steps' \in Seq(StepRows)
         /\ \A i \in DOMAIN steps : i \in DOMAIN steps' /\ steps'[i] = steps[i]
         /\ \A j \in DOMAIN new : Len(steps) + j \in DOMAIN steps' /\ steps'[Len(steps) + j] = new[j]
         /\ \A i \in DOMAIN steps' : i \in DOMAIN steps \/ \E j \in DOMAIN new : i = Len(steps) + j
         /\ \A r, n \in Nat : InSteps(r, n)' <=> InSteps(r, n) \/ \E j \in DOMAIN new : new[j].recording = r /\ new[j].number = n
<1>1. PICK s \in Seq(StepRows) : s = steps
  BY DEF UiInv, UiTyped
<1>2. steps' = s \o new
  BY <1>1
<1>3. /\ s \o new \in Seq(StepRows)
      /\ \A i \in DOMAIN s : i \in DOMAIN (s \o new) /\ (s \o new)[i] = s[i]
      /\ \A j \in DOMAIN new : Len(s) + j \in DOMAIN (s \o new) /\ (s \o new)[Len(s) + j] = new[j] /\ Len(s) + j \notin DOMAIN s
      /\ \A i \in DOMAIN (s \o new) : i \in DOMAIN s \/ \E j \in DOMAIN new : i = Len(s) + j
  BY StepsAdded, Zenon
<1>4. /\ steps' \in Seq(StepRows)
      /\ \A i \in DOMAIN steps : i \in DOMAIN steps' /\ steps'[i] = steps[i]
      /\ \A j \in DOMAIN new : Len(steps) + j \in DOMAIN steps' /\ steps'[Len(steps) + j] = new[j]
      /\ \A i \in DOMAIN steps' : i \in DOMAIN steps \/ \E j \in DOMAIN new : i = Len(steps) + j
  BY <1>1, <1>2, <1>3
<1>5. ASSUME NEW r \in Nat, NEW n \in Nat
      PROVE  InSteps(r, n)' <=> InSteps(r, n) \/ \E j \in DOMAIN new : new[j].recording = r /\ new[j].number = n
  <2>1. ASSUME NEW i \in DOMAIN steps', steps'[i].recording = r, steps'[i].number = n
        PROVE  InSteps(r, n) \/ \E j \in DOMAIN new : new[j].recording = r /\ new[j].number = n
    BY <1>4, <2>1 DEF InSteps
  <2>2. InSteps(r, n) => InSteps(r, n)'
    BY <1>4 DEF InSteps
  <2>3. ASSUME NEW j \in DOMAIN new, new[j].recording = r, new[j].number = n
        PROVE  InSteps(r, n)'
    BY <1>4, <2>3 DEF InSteps
  <2>4. InSteps(r, n)' => \E i \in DOMAIN steps' : steps'[i].recording = r /\ steps'[i].number = n
    BY DEF InSteps
  <2> QED
    BY <2>1, <2>2, <2>3, <2>4
<1> QED
  BY <1>4, <1>5

(* A checkpoint is none of the user's actions. *)
LEMMA AddCheckpointKeeps ==
  ASSUME UiInv, V!AddCheckpoint
  PROVE  UiInv'
<1>1. PICK r0 \in DOMAIN recordings :
        steps' = Append(steps, [recording |-> r0, sequence |-> V!NextSequence(r0), number |-> 0])
  BY DEF V!AddCheckpoint
<1>2. UNCHANGED <<targets, recordings, runs, done, page, recorder, requests, lost, crashes>>
  BY DEF V!AddCheckpoint
<1>3. UiTyped /\ TargetsOK /\ RecorderOK /\ StepsOK /\ PageOK /\ RequestsOK /\ Apart /\ Kept /\ Numbered
  BY DEF UiInv
<1>4. steps \in Seq(StepRows) /\ recordings \in Seq(Sources) /\ r0 \in Nat
  BY <1>3 DEF UiTyped
<1>5. V!NextSequence(r0) \in Nat
  BY NextIs
<1>6. PICK row \in StepRows : row.recording = r0 /\ row.sequence = V!NextSequence(r0) /\ row.number = 0
                              /\ steps' = Append(steps, row)
  <2>1. [recording |-> r0, sequence |-> V!NextSequence(r0), number |-> 0] \in StepRows
    BY <1>4, <1>5 DEF StepRows
  <2> QED
    BY <1>1, <2>1
<1>7. PICK new \in Seq(StepRows) : new = <<row>>
  <2>1. <<row>> \in Seq(StepRows)
    OBVIOUS
  <2> QED
    BY <2>1
<1>8. steps' = steps \o new
  BY <1>4, <1>6, <1>7
<1>9. DOMAIN new = {1} /\ new[1] = row
  BY <1>7
<1>10. /\ steps' \in Seq(StepRows)
       /\ \A i \in DOMAIN steps : i \in DOMAIN steps' /\ steps'[i] = steps[i]
       /\ \A i \in DOMAIN steps' : i \in DOMAIN steps \/ i = Len(steps) + 1
       /\ steps'[Len(steps) + 1] = row
       /\ \A r, n \in Nat : InSteps(r, n)' <=> InSteps(r, n) \/ (r = r0 /\ n = 0)
  <2>1. /\ steps' \in Seq(StepRows)
        /\ \A i \in DOMAIN steps : i \in DOMAIN steps' /\ steps'[i] = steps[i]
        /\ \A j \in DOMAIN new : Len(steps) + j \in DOMAIN steps' /\ steps'[Len(steps) + j] = new[j]
        /\ \A i \in DOMAIN steps' : i \in DOMAIN steps \/ \E j \in DOMAIN new : i = Len(steps) + j
        /\ \A r, n \in Nat : InSteps(r, n)' <=> InSteps(r, n) \/ \E j \in DOMAIN new : new[j].recording = r /\ new[j].number = n
    BY <1>8, RowsAdded
  <2> QED
    BY <1>6, <1>9, <2>1
<1>11. Numbered'
  <2>1. \A j \in DOMAIN new : new[j].recording = r0 /\ new[j].sequence = V!NextSequence(r0) + j - 1
    BY <1>5, <1>6, <1>9
  <2> QED
    BY <1>2, <1>8, <2>1, NumbersGrow
<1>12. UiTyped' /\ TargetsOK' /\ RecorderOK'
  BY <1>2, <1>3, <1>10 DEF UiTyped, TargetsOK, RecorderOK
<1>13. PageOK' /\ RequestsOK'
  BY <1>2, <1>3 DEF PageOK, RequestsOK, Collects
<1>14. StepsOK'
  BY <1>2, <1>3, <1>6, <1>10 DEF StepsOK
<1>15. /\ \A r, n : InPage(r, n)' <=> InPage(r, n)
       /\ \A r, n, t : InHand(t, r, n)' <=> InHand(t, r, n)
  BY <1>2 DEF InPage, InHand
<1>16. /\ ~ InPage(r0, 0) /\ \A t \in Threads : ~ InHand(t, r0, 0)
  <2>1. done[r0] \in Seq(Fields \cup {Click})
    <3>1. done \in Seq(Seq(Fields \cup {Click})) /\ DOMAIN done = DOMAIN recordings
      BY <1>3 DEF UiTyped
    <3> QED
      BY <3>1, Element
  <2>2. 0 \notin DOMAIN done[r0]
    BY <2>1
  <2> QED
    BY <1>4, <2>2, DoneBefore
<1>17. Apart'
  <2>1. \A i, j \in DOMAIN steps' :
          steps'[i].recording = steps'[j].recording /\ steps'[i].number = steps'[j].number /\ steps'[i].number # 0 => i = j
    BY <1>3, <1>6, <1>10 DEF Apart
  <2>2. \A r, n \in Nat : InPage(r, n)' => ~ InSteps(r, n)'
    BY <1>3, <1>10, <1>15, <1>16 DEF Apart
  <2>3. \A r, n \in Nat, t \in Threads : InHand(t, r, n)' => ~ InPage(r, n)' /\ ~ InSteps(r, n)'
    <3>1. \A r, n \in Nat, t \in Threads : InHand(t, r, n) => ~ InPage(r, n) /\ ~ InSteps(r, n)
      BY <1>3 DEF Apart
    <3> QED
      BY <1>10, <1>15, <1>16, <3>1
  <2>4. \A r, n \in Nat, t, u \in Threads : InHand(t, r, n)' /\ InHand(u, r, n)' => t = u
    <3>1. \A r, n \in Nat, t, u \in Threads : InHand(t, r, n) /\ InHand(u, r, n) => t = u
      BY <1>3 DEF Apart
    <3> QED
      BY <1>15, <3>1
  <2> QED
    BY <2>1, <2>2, <2>3, <2>4 DEF Apart
<1>18. Kept'
  <2>1. ASSUME NEW r \in DOMAIN recordings, NEW n \in DOMAIN done[r]
        PROVE  \/ InPage(r, n)' \/ InSteps(r, n)' \/ (V!Of(r, n) \in lost)' \/ (\E t \in Threads : InHand(t, r, n)')
               \/ Again(r, n)'
    <3>1. Again(r, n) => Again(r, n)'
      BY <1>2 DEF Again
    <3>2. InSteps(r, n) => InSteps(r, n)'
      BY <1>10 DEF InSteps
    <3>3. \/ InPage(r, n) \/ InSteps(r, n) \/ V!Of(r, n) \in lost \/ \E t \in Threads : InHand(t, r, n)
          \/ Again(r, n)
      BY <1>3 DEF Kept
    <3> QED
      BY <1>2, <1>15, <3>1, <3>2, <3>3
  <2> QED
    BY <1>2, <2>1 DEF Kept
<1> QED
  BY <1>11, <1>12, <1>13, <1>14, <1>17, <1>18 DEF UiInv

(* What is written are the numbers that are held, less those filled in     *)
(* again.                                                                  *)
KeptOf(r, held) == {i \in DOMAIN held : ~ V!Refilled(r, held, i)}

LEMMA NormalizedIs ==
  ASSUME NEW r, NEW held
  PROVE  V!Normalized(r, held) = R!Selected(held, KeptOf(r, held))
BY DEF V!Normalized, KeptOf, R!Selected, R!Cardinality, V!Cardinality

LEMMA NormalizedFact ==
  ASSUME NEW r, NEW held \in Seq(Nat), NEW b \in Nat, \A k \in DOMAIN held : held[k] = b + k
  PROVE  /\ V!Normalized(r, held) \in Seq(Nat)
         /\ \A j \in DOMAIN V!Normalized(r, held) : \E k \in DOMAIN held : V!Normalized(r, held)[j] = held[k]
         /\ \A j, l \in DOMAIN V!Normalized(r, held) : V!Normalized(r, held)[j] = V!Normalized(r, held)[l] => j = l
         /\ \A k \in DOMAIN held : V!Refilled(r, held, k) \/ \E j \in DOMAIN V!Normalized(r, held) : V!Normalized(r, held)[j] = held[k]
<1>1. PICK kept : kept = KeptOf(r, held)
  OBVIOUS
<1>2. PICK m : m = V!Normalized(r, held)
  OBVIOUS
<1>3. m = R!Selected(held, kept) /\ kept \in SUBSET DOMAIN held
  BY <1>1, <1>2, NormalizedIs DEF KeptOf
<1>4. /\ m \in Seq(Nat) /\ DOMAIN m = 1 .. Cardinality(kept)
      /\ \A k \in 1 .. Cardinality(kept) : Nth(kept, k) \in kept /\ m[k] = held[Nth(kept, k)]
      /\ \A k, l \in 1 .. Cardinality(kept) : Nth(kept, k) = Nth(kept, l) => k = l
      /\ \A i \in kept : Place(kept, i) \in DOMAIN m /\ m[Place(kept, i)] = held[i]
  BY <1>3, SelectedFact
<1>5. \A j \in DOMAIN m : Nth(kept, j) \in DOMAIN held /\ m[j] = held[Nth(kept, j)]
  BY <1>3, <1>4
<1>6. \A k, l \in DOMAIN held : held[k] = held[l] => k = l
  OBVIOUS
<1>7. \A j, l \in DOMAIN m : m[j] = m[l] => j = l
  BY <1>4, <1>5, <1>6
<1>8. \A k \in DOMAIN held : V!Refilled(r, held, k) \/ \E j \in DOMAIN m : m[j] = held[k]
  BY <1>1, <1>4 DEF KeptOf
<1> QED
  BY <1>2, <1>4, <1>5, <1>7, <1>8

(* What a request holds is written, but for what was filled in again. *)
LEMMA AppendStepsKeeps ==
  ASSUME UiInv, V!AppendSteps
  PROVE  UiInv'
<1>1. PICK t0 \in Threads :
        /\ requests[t0] # V!Idle /\ requests[t0].kind # "replay" /\ requests[t0].at = "append"
        /\ steps' = steps \o [i \in DOMAIN V!Normalized(requests[t0].recording, requests[t0].held) |->
              [recording |-> requests[t0].recording, sequence |-> V!NextSequence(requests[t0].recording) + i - 1,
               number |-> V!Normalized(requests[t0].recording, requests[t0].held)[i]]]
        /\ requests' = [requests EXCEPT ![t0] =
              IF requests[t0].kind = "collect" THEN V!Idle ELSE [requests[t0] EXCEPT !.at = "leave", !.held = <<>>]]
  BY DEF V!AppendSteps
<1>2. UNCHANGED <<targets, recordings, runs, done, page, recorder, lost, crashes>>
  BY DEF V!AppendSteps
<1>3. UiTyped /\ TargetsOK /\ RecorderOK /\ StepsOK /\ PageOK /\ RequestsOK /\ Apart /\ Kept /\ Numbered
  BY DEF UiInv
<1>4. Collects(requests[t0])
  BY <1>1, RequestIs
<1>5. PICK r0, held : r0 = requests[t0].recording /\ held = requests[t0].held
  OBVIOUS
<1>6. r0 \in DOMAIN recordings /\ requests[t0] \in Collecting /\ held \in Seq(Nat)
  BY <1>4, <1>5 DEF Collects, Collecting
<1>7. PICK b \in Nat : Stretch(held, Len(done[r0]), b)
  BY <1>4, <1>5 DEF Collects
<1>8. /\ done \in Seq(Seq(Fields \cup {Click})) /\ steps \in Seq(StepRows)
      /\ DOMAIN done = DOMAIN recordings /\ DOMAIN recordings \subseteq Nat
      /\ requests = [x \in Threads |-> requests[x]]
  BY <1>3 DEF UiTyped
<1>9. \A r \in DOMAIN recordings : done[r] \in Seq(Fields \cup {Click})
  BY <1>8, Element
<1>10. PICK m \in Seq(Nat) :
         /\ m = V!Normalized(r0, held)
         /\ \A j \in DOMAIN m : \E k \in DOMAIN held : m[j] = held[k]
         /\ \A j, l \in DOMAIN m : m[j] = m[l] => j = l
         /\ \A k \in DOMAIN held : V!Refilled(r0, held, k) \/ \E j \in DOMAIN m : m[j] = held[k]
  <2>1. \A k \in DOMAIN held : held[k] = b + k
    BY <1>7 DEF Stretch
  <2>2. /\ V!Normalized(r0, held) \in Seq(Nat)
        /\ \A j \in DOMAIN V!Normalized(r0, held) : \E k \in DOMAIN held : V!Normalized(r0, held)[j] = held[k]
        /\ \A j, l \in DOMAIN V!Normalized(r0, held) : V!Normalized(r0, held)[j] = V!Normalized(r0, held)[l] => j = l
        /\ \A k \in DOMAIN held : V!Refilled(r0, held, k) \/ \E j \in DOMAIN V!Normalized(r0, held) : V!Normalized(r0, held)[j] = held[k]
    BY <1>6, <2>1, NormalizedFact
  <2>3. PICK m : m = V!Normalized(r0, held)
    OBVIOUS
  <2> QED
    BY <2>2, <2>3
<1>11. r0 \in Nat /\ V!NextSequence(r0) \in Nat \ {0}
  BY <1>6, <1>8, NextIs
<1>12. PICK c \in Nat \ {0} : c = V!NextSequence(r0)
  BY <1>11
<1>13. PICK new : new = [i \in DOMAIN m |-> [recording |-> r0, sequence |-> c + i - 1, number |-> m[i]]]
  OBVIOUS
<1>14. steps' = steps \o new
  BY <1>1, <1>5, <1>10, <1>12, <1>13
<1>15. /\ new \in Seq(StepRows) /\ DOMAIN new = DOMAIN m
       /\ \A j \in DOMAIN new : new[j].recording = r0 /\ new[j].sequence = c + j - 1 /\ new[j].number = m[j]
  <2>1. DOMAIN m = 1 .. Len(m) /\ Len(m) \in Nat /\ \A j \in DOMAIN m : m[j] \in Nat /\ c + j - 1 \in Nat
    OBVIOUS
  <2>2. \A j \in DOMAIN m : [recording |-> r0, sequence |-> c + j - 1, number |-> m[j]] \in StepRows
    BY <1>11, <2>1 DEF StepRows
  <2>3. new \in [1 .. Len(m) -> StepRows] /\ DOMAIN new = DOMAIN m
    BY <1>13, <2>1, <2>2
  <2>4. new \in Seq(StepRows)
    BY <2>1, <2>3
  <2> QED
    BY <1>13, <2>3, <2>4
<1>16. /\ steps' \in Seq(StepRows)
       /\ \A i \in DOMAIN steps : i \in DOMAIN steps' /\ steps'[i] = steps[i]
       /\ \A j \in DOMAIN new : Len(steps) + j \in DOMAIN steps' /\ steps'[Len(steps) + j] = new[j]
       /\ \A i \in DOMAIN steps' : i \in DOMAIN steps \/ \E j \in DOMAIN new : i = Len(steps) + j
       /\ \A r, n \in Nat : InSteps(r, n)' <=> InSteps(r, n) \/ \E j \in DOMAIN new : new[j].recording = r /\ new[j].number = n
  BY <1>14, <1>15, RowsAdded
<1>17. Numbered'
  <2>1. \A j \in DOMAIN new : new[j].recording = r0 /\ new[j].sequence = V!NextSequence(r0) + j - 1
    BY <1>12, <1>15
  <2> QED
    BY <1>2, <1>6, <1>14, <1>15, <2>1, NumbersGrow
<1>18. PICK q : /\ requests' = [requests EXCEPT ![t0] = q]
                /\ q = V!Idle \/ Collects(q)
                /\ "held" \in DOMAIN q => q.held = <<>>
  <2>1. CASE requests[t0].kind = "collect"
    <3>1. requests' = [requests EXCEPT ![t0] = V!Idle] /\ "held" \notin DOMAIN V!Idle
      BY <1>1, <2>1 DEF V!Idle
    <3> QED
      BY <3>1
  <2>2. CASE requests[t0].kind # "collect"
    <3>1. PICK q : q = [requests[t0] EXCEPT !.at = "leave", !.held = <<>>]
      OBVIOUS
    <3>2. <<>> \in Seq(Nat)
      OBVIOUS
    <3>3. q \in Collecting /\ q.recording = r0 /\ q.held = <<>> /\ q.at = "leave"
      BY <1>5, <1>6, <3>1, <3>2 DEF Collecting
    <3>4. 0 \in Nat /\ Stretch(q.held, Len(done[r0]), 0)
      <4>1. Len(q.held) = 0 /\ DOMAIN q.held = {} /\ Len(done[r0]) \in Nat
        BY <1>6, <1>9, <3>3
      <4> QED
        BY <4>1 DEF Stretch
    <3>5. Collects(q)
      BY <1>6, <3>3, <3>4 DEF Collects
    <3>6. requests' = [requests EXCEPT ![t0] = q]
      BY <1>1, <2>2, <3>1
    <3> QED
      BY <3>3, <3>5, <3>6
  <2> QED
    BY <2>1, <2>2
<1>19. /\ requests' = [x \in Threads |-> requests'[x]]
       /\ requests'[t0] = q /\ \A u \in Threads : u # t0 => requests'[u] = requests[u]
  BY <1>8, <1>18
<1>20. UiTyped' /\ TargetsOK' /\ RecorderOK'
  BY <1>2, <1>3, <1>16, <1>19 DEF UiTyped, TargetsOK, RecorderOK
<1>21. PageOK'
  BY <1>2, <1>3 DEF PageOK
<1>22. RequestsOK'
  <2>1. Collects(q) => Collects(q)'
    BY <1>2, CollectsStays
  <2> QED
    BY <1>2, <1>18, <1>19, <2>1, RequestsStay
<1>23. /\ \A r, n \in Nat : InPage(r, n)' <=> InPage(r, n)
       /\ \A r, n \in Nat, t \in Threads : InHand(t, r, n)' <=> InHand(t, r, n) /\ t # t0
       /\ \A n \in Nat : InHand(t0, r0, n) <=> \E k \in DOMAIN held : held[k] = n
  <2>1. \A r, n \in Nat : InPage(r, n)' <=> InPage(r, n)
    BY <1>2 DEF InPage
  <2>2. \A r, n \in Nat, t \in Threads : t # t0 => (InHand(t, r, n)' <=> InHand(t, r, n))
    BY <1>19 DEF InHand
  <2>3. \A r, n \in Nat : ~ InHand(t0, r, n)'
    BY <1>18, <1>19 DEF InHand
  <2>4. "held" \in DOMAIN requests[t0]
    BY <1>6 DEF Collecting
  <2>5. \A n \in Nat : InHand(t0, r0, n) <=> \E k \in DOMAIN held : held[k] = n
    BY <1>5, <2>4 DEF InHand
  <2> QED
    BY <2>1, <2>2, <2>3, <2>5
<1>24. \A j \in DOMAIN m : m[j] \in Nat /\ InHand(t0, r0, m[j])
  <2>1. \A j \in DOMAIN m : m[j] \in Nat
    OBVIOUS
  <2> QED
    BY <1>10, <1>23, <2>1
<1>25. \A r, n \in Nat : InSteps(r, n)' <=> InSteps(r, n) \/ (r = r0 /\ \E j \in DOMAIN m : m[j] = n)
  <2>1. ASSUME NEW r \in Nat, NEW n \in Nat
        PROVE  (\E j \in DOMAIN new : new[j].recording = r /\ new[j].number = n) <=> (r = r0 /\ \E j \in DOMAIN m : m[j] = n)
    <3>1. \A j \in DOMAIN m : new[j].recording = r0 /\ new[j].number = m[j]
      BY <1>15
    <3>2. DOMAIN new = DOMAIN m
      BY <1>15
    <3> QED
      BY <3>1, <3>2, Zenon
  <2>2. \A r, n \in Nat : InSteps(r, n)' <=> InSteps(r, n) \/ \E j \in DOMAIN new : new[j].recording = r /\ new[j].number = n
    BY <1>16
  <2>3. ASSUME NEW r \in Nat, NEW n \in Nat
        PROVE  InSteps(r, n)' <=> InSteps(r, n) \/ (r = r0 /\ \E j \in DOMAIN m : m[j] = n)
    <3>1. InSteps(r, n)' <=> InSteps(r, n) \/ \E j \in DOMAIN new : new[j].recording = r /\ new[j].number = n
      BY <2>2
    <3>2. (\E j \in DOMAIN new : new[j].recording = r /\ new[j].number = n) <=> (r = r0 /\ \E j \in DOMAIN m : m[j] = n)
      BY <2>1
    <3> QED
      BY <3>1, <3>2
  <2> QED
    BY <2>3
<1>26. StepsOK'
  <2>1. \A j \in DOMAIN new : new[j].recording \in DOMAIN recordings /\ new[j].number \in DOMAIN done[new[j].recording]
    BY <1>6, <1>11, <1>15, <1>24, DoneBefore
  <2> QED
    BY <1>2, <1>3, <1>16, <2>1 DEF StepsOK
<1>27. Apart'
  <2>1. ASSUME NEW i \in DOMAIN steps', NEW j \in DOMAIN steps', steps'[i].recording = steps'[j].recording,
               steps'[i].number = steps'[j].number, steps'[i].number # 0
        PROVE  i = j
    <3>1. ASSUME NEW x \in DOMAIN steps, NEW l \in DOMAIN new
          PROVE  ~ (steps[x].recording = new[l].recording /\ steps[x].number = new[l].number)
      <4>1. ~ InSteps(r0, m[l])
        BY <1>3, <1>11, <1>15, <1>24 DEF Apart
      <4> QED
        BY <1>15, <4>1 DEF InSteps
    <3>2. CASE i \in DOMAIN steps /\ j \in DOMAIN steps
      BY <1>3, <1>16, <2>1, <3>2 DEF Apart
    <3>3. ASSUME NEW k \in DOMAIN new, NEW l \in DOMAIN new, i = Len(steps) + k, j = Len(steps) + l
          PROVE  i = j
      <4>1. m[k] = m[l]
        BY <1>15, <1>16, <2>1, <3>3
      <4> QED
        BY <1>10, <1>15, <3>3, <4>1
    <3> QED
      BY <1>16, <2>1, <3>1, <3>2, <3>3
  <2>2. \A r, n \in Nat : InPage(r, n)' => ~ InSteps(r, n)'
    <3>1. \A r, n \in Nat : InPage(r, n) => ~ InSteps(r, n)
      BY <1>3 DEF Apart
    <3>2. \A j \in DOMAIN m : ~ InPage(r0, m[j])
      BY <1>3, <1>11, <1>24 DEF Apart
    <3> QED
      BY <1>23, <1>25, <3>1, <3>2
  <2>3. \A r, n \in Nat, t \in Threads : InHand(t, r, n)' => ~ InPage(r, n)' /\ ~ InSteps(r, n)'
    <3>1. \A r, n \in Nat, t \in Threads : InHand(t, r, n) => ~ InPage(r, n) /\ ~ InSteps(r, n)
      BY <1>3 DEF Apart
    <3>2. \A j \in DOMAIN m, t \in Threads : InHand(t, r0, m[j]) => t = t0
      BY <1>3, <1>11, <1>24 DEF Apart
    <3> QED
      BY <1>23, <1>25, <3>1, <3>2
  <2>4. \A r, n \in Nat, t, u \in Threads : InHand(t, r, n)' /\ InHand(u, r, n)' => t = u
    <3>1. \A r, n \in Nat, t, u \in Threads : InHand(t, r, n) /\ InHand(u, r, n) => t = u
      BY <1>3 DEF Apart
    <3> QED
      BY <1>23, <3>1
  <2> QED
    BY <2>1, <2>2, <2>3, <2>4 DEF Apart
<1>28. Kept'
  <2>1. ASSUME NEW k \in DOMAIN held, V!Refilled(r0, held, k)
        PROVE  Again(r0, held[k])
    <3>1. k < Len(held) /\ done[r0][held[k]] # Click /\ done[r0][held[k + 1]] = done[r0][held[k]]
      BY <2>1 DEF V!Refilled
    <3>2. k \in Nat /\ Len(held) \in Nat /\ k + 1 \in DOMAIN held
      BY <1>6, <3>1
    <3>3. held[k] = b + k /\ held[k + 1] = b + (k + 1) /\ b + Len(held) <= Len(done[r0])
      BY <1>7, <3>2 DEF Stretch
    <3>4. held[k + 1] = held[k] + 1
      BY <3>2, <3>3
    <3>5. held[k + 1] \in Nat /\ InHand(t0, r0, held[k + 1])
      BY <1>6, <1>23, <3>2
    <3>6. held[k] + 1 \in DOMAIN done[r0]
      BY <1>11, <3>4, <3>5, DoneBefore
    <3> QED
      BY <3>1, <3>4, <3>6 DEF Again
  <2>2. ASSUME NEW r \in DOMAIN recordings, NEW n \in DOMAIN done[r]
        PROVE  \/ InPage(r, n)' \/ InSteps(r, n)' \/ (V!Of(r, n) \in lost)' \/ (\E t \in Threads : InHand(t, r, n)')
               \/ Again(r, n)'
    <3>1. r \in Nat /\ n \in Nat
      BY <1>8, <1>9
    <3>2. Again(r, n) => Again(r, n)'
      BY <1>2 DEF Again
    <3>3. InHand(t0, r, n) => InSteps(r, n)' \/ Again(r, n)
      <4> SUFFICES ASSUME InHand(t0, r, n)
                   PROVE  InSteps(r, n)' \/ Again(r, n)
        OBVIOUS
      <4>1. r = r0
        BY <1>5 DEF InHand
      <4>2. PICK k \in DOMAIN held : held[k] = n
        BY <1>23, <3>1, <4>1
      <4> QED
        BY <1>10, <1>25, <2>1, <3>1, <4>1, <4>2
    <3>4. InSteps(r, n) => InSteps(r, n)'
      BY <1>25, <3>1
    <3>5. \/ InPage(r, n) \/ InSteps(r, n) \/ V!Of(r, n) \in lost \/ \E t \in Threads : InHand(t, r, n)
          \/ Again(r, n)
      BY <1>3 DEF Kept
    <3> QED
      BY <1>2, <1>23, <3>1, <3>2, <3>3, <3>4, <3>5
  <2> QED
    BY <1>2, <2>2 DEF Kept
<1> QED
  BY <1>17, <1>20, <1>21, <1>22, <1>26, <1>27, <1>28 DEF UiInv

LEMMA UiStep ==
  ASSUME UiInv, V!Next
  PROVE  UiInv'
BY AddTargetKeeps, StartRecordingKeeps, ActKeeps, UiBeginKeeps, ExportKeeps, RefusedKeeps, AppendStepsKeeps,
   LeavePageKeeps, FinishRecordingKeeps, AddCheckpointKeeps, ReplayKeeps, RunStepKeeps, UiCrashKeeps DEF V!Next

LEMMA UiSame ==
  ASSUME UiInv, UNCHANGED recordingUi
  PROVE  UiInv'
<1>1. UNCHANGED <<targets, recordings, steps, done, page, recorder, requests, lost>>
  BY DEF recordingUi
<1>2. UiTyped' /\ TargetsOK'
  BY <1>1 DEF UiInv, UiTyped, TargetsOK
<1> QED
  BY <1>1, <1>2, RestStays DEF UiInv

LEMMA UiInit ==
  ASSUME V!Init
  PROVE  UiInv
<1>1. /\ targets = <<>> /\ recordings = <<>> /\ steps = <<>> /\ done = <<>> /\ page = <<>> /\ recorder = <<>>
      /\ requests = [t \in Threads |-> V!Idle]
  BY DEF V!Init
<1>2. UiTyped
  BY <1>1 DEF UiTyped
<1>3. DOMAIN recordings = {} /\ DOMAIN steps = {} /\ DOMAIN targets = {}
  BY <1>1
<1>4. TargetsOK /\ RecorderOK /\ StepsOK /\ PageOK /\ Kept /\ Numbered
  BY <1>3 DEF TargetsOK, RecorderOK, StepsOK, PageOK, Kept, Numbered
<1>5. \A t \in Threads : requests[t] = V!Idle
  BY <1>1
<1>6. RequestsOK
  BY <1>5 DEF RequestsOK
<1>7. Apart
  <2>1. \A t \in Threads, r, n \in Nat : ~ InHand(t, r, n)
    BY <1>5, NothingInHand
  <2>2. \A r, n \in Nat : ~ InPage(r, n) /\ ~ InSteps(r, n)
    BY <1>3 DEF InPage, InSteps
  <2> QED
    BY <1>3, <2>1, <2>2 DEF Apart
<1> QED
  BY <1>2, <1>4, <1>6, <1>7 DEF UiInv

(* The invariant in the words of the property. *)
LEMMA UiIsRecorded ==
  ASSUME UiInv
  PROVE  V!RecordedInOrder
<1>1. UiTyped /\ TargetsOK /\ RecorderOK /\ StepsOK /\ PageOK /\ RequestsOK /\ Apart /\ Kept /\ Numbered
  BY DEF UiInv
<1>2. /\ recordings \in Seq(Sources) /\ DOMAIN recordings \subseteq Nat /\ steps \in Seq(StepRows)
      /\ page \in Seq(Seq(Nat)) /\ DOMAIN page = DOMAIN recordings
      /\ done \in Seq(Seq(Fields \cup {Click})) /\ DOMAIN done = DOMAIN recordings
  BY <1>1 DEF UiTyped
<1>3. \A r \in DOMAIN recordings : page[r] \in Seq(Nat) /\ done[r] \in Seq(Fields \cup {Click})
  BY <1>2, Element
<1>4. \A r, n, x, y : V!Of(r, n) = V!Of(x, y) => r = x /\ n = y
  BY DEF V!Of
<1>5. V!TypeOK
  <2>1. \A r \in DOMAIN recordings : recordings[r].status \in {"recording", "recorded"}
    <3>1. \A r \in DOMAIN recordings : recordings[r] \in Sources
      BY <1>2, Element
    <3> QED
      BY <3>1 DEF Sources
  <2>2. \A r \in DOMAIN recordings : V!Range(page[r]) \subseteq V!Numbers(r)
    <3>1. ASSUME NEW r \in DOMAIN recordings, NEW k \in DOMAIN page[r]
          PROVE  page[r][k] \in DOMAIN done[r]
      <4>1. r \in Nat /\ page[r][k] \in Nat /\ InPage(r, page[r][k])
        BY <1>2, <1>3 DEF InPage
      <4> QED
        BY <4>1, DoneBefore
    <3> QED
      BY <3>1 DEF V!Range, V!Numbers
  <2> QED
    BY <1>1, <2>1, <2>2 DEF V!TypeOK, V!Numbers, TargetsOK, RecorderOK, StepsOK
<1>6. \A p \in V!Paged : \E r, n \in Nat : p = V!Of(r, n) /\ InPage(r, n)
  <2> SUFFICES ASSUME NEW p \in V!Paged
               PROVE  \E r, n \in Nat : p = V!Of(r, n) /\ InPage(r, n)
    OBVIOUS
  <2>1. PICK r \in DOMAIN recordings : p \in {V!Of(r, n) : n \in V!Range(page[r])}
    BY DEF V!Paged
  <2>2. PICK k \in DOMAIN page[r] : p = V!Of(r, page[r][k])
    BY <2>1 DEF V!Range
  <2>3. r \in Nat /\ page[r][k] \in Nat
    BY <1>2, <1>3, <2>2
  <2>4. InPage(r, page[r][k])
    BY DEF InPage
  <2> QED
    BY <2>2, <2>3, <2>4
<1>7. \A p \in V!Written : \E r, n \in Nat : p = V!Of(r, n) /\ InSteps(r, n)
  <2>1. \A i \in DOMAIN steps : steps[i].recording \in Nat /\ steps[i].number \in Nat
    <3>1. \A i \in DOMAIN steps : steps[i] \in StepRows
      BY <1>2, Element
    <3> QED
      BY <3>1 DEF StepRows
  <2> QED
    BY <2>1 DEF V!Written, InSteps
<1>8. \A t \in Threads : \A p \in V!Held(t) : \E r, n \in Nat : p = V!Of(r, n) /\ InHand(t, r, n)
  <2> SUFFICES ASSUME NEW t \in Threads, NEW p \in V!Held(t)
               PROVE  \E r, n \in Nat : p = V!Of(r, n) /\ InHand(t, r, n)
    OBVIOUS
  <2>1. "held" \in DOMAIN requests[t] /\ p \in {V!Of(requests[t].recording, n) : n \in V!Range(requests[t].held)}
    BY DEF V!Held
  <2>2. PICK k \in DOMAIN requests[t].held : p = V!Of(requests[t].recording, requests[t].held[k])
    BY <2>1 DEF V!Range
  <2>3. InHand(t, requests[t].recording, requests[t].held[k])
    BY <2>1, <2>2 DEF InHand
  <2>4. Collects(requests[t])
    BY <2>3, HoldsOnlyAppending
  <2>5. requests[t].recording \in Nat /\ requests[t].held[k] \in Nat
    BY <2>2, <2>4 DEF Collects, Collecting
  <2> QED
    BY <2>2, <2>3, <2>5
<1>9. V!RecordedOnce
  <2>1. \A i, j \in DOMAIN steps :
          steps[i].number # 0 /\ V!Of(steps[i].recording, steps[i].number) = V!Of(steps[j].recording, steps[j].number) => i = j
    BY <1>1, <1>4 DEF Apart
  <2>2. V!Paged \cap V!Written = {}
    BY <1>1, <1>4, <1>6, <1>7 DEF Apart
  <2>3. \A t \in Threads : V!Paged \cap V!Held(t) = {} /\ V!Written \cap V!Held(t) = {}
    <3>1. \A t \in Threads : V!Paged \cap V!Held(t) = {}
      BY <1>1, <1>4, <1>6, <1>8 DEF Apart
    <3>2. \A t \in Threads : V!Written \cap V!Held(t) = {}
      BY <1>1, <1>4, <1>7, <1>8 DEF Apart
    <3> QED
      BY <3>1, <3>2
  <2>4. \A t, u \in Threads : t # u => V!Held(t) \cap V!Held(u) = {}
    BY <1>1, <1>4, <1>8 DEF Apart
  <2> QED
    BY <2>1, <2>2, <2>3, <2>4 DEF V!RecordedOnce
<1>10. V!OnlySupersededIsDropped
  <2> SUFFICES ASSUME NEW r \in DOMAIN recordings, NEW n \in DOMAIN done[r]
               PROVE  \/ V!Of(r, n) \in V!Paged \cup V!Written \cup lost \cup UNION {V!Held(t) : t \in Threads}
                      \/ done[r][n] # Click /\ n + 1 \in DOMAIN done[r] /\ done[r][n + 1] = done[r][n]
    BY DEF V!OnlySupersededIsDropped, V!Numbers
  <2>1. InPage(r, n) => V!Of(r, n) \in V!Paged
    BY DEF InPage, V!Paged, V!Range
  <2>2. InSteps(r, n) => V!Of(r, n) \in V!Written
    BY DEF InSteps, V!Written
  <2>3. \A t \in Threads : InHand(t, r, n) => V!Of(r, n) \in V!Held(t)
    BY DEF InHand, V!Held, V!Range
  <2> QED
    BY <1>1, <2>1, <2>2, <2>3 DEF Kept, Again
<1>11. V!SequencesHaveNoGap
  BY <1>1 DEF Numbered, V!SequencesHaveNoGap, V!Cardinality, Cardinality
<1> QED
  BY <1>5, <1>9, <1>10, <1>11 DEF V!RecordedInOrder

UiHolds == focus = "ui" => UiInv

LEMMA UiHoldsInit == Init => UiHolds
BY UiInit DEF Init, UiHolds

LEMMA UiHoldsStep ==
  UiHolds /\ [Next]_vars => UiHolds'
<1> SUFFICES ASSUME UiHolds, [Next]_vars, focus' = "ui"
             PROVE  UiInv'
  BY DEF UiHolds
<1>1. focus = "ui" /\ UiInv
  BY DEF Next, vars, UiHolds
<1>2. CASE V!Next
  BY <1>1, <1>2, UiStep
<1>3. CASE UNCHANGED vars
  BY <1>1, <1>3, UiSame DEF vars, keeping
<1> QED
  BY <1>1, <1>2, <1>3 DEF Next, keeping

(* A recording is what the user has done, once and in order: every action  *)
(* is in the page, with one request, in one step, lost with its request or *)
(* filled in again, and the steps are numbered without gap.  For any       *)
(* number of recordings, of actions, and of collections that overlap.      *)
THEOREM RecordedInOrderHolds == Spec => []RecordedInOrder
<1>1. UiHolds => RecordedInOrder
  BY UiIsRecorded DEF UiHolds, RecordedInOrder
<1> QED
  BY <1>1, UiHoldsInit, UiHoldsStep, PTL DEF Spec

-----------------------------------------------------------------------------
(* Sequences of whatever. *)
IsSeq(w) == w \in Seq(Range(w))

LEMMA SeqAppend ==
  ASSUME NEW w, IsSeq(w), NEW v
  PROVE  /\ IsSeq(Append(w, v)) /\ Len(w) \in Nat /\ Len(Append(w, v)) = Len(w) + 1
         /\ DOMAIN w = 1 .. Len(w) /\ DOMAIN Append(w, v) = 1 .. Len(w) + 1
         /\ \A i \in 1 .. Len(w) : Append(w, v)[i] = w[i]
         /\ Append(w, v)[Len(w) + 1] = v
         /\ Range(Append(w, v)) = Range(w) \cup {v}
         /\ w # <<>> => Head(Append(w, v)) = Head(w)
<1> DEFINE Z == Range(w) \cup {v}
<1>1. w \in Seq(Z) /\ v \in Z
  BY DEF IsSeq
<1> HIDE DEF Z
<1>2. /\ Append(w, v) \in Seq(Z) /\ Len(w) \in Nat /\ Len(Append(w, v)) = Len(w) + 1
      /\ DOMAIN w = 1 .. Len(w) /\ DOMAIN Append(w, v) = 1 .. Len(w) + 1
      /\ \A i \in 1 .. Len(w) : Append(w, v)[i] = w[i]
      /\ Append(w, v)[Len(w) + 1] = v
      /\ w # <<>> => Head(Append(w, v)) = Head(w)
  BY <1>1
<1>3. Range(Append(w, v)) = Range(w) \cup {v}
  BY <1>2 DEF Range
<1> QED
  BY <1>2, <1>3 DEF IsSeq, Z

LEMMA SeqTail ==
  ASSUME NEW w, IsSeq(w), w # <<>>
  PROVE  /\ IsSeq(Tail(w)) /\ Len(w) \in Nat \ {0} /\ Len(Tail(w)) = Len(w) - 1
         /\ DOMAIN w = 1 .. Len(w) /\ DOMAIN Tail(w) = 1 .. Len(w) - 1
         /\ \A i \in 1 .. Len(w) - 1 : Tail(w)[i] = w[i + 1]
         /\ Head(w) = w[1] /\ Range(w) = {Head(w)} \cup Range(Tail(w))
<1>1. /\ Tail(w) \in Seq(Range(w)) /\ Len(w) \in Nat \ {0} /\ Len(Tail(w)) = Len(w) - 1
      /\ DOMAIN w = 1 .. Len(w) /\ DOMAIN Tail(w) = 1 .. Len(w) - 1
      /\ \A i \in 1 .. Len(w) - 1 : Tail(w)[i] = w[i + 1]
      /\ Head(w) = w[1]
  BY DEF IsSeq
<1>2. Range(Tail(w)) \subseteq Range(w) /\ Head(w) \in Range(w)
  BY <1>1 DEF Range
<1>3. ASSUME NEW v \in Range(w)
      PROVE  v \in {Head(w)} \cup Range(Tail(w))
  <2>1. PICK i \in 1 .. Len(w) : v = w[i]
    BY <1>1 DEF Range
  <2>2. CASE i = 1
    BY <1>1, <2>1, <2>2
  <2>3. CASE i # 1
    <3>1. i - 1 \in 1 .. Len(w) - 1
      BY <1>1, <2>3
    <3>2. Tail(w)[i - 1] = w[(i - 1) + 1] /\ (i - 1) + 1 = i
      BY <1>1, <3>1
    <3> QED
      BY <1>1, <2>1, <3>1, <3>2 DEF Range
  <2> QED
    BY <2>2, <2>3
<1>4. IsSeq(Tail(w))
  <2>1. \A i \in 1 .. Len(w) - 1 : Tail(w)[i] \in Range(Tail(w))
    BY <1>1 DEF Range
  <2>2. Tail(w) \in [1 .. Len(w) - 1 -> Range(Tail(w))]
    <3>1. Tail(w) \in [1 .. Len(Tail(w)) -> Range(w)]
      BY <1>1, LenProperties
    <3> QED
      BY <1>1, <2>1, <3>1
  <2>3. Len(w) - 1 \in Nat
    BY <1>1
  <2>4. \A n \in Nat : \A f : f \in [1 .. n -> Range(Tail(w))] => f \in Seq(Range(Tail(w)))
    BY SeqDef
  <2> QED
    BY <2>2, <2>3, <2>4 DEF IsSeq
<1> QED
  BY <1>1, <1>2, <1>3, <1>4

-----------------------------------------------------------------------------
(* The flow.  Each service of the queue was asked for, or is what a step   *)
(* has reached; what a step enters is in the queue, or its edges are taken;*)
(* and while a message is delivered the head of the queue has published it.*)

Reaches(p, v) ==
    /\ p.depth = v.depth - 1 /\ p.to = v.service
    /\ \/ v.trigger.kind = "any" /\ (p.channel = "rpc" \/ p.handler = None)
       \/ v.trigger.kind = "handler" /\ v.trigger.handler = p.handler
VisitOK(Y, Z, v) ==
    /\ v.depth \in 0 .. Y.max_depth + 2
    /\ (v.depth = 0 /\ v.service = Y.entry) \/ \E p \in Z : Reaches(p, v)
Connects(p, t) ==
    /\ p.depth = t.depth - 1 /\ p.to = t.from
    /\ None \in {t.entry, p.handler} \/ p.channel = "rpc" \/ p.handler = t.entry
StepOK(Y, Z, t) ==
    /\ t.depth \in 0 .. Y.max_depth + 1
    /\ (t.depth = 0 /\ t.from = Y.entry) \/ \E p \in Z : Connects(p, t)
Enters(Y, t) ==
    /\ t.channel \in {"http", "queue"} /\ t.handler # None /\ t.depth < Y.max_depth
    /\ t.to \in DOMAIN Y.http
Entered(t) == F!Visit(t.to, F!Handler(t.handler), t.depth + 1)
AllTaken(Y, K, t) ==
    \A e \in Range(Y.http[t.to]) : e.handler = t.handler => F!HttpKey(t.to, e) \in K
Delivers(Y, W, D, Z) ==
    D.to # {} =>
      /\ W # <<>> /\ Head(W).depth <= Y.max_depth
      /\ \E p \in Z : p.depth = Head(W).depth /\ p.to = D.topic /\ p.handler = None
FlowOK(Y, W, D, Z, K) ==
    /\ IsSeq(W)
    /\ \A v \in Range(W) : VisitOK(Y, Z, v)
    /\ Delivers(Y, W, D, Z)
    /\ \A t \in Z : StepOK(Y, Z, t)
    /\ \A t \in Z : Enters(Y, t) => Entered(t) \in Range(W) \/ AllTaken(Y, K, t)

(* A step is added, and perhaps the service it has reached.                *)
LEMMA FlowGrows ==
  ASSUME NEW Y, NEW W, NEW D, NEW Z, NEW K, FlowOK(Y, W, D, Z, K),
         NEW W2, NEW D2, NEW K2, NEW t, K \subseteq K2, StepOK(Y, Z, t),
         IsSeq(W2), Range(W) \subseteq Range(W2),
         \A v \in Range(W2) \ Range(W) : VisitOK(Y, Z \cup {t}, v),
         Enters(Y, t) => Entered(t) \in Range(W2),
         Delivers(Y, W2, D2, Z \cup {t})
  PROVE  FlowOK(Y, W2, D2, Z \cup {t}, K2)
<1>1. \A v : VisitOK(Y, Z, v) => VisitOK(Y, Z \cup {t}, v)
  BY DEF VisitOK
<1>2. \A u : StepOK(Y, Z, u) => StepOK(Y, Z \cup {t}, u)
  BY DEF StepOK
<1>3. \A u : AllTaken(Y, K, u) => AllTaken(Y, K2, u)
  BY DEF AllTaken
<1>4. \A v \in Range(W2) : VisitOK(Y, Z \cup {t}, v)
  BY <1>1 DEF FlowOK
<1>5. \A u \in Z \cup {t} : StepOK(Y, Z \cup {t}, u)
  BY <1>2 DEF FlowOK
<1>6. \A u \in Z \cup {t} : Enters(Y, u) => Entered(u) \in Range(W2) \/ AllTaken(Y, K2, u)
  BY <1>3 DEF FlowOK
<1> QED
  BY <1>4, <1>5, <1>6 DEF FlowOK

(* The service at the head is left once nothing is left to take.           *)
LEMMA FlowLeaves ==
  ASSUME NEW Y, NEW W, NEW D, NEW Z, NEW K, FlowOK(Y, W, D, Z, K), W # <<>>, D.to = {},
         Y.max_depth \in Nat,
         Head(W).depth <= Y.max_depth =>
           {i \in DOMAIN Y.http[Head(W).service] :
              LET e == Y.http[Head(W).service][i]
              IN  F!Matches(e, Head(W).trigger) /\ F!HttpKey(Head(W).service, e) \notin K} = {}
  PROVE  FlowOK(Y, Tail(W), D, Z, K)
<1> USE DEF IsSeq
<1>1. IsSeq(W)
  BY DEF FlowOK
<1>2. IsSeq(Tail(W)) /\ Range(W) = {Head(W)} \cup Range(Tail(W))
  BY <1>1, SeqTail
<1>3. \A v \in Range(Tail(W)) : VisitOK(Y, Z, v)
  BY <1>2 DEF FlowOK
<1>4. ASSUME NEW t \in Z, Enters(Y, t)
      PROVE  Entered(t) \in Range(Tail(W)) \/ AllTaken(Y, K, t)
  <2>1. Entered(t) \in Range(W) \/ AllTaken(Y, K, t)
    BY <1>4 DEF FlowOK
  <2>2. CASE Entered(t) = Head(W)
    <3>1. /\ Head(W).depth = t.depth + 1 /\ Head(W).service = t.to
          /\ Head(W).trigger = F!Handler(t.handler) /\ t.handler # None /\ t.depth < Y.max_depth
      BY <1>4, <2>2 DEF Entered, F!Visit, Enters
    <3>2. Head(W).trigger.kind = "handler" /\ Head(W).trigger.handler = t.handler
      BY <3>1 DEF F!Handler
    <3>3. t.depth \in Nat
      BY <1>4 DEF FlowOK, StepOK
    <3>4. Head(W).depth <= Y.max_depth
      BY <3>1, <3>3
    <3>5. ASSUME NEW i \in DOMAIN Y.http[t.to], Y.http[t.to][i].handler = t.handler
          PROVE  F!HttpKey(t.to, Y.http[t.to][i]) \in K
      <4>1. F!Matches(Y.http[t.to][i], Head(W).trigger)
        BY <3>2, <3>5 DEF F!Matches
      <4> QED
        BY <3>1, <3>4, <4>1
    <3>6. AllTaken(Y, K, t)
      BY <3>5 DEF AllTaken, Range
    <3> QED
      BY <3>6
  <2> QED
    BY <1>2, <2>1, <2>2
<1>5. Delivers(Y, Tail(W), D, Z)
  BY DEF Delivers
<1> QED
  BY <1>2, <1>3, <1>4, <1>5 DEF FlowOK

(* What an edge of the head that matches its trigger comes from.           *)
LEMMA StepFromHead ==
  ASSUME NEW Y, NEW Z, NEW v, VisitOK(Y, Z, v), v.depth <= Y.max_depth, Y.max_depth \in Nat,
         NEW channel, NEW to, NEW handler, NEW entry,
         \/ entry = None
         \/ v.trigger.kind = "any"
         \/ v.trigger.kind = "handler" => entry = v.trigger.handler
  PROVE  StepOK(Y, Z, F!Step(v.depth, channel, v.service, to, handler, entry))
<1> DEFINE t == F!Step(v.depth, channel, v.service, to, handler, entry)
<1>1. t.depth = v.depth /\ t.from = v.service /\ t.entry = entry
  BY DEF F!Step
<1>2. t.depth \in 0 .. Y.max_depth + 1
  BY <1>1 DEF VisitOK
<1>3. ASSUME NEW p \in Z, Reaches(p, v)
      PROVE  Connects(p, t)
  BY <1>1, <1>3 DEF Reaches, Connects
<1> HIDE DEF t
<1>4. StepOK(Y, Z, t)
  BY <1>1, <1>2, <1>3 DEF VisitOK, StepOK
<1> QED
  BY <1>4 DEF t

SystemOK == \E family \in Channels : system \in family
FollowFlow == FlowOK(system, waiting, delivery, hops, visited)

LEMMA SystemFacts ==
  ASSUME SystemOK
  PROVE  /\ system.max_depth \in Nat /\ system.order \in Seq(Range(system.order))
         /\ \A i, j \in DOMAIN system.order : system.order[i] = system.order[j] => i = j
         /\ \A i \in DOMAIN system.order :
              system.entities[system.order[i]] \in Seq(Range(system.entities[system.order[i]]))
BY ChannelsAssumption DEF SystemOK

LEMMA HeadOK ==
  ASSUME FollowFlow, waiting # <<>>
  PROVE  IsSeq(waiting) /\ Head(waiting) \in Range(waiting) /\ VisitOK(system, hops, Head(waiting))
<1>1. IsSeq(waiting)
  BY DEF FollowFlow, FlowOK
<1>2. Head(waiting) \in Range(waiting)
  BY <1>1, SeqTail
<1> QED
  BY <1>1, <1>2 DEF FollowFlow, FlowOK

LEMMA HandlerIs ==
  ASSUME NEW h
  PROVE  \/ F!Handler(h).kind = "any" /\ h = None
         \/ F!Handler(h).kind = "handler" /\ F!Handler(h).handler = h
<1>1. CASE h = None
  BY <1>1 DEF F!Handler, F!Anything
<1>2. CASE h # None
  BY <1>2 DEF F!Handler
<1> QED
  BY <1>1, <1>2

LEMMA CallHttpStep ==
  ASSUME SystemOK, FollowFlow, F!CallHttp
  PROVE  FollowFlow'
<1> DEFINE v == Head(waiting)
<1>1. /\ waiting # <<>> /\ v.depth <= system.max_depth /\ delivery.to = {} /\ delivery' = delivery
      /\ system' = system
  BY DEF F!CallHttp, F!Expanding, F!Within, F!At
<1>2. PICK i \in F!First(F!HttpLeft) :
        LET e == system.http[F!Here][i] IN
        /\ visited' = visited \cup {F!HttpKey(F!Here, e)}
        /\ hops' = hops \cup {F!Step(F!At.depth, "http", F!Here, e.target, e.to, e.handler)}
        /\ waiting' = Append(waiting, F!Visit(e.target, F!Handler(e.to), F!At.depth + 1))
  BY DEF F!CallHttp
<1> DEFINE e == system.http[v.service][i]
           t == F!Step(v.depth, "http", v.service, e.target, e.to, e.handler)
           n == F!Visit(e.target, F!Handler(e.to), v.depth + 1)
<1>3. /\ visited' = visited \cup {F!HttpKey(v.service, e)} /\ hops' = hops \cup {t}
      /\ waiting' = Append(waiting, n) /\ F!Matches(e, v.trigger)
  BY <1>2 DEF F!Here, F!At, F!First, F!HttpLeft
<1>4. /\ t.depth = v.depth /\ t.channel = "http" /\ t.to = e.target /\ t.handler = e.to
      /\ n.service = e.target /\ n.trigger = F!Handler(e.to) /\ n.depth = v.depth + 1
      /\ n = Entered(t)
  BY DEF F!Step, F!Visit, Entered
<1>5. IsSeq(waiting) /\ VisitOK(system, hops, v) /\ system.max_depth \in Nat
  BY <1>1, HeadOK, SystemFacts
<1>6. IsSeq(waiting') /\ Range(waiting') = Range(waiting) \cup {n}
  BY <1>3, <1>5, SeqAppend
<1>7. StepOK(system, hops, t)
  <2>1. e.handler = None \/ v.trigger.kind = "any" \/ (v.trigger.kind = "handler" => e.handler = v.trigger.handler)
    BY <1>3 DEF F!Matches
  <2> HIDE DEF v, e
  <2> QED
    BY <1>1, <1>5, <2>1, StepFromHead
<1>8. Reaches(t, n)
  <2>1. v.depth \in Nat
    BY <1>5 DEF VisitOK
  <2>2. \/ n.trigger.kind = "any" /\ t.handler = None
        \/ n.trigger.kind = "handler" /\ n.trigger.handler = t.handler
    <3>1. n.trigger = F!Handler(t.handler)
      BY <1>4
    <3> HIDE DEF t, n
    <3> QED
      BY <3>1, HandlerIs
  <2> HIDE DEF t, n
  <2> QED
    BY <1>4, <2>1, <2>2 DEF Reaches
<1>9. VisitOK(system, hops \cup {t}, n)
  <2>1. v.depth \in Nat /\ v.depth <= system.max_depth
    BY <1>1, <1>5 DEF VisitOK
  <2>2. n.depth \in 0 .. system.max_depth + 2
    <3>1. n.depth = v.depth + 1 /\ system.max_depth \in Nat
      BY <1>4, <1>5
    <3> HIDE DEF v, n
    <3> QED
      BY <2>1, <3>1
  <2> HIDE DEF t, n
  <2> QED
    BY <1>8, <2>2 DEF VisitOK
<1>10. Delivers(system, waiting', delivery, hops')
  BY <1>1 DEF Delivers
<1> HIDE DEF t, n, e, v
<1>11. FlowOK(system, waiting', delivery, hops \cup {t}, visited')
  BY <1>3, <1>4, <1>6, <1>7, <1>9, <1>10, FlowGrows DEF FollowFlow
<1> QED
  BY <1>1, <1>3, <1>11 DEF FollowFlow

LEMMA CallRpcStep ==
  ASSUME SystemOK, FollowFlow, F!CallRpc
  PROVE  FollowFlow'
<1> DEFINE v == Head(waiting)
<1>1. /\ waiting # <<>> /\ v.depth <= system.max_depth /\ delivery.to = {} /\ delivery' = delivery
      /\ system' = system
  BY DEF F!CallRpc, F!Expanding, F!Within, F!At
<1>2. PICK i \in F!First(F!RpcLeft) :
        LET e == system.rpc[F!Here][i] IN
        /\ visited' = visited \cup {F!RpcKey(F!Here, e)}
        /\ hops' = hops \cup {F!Step(F!At.depth, "rpc", F!Here, e.target, e.to, None)}
        /\ waiting' = Append(waiting, F!Visit(e.target, F!Anything, F!At.depth + 1))
  BY DEF F!CallRpc
<1> DEFINE e == system.rpc[v.service][i]
           t == F!Step(v.depth, "rpc", v.service, e.target, e.to, None)
           n == F!Visit(e.target, F!Anything, v.depth + 1)
<1>3. /\ visited \subseteq visited' /\ hops' = hops \cup {t} /\ waiting' = Append(waiting, n)
  BY <1>2 DEF F!Here, F!At
<1>4. /\ t.depth = v.depth /\ t.channel = "rpc" /\ t.to = e.target
      /\ n.service = e.target /\ n.trigger.kind = "any" /\ n.depth = v.depth + 1
  BY DEF F!Step, F!Visit, F!Anything
<1>5. IsSeq(waiting) /\ VisitOK(system, hops, v) /\ system.max_depth \in Nat
  BY <1>1, HeadOK, SystemFacts
<1>6. IsSeq(waiting') /\ Range(waiting') = Range(waiting) \cup {n}
  BY <1>3, <1>5, SeqAppend
<1>7. StepOK(system, hops, t)
  <2> HIDE DEF v, e
  <2> QED
    BY <1>1, <1>5, StepFromHead
<1>8. VisitOK(system, hops \cup {t}, n)
  <2>1. v.depth \in Nat /\ v.depth <= system.max_depth
    BY <1>1, <1>5 DEF VisitOK
  <2>2. n.depth \in 0 .. system.max_depth + 2
    <3>1. n.depth = v.depth + 1 /\ system.max_depth \in Nat
      BY <1>4, <1>5
    <3> HIDE DEF v, n
    <3> QED
      BY <2>1, <3>1
  <2> HIDE DEF t, n
  <2>3. Reaches(t, n)
    BY <1>4, <2>1 DEF Reaches
  <2> QED
    BY <2>2, <2>3 DEF VisitOK
<1>9. Delivers(system, waiting', delivery, hops')
  BY <1>1 DEF Delivers
<1>10. ~ Enters(system, t)
  BY <1>4 DEF Enters
<1> HIDE DEF t, n, e, v
<1>11. FlowOK(system, waiting', delivery, hops \cup {t}, visited')
  BY <1>3, <1>6, <1>7, <1>8, <1>9, <1>10, FlowGrows DEF FollowFlow
<1> QED
  BY <1>1, <1>3, <1>11 DEF FollowFlow

LEMMA PublishStep ==
  ASSUME SystemOK, FollowFlow, F!Publish
  PROVE  FollowFlow'
<1> DEFINE v == Head(waiting)
<1>1. waiting # <<>> /\ v.depth <= system.max_depth /\ system' = system /\ waiting' = waiting
  BY DEF F!Publish, F!Expanding, F!Within, F!At
<1>2. PICK m \in F!FirstOfPairs(F!MessagesLeft) :
        LET p == F!Publication(m) IN
        /\ visited' = visited \cup {F!QueueKey(F!Here, p)}
        /\ hops' = hops \cup {F!Step(F!At.depth, "queue", F!Here, p.topic, None, p.handler)}
        /\ delivery' = [topic |-> p.topic, to |-> F!Consumers(p)]
  BY DEF F!Publish
<1> DEFINE p == F!Publication(m)
           t == F!Step(v.depth, "queue", v.service, p.topic, None, p.handler)
<1>3. /\ visited \subseteq visited' /\ hops' = hops \cup {t} /\ delivery'.topic = p.topic
      /\ F!Matches(p, v.trigger)
  BY <1>2 DEF F!Here, F!At, F!FirstOfPairs, F!MessagesLeft
<1>4. t.depth = v.depth /\ t.to = p.topic /\ t.handler = None
  BY DEF F!Step
<1>5. IsSeq(waiting) /\ VisitOK(system, hops, v) /\ system.max_depth \in Nat
  BY <1>1, HeadOK, SystemFacts
<1>6. StepOK(system, hops, t)
  <2>1. p.handler = None \/ v.trigger.kind = "any" \/ (v.trigger.kind = "handler" => p.handler = v.trigger.handler)
    BY <1>3 DEF F!Matches
  <2> HIDE DEF v, p
  <2> QED
    BY <1>1, <1>5, <2>1, StepFromHead
<1> HIDE DEF t, p
<1>7. Delivers(system, waiting, delivery', hops \cup {t})
  BY <1>1, <1>3, <1>4 DEF Delivers
<1>8. ~ Enters(system, t)
  BY <1>4 DEF Enters
<1> HIDE DEF v
<1>9. FlowOK(system, waiting, delivery', hops \cup {t}, visited')
  BY <1>3, <1>5, <1>6, <1>7, <1>8, FlowGrows DEF FollowFlow
<1> QED
  BY <1>1, <1>3, <1>9 DEF FollowFlow

LEMMA DeliverStep ==
  ASSUME SystemOK, FollowFlow, F!Deliver
  PROVE  FollowFlow'
<1> DEFINE v == Head(waiting)
<1>1. waiting # <<>> /\ system' = system /\ visited' = visited
  BY DEF F!Deliver
<1>2. PICK i \in F!First(delivery.to) :
        LET c == system.subscriptions[i] IN
        /\ hops' = hops \cup {F!Step(F!At.depth + 1, "queue", delivery.topic, c.service, c.handler, None)}
        /\ waiting' = Append(waiting, F!Visit(c.service, F!Handler(c.handler), F!At.depth + 2))
        /\ delivery' = [delivery EXCEPT !.to = @ \ {i}]
  BY DEF F!Deliver
<1> DEFINE c == system.subscriptions[i]
           t == F!Step(v.depth + 1, "queue", delivery.topic, c.service, c.handler, None)
           n == F!Visit(c.service, F!Handler(c.handler), v.depth + 2)
<1>3. /\ hops' = hops \cup {t} /\ waiting' = Append(waiting, n) /\ delivery.to # {}
  BY <1>2 DEF F!At, F!First
<1>4. /\ t.depth = v.depth + 1 /\ t.channel = "queue" /\ t.to = c.service /\ t.handler = c.handler
      /\ t.from = delivery.topic /\ t.entry = None
      /\ n.service = c.service /\ n.trigger = F!Handler(c.handler) /\ n.depth = v.depth + 2
  BY DEF F!Step, F!Visit
<1>5. IsSeq(waiting) /\ VisitOK(system, hops, v) /\ system.max_depth \in Nat
  BY <1>1, HeadOK, SystemFacts
<1>6. /\ IsSeq(waiting') /\ Range(waiting') = Range(waiting) \cup {n}
      /\ waiting' # <<>> /\ Head(waiting') = v
  <2> HIDE DEF n
  <2>1. /\ IsSeq(Append(waiting, n)) /\ Range(Append(waiting, n)) = Range(waiting) \cup {n}
        /\ Len(Append(waiting, n)) = Len(waiting) + 1 /\ Len(waiting) \in Nat
        /\ Head(Append(waiting, n)) = Head(waiting)
    BY <1>1, <1>5, SeqAppend
  <2>2. Append(waiting, n) # <<>>
    BY <2>1
  <2> QED
    BY <1>3, <2>1, <2>2
<1>7. /\ v.depth <= system.max_depth
      /\ \E p \in hops : p.depth = v.depth /\ p.to = delivery.topic /\ p.handler = None
  BY <1>3 DEF FollowFlow, FlowOK, Delivers
<1>8. v.depth \in Nat
  BY <1>5 DEF VisitOK
<1>9. n = Entered(t)
  BY <1>4, <1>8 DEF Entered, F!Visit
<1>10. StepOK(system, hops, t)
  <2>1. t.depth \in 0 .. system.max_depth + 1
    BY <1>4, <1>5, <1>7, <1>8
  <2>2. \A p \in hops : p.depth = v.depth /\ p.to = delivery.topic => Connects(p, t)
    <3> HIDE DEF t
    <3> QED
      BY <1>4, <1>8 DEF Connects
  <2> QED
    BY <1>7, <2>1, <2>2 DEF StepOK
<1>11. VisitOK(system, hops \cup {t}, n)
  <2>1. n.depth \in 0 .. system.max_depth + 2
    BY <1>4, <1>5, <1>7, <1>8
  <2>2. \/ n.trigger.kind = "any" /\ t.handler = None
        \/ n.trigger.kind = "handler" /\ n.trigger.handler = t.handler
    <3>1. n.trigger = F!Handler(t.handler)
      BY <1>4
    <3> HIDE DEF t, n
    <3> QED
      BY <3>1, HandlerIs
  <2> HIDE DEF t, n
  <2>3. Reaches(t, n)
    BY <1>4, <1>8, <2>2 DEF Reaches
  <2> QED
    BY <2>1, <2>3 DEF VisitOK
<1>12. Delivers(system, waiting', delivery', hops')
  <2>1. delivery'.to # {} => delivery'.topic = delivery.topic
    BY <1>2
  <2> QED
    BY <1>3, <1>6, <1>7, <2>1 DEF Delivers
<1> HIDE DEF t, n, c, v
<1>13. FlowOK(system, waiting', delivery', hops \cup {t}, visited)
  BY <1>3, <1>6, <1>9, <1>10, <1>11, <1>12, FlowGrows DEF FollowFlow
<1> QED
  BY <1>1, <1>3, <1>13 DEF FollowFlow

LEMMA AccessStep ==
  ASSUME SystemOK, FollowFlow, F!Access
  PROVE  FollowFlow'
<1> DEFINE v == Head(waiting)
<1>1. /\ waiting # <<>> /\ v.depth <= system.max_depth /\ delivery.to = {} /\ delivery' = delivery
      /\ system' = system /\ waiting' = waiting
  BY DEF F!Access, F!Expanding, F!Within, F!At
<1>2. PICK i \in F!First(F!TablesLeft) :
        LET e == system.tables[F!Here][i] IN
        /\ visited' = visited \cup {F!TableKey(F!Here, e)}
        /\ hops' = hops \cup {F!Step(F!At.depth, "db", F!Here, e.table, None, None)}
  BY DEF F!Access
<1> DEFINE e == system.tables[v.service][i]
           t == F!Step(v.depth, "db", v.service, e.table, None, None)
<1>3. visited \subseteq visited' /\ hops' = hops \cup {t}
  BY <1>2 DEF F!Here, F!At
<1>4. t.channel = "db"
  BY DEF F!Step
<1>5. IsSeq(waiting) /\ VisitOK(system, hops, v) /\ system.max_depth \in Nat
  BY <1>1, HeadOK, SystemFacts
<1>6. StepOK(system, hops, t)
  <2> HIDE DEF v, e
  <2> QED
    BY <1>1, <1>5, StepFromHead
<1>7. Delivers(system, waiting, delivery, hops')
  BY <1>1 DEF Delivers
<1>8. ~ Enters(system, t)
  BY <1>4 DEF Enters
<1> HIDE DEF t, e, v
<1>9. FlowOK(system, waiting, delivery, hops \cup {t}, visited')
  BY <1>3, <1>5, <1>6, <1>7, <1>8, FlowGrows DEF FollowFlow
<1> QED
  BY <1>1, <1>3, <1>9 DEF FollowFlow

LEMMA LeaveStep ==
  ASSUME SystemOK, FollowFlow, F!Leave
  PROVE  FollowFlow'
<1>1. /\ waiting # <<>> /\ delivery.to = {} /\ waiting' = Tail(waiting)
      /\ UNCHANGED <<system, delivery, visited, hops>>
  BY DEF F!Leave
<1>2. Head(waiting).depth <= system.max_depth => F!HttpLeft = {}
  BY DEF F!Leave, F!Within, F!At
<1>3. F!HttpLeft = {i \in DOMAIN system.http[Head(waiting).service] :
                      LET e == system.http[Head(waiting).service][i]
                      IN  /\ F!Matches(e, Head(waiting).trigger)
                          /\ F!HttpKey(Head(waiting).service, e) \notin visited}
  BY DEF F!HttpLeft, F!Here, F!At, F!Untaken
<1>4. FlowOK(system, Tail(waiting), delivery, hops, visited)
  BY <1>1, <1>2, <1>3, FlowLeaves, SystemFacts DEF FollowFlow
<1> QED
  BY <1>1, <1>4 DEF FollowFlow

-----------------------------------------------------------------------------
(* The alignment.  A mapping was made for a pair of services, and an entity*)
(* of the first, before those that it is at now.                           *)
Earlier(u, v, e) ==
    \/ u < pair[1]
    \/ u = pair[1] /\ v < pair[2]
    \/ u = pair[1] /\ v = pair[2] /\ e < place
MappingOK(m) ==
    /\ m.entity \in DOMAIN system.entities[m.source] /\ m.entity \in Nat
    /\ m.to \in Range(system.entities[m.target])
    /\ F!Likeness(system.entities[m.source][m.entity], m.to) >= F!Threshold
    /\ \E u, v \in DOMAIN system.order :
         system.order[u] = m.source /\ system.order[v] = m.target /\ Earlier(u, v, m.entity)
FollowAlign ==
    /\ pair \in Nat \X Nat /\ 1 <= pair[1] /\ pair[1] < pair[2] /\ place \in Nat \ {0}
    /\ \A m \in mappings : MappingOK(m)
    /\ \A m, n \in mappings :
         m.source = n.source /\ m.target = n.target => ((m.entity = n.entity) <=> (m.to = n.to))

LEMMA AlignEntityStep ==
  ASSUME SystemOK, FollowAlign, F!AlignEntity
  PROVE  FollowAlign'
<1>1. /\ pair[2] <= Len(system.order) /\ place <= Len(system.entities[F!One])
      /\ place' = place + 1 /\ pair' = pair /\ system' = system
  BY DEF F!AlignEntity, F!Aligning
<1>2. /\ pair \in Nat \X Nat /\ 1 <= pair[1] /\ pair[1] < pair[2] /\ place \in Nat \ {0}
      /\ pair[1] \in Nat /\ pair[2] \in Nat
  BY DEF FollowAlign
<1>3. /\ Len(system.order) \in Nat /\ DOMAIN system.order = 1 .. Len(system.order)
  BY SystemFacts
<1>4. pair[1] \in DOMAIN system.order /\ pair[2] \in DOMAIN system.order
  BY <1>1, <1>2, <1>3
<1>5. /\ system.entities[F!One] \in Seq(Range(system.entities[F!One]))
      /\ system.entities[F!Two] \in Seq(Range(system.entities[F!Two]))
  BY <1>4, SystemFacts DEF F!One, F!Two
<1>6. place \in DOMAIN system.entities[F!One]
  BY <1>1, <1>2, <1>5
<1>7. \A u, v, e : e \in Nat /\ Earlier(u, v, e) => Earlier(u, v, e)'
  BY <1>1, <1>2 DEF Earlier
<1>8. \A m \in mappings : MappingOK(m)'
  BY <1>1, <1>7 DEF FollowAlign, MappingOK, F!Likeness, F!Threshold
<1>9. place' \in Nat \ {0}
  BY <1>1, <1>2
<1>10. CASE UNCHANGED mappings
  BY <1>1, <1>2, <1>8, <1>9, <1>10 DEF FollowAlign
<1>11. ASSUME NEW i \in F!First(F!Best(system.entities[F!One][place], F!Two)),
              mappings' = mappings \cup {[source |-> F!One, entity |-> place, target |-> F!Two,
                                          to |-> system.entities[F!Two][i]]}
       PROVE  FollowAlign'
  <2> DEFINE a == system.entities[F!One][place]
             b == system.entities[F!Two][i]
  <2>0. PICK m : m = [source |-> F!One, entity |-> place, target |-> F!Two, to |-> b]
    OBVIOUS
  <2>1. /\ i \in DOMAIN system.entities[F!Two] /\ b \notin F!Matched
        /\ F!Likeness(a, b) >= F!Threshold
    BY <1>11 DEF F!First, F!Best, F!Left
  <2>2. m.source = F!One /\ m.entity = place /\ m.target = F!Two /\ m.to = b
    BY <2>0
  <2>3. b \in Range(system.entities[F!Two])
    BY <2>1 DEF Range
  <2>4. \A u, v, e : u = pair[1] /\ v = pair[2] /\ e = place => Earlier(u, v, e)'
    BY <1>1, <1>2 DEF Earlier
  <2>5. MappingOK(m)'
    <3>1. /\ m.entity \in DOMAIN system'.entities[m.source] /\ m.entity \in Nat
          /\ m.to \in Range(system'.entities[m.target])
      BY <1>1, <1>2, <1>6, <2>2, <2>3
    <3>2. F!Likeness(system.entities[m.source][m.entity], m.to)' >= F!Threshold
      BY <1>1, <2>1, <2>2 DEF F!Likeness, F!Threshold
    <3>3. /\ system'.order[pair[1]] = m.source /\ system'.order[pair[2]] = m.target
          /\ pair[1] \in DOMAIN system'.order /\ pair[2] \in DOMAIN system'.order
      BY <1>1, <1>4, <2>2 DEF F!One, F!Two
    <3>4. \E u, v \in DOMAIN system'.order :
            system'.order[u] = m.source /\ system'.order[v] = m.target /\ Earlier(u, v, m.entity)'
      BY <2>2, <2>4, <3>3
    <3> QED
      BY <3>1, <3>2, <3>4 DEF MappingOK, F!Threshold
  <2>6. ASSUME NEW n \in mappings, n.source = m.source, n.target = m.target
        PROVE  n.entity # m.entity /\ n.to # m.to
    <3>1. n.to \in F!Matched
      BY <2>2, <2>6 DEF F!Matched
    <3>2. PICK u, v \in DOMAIN system.order :
            system.order[u] = n.source /\ system.order[v] = n.target /\ Earlier(u, v, n.entity)
      BY DEF FollowAlign, MappingOK
    <3>3. u = pair[1] /\ v = pair[2]
      BY <1>4, <2>2, <2>6, <3>2, SystemFacts DEF F!One, F!Two
    <3>4. n.entity < place
      BY <1>2, <3>2, <3>3 DEF Earlier
    <3>5. n.entity # place
      BY <1>2, <3>4 DEF FollowAlign, MappingOK
    <3> QED
      BY <2>1, <2>2, <3>1, <3>5
  <2>7. mappings' = mappings \cup {m}
    BY <1>11, <2>0
  <2>8. \A k, n \in mappings' :
          k.source = n.source /\ k.target = n.target => ((k.entity = n.entity) <=> (k.to = n.to))
    <3> SUFFICES ASSUME NEW k \in mappings', NEW n \in mappings', k.source = n.source, k.target = n.target
                 PROVE  (k.entity = n.entity) <=> (k.to = n.to)
      OBVIOUS
    <3>1. CASE k \in mappings /\ n \in mappings
      BY <3>1 DEF FollowAlign
    <3>2. CASE k = m /\ n \in mappings
      BY <2>6, <3>2
    <3>3. CASE k \in mappings /\ n = m
      BY <2>6, <3>3
    <3>4. CASE k = m /\ n = m
      BY <3>4
    <3> QED
      BY <2>7, <3>1, <3>2, <3>3, <3>4
  <2>9. \A k \in mappings' : MappingOK(k)'
    BY <1>8, <2>5, <2>7
  <2> QED
    BY <1>1, <1>2, <1>9, <2>8, <2>9 DEF FollowAlign
<1> QED
  BY <1>10, <1>11 DEF F!AlignEntity

LEMMA AlignNextStep ==
  ASSUME SystemOK, FollowAlign, F!AlignNext
  PROVE  FollowAlign'
<1>1. /\ pair[2] <= Len(system.order) /\ place' = 1 /\ UNCHANGED <<system, mappings>>
      /\ pair' = IF pair[2] < Len(system.order) THEN <<pair[1], pair[2] + 1>>
                 ELSE <<pair[1] + 1, pair[1] + 2>>
  BY DEF F!AlignNext, F!Aligning
<1>2. /\ pair \in Nat \X Nat /\ 1 <= pair[1] /\ pair[1] < pair[2] /\ place \in Nat \ {0}
      /\ pair[1] \in Nat /\ pair[2] \in Nat
  BY DEF FollowAlign
<1>3. /\ Len(system.order) \in Nat /\ DOMAIN system.order = 1 .. Len(system.order)
  BY SystemFacts
<1>4. /\ pair' \in Nat \X Nat /\ 1 <= pair'[1] /\ pair'[1] < pair'[2]
      /\ pair'[1] \in Nat /\ pair'[2] \in Nat
      /\ \/ pair'[1] = pair[1] /\ pair'[2] = pair[2] + 1
         \/ pair'[1] = pair[1] + 1 /\ pair[2] = Len(system.order)
  <2>1. CASE pair[2] < Len(system.order)
    BY <1>1, <1>2, <2>1
  <2>2. CASE ~ (pair[2] < Len(system.order))
    BY <1>1, <1>2, <1>3, <2>2
  <2> QED
    BY <2>1, <2>2
<1>5. ASSUME NEW u \in DOMAIN system.order, NEW v \in DOMAIN system.order, NEW e \in Nat, Earlier(u, v, e)
      PROVE  Earlier(u, v, e)'
  <2>1. u \in Nat /\ v \in Nat /\ v <= Len(system.order)
    BY <1>3
  <2>2. u < pair'[1] \/ (u = pair'[1] /\ v < pair'[2])
    BY <1>2, <1>3, <1>4, <1>5, <2>1 DEF Earlier
  <2> QED
    BY <2>2 DEF Earlier
<1>6. \A m \in mappings : MappingOK(m)'
  <2> SUFFICES ASSUME NEW m \in mappings
               PROVE  MappingOK(m)'
    OBVIOUS
  <2>1. MappingOK(m)
    BY DEF FollowAlign
  <2>2. PICK u, v \in DOMAIN system.order :
          system.order[u] = m.source /\ system.order[v] = m.target /\ Earlier(u, v, m.entity)
    BY <2>1 DEF MappingOK
  <2>3. Earlier(u, v, m.entity)'
    BY <1>5, <2>1, <2>2 DEF MappingOK
  <2> QED
    BY <1>1, <2>1, <2>2, <2>3 DEF MappingOK, F!Likeness, F!Threshold
<1> QED
  BY <1>1, <1>2, <1>4, <1>6 DEF FollowAlign

-----------------------------------------------------------------------------
FollowInv == SystemOK /\ FollowFlow /\ FollowAlign

LEMMA FollowInit ==
  ASSUME F!Init
  PROVE  FollowInv
<1>1. PICK family \in Channels : \E s \in family : F!Start(s)
  BY DEF F!Init
<1>2. PICK s \in family : F!Start(s)
  BY <1>1
<1>3. /\ system = s /\ delivery = [topic |-> {}, to |-> {}] /\ hops = {} /\ mappings = {}
      /\ waiting = IF s.entry = None THEN <<>> ELSE <<F!Visit(s.entry, s.trigger, 0)>>
      /\ pair = <<1, 2>> /\ place = 1
  BY <1>2 DEF F!Start
<1>4. SystemOK
  BY <1>2, <1>3 DEF SystemOK
<1>5. FollowAlign
  BY <1>3 DEF FollowAlign
<1>6. IsSeq(waiting) /\ \A v \in Range(waiting) : v = F!Visit(s.entry, s.trigger, 0)
  <2>1. CASE s.entry = None
    BY <1>3, <2>1 DEF IsSeq, Range
  <2>2. CASE s.entry # None
    <3> DEFINE v == F!Visit(s.entry, s.trigger, 0)
    <3>1. waiting = <<v>>
      BY <1>3, <2>2
    <3> HIDE DEF v
    <3>2. DOMAIN waiting = {1} /\ waiting[1] = v /\ waiting \in Seq({v})
      BY <3>1
    <3>3. Range(waiting) = {v}
      BY <3>2 DEF Range
    <3> QED
      BY <3>2, <3>3 DEF IsSeq, v
  <2> QED
    BY <2>1, <2>2
<1>7. VisitOK(system, hops, F!Visit(s.entry, s.trigger, 0))
  BY <1>3, <1>4, SystemFacts DEF VisitOK, F!Visit
<1>8. FollowFlow
  BY <1>3, <1>6, <1>7 DEF FollowFlow, FlowOK, Delivers
<1> QED
  BY <1>4, <1>5, <1>8 DEF FollowInv

LEMMA FollowStep ==
  ASSUME FollowInv, F!Next
  PROVE  FollowInv'
<1>1. CASE F!CallHttp \/ F!Publish \/ F!Deliver \/ F!CallRpc \/ F!Access \/ F!Leave
  <2>1. UNCHANGED <<system, mappings, pair, place>>
    BY <1>1 DEF F!CallHttp, F!Publish, F!Deliver, F!CallRpc, F!Access, F!Leave
  <2>2. FollowFlow'
    BY <1>1, CallHttpStep, PublishStep, DeliverStep, CallRpcStep, AccessStep, LeaveStep DEF FollowInv
  <2>3. FollowAlign'
    BY <2>1 DEF FollowInv, FollowAlign, MappingOK, Earlier, F!Likeness, F!Threshold
  <2> QED
    BY <2>1, <2>2, <2>3 DEF FollowInv, SystemOK
<1>2. CASE F!AlignEntity \/ F!AlignNext
  <2>1. UNCHANGED <<system, waiting, delivery, visited, hops>>
    BY <1>2 DEF F!AlignEntity, F!AlignNext
  <2>2. FollowAlign'
    BY <1>2, AlignEntityStep, AlignNextStep DEF FollowInv
  <2> QED
    BY <2>1, <2>2 DEF FollowInv, SystemOK, FollowFlow
<1> QED
  BY <1>1, <1>2 DEF F!Next

LEMMA FollowSame ==
  ASSUME FollowInv, UNCHANGED following
  PROVE  FollowInv'
<1>1. UNCHANGED <<system, waiting, delivery, visited, hops, mappings, pair, place>>
  BY DEF following
<1> QED
  BY <1>1 DEF FollowInv, SystemOK, FollowFlow, FollowAlign, MappingOK, Earlier, F!Likeness, F!Threshold

(* The invariant in the words of the properties.                           *)
LEMMA FlowIsWhole ==
  ASSUME FollowInv
  PROVE  F!TypeOK /\ F!StepsAreConnected /\ F!FlowIsClosed /\ F!MappingsAreOneToOne
<1>1. SystemOK /\ FollowFlow /\ FollowAlign
  BY DEF FollowInv
<1>2. IsSeq(waiting) /\ \A v \in Range(waiting) : v.depth \in 0 .. system.max_depth + 2
  BY <1>1 DEF FollowFlow, FlowOK, VisitOK
<1>3. \A t \in hops : StepOK(system, hops, t)
  BY <1>1 DEF FollowFlow, FlowOK
<1>4. F!TypeOK
  <2>1. \A i \in DOMAIN waiting : waiting[i] \in Range(waiting)
    BY DEF Range
  <2> QED
    BY <1>1, <1>2, <1>3, <2>1 DEF F!TypeOK, StepOK, FollowAlign, MappingOK, Range
<1>5. F!StepsAreConnected
  BY <1>3 DEF F!StepsAreConnected, StepOK, Connects
<1>6. F!FlowIsClosed
  <2> SUFFICES ASSUME waiting = <<>>, NEW t \in hops, Enters(system, t)
               PROVE  AllTaken(system, visited, t)
    BY DEF F!FlowIsClosed, Enters, AllTaken, Range
  <2>1. Range(waiting) = {}
    BY DEF Range
  <2> QED
    BY <1>1, <2>1 DEF FollowFlow, FlowOK
<1>7. F!MappingsAreOneToOne
  BY <1>1 DEF F!MappingsAreOneToOne, FollowAlign, MappingOK, F!Likeness, F!Threshold
<1> QED
  BY <1>4, <1>5, <1>6, <1>7

-----------------------------------------------------------------------------
(* A set of numbers that is not empty has a least one.                     *)
Smaller == {ss \in Nat \X Nat : ss[1] < ss[2]}

LEMMA LeastNumber ==
  ASSUME NEW T, T \subseteq Nat, T # {}
  PROVE  \E m \in T : \A k \in T : m <= k
<1>1. IsWellFoundedOn(Smaller, Nat)
  BY NatLessThanWellFounded DEF OpToRel, Smaller
<1>2. PICK m \in T : \A k \in T : ~ (<<k, m>> \in Smaller)
  BY <1>1, WFMin
<1>3. ASSUME NEW k \in T
      PROVE  m <= k
  <2>1. m \in Nat /\ k \in Nat
    OBVIOUS
  <2>2. <<k, m>>[1] = k /\ <<k, m>>[2] = m
    OBVIOUS
  <2>3. ~ (k < m)
    BY <1>2, <2>1, <2>2 DEF Smaller
  <2> QED
    BY <2>1, <2>3
<1> QED
  BY <1>3

-----------------------------------------------------------------------------
(* What TopologyQueries asks of the query, with the query as a parameter.  *)
Ways(q) ==
    {i \in DOMAIN q.dependencies :
       /\ q.dependencies[i].kind \in q.channels
       /\ q.kind = "impact" => q.dependencies[i].source # q.dependencies[i].target}
Origin(q, i) ==
    IF q.kind = "impact" /\ q.reverse THEN q.dependencies[i].target ELSE q.dependencies[i].source
Dest(q, i) ==
    IF q.kind = "impact" /\ q.reverse THEN q.dependencies[i].source ELSE q.dependencies[i].target
Out(q, n) == {i \in Ways(q) : Origin(q, i) = n}
Beyond(q, set) == {Dest(q, i) : i \in {k \in Ways(q) : Origin(q, k) \in set}}
Low(q) == IF q.kind = "impact" THEN 1 ELSE 0

(* The layers, from finite tables of them: that a recursive definition has *)
(* a function that satisfies it, and one only.                             *)
Solves(q, n, f) == f[0] = {q.root} /\ \A d \in 1 .. n : f[d] = Beyond(q, f[d - 1])
IsTable(q, n, f) == f = [d \in 0 .. n |-> f[d]] /\ Solves(q, n, f)

LEMMA TableExists ==
  ASSUME NEW q, NEW n \in Nat
  PROVE  \E f : IsTable(q, n, f)
<1> DEFINE T == {m \in Nat : ~ \E f : IsTable(q, m, f)}
<1>1. SUFFICES ASSUME T # {}
               PROVE  FALSE
  OBVIOUS
<1>2. PICK m \in T : \A k \in T : m <= k
  <2> HIDE DEF T
  <2>1. T \subseteq Nat
    BY DEF T
  <2> QED
    BY <1>1, <2>1, LeastNumber
<1>3. CASE m = 0
  <2> DEFINE f == [d \in 0 .. 0 |-> {q.root}]
  <2>1. IsTable(q, 0, f)
    BY DEF IsTable, Solves
  <2> QED
    BY <1>3, <2>1
<1>4. CASE m # 0
  <2>1. m - 1 \in Nat /\ m - 1 \notin T
    BY <1>2, <1>4
  <2>2. PICK f : IsTable(q, m - 1, f)
    BY <2>1
  <2> DEFINE g == [d \in 0 .. m |-> IF d = m THEN Beyond(q, f[m - 1]) ELSE f[d]]
  <2>3. g = [d \in 0 .. m |-> g[d]] /\ g[0] = {q.root}
    BY <1>4, <2>2 DEF IsTable, Solves
  <2>4. ASSUME NEW d \in 1 .. m
        PROVE  g[d] = Beyond(q, g[d - 1])
    <3>1. d - 1 \in 0 .. m /\ d - 1 # m /\ d \in 0 .. m
      OBVIOUS
    <3>2. g[d - 1] = f[d - 1]
      BY <3>1
    <3>3. CASE d = m
      BY <3>1, <3>2, <3>3
    <3>4. CASE d # m
      <4>1. d \in 1 .. m - 1
        BY <3>4
      <4>2. f[d] = Beyond(q, f[d - 1])
        BY <2>2, <4>1 DEF IsTable, Solves
      <4> QED
        BY <3>1, <3>2, <3>4, <4>2
    <3> QED
      BY <3>3, <3>4
  <2> HIDE DEF g
  <2>5. IsTable(q, m, g)
    BY <2>3, <2>4 DEF IsTable, Solves
  <2> QED
    BY <2>5
<1> QED
  BY <1>3, <1>4

TableOf(q, n) == CHOOSE f : IsTable(q, n, f)
Lay(q) == [d \in Nat |-> TableOf(q, d)[d]]

(* Functions that satisfy the definition up to n agree up to n.            *)
LEMMA TablesAgree ==
  ASSUME NEW q, NEW n \in Nat, NEW f, NEW g, Solves(q, n, f), Solves(q, n, g)
  PROVE  \A d \in 0 .. n : f[d] = g[d]
<1> DEFINE T == {d \in 0 .. n : f[d] # g[d]}
<1>1. SUFFICES ASSUME T # {}
               PROVE  FALSE
  OBVIOUS
<1>2. PICK m \in T : \A k \in T : m <= k
  <2> HIDE DEF T
  <2>1. T \subseteq Nat
    BY DEF T
  <2> QED
    BY <1>1, <2>1, LeastNumber
<1>3. m # 0
  BY DEF Solves
<1>4. m - 1 \in 0 .. n /\ m - 1 \notin T /\ m \in 1 .. n
  BY <1>2, <1>3
<1>5. f[m - 1] = g[m - 1]
  BY <1>4
<1>6. f[m] = Beyond(q, f[m - 1]) /\ g[m] = Beyond(q, g[m - 1])
  BY <1>4 DEF Solves
<1> QED
  BY <1>2, <1>5, <1>6

LEMMA Layers ==
  ASSUME NEW q
  PROVE  /\ Lay(q)[0] = {q.root}
         /\ \A d \in Nat \ {0} : Lay(q)[d] = Beyond(q, Lay(q)[d - 1])
<1>1. \A n \in Nat : IsTable(q, n, TableOf(q, n))
  BY TableExists DEF TableOf
<1>2. \A d \in Nat : Lay(q)[d] = TableOf(q, d)[d]
  BY DEF Lay
<1>3. Lay(q)[0] = {q.root}
  BY <1>1, <1>2 DEF IsTable, Solves
<1>4. ASSUME NEW d \in Nat \ {0}
      PROVE  Lay(q)[d] = Beyond(q, Lay(q)[d - 1])
  <2>1. d - 1 \in Nat /\ d - 1 \in 0 .. d - 1 /\ d \in 1 .. d /\ \A k \in 1 .. d - 1 : k \in 1 .. d
    OBVIOUS
  <2>2. \A k \in 0 .. d - 1 : TableOf(q, d)[k] = TableOf(q, d - 1)[k]
    <3>1. /\ TableOf(q, d)[0] = {q.root} /\ TableOf(q, d - 1)[0] = {q.root}
          /\ \A k \in 1 .. d - 1 : TableOf(q, d)[k] = Beyond(q, TableOf(q, d)[k - 1])
          /\ \A k \in 1 .. d - 1 : TableOf(q, d - 1)[k] = Beyond(q, TableOf(q, d - 1)[k - 1])
      BY <1>1, <2>1 DEF IsTable, Solves
    <3>2. Solves(q, d - 1, TableOf(q, d)) /\ Solves(q, d - 1, TableOf(q, d - 1))
      BY <2>1, <3>1 DEF Solves
    <3> QED
      BY <2>1, <3>2, TablesAgree
  <2>3. TableOf(q, d)[d] = Beyond(q, TableOf(q, d)[d - 1])
    BY <1>1, <2>1 DEF IsTable, Solves
  <2> QED
    BY <1>2, <2>1, <2>2, <2>3
<1> QED
  BY <1>3, <1>4

LEMMA LayerIs == Q!Layer = Lay(query)
<1> DEFINE B(L) == [d \in Nat |-> IF d = 0 THEN {query.root}
                                  ELSE {Q!To(i) : i \in {k \in Q!Considered : Q!From(k) \in L[d - 1]}}]
<1>1. \A set : {Q!To(i) : i \in {k \in Q!Considered : Q!From(k) \in set}} = Beyond(query, set)
  BY DEF Q!To, Q!From, Q!Considered, Q!Reversed, Q!Dependency, Beyond, Ways, Origin, Dest
<1>2. \A L : B(L) = [d \in Nat |-> IF d = 0 THEN {query.root} ELSE Beyond(query, L[d - 1])]
  BY <1>1
<1>3. Lay(query) = B(Lay(query))
  <2>1. Lay(query) = [d \in Nat |-> Lay(query)[d]]
    BY DEF Lay
  <2>2. \A d \in Nat : Lay(query)[d] = IF d = 0 THEN {query.root} ELSE Beyond(query, Lay(query)[d - 1])
    BY Layers
  <2> HIDE DEF B
  <2>3. B(Lay(query)) = [d \in Nat |-> IF d = 0 THEN {query.root} ELSE Beyond(query, Lay(query)[d - 1])]
    BY <1>2
  <2> QED
    BY <2>1, <2>2, <2>3
<1>4. Q!Layer = CHOOSE L : L = B(L)
  BY DEF Q!Layer
<1>5. Q!Layer = B(Q!Layer)
  <2> HIDE DEF B
  <2> QED
    BY <1>3, <1>4
<1>6. Q!Layer = [d \in Nat |-> IF d = 0 THEN {query.root} ELSE Beyond(query, Q!Layer[d - 1])]
  BY <1>2, <1>5
<1>7. /\ Q!Layer[0] = {query.root}
      /\ \A d \in Nat \ {0} : Q!Layer[d] = Beyond(query, Q!Layer[d - 1])
  BY <1>6
<1>8. ASSUME NEW d \in Nat
      PROVE  Q!Layer[d] = Lay(query)[d]
  <2>1. \A k \in 1 .. d : k \in Nat \ {0}
    OBVIOUS
  <2>2. \A k \in 0 .. d : Q!Layer[k] = Lay(query)[k]
    <3>1. Solves(query, d, Q!Layer) /\ Solves(query, d, Lay(query))
      BY <1>7, <2>1, Layers DEF Solves
    <3> QED
      BY <3>1, TablesAgree
  <2> QED
    BY <2>2
<1>9. Lay(query) = [d \in Nat |-> Lay(query)[d]] /\ Q!Layer = [d \in Nat |-> Q!Layer[d]]
  BY <1>6 DEF Lay
<1> QED
  BY <1>8, <1>9

-----------------------------------------------------------------------------
(* The walks that are breadth-first.  A path follows edges from the root,  *)
(* is within the limit, and its end cannot be reached with fewer.          *)
End(p) == p[Len(p)]
Deep(p) == Len(p) - 1
Route(q, p) ==
    /\ IsSeq(p) /\ p # <<>> /\ p[1] = q.root
    /\ \A k \in 1 .. Deep(p) : \E i \in Ways(q) : Origin(q, i) = p[k] /\ Dest(q, i) = p[k + 1]
    /\ Deep(p) <= q.max_depth
    /\ End(p) \in Lay(q)[Deep(p)]
    /\ \A d \in Low(q) .. Deep(p) - 1 : End(p) \notin Lay(q)[d]
(* It is the root's, or it is how its end was found.                       *)
Found(q, No, p) == p = <<q.root>> \/ (End(p) \in DOMAIN No /\ No[End(p)] = p)
NodesOK(q, No) ==
    /\ \A n \in DOMAIN No : Route(q, No[n]) /\ End(No[n]) = n /\ Deep(No[n]) >= Low(q)
    /\ q.kind # "impact" => q.root \in DOMAIN No /\ No[q.root] = <<q.root>>
QueueOK(q, Qu, No) == IsSeq(Qu) /\ \A p \in Range(Qu) : Route(q, p) /\ Found(q, No, p)
SourceOK(q, So, Re, No) ==
    /\ Re # {} => So # <<>>
    /\ So # <<>> => /\ Route(q, So) /\ Found(q, No, So) /\ Deep(So) < q.max_depth
                    /\ Re \subseteq Out(q, End(So))
(* The queue is in order of depth, and spans one level.                    *)
Ordered(Qu, So) ==
    /\ \A i, j \in DOMAIN Qu : i < j => Deep(Qu[i]) <= Deep(Qu[j])
    /\ \A i \in DOMAIN Qu : Deep(So) <= Deep(Qu[i]) /\ Deep(Qu[i]) <= Deep(So) + 1
(* Whoever can be reached as early as the node that is expanded was found. *)
Levels(q, So, No) == \A d \in Low(q) .. Deep(So) : Lay(q)[d] \subseteq DOMAIN No

(* Who is in the queue or cut off, and else each edge is shown with its end*)
(* unless it waits.                                                        *)
Pending(q, Qu, So, Re, No, Ed, p) ==
    \/ p \in Range(Qu)
    \/ Deep(p) >= q.max_depth
    \/ \A i \in Out(q, End(p)) : (p = So /\ i \in Re) \/ (Dest(q, i) \in DOMAIN No /\ i \in Range(Ed))
Expanding(q, Qu, So, Re, No, Ed) ==
    /\ Pending(q, Qu, So, Re, No, Ed, <<q.root>>)
    /\ \A n \in DOMAIN No : Pending(q, Qu, So, Re, No, Ed, No[n])
Stopped(q, Tr) == q.kind = "flow" /\ Tr.reason \in {"max_edges", "max_nodes"}

LEMMA Lengths ==
  ASSUME NEW p, IsSeq(p), p # <<>>
  PROVE  Len(p) \in Nat \ {0} /\ Deep(p) \in Nat /\ DOMAIN p = 1 .. Len(p)
<1>1. Len(p) \in Nat \ {0} /\ DOMAIN p = 1 .. Len(p)
  BY SeqTail
<1> QED
  BY <1>1 DEF Deep

LEMMA LowIs ==
  ASSUME NEW q
  PROVE  Low(q) \in {0, 1} /\ (Low(q) = 1 <=> q.kind = "impact")
BY DEF Low

LEMMA RootRoute ==
  ASSUME NEW q, q.max_depth \in Nat
  PROVE  Route(q, <<q.root>>) /\ End(<<q.root>>) = q.root /\ Deep(<<q.root>>) = 0
<1> DEFINE p == <<q.root>>
<1>1. /\ p \in Seq({q.root}) /\ Len(p) = 1 /\ p[1] = q.root /\ p # <<>> /\ DOMAIN p = {1}
  OBVIOUS
<1>2. IsSeq(p)
  BY <1>1 DEF IsSeq, Range
<1> HIDE DEF p
<1>3. End(p) = q.root /\ Deep(p) = 0
  BY <1>1 DEF End, Deep
<1>4. Lay(q)[0] = {q.root}
  BY Layers
<1>5. \A d \in Low(q) .. Deep(p) - 1 : FALSE
  BY <1>3, LowIs
<1>6. \A k \in 1 .. Deep(p) : FALSE
  BY <1>3
<1>7. Route(q, p)
  BY <1>1, <1>2, <1>3, <1>4, <1>5, <1>6 DEF Route
<1> QED
  BY <1>3, <1>7 DEF p

LEMMA RouteExtends ==
  ASSUME NEW q, q.max_depth \in Nat, NEW p, Route(q, p), Deep(p) < q.max_depth,
         NEW i \in Out(q, End(p)), \A d \in Low(q) .. Deep(p) : Dest(q, i) \notin Lay(q)[d]
  PROVE  /\ Route(q, Append(p, Dest(q, i))) /\ End(Append(p, Dest(q, i))) = Dest(q, i)
         /\ Deep(Append(p, Dest(q, i))) = Deep(p) + 1
<1> DEFINE n == Dest(q, i)
           r == Append(p, n)
<1>1. IsSeq(p) /\ p # <<>> /\ p[1] = q.root /\ Len(p) \in Nat \ {0} /\ Deep(p) \in Nat
  BY Lengths DEF Route
<1>2. i \in Ways(q) /\ Origin(q, i) = p[Len(p)]
  BY DEF Out, End
<1> HIDE DEF n
<1>3. /\ IsSeq(r) /\ Len(r) = Len(p) + 1 /\ r[Len(p) + 1] = n
      /\ \A k \in 1 .. Len(p) : r[k] = p[k]
  BY <1>1, SeqAppend
<1> HIDE DEF r
<1>4. r # <<>> /\ End(r) = n /\ Deep(r) = Deep(p) + 1
  BY <1>1, <1>3 DEF End, Deep
<1>5. r[1] = q.root
  BY <1>1, <1>3
<1>6. ASSUME NEW k \in 1 .. Deep(r)
      PROVE  \E j \in Ways(q) : Origin(q, j) = r[k] /\ Dest(q, j) = r[k + 1]
  <2>1. Deep(r) = Len(p)
    BY <1>1, <1>3 DEF Deep
  <2>2. CASE k = Len(p)
    <3>1. r[k] = p[Len(p)] /\ r[k + 1] = n
      BY <1>1, <1>3, <2>2
    <3> QED
      BY <1>2, <3>1 DEF n
  <2>3. CASE k # Len(p)
    <3>1. k \in 1 .. Deep(p) /\ k \in 1 .. Len(p) /\ k + 1 \in 1 .. Len(p)
      BY <1>1, <2>1, <2>3 DEF Deep
    <3>2. r[k] = p[k] /\ r[k + 1] = p[k + 1]
      BY <1>3, <3>1
    <3> QED
      BY <3>1, <3>2 DEF Route
  <2> QED
    BY <2>2, <2>3
<1>7. n \in Lay(q)[Deep(r)]
  <2>1. Deep(r) \in Nat \ {0} /\ Deep(r) - 1 = Deep(p)
    BY <1>1, <1>4
  <2>2. Lay(q)[Deep(r)] = Beyond(q, Lay(q)[Deep(p)])
    BY <2>1, Layers
  <2>3. Origin(q, i) \in Lay(q)[Deep(p)]
    BY <1>2 DEF Route, End
  <2> QED
    BY <1>2, <2>2, <2>3 DEF Beyond, n
<1>8. \A d \in Low(q) .. Deep(r) - 1 : n \notin Lay(q)[d]
  <2>1. Deep(r) - 1 = Deep(p)
    BY <1>1, <1>4
  <2> QED
    BY <2>1 DEF n
<1>9. Deep(r) <= q.max_depth
  BY <1>1, <1>4
<1>10. Route(q, r)
  BY <1>3, <1>4, <1>5, <1>6, <1>7, <1>8, <1>9 DEF Route
<1> QED
  BY <1>4, <1>10 DEF r, n

(* Once every path of a level is expanded, the next level was found.       *)
LEMMA NextLevel ==
  ASSUME NEW q, NEW Qu, NEW So, NEW No, NEW Ed, NEW d \in Nat, d < q.max_depth, q.max_depth \in Nat,
         NodesOK(q, No), Expanding(q, Qu, So, {}, No, Ed),
         \A p \in Range(Qu) : Deep(p) > d,
         d >= Low(q) => Lay(q)[d] \subseteq DOMAIN No
  PROVE  Lay(q)[d + 1] \subseteq DOMAIN No
<1>1. Lay(q)[d + 1] = Beyond(q, Lay(q)[d])
  <2>1. d + 1 \in Nat \ {0} /\ (d + 1) - 1 = d
    OBVIOUS
  <2> QED
    BY <2>1, Layers
<1>2. SUFFICES ASSUME NEW i \in Ways(q), Origin(q, i) \in Lay(q)[d]
               PROVE  Dest(q, i) \in DOMAIN No
  BY <1>1 DEF Beyond
<1>3. \E p : /\ Pending(q, Qu, So, {}, No, Ed, p) /\ End(p) = Origin(q, i) /\ Deep(p) \in Nat
             /\ Deep(p) <= d
  <2>1. CASE d >= Low(q)
    <3> DEFINE p == No[Origin(q, i)]
    <3>1. Origin(q, i) \in DOMAIN No
      BY <1>2, <2>1
    <3>2. Route(q, p) /\ End(p) = Origin(q, i) /\ Pending(q, Qu, So, {}, No, Ed, p)
      BY <3>1 DEF NodesOK, Expanding
    <3> HIDE DEF p
    <3>3. Deep(p) \in Nat /\ \A e \in Low(q) .. Deep(p) - 1 : End(p) \notin Lay(q)[e]
      BY <3>2, Lengths DEF Route
    <3>4. Deep(p) <= d
      <4>1. d \notin Low(q) .. Deep(p) - 1
        BY <1>2, <3>2, <3>3
      <4> QED
        BY <2>1, <3>3, <4>1, LowIs
    <3> QED
      BY <3>2, <3>3, <3>4
  <2>2. CASE ~ (d >= Low(q))
    <3>1. d = 0
      BY <2>2, LowIs
    <3>2. Origin(q, i) = q.root
      BY <1>2, <3>1, Layers
    <3> QED
      BY <3>1, <3>2, RootRoute DEF Expanding
  <2> QED
    BY <2>1, <2>2
<1>4. PICK p : /\ Pending(q, Qu, So, {}, No, Ed, p) /\ End(p) = Origin(q, i) /\ Deep(p) \in Nat
               /\ Deep(p) <= d
  BY <1>3
<1>5. p \notin Range(Qu) /\ ~ (Deep(p) >= q.max_depth)
  BY <1>4
<1> QED
  BY <1>2, <1>4, <1>5 DEF Pending, Out

Walked(q, Qu, So, Re, No, Ed, Tr) ==
    /\ NodesOK(q, No) /\ QueueOK(q, Qu, No) /\ SourceOK(q, So, Re, No)
    /\ Ordered(Qu, So) /\ Levels(q, So, No)
    /\ ~ Stopped(q, Tr) => Expanding(q, Qu, So, Re, No, Ed)
    /\ Stopped(q, Tr) => Qu = <<>> /\ Re = {}

LEMMA TailOf ==
  ASSUME NEW q, NEW Qu, NEW So, NEW No, QueueOK(q, Qu, No), Ordered(Qu, So), Qu # <<>>
  PROVE  /\ QueueOK(q, Tail(Qu), No) /\ Range(Qu) = {Head(Qu)} \cup Range(Tail(Qu))
         /\ Route(q, Head(Qu)) /\ Found(q, No, Head(Qu)) /\ Deep(Head(Qu)) \in Nat
         /\ Deep(So) <= Deep(Head(Qu)) /\ Deep(Head(Qu)) <= Deep(So) + 1
         /\ Ordered(Tail(Qu), So)
         /\ \A i \in DOMAIN Tail(Qu) : Deep(Head(Qu)) <= Deep(Tail(Qu)[i])
<1>1. /\ IsSeq(Tail(Qu)) /\ Len(Qu) \in Nat \ {0}
      /\ DOMAIN Qu = 1 .. Len(Qu) /\ DOMAIN Tail(Qu) = 1 .. Len(Qu) - 1
      /\ \A i \in 1 .. Len(Qu) - 1 : Tail(Qu)[i] = Qu[i + 1]
      /\ Head(Qu) = Qu[1] /\ Range(Qu) = {Head(Qu)} \cup Range(Tail(Qu))
  BY SeqTail DEF QueueOK
<1>2. QueueOK(q, Tail(Qu), No)
  BY <1>1 DEF QueueOK
<1>3. Route(q, Head(Qu)) /\ Found(q, No, Head(Qu))
  BY <1>1 DEF QueueOK
<1>4. Deep(Head(Qu)) \in Nat
  BY <1>3, Lengths DEF Route
<1>5. 1 \in DOMAIN Qu /\ \A i \in DOMAIN Tail(Qu) : i + 1 \in DOMAIN Qu /\ 1 < i + 1 /\ Tail(Qu)[i] = Qu[i + 1]
  BY <1>1
<1>6. Deep(So) <= Deep(Head(Qu)) /\ Deep(Head(Qu)) <= Deep(So) + 1
  BY <1>1, <1>5 DEF Ordered
<1>7. \A i \in DOMAIN Tail(Qu) : Deep(Head(Qu)) <= Deep(Tail(Qu)[i])
  BY <1>1, <1>5 DEF Ordered
<1>8. Ordered(Tail(Qu), So)
  <2>1. \A i, j \in DOMAIN Tail(Qu) : i < j => Deep(Tail(Qu)[i]) <= Deep(Tail(Qu)[j])
    <3> SUFFICES ASSUME NEW i \in DOMAIN Tail(Qu), NEW j \in DOMAIN Tail(Qu), i < j
                 PROVE  Deep(Tail(Qu)[i]) <= Deep(Tail(Qu)[j])
      OBVIOUS
    <3>1. i + 1 < j + 1
      BY <1>1
    <3> QED
      BY <1>5, <3>1 DEF Ordered
  <2>2. \A i \in DOMAIN Tail(Qu) : Deep(So) <= Deep(Tail(Qu)[i]) /\ Deep(Tail(Qu)[i]) <= Deep(So) + 1
    BY <1>5 DEF Ordered
  <2> QED
    BY <2>1, <2>2 DEF Ordered
<1> QED
  BY <1>1, <1>2, <1>3, <1>4, <1>6, <1>7, <1>8

LEMMA PathDepths ==
  ASSUME NEW q, NEW Qu, NEW So, NEW Re, NEW No, QueueOK(q, Qu, No), SourceOK(q, So, Re, No)
  PROVE  /\ Deep(So) \in Int /\ (So # <<>> => Deep(So) \in Nat) /\ (So = <<>> => Deep(So) = -1)
         /\ \A i \in DOMAIN Qu : Deep(Qu[i]) \in Nat
<1>1. So # <<>> => Deep(So) \in Nat
  BY Lengths DEF SourceOK, Route
<1>2. So = <<>> => Deep(So) = -1
  BY DEF Deep
<1>3. \A i \in DOMAIN Qu : Qu[i] \in Range(Qu)
  BY DEF Range
<1>4. \A i \in DOMAIN Qu : Deep(Qu[i]) \in Nat
  BY <1>3, Lengths DEF QueueOK, Route
<1> QED
  BY <1>1, <1>2, <1>4

LEMMA WalkDequeue ==
  ASSUME NEW q, NEW Qu, NEW So, NEW No, NEW Ed, NEW Tr, Walked(q, Qu, So, {}, No, Ed, Tr),
         q.max_depth \in Nat, Qu # <<>>, Deep(Head(Qu)) < q.max_depth
  PROVE  Walked(q, Tail(Qu), Head(Qu), Out(q, End(Head(Qu))), No, Ed, Tr)
<1>1. /\ NodesOK(q, No) /\ QueueOK(q, Qu, No) /\ SourceOK(q, So, {}, No)
      /\ Ordered(Qu, So) /\ Levels(q, So, No) /\ ~ Stopped(q, Tr)
      /\ Expanding(q, Qu, So, {}, No, Ed)
  BY DEF Walked
<1>2. /\ QueueOK(q, Tail(Qu), No) /\ Range(Qu) = {Head(Qu)} \cup Range(Tail(Qu))
      /\ Route(q, Head(Qu)) /\ Found(q, No, Head(Qu)) /\ Deep(Head(Qu)) \in Nat
      /\ Deep(So) <= Deep(Head(Qu)) /\ Deep(Head(Qu)) <= Deep(So) + 1
      /\ Ordered(Tail(Qu), So)
      /\ \A i \in DOMAIN Tail(Qu) : Deep(Head(Qu)) <= Deep(Tail(Qu)[i])
  BY <1>1, TailOf
<1>3. /\ Deep(So) \in Int /\ (So # <<>> => Deep(So) \in Nat) /\ (So = <<>> => Deep(So) = -1)
      /\ \A i \in DOMAIN Qu : Deep(Qu[i]) \in Nat
      /\ \A i \in DOMAIN Tail(Qu) : Deep(Tail(Qu)[i]) \in Nat
  BY <1>1, <1>2, PathDepths
<1>4. Ordered(Tail(Qu), Head(Qu))
  BY <1>2, <1>3 DEF Ordered
<1>5. SourceOK(q, Head(Qu), Out(q, End(Head(Qu))), No)
  <2>1. Head(Qu) # <<>>
    BY <1>2 DEF Route
  <2> QED
    BY <1>2, <2>1 DEF SourceOK
<1>6. Levels(q, Head(Qu), No)
  <2>1. CASE Deep(Head(Qu)) = Deep(So)
    BY <1>1, <2>1 DEF Levels
  <2>2. CASE Deep(Head(Qu)) = Deep(So) + 1 /\ So # <<>>
    <3>1. \A p \in Range(Qu) : Deep(p) > Deep(So)
      <4>1. ASSUME NEW p \in Range(Qu)
            PROVE  Deep(p) > Deep(So)
        <5>1. CASE p = Head(Qu)
          BY <1>3, <2>2, <5>1
        <5>2. CASE p \in Range(Tail(Qu))
          <6>1. PICK i \in DOMAIN Tail(Qu) : p = Tail(Qu)[i]
            BY <5>2 DEF Range
          <6> QED
            BY <1>2, <1>3, <2>2, <6>1
        <5> QED
          BY <1>2, <5>1, <5>2
      <4> QED
        BY <4>1
    <3>2. Deep(So) \in Nat /\ Deep(So) < q.max_depth
      BY <1>1, <1>3, <2>2 DEF SourceOK
    <3>3. Deep(So) >= Low(q) => Lay(q)[Deep(So)] \subseteq DOMAIN No
      BY <1>1, <3>2, LowIs DEF Levels
    <3>4. Lay(q)[Deep(So) + 1] \subseteq DOMAIN No
      BY <1>1, <3>1, <3>2, <3>3, NextLevel
    <3>5. ASSUME NEW d \in Low(q) .. Deep(Head(Qu))
          PROVE  Lay(q)[d] \subseteq DOMAIN No
      <4>1. CASE d = Deep(So) + 1
        BY <3>4, <4>1
      <4>2. CASE d # Deep(So) + 1
        <5>1. d \in Low(q) .. Deep(So)
          BY <2>2, <3>2, <4>2, LowIs
        <5> QED
          BY <1>1, <5>1 DEF Levels
      <4> QED
        BY <4>1, <4>2
    <3> QED
      BY <3>5 DEF Levels
  <2>3. CASE Deep(Head(Qu)) = Deep(So) + 1 /\ So = <<>>
    <3>1. Deep(Head(Qu)) = 0
      BY <1>3, <2>3
    <3>2. Lay(q)[0] = {q.root}
      BY Layers
    <3>3. ASSUME NEW d \in Low(q) .. 0
          PROVE  d = 0 /\ q.root \in DOMAIN No
      <4>1. d = 0 /\ Low(q) # 1
        BY LowIs
      <4> QED
        BY <1>1, <4>1, LowIs DEF NodesOK
    <3> QED
      BY <3>1, <3>2, <3>3 DEF Levels
  <2> QED
    BY <1>2, <1>3, <2>1, <2>2, <2>3
<1>7. Expanding(q, Tail(Qu), Head(Qu), Out(q, End(Head(Qu))), No, Ed)
  <2>1. ASSUME NEW p, Pending(q, Qu, So, {}, No, Ed, p)
        PROVE  Pending(q, Tail(Qu), Head(Qu), Out(q, End(Head(Qu))), No, Ed, p)
    BY <1>2, <2>1 DEF Pending
  <2> QED
    BY <1>1, <2>1 DEF Expanding
<1> QED
  BY <1>1, <1>2, <1>4, <1>5, <1>6, <1>7 DEF Walked

LEMMA WalkCutOff ==
  ASSUME NEW q, NEW Qu, NEW So, NEW No, NEW Ed, NEW Tr, Walked(q, Qu, So, {}, No, Ed, Tr),
         Qu # <<>>, Deep(Head(Qu)) >= q.max_depth, NEW Tr2, ~ Stopped(q, Tr2)
  PROVE  Walked(q, Tail(Qu), So, {}, No, Ed, Tr2)
<1>1. /\ NodesOK(q, No) /\ QueueOK(q, Qu, No) /\ SourceOK(q, So, {}, No)
      /\ Ordered(Qu, So) /\ Levels(q, So, No) /\ Expanding(q, Qu, So, {}, No, Ed)
  BY DEF Walked
<1>2. /\ QueueOK(q, Tail(Qu), No) /\ Range(Qu) = {Head(Qu)} \cup Range(Tail(Qu))
      /\ Ordered(Tail(Qu), So)
  BY <1>1, TailOf
<1>3. ASSUME NEW p, Pending(q, Qu, So, {}, No, Ed, p)
      PROVE  Pending(q, Tail(Qu), So, {}, No, Ed, p)
  BY <1>2, <1>3 DEF Pending
<1>4. Expanding(q, Tail(Qu), So, {}, No, Ed)
  BY <1>1, <1>3 DEF Expanding
<1> QED
  BY <1>1, <1>2, <1>4 DEF Walked

LEMMA WalkStop ==
  ASSUME NEW q, NEW Qu, NEW So, NEW Re, NEW No, NEW Ed, NEW Tr, Walked(q, Qu, So, Re, No, Ed, Tr),
         NEW Ed2, NEW Tr2, Stopped(q, Tr2)
  PROVE  Walked(q, <<>>, So, {}, No, Ed2, Tr2)
<1>1. QueueOK(q, <<>>, No)
  BY DEF QueueOK, IsSeq, Range
<1>2. Ordered(<<>>, So)
  BY DEF Ordered
<1>3. SourceOK(q, So, {}, No)
  BY DEF Walked, SourceOK
<1> QED
  BY <1>1, <1>2, <1>3 DEF Walked

LEMMA WalkRevisit ==
  ASSUME NEW q, NEW Qu, NEW So, NEW Re, NEW No, NEW Ed, NEW Tr, Walked(q, Qu, So, Re, No, Ed, Tr),
         NEW i \in Re, Dest(q, i) \in DOMAIN No, NEW Ed2, Range(Ed2) = Range(Ed) \cup {i}
  PROVE  Walked(q, Qu, So, Re \ {i}, No, Ed2, Tr)
<1>1. /\ SourceOK(q, So, Re, No) /\ ~ Stopped(q, Tr) /\ Expanding(q, Qu, So, Re, No, Ed)
  BY DEF Walked
<1>2. SourceOK(q, So, Re \ {i}, No)
  BY <1>1 DEF SourceOK
<1>3. ASSUME NEW p, Pending(q, Qu, So, Re, No, Ed, p)
      PROVE  Pending(q, Qu, So, Re \ {i}, No, Ed2, p)
  BY <1>3 DEF Pending
<1>4. Expanding(q, Qu, So, Re \ {i}, No, Ed2)
  BY <1>1, <1>3 DEF Expanding
<1> QED
  BY <1>1, <1>2, <1>4 DEF Walked

Reached(q, So, No, Ed, i, r, No2, Ed2) ==
    /\ r = Append(So, Dest(q, i))
    /\ No2 = [n \in DOMAIN No \cup {Dest(q, i)} |-> IF n = Dest(q, i) THEN r ELSE No[n]]
    /\ Range(Ed2) = Range(Ed) \cup {i}

LEMMA WalkReach ==
  ASSUME NEW q, NEW Qu, NEW So, NEW Re, NEW No, NEW Ed, NEW Tr, NEW i, NEW r, NEW No2, NEW Ed2,
         Walked(q, Qu, So, Re, No, Ed, Tr), Reached(q, So, No, Ed, i, r, No2, Ed2),
         q.max_depth \in Nat, i \in Re, Dest(q, i) \notin DOMAIN No
  PROVE  /\ Walked(q, Append(Qu, r), So, Re \ {i}, No2, Ed2, Tr)
         /\ Route(q, r) /\ End(r) = Dest(q, i) /\ Deep(r) = Deep(So) + 1
<1>0. /\ r = Append(So, Dest(q, i)) /\ Range(Ed2) = Range(Ed) \cup {i}
      /\ No2 = [n \in DOMAIN No \cup {Dest(q, i)} |-> IF n = Dest(q, i) THEN r ELSE No[n]]
  BY DEF Reached
<1>1. /\ NodesOK(q, No) /\ QueueOK(q, Qu, No) /\ SourceOK(q, So, Re, No)
      /\ Ordered(Qu, So) /\ Levels(q, So, No) /\ ~ Stopped(q, Tr)
      /\ Expanding(q, Qu, So, Re, No, Ed)
  BY DEF Walked
<1>2. /\ So # <<>> /\ Route(q, So) /\ Found(q, No, So) /\ Deep(So) < q.max_depth
      /\ Re \subseteq Out(q, End(So))
  BY <1>1 DEF SourceOK
<1>3. Deep(So) \in Nat /\ \A k \in DOMAIN Qu : Deep(Qu[k]) \in Nat
  BY <1>1, <1>2, PathDepths
<1>4. Route(q, r) /\ End(r) = Dest(q, i) /\ Deep(r) = Deep(So) + 1
  <2>1. \A d \in Low(q) .. Deep(So) : Dest(q, i) \notin Lay(q)[d]
    BY <1>1 DEF Levels
  <2> QED
    BY <1>0, <1>2, <2>1, RouteExtends
<1>5. /\ DOMAIN No2 = DOMAIN No \cup {Dest(q, i)} /\ No2[Dest(q, i)] = r
      /\ \A n \in DOMAIN No : No2[n] = No[n]
  BY <1>0
<1> HIDE DEF Deep
<1>6. \A p : Found(q, No, p) => Found(q, No2, p)
  BY <1>5 DEF Found
<1>7. NodesOK(q, No2)
  <2>1. Deep(r) >= Low(q)
    BY <1>3, <1>4, LowIs
  <2> QED
    BY <1>1, <1>4, <1>5, <2>1 DEF NodesOK
<1>8. /\ IsSeq(Append(Qu, r)) /\ Len(Qu) \in Nat /\ DOMAIN Qu = 1 .. Len(Qu)
      /\ DOMAIN Append(Qu, r) = 1 .. Len(Qu) + 1
      /\ \A k \in 1 .. Len(Qu) : Append(Qu, r)[k] = Qu[k]
      /\ Append(Qu, r)[Len(Qu) + 1] = r
      /\ Range(Append(Qu, r)) = Range(Qu) \cup {r}
  <2>1. IsSeq(Qu)
    BY <1>1 DEF QueueOK
  <2> QED
    BY ONLY <2>1, SeqAppend
<1>9. Found(q, No2, r)
  BY <1>4, <1>5 DEF Found
<1>10. QueueOK(q, Append(Qu, r), No2)
  BY <1>1, <1>4, <1>6, <1>8, <1>9 DEF QueueOK
<1>11. SourceOK(q, So, Re \ {i}, No2)
  BY <1>2, <1>6 DEF SourceOK
<1>12. Ordered(Append(Qu, r), So)
  <2>1. \A k \in 1 .. Len(Qu) + 1 : k # Len(Qu) + 1 => k \in 1 .. Len(Qu)
    BY <1>8
  <2>2. \A k \in DOMAIN Qu : Deep(So) <= Deep(Qu[k]) /\ Deep(Qu[k]) <= Deep(So) + 1
    BY <1>1 DEF Ordered
  <2>3. \A k \in 1 .. Len(Qu) + 1 :
          Deep(So) <= Deep(Append(Qu, r)[k]) /\ Deep(Append(Qu, r)[k]) <= Deep(So) + 1
    BY <1>3, <1>4, <1>8, <2>1, <2>2
  <2>4. ASSUME NEW k \in 1 .. Len(Qu) + 1, NEW j \in 1 .. Len(Qu) + 1, k < j
        PROVE  Deep(Append(Qu, r)[k]) <= Deep(Append(Qu, r)[j])
    <3>1. CASE j = Len(Qu) + 1
      BY <1>4, <1>8, <2>3, <3>1
    <3>2. CASE j # Len(Qu) + 1
      <4>1. j \in DOMAIN Qu /\ k \in DOMAIN Qu
        <5>1. j \in 1 .. Len(Qu) /\ k \in 1 .. Len(Qu)
          BY ONLY <2>4, <3>2, Len(Qu) \in Nat, j \in 1 .. Len(Qu) + 1, k \in 1 .. Len(Qu) + 1, <1>8
        <5> QED
          BY <1>8, <5>1
      <4> QED
        BY <1>1, <1>8, <2>4, <4>1 DEF Ordered
    <3> QED
      BY <3>1, <3>2
  <2> QED
    BY <1>8, <2>3, <2>4 DEF Ordered
<1>13. Levels(q, So, No2)
  BY <1>1, <1>5 DEF Levels
<1>14. Expanding(q, Append(Qu, r), So, Re \ {i}, No2, Ed2)
  <2>1. ASSUME NEW p, Pending(q, Qu, So, Re, No, Ed, p)
        PROVE  Pending(q, Append(Qu, r), So, Re \ {i}, No2, Ed2, p)
    BY <1>0, <1>5, <1>8, <2>1 DEF Pending
  <2>2. Pending(q, Append(Qu, r), So, Re \ {i}, No2, Ed2, r)
    BY <1>8 DEF Pending
  <2> QED
    BY <1>1, <1>5, <2>1, <2>2 DEF Expanding
<1> QED
  BY <1>1, <1>4, <1>7, <1>10, <1>11, <1>12, <1>13, <1>14 DEF Walked

-----------------------------------------------------------------------------
(* What a flow shows.  An edge is shown once, and leads from a node that   *)
(* was expanded; nobody that waits has been.                               *)
EdgesOK(q, Qu, So, Re, No, Ed) ==
    /\ IsSeq(Ed)
    /\ \A i \in Range(Ed) : i \in Ways(q) /\ Origin(q, i) \in DOMAIN No /\ Deep(No[Origin(q, i)]) < q.max_depth
    /\ \A i \in Re : i \notin Range(Ed)
    /\ \A p \in Range(Qu) : \A i \in Out(q, End(p)) : i \notin Range(Ed)
    /\ \A k, j \in DOMAIN Qu : Qu[k] = Qu[j] => k = j
    /\ So \notin Range(Qu)
Dangling(q, Qu, Re, No, Ed, Tr) ==
    \A k \in DOMAIN Ed :
      \/ Dest(q, Ed[k]) \in DOMAIN No
      \/ k = Len(Ed) /\ Tr = Q!Truncated("max_nodes", Dest(q, Ed[k])) /\ Re = {} /\ Qu = <<>>
(* A flow that says nothing has left out no edge at the limit of its depth;*)
(* and one that says so lacks one there, or at its end any.                *)
Marked(q, Qu, No, Tr) ==
    Tr = Q!Whole =>
      \A n \in DOMAIN No : No[n] \in Range(Qu) \/ Deep(No[n]) < q.max_depth \/ Out(q, n) = {}
LacksDeep(q, No) ==
    \E i \in Ways(q) : Origin(q, i) \in DOMAIN No /\ Deep(No[Origin(q, i)]) >= q.max_depth
LacksEdge(q, No, Ed) ==
    \E i \in Ways(q) : Origin(q, i) \in DOMAIN No /\ (i \notin Range(Ed) \/ Dest(q, i) \notin DOMAIN No)
Told(q, Qu, Re, No, Ed, Tr, short) ==
    Tr # Q!Whole => LacksDeep(q, No) \/ (Qu = <<>> /\ Re = {} /\ LacksEdge(q, No, Ed)) \/ short
Shown(q, Qu, So, Re, No, Ed, Tr, short) ==
    /\ EdgesOK(q, Qu, So, Re, No, Ed) /\ Dangling(q, Qu, Re, No, Ed, Tr)
    /\ Marked(q, Qu, No, Tr) /\ Told(q, Qu, Re, No, Ed, Tr, short)

LEMMA FoundInFlow ==
  ASSUME NEW q, NEW No, NodesOK(q, No), q.kind = "flow", q.max_depth \in Nat, NEW p, Found(q, No, p)
  PROVE  End(p) \in DOMAIN No /\ No[End(p)] = p
<1>1. CASE p = <<q.root>>
  <2>1. End(p) = q.root
    BY <1>1, RootRoute
  <2> QED
    BY <1>1, <2>1 DEF NodesOK
<1> QED
  BY <1>1 DEF Found

LEMMA ShownDequeue ==
  ASSUME NEW q, NEW Qu, NEW So, NEW No, NEW Ed, NEW Tr, NEW short,
         Walked(q, Qu, So, {}, No, Ed, Tr), Shown(q, Qu, So, {}, No, Ed, Tr, short),
         q.kind = "flow", q.max_depth \in Nat, Qu # <<>>, Deep(Head(Qu)) < q.max_depth
  PROVE  Shown(q, Tail(Qu), Head(Qu), Out(q, End(Head(Qu))), No, Ed, Tr, short)
<1>1. /\ NodesOK(q, No) /\ QueueOK(q, Qu, No) /\ EdgesOK(q, Qu, So, {}, No, Ed)
      /\ Dangling(q, Qu, {}, No, Ed, Tr) /\ Marked(q, Qu, No, Tr) /\ Told(q, Qu, {}, No, Ed, Tr, short)
  BY DEF Walked, Shown
<1>2. /\ Len(Qu) \in Nat \ {0} /\ DOMAIN Qu = 1 .. Len(Qu) /\ DOMAIN Tail(Qu) = 1 .. Len(Qu) - 1
      /\ \A k \in 1 .. Len(Qu) - 1 : Tail(Qu)[k] = Qu[k + 1]
      /\ Head(Qu) = Qu[1] /\ Range(Qu) = {Head(Qu)} \cup Range(Tail(Qu))
  <2>1. IsSeq(Qu)
    BY <1>1 DEF QueueOK
  <2> QED
    BY <2>1, SeqTail
<1>3. \A k, j \in DOMAIN Tail(Qu) : Tail(Qu)[k] = Tail(Qu)[j] => k = j
  <2> SUFFICES ASSUME NEW k \in DOMAIN Tail(Qu), NEW j \in DOMAIN Tail(Qu), Tail(Qu)[k] = Tail(Qu)[j]
               PROVE  k = j
    OBVIOUS
  <2>1. k + 1 \in DOMAIN Qu /\ j + 1 \in DOMAIN Qu /\ Qu[k + 1] = Qu[j + 1] /\ k \in Int /\ j \in Int
    BY <1>2
  <2>2. k + 1 = j + 1
    BY <1>1, <2>1 DEF EdgesOK
  <2> QED
    BY <2>1, <2>2
<1>4. Head(Qu) \notin Range(Tail(Qu))
  <2> SUFFICES ASSUME NEW k \in DOMAIN Tail(Qu), Tail(Qu)[k] = Head(Qu)
               PROVE  FALSE
    BY DEF Range
  <2>1. k + 1 \in DOMAIN Qu /\ Qu[k + 1] = Qu[1] /\ 1 \in DOMAIN Qu /\ k + 1 # 1
    BY <1>2
  <2> QED
    BY <1>1, <2>1 DEF EdgesOK
<1>5. EdgesOK(q, Tail(Qu), Head(Qu), Out(q, End(Head(Qu))), No, Ed)
  BY <1>1, <1>2, <1>3, <1>4 DEF EdgesOK
<1>6. Dangling(q, Tail(Qu), Out(q, End(Head(Qu))), No, Ed, Tr)
  BY <1>1 DEF Dangling
<1>7. Marked(q, Tail(Qu), No, Tr)
  BY <1>1, <1>2 DEF Marked
<1>8. Told(q, Tail(Qu), Out(q, End(Head(Qu))), No, Ed, Tr, short)
  BY <1>1 DEF Told
<1> QED
  BY <1>5, <1>6, <1>7, <1>8 DEF Shown

LEMMA ShownCutOff ==
  ASSUME NEW q, NEW Qu, NEW So, NEW No, NEW Ed, NEW Tr, NEW short,
         Walked(q, Qu, So, {}, No, Ed, Tr), Shown(q, Qu, So, {}, No, Ed, Tr, short),
         q.kind = "flow", q.max_depth \in Nat, Qu # <<>>, Deep(Head(Qu)) >= q.max_depth,
         NEW Tr2, Tr2 = IF Out(q, End(Head(Qu))) # {} THEN Q!Truncated("max_depth", End(Head(Qu))) ELSE Tr
  PROVE  Shown(q, Tail(Qu), So, {}, No, Ed, Tr2, short)
<1>1. /\ NodesOK(q, No) /\ QueueOK(q, Qu, No) /\ EdgesOK(q, Qu, So, {}, No, Ed)
      /\ Dangling(q, Qu, {}, No, Ed, Tr) /\ Marked(q, Qu, No, Tr) /\ Told(q, Qu, {}, No, Ed, Tr, short)
  BY DEF Walked, Shown
<1>2. /\ Len(Qu) \in Nat \ {0} /\ DOMAIN Qu = 1 .. Len(Qu) /\ DOMAIN Tail(Qu) = 1 .. Len(Qu) - 1
      /\ \A k \in 1 .. Len(Qu) - 1 : Tail(Qu)[k] = Qu[k + 1]
      /\ Head(Qu) = Qu[1] /\ Range(Qu) = {Head(Qu)} \cup Range(Tail(Qu))
  <2>1. IsSeq(Qu)
    BY <1>1 DEF QueueOK
  <2> QED
    BY <2>1, SeqTail
<1>3. \A k, j \in DOMAIN Tail(Qu) : Tail(Qu)[k] = Tail(Qu)[j] => k = j
  <2> SUFFICES ASSUME NEW k \in DOMAIN Tail(Qu), NEW j \in DOMAIN Tail(Qu), Tail(Qu)[k] = Tail(Qu)[j]
               PROVE  k = j
    OBVIOUS
  <2>1. k + 1 \in DOMAIN Qu /\ j + 1 \in DOMAIN Qu /\ Qu[k + 1] = Qu[j + 1] /\ k \in Int /\ j \in Int
    BY <1>2
  <2>2. k + 1 = j + 1
    BY <1>1, <2>1 DEF EdgesOK
  <2> QED
    BY <2>1, <2>2
<1>4. EdgesOK(q, Tail(Qu), So, {}, No, Ed)
  BY <1>1, <1>2, <1>3 DEF EdgesOK
<1>5. Dangling(q, Tail(Qu), {}, No, Ed, Tr2)
  BY <1>1 DEF Dangling
<1>6. End(Head(Qu)) \in DOMAIN No /\ No[End(Head(Qu))] = Head(Qu)
  <2>1. Found(q, No, Head(Qu))
    BY <1>1, <1>2 DEF QueueOK
  <2> QED
    BY <1>1, <2>1, FoundInFlow
<1>7. Marked(q, Tail(Qu), No, Tr2)
  <2> SUFFICES ASSUME Tr2 = Q!Whole, NEW n \in DOMAIN No
               PROVE  No[n] \in Range(Tail(Qu)) \/ Deep(No[n]) < q.max_depth \/ Out(q, n) = {}
    BY DEF Marked
  <2>1. Tr = Q!Whole /\ Out(q, End(Head(Qu))) = {}
    BY DEF Q!Truncated, Q!Whole
  <2>2. No[n] \in Range(Qu) \/ Deep(No[n]) < q.max_depth \/ Out(q, n) = {}
    BY <1>1, <2>1 DEF Marked
  <2>3. No[n] = Head(Qu) => n = End(Head(Qu))
    BY <1>1 DEF NodesOK
  <2> QED
    BY <1>2, <2>1, <2>2, <2>3
<1>8. Told(q, Tail(Qu), {}, No, Ed, Tr2, short)
  <2>1. CASE Out(q, End(Head(Qu))) # {}
    <3>1. PICK i \in Ways(q) : Origin(q, i) = End(Head(Qu))
      BY <2>1 DEF Out
    <3>2. LacksDeep(q, No)
      BY <1>6, <3>1 DEF LacksDeep
    <3> QED
      BY <3>2 DEF Told
  <2>2. CASE Out(q, End(Head(Qu))) = {}
    BY <1>1, <2>2 DEF Told
  <2> QED
    BY <2>1, <2>2
<1> QED
  BY <1>4, <1>5, <1>7, <1>8 DEF Shown

(* One edge more is shown, that of the source that is next.                *)
Adds(q, So, No, Ed, i) ==
    /\ IsSeq(Append(Ed, i)) /\ Range(Append(Ed, i)) = Range(Ed) \cup {i}
    /\ DOMAIN Append(Ed, i) = 1 .. Len(Ed) + 1 /\ Len(Append(Ed, i)) = Len(Ed) + 1
    /\ Len(Ed) \in Nat /\ Append(Ed, i)[Len(Ed) + 1] = i
    /\ \A k \in 1 .. Len(Ed) : Append(Ed, i)[k] = Ed[k] /\ Dest(q, Ed[k]) \in DOMAIN No
    /\ i \in Ways(q) /\ Origin(q, i) = End(So) /\ End(So) \in DOMAIN No /\ No[End(So)] = So
    /\ i \notin Range(Ed) /\ Deep(So) < q.max_depth

LEMMA EdgeAdded ==
  ASSUME NEW q, NEW Qu, NEW So, NEW Re, NEW No, NEW Ed, NEW Tr, NEW short,
         Walked(q, Qu, So, Re, No, Ed, Tr), Shown(q, Qu, So, Re, No, Ed, Tr, short),
         q.kind = "flow", q.max_depth \in Nat, NEW i \in Re
  PROVE  Adds(q, So, No, Ed, i) /\ EdgesOK(q, Qu, So, Re \ {i}, No, Append(Ed, i))
<1>1. /\ NodesOK(q, No) /\ QueueOK(q, Qu, No) /\ SourceOK(q, So, Re, No)
      /\ EdgesOK(q, Qu, So, Re, No, Ed) /\ Dangling(q, Qu, Re, No, Ed, Tr)
  BY DEF Walked, Shown
<1>2. Found(q, No, So) /\ Deep(So) < q.max_depth /\ i \in Out(q, End(So))
  BY <1>1 DEF SourceOK
<1>3. i \in Ways(q) /\ Origin(q, i) = End(So) /\ i \notin Range(Ed)
  BY <1>1, <1>2 DEF Out, EdgesOK
<1>4. End(So) \in DOMAIN No /\ No[End(So)] = So
  BY <1>1, <1>2, FoundInFlow
<1>5. /\ IsSeq(Append(Ed, i)) /\ Range(Append(Ed, i)) = Range(Ed) \cup {i}
      /\ DOMAIN Append(Ed, i) = 1 .. Len(Ed) + 1 /\ Len(Append(Ed, i)) = Len(Ed) + 1
      /\ Len(Ed) \in Nat /\ Append(Ed, i)[Len(Ed) + 1] = i /\ DOMAIN Ed = 1 .. Len(Ed)
      /\ \A k \in 1 .. Len(Ed) : Append(Ed, i)[k] = Ed[k]
  <2>1. IsSeq(Ed)
    BY <1>1 DEF EdgesOK
  <2> QED
    BY ONLY <2>1, SeqAppend
<1>6. \A k \in 1 .. Len(Ed) : Dest(q, Ed[k]) \in DOMAIN No
  BY <1>1, <1>5 DEF Dangling
<1>7. \A p \in Range(Qu) : i \notin Out(q, End(p))
  <2> SUFFICES ASSUME NEW p \in Range(Qu), End(p) = End(So)
               PROVE  FALSE
    BY <1>3 DEF Out
  <2>1. No[End(p)] = p
    BY <1>1, FoundInFlow DEF QueueOK
  <2> QED
    BY <1>1, <1>4, <2>1 DEF EdgesOK
<1>8. EdgesOK(q, Qu, So, Re \ {i}, No, Append(Ed, i))
  <2>1. \A j \in Range(Ed) \cup {i} :
          j \in Ways(q) /\ Origin(q, j) \in DOMAIN No /\ Deep(No[Origin(q, j)]) < q.max_depth
    BY <1>1, <1>2, <1>3, <1>4 DEF EdgesOK
  <2>2. \A j \in Re \ {i} : j \notin Range(Ed) \cup {i}
    BY <1>1 DEF EdgesOK
  <2>3. \A p \in Range(Qu) : \A j \in Out(q, End(p)) : j \notin Range(Ed) \cup {i}
    BY <1>1, <1>7 DEF EdgesOK
  <2> QED
    BY <1>1, <1>5, <2>1, <2>2, <2>3 DEF EdgesOK
<1> QED
  BY <1>2, <1>3, <1>4, <1>5, <1>6, <1>8 DEF Adds

LEMMA ShownRevisit ==
  ASSUME NEW q, NEW Qu, NEW So, NEW Re, NEW No, NEW Ed, NEW Tr, NEW short,
         Walked(q, Qu, So, Re, No, Ed, Tr), Shown(q, Qu, So, Re, No, Ed, Tr, short),
         q.kind = "flow", q.max_depth \in Nat, NEW i \in Re, Dest(q, i) \in DOMAIN No
  PROVE  Shown(q, Qu, So, Re \ {i}, No, Append(Ed, i), Tr, short)
<1>0. Adds(q, So, No, Ed, i)
  BY EdgeAdded
<1>1. Marked(q, Qu, No, Tr) /\ Told(q, Qu, Re, No, Ed, Tr, short)
  BY DEF Shown
<1>2. EdgesOK(q, Qu, So, Re \ {i}, No, Append(Ed, i))
  BY EdgeAdded
<1>3. Dangling(q, Qu, Re \ {i}, No, Append(Ed, i), Tr)
  <2>1. \A k \in 1 .. Len(Ed) + 1 : k # Len(Ed) + 1 => k \in 1 .. Len(Ed)
    BY <1>0 DEF Adds
  <2> QED
    BY <1>0, <2>1 DEF Dangling, Adds
<1>4. Told(q, Qu, Re \ {i}, No, Append(Ed, i), Tr, short)
  BY <1>1 DEF Told
<1> QED
  BY <1>1, <1>2, <1>3, <1>4 DEF Shown

LEMMA ShownEdgeLimit ==
  ASSUME NEW q, NEW Qu, NEW So, NEW Re, NEW No, NEW Ed, NEW Tr, NEW short,
         Walked(q, Qu, So, Re, No, Ed, Tr), Shown(q, Qu, So, Re, No, Ed, Tr, short),
         q.kind = "flow", q.max_depth \in Nat, Re # {}, NEW n
  PROVE  Shown(q, <<>>, So, {}, No, Ed, Q!Truncated("max_edges", n), short)
<1> DEFINE Tr2 == Q!Truncated("max_edges", n)
<1>1. PICK i \in Re : TRUE
  OBVIOUS
<1>0. Adds(q, So, No, Ed, i)
  BY EdgeAdded
<1>2. EdgesOK(q, Qu, So, Re, No, Ed) /\ Dangling(q, Qu, Re, No, Ed, Tr)
  BY DEF Shown
<1>3. Tr2 # Q!Whole
  BY DEF Q!Truncated, Q!Whole
<1> HIDE DEF Tr2
<1>4. Range(<<>>) = {} /\ DOMAIN <<>> = {}
  BY DEF Range
<1>5. EdgesOK(q, <<>>, So, {}, No, Ed)
  BY <1>2, <1>4 DEF EdgesOK
<1>6. Dangling(q, <<>>, {}, No, Ed, Tr2)
  BY <1>1, <1>2 DEF Dangling
<1>7. LacksEdge(q, No, Ed)
  BY <1>0 DEF LacksEdge, Adds
<1>8. Marked(q, <<>>, No, Tr2) /\ Told(q, <<>>, {}, No, Ed, Tr2, short)
  BY <1>3, <1>7 DEF Marked, Told
<1> QED
  BY <1>5, <1>6, <1>8 DEF Shown, Tr2

LEMMA ShownNodeLimit ==
  ASSUME NEW q, NEW Qu, NEW So, NEW Re, NEW No, NEW Ed, NEW Tr, NEW short,
         Walked(q, Qu, So, Re, No, Ed, Tr), Shown(q, Qu, So, Re, No, Ed, Tr, short),
         q.kind = "flow", q.max_depth \in Nat, NEW i \in Re, Dest(q, i) \notin DOMAIN No
  PROVE  Shown(q, <<>>, So, {}, No, Append(Ed, i), Q!Truncated("max_nodes", Dest(q, i)), short)
<1> DEFINE Tr2 == Q!Truncated("max_nodes", Dest(q, i))
<1>0. Adds(q, So, No, Ed, i)
  BY EdgeAdded
<1>1. Tr2 # Q!Whole
  BY DEF Q!Truncated, Q!Whole
<1>2. Range(<<>>) = {} /\ DOMAIN <<>> = {}
  BY DEF Range
<1>3. EdgesOK(q, Qu, So, Re \ {i}, No, Append(Ed, i))
  BY EdgeAdded
<1>4. EdgesOK(q, <<>>, So, {}, No, Append(Ed, i))
  BY <1>2, <1>3 DEF EdgesOK
<1>5. Dangling(q, <<>>, {}, No, Append(Ed, i), Tr2)
  <2>1. \A k \in 1 .. Len(Ed) + 1 : k # Len(Ed) + 1 => k \in 1 .. Len(Ed)
    BY <1>0 DEF Adds
  <2> QED
    BY <1>0, <2>1 DEF Dangling, Adds
<1>6. LacksEdge(q, No, Append(Ed, i))
  BY <1>0 DEF LacksEdge, Adds
<1> HIDE DEF Tr2
<1>7. Marked(q, <<>>, No, Tr2) /\ Told(q, <<>>, {}, No, Append(Ed, i), Tr2, short)
  BY <1>1, <1>6 DEF Marked, Told
<1> QED
  BY <1>4, <1>5, <1>7 DEF Shown, Tr2

LEMMA ShownReach ==
  ASSUME NEW q, NEW Qu, NEW So, NEW Re, NEW No, NEW Ed, NEW Tr, NEW short,
         Walked(q, Qu, So, Re, No, Ed, Tr), Shown(q, Qu, So, Re, No, Ed, Tr, short),
         q.kind = "flow", q.max_depth \in Nat, NEW i \in Re, Dest(q, i) \notin DOMAIN No,
         NEW r, r = Append(So, Dest(q, i)),
         NEW No2, No2 = [n \in DOMAIN No \cup {Dest(q, i)} |-> IF n = Dest(q, i) THEN r ELSE No[n]]
  PROVE  Shown(q, Append(Qu, r), So, Re \ {i}, No2, Append(Ed, i), Tr, short)
<1>0. Adds(q, So, No, Ed, i)
  BY EdgeAdded
<1>1. /\ EdgesOK(q, Qu, So, Re, No, Ed) /\ Marked(q, Qu, No, Tr) /\ Told(q, Qu, Re, No, Ed, Tr, short)
      /\ NodesOK(q, No) /\ QueueOK(q, Qu, No)
  BY DEF Shown, Walked
<1>2. End(r) = Dest(q, i)
  <2>1. IsSeq(So)
    BY DEF Walked, SourceOK, Route
  <2>2. \A v : Len(Append(So, v)) = Len(So) + 1 /\ Append(So, v)[Len(So) + 1] = v
    BY ONLY <2>1, SeqAppend
  <2> QED
    BY <2>2 DEF End
<1>3. /\ DOMAIN No2 = DOMAIN No \cup {Dest(q, i)} /\ No2[Dest(q, i)] = r
      /\ \A n \in DOMAIN No : No2[n] = No[n]
  OBVIOUS
<1>4. /\ Len(Qu) \in Nat /\ DOMAIN Qu = 1 .. Len(Qu) /\ DOMAIN Append(Qu, r) = 1 .. Len(Qu) + 1
      /\ \A k \in 1 .. Len(Qu) : Append(Qu, r)[k] = Qu[k]
      /\ Append(Qu, r)[Len(Qu) + 1] = r
      /\ Range(Append(Qu, r)) = Range(Qu) \cup {r}
  <2>1. IsSeq(Qu)
    BY <1>1 DEF QueueOK
  <2> QED
    BY ONLY <2>1, SeqAppend
<1>5. /\ \A p \in Range(Qu) : End(p) \in DOMAIN No /\ p # r
      /\ End(So) \in DOMAIN No /\ So # r
  <2>1. \A p \in Range(Qu) : End(p) \in DOMAIN No
    BY <1>1, FoundInFlow DEF QueueOK
  <2>2. End(So) \in DOMAIN No
    BY <1>0 DEF Adds
  <2> QED
    BY ONLY <2>1, <2>2, <1>2, Dest(q, i) \notin DOMAIN No
<1>6. EdgesOK(q, Qu, So, Re \ {i}, No, Append(Ed, i))
  BY EdgeAdded
<1>7. EdgesOK(q, Append(Qu, r), So, Re \ {i}, No2, Append(Ed, i))
  <2>1. \A p \in Range(Append(Qu, r)) : \A j \in Out(q, End(p)) : j \notin Range(Append(Ed, i))
    <3>1. \A j \in Out(q, End(r)) : Origin(q, j) = Dest(q, i)
      BY <1>2 DEF Out
    <3>2. \A j \in Range(Append(Ed, i)) : Origin(q, j) \in DOMAIN No
      BY <1>6 DEF EdgesOK
    <3>3. \A p \in Range(Qu) : \A j \in Out(q, End(p)) : j \notin Range(Append(Ed, i))
      BY <1>6 DEF EdgesOK
    <3>4. \A j \in Out(q, End(r)) : j \notin Range(Append(Ed, i))
      BY ONLY <3>1, <3>2, Dest(q, i) \notin DOMAIN No
    <3> QED
      BY ONLY <1>4, <3>3, <3>4
  <2>2. \A k, j \in DOMAIN Append(Qu, r) : Append(Qu, r)[k] = Append(Qu, r)[j] => k = j
    <3>1. \A k \in 1 .. Len(Qu) + 1 : k = Len(Qu) + 1 \/ (k \in 1 .. Len(Qu) /\ Qu[k] \in Range(Qu))
      BY ONLY <1>4 DEF Range
    <3>2. \A k \in 1 .. Len(Qu) : k # Len(Qu) + 1
      BY <1>4
    <3>3. \A k, j \in 1 .. Len(Qu) : Qu[k] = Qu[j] => k = j
      BY <1>1, <1>4 DEF EdgesOK
    <3> QED
      BY ONLY <1>4, <1>5, <3>1, <3>2, <3>3
  <2>3. So \notin Range(Append(Qu, r))
    BY <1>1, <1>4, <1>5 DEF EdgesOK
  <2>4. \A j \in Range(Append(Ed, i)) :
          j \in Ways(q) /\ Origin(q, j) \in DOMAIN No2 /\ Deep(No2[Origin(q, j)]) < q.max_depth
    BY <1>3, <1>6 DEF EdgesOK
  <2> QED
    BY <1>6, <2>1, <2>2, <2>3, <2>4 DEF EdgesOK
<1>8. Dangling(q, Append(Qu, r), Re \ {i}, No2, Append(Ed, i), Tr)
  <2>1. \A k \in 1 .. Len(Ed) + 1 : k # Len(Ed) + 1 => k \in 1 .. Len(Ed)
    BY EdgeAdded
  <2> QED
    BY <1>0, <1>3, <2>1 DEF Dangling, Adds
<1>9. Marked(q, Append(Qu, r), No2, Tr)
  BY <1>1, <1>3, <1>4 DEF Marked
<1>10. Told(q, Append(Qu, r), Re \ {i}, No2, Append(Ed, i), Tr, short)
  <2>1. LacksDeep(q, No) => LacksDeep(q, No2)
    BY <1>3 DEF LacksDeep
  <2> QED
    BY <1>1, <2>1 DEF Told
<1> QED
  BY <1>7, <1>8, <1>9, <1>10 DEF Shown

-----------------------------------------------------------------------------
(* The steps of a walk. *)
AskOK == \E family \in Questions : query \in family

LEMMA QuestionFacts ==
  ASSUME AskOK
  PROVE  /\ query.kind \in {"flow", "impact", "calls", "trace"} /\ query.max_depth \in Nat
         /\ query.dependencies \in Seq(Range(query.dependencies))
         /\ query.kind = "flow" => /\ query.max_nodes \in Nat \ {0} /\ query.max_edges \in Nat \ {0}
                                   /\ query.resources \in Nat
BY QuestionsAssumption DEF AskOK

LEMMA InOtherWords ==
  /\ Q!Considered = Ways(query) /\ Q!Least = Low(query)
  /\ \A i : Q!From(i) = Origin(query, i) /\ Q!To(i) = Dest(query, i)
  /\ \A n : Q!Leaving(n) = Out(query, n)
  /\ \A p : Q!End(p) = End(p) /\ Q!Depth(p) = Deep(p)
<1>1. Q!Considered = Ways(query)
  BY DEF Q!Considered, Q!Dependency, Ways
<1>2. \A i : Q!From(i) = Origin(query, i) /\ Q!To(i) = Dest(query, i)
  BY DEF Q!From, Q!To, Q!Reversed, Q!Dependency, Origin, Dest
<1>3. \A n : Q!Leaving(n) = Out(query, n)
  BY <1>1, <1>2 DEF Q!Leaving, Out
<1>4. \A p : Q!End(p) = End(p) /\ Q!Depth(p) = Deep(p)
  BY DEF Q!End, Q!Depth, End, Deep
<1>5. Q!Least = Low(query)
  BY DEF Q!Least, Low
<1> QED
  BY <1>1, <1>2, <1>3, <1>4, <1>5

Counted(q, No, Ed, res, refs) ==
    /\ IsFiniteSet(DOMAIN No) /\ Cardinality(DOMAIN No) \in Nat /\ IsSeq(Ed) /\ refs \subseteq DOMAIN Ed
    /\ q.kind = "flow" => /\ res \in Nat /\ Cardinality(DOMAIN No) + res <= q.max_nodes
                          /\ Len(Ed) <= q.max_edges
TooFew == answered /\ resources # query.resources
WalkOK ==
    /\ stack = <<>> /\ chain = <<>>
    /\ Walked(query, queue, source, rest, nodes, edges, truncation)
    /\ Counted(query, nodes, edges, resources, references)
    /\ answered \in BOOLEAN /\ (answered => queue = <<>> /\ rest = {})
    /\ query.kind = "flow" =>
         /\ Shown(query, queue, source, rest, nodes, edges, truncation, TooFew)
         /\ ~ answered => resources = 0
         /\ answered /\ truncation = Q!Whole => resources = query.resources

LEMMA DequeueStep ==
  ASSUME AskOK, WalkOK, Q!Dequeue, UNCHANGED <<query, stack, chain, answered>>
  PROVE  WalkOK'
<1>1. /\ rest = {} /\ queue # <<>> /\ Deep(Head(queue)) < query.max_depth
      /\ queue' = Tail(queue) /\ source' = Head(queue) /\ rest' = Out(query, End(Head(queue)))
      /\ UNCHANGED <<nodes, edges, references, resources, truncation>>
  BY InOtherWords DEF Q!Dequeue
<1>2. query.max_depth \in Nat
  BY QuestionFacts
<1>3. Walked(query, queue, source, {}, nodes, edges, truncation)
  BY <1>1 DEF WalkOK
<1>4. Walked(query, Tail(queue), Head(queue), Out(query, End(Head(queue))), nodes, edges, truncation)
  BY <1>1, <1>2, <1>3, WalkDequeue
<1>5. ~ answered /\ TooFew' = TooFew
  BY <1>1 DEF WalkOK, TooFew
<1>6. query.kind = "flow" =>
        Shown(query, Tail(queue), Head(queue), Out(query, End(Head(queue))), nodes, edges, truncation, TooFew)
  <2>1. query.kind = "flow" => Shown(query, queue, source, {}, nodes, edges, truncation, TooFew)
    BY <1>1 DEF WalkOK
  <2> QED
    BY <1>1, <1>2, <1>3, <2>1, ShownDequeue
<1> QED
  BY <1>1, <1>4, <1>5, <1>6 DEF WalkOK

LEMMA CutOffStep ==
  ASSUME AskOK, WalkOK, Q!CutOff, UNCHANGED <<query, stack, chain, answered>>
  PROVE  WalkOK'
<1>1. /\ rest = {} /\ queue # <<>> /\ Deep(Head(queue)) >= query.max_depth
      /\ queue' = Tail(queue) /\ truncation' = Q!Mark(End(Head(queue)))
      /\ UNCHANGED <<source, rest, nodes, edges, references, resources>>
  BY InOtherWords DEF Q!CutOff
<1>2. query.max_depth \in Nat
  BY QuestionFacts
<1>3. Walked(query, queue, source, {}, nodes, edges, truncation)
  BY <1>1 DEF WalkOK
<1>4. ~ Stopped(query, truncation)
  BY <1>1, <1>3 DEF Walked
<1>5. /\ query.kind = "flow" => truncation' = IF Out(query, End(Head(queue))) # {}
                                              THEN Q!Truncated("max_depth", End(Head(queue))) ELSE truncation
      /\ query.kind # "flow" => truncation' = truncation
  BY <1>1, InOtherWords DEF Q!Mark
<1>6. ~ Stopped(query, truncation')
  BY <1>4, <1>5 DEF Stopped, Q!Truncated
<1>7. Walked(query, Tail(queue), source, {}, nodes, edges, truncation')
  BY <1>1, <1>3, <1>6, WalkCutOff
<1>8. ~ answered /\ TooFew' = TooFew
  BY <1>1 DEF WalkOK, TooFew
<1>9. query.kind = "flow" => Shown(query, Tail(queue), source, {}, nodes, edges, truncation', TooFew)
  <2>1. query.kind = "flow" => Shown(query, queue, source, {}, nodes, edges, truncation, TooFew)
    BY <1>1 DEF WalkOK
  <2> QED
    BY <1>1, <1>2, <1>3, <1>5, <2>1, ShownCutOff
<1> QED
  BY <1>1, <1>7, <1>8, <1>9 DEF WalkOK

LEMMA EdgeLimitStep ==
  ASSUME AskOK, WalkOK, Q!EdgeLimit, UNCHANGED <<query, stack, chain, answered>>
  PROVE  WalkOK'
<1>1. /\ rest # {} /\ query.kind = "flow" /\ queue' = <<>> /\ rest' = {}
      /\ truncation' = Q!Truncated("max_edges", End(source))
      /\ UNCHANGED <<source, nodes, edges, references, resources>>
  BY InOtherWords DEF Q!EdgeLimit, Q!EdgesAreFull, Q!Stop
<1>2. query.max_depth \in Nat
  BY QuestionFacts
<1>3. Walked(query, queue, source, rest, nodes, edges, truncation)
  BY DEF WalkOK
<1>4. Stopped(query, truncation')
  BY <1>1 DEF Stopped, Q!Truncated
<1>5. Walked(query, <<>>, source, {}, nodes, edges, truncation')
  BY <1>3, <1>4, WalkStop
<1>6. ~ answered /\ TooFew' = TooFew
  BY <1>1 DEF WalkOK, TooFew
<1>7. Shown(query, <<>>, source, {}, nodes, edges, truncation', TooFew)
  <2>1. Shown(query, queue, source, rest, nodes, edges, truncation, TooFew)
    BY <1>1 DEF WalkOK
  <2> QED
    BY <1>1, <1>2, <1>3, <2>1, ShownEdgeLimit
<1> QED
  BY <1>1, <1>5, <1>6, <1>7 DEF WalkOK

(* An edge is shown.                                                       *)
LEMMA ShowStep ==
  ASSUME AskOK, WalkOK, Q!Show, UNCHANGED <<query, stack, chain, answered>>
  PROVE  WalkOK'
<1>1. PICK i \in rest : /\ edges' = Append(edges, i)
                        /\ Q!Revisit(i) \/ Q!NodeLimit(i) \/ Q!Reach(i)
  BY DEF Q!Show, Q!First
<1>2. ~ Q!EdgesAreFull /\ UNCHANGED <<source, resources>> /\ query.max_depth \in Nat
  BY QuestionFacts DEF Q!Show
<1>3. /\ Walked(query, queue, source, rest, nodes, edges, truncation)
      /\ Counted(query, nodes, edges, resources, references)
      /\ query.kind = "flow" => Shown(query, queue, source, rest, nodes, edges, truncation, TooFew)
  BY DEF WalkOK
<1>4. ~ answered /\ TooFew' = TooFew
  BY <1>2 DEF WalkOK, TooFew
<1>5. /\ IsSeq(edges') /\ Range(edges') = Range(edges) \cup {i} /\ Len(edges') = Len(edges) + 1
      /\ Len(edges) \in Nat /\ DOMAIN edges = 1 .. Len(edges) /\ DOMAIN edges' = 1 .. Len(edges) + 1
  <2>1. IsSeq(edges)
    BY <1>3 DEF Counted
  <2> QED
    BY <1>1, <2>1, SeqAppend
<1>6. query.kind = "flow" => query.max_edges \in Nat /\ query.max_nodes \in Nat /\ Len(edges') <= query.max_edges
  BY <1>2, <1>5, QuestionFacts DEF Q!EdgesAreFull
<1>7. DOMAIN edges \subseteq DOMAIN edges' /\ Len(edges) + 1 \in DOMAIN edges'
  BY <1>5
<1>8. CASE Q!Revisit(i)
  <2>1. /\ Dest(query, i) \in DOMAIN nodes /\ references' = references \cup {Len(edges) + 1}
        /\ rest' = rest \ {i} /\ UNCHANGED <<queue, nodes, truncation>>
    BY <1>8, InOtherWords DEF Q!Revisit
  <2>2. Walked(query, queue, source, rest \ {i}, nodes, edges', truncation)
    BY <1>3, <1>5, <2>1, WalkRevisit
  <2>3. query.kind = "flow" => Shown(query, queue, source, rest \ {i}, nodes, edges', truncation, TooFew)
    BY <1>1, <1>2, <1>3, <2>1, ShownRevisit
  <2>4. Counted(query, nodes, edges', resources, references')
    BY <1>3, <1>5, <1>6, <1>7, <2>1 DEF Counted
  <2> QED
    BY <1>2, <1>4, <2>1, <2>2, <2>3, <2>4 DEF WalkOK
<1>9. CASE Q!NodeLimit(i)
  <2>1. /\ Dest(query, i) \notin DOMAIN nodes /\ query.kind = "flow" /\ queue' = <<>> /\ rest' = {}
        /\ truncation' = Q!Truncated("max_nodes", Dest(query, i)) /\ UNCHANGED <<nodes, references>>
    BY <1>9, InOtherWords DEF Q!NodeLimit, Q!NodesAreFull, Q!Stop
  <2>2. Stopped(query, truncation')
    BY <2>1 DEF Stopped, Q!Truncated
  <2>3. Walked(query, <<>>, source, {}, nodes, edges', truncation')
    BY <1>3, <2>2, WalkStop
  <2>4. Shown(query, <<>>, source, {}, nodes, edges', truncation', TooFew)
    BY <1>1, <1>2, <1>3, <2>1, ShownNodeLimit
  <2>5. Counted(query, nodes, edges', resources, references')
    BY <1>3, <1>5, <1>6, <1>7, <2>1 DEF Counted
  <2> QED
    BY <1>2, <1>4, <2>1, <2>3, <2>4, <2>5 DEF WalkOK
<1>10. CASE Q!Reach(i)
  <2> DEFINE d == Dest(query, i)
             r == Append(source, d)
  <2>1. /\ d \notin DOMAIN nodes /\ ~ Q!NodesAreFull /\ rest' = rest \ {i}
        /\ queue' = Append(queue, r) /\ UNCHANGED <<references, truncation>>
        /\ nodes' = [n \in DOMAIN nodes \cup {d} |-> IF n = d THEN Append(source, n) ELSE nodes[n]]
    BY <1>10, InOtherWords DEF Q!Reach, Q!Enqueued
  <2>2. nodes' = [n \in DOMAIN nodes \cup {d} |-> IF n = d THEN r ELSE nodes[n]]
    BY <2>1
  <2>3. Walked(query, Append(queue, r), source, rest \ {i}, nodes', edges', truncation)
    <3>1. /\ Range(edges') = Range(edges) \cup {i} /\ query.max_depth \in Nat
          /\ Walked(query, queue, source, rest, nodes, edges, truncation)
          /\ Dest(query, i) \notin DOMAIN nodes
      BY <1>2, <1>3, <1>5, <2>1
    <3>2. Reached(query, source, nodes, edges, i, r, nodes', edges')
      BY <2>2, <3>1 DEF Reached
    <3> QED
      BY <3>1, <3>2, WalkReach
  <2>4. query.kind = "flow" =>
          Shown(query, Append(queue, r), source, rest \ {i}, nodes', edges', truncation, TooFew)
    BY <1>1, <1>2, <1>3, <2>1, <2>2, ShownReach
  <2>5. /\ IsFiniteSet(DOMAIN nodes') /\ Cardinality(DOMAIN nodes') = Cardinality(DOMAIN nodes) + 1
        /\ Cardinality(DOMAIN nodes) \in Nat
    <3>1. DOMAIN nodes' = DOMAIN nodes \cup {d} /\ IsFiniteSet(DOMAIN nodes)
      BY <1>3, <2>2 DEF Counted
    <3> HIDE DEF d
    <3> QED
      BY <2>1, <3>1, FS_AddElement, FS_CardinalityType
  <2>6. query.kind = "flow" => Cardinality(DOMAIN nodes) < query.max_nodes
    <3>1. Q!Cardinality(DOMAIN nodes) = Cardinality(DOMAIN nodes)
      BY DEF Q!Cardinality, Cardinality
    <3> QED
      BY <1>6, <2>1, <2>5, <3>1 DEF Q!NodesAreFull
  <2>7. query.kind = "flow" => resources = 0
    BY <1>4 DEF WalkOK
  <2>8. Counted(query, nodes', edges', resources, references')
    BY <1>3, <1>5, <1>6, <1>7, <2>1, <2>5, <2>6, <2>7 DEF Counted
  <2> HIDE DEF r, d
  <2> QED
    BY <1>2, <1>4, <2>1, <2>3, <2>4, <2>8 DEF WalkOK
<1> QED
  BY <1>1, <1>8, <1>9, <1>10

LEMMA FinishStep ==
  ASSUME AskOK, WalkOK, Q!Finish, query.kind # "trace"
  PROVE  WalkOK'
<1>1. /\ queue = <<>> /\ rest = {} /\ answered' = TRUE /\ ~ answered
      /\ UNCHANGED <<query, queue, source, rest, nodes, edges, references, stack, chain>>
  BY DEF Q!Finish, Q!tracing
<1> DEFINE room == IF query.max_nodes > Cardinality(DOMAIN nodes)
                   THEN query.max_nodes - Cardinality(DOMAIN nodes) ELSE 0
<1>2. /\ resources' = IF query.resources > room THEN room ELSE query.resources
      /\ truncation' = IF query.resources > room /\ truncation = Q!Whole
                       THEN Q!Truncated("max_nodes", query.root) ELSE truncation
  <2>1. Q!Cardinality(DOMAIN nodes) = Cardinality(DOMAIN nodes)
    BY DEF Q!Cardinality, Cardinality
  <2> QED
    BY <2>1 DEF Q!Finish
<1>3. /\ Walked(query, queue, source, rest, nodes, edges, truncation)
      /\ Counted(query, nodes, edges, resources, references)
      /\ query.kind = "flow" => Shown(query, queue, source, rest, nodes, edges, truncation, TooFew)
  BY DEF WalkOK
<1>4. Stopped(query, truncation) => truncation # Q!Whole
  BY DEF Stopped, Q!Whole
<1>5. Walked(query, queue, source, rest, nodes, edges, truncation')
  BY <1>1, <1>2, <1>3, <1>4 DEF Walked
<1>6. CASE query.kind # "flow"
  BY <1>1, <1>3, <1>5, <1>6 DEF WalkOK, Counted
<1>7. CASE query.kind = "flow"
  <2>1. /\ query.max_nodes \in Nat /\ query.resources \in Nat /\ Cardinality(DOMAIN nodes) \in Nat
        /\ resources = 0 /\ Cardinality(DOMAIN nodes) <= query.max_nodes
    BY <1>1, <1>3, <1>7, QuestionFacts DEF Counted, WalkOK
  <2>2. room \in Nat /\ Cardinality(DOMAIN nodes) + room <= query.max_nodes
    BY <2>1
  <2> HIDE DEF room
  <2>3. /\ resources' \in Nat /\ resources' <= room
        /\ query.resources > room => resources' # query.resources
        /\ ~ (query.resources > room) => resources' = query.resources
    BY <1>2, <2>1, <2>2
  <2>4. Counted(query, nodes, edges, resources', references)
    BY <1>3, <2>1, <2>2, <2>3 DEF Counted
  <2>5. Q!Truncated("max_nodes", query.root) # Q!Whole
    BY DEF Q!Truncated, Q!Whole
  <2>6. answered' /\ truncation' = Q!Whole => resources' = query.resources
    BY <1>2, <2>3, <2>5
  <2>7. /\ EdgesOK(query, queue, source, rest, nodes, edges)
        /\ Dangling(query, queue, rest, nodes, edges, truncation)
        /\ Marked(query, queue, nodes, truncation)
        /\ Told(query, queue, rest, nodes, edges, truncation, TooFew)
    BY <1>3, <1>7 DEF Shown
  <2>8. Dangling(query, queue, rest, nodes, edges, truncation')
    <3>1. \A n : Q!Truncated("max_nodes", n) # Q!Whole
      BY DEF Q!Truncated, Q!Whole
    <3>2. truncation # Q!Whole => truncation' = truncation
      BY <1>2
    <3> QED
      BY <2>7, <3>1, <3>2 DEF Dangling
  <2>9. Marked(query, queue, nodes, truncation')
    BY <1>2, <2>5, <2>7 DEF Marked
  <2>10. Told(query, queue, rest, nodes, edges, truncation', TooFew')
    <3>1. ~ TooFew
      BY <1>1 DEF TooFew
    <3>2. query.resources > room => TooFew'
      BY <1>1, <2>3 DEF TooFew
    <3> QED
      BY <1>2, <2>7, <3>1, <3>2 DEF Told
  <2>11. Shown(query, queue, source, rest, nodes, edges, truncation', TooFew')
    BY <2>7, <2>8, <2>9, <2>10 DEF Shown
  <2> QED
    BY <1>1, <1>5, <1>7, <2>4, <2>6, <2>11 DEF WalkOK
<1> QED
  BY <1>6, <1>7

LEMMA WalkInit ==
  ASSUME AskOK, Q!Start(query), query.kind # "trace"
  PROVE  WalkOK
<1> DEFINE p == <<query.root>>
<1>1. /\ queue = <<p>> /\ source = <<>> /\ rest = {} /\ edges = <<>> /\ references = {} /\ resources = 0
      /\ truncation = Q!Whole /\ answered = FALSE /\ stack = <<>> /\ chain = <<>>
      /\ query.kind \in {"flow", "calls"} => nodes = [n \in {query.root} |-> p]
      /\ query.kind \notin {"flow", "calls"} => nodes = <<>>
  BY DEF Q!Start
<1>2. /\ query.max_depth \in Nat /\ query.kind \in {"flow", "impact", "calls"}
      /\ query.kind = "flow" => query.max_nodes \in Nat \ {0} /\ query.max_edges \in Nat \ {0}
  BY QuestionFacts
<1>3. Route(query, p) /\ End(p) = query.root /\ Deep(p) = 0
  BY <1>2, RootRoute
<1> HIDE DEF p
<1>4. /\ queue \in Seq({p}) /\ DOMAIN queue = {1} /\ queue[1] = p
  BY <1>1
<1>5. IsSeq(queue) /\ Range(queue) = {p}
  BY <1>4 DEF IsSeq, Range
<1>6. /\ DOMAIN nodes = IF query.kind \in {"flow", "calls"} THEN {query.root} ELSE {}
      /\ query.kind \in {"flow", "calls"} => nodes[query.root] = p
  BY <1>1
<1>7. NodesOK(query, nodes)
  BY <1>2, <1>3, <1>6 DEF NodesOK, Low, p
<1>8. QueueOK(query, queue, nodes)
  BY <1>3, <1>5 DEF QueueOK, Found, p
<1>9. SourceOK(query, source, rest, nodes)
  BY <1>1 DEF SourceOK
<1>10. Deep(source) = -1
  BY <1>1 DEF Deep
<1>11. Ordered(queue, source)
  BY <1>3, <1>4, <1>10 DEF Ordered
<1>12. Levels(query, source, nodes)
  BY <1>10, LowIs DEF Levels
<1>13. Expanding(query, queue, source, rest, nodes, edges)
  BY <1>5, <1>6 DEF Expanding, Pending, p
<1>14. ~ Stopped(query, truncation)
  BY <1>1 DEF Stopped, Q!Whole
<1>15. Walked(query, queue, source, rest, nodes, edges, truncation)
  BY <1>7, <1>8, <1>9, <1>11, <1>12, <1>13, <1>14 DEF Walked
<1>16. IsSeq(edges) /\ Range(edges) = {} /\ DOMAIN edges = {} /\ Len(edges) = 0
  BY <1>1 DEF IsSeq, Range
<1>17. Counted(query, nodes, edges, resources, references)
  <2>1. IsFiniteSet(DOMAIN nodes) /\ Cardinality(DOMAIN nodes) \in {0, 1}
    <3>1. CASE DOMAIN nodes = {}
      <4>1. IsFiniteSet({}) /\ Cardinality({}) = 0
        BY FS_EmptySet
      <4> QED
        BY <3>1, <4>1
    <3>2. CASE DOMAIN nodes = {query.root}
      <4>1. \A x : IsFiniteSet({x}) /\ Cardinality({x}) = 1
        BY FS_Singleton
      <4> QED
        BY <3>2, <4>1
    <3> QED
      BY <1>6, <3>1, <3>2
  <2> QED
    BY <1>1, <1>2, <1>16, <2>1 DEF Counted
<1>18. query.kind = "flow" => Shown(query, queue, source, rest, nodes, edges, truncation, TooFew)
  <2> SUFFICES ASSUME query.kind = "flow"
               PROVE  Shown(query, queue, source, rest, nodes, edges, truncation, TooFew)
    OBVIOUS
  <2>1. source # p
    BY <1>1, <1>3 DEF Route
  <2>2. EdgesOK(query, queue, source, rest, nodes, edges)
    BY <1>1, <1>4, <1>5, <1>16, <2>1 DEF EdgesOK
  <2>3. Dangling(query, queue, rest, nodes, edges, truncation)
    BY <1>16 DEF Dangling
  <2>4. Marked(query, queue, nodes, truncation)
    BY <1>5, <1>6 DEF Marked
  <2>5. Told(query, queue, rest, nodes, edges, truncation, TooFew)
    BY <1>1 DEF Told
  <2> QED
    BY <2>2, <2>3, <2>4, <2>5 DEF Shown
<1> QED
  BY <1>1, <1>15, <1>17, <1>18 DEF WalkOK

-----------------------------------------------------------------------------
(* The trace.  Each call in progress but the first was entered by an edge  *)
(* of the chain.                                                           *)
Linked(q, Ch, i) ==
    /\ \A j \in 1 .. i - 1 : Q!TraceKey(Ch[j].edge) # Q!TraceKey(Ch[i].edge)
    /\ IF Ch[i].depth = 0 THEN Ch[i].edge.source = q.root
       ELSE \E j \in 1 .. i - 1 :
              /\ Ch[j].depth = Ch[i].depth - 1 /\ Ch[j].edge.target = Ch[i].edge.source
              /\ \/ None \in {Ch[i].edge.handler, Ch[j].edge.to}
                 \/ Ch[i].edge.handler = Ch[j].edge.to
IsFrame(f) == f = [at |-> f.at, handler |-> f.handler, next |-> f.next]
EnteredBy(Ch, f, k) ==
    \E j \in DOMAIN Ch : /\ Ch[j].depth = k - 2 /\ Ch[j].edge.target = f.at
                         /\ Ch[j].edge.to = f.handler
TraceOK(q, St, Ch) ==
    /\ IsSeq(St) /\ IsSeq(Ch)
    /\ \A k \in DOMAIN St : IsFrame(St[k]) /\ (IF k = 1 THEN St[k].at = q.root ELSE EnteredBy(Ch, St[k], k))
    /\ \A i \in DOMAIN Ch : Linked(q, Ch, i)

LEMMA FrontOf ==
  ASSUME NEW w, IsSeq(w), w # <<>>
  PROVE  /\ IsSeq(SubSeq(w, 1, Len(w) - 1)) /\ DOMAIN SubSeq(w, 1, Len(w) - 1) = 1 .. Len(w) - 1
         /\ \A i \in 1 .. Len(w) - 1 : SubSeq(w, 1, Len(w) - 1)[i] = w[i]
<1>1. Len(w) \in Nat \ {0} /\ DOMAIN w = 1 .. Len(w) /\ w \in Seq(Range(w))
  BY SeqTail DEF IsSeq
<1> DEFINE f == SubSeq(w, 1, Len(w) - 1)
<1>2. /\ f \in Seq(Range(w)) /\ Len(f) = Len(w) - 1 /\ DOMAIN f = 1 .. Len(w) - 1
      /\ \A i \in 1 .. Len(w) - 1 : f[i] = w[i]
  BY <1>1
<1> HIDE DEF f
<1>3. f \in [1 .. Len(w) - 1 -> Range(f)]
  <2>1. \A i \in 1 .. Len(w) - 1 : f[i] \in Range(f)
    BY <1>2 DEF Range
  <2>2. f \in [1 .. Len(f) -> Range(w)]
    BY <1>2, LenProperties
  <2> QED
    BY <1>2, <2>1, <2>2
<1>4. IsSeq(f)
  <2>1. Len(w) - 1 \in Nat
    BY <1>1
  <2>2. \A n \in Nat : \A g : g \in [1 .. n -> Range(f)] => g \in Seq(Range(f))
    BY SeqDef
  <2> QED
    BY <1>3, <2>1, <2>2 DEF IsSeq
<1>5. SubSeq(w, 1, Len(w) - 1) = f
  BY DEF f
<1> QED
  BY <1>2, <1>4, <1>5

LEMMA AdvancedIs ==
  ASSUME NEW q, TraceOK(q, stack, chain), stack # <<>>
  PROVE  /\ TraceOK(q, Q!Advanced, chain) /\ Len(Q!Advanced) = Len(stack)
         /\ \A k \in 1 .. Len(stack) : Q!Advanced[k].at = stack[k].at /\ Q!Advanced[k].handler = stack[k].handler
<1>1. IsSeq(stack) /\ Len(stack) \in Nat \ {0} /\ DOMAIN stack = 1 .. Len(stack)
  BY Lengths DEF TraceOK
<1> DEFINE g == [stack[Len(stack)] EXCEPT !.next = stack[Len(stack)].next + 1]
           a == [stack EXCEPT ![Len(stack)] = g]
<1>2. Q!Advanced = a
  BY DEF Q!Advanced
<1>3. IsFrame(stack[Len(stack)])
  BY <1>1 DEF TraceOK
<1>4. g = [at |-> stack[Len(stack)].at, handler |-> stack[Len(stack)].handler,
           next |-> stack[Len(stack)].next + 1]
  BY <1>3 DEF IsFrame
<1>5. IsFrame(g) /\ g.at = stack[Len(stack)].at /\ g.handler = stack[Len(stack)].handler
  BY <1>4 DEF IsFrame
<1> HIDE DEF g
<1>6. stack \in [1 .. Len(stack) -> Range(stack)]
  BY <1>1, LenProperties DEF IsSeq
<1>7. /\ DOMAIN a = 1 .. Len(stack) /\ a[Len(stack)] = g
      /\ \A k \in 1 .. Len(stack) : k # Len(stack) => a[k] = stack[k]
      /\ a = [k \in 1 .. Len(stack) |-> a[k]]
  <2>1. a = [k \in 1 .. Len(stack) |-> IF k = Len(stack) THEN g ELSE stack[k]]
    BY <1>1
  <2>2. Len(stack) \in 1 .. Len(stack)
    BY <1>1
  <2> HIDE DEF a
  <2> QED
    BY <2>1, <2>2
<1> HIDE DEF a
<1>8. IsSeq(a) /\ Len(a) = Len(stack)
  <2>1. a \in [1 .. Len(stack) -> Range(a)]
    <3>1. \A k \in 1 .. Len(stack) : a[k] \in Range(a)
      BY <1>7 DEF Range
    <3> QED
      BY <1>7, <3>1
  <2>2. \A n \in Nat : \A f : f \in [1 .. n -> Range(a)] => f \in Seq(Range(a))
    BY SeqDef
  <2>3. a \in Seq(Range(a))
    BY <1>1, <2>1, <2>2
  <2>4. Len(a) \in Nat /\ DOMAIN a = 1 .. Len(a)
    BY <2>3, LenProperties
  <2>5. Len(a) = Len(stack)
    BY <1>1, <1>7, <2>4
  <2> QED
    BY <2>3, <2>5 DEF IsSeq
<1>9. \A k \in 1 .. Len(stack) : IsFrame(a[k]) /\ a[k].at = stack[k].at /\ a[k].handler = stack[k].handler
  BY <1>1, <1>5, <1>7 DEF TraceOK
<1>10. TraceOK(q, a, chain)
  BY <1>1, <1>7, <1>8, <1>9 DEF TraceOK, EnteredBy
<1> QED
  BY <1>2, <1>8, <1>9, <1>10

LEMMA FrameAdded ==
  ASSUME NEW q, NEW St, NEW Ch, TraceOK(q, St, Ch), NEW f, IsFrame(f), St # <<>>,
         EnteredBy(Ch, f, Len(St) + 1)
  PROVE  TraceOK(q, Append(St, f), Ch)
<1>1. /\ IsSeq(St) /\ IsSeq(Append(St, f)) /\ Len(St) \in Nat \ {0} /\ DOMAIN St = 1 .. Len(St)
      /\ DOMAIN Append(St, f) = 1 .. Len(St) + 1
      /\ \A i \in 1 .. Len(St) : Append(St, f)[i] = St[i]
      /\ Append(St, f)[Len(St) + 1] = f
  <2>1. IsSeq(St)
    BY DEF TraceOK
  <2>2. Len(St) \in Nat \ {0}
    BY <2>1, Lengths
  <2> QED
    BY <2>1, <2>2, SeqAppend
<1>2. ASSUME NEW k \in 1 .. Len(St) + 1
      PROVE  /\ IsFrame(Append(St, f)[k])
             /\ IF k = 1 THEN Append(St, f)[k].at = q.root ELSE EnteredBy(Ch, Append(St, f)[k], k)
  <2>1. CASE k = Len(St) + 1
    BY <1>1, <2>1
  <2>2. CASE k # Len(St) + 1
    <3>1. k \in 1 .. Len(St)
      BY <1>1, <2>2
    <3> QED
      BY <1>1, <3>1 DEF TraceOK
  <2> QED
    BY <2>1, <2>2
<1> QED
  BY <1>1, <1>2 DEF TraceOK

LEMMA HopAdded ==
  ASSUME NEW q, NEW St, NEW Ch, TraceOK(q, St, Ch), NEW h,
         \A i \in DOMAIN Ch : Q!TraceKey(Ch[i].edge) # Q!TraceKey(h.edge),
         IF h.depth = 0 THEN h.edge.source = q.root
         ELSE \E j \in DOMAIN Ch :
                /\ Ch[j].depth = h.depth - 1 /\ Ch[j].edge.target = h.edge.source
                /\ None \in {h.edge.handler, Ch[j].edge.to} \/ h.edge.handler = Ch[j].edge.to
  PROVE  TraceOK(q, St, Append(Ch, h)) /\ Len(Ch) + 1 \in DOMAIN Append(Ch, h)
         /\ Append(Ch, h)[Len(Ch) + 1] = h
<1> DEFINE c == Append(Ch, h)
<1>1. /\ IsSeq(c) /\ Len(Ch) \in Nat /\ DOMAIN Ch = 1 .. Len(Ch) /\ DOMAIN c = 1 .. Len(Ch) + 1
      /\ \A i \in 1 .. Len(Ch) : c[i] = Ch[i]
      /\ c[Len(Ch) + 1] = h
  <2>1. IsSeq(Ch)
    BY DEF TraceOK
  <2> QED
    BY ONLY <2>1, SeqAppend
<1> HIDE DEF c
<1>2. ASSUME NEW i \in 1 .. Len(Ch) + 1
      PROVE  Linked(q, c, i)
  <2>1. CASE i = Len(Ch) + 1
    <3>1. 1 .. i - 1 = 1 .. Len(Ch)
      BY <1>1, <2>1
    <3>2. \A j \in 1 .. i - 1 : c[j] = Ch[j] /\ j \in DOMAIN Ch
      BY <1>1, <3>1
    <3>3. c[i] = h
      BY <1>1, <2>1
    <3> QED
      BY <1>1, <3>1, <3>2, <3>3 DEF Linked
  <2>2. CASE i # Len(Ch) + 1
    <3>1. i \in 1 .. Len(Ch) /\ \A j \in 1 .. i - 1 : j \in 1 .. Len(Ch)
      BY <1>1, <2>2
    <3>2. Linked(q, Ch, i)
      BY <1>1, <3>1 DEF TraceOK
    <3> QED
      BY <1>1, <3>1, <3>2 DEF Linked
  <2> QED
    BY <2>1, <2>2
<1>3. \A k \in DOMAIN St : EnteredBy(Ch, St[k], k) => EnteredBy(c, St[k], k)
  <2>1. \A j \in DOMAIN Ch : j \in DOMAIN c /\ c[j] = Ch[j]
    BY <1>1
  <2> QED
    BY <2>1 DEF EnteredBy
<1>4. TraceOK(q, St, c)
  BY <1>1, <1>2, <1>3 DEF TraceOK
<1> QED
  BY <1>1, <1>4 DEF c

LEMMA TraceStep ==
  ASSUME TraceOK(query, stack, chain), query' = query, Q!Return \/ Q!Skip \/ Q!Follow
  PROVE  TraceOK(query, stack', chain')
<1>1. CASE Q!Return
  <2>1. stack # <<>> /\ stack' = SubSeq(stack, 1, Len(stack) - 1) /\ chain' = chain
    BY <1>1 DEF Q!Return
  <2>2. IsSeq(stack) /\ Len(stack) \in Nat \ {0} /\ DOMAIN stack = 1 .. Len(stack)
    BY <2>1, Lengths DEF TraceOK
  <2>3. /\ IsSeq(stack') /\ DOMAIN stack' = 1 .. Len(stack) - 1
        /\ \A i \in 1 .. Len(stack) - 1 : stack'[i] = stack[i] /\ i \in DOMAIN stack
    BY <2>1, <2>2, FrontOf
  <2> QED
    BY <2>1, <2>3 DEF TraceOK
<1>2. CASE Q!Skip
  BY <1>2, AdvancedIs DEF Q!Skip
<1>3. CASE Q!Follow
  <2> DEFINE e == Q!Edge
             h == [edge |-> e, depth |-> Q!Hops]
             f == [at |-> e.target, handler |-> e.to, next |-> 1]
  <2>1. /\ stack # <<>> /\ Q!Follows(e) /\ chain' = Append(chain, h) /\ stack' = Append(Q!Advanced, f)
    BY <1>3 DEF Q!Follow
  <2>2. IsSeq(stack) /\ Len(stack) \in Nat \ {0} /\ DOMAIN stack = 1 .. Len(stack)
    BY <2>1, Lengths DEF TraceOK
  <2>3. /\ e.source = stack[Len(stack)].at /\ \A i \in DOMAIN chain : Q!TraceKey(chain[i].edge) # Q!TraceKey(e)
        /\ Q!Hops = Len(stack) - 1
        /\ Q!Hops # 0 => Q!Continues(e, stack[Len(stack)].handler)
    BY <2>1 DEF Q!Follows, Q!Frame, Q!Seen, Q!Hops
  <2>4. h.edge = e /\ h.depth = Len(stack) - 1 /\ f.at = e.target /\ f.handler = e.to /\ IsFrame(f)
    BY <2>3 DEF IsFrame
  <2> HIDE DEF h, f, e
  <2>5. IF h.depth = 0 THEN h.edge.source = query.root
        ELSE \E j \in DOMAIN chain :
               /\ chain[j].depth = h.depth - 1 /\ chain[j].edge.target = h.edge.source
               /\ None \in {h.edge.handler, chain[j].edge.to} \/ h.edge.handler = chain[j].edge.to
    <3>1. CASE h.depth = 0
      <4>1. Len(stack) = 1
        BY <2>2, <2>4, <3>1
      <4> QED
        BY <2>2, <2>3, <2>4, <3>1, <4>1 DEF TraceOK
    <3>2. CASE h.depth # 0
      <4>1. Len(stack) # 1 /\ Len(stack) \in DOMAIN stack
        BY <2>2, <2>4, <3>2
      <4>2. EnteredBy(chain, stack[Len(stack)], Len(stack))
        BY <4>1 DEF TraceOK
      <4>3. PICK j \in DOMAIN chain : /\ chain[j].depth = Len(stack) - 2
                                      /\ chain[j].edge.target = stack[Len(stack)].at
                                      /\ chain[j].edge.to = stack[Len(stack)].handler
        BY <4>2 DEF EnteredBy
      <4>4. Len(stack) - 2 = h.depth - 1
        BY <2>2, <2>4
      <4>5. None \in {e.handler, chain[j].edge.to} \/ e.handler = chain[j].edge.to
        BY <2>3, <2>4, <3>2, <4>3 DEF Q!Continues
      <4> QED
        BY <2>3, <2>4, <3>2, <4>3, <4>4, <4>5
    <3> QED
      BY <3>1, <3>2
  <2>6. TraceOK(query, Q!Advanced, chain) /\ Len(Q!Advanced) = Len(stack)
    BY <2>1, AdvancedIs
  <2>7. /\ TraceOK(query, Q!Advanced, chain') /\ Len(chain) + 1 \in DOMAIN chain'
        /\ chain'[Len(chain) + 1] = h
    <3>1. \A i \in DOMAIN chain : Q!TraceKey(chain[i].edge) # Q!TraceKey(h.edge)
      BY <2>3, <2>4
    <3>2. /\ TraceOK(query, Q!Advanced, Append(chain, h)) /\ Len(chain) + 1 \in DOMAIN Append(chain, h)
          /\ Append(chain, h)[Len(chain) + 1] = h
      BY ONLY <3>1, <2>5, <2>6, HopAdded
    <3> QED
      BY <2>1, <3>2
  <2>8. EnteredBy(chain', f, Len(Q!Advanced) + 1)
    <3>1. h.depth = (Len(Q!Advanced) + 1) - 2
      BY <2>2, <2>4, <2>6
    <3> QED
      BY <2>4, <2>7, <3>1 DEF EnteredBy
  <2>9. Q!Advanced # <<>>
    BY <2>2, <2>6
  <2> QED
    BY <2>1, <2>4, <2>7, <2>8, <2>9, FrameAdded
<1> QED
  BY <1>1, <1>2, <1>3

-----------------------------------------------------------------------------
Still == queue = <<>> /\ rest = {} /\ nodes = <<>> /\ edges = <<>> /\ references = {}
AskInv ==
    /\ AskOK
    /\ query.kind = "trace" => Still /\ TraceOK(query, stack, chain)
    /\ query.kind # "trace" => WalkOK

LEMMA AskInit ==
  ASSUME Q!Init
  PROVE  AskInv
<1>1. PICK family \in Questions : \E q \in family : Q!Start(q)
  BY DEF Q!Init
<1>2. PICK q \in family : Q!Start(q)
  BY <1>1
<1>3. query = q
  BY <1>2 DEF Q!Start
<1>4. AskOK /\ Q!Start(query)
  BY <1>2, <1>3 DEF AskOK
<1>5. CASE query.kind # "trace"
  BY <1>4, <1>5, WalkInit DEF AskInv
<1>6. CASE query.kind = "trace"
  <2> DEFINE f == [at |-> query.root, handler |-> None, next |-> 1]
  <2>1. /\ queue = <<>> /\ rest = {} /\ edges = <<>> /\ references = {} /\ nodes = <<>>
        /\ stack = <<f>> /\ chain = <<>>
    BY <1>4, <1>6 DEF Q!Start
  <2>2. IsFrame(f) /\ f.at = query.root
    BY DEF IsFrame
  <2> HIDE DEF f
  <2>3. stack \in Seq({f}) /\ DOMAIN stack = {1} /\ stack[1] = f
    BY <2>1
  <2>4. IsSeq(stack) /\ IsSeq(chain)
    BY <2>1, <2>3 DEF IsSeq, Range
  <2>5. TraceOK(query, stack, chain)
    BY <2>1, <2>2, <2>3, <2>4 DEF TraceOK
  <2> QED
    BY <1>4, <1>6, <2>1, <2>5 DEF AskInv, Still
<1> QED
  BY <1>5, <1>6

LEMMA AskStep ==
  ASSUME AskInv, Q!Next
  PROVE  AskInv'
<1>1. CASE Q!Walk
  <2>1. /\ Q!Dequeue \/ Q!CutOff \/ Q!EdgeLimit \/ Q!Show
        /\ UNCHANGED <<query, stack, chain, answered>>
    BY <1>1 DEF Q!Walk, Q!tracing
  <2>2. query.kind # "trace"
    <3> SUFFICES ASSUME queue = <<>>, rest = {}
                 PROVE  FALSE
      BY DEF AskInv, Still
    <3> QED
      BY <2>1 DEF Q!Dequeue, Q!CutOff, Q!EdgeLimit, Q!Show, Q!First
  <2>3. WalkOK'
    BY <2>1, <2>2, DequeueStep, CutOffStep, EdgeLimitStep, ShowStep DEF AskInv
  <2> QED
    BY <2>1, <2>2, <2>3 DEF AskInv, AskOK
<1>2. CASE Q!Finish
  <2>1. query.kind # "trace" /\ query' = query
    BY <1>2 DEF Q!Finish
  <2>2. WalkOK'
    BY <1>2, <2>1, FinishStep DEF AskInv
  <2> QED
    BY <2>1, <2>2 DEF AskInv, AskOK
<1>3. CASE Q!Trace
  <2>1. /\ Q!Return \/ Q!Skip \/ Q!Follow
        /\ UNCHANGED <<query, queue, rest, nodes, edges, references>>
    BY <1>3 DEF Q!Trace, Q!walking
  <2>2. stack # <<>>
    BY <2>1 DEF Q!Return, Q!Skip, Q!Follow
  <2>3. query.kind = "trace"
    BY <2>2 DEF AskInv, WalkOK
  <2>4. TraceOK(query, stack', chain')
    BY <2>1, <2>3, TraceStep DEF AskInv
  <2> QED
    BY <2>1, <2>3, <2>4 DEF AskInv, AskOK, Still
<1> QED
  BY <1>1, <1>2, <1>3 DEF Q!Next

LEMMA AskSame ==
  ASSUME AskInv, UNCHANGED asking
  PROVE  AskInv'
<1>1. /\ UNCHANGED <<query, queue, source, rest, nodes, edges, references, resources, truncation>>
      /\ UNCHANGED <<stack, chain, answered>>
  BY DEF asking
<1> QED
  BY <1>1 DEF AskInv, AskOK, Still, WalkOK, TooFew

(* Whoever is within the limit was found, once nothing is left to expand.  *)
LEMMA EveryoneIsFound ==
  ASSUME AskOK, WalkOK, query.kind \in {"impact", "calls"}, answered
  PROVE  \A d \in Low(query) .. query.max_depth : Lay(query)[d] \subseteq DOMAIN nodes
<1>1. /\ queue = <<>> /\ rest = {} /\ query.max_depth \in Nat
      /\ NodesOK(query, nodes) /\ Expanding(query, queue, source, {}, nodes, edges)
  BY QuestionFacts DEF WalkOK, Walked, Stopped
<1> DEFINE T == {d \in Low(query) .. query.max_depth : ~ (Lay(query)[d] \subseteq DOMAIN nodes)}
<1>2. SUFFICES ASSUME T # {}
               PROVE  FALSE
  OBVIOUS
<1>3. PICK m \in T : \A k \in T : m <= k
  <2>1. T \subseteq Nat
    BY <1>1, LowIs
  <2> HIDE DEF T
  <2> QED
    BY <1>2, <2>1, LeastNumber
<1>4. m \in Nat /\ m >= Low(query) /\ m <= query.max_depth
  BY <1>1, LowIs
<1>5. CASE m = 0
  <2>1. query.kind = "calls"
    BY <1>4, <1>5, LowIs
  <2>2. query.root \in DOMAIN nodes
    BY <1>1, <2>1 DEF NodesOK
  <2> QED
    BY <1>5, <2>2, Layers
<1>6. CASE m # 0
  <2>1. m - 1 \in Nat /\ m - 1 < query.max_depth /\ (m - 1) + 1 = m
    BY <1>1, <1>4, <1>6
  <2>2. m - 1 >= Low(query) => Lay(query)[m - 1] \subseteq DOMAIN nodes
    <3>1. m - 1 \notin T
      BY <1>3, <1>4, <2>1
    <3>2. m - 1 >= Low(query) => m - 1 \in Low(query) .. query.max_depth
      <4>1. Low(query) \in Int /\ query.max_depth \in Int
        BY <1>1, LowIs
      <4> QED
        BY ONLY <2>1, <4>1
    <3> QED
      BY <3>1, <3>2
  <2>3. \A p \in Range(queue) : Deep(p) > m - 1
    BY <1>1 DEF Range
  <2>4. Lay(query)[(m - 1) + 1] \subseteq DOMAIN nodes
    BY ONLY <1>1, <2>1, <2>2, <2>3, NextLevel
  <2> QED
    BY <2>1, <2>4
<1> QED
  BY <1>5, <1>6

LEMMA WalkIsWhole ==
  ASSUME AskOK, WalkOK, query.kind # "trace"
  PROVE  /\ Q!TypeOK /\ Q!PathsAreShortest /\ Q!WholeUnlessTruncated
         /\ Q!OneEdgeMayDangle /\ Q!NobodyIsMissed
<1>1. /\ Walked(query, queue, source, rest, nodes, edges, truncation)
      /\ Counted(query, nodes, edges, resources, references)
      /\ answered => queue = <<>> /\ rest = {}
      /\ query.kind = "flow" => /\ Shown(query, queue, source, rest, nodes, edges, truncation, TooFew)
                                /\ answered /\ truncation = Q!Whole => resources = query.resources
  BY DEF WalkOK
<1>2. /\ NodesOK(query, nodes) /\ QueueOK(query, queue, nodes)
      /\ ~ Stopped(query, truncation) => Expanding(query, queue, source, rest, nodes, edges)
  BY <1>1 DEF Walked
<1>3. query.max_depth \in Nat
  BY QuestionFacts
<1>4. {edges[k] : k \in DOMAIN edges} = Range(edges)
  BY DEF Range
<1>5. Q!TypeOK
  <2>1. \A i \in DOMAIN queue : queue[i] = <<query.root>> \/ queue[i] \in Range(nodes)
    <3> SUFFICES ASSUME NEW i \in DOMAIN queue
                 PROVE  queue[i] = <<query.root>> \/ queue[i] \in Range(nodes)
      OBVIOUS
    <3>1. Found(query, nodes, queue[i])
      BY <1>2 DEF QueueOK, Range
    <3> QED
      BY <3>1 DEF Found, Range
  <2>2. Q!Cardinality(DOMAIN nodes) = Cardinality(DOMAIN nodes)
    BY DEF Q!Cardinality, Cardinality
  <2> QED
    BY <1>1, <2>1, <2>2 DEF Q!TypeOK, Counted, Range
<1>6. Q!PathsAreShortest
  <2> SUFFICES ASSUME NEW n \in DOMAIN nodes
               PROVE  LET path == nodes[n] IN
                        /\ path[1] = query.root /\ Q!End(path) = n /\ Q!Depth(path) <= query.max_depth
                        /\ \A k \in 1 .. Q!Depth(path) :
                             \E i \in Q!Considered : Q!From(i) = path[k] /\ Q!To(i) = path[k + 1]
                        /\ \A d \in Q!Least .. Q!Depth(path) - 1 : n \notin Q!Layer[d]
    BY DEF Q!PathsAreShortest
  <2>1. Route(query, nodes[n]) /\ End(nodes[n]) = n
    BY <1>2 DEF NodesOK
  <2> QED
    BY <2>1, InOtherWords, LayerIs DEF Route
<1>7. Q!OneEdgeMayDangle
  <2> SUFFICES ASSUME query.kind = "flow", NEW k \in DOMAIN edges
               PROVE  /\ Origin(query, edges[k]) \in DOMAIN nodes
                      /\ \/ Dest(query, edges[k]) \in DOMAIN nodes
                         \/ k = Len(edges) /\ truncation = Q!Truncated("max_nodes", Dest(query, edges[k]))
    BY InOtherWords DEF Q!OneEdgeMayDangle
  <2>1. edges[k] \in Range(edges)
    BY DEF Range
  <2> QED
    BY <1>1, <2>1 DEF Shown, EdgesOK, Dangling
<1>8. Q!NobodyIsMissed
  <2> SUFFICES ASSUME answered, query.kind \in {"impact", "calls"}
               PROVE  DOMAIN nodes = UNION {Lay(query)[d] : d \in Low(query) .. query.max_depth}
    BY InOtherWords, LayerIs DEF Q!NobodyIsMissed
  <2>1. ASSUME NEW n \in DOMAIN nodes
        PROVE  \E d \in Low(query) .. query.max_depth : n \in Lay(query)[d]
    <3> DEFINE p == nodes[n]
    <3>1. Route(query, p) /\ End(p) = n /\ Deep(p) >= Low(query)
      BY <1>2 DEF NodesOK
    <3> HIDE DEF p
    <3>2. Deep(p) \in Nat
      BY <3>1, Lengths DEF Route
    <3>3. Deep(p) \in Low(query) .. query.max_depth
      BY <1>3, <3>1, <3>2, LowIs DEF Route
    <3> QED
      BY <3>1, <3>3 DEF Route
  <2>2. \A d \in Low(query) .. query.max_depth : Lay(query)[d] \subseteq DOMAIN nodes
    BY EveryoneIsFound
  <2> QED
    BY <2>1, <2>2
<1>9. Q!WholeUnlessTruncated
  <2> DEFINE left == {i \in Ways(query) : Origin(query, i) \in DOMAIN nodes}
             whole == left \subseteq Range(edges) /\ {Dest(query, i) : i \in left} \subseteq DOMAIN nodes
  <2> SUFFICES ASSUME answered, query.kind = "flow"
               PROVE  truncation = Q!Whole <=> whole /\ resources = query.resources
    <3>1. {i \in Q!Considered : Q!From(i) \in DOMAIN nodes} = left
      BY InOtherWords
    <3>2. {Q!To(i) : i \in left} = {Dest(query, i) : i \in left}
      BY InOtherWords
    <3> HIDE DEF left
    <3> QED
      BY <1>4, <3>1, <3>2 DEF Q!WholeUnlessTruncated
  <2>1. /\ queue = <<>> /\ rest = {}
        /\ EdgesOK(query, queue, source, rest, nodes, edges)
        /\ Marked(query, queue, nodes, truncation)
        /\ Told(query, queue, rest, nodes, edges, truncation, TooFew)
    BY <1>1 DEF Shown
  <2>2. ASSUME truncation = Q!Whole
        PROVE  whole /\ resources = query.resources
    <3>1. Expanding(query, queue, source, rest, nodes, edges)
      BY <1>2, <2>2 DEF Stopped, Q!Whole
    <3>2. Range(queue) = {}
      BY <2>1 DEF Range
    <3>3. ASSUME NEW i \in left
          PROVE  i \in Range(edges) /\ Dest(query, i) \in DOMAIN nodes
      <4> DEFINE n == Origin(query, i)
      <4>1. n \in DOMAIN nodes /\ i \in Out(query, n) /\ End(nodes[n]) = n
        BY <1>2 DEF Out, NodesOK
      <4>2. Pending(query, queue, source, rest, nodes, edges, nodes[n])
        BY <3>1, <4>1 DEF Expanding
      <4>3. Deep(nodes[n]) < query.max_depth
        BY <2>1, <2>2, <3>2, <4>1 DEF Marked
      <4>4. ~ (Deep(nodes[n]) >= query.max_depth)
        <5>1. Deep(nodes[n]) \in Nat
          BY <1>2, <4>1, Lengths DEF NodesOK, Route
        <5> HIDE DEF n
        <5> QED
          BY <1>3, <4>3, <5>1
      <4> HIDE DEF n
      <4> QED
        BY <2>1, <3>2, <4>1, <4>2, <4>4 DEF Pending
    <3> QED
      BY <1>1, <2>2, <3>3
  <2>3. ASSUME truncation # Q!Whole
        PROVE  ~ (whole /\ resources = query.resources)
    <3>1. CASE LacksDeep(query, nodes)
      <4>1. PICK i \in Ways(query) : /\ Origin(query, i) \in DOMAIN nodes
                                     /\ Deep(nodes[Origin(query, i)]) >= query.max_depth
        BY <3>1 DEF LacksDeep
      <4>2. Deep(nodes[Origin(query, i)]) \in Nat
        BY <1>2, <4>1, Lengths DEF NodesOK, Route
      <4>3. ~ (Deep(nodes[Origin(query, i)]) < query.max_depth)
        BY <1>3, <4>1, <4>2
      <4>4. i \notin Range(edges)
        BY <2>1, <4>3 DEF EdgesOK
      <4> QED
        BY <4>1, <4>4
    <3>2. CASE LacksEdge(query, nodes, edges)
      BY <3>2 DEF LacksEdge
    <3>3. CASE TooFew
      BY <3>3 DEF TooFew
    <3> QED
      BY <2>1, <2>3, <3>1, <3>2, <3>3 DEF Told
  <2> QED
    BY <2>2, <2>3
<1> QED
  BY <1>5, <1>6, <1>7, <1>8, <1>9

LEMMA AskIsWhole ==
  ASSUME AskInv
  PROVE  /\ Q!TypeOK /\ Q!PathsAreShortest /\ Q!WholeUnlessTruncated
         /\ Q!OneEdgeMayDangle /\ Q!NobodyIsMissed /\ Q!TraceIsConnected
<1>1. CASE query.kind = "trace"
  <2>1. /\ queue = <<>> /\ nodes = <<>> /\ references = {} /\ TraceOK(query, stack, chain)
        /\ DOMAIN queue = {} /\ DOMAIN nodes = {}
    BY <1>1 DEF AskInv, Still
  <2>2. Q!TypeOK
    BY <1>1, <2>1 DEF Q!TypeOK
  <2>3. Q!PathsAreShortest
    BY <2>1 DEF Q!PathsAreShortest
  <2>4. Q!WholeUnlessTruncated /\ Q!OneEdgeMayDangle /\ Q!NobodyIsMissed
    BY <1>1 DEF Q!WholeUnlessTruncated, Q!OneEdgeMayDangle, Q!NobodyIsMissed
  <2>5. Q!TraceIsConnected
    BY <2>1 DEF TraceOK, Linked, Q!TraceIsConnected
  <2> QED
    BY <2>2, <2>3, <2>4, <2>5
<1>2. CASE query.kind # "trace"
  <2>1. chain = <<>>
    BY <1>2 DEF AskInv, WalkOK
  <2>2. Q!TraceIsConnected
    BY <2>1 DEF Q!TraceIsConnected
  <2> QED
    BY <1>2, <2>2, WalkIsWhole DEF AskInv
<1> QED
  BY <1>1, <1>2

-----------------------------------------------------------------------------
WalksInv ==
    /\ focus = "asking" => AskInv
    /\ focus = "following" => FollowInv

LEMMA WalksInit == Init => WalksInv
BY AskInit, FollowInit DEF Init, WalksInv

LEMMA WalksStep ==
  WalksInv /\ [Next]_vars => WalksInv'
<1> SUFFICES ASSUME WalksInv, [Next]_vars
             PROVE  WalksInv'
  OBVIOUS
<1>1. focus' = focus
  BY DEF Next, vars
<1>2. CASE focus = "asking"
  <2>1. Q!Next \/ UNCHANGED asking
    BY <1>2 DEF Next, vars, walking
  <2> QED
    BY <1>1, <1>2, <2>1, AskStep, AskSame DEF WalksInv
<1>3. CASE focus = "following"
  <2>1. F!Next \/ UNCHANGED following
    BY <1>3 DEF Next, vars, walking
  <2> QED
    BY <1>1, <1>3, <2>1, FollowStep, FollowSame DEF WalksInv
<1> QED
  BY <1>1, <1>2, <1>3 DEF WalksInv

(* A walk finds all that its limits allow: impact and the calls of an      *)
(* endpoint reach whoever is within the depth and nobody else, by shortest *)
(* paths that are there; a flow shows every edge of the nodes that it      *)
(* shows, or says that it was cut short, and does so truly; a trace and a  *)
(* flow through channels are connected, and the latter closed; and what is *)
(* aligned is aligned one to one.  For any topology, with parallel edges   *)
(* and cycles, any limits, and any services and channels.                  *)
THEOREM WalksAreWholeHolds == Spec => []WalksAreWhole
<1>1. WalksInv => WalksAreWhole
  BY AskIsWhole, FlowIsWhole DEF WalksInv, WalksAreWhole
<1> QED
  BY <1>1, WalksInit, WalksStep, PTL DEF Spec

-----------------------------------------------------------------------------
LEMMA MinimalSet ==
  ASSUME NEW A, IsFiniteSet(A), NEW Fs \in SUBSET SUBSET A, Fs # {}
  PROVE  \E u \in Fs : \A w \in Fs : w \subseteq u => w = u
<1>1. IsWellFoundedOn(StrictSubsetOrdering(A), FiniteSubsetsOf(A))
  BY FS_StrictSubsetOrderingWellFounded
<1>2. Fs \subseteq FiniteSubsetsOf(A)
  <2> SUFFICES ASSUME NEW u \in Fs
               PROVE  u \in FiniteSubsetsOf(A)
    OBVIOUS
  <2>1. u \subseteq A /\ IsFiniteSet(u)
    BY FS_Subset
  <2> QED
    BY <2>1 DEF FiniteSubsetsOf
<1>3. PICK u \in Fs : \A w \in Fs : ~ (<<w, u>> \in StrictSubsetOrdering(A))
  BY <1>1, <1>2, WFMin
<1>4. \A w \in Fs : w \subseteq A
  OBVIOUS
<1> QED
  BY <1>3, <1>4 DEF StrictSubsetOrdering

-----------------------------------------------------------------------------
(* The matching of calls. *)

Seen == M!Observations(facts) \ todo
FactsOK == \E family \in ViewFacts : facts \in family

Shared(o, how) == {c \in M!Reached(o) : M!Both(o, c, how)}

(* What is so of the edge of a call to member m and its entries E.         *)
Identified(o, m, E) ==
    /\ m \in M!Available /\ M!WithAlias(o.call.authority) = {m}
    /\ M!External(o.kind, o.call.authority, o.call.method,
                         IF o.kind = "http" THEN o.call.path ELSE None) = {}
    /\ E # {} /\ E \subseteq facts.entries[m]

OfCall(d, Z) ==
    \E o \in Z : \E m, E :
       /\ o.kind # "message" /\ Identified(o, m, E)
       /\ d = [kind |-> o.kind, source |-> o.member, target |-> m, entries |-> E, of |-> {o}]
OfMessage(d, Z) ==
    \E o \in Z : \E c \in Shared(o, "broadcast") :
       /\ o.kind = "message"
       /\ d = [kind |-> "message", source |-> o.member, target |-> c.member, entries |-> {}, of |-> {o, c}]
Related(o, c) == \E kind : c = [kind |-> kind, of |-> o]
AreAlternatives(g, Z) ==
    \E o \in Z : /\ o.kind = "message" /\ Shared(o, "competing") # {}
                 /\ g = [of |-> o, consumers |-> Shared(o, "competing")]

EdgesSound == \A d \in dependencies : OfCall(d, Seen) \/ OfMessage(d, Seen)
OthersSound ==
    /\ \A c \in candidates \cup boundaries : \E o \in Seen : Related(o, c)
    /\ \A g \in alternatives : AreAlternatives(g, Seen)

EdgesOf(o) == {d \in dependencies : o \in d.of}
OthersOf(o) == {c \in candidates \cup boundaries \cup alternatives : c.of = o}
ToldOnce(o) ==
    \/ OthersOf(o) = {} /\ \E d : EdgesOf(o) = {d}
    \/ EdgesOf(o) = {} /\ \E c : OthersOf(o) = {c}
AllTold == \A o \in Seen : /\ EdgesOf(o) \cup OthersOf(o) # {}
                           /\ o.kind # "message" => ToldOnce(o)

MatchingInv ==
    /\ FactsOK /\ todo \subseteq M!Observations(facts)
    /\ \A o \in Seen, p \in todo : M!Before(o, p)
    /\ EdgesSound /\ OthersSound /\ AllTold /\ M!ProjectionsAreSupported

(* Observations and consumers *)
LEMMA ObservationIs ==
  ASSUME FactsOK, NEW o \in M!Observations(facts)
  PROVE  /\ o.member \in M!Available /\ o.member \in Range(ViewMembers)
         /\ o.kind \in {"http", "message", "grpc"} /\ o.kind = o.call.kind
         /\ o.kind = "http" => o.call.path = None \/ o.call.path \in Seq(Range(o.call.path))
         /\ "kind" \in DOMAIN o
<1>1. PICK m \in M!Available : \E i \in DOMAIN facts.calls[m] :
         o = [member |-> m, index |-> i, kind |-> facts.calls[m][i].kind, call |-> facts.calls[m][i]]
  BY DEF M!Observations, M!Available
<1>2. m \in Range(ViewMembers)
  BY DEF M!Available, M!Listed, Range
<1> QED
  BY <1>1, <1>2, FactsAssumption DEF FactsOK

LEMMA ConsumerIs ==
  ASSUME FactsOK, NEW o, NEW c \in M!Consumers(o)
  PROVE  /\ c.member \in M!Available /\ c.index \in Nat /\ "kind" \notin DOMAIN c
<1>1. PICK m \in M!Available : \E j \in DOMAIN facts.subscriptions[m] :
         c = [member |-> m, index |-> j, call |-> facts.subscriptions[m][j]]
  BY DEF M!Consumers
<1>5. PICK i \in DOMAIN facts.subscriptions[m] : c = [member |-> m, index |-> i, call |-> facts.subscriptions[m][i]]
  BY <1>1
<1>2. m \in Range(ViewMembers)
  BY DEF M!Available, M!Listed, Range
<1>3. facts.subscriptions[m] \in Seq(Range(facts.subscriptions[m]))
  BY <1>2, FactsAssumption DEF FactsOK
<1>4. i \in Nat
  BY <1>3
<1> QED
  BY <1>4, <1>5

LEMMA ConsumerIsNoObservation ==
  ASSUME FactsOK, NEW o, NEW how, NEW c \in Shared(o, how), NEW p \in M!Observations(facts)
  PROVE  c # p /\ c.member \in M!Available /\ c.index \in Nat
BY ObservationIs, ConsumerIs DEF Shared, M!Reached

(* What has not been looked at is not told of. *)
LEMMA UnseenIsUntold ==
  ASSUME MatchingInv, NEW o \in todo
  PROVE  EdgesOf(o) = {} /\ OthersOf(o) = {}
<1>1. ASSUME NEW d \in dependencies
      PROVE  o \notin d.of
  <2>1. CASE OfCall(d, Seen)
    BY <2>1 DEF OfCall, Seen
  <2>2. CASE OfMessage(d, Seen)
    <3>1. PICK p \in Seen : \E c \in Shared(p, "broadcast") : d.of = {p, c}
      BY <2>2 DEF OfMessage
    <3> QED
      BY <3>1, ConsumerIsNoObservation DEF Seen, MatchingInv
  <2> QED
    BY <2>1, <2>2 DEF MatchingInv, EdgesSound
<1>2. ASSUME NEW c \in candidates \cup boundaries \cup alternatives
      PROVE  c.of # o
  BY DEF MatchingInv, OthersSound, Related, AreAlternatives, Seen
<1> QED
  BY <1>1, <1>2 DEF EdgesOf, OthersOf

(* Of finitely many numbers one is the highest. *)
LEMMA HighestIs ==
  ASSUME NEW E, IsFiniteSet(E), E # {}, NEW f \in [E -> Int]
  PROVE  M!Highest({f[e] : e \in E}) \in {f[e] : e \in E}
<1> DEFINE Above(e) == {x \in E : f[e] <= f[x]}
           Fs == {Above(e) : e \in E}
<1>1. PICK e \in E : \A x \in E : Above(x) \subseteq Above(e) => Above(x) = Above(e)
  <2>2. \A x \in E : Above(x) \in Fs /\ Above(x) \in SUBSET E
    OBVIOUS
  <2>3. \A u \in Fs : \E x \in E : u = Above(x)
    OBVIOUS
  <2>1. Fs \in SUBSET SUBSET E /\ Fs # {}
    BY <2>2, <2>3
  <2> HIDE DEF Above, Fs
  <2>4. PICK u \in Fs : \A w \in Fs : w \subseteq u => w = u
    BY <2>1, MinimalSet
  <2> QED
    BY <2>2, <2>3, <2>4
<1>2. ASSUME NEW x \in E
      PROVE  f[x] <= f[e]
  <2> SUFFICES ASSUME ~ (f[x] <= f[e])
               PROVE  FALSE
    OBVIOUS
  <2>1. f[e] < f[x] /\ f[e] \in Int /\ f[x] \in Int
    OBVIOUS
  <2>2. \A y \in E : f[x] <= f[y] => f[e] <= f[y]
    BY <2>1
  <2>3. Above(x) \subseteq Above(e) /\ e \in Above(e) /\ e \notin Above(x)
    BY <2>1, <2>2
  <2> QED
    BY <1>1, <2>3
<1> QED
  BY <1>2 DEF M!Highest

LEMMA MembersCountIs ==
  ASSUME NEW Z
  PROVE  M!Cardinality(Z) = Cardinality(Z)
BY DEF M!Cardinality, Cardinality

LEMMA ScoreIs ==
  ASSUME NEW path, path \in Seq(Range(path)), NEW route, route \in Seq(Range(route))
  PROVE  M!RouteScore(path, route) \in Int
<1> DEFINE head == M!Fixed(route)
           left == Len(path) - Cardinality(head)
           parameters == Cardinality({i \in head : route[i] = ":"})
           stars == Cardinality({i \in head : route[i] = "*"})
           others == IF head = DOMAIN route THEN 0 ELSE IF left > 1 THEN left ELSE 1
           static == Cardinality({i \in head : route[i] \notin {":", "*"}})
           total == static + parameters + (stars + others)
<1>1. IsFiniteSet(head)
  <2>1. DOMAIN route = 1 .. Len(route) /\ Len(route) \in Nat
    OBVIOUS
  <2>2. IsFiniteSet(DOMAIN route)
    BY <2>1, FS_Interval
  <2> QED
    BY <2>2, FS_Subset DEF M!Fixed
<1>2. Len(path) \in Nat /\ Cardinality(head) \in Nat
  BY <1>1, FS_CardinalityType
<1> HIDE DEF head
<1>3. parameters \in Nat /\ stars \in Nat /\ static \in Nat
  <2>1. {{i \in head : route[i] = ":"}, {i \in head : route[i] = "*"}, {i \in head : route[i] \notin {":", "*"}}}
          \subseteq SUBSET head
    OBVIOUS
  <2> QED
    BY <1>1, <2>1, FS_Subset, FS_CardinalityType
<1>4. others \in Nat
  BY <1>2
<1>5. M!RouteScore(path, route) =
        IF total = 0 THEN M!Unit
        ELSE M!Rounded(M!Tenth * (10 * static + 9 * parameters + 8 * (stars + others)), total)
  BY MembersCountIs DEF M!RouteScore, head
<1> HIDE DEF parameters, stars, others, static
<1>6. CASE total = 0
  BY <1>5, <1>6 DEF M!Unit
<1>7. CASE total # 0
  <2> DEFINE n == M!Tenth * (10 * static + 9 * parameters + 8 * (stars + others))
  <2>1. n \in Int
    BY <1>3, <1>4 DEF M!Tenth
  <2>2. total \in Nat \ {0}
    BY <1>3, <1>4, <1>7
  <2> HIDE DEF n, total
  <2>3. (2 * n + total) \div (2 * total) \in Int
    BY <2>1, <2>2
  <2> QED
    BY <1>5, <1>7, <2>3 DEF M!Rounded, n
<1> QED
  BY <1>6, <1>7

LEMMA OnlyIs ==
  ASSUME NEW Z, IsFiniteSet(Z), Z # {}, ~ (M!Cardinality(Z) > 1)
  PROVE  Z = {M!Only(Z)}
<1>1. Cardinality(Z) \in Nat /\ Cardinality(Z) # 0
  BY FS_CardinalityType, FS_EmptySet
<1>2. PICK x : Z = {x}
  BY <1>1, MembersCountIs, FS_Singleton
<1> QED
  BY <1>2 DEF M!Only

LEMMA AliasesAreFinite ==
  ASSUME NEW host
  PROVE  IsFiniteSet(M!WithAlias(host))
<1>1. M!WithAlias(host) \subseteq Range(ViewMembers)
  BY DEF M!WithAlias, M!Available, M!Listed, Range
<1> QED
  BY <1>1, MembersAssumption, FS_Subset

LEMMA WinnersAre ==
  ASSUME FactsOK, NEW o \in M!Observations(facts), o.kind = "http",
         NEW m \in M!Available, o.call.path # None, M!CompatibleEntries(m, o.call) # {}
  PROVE  M!Winners(m, o.call) # {} /\ M!Winners(m, o.call) \subseteq facts.entries[m]
<1> DEFINE E == M!CompatibleEntries(m, o.call)
           f == [e \in E |-> M!ScoreOf(o.call, e)]
<1>1. m \in Range(ViewMembers)
  BY DEF M!Available, M!Listed, Range
<1>2. IsFiniteSet(facts.entries[m]) /\ \A e \in facts.entries[m] : e.route \in Seq(Range(e.route))
  BY <1>1, FactsAssumption DEF FactsOK
<1>3. E \subseteq facts.entries[m]
  BY DEF M!CompatibleEntries
<1>4. \A e \in E : M!ScoreOf(o.call, e) \in Int
  BY <1>2, <1>3, ObservationIs, ScoreIs DEF M!ScoreOf
<1> HIDE DEF E
<1>5. f \in [E -> Int] /\ IsFiniteSet(E) /\ E # {}
  BY <1>2, <1>3, <1>4, FS_Subset DEF E
<1>6. {f[e] : e \in E} = {M!ScoreOf(o.call, e) : e \in E}
  OBVIOUS
<1>7. M!Highest({M!ScoreOf(o.call, e) : e \in E}) \in {M!ScoreOf(o.call, e) : e \in E}
  <2> HIDE DEF f
  <2> QED
    BY <1>5, <1>6, HighestIs
<1>8. M!BestScore(m, o.call) = M!Highest({M!ScoreOf(o.call, e) : e \in E})
  BY DEF M!BestScore, E
<1> QED
  BY <1>3, <1>7, <1>8 DEF M!Winners, E

LEMMA ConfirmedIsIdentified ==
  ASSUME FactsOK, NEW o \in M!Observations(facts), o.kind = "http",
         M!Match(o.call).status = "confirmed"
  PROVE  Identified(o, M!Match(o.call).target, M!Match(o.call).entries)
<1> DEFINE members == M!WithAlias(o.call.authority)
           m == M!Only(members)
           external == M!External("http", o.call.authority, o.call.method, o.call.path)
<1>1. /\ members # {} /\ ~ (M!Cardinality(members) > 1) /\ external = {}
      /\ M!Match(o.call) = M!MatchEndpoint(m, o.call)
  <2> DEFINE nobody == o.call.entry = None \/ o.call.authority = None
             claimed == M!Cardinality(members) > 1 \/ (members # {} /\ external # {}) \/ M!Cardinality(external) > 1
  <2>1. M!Match(o.call) =
          IF nobody THEN M!Decision("unresolved", None, {})
          ELSE IF claimed THEN M!Decision("ambiguous", None, {})
          ELSE IF external # {} THEN M!Decision("known_external", None, {})
          ELSE IF members = {} THEN M!Decision("out_of_scope_or_unregistered", None, {})
          ELSE M!MatchEndpoint(m, o.call)
    BY MembersCountIs DEF M!Match
  <2>2. \A s, x, E : M!Decision(s, x, E).status = s
    BY DEF M!Decision
  <2> HIDE DEF nobody, claimed, members, external, m
  <2>3. ~ nobody /\ ~ claimed /\ external = {} /\ members # {}
    BY <2>1, <2>2
  <2>4. M!Match(o.call) = M!MatchEndpoint(m, o.call)
    BY <2>1, <2>3
  <2> QED
    BY <2>3, <2>4 DEF claimed
<1>2. members = {m}
  BY <1>1, AliasesAreFinite, OnlyIs
<1>3. m \in M!Available
  BY <1>2 DEF M!WithAlias
<1> HIDE DEF m
<1>4. /\ o.call.path # None /\ M!CompatibleEntries(m, o.call) # {}
      /\ M!MatchEndpoint(m, o.call).target = m
      /\ M!MatchEndpoint(m, o.call).entries = M!Winners(m, o.call)
  BY <1>1 DEF M!MatchEndpoint, M!Decision
<1> QED
  BY <1>1, <1>2, <1>3, <1>4, WinnersAre DEF Identified

LEMMA AnsweredIsIdentified ==
  ASSUME FactsOK, NEW o \in M!Observations(facts), o.kind = "grpc",
         NEW members, members = M!WithAlias(o.call.authority), members # {}, ~ (M!Cardinality(members) > 1),
         NEW method, method = o.call.method,
         M!External("grpc", o.call.authority, method, None) = {},
         ~ (M!Cardinality(M!Answers(M!Only(members), method)) # 1)
  PROVE  Identified(o, M!Only(members), M!Answers(M!Only(members), method))
<1> DEFINE m == M!Only(members)
<1>1. members = {m}
  BY AliasesAreFinite, OnlyIs
<1>2. m \in M!Available
  BY <1>1 DEF M!WithAlias
<1>3. M!Answers(m, method) # {} /\ M!Answers(m, method) \subseteq facts.entries[m]
  <2>1. M!Answers(m, method) # {}
    BY MembersCountIs, FS_EmptySet
  <2> QED
    BY <2>1 DEF M!Answers
<1> QED
  BY <1>1, <1>2, <1>3 DEF Identified

(* What a step that looks at o leaves alone. *)
LEMMA LookedAt ==
  ASSUME MatchingInv, NEW o \in todo, NEW kind, M!Observe(kind, o)
  PROVE  /\ facts' = facts /\ FactsOK' /\ Seen' = Seen \cup {o} /\ o \notin Seen
         /\ todo' \subseteq M!Observations(facts)'
         /\ \A p \in Seen', q \in todo' : M!Before(p, q)'
         /\ o \in M!Observations(facts) /\ o.kind = kind
<1>1. facts' = facts /\ todo' = todo \ {o} /\ o.kind = kind /\ \A p \in todo \ {o} : M!Before(o, p)
  BY DEF M!Observe
<1>2. o \in M!Observations(facts)
  BY DEF MatchingInv
<1>3. Seen' = Seen \cup {o} /\ o \notin Seen
  BY <1>1, <1>2 DEF Seen
<1>4. ASSUME NEW p \in Seen', NEW q \in todo'
      PROVE  M!Before(p, q)'
  <2>1. M!Before(p, q)
    BY <1>1, <1>3, <1>4 DEF MatchingInv
  <2> QED
    BY <2>1 DEF M!Before, M!Place
<1> QED
  BY <1>1, <1>2, <1>3, <1>4 DEF MatchingInv, FactsOK

LEMMA FactsStand ==
  ASSUME facts' = facts
  PROVE  /\ \A o, how : Shared(o, how)' = Shared(o, how)
         /\ \A o, m, E : Identified(o, m, E)' <=> Identified(o, m, E)
<1>1. \A o : M!Consumers(o)' = M!Consumers(o)
  BY DEF M!Consumers, M!Available
<1>2. \A o : M!Reached(o)' = M!Reached(o)
  BY <1>1 DEF M!Reached, M!RoutingMatches, M!ChannelMatches, M!Token
<1>3. \A o, c, how : M!Both(o, c, how)' <=> M!Both(o, c, how)
  BY DEF M!Both
<1>4. ASSUME NEW o, NEW how
      PROVE  Shared(o, how)' = Shared(o, how)
  BY <1>2, <1>3 DEF Shared
<1>5. ASSUME NEW o, NEW m, NEW E
      PROVE  Identified(o, m, E)' <=> Identified(o, m, E)
  BY DEF Identified, M!Available, M!WithAlias, M!External, M!RuleMatches, M!Begins, M!NameOf
<1> QED
  BY <1>4, <1>5

LEMMA SoundStays ==
  ASSUME facts' = facts, Seen \subseteq Seen'
  PROVE  /\ \A d : OfCall(d, Seen) => OfCall(d, Seen)'
         /\ \A d : OfMessage(d, Seen) => OfMessage(d, Seen)'
         /\ \A g : AreAlternatives(g, Seen) => AreAlternatives(g, Seen)'
<1>1. ASSUME NEW d, OfCall(d, Seen)
      PROVE  OfCall(d, Seen)'
  BY <1>1, FactsStand DEF OfCall
<1>2. ASSUME NEW d, OfMessage(d, Seen)
      PROVE  OfMessage(d, Seen)'
  BY <1>2, FactsStand DEF OfMessage
<1>3. ASSUME NEW g, AreAlternatives(g, Seen)
      PROVE  AreAlternatives(g, Seen)'
  BY <1>3, FactsStand DEF AreAlternatives
<1> QED
  BY <1>1, <1>2, <1>3

(* A call becomes an edge. *)
LEMMA DependencyAdded ==
  ASSUME MatchingInv, NEW o \in todo, NEW kind, kind # "message", M!Observe(kind, o),
         NEW m, NEW E, Identified(o, m, E), M!AddEdge(M!Edge(kind, o, m, E))
  PROVE  MatchingInv'
<1> DEFINE e == M!Edge(kind, o, m, E)
<1>1. /\ facts' = facts /\ FactsOK' /\ Seen' = Seen \cup {o} /\ o \notin Seen /\ o.kind = kind
      /\ todo' \subseteq M!Observations(facts)' /\ \A p \in Seen', q \in todo' : M!Before(p, q)'
  BY LookedAt
<1>2. /\ dependencies' = dependencies \cup {e} /\ projections' = M!Supported(e)
      /\ UNCHANGED <<candidates, boundaries, alternatives>>
  BY DEF M!AddEdge
<1>3. e = [kind |-> o.kind, source |-> o.member, target |-> m, entries |-> E, of |-> {o}]
  BY <1>1 DEF M!Edge
<1>4. EdgesSound'
  <2>1. OfCall(e, Seen)'
    BY <1>1, <1>3, FactsStand DEF OfCall
  <2> QED
    BY <1>1, <1>2, <2>1, SoundStays DEF MatchingInv, EdgesSound
<1>5. OthersSound'
  BY <1>1, <1>2, SoundStays DEF MatchingInv, OthersSound
<1>6. AllTold'
  <2>1. EdgesOf(o) = {} /\ OthersOf(o) = {}
    BY UnseenIsUntold
  <2>2. e.of = {o}
    BY <1>3
  <2>3. EdgesOf(o)' = {e} /\ OthersOf(o)' = {}
    BY <1>2, <2>1, <2>2 DEF EdgesOf, OthersOf
  <2>4. \A p \in Seen : EdgesOf(p)' = EdgesOf(p) /\ OthersOf(p)' = OthersOf(p)
    BY <1>1, <1>2, <2>2 DEF EdgesOf, OthersOf
  <2>5. ToldOnce(o)'
    BY <2>3 DEF ToldOnce
  <2>6. \A p \in Seen : ToldOnce(p) => ToldOnce(p)'
    BY <2>4 DEF ToldOnce
  <2> QED
    BY <1>1, <2>3, <2>4, <2>5, <2>6 DEF AllTold, MatchingInv
<1>7. M!ProjectionsAreSupported'
  <2> DEFINE k == M!Key(e)
  <2>1. DOMAIN projections' = DOMAIN projections \cup {k}
    BY <1>2 DEF M!Supported
  <2>2. \A l \in DOMAIN projections' :
           projections'[l] = IF l # k THEN projections[l]
                             ELSE IF k \in DOMAIN projections THEN projections[k] \cup {e} ELSE {e}
    BY <1>2 DEF M!Supported
  <2>3. \A d : M!Key(d)' = M!Key(d)
    BY DEF M!Key
  <2>4. DOMAIN projections = {M!Key(d) : d \in dependencies}
    BY DEF MatchingInv, M!ProjectionsAreSupported
  <2>5. \A l \in DOMAIN projections :
          projections[l] # {} /\ projections[l] \subseteq {d \in dependencies : M!Key(d) = l}
    BY DEF MatchingInv, M!ProjectionsAreSupported
  <2> HIDE DEF e
  <2>6. DOMAIN projections' = {M!Key(d) : d \in dependencies'}
    BY <1>2, <2>1, <2>4
  <2>7. ASSUME NEW l \in DOMAIN projections'
        PROVE  projections'[l] # {} /\ projections'[l] \subseteq {d \in dependencies' : M!Key(d) = l}
    BY <1>2, <2>1, <2>2, <2>5
  <2> QED
    BY <2>3, <2>6, <2>7 DEF M!ProjectionsAreSupported
<1> QED
  BY <1>1, <1>4, <1>5, <1>6, <1>7 DEF MatchingInv

(* A call is a candidate, or leaves the view. *)
LEMMA OtherAdded ==
  ASSUME MatchingInv, NEW o \in todo, NEW kind, M!Observe(kind, o), NEW c, Related(o, c),
         candidates' \cup boundaries' = candidates \cup boundaries \cup {c},
         UNCHANGED <<dependencies, projections, alternatives>>
  PROVE  MatchingInv'
<1>1. /\ facts' = facts /\ FactsOK' /\ Seen' = Seen \cup {o} /\ o \notin Seen /\ o.kind = kind
      /\ todo' \subseteq M!Observations(facts)' /\ \A p \in Seen', q \in todo' : M!Before(p, q)'
  BY LookedAt
<1>2. c.of = o
  BY DEF Related
<1>3. EdgesSound'
  BY <1>1, SoundStays DEF MatchingInv, EdgesSound
<1>4. OthersSound'
  <2>1. \A d \in candidates' \cup boundaries' : \E p \in Seen' : Related(p, d)
    BY <1>1 DEF MatchingInv, OthersSound
  <2>2. \A g \in alternatives' : AreAlternatives(g, Seen)'
    BY <1>1, SoundStays DEF MatchingInv, OthersSound
  <2> QED
    BY <2>1, <2>2 DEF OthersSound, Related
<1>5. AllTold'
  <2>1. EdgesOf(o) = {} /\ OthersOf(o) = {}
    BY UnseenIsUntold
  <2>2. EdgesOf(o)' = {} /\ OthersOf(o)' = {c}
    BY <1>2, <2>1 DEF EdgesOf, OthersOf
  <2>3. \A p \in Seen : EdgesOf(p)' = EdgesOf(p) /\ OthersOf(p)' = OthersOf(p)
    BY <1>1, <1>2 DEF EdgesOf, OthersOf
  <2>4. ToldOnce(o)'
    BY <2>2 DEF ToldOnce
  <2>5. \A p \in Seen : ToldOnce(p) => ToldOnce(p)'
    BY <2>3 DEF ToldOnce
  <2> QED
    BY <1>1, <2>2, <2>3, <2>4, <2>5 DEF AllTold, MatchingInv
<1>6. M!ProjectionsAreSupported'
  BY DEF MatchingInv, M!ProjectionsAreSupported, M!Key
<1> QED
  BY <1>1, <1>3, <1>4, <1>5, <1>6 DEF MatchingInv

LEMMA CandidateAdded ==
  ASSUME MatchingInv, NEW o \in todo, NEW kind, M!Observe(kind, o), NEW status,
         M!AddCandidate(status, o) \/ M!AddBoundary(status, o)
  PROVE  MatchingInv'
<1>1. Related(o, M!Told(status, o))
  BY DEF Related, M!Told
<1> QED
  BY <1>1, OtherAdded DEF M!AddCandidate, M!AddBoundary

(* Of the consumers of a member there is a first one. *)
LEMMA FirstIs ==
  ASSUME NEW C, \A c \in C : c.index \in Nat, NEW c \in C
  PROVE  \E d \in M!FirstOf(C) : d.member = c.member
<1> DEFINE N == {d.index : d \in {x \in C : x.member = c.member}}
<1>1. N \subseteq Nat /\ N # {}
  OBVIOUS
<1> HIDE DEF N
<1>2. PICK n \in N : \A k \in N : n <= k
  BY <1>1, LeastNumber
<1>3. PICK d \in C : d.member = c.member /\ d.index = n
  BY <1>2 DEF N
<1>4. \A x \in C : x.member = c.member => x.index \in N
  BY DEF N
<1> QED
  BY <1>2, <1>3, <1>4 DEF M!FirstOf

(* A message becomes an edge for each consumer that is sure to get it. *)
LEMMA MessageTold ==
  ASSUME MatchingInv, NEW o \in todo, M!MessagePublication(o)
  PROVE  MatchingInv'
<1>1. /\ facts' = facts /\ FactsOK' /\ Seen' = Seen \cup {o} /\ o \notin Seen /\ o.kind = "message"
      /\ todo' \subseteq M!Observations(facts)' /\ \A p \in Seen', q \in todo' : M!Before(p, q)'
      /\ M!Observe("message", o) /\ o \in M!Observations(facts)
  BY LookedAt DEF M!MessagePublication
<1>2. CASE o.call.channel = None
  BY <1>1, <1>2, CandidateAdded DEF M!MessagePublication
<1>3. CASE o.call.channel # None
  <2> DEFINE reached == M!Reached(o)
             broadcast == Shared(o, "broadcast")
             competing == Shared(o, "competing")
             new == {M!MessageEdge(o, c) : c \in broadcast}
  <2>1. /\ dependencies' = dependencies \cup new
        /\ projections' = M!FirstSupported(o, broadcast)
        /\ alternatives' = IF competing = {} THEN alternatives
                           ELSE alternatives \cup {[of |-> o, consumers |-> competing]}
        /\ candidates' = candidates
              \cup (IF reached \subseteq broadcast \cup competing THEN {} ELSE {M!Told("candidate", o)})
              \cup (IF reached = {} THEN {M!Told("unresolved", o)} ELSE {})
        /\ boundaries' = boundaries
    BY <1>3 DEF M!MessagePublication, Shared
  <2>2. \A c \in broadcast : /\ c.member \in M!Available /\ c.index \in Nat
                             /\ \A p \in M!Observations(facts) : c # p
    BY <1>1, ConsumerIsNoObservation DEF MatchingInv
  <2>3. \A c \in broadcast : M!MessageEdge(o, c) =
           [kind |-> "message", source |-> o.member, target |-> c.member, entries |-> {}, of |-> {o, c}]
    BY DEF M!MessageEdge
  <2>4. EdgesSound'
    <3>1. \A d \in new : OfMessage(d, Seen)'
      BY <1>1, <2>3, FactsStand DEF OfMessage
    <3> QED
      BY <1>1, <2>1, <3>1, SoundStays DEF MatchingInv, EdgesSound
  <2>5. OthersSound'
    <3>1. \A kind : Related(o, M!Told(kind, o))
      BY DEF Related, M!Told
    <3>2. \A c \in candidates' \cup boundaries' : \E p \in Seen' : Related(p, c)
      BY <1>1, <2>1, <3>1 DEF MatchingInv, OthersSound
    <3>3. \A g : competing # {} /\ g = [of |-> o, consumers |-> competing] => AreAlternatives(g, Seen)'
      BY <1>1, FactsStand DEF AreAlternatives
    <3>4. \A g \in alternatives' : AreAlternatives(g, Seen)'
      <4>1. \A g \in alternatives : AreAlternatives(g, Seen)'
        BY <1>1, SoundStays DEF MatchingInv, OthersSound
      <4> SUFFICES ASSUME NEW g \in alternatives'
                   PROVE  AreAlternatives(g, Seen)'
        OBVIOUS
      <4>2. g \in alternatives \/ (competing # {} /\ g = [of |-> o, consumers |-> competing])
        BY <2>1
      <4>3. CASE g \in alternatives
        BY <4>1, <4>3
      <4>4. CASE competing # {} /\ g = [of |-> o, consumers |-> competing]
        BY <3>3, <4>4
      <4> QED
        BY <4>2, <4>3, <4>4
    <3> QED
      BY <3>2, <3>4 DEF OthersSound, Related
  <2>6. AllTold'
    <3>1. EdgesOf(o)' \cup OthersOf(o)' # {}
      <4>1. CASE broadcast # {}
        <5>1. PICK c \in broadcast : TRUE
          BY <4>1
        <5>2. M!MessageEdge(o, c) \in dependencies' /\ o \in M!MessageEdge(o, c).of
          BY <2>1, <2>3
        <5> QED
          BY <5>2 DEF EdgesOf
      <4>2. CASE competing # {}
        <5>1. [of |-> o, consumers |-> competing] \in alternatives'
          BY <2>1, <4>2
        <5> QED
          BY <5>1 DEF OthersOf
      <4>3. CASE broadcast = {} /\ competing = {}
        <5>1. \E kind : M!Told(kind, o) \in candidates'
          BY <2>1, <4>3
        <5> QED
          BY <5>1 DEF OthersOf, M!Told
      <4> QED
        BY <4>1, <4>2, <4>3
    <3>2. \A d \in new : \A p \in Seen : p \notin d.of
      BY <1>1, <2>2, <2>3 DEF Seen
    <3>3. \A c : c \in (candidates' \cup boundaries' \cup alternatives') \ (candidates \cup boundaries \cup alternatives) => c.of = o
      BY <2>1 DEF M!Told
    <3>4. candidates \cup boundaries \cup alternatives \subseteq candidates' \cup boundaries' \cup alternatives'
      BY <2>1
    <3>5. \A p \in Seen : EdgesOf(p)' = EdgesOf(p) /\ OthersOf(p)' = OthersOf(p)
      BY <1>1, <2>1, <3>2, <3>3, <3>4 DEF EdgesOf, OthersOf
    <3>6. \A p \in Seen : ToldOnce(p) => ToldOnce(p)'
      BY <3>5 DEF ToldOnce
    <3> QED
      BY <1>1, <3>1, <3>5, <3>6 DEF AllTold, MatchingInv
  <2>7. M!ProjectionsAreSupported'
    <3> DEFINE first == {M!MessageEdge(o, c) : c \in M!FirstOf(broadcast)}
    <3>1. first \subseteq new
      BY DEF M!FirstOf
    <3>2. \A d \in new : \E e \in first : M!Key(e) = M!Key(d)
      <4> SUFFICES ASSUME NEW c \in broadcast
                   PROVE  \E e \in first : M!Key(e) = M!Key(M!MessageEdge(o, c))
        OBVIOUS
      <4>1. PICK d \in M!FirstOf(broadcast) : d.member = c.member
        BY <2>2, FirstIs
      <4>2. M!Key(M!MessageEdge(o, d)) = M!Key(M!MessageEdge(o, c))
        BY <4>1 DEF M!Key, M!MessageEdge
      <4> QED
        BY <4>2
    <3>3. /\ DOMAIN projections' = DOMAIN projections \cup {M!Key(e) : e \in first}
          /\ \A l \in DOMAIN projections' :
               projections'[l] = IF l \in DOMAIN projections THEN projections[l] ELSE {e \in first : M!Key(e) = l}
      BY <2>1 DEF M!FirstSupported
    <3>4. \A d : M!Key(d)' = M!Key(d)
      BY DEF M!Key
    <3>5. DOMAIN projections = {M!Key(d) : d \in dependencies}
      BY DEF MatchingInv, M!ProjectionsAreSupported
    <3>6. \A l \in DOMAIN projections :
            projections[l] # {} /\ projections[l] \subseteq {d \in dependencies : M!Key(d) = l}
      BY DEF MatchingInv, M!ProjectionsAreSupported
    <3> HIDE DEF first, new
    <3>7. DOMAIN projections' = {M!Key(d) : d \in dependencies'}
      <4>1. {M!Key(e) : e \in first} = {M!Key(d) : d \in new}
        BY <3>1, <3>2
      <4>2. {M!Key(d) : d \in dependencies'}
              = {M!Key(d) : d \in dependencies} \cup {M!Key(d) : d \in new}
        BY <2>1
      <4>3. DOMAIN projections' = DOMAIN projections \cup {M!Key(e) : e \in first}
        BY <3>3
      <4> QED
        BY <3>5, <4>1, <4>2, <4>3
    <3>8. ASSUME NEW l \in DOMAIN projections'
          PROVE  projections'[l] # {} /\ projections'[l] \subseteq {d \in dependencies' : M!Key(d) = l}
      BY <2>1, <3>1, <3>3, <3>6
    <3> QED
      BY <3>4, <3>7, <3>8 DEF M!ProjectionsAreSupported
  <2> QED
    BY <1>1, <2>4, <2>5, <2>6, <2>7 DEF MatchingInv
<1> QED
  BY <1>2, <1>3

LEMMA HttpTold ==
  ASSUME MatchingInv, NEW o \in todo, M!HttpOutbound(o)
  PROVE  MatchingInv'
<1> DEFINE d == M!Match(o.call)
<1>1. FactsOK /\ o \in M!Observations(facts) /\ o.kind = "http" /\ M!Observe("http", o)
  BY LookedAt DEF M!HttpOutbound, MatchingInv
<1>2. \/ d.status = "confirmed" /\ M!AddEdge(M!Edge("http", o, d.target, d.entries))
      \/ M!AddCandidate(d.status, o) \/ M!AddBoundary(d.status, o)
  BY DEF M!HttpOutbound
<1>3. d.status = "confirmed" => Identified(o, d.target, d.entries)
  BY <1>1, ConfirmedIsIdentified
<1> HIDE DEF d
<1> QED
  BY <1>1, <1>2, <1>3, DependencyAdded, CandidateAdded

LEMMA GrpcTold ==
  ASSUME MatchingInv, NEW o \in todo, M!GrpcClient(o)
  PROVE  MatchingInv'
<1>1. FactsOK /\ o \in M!Observations(facts) /\ o.kind = "grpc" /\ M!Observe("grpc", o)
  BY LookedAt DEF M!GrpcClient, MatchingInv
<1> DEFINE method == o.call.method
           members == M!WithAlias(o.call.authority)
           external == M!External("grpc", o.call.authority, method, None)
           m == M!Only(members)
           E == M!Answers(m, method)
<1>2. \/ /\ members # {} /\ ~ (M!Cardinality(members) > 1) /\ external = {}
         /\ ~ (M!Cardinality(E) # 1) /\ M!AddEdge(M!Edge("grpc", o, m, E))
      \/ \E status : M!AddCandidate(status, o) \/ M!AddBoundary(status, o)
  BY DEF M!GrpcClient
<1>3. CASE \E status : M!AddCandidate(status, o) \/ M!AddBoundary(status, o)
  BY <1>1, <1>3, CandidateAdded
<1>4. CASE /\ members # {} /\ ~ (M!Cardinality(members) > 1) /\ external = {}
           /\ ~ (M!Cardinality(E) # 1) /\ M!AddEdge(M!Edge("grpc", o, m, E))
  <2>1. Identified(o, m, E)
    BY <1>1, <1>4, AnsweredIsIdentified
  <2> HIDE DEF m, E
  <2> QED
    BY <1>1, <1>4, <2>1, DependencyAdded
<1> QED
  BY <1>2, <1>3, <1>4

LEMMA MatchingStep ==
  ASSUME MatchingInv, M!Next
  PROVE  MatchingInv'
BY HttpTold, MessageTold, GrpcTold DEF M!Next

LEMMA MatchingStarts ==
  ASSUME M!Init
  PROVE  MatchingInv
<1>1. /\ FactsOK /\ todo = M!Observations(facts)
      /\ dependencies = {} /\ projections = <<>> /\ candidates = {} /\ boundaries = {} /\ alternatives = {}
  BY DEF M!Init, FactsOK
<1>2. Seen = {}
  BY <1>1 DEF Seen
<1>3. M!ProjectionsAreSupported
  <2>1. DOMAIN projections = {}
    BY <1>1
  <2> QED
    BY <1>1, <2>1 DEF M!ProjectionsAreSupported
<1> QED
  BY <1>1, <1>2, <1>3 DEF MatchingInv, EdgesSound, OthersSound, AllTold

LEMMA MatchingImplies ==
  ASSUME MatchingInv
  PROVE  /\ M!TypeOK /\ M!EveryCallIsTold /\ M!ProjectionsAreSupported
         /\ M!IdentityFirst /\ M!CompetingIsNotBroadcast
<1>1. \A o \in Seen : /\ o \in M!Observations(facts) /\ o.member \in M!Available
                      /\ o.kind \in M!Kinds /\ o.kind = o.call.kind
  BY ObservationIs DEF Seen, MatchingInv, M!Kinds
<1>2. \A d \in dependencies : OfCall(d, Seen) \/ OfMessage(d, Seen)
  BY DEF MatchingInv, EdgesSound
<1>3. ASSUME NEW d \in dependencies
      PROVE  d.source \in M!Available /\ d.target \in M!Available /\ d.kind \in M!Kinds
  <2>1. CASE OfCall(d, Seen)
    BY <1>1, <2>1 DEF OfCall, Identified
  <2>2. CASE OfMessage(d, Seen)
    <3>1. PICK o \in Seen : \E c \in Shared(o, "broadcast") :
             d = [kind |-> "message", source |-> o.member, target |-> c.member, entries |-> {}, of |-> {o, c}]
      BY <2>2 DEF OfMessage
    <3>2. PICK c \in Shared(o, "broadcast") :
             d = [kind |-> "message", source |-> o.member, target |-> c.member, entries |-> {}, of |-> {o, c}]
      BY <3>1
    <3>3. c.member \in M!Available
      BY <1>1, ConsumerIsNoObservation DEF MatchingInv
    <3> QED
      BY <1>1, <3>2, <3>3 DEF M!Kinds
  <2> QED
    BY <1>2, <2>1, <2>2
<1>4. M!TypeOK
  <2>1. \A c \in candidates \cup boundaries \cup alternatives : c.of \in M!Observed
    BY <1>1 DEF MatchingInv, OthersSound, Related, AreAlternatives, M!Observed
  <2>2. ASSUME NEW k \in DOMAIN projections
        PROVE  k \in M!Available \X M!Available \X M!Kinds
    <3>1. PICK d \in dependencies : k = M!Key(d)
      BY DEF MatchingInv, M!ProjectionsAreSupported
    <3> QED
      BY <1>3, <3>1 DEF M!Key
  <2>3. todo \subseteq M!Observed /\ \A o \in M!Observed \ todo, p \in todo : M!Before(o, p)
    BY DEF MatchingInv, Seen, M!Observed
  <2> QED
    BY <1>3, <2>1, <2>2, <2>3 DEF M!TypeOK
<1>5. M!EveryCallIsTold
  <2> SUFFICES ASSUME NEW o \in M!Observed \ todo
               PROVE  /\ EdgesOf(o) \cup OthersOf(o) # {}
                      /\ o.kind # "message" =>
                           M!Cardinality(EdgesOf(o)) + M!Cardinality(OthersOf(o)) = 1
    BY DEF M!EveryCallIsTold, EdgesOf, OthersOf
  <2>1. o \in Seen
    BY DEF Seen, M!Observed
  <2>2. EdgesOf(o) \cup OthersOf(o) # {} /\ (o.kind # "message" => ToldOnce(o))
    BY <2>1 DEF MatchingInv, AllTold
  <2>3. M!Cardinality({}) = 0 /\ \A x : M!Cardinality({x}) = 1
    BY MembersCountIs, FS_EmptySet, FS_Singleton
  <2>4. CASE o.kind # "message" /\ OthersOf(o) = {}
    <3>1. PICK d : EdgesOf(o) = {d}
      BY <2>2, <2>4 DEF ToldOnce
    <3>2. M!Cardinality(EdgesOf(o)) = 1 /\ M!Cardinality(OthersOf(o)) = 0
      BY <2>3, <2>4, <3>1
    <3> QED
      BY <2>2, <3>2
  <2>5. CASE o.kind # "message" /\ OthersOf(o) # {}
    <3>1. PICK c : OthersOf(o) = {c} /\ EdgesOf(o) = {}
      BY <2>2, <2>5 DEF ToldOnce
    <3>2. M!Cardinality(OthersOf(o)) = 1 /\ M!Cardinality(EdgesOf(o)) = 0
      BY <2>3, <3>1
    <3> QED
      BY <2>2, <3>2
  <2> QED
    BY <2>2, <2>4, <2>5
<1>6. M!IdentityFirst
  <2> SUFFICES ASSUME NEW d \in dependencies, NEW o \in d.of, d.kind # "message"
               PROVE  /\ M!WithAlias(o.call.authority) = {d.target}
                      /\ M!External(d.kind, o.call.authority, o.call.method,
                                           IF d.kind = "http" THEN o.call.path ELSE None) = {}
                      /\ d.entries # {} /\ d.entries \subseteq facts.entries[d.target]
    BY DEF M!IdentityFirst
  <2>1. OfCall(d, Seen)
    BY <1>2 DEF OfMessage
  <2>2. PICK p \in Seen : \E m, E :
           /\ Identified(p, m, E)
           /\ d = [kind |-> p.kind, source |-> p.member, target |-> m, entries |-> E, of |-> {p}]
    BY <2>1 DEF OfCall
  <2>3. o = p /\ d.kind = p.kind /\ Identified(p, d.target, d.entries)
    BY <2>2
  <2> QED
    BY <2>3 DEF Identified
<1>7. M!CompetingIsNotBroadcast
  <2> SUFFICES ASSUME NEW g \in alternatives, NEW d \in dependencies, g.of \in d.of
               PROVE  g.consumers \cap d.of = {}
    BY DEF M!CompetingIsNotBroadcast
  <2>1. PICK o \in Seen : /\ o.kind = "message" /\ g.of = o
                          /\ Shared(o, "competing") # {} /\ g.consumers = Shared(o, "competing")
    BY DEF MatchingInv, OthersSound, AreAlternatives
  <2>2. \A c \in g.consumers : \A p \in M!Observations(facts) : c # p
    BY <2>1, ConsumerIsNoObservation DEF MatchingInv
  <2>3. CASE OfCall(d, Seen)
    BY <1>1, <2>2, <2>3 DEF OfCall
  <2>4. CASE OfMessage(d, Seen)
    <3>1. PICK p \in Seen : \E c \in Shared(p, "broadcast") : d.of = {p, c}
      BY <2>4 DEF OfMessage
    <3>2. PICK c \in Shared(p, "broadcast") : d.of = {p, c}
      BY <3>1
    <3>3. c # o
      BY <1>1, <2>1, ConsumerIsNoObservation DEF MatchingInv
    <3>4. p = o
      BY <2>1, <3>2, <3>3
    <3> QED
      BY <2>1, <3>2, <3>4 DEF Shared, M!Both
  <2> QED
    BY <1>2, <2>3, <2>4
<1> QED
  BY <1>4, <1>5, <1>6, <1>7 DEF MatchingInv

-----------------------------------------------------------------------------
(* The linking of registered repositories by their databases. *)

DatabasesOK(d) ==
    /\ d = [r \in Range(Repositories) |-> d[r]]
    /\ \A r \in Range(Repositories) : d[r] \in X!Contents[r] \cup {None}
LinkedBy(d) ==
    /\ linked.result = X!Matched(d)
    /\ linked.dependencies = X!DependsOn(linked.result.edges, linked.messages)
HeldOK(r) == \E s \in X!Contents[r] : \E l : cache[r] = [seen |-> s, languages |-> l]
LinkingInv ==
    /\ DatabasesOK(db)
    /\ DOMAIN cache = Range(Repositories) /\ \A r \in Range(Repositories) : cache[r] = None \/ HeldOK(r)
    /\ \/ analyzed = None /\ linked = X!Empty
       \/ \E d : DatabasesOK(d) /\ analyzed = d /\ LinkedBy(d)

(* What a database may say. *)
LEMMA ContentsAre ==
  ASSUME NEW r \in Range(Repositories)
  PROVE  /\ X!Contents[r] = {d[r] : d \in Databases}
         /\ None \notin X!Contents[r]
         /\ \A c \in X!Contents[r] : c.calls \in Seq(Range(c.calls))
<1>1. X!Contents[r] = {d[r] : d \in Databases}
  BY DEF X!Contents, X!Registered, Range
<1>2. \A d \in Databases : d[r] # None /\ d[r].calls \in Seq(Range(d[r].calls))
  <2> SUFFICES ASSUME NEW d \in Databases
               PROVE  d[r] # None /\ d[r].calls \in Seq(Range(d[r].calls))
    OBVIOUS
  <2>1. d \in [Range(Repositories) -> Range(d)] /\ None \notin Range(d)
    BY DatabasesAssumption
  <2>2. d[r] \in Range(d)
    BY <2>1
  <2> QED
    BY <2>1, <2>2, DatabasesAssumption
<1> QED
  BY <1>1, <1>2

(* The candidates of a call are endpoints of services it may mean. *)
LEMMA CandidatesAre ==
  ASSUME NEW call, NEW inbound, NEW c \in X!Candidates(call, inbound)
  PROVE  /\ c.service \in X!ServiceNames /\ c.service # call.service
         /\ X!Host(call) # None => c.service = X!Known(X!Host(call))
         /\ c.confidence \in Int
<1>1. PICK s \in X!CandidateServices(call) \ {None} : \E a :
        c = [service |-> s, api |-> a, confidence |-> X!ConfidenceIn(call, s, a)]
  BY DEF X!Candidates
<1>2. c.service = s /\ \E a : c.confidence = X!ConfidenceIn(call, s, a)
  BY <1>1
<1>3. \A a : X!ConfidenceIn(call, s, a) \in Int
  BY DEF X!ConfidenceIn
<1>4. \A host : X!Known(host) = None \/ X!Known(host) \in X!ServiceNames
  BY DEF X!Known
<1> QED
  BY <1>1, <1>2, <1>3, <1>4 DEF X!CandidateServices

-----------------------------------------------------------------------------
(* What matching says of databases. *)
CallsOf(d) == {X!Outbound(d)[p] : p \in X!Places(d)}
FoundFor(d, c) == IF X!Resolved(c) THEN X!Candidates(c, X!Inbound(d)) ELSE {}
MatchedIn(d) == {c \in CallsOf(d) : FoundFor(d, c) # {} /\ X!Settled(FoundFor(d, c))}
AmbiguousIn(d) == {c \in CallsOf(d) : FoundFor(d, c) # {} /\ ~ X!Settled(FoundFor(d, c))}

LEMMA MatchedIs ==
  ASSUME NEW d
  PROVE  X!Matched(d) =
           [calls |-> CallsOf(d),
            edges |-> UNION {{[call |-> c, to |-> b] : b \in X!Best(FoundFor(d, c))} : c \in MatchedIn(d)},
            rivals |-> [c \in CallsOf(d) |-> FoundFor(d, c)],
            potential |-> X!Potential(X!Outbound(d), MatchedIn(d), AmbiguousIn(d))]
BY DEF X!Matched, CallsOf, FoundFor, MatchedIn, AmbiguousIn

LEMMA EdgeIs ==
  ASSUME NEW d, NEW e \in X!Matched(d).edges
  PROVE  /\ e.call \in MatchedIn(d) /\ e.to \in X!Best(FoundFor(d, e.call))
         /\ e.to \in X!Candidates(e.call, X!Inbound(d))
<1>1. PICK c \in MatchedIn(d) : \E b \in X!Best(FoundFor(d, c)) : e = [call |-> c, to |-> b]
  BY MatchedIs
<1> QED
  BY <1>1 DEF X!Best, FoundFor

LEMMA EdgesAreNoGuess ==
  ASSUME NEW d, NEW e \in X!Matched(d).edges, NEW c \in X!Matched(d).rivals[e.call]
  PROVE  c = e.to \/ c.confidence < e.to.confidence
<1> DEFINE Z == FoundFor(d, e.call)
<1>1. e.call \in MatchedIn(d) /\ e.to \in X!Best(Z)
  BY EdgeIs
<1>2. c \in Z
  BY <1>1, MatchedIs DEF MatchedIn
<1>3. \A x \in Z : x.confidence \in Int
  BY CandidatesAre DEF FoundFor
<1>4. PICK b \in Z : X!Best(Z) = {b}
  BY <1>1 DEF MatchedIn, X!Settled
<1>5. e.to = b /\ \A x \in Z : x.confidence <= b.confidence
  BY <1>1, <1>4 DEF X!Best
<1>6. ASSUME ~ (c.confidence < b.confidence)
      PROVE  c = b
  <2>1. c.confidence = b.confidence
    BY <1>2, <1>3, <1>4, <1>5, <1>6
  <2>2. c \in X!Best(Z)
    BY <1>2, <1>5, <2>1 DEF X!Best
  <2> QED
    BY <1>4, <2>2
<1> QED
  BY <1>5, <1>6

(* Of the calls of the same key one is the first. *)
LEMMA FirstOfKey ==
  ASSUME NEW d, DatabasesOK(d), NEW p \in X!Places(d)
  PROVE  \E q \in X!Places(d) :
           /\ X!CallKey(X!Outbound(d)[q]) = X!CallKey(X!Outbound(d)[p])
           /\ \A o \in X!Places(d) : X!Earlier(o, q) =>
                X!CallKey(X!Outbound(d)[o]) # X!CallKey(X!Outbound(d)[p])
<1> DEFINE Z == {q \in X!Places(d) : X!CallKey(X!Outbound(d)[q]) = X!CallKey(X!Outbound(d)[p])}
<1>1. ASSUME NEW q \in X!Places(d)
      PROVE  q = <<q[1], q[2]>> /\ q[1] \in Nat /\ q[2] \in Nat
  <2>1. PICK i \in DOMAIN Repositories :
           /\ d[Repositories[i]] # None
           /\ \E k \in DOMAIN d[Repositories[i]].calls : q = <<i, k>>
    BY DEF X!Places
  <2>2. i \in Nat /\ Repositories[i] \in Range(Repositories)
    BY DatabasesAssumption DEF Range
  <2>3. d[Repositories[i]].calls \in Seq(Range(d[Repositories[i]].calls))
    BY <2>1, <2>2, ContentsAre DEF DatabasesOK
  <2>4. PICK k \in DOMAIN d[Repositories[i]].calls : q = <<i, k>>
    BY <2>1
  <2>5. k \in Nat
    BY <2>3, <2>4
  <2> QED
    BY <2>2, <2>4, <2>5
<1>2. p \in Z
  OBVIOUS
<1>3. {q[1] : q \in Z} \subseteq Nat /\ {q[1] : q \in Z} # {}
  BY <1>1, <1>2
<1>4. PICK i \in {q[1] : q \in Z} : \A j \in {q[1] : q \in Z} : i <= j
  BY <1>3, LeastNumber
<1>5. {q[2] : q \in {x \in Z : x[1] = i}} \subseteq Nat /\ {q[2] : q \in {x \in Z : x[1] = i}} # {}
  BY <1>1, <1>4
<1>6. PICK k \in {q[2] : q \in {x \in Z : x[1] = i}} : \A j \in {q[2] : q \in {x \in Z : x[1] = i}} : k <= j
  BY <1>5, LeastNumber
<1>7. PICK q \in Z : q[1] = i /\ q[2] = k
  BY <1>6
<1>8. ASSUME NEW o \in Z
      PROVE  ~ X!Earlier(o, q)
  <2>1. i <= o[1] /\ (o[1] = i => k <= o[2])
    BY <1>4, <1>6
  <2>2. o[1] \in Nat /\ o[2] \in Nat /\ q[1] \in Nat /\ q[2] \in Nat
    BY <1>1
  <2> QED
    BY <1>7, <2>1, <2>2 DEF X!Earlier
<1> QED
  BY <1>7, <1>8

LEMMA CallsAreTold ==
  ASSUME NEW d, DatabasesOK(d), NEW c \in X!Matched(d).calls
  PROVE  \E t \in {e.call : e \in X!Matched(d).edges} \cup {p.call : p \in X!Matched(d).potential} :
           X!CallKey(t) = X!CallKey(c)
<1> DEFINE MM == MatchedIn(d)
           AA == AmbiguousIn(d)
           Named == {e.call : e \in X!Matched(d).edges} \cup {p.call : p \in X!Matched(d).potential}
<1>1. ASSUME NEW m \in MM
      PROVE  m \in Named
  <2>1. PICK b : X!Best(FoundFor(d, m)) = {b}
    BY DEF MatchedIn, X!Settled
  <2>2. [call |-> m, to |-> b] \in X!Matched(d).edges
    BY <2>1, MatchedIs
  <2>3. m = [call |-> m, to |-> b].call
    OBVIOUS
  <2> QED
    BY <2>2, <2>3
<1>2. ASSUME NEW a \in AA
      PROVE  a \in Named
  <2>1. [kind |-> "ambiguous", call |-> a] \in X!Matched(d).potential
    BY MatchedIs DEF X!Potential, X!Ambiguous
  <2>2. a = [kind |-> "ambiguous", call |-> a].call
    OBVIOUS
  <2> QED
    BY <2>1, <2>2
<1>3. CASE X!CallKey(c) \in X!KeysOf(MM \cup AA)
  <2>1. PICK m \in MM \cup AA : X!CallKey(m) = X!CallKey(c)
    BY <1>3 DEF X!KeysOf
  <2> QED
    BY <1>1, <1>2, <2>1
<1>4. CASE X!CallKey(c) \notin X!KeysOf(MM \cup AA)
  <2>1. DOMAIN X!Outbound(d) = X!Places(d)
    BY DEF X!Outbound
  <2>2. PICK p \in X!Places(d) : c = X!Outbound(d)[p]
    BY <2>1, MatchedIs DEF CallsOf
  <2>3. PICK q \in X!Places(d) :
           /\ X!CallKey(X!Outbound(d)[q]) = X!CallKey(c)
           /\ \A o \in X!Places(d) : X!Earlier(o, q) => X!CallKey(X!Outbound(d)[o]) # X!CallKey(c)
    BY <2>2, FirstOfKey
  <2>4. [kind |-> X!Kind(X!Outbound(d)[q]), call |-> X!Outbound(d)[q]]
          \in X!Potential(X!Outbound(d), MM, AA)
    BY <1>4, <2>1, <2>3 DEF X!Potential
  <2>5. X!Outbound(d)[q] = [kind |-> X!Kind(X!Outbound(d)[q]), call |-> X!Outbound(d)[q]].call
    OBVIOUS
  <2>6. X!Outbound(d)[q] \in Named
    BY <2>4, <2>5, MatchedIs
  <2> QED
    BY <2>3, <2>6
<1> QED
  BY <1>3, <1>4

-----------------------------------------------------------------------------
LEMMA ExtractedIs ==
  ASSUME LinkingInv, NEW r \in Range(Repositories), db[r] # None
  PROVE  \E l : X!Extracted(r) = [seen |-> db[r], languages |-> l]
<1>1. CASE X!Hit(r)
  <2>1. HeldOK(r)
    BY <1>1 DEF LinkingInv, X!Hit
  <2>2. PICK s, l : cache[r] = [seen |-> s, languages |-> l]
    BY <2>1 DEF HeldOK
  <2> QED
    BY <1>1, <2>2 DEF X!Hit, X!Extracted
<1>2. CASE ~ X!Hit(r)
  BY <1>2 DEF X!Extracted
<1> QED
  BY <1>1, <1>2

LEMMA AnalyzeStep ==
  ASSUME LinkingInv, X!Analyze
  PROVE  LinkingInv'
<1> DEFINE seen == [r \in DOMAIN db |-> IF db[r] = None THEN None ELSE X!Extracted(r).seen]
<1>1. DOMAIN db = Range(Repositories)
  BY DEF LinkingInv, DatabasesOK
<1>2. \A r \in DOMAIN db : (IF db[r] = None THEN None ELSE X!Extracted(r).seen) = db[r]
  BY <1>1, ExtractedIs
<1>3. seen = db
  <2>1. seen = [r \in DOMAIN db |-> db[r]]
    BY <1>2
  <2>2. db = [r \in DOMAIN db |-> db[r]]
    BY <1>1 DEF LinkingInv, DatabasesOK
  <2> QED
    BY <2>1, <2>2
<1>4. /\ linked'.result = X!Matched(seen) 
      /\ linked'.dependencies = X!DependsOn(X!Matched(seen).edges, linked'.messages)
      /\ analyzed' = db /\ db' = db
  BY DEF X!Analyze
<1> HIDE DEF seen
<1>5. \E d : DatabasesOK(d) /\ analyzed' = d /\ LinkedBy(d)'
  <2>1. PICK d : d = db
    OBVIOUS
  <2>2. linked'.result = X!Matched(d) /\ linked'.dependencies = X!DependsOn(linked'.result.edges, linked'.messages)
    BY <1>3, <1>4, <2>1
  <2>3. LinkedBy(d)'
    BY <2>2 DEF LinkedBy
  <2> QED
    BY <1>4, <2>1, <2>3 DEF LinkingInv
<1>6. cache' = [r \in DOMAIN db |-> IF db[r] = None THEN cache[r] ELSE X!Held(r)]
  BY DEF X!Analyze
<1>7. ASSUME NEW r \in Range(Repositories)
      PROVE  cache'[r] = None \/ HeldOK(r)'
  <2>1. CASE db[r] = None
    <3>1. cache'[r] = cache[r]
      BY <1>1, <1>6, <2>1
    <3> QED
      BY <3>1 DEF LinkingInv, HeldOK
  <2>2. CASE db[r] # None
    <3>1. cache'[r] = X!Held(r)
      BY <1>1, <1>6, <2>2
    <3>2. PICK l : X!Extracted(r) = [seen |-> db[r], languages |-> l]
      BY <2>2, ExtractedIs
    <3>3. \E k : X!Held(r) = [seen |-> db[r], languages |-> k]
      <4> DEFINE k == IF X!FirstOf(LogicalService[r]) = r THEN X!Merged(LogicalService[r]) ELSE l
      <4>1. X!Held(r) = [[seen |-> db[r], languages |-> l] EXCEPT !.languages = k]
        BY <3>2 DEF X!Held
      <4>2. X!Held(r) = [seen |-> db[r], languages |-> k]
        BY <4>1
      <4> QED
        BY <4>2
    <3>4. db[r] \in X!Contents[r]
      BY <2>2 DEF LinkingInv, DatabasesOK
    <3> QED
      BY <3>1, <3>3, <3>4 DEF HeldOK
  <2> QED
    BY <2>1, <2>2
<1>8. DOMAIN cache' = Range(Repositories)
  BY <1>1, <1>6
<1>9. DatabasesOK(db)'
  BY <1>4 DEF LinkingInv, DatabasesOK
<1> QED
  BY <1>5, <1>7, <1>8, <1>9 DEF LinkingInv, DatabasesOK

LEMMA ChangeStep ==
  ASSUME LinkingInv, NEW r \in X!Registered, X!Change(r)
  PROVE  LinkingInv'
<1>1. r \in Range(Repositories)
  BY DEF X!Registered, Range
<1>2. PICK c \in X!Contents[r] \cup {None} : db' = [db EXCEPT ![r] = c]
  BY DEF X!Change
<1>3. DOMAIN db = Range(Repositories)
  BY DEF LinkingInv, DatabasesOK
<1>4. \A s \in Range(Repositories) : db'[s] = IF s = r THEN c ELSE db[s]
  BY <1>1, <1>2, <1>3
<1>5. db' = [s \in Range(Repositories) |-> db'[s]]
  BY <1>2, <1>3
<1>6. DatabasesOK(db)'
  BY <1>2, <1>4, <1>5 DEF LinkingInv, DatabasesOK
<1>7. cache' = cache /\ linked' = linked /\ analyzed' = analyzed
  BY DEF X!Change
<1> QED
  BY <1>6, <1>7 DEF LinkingInv, DatabasesOK, HeldOK, LinkedBy

LEMMA LinkingStep ==
  ASSUME LinkingInv, X!Next
  PROVE  LinkingInv'
BY AnalyzeStep, ChangeStep DEF X!Next

LEMMA LinkingStarts ==
  ASSUME X!Init
  PROVE  LinkingInv
<1>1. db \in Databases /\ analyzed = None /\ linked = X!Empty
  BY DEF X!Init
<1>2. cache = [r \in Range(Repositories) |-> None]
  BY DEF X!Init, X!Registered, Range
<1>3. db \in [Range(Repositories) -> Range(db)]
  BY <1>1, DatabasesAssumption
<1>4. \A r \in Range(Repositories) : db[r] \in X!Contents[r]
  BY <1>1, ContentsAre
<1>5. DatabasesOK(db)
  BY <1>3, <1>4 DEF DatabasesOK
<1> QED
  BY <1>1, <1>2, <1>5 DEF LinkingInv

LEMMA LinkingImplies ==
  ASSUME LinkingInv
  PROVE  /\ X!TypeOK /\ X!WarmIsCold /\ X!ExternalStaysExternal /\ X!NoGuess
         /\ X!DependenciesHaveEvidence /\ X!EveryCallIsTold
<1>1. linked = X!Empty \/ (DatabasesOK(analyzed) /\ LinkedBy(analyzed))
  BY DEF LinkingInv
<1>2. linked = X!Empty =>
        /\ X!Result.edges = {} /\ X!Result.calls = {} /\ linked.messages = {}
        /\ linked.dependencies = [s \in X!ServiceNames |-> {}]
  BY DEF X!Result, X!Empty
<1>3. ~ (linked = X!Empty) => X!Result = X!Matched(analyzed)
  BY <1>1 DEF X!Result, LinkedBy
<1>4. X!TypeOK
  <2>1. \A r \in Range(Repositories) : cache[r] = None \/ cache[r].seen \in X!Contents[r]
    BY DEF LinkingInv, HeldOK
  <2>2. ASSUME NEW e \in X!Result.edges
        PROVE  e.call \in X!Result.calls /\ e.to.service \in X!ServiceNames
    <3>1. X!Result = X!Matched(analyzed)
      BY <1>2, <1>3
    <3>2. e.call \in MatchedIn(analyzed) /\ e.to.service \in X!ServiceNames
      BY <3>1, EdgeIs, CandidatesAre
    <3> QED
      BY <3>1, <3>2, MatchedIs DEF MatchedIn
  <2> QED
    BY <2>1, <2>2 DEF X!TypeOK, LinkingInv, DatabasesOK, X!Registered, Range
<1>5. X!WarmIsCold
  BY DEF X!WarmIsCold, LinkingInv, X!Result, LinkedBy
<1>6. X!ExternalStaysExternal
  BY <1>2, <1>3, EdgeIs, CandidatesAre DEF X!ExternalStaysExternal
<1>7. X!NoGuess
  BY <1>2, <1>3, EdgesAreNoGuess DEF X!NoGuess
<1>8. X!DependenciesHaveEvidence
  <2> SUFFICES ASSUME NEW s \in X!ServiceNames, NEW t \in X!ServiceNames
               PROVE  t \in linked.dependencies[s] <=>
                        \/ \E e \in X!Result.edges : e.call.service = s /\ e.to.service = t
                        \/ \E m \in linked.messages : m.source = s /\ m.target = t
    BY DEF X!DependenciesHaveEvidence
  <2>1. CASE linked = X!Empty
    BY <1>2, <2>1
  <2>2. CASE linked.dependencies = X!DependsOn(X!Result.edges, linked.messages)
    BY <2>2 DEF X!DependsOn
  <2> QED
    BY <1>1, <2>1, <2>2 DEF LinkedBy, X!Result
<1>9. X!EveryCallIsTold
  <2> SUFFICES ASSUME NEW c \in X!Result.calls
               PROVE  \E t \in {e.call : e \in X!Result.edges} \cup {p.call : p \in X!Result.potential} :
                        X!CallKey(t) = X!CallKey(c)
    BY DEF X!EveryCallIsTold
  <2>1. DatabasesOK(analyzed) /\ X!Result = X!Matched(analyzed)
    BY <1>1, <1>2, <1>3
  <2> QED
    BY <2>1, CallsAreTold
<1> QED
  BY <1>4, <1>5, <1>6, <1>7, <1>8, <1>9

-----------------------------------------------------------------------------
(* What is observed of the running services. *)

TraceOrNone == O!TraceIds \cup {None}
FeatureOrNone == DOMAIN Features \cup {None}
Items == {[kind |-> "span", of |-> x] : x \in Spans} \cup {[kind |-> "log", of |-> x] : x \in Logs}
Observable == {O!Span(x) : x \in Spans} \cup {[O!Span(x) EXCEPT !.kind = "error"] : x \in Spans}
              \cup {O!Log(x) : x \in Logs}
Rows == [of : Observable, feature : FeatureOrNone]

(* What holds of the rows of a payload. *)
Associated(rows) ==
    \A i, j \in DOMAIN rows :
      /\ O!IsSpan(rows[i].of) /\ rows[i].feature # None /\ rows[i].of.trace # None
      /\ rows[j].of.trace = rows[i].of.trace /\ ~ O!IsSpan(rows[j].of)
      => rows[j].feature # None
Validated(answer, known, rows) ==
    LET groups == O!Groups(rows)
        taken == O!Matched(known, groups)
        static == {e \in DOMAIN known : taken[e] = None}
    IN  answer = [confirmed |-> {<<e, taken[e]>> : e \in DOMAIN known \ static},
                  staticOnly |-> static,
                  runtimeOnly |-> {i \in DOMAIN groups : \A e \in DOMAIN known : taken[e] # i},
                  groups |-> groups]

ObservingInv ==
    /\ topology \in StaticEdges /\ payload \in Seq(Items)
    /\ \A o \in observations : o.of \in Observable
    /\ DOMAIN traces = O!TraceIds /\ \A t \in O!TraceIds : traces[t] \in FeatureOrNone
    /\ batch \in Seq(Rows) /\ Associated(batch)
    /\ \A i \in DOMAIN batch :
         batch[i].of.trace # None /\ batch[i].feature # None => traces[batch[i].of.trace] # None
    /\ \A i \in DOMAIN batch : ~ O!IsSpan(batch[i].of) => \A o \in observations : ~ O!IsSpan(o.of)
    /\ stored \in Seq(Seq(Rows)) /\ \A p \in DOMAIN stored : Associated(stored[p])
    /\ result = None \/ \E known, rows :
         /\ known = topology /\ stored # <<>> /\ rows = stored[Len(stored)]
         /\ Validated(result, known, rows)

(* The lowest of some numbers. *)
LEMMA LowestIs ==
  ASSUME NEW Z, Z \subseteq Nat
  PROVE  /\ Z = {} => O!Lowest(Z) = None
         /\ Z # {} => O!Lowest(Z) \in Z /\ O!Lowest(Z) # None
<1>1. CASE Z = {}
  BY <1>1 DEF O!Lowest
<1>2. CASE Z # {}
  <2>1. \E i \in Z : \A j \in Z : i <= j
    BY <1>2, LeastNumber
  <2>2. O!Lowest(Z) \in Z
    BY <1>2, <2>1 DEF O!Lowest
  <2> QED
    BY <1>2, <2>2, TelemetryAssumption
<1> QED
  BY <1>1, <1>2

LEMMA TraceIs ==
  ASSUME NEW x \in Observable
  PROVE  x.trace \in TraceOrNone
<1>1. \A s \in Spans : s.trace \in TraceOrNone /\ O!Span(s).trace = s.trace
  BY DEF O!Span, O!TraceIds, TraceOrNone
<1>2. \A s \in Spans : [O!Span(s) EXCEPT !.kind = "error"].trace = s.trace
  BY DEF O!Span
<1>3. \A l \in Logs : l.trace \in TraceOrNone /\ O!Log(l).trace = l.trace
  BY DEF O!Log, O!TraceIds, TraceOrNone
<1>4. \/ \E s \in Spans : x = O!Span(s) \/ x = [O!Span(s) EXCEPT !.kind = "error"]
      \/ \E l \in Logs : x = O!Log(l)
  BY DEF Observable
<1>5. ASSUME NEW s \in Spans, x = O!Span(s) \/ x = [O!Span(s) EXCEPT !.kind = "error"]
      PROVE  x.trace \in TraceOrNone
  <2>1. O!Span(s).trace = s.trace /\ [O!Span(s) EXCEPT !.kind = "error"].trace = s.trace
    BY <1>1, <1>2
  <2>2. x.trace = s.trace
    BY <1>5, <2>1
  <2> QED
    BY <1>1, <2>2
<1> QED
  BY <1>3, <1>4, <1>5

LEMMA FeatureIs ==
  ASSUME ObservingInv, NEW x \in Observable
  PROVE  /\ O!FeatureOf(x) \in FeatureOrNone
         /\ x.trace # None /\ traces[x.trace] # None => O!FeatureOf(x) # None
<1>1. DOMAIN Features \subseteq Nat /\ None \notin Nat
  BY TelemetryAssumption
<1>2. O!ByPath(x) \in FeatureOrNone
  <2> DEFINE Z == {i \in DOMAIN Features :
                     /\ x.path # None /\ <<x.path, Features[i].path>> \in Fits
                     /\ x.method \in {None, Features[i].method}}
  <2>1. Z \subseteq Nat
    BY <1>1
  <2>2. O!ByPath(x) = O!Lowest(Z)
    BY DEF O!ByPath
  <2>3. Z \subseteq DOMAIN Features
    OBVIOUS
  <2> HIDE DEF Z
  <2> QED
    BY <2>1, <2>2, <2>3, LowestIs DEF FeatureOrNone
<1>3. x.trace # None => traces[x.trace] \in FeatureOrNone
  BY TraceIs DEF ObservingInv, TraceOrNone
<1> QED
  BY <1>1, <1>2, <1>3 DEF O!FeatureOf, FeatureOrNone

-----------------------------------------------------------------------------
LEMMA CollectedIs ==
  ASSUME payload \in Seq(Items), NEW o \in O!Collected(payload)
  PROVE  o.of \in Observable
<1>1. PICK i \in DOMAIN payload : \E n \in 0 .. O!Errors(payload[i]) :
        o = [of |-> O!Observed(payload[i], n), from |-> payload[i].kind, item |-> i, nth |-> n]
  BY DEF O!Collected
<1>2. PICK n : o.of = O!Observed(payload[i], n)
  BY <1>1
<1>3. payload[i] \in Items
  BY <1>1
<1>4. CASE \E x \in Spans : payload[i] = [kind |-> "span", of |-> x]
  <2>1. PICK x \in Spans : payload[i] = [kind |-> "span", of |-> x]
    BY <1>4
  <2>2. payload[i].kind = "span" /\ payload[i].of = x
    BY <2>1
  <2>3. o.of = O!Span(x) \/ o.of = [O!Span(x) EXCEPT !.kind = "error"]
    BY <1>2, <2>2 DEF O!Observed
  <2> QED
    BY <2>3 DEF Observable
<1>5. CASE \E x \in Logs : payload[i] = [kind |-> "log", of |-> x]
  <2>1. PICK x \in Logs : payload[i] = [kind |-> "log", of |-> x]
    BY <1>5
  <2>2. payload[i].kind = "log" /\ payload[i].of = x
    BY <2>1
  <2>3. o.of = O!Log(x)
    BY <1>2, <2>2 DEF O!Observed
  <2> QED
    BY <2>3 DEF Observable
<1> QED
  BY <1>3, <1>4, <1>5 DEF Items

LEMMA ReceiveStep ==
  ASSUME ObservingInv, O!Receive
  PROVE  ObservingInv'
<1>1. UNCHANGED <<topology, observations, traces, batch, stored, result>>
  BY DEF O!Receive
<1>2. payload' \in Seq(Items)
  <2>1. PICK item \in Items : payload' = Append(payload, item)
    BY DEF O!Receive, Items
  <2> QED
    BY <2>1 DEF ObservingInv
<1> QED
  BY <1>1, <1>2 DEF ObservingInv, Associated, Validated

LEMMA IngestStep ==
  ASSUME ObservingInv, O!Ingest
  PROVE  ObservingInv'
<1>1. /\ UNCHANGED <<topology, payload, batch, stored, result>> /\ batch = <<>>
      /\ observations' = O!Collected(payload) /\ traces' = [t \in O!TraceIds |-> None]
  BY DEF O!Ingest
<1>2. \A o \in observations' : o.of \in Observable
  BY <1>1, CollectedIs DEF ObservingInv
<1>3. DOMAIN traces' = O!TraceIds /\ \A t \in O!TraceIds : traces'[t] \in FeatureOrNone
  BY <1>1 DEF FeatureOrNone
<1>4. DOMAIN batch' = {}
  BY <1>1
<1> QED
  BY <1>1, <1>2, <1>3, <1>4 DEF ObservingInv, Associated, Validated

LEMMA InsertStep ==
  ASSUME ObservingInv, NEW o \in observations, O!Insert(o)
  PROVE  ObservingInv'
<1> DEFINE x == o.of
           f == O!FeatureOf(x)
           row == [of |-> x, feature |-> f]
<1>1. /\ UNCHANGED <<topology, payload, stored, result>>
      /\ batch' = Append(batch, row) /\ observations' = observations \ {o}
      /\ traces' = IF x.trace # None /\ f # None THEN [traces EXCEPT ![x.trace] = f] ELSE traces
      /\ \A p \in observations \ {o} : O!SpansFirst(o, p)
  BY DEF O!Insert
<1>2. x \in Observable /\ f \in FeatureOrNone /\ x.trace \in TraceOrNone
  BY TraceIs, FeatureIs DEF ObservingInv
<1>3. x.trace # None /\ traces[x.trace] # None => f # None
  BY <1>2, FeatureIs
<1> HIDE DEF x, f
<1>4. /\ batch' \in Seq(Rows) /\ DOMAIN batch' = 1 .. Len(batch) + 1
      /\ batch'[Len(batch) + 1] = row /\ \A i \in DOMAIN batch : batch'[i] = batch[i]
      /\ \A i \in DOMAIN batch' : i \in DOMAIN batch \/ i = Len(batch) + 1
  BY <1>1, <1>2 DEF ObservingInv, Rows
<1>5. DOMAIN traces' = O!TraceIds /\ \A t \in O!TraceIds : traces'[t] \in FeatureOrNone
                                     /\ (traces[t] # None => traces'[t] # None)
  BY <1>1, <1>2 DEF ObservingInv
<1>6. x.trace # None /\ f # None => traces'[x.trace] # None
  BY <1>1, <1>2 DEF ObservingInv, TraceOrNone
<1>7. \A i \in DOMAIN batch : batch[i].of.trace \in TraceOrNone
  <2>1. \A i \in DOMAIN batch : batch[i] \in Rows
    BY DEF ObservingInv
  <2> QED
    BY <2>1, TraceIs DEF Rows
<1>8. ASSUME NEW i \in DOMAIN batch', batch'[i].of.trace # None, batch'[i].feature # None
      PROVE  traces'[batch'[i].of.trace] # None
  <2>1. CASE i \in DOMAIN batch
    BY <1>4, <1>5, <1>7, <1>8, <2>1 DEF ObservingInv, TraceOrNone
  <2>2. CASE i = Len(batch) + 1
    BY <1>4, <1>6, <1>8, <2>2
  <2> QED
    BY <1>4, <2>1, <2>2
<1>9. ~ O!IsSpan(x) => \A p \in observations : ~ O!IsSpan(p.of)
  <2>1. ASSUME ~ O!IsSpan(x), NEW p \in observations, p # o
        PROVE  ~ O!IsSpan(p.of)
    BY <1>1, <2>1 DEF O!SpansFirst, x
  <2> QED
    BY <2>1 DEF x
<1>10. ASSUME NEW i \in DOMAIN batch', ~ O!IsSpan(batch'[i].of), NEW p \in observations'
       PROVE  ~ O!IsSpan(p.of)
  <2>1. p \in observations
    BY <1>1
  <2>2. CASE i \in DOMAIN batch
    BY <1>4, <1>10, <2>1, <2>2 DEF ObservingInv
  <2>3. CASE i = Len(batch) + 1
    BY <1>4, <1>9, <1>10, <2>1, <2>3
  <2> QED
    BY <1>4, <2>2, <2>3
<1>11. ASSUME NEW i \in DOMAIN batch', NEW j \in DOMAIN batch',
              O!IsSpan(batch'[i].of), batch'[i].feature # None, batch'[i].of.trace # None,
              batch'[j].of.trace = batch'[i].of.trace, ~ O!IsSpan(batch'[j].of)
       PROVE  batch'[j].feature # None
  <2>1. CASE i \in DOMAIN batch /\ j \in DOMAIN batch
    BY <1>4, <1>11, <2>1 DEF ObservingInv, Associated
  <2>2. CASE i = Len(batch) + 1 /\ j \in DOMAIN batch
    <3>1. O!IsSpan(x) /\ ~ O!IsSpan(batch[j].of)
      BY <1>4, <1>11, <2>2
    <3> QED
      BY <2>2, <3>1 DEF ObservingInv, x
  <2>3. CASE i \in DOMAIN batch /\ j = Len(batch) + 1
    <3>1. traces[batch[i].of.trace] # None /\ x.trace = batch[i].of.trace /\ x.trace # None
      BY <1>4, <1>11, <2>3 DEF ObservingInv
    <3> QED
      BY <1>3, <1>4, <2>3, <3>1
  <2>4. CASE i = j
    BY <1>11, <2>4
  <2> QED
    BY <1>4, <2>1, <2>2, <2>3, <2>4
<1>12. Associated(batch)'
  BY <1>11 DEF Associated, O!IsSpan
<1>13. \A p \in observations' : p.of \in Observable
  BY <1>1 DEF ObservingInv
<1> QED
  <2>1. \A p \in DOMAIN stored' : Associated(stored'[p])
    BY <1>1 DEF ObservingInv
  <2>2. result' = None \/ \E known, rows :
          /\ known = topology' /\ stored' # <<>> /\ rows = stored'[Len(stored')]
          /\ Validated(result', known, rows)
    BY <1>1 DEF ObservingInv
  <2>3. topology' \in StaticEdges /\ payload' \in Seq(Items) /\ stored' \in Seq(Seq(Rows))
    BY <1>1 DEF ObservingInv
  <2> QED
    BY <1>4, <1>5, <1>8, <1>10, <1>12, <1>13, <2>1, <2>2, <2>3 DEF ObservingInv, Validated, Associated

LEMMA CommitRowsStep ==
  ASSUME ObservingInv, O!Commit
  PROVE  ObservingInv'
<1>1. /\ UNCHANGED <<topology, observations, traces>> /\ stored' = Append(stored, batch)
      /\ result' = O!Validation(batch) /\ payload' = <<>> /\ batch' = <<>>
  BY DEF O!Commit
<1>2. stored' \in Seq(Seq(Rows)) /\ stored' # <<>> /\ stored'[Len(stored')] = batch
      /\ \A p \in DOMAIN stored' : (p \in DOMAIN stored /\ stored'[p] = stored[p]) \/ stored'[p] = batch
  <2>1. stored \in Seq(Seq(Rows)) /\ batch \in Seq(Rows)
    BY DEF ObservingInv
  <2> DEFINE A == Seq(Rows)
  <2> HIDE DEF A
  <2>2. stored \in Seq(A) /\ batch \in A
    BY <2>1 DEF A
  <2>3. /\ Append(stored, batch) \in Seq(A) /\ Append(stored, batch) # <<>>
        /\ Append(stored, batch)[Len(Append(stored, batch))] = batch
        /\ \A p \in DOMAIN Append(stored, batch) :
             (p \in DOMAIN stored /\ Append(stored, batch)[p] = stored[p]) \/ Append(stored, batch)[p] = batch
    BY <2>2
  <2> QED
    BY <1>1, <2>3 DEF A
<1>3. \A p \in DOMAIN stored' : Associated(stored'[p])
  BY <1>2 DEF ObservingInv
<1>4. payload' \in Seq(Items) /\ batch' \in Seq(Rows) /\ DOMAIN batch' = {}
  BY <1>1
<1>5. \E known, rows : /\ known = topology' /\ stored' # <<>> /\ rows = stored'[Len(stored')]
                       /\ Validated(result', known, rows)
  <2>1. PICK known, rows : known = topology /\ rows = batch
    OBVIOUS
  <2>2. Validated(result', known, rows)
    BY <1>1, <2>1 DEF O!Validation, Validated
  <2> QED
    BY <1>1, <1>2, <2>1, <2>2
<1> QED
  BY <1>1, <1>2, <1>3, <1>4, <1>5 DEF ObservingInv, Associated, Validated

LEMMA RollbackStep ==
  ASSUME ObservingInv, O!Rollback
  PROVE  ObservingInv'
<1>1. /\ UNCHANGED <<topology, payload, traces, stored, result>> /\ observations' = {} /\ batch' = <<>>
  BY DEF O!Rollback
<1>2. batch' \in Seq(Rows) /\ DOMAIN batch' = {}
  BY <1>1
<1> QED
  BY <1>1, <1>2 DEF ObservingInv, Associated, Validated

LEMMA ObservingStep ==
  ASSUME ObservingInv, O!Next
  PROVE  ObservingInv'
BY ReceiveStep, IngestStep, InsertStep, CommitRowsStep, RollbackStep DEF O!Next

LEMMA ObservingStarts ==
  ASSUME O!Init
  PROVE  ObservingInv
<1>1. /\ topology \in StaticEdges /\ payload = <<>> /\ observations = {} /\ batch = <<>> /\ stored = <<>>
      /\ traces = [t \in O!TraceIds |-> None] /\ result = None
  BY DEF O!Init
<1>2. /\ payload \in Seq(Items) /\ batch \in Seq(Rows) /\ stored \in Seq(Seq(Rows))
      /\ DOMAIN batch = {} /\ DOMAIN stored = {}
  BY <1>1
<1> QED
  BY <1>1, <1>2 DEF ObservingInv, Associated, FeatureOrNone

-----------------------------------------------------------------------------
(* Every span is counted by the group of the first that is like it. *)
LEMMA OneGroupCounts ==
  ASSUME NEW rows, NEW R0, rows \in Seq(R0), NEW i \in DOMAIN rows
  PROVE  LET counting == {g \in DOMAIN O!Groups(rows) : i \in O!Groups(rows)[g].counted}
         IN  IF O!IsSpan(rows[i].of) THEN \E g \in counting : counting = {g} ELSE counting = {}
<1> DEFINE counting == {g \in DOMAIN O!Groups(rows) : i \in O!Groups(rows)[g].counted}
           Same == {j \in DOMAIN rows : O!Alike(rows, j, i)}
<1>1. counting = {g \in O!Leaders(rows) : O!Alike(rows, g, i)}
  BY DEF O!Groups
<1>2. ~ O!IsSpan(rows[i].of) => counting = {}
  BY <1>1 DEF O!Alike
<1>3. ASSUME O!IsSpan(rows[i].of)
      PROVE  \E g \in counting : counting = {g}
  <2>1. i \in Same
    BY <1>3 DEF O!Alike
  <2>2. DOMAIN rows = 1 .. Len(rows) /\ Len(rows) \in Nat
    OBVIOUS
  <2>3. PICK g \in Same : \A j \in Same : g <= j
    <3>1. Same \subseteq Nat /\ Same # {}
      BY <2>1, <2>2
    <3> QED
      BY <3>1, LeastNumber
  <2>4. ASSUME NEW j \in 1 .. g - 1
        PROVE  ~ O!Alike(rows, g, j)
    <3>1. j \in DOMAIN rows /\ ~ (g <= j)
      BY <2>2, <2>3, <2>4
    <3>2. ~ O!Alike(rows, j, i)
      BY <2>3, <3>1
    <3> QED
      BY <3>2, <2>3 DEF O!Alike
  <2>5. g \in counting
    BY <1>1, <2>3, <2>4 DEF O!Leaders, O!Alike
  <2>6. ASSUME NEW h \in counting
        PROVE  h = g
    <3>1. h \in O!Leaders(rows) /\ h \in Same
      BY <1>1 DEF O!Leaders
    <3>2. g <= h /\ h \in Nat /\ g \in Nat
      BY <2>2, <2>3, <3>1
    <3>3. O!Alike(rows, h, g)
      BY <2>3, <3>1 DEF O!Alike
    <3>4. ~ (g \in 1 .. h - 1)
      BY <3>1, <3>3 DEF O!Leaders
    <3>5. g \in 1 .. Len(rows)
      BY <2>2, <2>3
    <3> QED
      BY <3>2, <3>4, <3>5
  <2> QED
    BY <2>5, <2>6
<1> QED
  BY <1>2, <1>3

(* Static edges take groups one after the other. *)
Free(edges_, groups, taken, e) ==
    {i \in DOMAIN groups : O!Untaken(taken, e, i) /\ O!EdgeFits(edges_[e], groups[i].group)}

LEMMA TakenIs ==
  ASSUME NEW known \in StaticEdges, NEW groups, DOMAIN groups \subseteq Nat
  PROVE  O!Matched(known, groups) =
           [e \in DOMAIN known |-> O!Lowest(Free(known, groups, O!Matched(known, groups), e))]
<1> DEFINE Takes(n) == {f \in [1 .. n -> DOMAIN groups \cup {None}] :
                          \A e \in 1 .. n : f[e] = O!Lowest(Free(known, groups, f, e))}
<1>1. known \in Seq(Range(known))
  BY TelemetryAssumption
<1>2. ASSUME NEW n \in Nat, Takes(n) # {}
      PROVE  Takes(n + 1) # {}
  <2>1. PICK f \in Takes(n) : TRUE
    BY <1>2
  <2> DEFINE g == [e \in 1 .. n + 1 |-> IF e = n + 1 THEN O!Lowest(Free(known, groups, f, n + 1)) ELSE f[e]]
  <2>2. \A e \in 1 .. n + 1 : \A i : O!Untaken(f, e, i) <=> O!Untaken(g, e, i)
    <3>1. \A e \in 1 .. n + 1 : \A d \in 1 .. e - 1 : d \in 1 .. n
      OBVIOUS
    <3>2. \A d \in 1 .. n : g[d] = f[d]
      OBVIOUS
    <3> HIDE DEF g
    <3> QED
      BY <3>1, <3>2 DEF O!Untaken
  <2>3. \A e \in 1 .. n + 1 : Free(known, groups, f, e) = Free(known, groups, g, e)
    BY <2>2 DEF Free
  <2>4. \A e \in 1 .. n + 1 : g[e] = O!Lowest(Free(known, groups, g, e))
    BY <2>1, <2>3
  <2>5. \A e \in 1 .. n + 1 : O!Lowest(Free(known, groups, g, e)) \in DOMAIN groups \cup {None}
    BY LowestIs DEF Free
  <2>6. g \in [1 .. n + 1 -> DOMAIN groups \cup {None}]
    BY <2>4, <2>5
  <2> QED
    BY <2>4, <2>6
<1>3. Takes(0) # {}
  <2>1. [e \in 1 .. 0 |-> None] \in Takes(0)
    OBVIOUS
  <2> QED
    BY <2>1
<1> HIDE DEF Takes
<1>4. \A n \in Nat : Takes(n) # {}
  <2> DEFINE T == {n \in Nat : Takes(n) = {}}
  <2> SUFFICES ASSUME T # {}
               PROVE  FALSE
    OBVIOUS
  <2>1. PICK m \in T : \A k \in T : m <= k
    BY LeastNumber
  <2>2. m # 0 /\ m - 1 \in Nat /\ m - 1 \notin T
    BY <1>3, <2>1
  <2>3. Takes(m - 1 + 1) # {} /\ m - 1 + 1 = m
    BY <1>2, <2>2
  <2> QED
    BY <2>1, <2>3
<1>5. PICK f \in Takes(Len(known)) : TRUE
  BY <1>1, <1>4
<1>6. f = [e \in DOMAIN known |-> O!Lowest(Free(known, groups, f, e))]
  BY <1>1, <1>5 DEF Takes
<1>7. \E h : h = [e \in DOMAIN known |->
                    O!Lowest({i \in DOMAIN groups : O!Untaken(h, e, i) /\ O!EdgeFits(known[e], groups[i].group)})]
  BY <1>6 DEF Free
<1>8. O!Matched(known, groups) = CHOOSE h : h = [e \in DOMAIN known |->
                    O!Lowest({i \in DOMAIN groups : O!Untaken(h, e, i) /\ O!EdgeFits(known[e], groups[i].group)})]
  BY DEF O!Matched
<1> QED
  BY <1>7, <1>8 DEF Free

LEMMA ValidatedOnce ==
  ASSUME NEW answer, NEW known \in StaticEdges, NEW rows, NEW R0, rows \in Seq(R0),
         Validated(answer, known, rows)
  PROVE  /\ {c[1] : c \in answer.confirmed} \cup answer.staticOnly = DOMAIN known
         /\ {c[2] : c \in answer.confirmed} \cup answer.runtimeOnly = DOMAIN answer.groups
         /\ \A c, d \in answer.confirmed : (c[1] = d[1] \/ c[2] = d[2]) => c = d
         /\ \A e \in answer.staticOnly, i \in answer.runtimeOnly :
              ~ O!EdgeFits(known[e], answer.groups[i].group)
<1> DEFINE groups == O!Groups(rows)
           taken == O!Matched(known, groups)
           static == {e \in DOMAIN known : taken[e] = None}
           confirmed == {<<e, taken[e]>> : e \in DOMAIN known \ static}
           runtime == {i \in DOMAIN groups : \A e \in DOMAIN known : taken[e] # i}
<1>1. /\ answer.confirmed = confirmed /\ answer.staticOnly = static
      /\ answer.runtimeOnly = runtime /\ answer.groups = groups
  BY DEF Validated
<1>2. DOMAIN groups \subseteq Nat /\ DOMAIN known \subseteq Nat
  BY TelemetryAssumption DEF O!Groups, O!Leaders
<1>3. \A e \in DOMAIN known : taken[e] = O!Lowest(Free(known, groups, taken, e))
  <2>1. taken = [e \in DOMAIN known |-> O!Lowest(Free(known, groups, taken, e))]
    BY <1>2, TakenIs
  <2> HIDE DEF taken, groups
  <2> QED
    BY <2>1
<1> HIDE DEF groups, taken
<1>4. ASSUME NEW e \in DOMAIN known
      PROVE  /\ taken[e] = None => Free(known, groups, taken, e) = {}
             /\ taken[e] # None => taken[e] \in Free(known, groups, taken, e)
  BY <1>2, <1>3, LowestIs DEF Free
<1>5. \A e \in DOMAIN known \ static : taken[e] \in DOMAIN groups
  BY <1>4 DEF Free
<1>11. /\ \A c \in confirmed : \E e \in DOMAIN known \ static : c = <<e, taken[e]>> /\ c[1] = e /\ c[2] = taken[e]
       /\ \A e \in DOMAIN known \ static : \E c \in confirmed : c[1] = e /\ c[2] = taken[e]
  <2>1. \A e \in DOMAIN known \ static : <<e, taken[e]>>[1] = e /\ <<e, taken[e]>>[2] = taken[e]
    OBVIOUS
  <2> QED
    BY <2>1
<1>6. {c[1] : c \in confirmed} \cup static = DOMAIN known
  <2> HIDE DEF confirmed
  <2>1. ASSUME NEW x
        PROVE  x \in {c[1] : c \in confirmed} <=> x \in DOMAIN known \ static
    BY <1>11
  <2> QED
    BY <2>1
<1>7. {c[2] : c \in confirmed} \cup runtime = DOMAIN groups
  <2> HIDE DEF confirmed
  <2>1. ASSUME NEW x
        PROVE  x \in {c[2] : c \in confirmed} <=> \E e \in DOMAIN known \ static : x = taken[e]
    BY <1>11
  <2>2. ASSUME NEW x \in DOMAIN groups, x \notin runtime
        PROVE  \E e \in DOMAIN known \ static : x = taken[e]
    BY <1>2, <2>2, TelemetryAssumption
  <2>3. \A x : x \in {c[2] : c \in confirmed} => x \in DOMAIN groups
    BY <1>5, <2>1
  <2>4. \A x \in DOMAIN groups : x \in runtime \/ x \in {c[2] : c \in confirmed}
    BY <2>1, <2>2
  <2>5. runtime \subseteq DOMAIN groups
    OBVIOUS
  <2> HIDE DEF runtime
  <2> QED
    BY <2>3, <2>4, <2>5
<1>8. ASSUME NEW d \in DOMAIN known \ static, NEW e \in DOMAIN known \ static, taken[d] = taken[e]
      PROVE  d = e
  <2>1. ~ (d < e) /\ ~ (e < d)
    <3>1. ASSUME NEW a \in DOMAIN known, NEW b \in DOMAIN known \ static, a < b
          PROVE  taken[a] # taken[b]
      <4>1. O!Untaken(taken, b, taken[b])
        BY <1>4 DEF Free
      <4>2. a \in 1 .. b - 1
        <5>1. a \in 1 .. Len(known) /\ b \in Nat
          BY <1>2, TelemetryAssumption
        <5> QED
          BY <3>1, <5>1
      <4> QED
        BY <4>1, <4>2 DEF O!Untaken
    <3> QED
      BY <1>8, <3>1
  <2> QED
    BY <1>2, <2>1
<1>9. \A c, d \in confirmed : (c[1] = d[1] \/ c[2] = d[2]) => c = d
  BY <1>8
<1>10. ASSUME NEW e \in static, NEW i \in runtime
       PROVE  ~ O!EdgeFits(known[e], groups[i].group)
  <2>1. Free(known, groups, taken, e) = {}
    BY <1>4
  <2>2. O!Untaken(taken, e, i)
    <3>1. \A d \in 1 .. e - 1 : d \in DOMAIN known
      <4>1. e \in 1 .. Len(known) /\ DOMAIN known = 1 .. Len(known) /\ Len(known) \in Nat
        BY TelemetryAssumption
      <4> QED
        BY <4>1
    <3> QED
      BY <3>1 DEF O!Untaken
  <2> QED
    BY <2>1, <2>2 DEF Free
<1> QED
  BY <1>1, <1>6, <1>7, <1>9, <1>10

LEMMA ObservingImplies ==
  ASSUME ObservingInv
  PROVE  O!TypeOK /\ O!TracesAreAssociated /\ O!EverythingIsValidatedOnce
<1>1. ASSUME NEW p \in DOMAIN stored
      PROVE  stored[p] \in Seq(Rows)
  BY DEF ObservingInv
<1>2. ASSUME result # None
      PROVE  /\ stored[Len(stored)] \in Seq(Rows) /\ topology \in StaticEdges
             /\ Validated(result, topology, stored[Len(stored)])
  <2>1. PICK known, rows : /\ known = topology /\ stored # <<>> /\ rows = stored[Len(stored)]
                           /\ Validated(result, known, rows)
    BY <1>2 DEF ObservingInv
  <2> QED
    BY <2>1 DEF ObservingInv
<1>3. O!TypeOK
  <2>1. \A p \in DOMAIN stored : \A i \in DOMAIN stored[p] : stored[p][i].feature \in DOMAIN Features \cup {None}
    <3>1. ASSUME NEW p \in DOMAIN stored, NEW i \in DOMAIN stored[p]
          PROVE  stored[p][i] \in Rows
      BY <1>1
    <3> QED
      BY <3>1 DEF Rows, FeatureOrNone
  <2>2. ASSUME result # None, NEW i \in DOMAIN stored[Len(stored)]
        PROVE  LET counting == {g \in DOMAIN result.groups : i \in result.groups[g].counted}
               IN  IF O!IsSpan(stored[Len(stored)][i].of) THEN \E g \in counting : counting = {g}
                                                          ELSE counting = {}
    <3>1. result.groups = O!Groups(stored[Len(stored)])
      BY <1>2, <2>2 DEF Validated
    <3> QED
      BY <1>2, <2>2, <3>1, OneGroupCounts
  <2> QED
    BY <2>1, <2>2 DEF O!TypeOK
<1>4. O!TracesAreAssociated
  BY DEF O!TracesAreAssociated, ObservingInv, Associated
<1>5. O!EverythingIsValidatedOnce
  BY <1>2, ValidatedOnce DEF O!EverythingIsValidatedOnce
<1> QED
  BY <1>3, <1>4, <1>5

-----------------------------------------------------------------------------
TopologyInv ==
    /\ focus = "matching" => MatchingInv
    /\ focus = "linking" => LinkingInv
    /\ focus = "observing" => ObservingInv

LEMMA TopologyStarts == Init => TopologyInv
BY MatchingStarts, LinkingStarts, ObservingStarts DEF Init, TopologyInv

LEMMA MatchingSame ==
  ASSUME MatchingInv, UNCHANGED matching
  PROVE  MatchingInv'
<1>1. /\ facts' = facts /\ todo' = todo /\ dependencies' = dependencies /\ projections' = projections
      /\ candidates' = candidates /\ boundaries' = boundaries /\ alternatives' = alternatives
  BY DEF matching
<1>2. Seen' = Seen
  BY <1>1 DEF Seen
<1>3. /\ FactsOK' /\ todo' \subseteq M!Observations(facts)'
      /\ \A p \in Seen', q \in todo' : M!Before(p, q)'
  <2>1. ASSUME NEW p \in Seen', NEW q \in todo'
        PROVE  M!Before(p, q)'
    <3>1. M!Before(p, q)
      BY <1>1, <1>2, <2>1 DEF MatchingInv
    <3> QED
      BY <3>1 DEF M!Before, M!Place
  <2> QED
    BY <1>1, <2>1 DEF MatchingInv, FactsOK
<1>4. EdgesSound'
  BY <1>1, <1>2, SoundStays DEF MatchingInv, EdgesSound
<1>5. OthersSound'
  <2>1. \A d \in candidates' \cup boundaries' : \E p \in Seen' : Related(p, d)
    BY <1>1, <1>2 DEF MatchingInv, OthersSound
  <2>2. \A g \in alternatives' : AreAlternatives(g, Seen)'
    BY <1>1, <1>2, SoundStays DEF MatchingInv, OthersSound
  <2> QED
    BY <2>1, <2>2 DEF OthersSound, Related
<1>6. AllTold'
  <2>1. \A p : EdgesOf(p)' = EdgesOf(p) /\ OthersOf(p)' = OthersOf(p)
    BY <1>1 DEF EdgesOf, OthersOf
  <2>2. \A p \in Seen : ToldOnce(p) => ToldOnce(p)'
    BY <2>1 DEF ToldOnce
  <2> QED
    BY <1>2, <2>1, <2>2 DEF AllTold, MatchingInv
<1>7. M!ProjectionsAreSupported'
  BY <1>1 DEF MatchingInv, M!ProjectionsAreSupported, M!Key
<1> QED
  BY <1>3, <1>4, <1>5, <1>6, <1>7 DEF MatchingInv

LEMMA LinkingSame ==
  ASSUME LinkingInv, UNCHANGED linking
  PROVE  LinkingInv'
<1>1. db' = db /\ cache' = cache /\ linked' = linked /\ analyzed' = analyzed
  BY DEF linking
<1> QED
  BY <1>1 DEF LinkingInv, DatabasesOK, HeldOK, LinkedBy

LEMMA ObservingSame ==
  ASSUME ObservingInv, UNCHANGED observing
  PROVE  ObservingInv'
<1>1. UNCHANGED <<topology, payload, observations, traces, batch, stored, result>>
  BY DEF observing
<1> QED
  BY <1>1 DEF ObservingInv, Associated, Validated

LEMMA TopologyStep == TopologyInv /\ [Next]_vars => TopologyInv'
<1> SUFFICES ASSUME TopologyInv, [Next]_vars
             PROVE  TopologyInv'
  OBVIOUS
<1>1. focus' = focus
  BY DEF Next, vars
<1>2. CASE focus = "matching"
  <2>1. M!Next \/ UNCHANGED matching
    BY <1>2 DEF Next, vars, building
  <2> QED
    BY <1>1, <1>2, <2>1, MatchingStep, MatchingSame DEF TopologyInv
<1>3. CASE focus = "linking"
  <2>1. X!Next \/ UNCHANGED linking
    BY <1>3 DEF Next, vars, building
  <2> QED
    BY <1>1, <1>3, <2>1, LinkingStep, LinkingSame DEF TopologyInv
<1>4. CASE focus = "observing"
  <2>1. O!Next \/ UNCHANGED observing
    BY <1>4 DEF Next, vars, building
  <2> QED
    BY <1>1, <1>4, <2>1, ObservingStep, ObservingSame DEF TopologyInv
<1> QED
  BY <1>1, <1>2, <1>3, <1>4 DEF TopologyInv

(* What a topology says is supported, and nothing is passed over.  Of the  *)
(* calls between the members of a view each is an edge or told otherwise,  *)
(* once, and an edge is to the one member that the authority stands for.   *)
(* Of the registered repositories an edge is never a guess nor to a host   *)
(* that is not registered, and what was extracted before makes no          *)
(* difference.  And telemetry confirms every static edge by one group of   *)
(* spans at most, what belongs to a trace being associated with its        *)
(* feature.  For any facts, any databases and any telemetry.               *)
THEOREM TopologyIsSupportedHolds == Spec => []TopologyIsSupported
<1>1. TopologyInv => TopologyIsSupported
  BY MatchingImplies, LinkingImplies, ObservingImplies DEF TopologyInv, TopologyIsSupported
<1> QED
  BY <1>1, TopologyStarts, TopologyStep, PTL DEF Spec
=============================================================================
