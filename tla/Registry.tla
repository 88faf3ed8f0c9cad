------------------------------ MODULE Registry ------------------------------
(***************************************************************************)
(* The registry of services, a JSON file that requests and the command     *)
(* line rewrite without a lock (registry.py, infrastructure/               *)
(* registry_json.py), and its import into the snapshot catalog when a      *)
(* service starts (infrastructure/registry_snapshot_migration.py).  A save *)
(* replaces the file at once; between the load and the save of one writer  *)
(* others load and save.                                                   *)
(***************************************************************************)
EXTENDS Integers, Sequences, FiniteSets, Functions

CONSTANTS
    Writers,      \* threads and processes that change the file
    Servers,      \* processes that start upon the same data directory
    Names,        \* names of services
    PathLists,    \* the lists of repositories that are registered at once
    Basename,     \* of each path
    None,
    OwnRows,      \* members of scopes that services add to the catalog themselves
    MaxSaves,     \* bound on saves
    MaxCrashes    \* bound on crashes and on reads of the file that fail

VARIABLES
    file,         \* entries of the registry file, or None while there is none
    torn,         \* whether the file has no contents yet, and is not JSON
    requests,     \* per writer: the change it is making
    saves,        \* number of saves, the time of each
    servers,      \* per server: where its start is, and the bytes it has read
    backups,      \* contents that are backed up, by their digest
    catalog,      \* rows of the catalog: scopes, and members by scope and path
    marker,       \* the contents that were imported, or None
    crashes

vars == <<file, torn, requests, saves, servers, backups, catalog, marker, crashes>>

Paths == DOMAIN Basename
-----------------------------------------------------------------------------
Idle == [at |-> "idle"]
Down == [at |-> "down"]
Members(entry) == Range(entry.members)
At(entries, name) == {i \in DOMAIN entries : entries[i].name = name}
Selected(s, kept) ==   \* what s has at the positions in kept
    [k \in 1 .. Cardinality(kept) |-> s[CHOOSE i \in kept : Cardinality({j \in kept : j <= i}) = k]]
Truncated(entries, name) ==
    Selected(entries, {i \in DOMAIN entries : \A j \in At(entries, name) : i < j})
Without(entries, name) == Selected(entries, DOMAIN entries \ At(entries, name))
MembersOf(entries, name) == UNION {Members(entries[i]) : i \in At(entries, name)}

(* register_repo: the entries are gone through in order.  Up to that of    *)
(* the name none may have one of the paths; those behind it are not asked. *)
Before(entries, name) ==
    {i \in DOMAIN entries : \A j \in At(entries, name) : i < j}
Taken(entries, name, paths) ==
    \/ \E i \in Before(entries, name) : Members(entries[i]) \cap Range(paths) # {}
    \/ At(entries, name) # {} /\ Range(paths) \subseteq MembersOf(entries, name)

Appended(entries, name, paths) ==
    Append(entries, [name |-> name, members |-> paths, stamp |-> saves])
Registered(entries, name, paths) ==
    IF At(entries, name) = {} THEN Appended(entries, name, paths)
    ELSE [i \in DOMAIN entries |->
            IF entries[i].name # name THEN entries[i]
            ELSE [entries[i] EXCEPT !.stamp = saves,
                    !.members = @ \o Selected(paths, {k \in DOMAIN paths : paths[k] \notin Members(entries[i])})]]

(* refresh_meta scans the members again and dates the entry. *)
Refreshed(entries, name) ==
    [i \in DOMAIN entries |->
        IF entries[i].name = name THEN [entries[i] EXCEPT !.stamp = saves] ELSE entries[i]]

-----------------------------------------------------------------------------
(* Each change begins by making sure that there is a file.  Whether there  *)
(* is one is asked before one is opened, which empties it, and an empty    *)
(* list written in place.                                                  *)
Step(w, request) == requests' = [requests EXCEPT ![w] = request]
Save(entries) == file' = entries /\ torn' = FALSE /\ saves' = saves + 1
Unsaved == UNCHANGED <<file, torn, saves>>
Catalogued == <<servers, backups, catalog, marker>>

Begin ==
    \E w \in Writers, name \in Names, paths \in PathLists, kind \in {"register", "unregister", "remove"} :
      /\ requests[w] = Idle /\ saves < MaxSaves
      /\ kind = "register" \/ (file # None /\ At(file, name) # {} /\ Len(paths) = 1)
      /\ Step(w, [kind |-> kind, name |-> name, paths |-> paths, held |-> <<>>,
                  unread |-> FALSE, loaded |-> saves,
                  at |-> IF file = None THEN "create" ELSE "load"])
      /\ Unsaved /\ UNCHANGED <<crashes, Catalogued>>

Create ==
    \E w \in Writers :
      /\ requests[w].at = "create"
      /\ file' = <<>> /\ torn' = TRUE
      /\ Step(w, [requests[w] EXCEPT !.at = "fill", !.loaded = saves])
      /\ UNCHANGED <<saves, crashes, Catalogued>>

(* What is written goes to the file that was opened, which a save has put  *)
(* another in the place of.                                                *)
Fill ==
    \E w \in Writers :
      /\ requests[w].at = "fill"
      /\ torn' = (torn /\ requests[w].loaded # saves)
      /\ Step(w, [requests[w] EXCEPT !.at = "load"])
      /\ UNCHANGED <<file, saves, crashes, Catalogued>>

(* A file that cannot be read, or is not JSON, is taken for an empty one.  *)
Load ==
    \E w \in Writers, unread \in BOOLEAN :
      LET q == requests[w] IN
      /\ q.at \in {"load", "reload"} /\ (torn => unread)
      /\ IF unread /\ ~torn THEN crashes < MaxCrashes /\ crashes' = crashes + 1
                            ELSE UNCHANGED crashes
      /\ Step(w, [q EXCEPT !.at = IF q.at = "load" THEN q.kind ELSE "refresh",
                           !.held = IF unread THEN <<>> ELSE file,
                           !.unread = unread, !.loaded = saves])
      /\ Unsaved /\ UNCHANGED Catalogued

Register ==
    \E w \in Writers :
      LET q == requests[w] IN
      /\ q.at = "register"
      /\ IF Taken(q.held, q.name, q.paths) THEN Unsaved
         ELSE Save(Registered(q.held, q.name, q.paths))
      /\ Step(w, Idle)
      /\ UNCHANGED <<crashes, Catalogued>>

Unregister ==
    \E w \in Writers :
      LET q == requests[w] IN
      /\ q.at = "unregister"
      /\ Save(Without(q.held, q.name))
      /\ Step(w, Idle)
      /\ UNCHANGED <<crashes, Catalogued>>

(* unregister_member: the last member takes the service with it.  While    *)
(* others remain, the entry is changed in memory, and the file is loaded   *)
(* anew and saved by refresh_meta.                                         *)
RemoveMember ==
    \E w \in Writers :
      LET q == requests[w]
          members == MembersOf(q.held, q.name)
      IN  /\ q.at = "remove"
          /\ IF q.paths[1] \notin members THEN Step(w, Idle) /\ Unsaved
             ELSE IF members = {q.paths[1]}
             THEN Step(w, Idle) /\ Save(Without(q.held, q.name))
             ELSE Step(w, [q EXCEPT !.at = "reload"]) /\ Unsaved
          /\ UNCHANGED <<crashes, Catalogued>>

Refresh ==
    \E w \in Writers :
      LET q == requests[w] IN
      /\ q.at = "refresh"
      /\ IF At(q.held, q.name) = {} THEN Unsaved
         ELSE Save(Refreshed(q.held, q.name))
      /\ Step(w, Idle)
      /\ UNCHANGED <<crashes, Catalogued>>

-----------------------------------------------------------------------------
(* _parse_registry refuses paths, and last parts of paths, that repeat.    *)
Slots(entries) == UNION {{i} \X DOMAIN entries[i].members : i \in DOMAIN entries}
PathAt(entries, s) == entries[s[1]].members[s[2]]
Parsed(entries) ==
    \A s, u \in Slots(entries) :
      Basename[PathAt(entries, s)] = Basename[PathAt(entries, u)] => s = u
Scope(name) == [scope |-> name, path |-> None]
Rows(entries) ==
    {Scope(entries[i].name) : i \in DOMAIN entries} \cup
    {[scope |-> entries[s[1]].name, path |-> PathAt(entries, s)] : s \in Slots(entries)}

Become(s, server) == servers' = [servers EXCEPT ![s] = server]
Unwritten == <<file, torn, requests, saves>>

Importable == ~torn /\ Parsed(file)

(* A service that starts imports the file, unless it was imported before   *)
(* or there is none.  What is refused keeps the service from starting.     *)
Start ==
    \E s \in Servers :
      /\ servers[s] = Down
      /\ \/ (marker # None \/ file = None) /\ Become(s, [at |-> "up"])
         \/ marker = None /\ file # None /\ ~Importable /\ Become(s, [at |-> "refused"])
         \/ marker = None /\ file # None /\ Importable /\ Become(s, [at |-> "backup", raw |-> file])
      /\ UNCHANGED <<Unwritten, backups, catalog, marker, crashes>>

KeptCopy(raw) == IF backups = {} THEN {raw} ELSE backups
Copied(raw) == backups \cup {raw}
Backup ==
    \E s \in Servers :
      /\ servers[s].at = "backup"
      /\ backups' = Copied(servers[s].raw)
      /\ Become(s, [servers[s] EXCEPT !.at = "commit"])
      /\ UNCHANGED <<Unwritten, catalog, marker, crashes>>

(* One transaction: the rows and the marker, or neither. *)
Conflicts(rows) == \E x \in rows, y \in catalog : x.path = y.path /\ (x.path = None => x.scope = y.scope)
ImportedSame(raw) == marker = raw   \* mutation: each contents has a marker of its own
Imported(raw) == marker # None
Commit ==
    \E s \in Servers :
      LET raw == servers[s].raw IN
      /\ servers[s].at = "commit"
      /\ \/ /\ Imported(raw)
            /\ Become(s, [at |-> IF marker = raw THEN "up" ELSE "refused"])
            /\ UNCHANGED <<catalog, marker>>
         \/ /\ ~Imported(raw) /\ Conflicts(Rows(raw))
            /\ Become(s, [at |-> "refused"])
            /\ UNCHANGED <<catalog, marker>>
         \/ /\ ~Imported(raw) /\ ~Conflicts(Rows(raw))
            /\ catalog' = catalog \cup Rows(raw) /\ marker' = raw
            /\ Become(s, [at |-> "up"])
      /\ UNCHANGED <<Unwritten, backups, crashes>>

(* A service that is up adds scopes and members of its own, one by one. *)
AddRow ==
    \E s \in Servers, row \in OwnRows :
      /\ servers[s].at = "up" /\ ~Conflicts({row})
      /\ row.path # None => Scope(row.scope) \in catalog
      /\ catalog' = catalog \cup {row}
      /\ UNCHANGED <<Unwritten, servers, backups, marker, crashes>>

(* A server stops or dies, and is started again; a writer dies. *)
Crash ==
    /\ crashes < MaxCrashes /\ crashes' = crashes + 1
    /\ \/ \E s \in Servers : servers[s] # Down /\ Become(s, Down) /\ UNCHANGED requests
       \/ \E w \in Writers : requests[w] # Idle /\ Step(w, Idle) /\ UNCHANGED servers
    /\ Unsaved /\ UNCHANGED <<backups, catalog, marker>>

Init ==
    /\ file = None /\ torn = FALSE /\ requests = [w \in Writers |-> Idle] /\ saves = 0
    /\ servers = [s \in Servers |-> Down]
    /\ backups = {} /\ catalog = {} /\ marker = None /\ crashes = 0

Next ==
    \/ Begin \/ Create \/ Fill \/ Load \/ Register \/ Unregister \/ RemoveMember \/ Refresh
    \/ Start \/ Backup \/ Commit \/ AddRow \/ Crash

Spec == Init /\ [][Next]_vars
-----------------------------------------------------------------------------
(* Properties *)

(* The file names a service once and a member of it once, and a path of    *)
(* the catalog is in one scope only, which is in the catalog.              *)
TypeOK ==
    /\ torn => file = <<>>
    /\ file # None =>
         \A i \in DOMAIN file :
           /\ At(file, file[i].name) = {i} /\ Members(file[i]) \subseteq Paths
           /\ IsInjective(file[i].members) /\ file[i].members # <<>>
    /\ \A x, y \in catalog : x.path = y.path /\ x.path # None => x = y
    /\ \A x \in catalog : Scope(x.scope) \in catalog

(* Writers forget a service that they were not asked to remove only when   *)
(* another writer has saved between their load, or their look for a file,  *)
(* and their own save, or when they could not read the file: then they     *)
(* forget every one.                                                       *)
Asked(q, name) == q.kind \in {"unregister", "remove"} /\ q.name = name
Overtaken(q) == q.at = "create" \/ q.loaded # saves
OnlyOverlapForgets ==
    file # None =>
      \A i \in DOMAIN file :
        At(file', file[i].name) = {} =>
          \E w \in Writers :
            /\ requests[w] # Idle /\ requests'[w] # requests[w]
            /\ \/ Asked(requests[w], file[i].name)
               \/ Overtaken(requests[w]) \/ requests[w].unread

(* Once the registry is marked as imported, its contents are backed up and *)
(* every one of its members is in the catalog, whoever else started, wrote *)
(* or died meanwhile.                                                      *)
MarkedIsImported == marker # None => marker \in backups /\ Rows(marker) \subseteq catalog

(* The catalog takes in the contents of one file at most: what is written  *)
(* to the file later is neither added nor does it take anything away.      *)
ImportedOnce ==
    /\ marker # None => marker' = marker
    /\ catalog \subseteq catalog'
    /\ catalog' # catalog =>
         \/ Cardinality(catalog' \ catalog) = 1
         \/ marker = None /\ catalog' \ catalog = Rows(marker')

(* No step of a writer, an import or a crash loses a service that was      *)
(* registered, in the file or on its way to the catalog, other than by     *)
(* writers that overlap or a file that cannot be read.                     *)
NothingIsForgotten == OnlyOverlapForgets /\ ImportedOnce /\ MarkedIsImported' /\ TypeOK'
=============================================================================
