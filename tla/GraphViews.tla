------------------------------ MODULE GraphViews ------------------------------
(***************************************************************************)
(* Scopes and members of the catalog, and the graph views that are frozen  *)
(* selections of their current snapshots.  A view is ephemeral and expires *)
(* a Lifetime after it was read last, or is pinned and stays.              *)
(*                                                                         *)
(* A request reads in one transaction and writes in another, or in several *)
(* of each; requests interleave.  What may be deleted is the subject of    *)
(* SnapshotRetention; nothing is deleted here.                             *)
(***************************************************************************)
EXTENDS Naturals

CONSTANTS
    Scopes,
    Members,
    Names,        \* display names
    Paths,        \* repositories on the disk
    Updates,      \* updates of members: name and path, None where not given
    ToRetire,     \* scopes that requests may retire
    Requests,     \* requests that may be in progress at one time
    MaxSnapshots, \* bound on the snapshots of a member
    MaxViews,     \* bound on views
    MaxTime,      \* bound on the clock, in hours
    Lifetime,     \* hours an ephemeral view is kept
    Catalogs,     \* scopes, members and current snapshots to begin with
    None          \* SQL NULL

VARIABLES
    scopes,     \* analysis_scopes: "none", "active" or "retired"
    members,    \* repository_members
    current,    \* number of the current snapshot of each member, 0 without one
    views,      \* graph_views with their graph_view_members
    refs,       \* snapshot_references whose owner is a view
    now,        \* hours
    request     \* what each request has read and has still to do

catalog == <<scopes, members, current>>
vars == <<catalog, views, refs, now, request>>

ViewIds == 1 .. MaxViews
Snapshots == {<<m, n>> : m \in Members, n \in 1 .. MaxSnapshots}
Published == {s \in Snapshots : s[2] <= current[s[1]]}

NoMember == [scope |-> None, name |-> None, path |-> None, identity |-> None,
             retired |-> FALSE]
NoView == [lifecycle |-> "none", scope |-> None, selector |-> None,
           expires |-> 0, accessed |-> 0, members |-> <<>>]
Idle == [at |-> "idle"]

Known == {m \in Members : members[m] # NoMember}
Active == {m \in Known : ~ members[m].retired}
MembersOf(s) == {m \in Active : members[m].scope = s}

Done(c) == request' = [request EXCEPT ![c] = Idle]
Does(c, work) == request' = [request EXCEPT ![c] = work]
Free(c) == request[c] = Idle

-----------------------------------------------------------------------------
(* Scopes and members *)

CreateScope(s) ==
    /\ scopes[s] = "none"
    /\ scopes' = [scopes EXCEPT ![s] = "active"]
    /\ UNCHANGED <<members, current, views, refs, now, request>>

(* UNIQUE(scope_id, display_name), and uq_active_member_path *)
UniqueNames(rows) ==   \* mutation: paths are not unique
    \A m, n \in {k \in Members : rows[k] # NoMember} : m # n =>
      <<rows[m].scope, rows[m].name>> # <<rows[n].scope, rows[n].name>>
Unique(rows) ==
    \A m, n \in {k \in Members : rows[k] # NoMember} : m # n =>
      /\ <<rows[m].scope, rows[m].name>> # <<rows[n].scope, rows[n].name>>
      /\ rows[m].retired \/ rows[n].retired \/ rows[m].identity # rows[n].identity

(* add_member: the scope has to exist. *)
AddMember(m, s, name, path) ==
    LET rows == [members EXCEPT ![m] = [scope |-> s, name |-> name, path |-> path,
                                        identity |-> path, retired |-> FALSE]]
    IN  /\ m \notin Known /\ scopes[s] # "none" /\ Unique(rows)
        /\ members' = rows
        /\ UNCHANGED <<scopes, current, views, refs, now, request>>

Retired(m) == [members EXCEPT ![m].retired = TRUE]

RetireMember(m) ==
    /\ m \in Active
    /\ members' = Retired(m)
    /\ UNCHANGED <<scopes, current, views, refs, now, request>>

(* update_member reads the row, and writes it back with what the request   *)
(* changes; a row that breaks a unique index is refused.                   *)
ReadMember(c, m, name, path) ==
    /\ Free(c) /\ m \in Known
    /\ Does(c, [at |-> "write", member |-> m, row |-> members[m], name |-> name,
                path |-> path])
    /\ UNCHANGED <<catalog, views, refs, now>>

Given(value, old) == IF value = None THEN old ELSE value
WrittenPath(w) ==   \* mutation: the identity of the path is not updated
    [members EXCEPT ![w.member].name = Given(w.name, w.row.name),
                    ![w.member].path = Given(w.path, w.row.path)]
Written(w) ==
    [members EXCEPT ![w.member].name = Given(w.name, w.row.name),
                    ![w.member].path = Given(w.path, w.row.path),
                    ![w.member].identity = Given(w.path, w.row.identity)]

WriteMember(c) ==
    LET w == request[c]
    IN  /\ w.at = "write"
        /\ members' = IF Unique(Written(w)) THEN Written(w) ELSE members
        /\ Done(c)
        /\ UNCHANGED <<scopes, current, views, refs, now>>

(* retire_scope retires the members it has listed, one after the other,    *)
(* and fails at one that another request has retired.  The scope is marked *)
(* if no member was active a moment before.                                *)
ListMembers(c, s) ==
    /\ Free(c) /\ scopes[s] # "none"
    /\ Does(c, [at |-> "retire", scope |-> s, left |-> MembersOf(s)])
    /\ UNCHANGED <<catalog, views, refs, now>>

RetireListed(c) ==
    LET w == request[c]
    IN  /\ w.at = "retire"
        /\ \E m \in w.left :
             IF m \in Active
             THEN members' = Retired(m) /\ Does(c, [w EXCEPT !.left = @ \ {m}])
             ELSE Done(c) /\ UNCHANGED members
        /\ UNCHANGED <<scopes, current, views, refs, now>>

CheckScope(c) ==
    LET w == request[c]
    IN  /\ w.at = "retire" /\ w.left = {}
        /\ IF MembersOf(w.scope) = {} THEN Does(c, [at |-> "mark", scope |-> w.scope])
                                      ELSE Done(c)
        /\ UNCHANGED <<catalog, views, refs, now>>

MarkScope(c) ==
    /\ request[c].at = "mark"
    /\ scopes' = [scopes EXCEPT ![request[c].scope] = "retired"]
    /\ Done(c)
    /\ UNCHANGED <<members, current, views, refs, now>>

(* publish_snapshot; the snapshot of a retired member does not become      *)
(* current.                                                                *)
Publish(m) ==
    /\ m \in Active /\ current[m] < MaxSnapshots
    /\ current' = [current EXCEPT ![m] = @ + 1]
    /\ UNCHANGED <<scopes, members, views, refs, now, request>>

-----------------------------------------------------------------------------
(* Creation of views: the rows are read, and then the view is inserted.    *)

Availability(m) ==
    IF members[m].retired THEN "retired"
    ELSE IF current[m] = 0 THEN "unparsed" ELSE "available"
Mapping(M) ==
    [m \in M |-> IF Availability(m) = "available" THEN <<m, current[m]>> ELSE None]

Insertion(scope, selector, mapping) ==
    [at |-> "insert", scope |-> scope, selector |-> selector, members |-> mapping]

SelectScope(c, s) ==
    /\ scopes[s] = "active"
    /\ Does(c, Insertion(s, "scope", Mapping(MembersOf(s))))

(* mixed_scope_members *)
MixedAllowed(M) ==   \* mutation: members of several scopes
    M # {} /\ M \subseteq Known
OneScope(M) ==
    M # {} /\ M \subseteq Known /\ \A m, n \in M : members[m].scope = members[n].scope
ScopeOf(M) == members[CHOOSE m \in M : TRUE].scope

ReadScope(c, s) ==
    /\ Free(c) /\ SelectScope(c, s)
    /\ UNCHANGED <<catalog, views, refs, now>>

ReadMembers(c, M) ==
    /\ Free(c) /\ OneScope(M)
    /\ Does(c, Insertion(ScopeOf(M), "members", Mapping(M)))
    /\ UNCHANGED <<catalog, views, refs, now>>

(* create_explicit_view takes the snapshots from the request. *)
ReadExplicit(c, mapping) ==
    /\ Free(c) /\ OneScope(DOMAIN mapping)
    /\ Does(c, Insertion(ScopeOf(DOMAIN mapping), "explicit", mapping))
    /\ UNCHANGED <<catalog, views, refs, now>>

Used(mapping) == {mapping[m] : m \in DOMAIN mapping} \ {None}
Reference(s, v, owner, expires) ==
    [snapshot |-> s, view |-> v, owner |-> owner, expires |-> expires]

InsertView(c, v) ==
    LET w == request[c]
    IN  /\ w.at = "insert" /\ v \in ViewIds
        /\ views[v] = NoView /\ \A u \in 1 .. (v - 1) : views[u] # NoView
        /\ views' = [views EXCEPT ![v] =
              [lifecycle |-> "ephemeral", scope |-> w.scope, selector |-> w.selector,
               expires |-> now + Lifetime, accessed |-> now, members |-> w.members]]
        /\ refs' = refs \cup {Reference(s, v, "ephemeral_view", now + Lifetime) :
                                s \in Used(w.members)}
        /\ Done(c)
        /\ UNCHANGED <<catalog, now>>

-----------------------------------------------------------------------------
(* Reading, keeping and pinning views *)

Ephemeral(v) == views[v].lifecycle = "ephemeral"
Expired(v) == Ephemeral(v) /\ views[v].expires <= now

(* What a request does after it has read the view. *)
Proceeds(c, v, next) ==
    IF next = "refresh" THEN Does(c, [at |-> "refresh", view |-> v]) ELSE Done(c)

(* get_view: an ephemeral view that was not read for an hour is touched,   *)
(* in a transaction of its own.                                            *)
ReadView(c, v, next) ==
    /\ Free(c) /\ views[v] # NoView /\ ~ Expired(v)
    /\ IF Ephemeral(v) /\ views[v].accessed + 1 <= now
       THEN Does(c, [at |-> "touch", view |-> v, time |-> now, next |-> next])
       ELSE Proceeds(c, v, next)
    /\ UNCHANGED <<catalog, views, refs, now>>

TouchedNone(v, expires) ==   \* mutation: only the view is touched
    refs
Touched(v, expires) ==
    {IF r.view = v /\ r.owner = "ephemeral_view" THEN [r EXCEPT !.expires = expires]
     ELSE r : r \in refs}

(* CHECK of graph_views: the ephemeral views are those that expire. *)
Unchecked(row) == TRUE   \* mutation: the table has no such CHECK
Checked(row) == row.lifecycle = "ephemeral" <=> row.expires # None

(* The transaction of a touch is rolled back, and the request fails, when  *)
(* the view was pinned since it was read.                                  *)
TouchView(c) ==
    LET w == request[c]
        row == [views[w.view] EXCEPT !.accessed = w.time, !.expires = w.time + Lifetime]
    IN  /\ w.at = "touch"
        /\ IF Checked(row)
           THEN /\ views' = [views EXCEPT ![w.view] = row]
                /\ refs' = Touched(w.view, w.time + Lifetime)
                /\ Proceeds(c, w.view, w.next)
           ELSE UNCHANGED <<views, refs>> /\ Done(c)
        /\ UNCHANGED <<catalog, now>>

(* pin_view checks that the view has not expired, and then pins it. *)
CheckPin(c, v) ==
    /\ Free(c) /\ views[v] # NoView /\ ~ Expired(v)
    /\ Does(c, [at |-> "pin", view |-> v])
    /\ UNCHANGED <<catalog, views, refs, now>>

Kept(v) ==
    {IF r.view = v THEN [r EXCEPT !.owner = "pinned_view", !.expires = None] ELSE r :
       r \in refs}

PinView(c) ==
    LET w == request[c]
    IN  /\ w.at = "pin"
        /\ views' = [views EXCEPT ![w.view].lifecycle = "pinned", ![w.view].expires = None]
        /\ refs' = Kept(w.view)
        /\ Done(c)
        /\ UNCHANGED <<catalog, now>>

(* refresh makes a view of the scope of the view.  The selector of a view  *)
(* of members has their scope, too, and create_current_view refuses both.  *)
Refresh(c) ==
    LET v == views[request[c].view]
    IN  /\ request[c].at = "refresh"
        /\ \/ v.selector # "members" /\ SelectScope(c, v.scope)
           \/ (v.selector = "members" \/ scopes[v.scope] # "active") /\ Done(c)
        /\ UNCHANGED <<catalog, views, refs, now>>

Tick ==
    /\ now < MaxTime
    /\ now' = now + 1
    /\ UNCHANGED <<catalog, views, refs, request>>

-----------------------------------------------------------------------------
Init ==
    /\ \E c \in Catalogs :
         scopes = c.scopes /\ members = c.members /\ current = c.current
    /\ views = [v \in ViewIds |-> NoView]
    /\ refs = {} /\ now = 0
    /\ request = [c \in Requests |-> Idle]

Administration ==
    \/ \E s \in Scopes : CreateScope(s)
    \/ \E m \in Members : RetireMember(m) \/ Publish(m)
    \/ \E m \in Members, s \in Scopes, name \in Names, path \in Paths :
         AddMember(m, s, name, path)
    \/ \E c \in Requests, m \in Members, u \in Updates : ReadMember(c, m, u[1], u[2])
    \/ \E c \in Requests, s \in ToRetire : ListMembers(c, s)
    \/ \E c \in Requests : WriteMember(c) \/ RetireListed(c) \/ CheckScope(c) \/ MarkScope(c)

Viewing ==
    \/ \E c \in Requests, s \in Scopes : ReadScope(c, s)
    \/ \E c \in Requests, M \in SUBSET Members : ReadMembers(c, M)
    \/ \E c \in Requests, m \in Members, s \in Published :
         ReadExplicit(c, [k \in {m} |-> s])
    \/ \E c \in Requests, v \in ViewIds :
         InsertView(c, v) \/ CheckPin(c, v) \/ (\E next \in {"show", "refresh"} : ReadView(c, v, next))
    \/ \E c \in Requests : TouchView(c) \/ PinView(c) \/ Refresh(c)

Next == Administration \/ Viewing \/ Tick

Spec == Init /\ [][Next]_vars

-----------------------------------------------------------------------------
(* Properties *)

Times == 0 .. (MaxTime + Lifetime)
Mappings == UNION {[M -> Snapshots \cup {None}] : M \in SUBSET Members}

(* Every variable has its type, and no two active members are analyzed at  *)
(* one path.                                                               *)
TypeOK ==
    /\ scopes \in [Scopes -> {"none", "active", "retired"}]
    /\ members \in [Members -> [scope : Scopes \cup {None}, name : Names \cup {None},
                                path : Paths \cup {None}, identity : Paths \cup {None},
                                retired : BOOLEAN]]
    /\ \A m, n \in Active : members[m].path = members[n].path => m = n
    /\ current \in [Members -> 0 .. MaxSnapshots] /\ now \in 0 .. MaxTime
    /\ \A v \in ViewIds : views[v] # NoView =>
         /\ views[v].lifecycle \in {"ephemeral", "pinned"}
         /\ views[v].members \in Mappings
         /\ views[v].expires \in Times \cup {None} /\ Checked(views[v])
    /\ refs \subseteq [snapshot : Snapshots, view : ViewIds, expires : Times \cup {None},
                       owner : {"ephemeral_view", "pinned_view"}]

(* The path a member is analyzed at is the one its identity is taken of,   *)
(* also when updates of one member overlap and one undoes the other.       *)
PathIsIdentity == \A m \in Members : members[m].path = members[m].identity

(* A view is about members of one scope. *)
ViewsAreOfOneScope ==
    \A v \in ViewIds : \A m \in DOMAIN views[v].members :
        members[m].scope = views[v].scope

(* The snapshots of a view that can be read are referred to, for as long   *)
(* as the view can be read: for good if it is pinned, however the pinning  *)
(* overlaps a touch or the end of the view's time.                         *)
ReadableIsReferenced ==
    \A v \in ViewIds : views[v] # NoView /\ ~ Expired(v) =>
      \A s \in Used(views[v].members) : \E r \in refs :
        /\ r.snapshot = s /\ r.view = v
        /\ IF Ephemeral(v) THEN r.expires = views[v].expires
                           ELSE r.owner = "pinned_view" /\ r.expires = None

(* A view keeps to its scope and to its snapshots, however requests that   *)
(* read in one transaction and write in another overlap.                   *)
ViewsHold == TypeOK /\ PathIsIdentity /\ ViewsAreOfOneScope /\ ReadableIsReferenced

(* A pinned view stays as it is: a request that read it when it was        *)
(* ephemeral and touches it afterwards does not give it an end.  What      *)
(* refers to a snapshot for good does so from then on.                     *)
PinStays ==
    /\ \A v \in ViewIds : views[v].lifecycle = "pinned" => views'[v] = views[v]
    /\ \A r \in refs : r.expires = None => r \in refs'
=============================================================================
