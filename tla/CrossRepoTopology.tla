-------------------------- MODULE CrossRepoTopology --------------------------
(***************************************************************************)
(* The topology of registered services, analysed from the CodeGraph        *)
(* databases of their repositories.  An analyzer keeps what it extracted   *)
(* from a database until that changes, and matches the calls of all        *)
(* services anew each time: HTTP calls with endpoints, publications with   *)
(* subscriptions.                                                          *)
(***************************************************************************)
EXTENDS Integers

CONSTANTS
    Repositories,  \* in the order of the registry: a sequence
    ServiceOf,     \* the logical service of a repository
    Names,         \* the host names that a service's names stand for
    Databases,     \* what the databases may say: functions of the repositories
    MaxChanges,
    None

VARIABLES
    db,        \* content of each repository's database, None: there is none
    cache,     \* what the analyzer holds of it: the content it has seen and
               \* the service node it has made of it
    graph,     \* the last result
    analyzed,  \* the databases it was made of
    changes

vars == <<db, cache, graph, analyzed, changes>>

Registered == {Repositories[i] : i \in DOMAIN Repositories}
Contents == [r \in Registered |-> {d[r] : d \in Databases}]
ServiceNames == {ServiceOf[r] : r \in Registered}
Present(d) == {r \in Registered : d[r] # None}

-----------------------------------------------------------------------------
(* Matching of HTTP calls *)

(* A host is registered when the names of exactly one service stand for it.*)
Known(host) ==
    LET named == {s \in ServiceNames : host \in Names[s]}
    IN  IF \E s \in named : named = {s} THEN CHOOSE s \in named : TRUE ELSE None

Parameter == ":"
PathMatches(path, route) ==
    /\ DOMAIN path = DOMAIN route
    /\ \A i \in DOMAIN path : path[i] = route[i] \/ Parameter \in {path[i], route[i]}

Host(call) == call.url.host
Path(call) == call.url.path
Resolved(call) == call.url # None /\ Path(call) # None

ConfidenceIn(call, service, api) ==
    LET plain == IF call.method = None THEN 80
                 ELSE IF Path(call) = api.path THEN 100 ELSE 90
    IN  IF Host(call) # None /\ plain < 100 THEN plain + 5 ELSE plain

(* The endpoints of the other services, or of the one that the host names. *)
ShapeAlone(call) == ServiceNames \ {call.service}
CandidateServices(call) ==
    IF Host(call) = None THEN ServiceNames \ {call.service} ELSE {Known(Host(call))} \ {call.service}
Candidates(call, inbound) ==
    UNION {{[service |-> s, api |-> a, confidence |-> ConfidenceIn(call, s, a)] :
              a \in {x \in inbound[s] : /\ call.method = None \/ x.method \in {None, call.method}
                                        /\ PathMatches(Path(call), x.path)}} :
           s \in CandidateServices(call) \ {None}}
Best(candidates) ==
    {c \in candidates : \A d \in candidates : d.confidence <= c.confidence}
(* An equal second makes the best one ambiguous. *)
AnyBest(candidates) == candidates # {}
Settled(candidates) == \E c \in candidates : Best(candidates) = {c}

-----------------------------------------------------------------------------
(* The calls go by the place of their repository and their own in it.  What*)
(* a call that is no edge leaves behind is looked up by a key, which does  *)
(* not hold the HTTP method nor the line of the call.                      *)
Earlier(p, q) == p[1] < q[1] \/ (p[1] = q[1] /\ p[2] < q[2])
CallKey(call) == <<call.service, call.entry, call.function, call.url>>
KeysOf(calls) == {CallKey(c) : c \in calls}

Kind(call) ==
    IF call.url = None \/ Host(call) = None THEN "unresolved"
    ELSE IF Known(Host(call)) # None THEN "internal_candidate" ELSE "external"
Ambiguous(calls) == {[kind |-> "ambiguous", call |-> c] : c \in calls}
WithUrl(outbound, matched, ambiguous) ==
    {[kind |-> "external", call |-> outbound[p]] :
       p \in {q \in DOMAIN outbound : outbound[q].url # None
                                      /\ CallKey(outbound[q]) \notin KeysOf(matched \cup ambiguous)}}
    \cup Ambiguous(ambiguous)
Potential(outbound, matched, ambiguous) ==
    LET told(p) == \/ CallKey(outbound[p]) \in KeysOf(matched \cup ambiguous)
                   \/ \E q \in DOMAIN outbound :
                        Earlier(q, p) /\ CallKey(outbound[q]) = CallKey(outbound[p])
    IN  {[kind |-> Kind(outbound[p]), call |-> outbound[p]] : p \in {q \in DOMAIN outbound : ~ told(q)}}
        \cup Ambiguous(ambiguous)

-----------------------------------------------------------------------------
(* Messages *)

ChannelsMatch(a, b) == None \notin {a, b} /\ (a = b \/ "*" \in {a, b})

(* One edge for each source, entry, broker, channel and target.            *)
Published(d) == UNION {{[service |-> ServiceOf[r], message |-> p] : p \in d[r].publications} : r \in Present(d)}
Subscribed(d) == UNION {{[service |-> ServiceOf[r], message |-> s] : s \in d[r].subscriptions} : r \in Present(d)}
Reaches(p, s) ==
    /\ p.service # s.service /\ p.message.broker = s.message.broker
    /\ ChannelsMatch(p.message.channel, s.message.channel)
MessageEdges(d) ==
    UNION {{[source |-> p.service, message |-> p.message, target |-> s.service] :
              s \in {x \in Subscribed(d) : Reaches(p, x)}} : p \in Published(d)}

-----------------------------------------------------------------------------
(* Analysis.  A cache entry is valid while the database has the time and   *)
(* the size it had; that they change with the content is assumed.          *)
AnyHit(r) == cache[r] # None
Hit(r) == cache[r] # None /\ cache[r].seen = db[r]
Extracted(r) == IF Hit(r) THEN cache[r]
                ELSE [seen |-> db[r], languages |-> {db[r].language}]

(* The node of a service is the one held for the first of its repositories *)
(* and merging the others changes it where it is held.                     *)
FirstOf(s) ==
    LET of(i) == ServiceOf[Repositories[i]] = s /\ db[Repositories[i]] # None
    IN  Repositories[CHOOSE i \in DOMAIN Repositories : of(i) /\ \A j \in DOMAIN Repositories : of(j) => i <= j]
Merged(s) == UNION {Extracted(r).languages : r \in {x \in Present(db) : ServiceOf[x] = s}}
Held(r) == [Extracted(r) EXCEPT !.languages = IF FirstOf(ServiceOf[r]) = r
                                              THEN Merged(ServiceOf[r]) ELSE @]

(* The result of matching what has been extracted of these contents.       *)
Places(seen) ==
    UNION {{<<i, k>> : k \in DOMAIN seen[Repositories[i]].calls} :
             i \in {j \in DOMAIN Repositories : seen[Repositories[j]] # None}}
Outbound(seen) ==
    [p \in Places(seen) |-> [seen[Repositories[p[1]]].calls[p[2]]
                               EXCEPT !.service = ServiceOf[Repositories[p[1]]]]]
Inbound(seen) == [s \in ServiceNames |-> UNION {seen[r].apis : r \in {x \in Present(seen) : ServiceOf[x] = s}}]
Matched(seen) ==
    LET calls == {Outbound(seen)[p] : p \in Places(seen)}
        inbound == Inbound(seen)
        found(c) == IF Resolved(c) THEN Candidates(c, inbound) ELSE {}
        matched == {c \in calls : found(c) # {} /\ Settled(found(c))}
        ambiguous == {c \in calls : found(c) # {} /\ ~ Settled(found(c))}
    IN  [calls |-> calls,
         edges |-> UNION {{[call |-> c, to |-> b] : b \in Best(found(c))} : c \in matched},
         rivals |-> [c \in calls |-> found(c)],
         potential |-> Potential(Outbound(seen), matched, ambiguous)]

OfCallsOnly(edges, messages) ==
    [s \in ServiceNames |-> {e.to.service : e \in {x \in edges : x.call.service = s}}]
DependsOn(edges, messages) ==
    [s \in ServiceNames |-> {e.to.service : e \in {x \in edges : x.call.service = s}}
                        \cup {m.target : m \in {x \in messages : x.source = s}}]

Analyze ==
    LET result == Matched([r \in DOMAIN db |-> IF db[r] = None THEN None ELSE Extracted(r).seen])
        messages == MessageEdges(db)
        present == {ServiceOf[r] : r \in Present(db)}
    IN  /\ analyzed # db
        /\ cache' = [r \in DOMAIN db |-> IF db[r] = None THEN cache[r] ELSE Held(r)]
        /\ graph' = [result |-> result, messages |-> messages,
                     dependencies |-> DependsOn(result.edges, messages),
                     languages |-> [s \in present |-> Merged(s)]]
        /\ analyzed' = db
        /\ UNCHANGED <<db, changes>>

(* CodeGraph builds a database anew, or it goes away.                      *)
Change(r) ==
    /\ changes < MaxChanges /\ changes' = changes + 1
    /\ \E c \in Contents[r] \cup {None} : c # db[r] /\ db' = [db EXCEPT ![r] = c]
    /\ UNCHANGED <<cache, graph, analyzed>>

Empty == [result |-> [calls |-> {}, edges |-> {}, rivals |-> <<>>, potential |-> {}],
          messages |-> {}, dependencies |-> [s \in ServiceNames |-> {}], languages |-> <<>>]
Init ==
    /\ db \in Databases
    /\ cache = [r \in Registered |-> None]
    /\ graph = Empty /\ analyzed = None /\ changes = 0

Next == Analyze \/ \E r \in Registered : Change(r)

Spec == Init /\ [][Next]_vars
-----------------------------------------------------------------------------
(* Properties *)

Result == graph.result

TypeOK ==
    /\ \A r \in Registered : db[r] \in Contents[r] \cup {None}
    /\ \A r \in Registered : cache[r] = None \/ cache[r].seen \in Contents[r]
    /\ \A e \in Result.edges : e.call \in Result.calls /\ e.to.service \in ServiceNames

(* An analyzer that has seen other databases before says the same of these *)
(* as a new one.                                                           *)
WarmIsCold == analyzed # None => Result = Matched(analyzed)

(* An explicit host that is not registered is never made an internal       *)
(* dependency, however much the path looks like one of our endpoints, and  *)
(* nothing calls itself over the network.                                  *)
ExternalStaysExternal ==
    \A e \in Result.edges :
      /\ e.to.service # e.call.service
      /\ Host(e.call) # None => e.to.service = Known(Host(e.call))

(* An edge is never a guess among equals: every other endpoint that the    *)
(* call could have meant is a worse match.                                 *)
NoGuess ==
    \A e \in Result.edges : \A c \in Result.rivals[e.call] :
      c = e.to \/ c.confidence < e.to.confidence

(* A dependency of a service has an edge as its evidence, and the other    *)
(* way round.                                                              *)
DependenciesHaveEvidence ==
    \A s, t \in ServiceNames :
      t \in graph.dependencies[s] <=>
        \/ \E e \in Result.edges : e.call.service = s /\ e.to.service = t
        \/ \E m \in graph.messages : m.source = s /\ m.target = t

(* Every call is an edge or potential, if only by what stands for it: the  *)
(* calls of a function to the same URL for the same endpoint.              *)
EveryCallIsTold ==
    \A c \in Result.calls :
      \E t \in {e.call : e \in Result.edges} \cup {p.call : p \in Result.potential} :
        CallKey(t) = CallKey(c)
=============================================================================
