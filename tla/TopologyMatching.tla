-------------------------- MODULE TopologyMatching --------------------------
(***************************************************************************)
(* The topology of the services of a graph view, built from the frozen     *)
(* facts of its members: HTTP calls, message publications and gRPC calls   *)
(* are matched with the entries and subscriptions of the other members.    *)
(* Nothing but a declared alias identifies the target of a call: a route   *)
(* that looks alike never does.                                            *)
(*                                                                         *)
(* An authority is one that canonical_authority has normalised, a path or  *)
(* a channel is the sequence of its segments, and an edge, whose id is the *)
(* digest of its content, is that content.                                 *)
(***************************************************************************)
EXTENDS Integers, Sequences, FiniteSets

CONSTANTS
    Members,   \* members of the view, in the order of the view: a sequence
    Facts,     \* what the view and the artifacts of its snapshots may say: the
               \* union of these sets
    None

VARIABLES
    facts,         \* the resolved view, its artifacts and the known externals
    todo,          \* observations not looked at yet
    dependencies,  \* endpoint_dependencies
    projections,   \* service_edges: the dependencies that support each edge
                   \* between two services
    candidates, boundaries, alternatives

outcome == <<dependencies, projections, candidates, boundaries, alternatives>>
vars == <<facts, todo, outcome>>

Listed == {Members[i] : i \in DOMAIN Members}
Available == {m \in Listed : facts.available[m]}

-----------------------------------------------------------------------------
(* HTTP: HttpTopologyMatcher.  Scores are millionths. *)

Unit == 1000000
Tenth == 100000
Rounded(n, d) == (2 * n + d) \div (2 * d)

(* The segments of a route template before its first multi wildcard.       *)
Fixed(route) == {i \in DOMAIN route : \A j \in 1 .. i : route[j] # "**"}

Compatible(path, route) ==
    LET head == Fixed(route) IN
      /\ IF head = DOMAIN route THEN Len(path) = Len(route) ELSE Len(path) >= Cardinality(head)
      /\ \A i \in head : route[i] \in {":", "*"} \/ route[i] = path[i]

(* A static segment counts 1, a parameter 0.9 and a wildcard 0.8; a multi  *)
(* wildcard stands for the segments that are left, for one at least.       *)
RouteScore(path, route) ==
    LET head == Fixed(route)
        left == Len(path) - Cardinality(head)
        parameters == Cardinality({i \in head : route[i] = ":"})
        wildcards == Cardinality({i \in head : route[i] = "*"})
                     + (IF head = DOMAIN route THEN 0 ELSE IF left > 1 THEN left ELSE 1)
        static == Cardinality({i \in head : route[i] \notin {":", "*"}})
        total == static + parameters + wildcards
    IN  IF total = 0 THEN Unit
        ELSE Rounded(Tenth * (10 * static + 9 * parameters + 8 * wildcards), total)

(* best - second < 0.10 in binary floating point: of two scores that are a *)
(* tenth apart the difference comes out as 0.09999999999999998, but for    *)
(* 0.966667 and 0.866667 (routes of up to three segments).                 *)
MarginTooSmall(best, second) ==
    \/ best - second < Tenth
    \/ best - second = Tenth /\ best # 966667

Only(set) == CHOOSE x \in set : TRUE
Highest(scores) == CHOOSE n \in scores : \A m \in scores : m <= n
DeclaredBy(host) == {m \in Listed : host \in facts.aliases[m]}
WithAlias(host) == {m \in Available : host \in facts.aliases[m]}

NameOf(method) == <<method[Len(method)]>>
Begins(prefix, path) == Len(prefix) <= Len(path) /\ SubSeq(path, 1, Len(prefix)) = prefix
RuleMatches(rule, protocol, host, method, path) ==
    /\ rule.authority = host /\ protocol \in rule.protocols
    /\ rule.methods # {} => method # None /\ {method, NameOf(method)} \cap rule.methods # {}
    /\ rule.prefixes # {} => path # None /\ \E p \in rule.prefixes : Begins(p, path)
External(protocol, host, method, path) ==
    {r \in facts.rules : RuleMatches(r, protocol, host, method, path)}

CompatibleAnywhere(member, call) ==
    {e \in UNION {facts.entries[m] : m \in Available} :
       /\ e.protocol = "http" /\ e.method = call.method
       /\ Compatible(call.path, e.route)}
CompatibleEntries(member, call) ==
    {e \in facts.entries[member] : /\ e.protocol = "http" /\ e.method = call.method
                                   /\ Compatible(call.path, e.route)}
ScoreOf(call, e) == RouteScore(call.path, e.route)
BestScore(member, call) == Highest({ScoreOf(call, e) : e \in CompatibleEntries(member, call)})
Winners(member, call) ==
    {e \in CompatibleEntries(member, call) : ScoreOf(call, e) = BestScore(member, call)}

(* The builder passes a confidence of zero on as one; a declared alias has *)
(* 0.95, the reachability of an entry 1.                                   *)
Extraction(call) == IF call.confidence = 0 THEN 100 ELSE call.confidence
WeightedScore(member, call) ==
    (30 * Extraction(call) * (Unit \div 100) + 20 * Unit + 25 * BestScore(member, call)
     + 25 * 95 * (Unit \div 100)) \div 100

Decision(status, target, entries) == [status |-> status, target |-> target, entries |-> entries]

(* The end of match, for a call of the one member that has the alias.      *)
MatchEndpoint(member, call) ==
    LET compatible == CompatibleEntries(member, call)
        winners == Winners(member, call)
        losers == {ScoreOf(call, e) : e \in compatible \ winners}
    IN  IF call.method = None \/ call.path = None THEN Decision("candidate", member, {})
        ELSE IF compatible = {} THEN Decision("unresolved", member, {})
        ELSE IF losers # {} /\ MarginTooSmall(BestScore(member, call), Highest(losers))
             THEN Decision("candidate", member, {})
        ELSE IF WeightedScore(member, call) < 8 * Tenth THEN Decision("candidate", member, winners)
        ELSE Decision("confirmed", member, winners)

Match(call) ==
    LET members == WithAlias(call.authority)
        external == External("http", call.authority, call.method, call.path)
    IN  IF call.entry = None \/ call.authority = None THEN Decision("unresolved", None, {})
        ELSE IF \/ Cardinality(members) > 1
                \/ members # {} /\ external # {}
                \/ Cardinality(external) > 1
             THEN Decision("ambiguous", None, {})
        ELSE IF external # {} THEN Decision("known_external", None, {})
        ELSE IF members = {} THEN Decision("out_of_scope_or_unregistered", None, {})
        ELSE MatchEndpoint(Only(members), call)

-----------------------------------------------------------------------------
(* What the observations leave behind *)

Edge(kind, o, target, entries) ==
    [kind |-> kind, source |-> o.member, target |-> target, entries |-> entries, of |-> {o}]
Key(edge) == <<edge.source, edge.target, edge.kind>>
Told(kind, o) == [kind |-> kind, of |-> o]

(* An HTTP or gRPC edge joins those that support its projection.           *)
SupportedAlone(edge) == [key \in {Key(edge)} |-> {edge}]
Supported(edge) ==
    LET k == Key(edge) IN
      IF k \in DOMAIN projections THEN [projections EXCEPT ![k] = @ \cup {edge}]
      ELSE [key \in DOMAIN projections \cup {k} |->
              IF key = k THEN {edge} ELSE projections[key]]
AddEdge(edge) ==
    /\ dependencies' = dependencies \cup {edge}
    /\ projections' = Supported(edge)
    /\ UNCHANGED <<candidates, boundaries, alternatives>>
AddCandidate(kind, o) ==
    /\ candidates' = candidates \cup {Told(kind, o)}
    /\ UNCHANGED <<dependencies, projections, boundaries, alternatives>>
AddKnownBoundary(kind, o) ==
    /\ boundaries' = IF kind = "known_external" THEN boundaries \cup {Told(kind, o)}
                     ELSE boundaries
    /\ UNCHANGED <<dependencies, projections, candidates, alternatives>>
AddBoundary(kind, o) ==
    /\ boundaries' = boundaries \cup {Told(kind, o)}
    /\ UNCHANGED <<dependencies, projections, candidates, alternatives>>

(* The observations are gone through by member, and of each in order.      *)
Place(m) == CHOOSE i \in DOMAIN Members : Members[i] = m
Before(o, p) == Place(o.member) < Place(p.member) \/ (o.member = p.member /\ o.index < p.index)
Observe(kind, o) ==
    /\ o.kind = kind /\ \A p \in todo \ {o} : Before(o, p)
    /\ todo' = todo \ {o}
    /\ UNCHANGED facts

HttpOutbound(o) ==
    /\ Observe("http", o)
    /\ \E d \in {Match(o.call)} :
         CASE d.status = "confirmed" -> AddEdge(Edge("http", o, d.target, d.entries))
           [] d.status \in {"candidate", "unresolved", "ambiguous"} -> AddCandidate(d.status, o)
           [] OTHER -> AddBoundary(d.status, o)

-----------------------------------------------------------------------------
(* Messages *)

Token(a, b) == a = b \/ "*" \in {a, b}
ChannelMatches(protocol, a, b) ==
    \/ a = b
    \/ protocol = "rabbitmq" /\ Len(a) = Len(b) /\ \A i \in DOMAIN a : Token(a[i], b[i])
    \/ /\ protocol = "nats"
       /\ \/ Len(a) = Len(b) /\ \A i \in DOMAIN a : Token(a[i], b[i])
          \/ \E i \in DOMAIN a \cap DOMAIN b :
               ">" \in {a[i], b[i]} /\ \A j \in 1 .. i - 1 : Token(a[j], b[j])
RoutingMatches(protocol, a, b) ==
    a = b \/ (None \notin {a, b} /\ protocol = "rabbitmq" /\ ChannelMatches(protocol, a, b))

(* The subscriptions of the other members.                                 *)
Consumers(o) ==
    UNION {{[member |-> m, index |-> i, call |-> facts.subscriptions[m][i]] :
              i \in DOMAIN facts.subscriptions[m]} : m \in Available \ {o.member}}
Reached(o) ==
    LET p == o.call IN
      {c \in Consumers(o) :
         /\ c.call.broker = p.broker
         /\ c.call.channel # None /\ ChannelMatches(p.broker, p.channel, c.call.channel)
         /\ RoutingMatches(p.broker, p.routing, c.call.routing)}

EitherSays(o, consumer, delivery) ==
    o.call.delivery = delivery \/ consumer.call.delivery = delivery
Both(o, consumer, delivery) ==
    o.call.delivery = delivery /\ consumer.call.delivery = delivery
MessageEdge(o, consumer) ==
    [kind |-> "message", source |-> o.member, target |-> consumer.member, entries |-> {},
     of |-> {o, consumer}]

(* A projection of messages keeps the first edge that supports it.         *)
FirstOf(consumers) ==
    {c \in consumers : \A d \in consumers : d.member = c.member => c.index <= d.index}
FirstSupported(o, consumers) ==
    LET first == {MessageEdge(o, c) : c \in FirstOf(consumers)}
    IN  [k \in DOMAIN projections \cup {Key(e) : e \in first} |->
           IF k \in DOMAIN projections THEN projections[k] ELSE {e \in first : Key(e) = k}]

MessagePublication(o) ==
    /\ Observe("message", o)
    /\ IF o.call.channel = None THEN AddCandidate("unresolved", o)
       ELSE LET reached == Reached(o)
                broadcast == {c \in reached : Both(o, c, "broadcast")}
                competing == {c \in reached : Both(o, c, "competing")}
            IN  /\ dependencies' = dependencies \cup {MessageEdge(o, c) : c \in broadcast}
                /\ projections' = FirstSupported(o, broadcast)
                /\ alternatives' = IF competing = {} THEN alternatives
                                   ELSE alternatives \cup {[of |-> o, consumers |-> competing]}
                /\ candidates' = candidates
                     \cup (IF reached \subseteq broadcast \cup competing THEN {} ELSE {Told("candidate", o)})
                     \cup (IF reached = {} THEN {Told("unresolved", o)} ELSE {})
                /\ UNCHANGED boundaries

-----------------------------------------------------------------------------
(* gRPC: a method is the path of its name.  The last name is enough for an *)
(* entry to answer, whatever service it belongs to; so is a handler of     *)
(* this name, or one whose qualified name only ends with it.               *)

Answers(member, method) ==
    {e \in facts.entries[member] :
       /\ e.protocol = "grpc"
       /\ NameOf(method) \in {e.method} \cup e.handler.ends \/ e.route = method}

GrpcClient(o) ==
    /\ Observe("grpc", o)
    /\ LET host == o.call.authority
           method == o.call.method
           members == WithAlias(host)
           external == External("grpc", host, method, None)
       IN  IF method = None \/ host = None THEN AddCandidate("candidate", o)
           ELSE IF \/ members # {} /\ external # {}
                   \/ Cardinality(external) > 1
                   \/ Cardinality(members) > 1
                THEN AddCandidate("ambiguous", o)
           ELSE IF external # {} THEN AddBoundary("known_external", o)
           ELSE IF members = {} THEN AddBoundary("out_of_scope_or_unregistered", o)
           ELSE IF Cardinality(Answers(Only(members), method)) # 1 THEN AddCandidate("candidate", o)
           ELSE AddEdge(Edge("grpc", o, Only(members), Answers(Only(members), method)))

-----------------------------------------------------------------------------
(* The observations of a member are its HTTP calls, then its publications, *)
(* then its gRPC calls.                                                    *)
Observations(f) ==
    UNION {{[member |-> m, index |-> i, kind |-> f.calls[m][i].kind, call |-> f.calls[m][i]] :
              i \in DOMAIN f.calls[m]} : m \in {n \in Listed : f.available[n]}}

Init ==
    /\ \E family \in Facts : facts \in family
    /\ todo = Observations(facts)
    /\ dependencies = {} /\ projections = <<>>
    /\ candidates = {} /\ boundaries = {} /\ alternatives = {}

Next == \E o \in todo : HttpOutbound(o) \/ MessagePublication(o) \/ GrpcClient(o)

Spec == Init /\ [][Next]_vars
-----------------------------------------------------------------------------
(* Properties *)

Observed == Observations(facts)
Kinds == {"http", "message", "grpc"}

(* A builder looks at the observations of available members only, and an   *)
(* edge joins two of them.                                                 *)
TypeOK ==
    /\ todo \subseteq Observed /\ \A o \in Observed \ todo, p \in todo : Before(o, p)
    /\ \A d \in dependencies : d.source \in Available /\ d.target \in Available /\ d.kind \in Kinds
    /\ DOMAIN projections \subseteq Available \X Available \X Kinds
    /\ \A c \in candidates \cup boundaries \cup alternatives : c.of \in Observed

(* No observation gets lost on the way: one that has been looked at is in  *)
(* an edge, a candidate, a boundary or a group of alternatives, and an     *)
(* HTTP or gRPC call in one of them only.                                  *)
EveryCallIsTold ==
    \A o \in Observed \ todo :
      LET edges == {d \in dependencies : o \in d.of}
          others == {c \in candidates \cup boundaries \cup alternatives : c.of = o}
      IN  /\ edges \cup others # {}
          /\ o.kind # "message" => Cardinality(edges) + Cardinality(others) = 1

(* The graph of services shows what the edges say: a projection stands for *)
(* edges that exist, and every edge has its projection.                    *)
ProjectionsAreSupported ==
    /\ DOMAIN projections = {Key(d) : d \in dependencies}
    /\ \A k \in DOMAIN projections :
         projections[k] # {} /\ projections[k] \subseteq {d \in dependencies : Key(d) = k}

(* Identity comes before shape: an edge of a call leads to the one member  *)
(* that has declared the call's authority, which no external rule claims,  *)
(* and to entries of that member, however alike those of others look.      *)
IdentityFirst ==
    \A d \in dependencies : \A o \in d.of : d.kind # "message" =>
      /\ WithAlias(o.call.authority) = {d.target}
      /\ External(d.kind, o.call.authority, o.call.method,
                  IF d.kind = "http" THEN o.call.path ELSE None) = {}
      /\ d.entries # {} /\ d.entries \subseteq facts.entries[d.target]

(* Consumers that compete for a message are never shown as if each of them *)
(* got it: an edge of messages and a group of alternatives of the same     *)
(* publication have no consumer in common.                                 *)
CompetingIsNotBroadcast ==
    \A g \in alternatives : \A d \in dependencies :
      g.of \in d.of => g.consumers \cap d.of = {}
=============================================================================
