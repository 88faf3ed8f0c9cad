------------------------------ MODULE MCLocal ------------------------------
(***************************************************************************)
(* The instance of Local that is checked: three repositories, of which two *)
(* have the same last part of their path; rows that a service adds itself; *)
(* topologies and questions about them; flows through channels; and the    *)
(* facts that MCTopologies gives.                                          *)
(***************************************************************************)
EXTENDS Local, Integers, SequencesExt, FiniteSetsExt

CONSTANTS n1, n2, p1, p2, p3, shop, pay, mail, stock, k1, k2, k3, h1, h2,
          gateway, web, orders, users, c1, get, post, order1, order2, anyOrder, other, link

MCBasename == [p \in {p1, p2, p3} |-> IF p = p3 THEN p2 ELSE p]
MCPathLists == {<<p2>>, <<p1, p3>>}
MCOwnRows == {[scope |-> n1, path |-> None], [scope |-> n1, path |-> p2]}

-----------------------------------------------------------------------------
(* Topologies and questions for TopologyQueries. *)

Arrow(s, t, kind) == [source |-> s, target |-> t, kind |-> kind]
Arrows == <<Arrow(1, 2, "http"), Arrow(2, 3, "http"), Arrow(1, 3, "message"), Arrow(3, 1, "http"),
            Arrow(2, 2, "http"), Arrow(3, 4, "message"), Arrow(4, 5, "http"), Arrow(2, 5, "message"), Arrow(5, 2, "http"),
            Arrow(5, 6, "http"), Arrow(1, 2, "message")>>
Chosen(set, order) == SelectSeq(order, LAMBDA d : d \in set)
Graphs == {Chosen(set, order) : set \in UNION {kSubset(k, Range(Arrows)) : k \in {0, 1, 2, 3, 4, 11}},
                                order \in {Arrows, Reverse(Arrows)}}
All == {"http", "message"}
Question(kind, graph, depth, most, reverse, channels, held) ==
    [kind |-> kind, root |-> 1, dependencies |-> graph, channels |-> channels, reverse |-> reverse,
     max_depth |-> depth, max_nodes |-> most[1], max_edges |-> most[2], resources |-> held]
Unlimited == <<99, 99>>
Flows == {Question("flow", g, d, m, FALSE, All, r) :
            g \in Graphs, d \in {0, 2, 4}, m \in {Unlimited, <<2, 99>>, <<99, 3>>, <<3, 4>>}, r \in {0, 2}}
Impacts == {Question("impact", g, d, Unlimited, v, c, 0) :
             g \in Graphs, d \in {0, 1, 3}, v \in BOOLEAN, c \in {All, {"http"}}}
Calls == {Question("calls", g, d, Unlimited, FALSE, All, 0) : g \in Graphs, d \in {1, 3}}

(* Two services with two endpoints, and a third. *)
Hop(s, p, h, t, u, f) ==
    [source |-> s, path |-> p, handler |-> h, from |-> h, target |-> t, url |-> u, to |-> f]
HopsKnown == <<Hop("a", "/x", "ax", "b", "/x", "bx"), Hop("a", "/y", None, "b", "/y", "by"),
               Hop("b", "/x", "bx", "c", "/z", "cz"), Hop("b", "/y", "by", "a", "/x", "ax"),
               Hop("c", "/z", "cz", "a", "/x", "ax"), Hop("c", "/z", "cw", "b", "/x", None)>>
Traces == {[kind |-> "trace", root |-> "a", dependencies |-> Chosen(set, order), path |-> p,
            channels |-> {}, max_depth |-> d, max_nodes |-> 0, max_edges |-> 0, resources |-> 0] :
             set \in SUBSET Range(HopsKnown), order \in {HopsKnown, Reverse(HopsKnown)},
             p \in {None, "/x"}, d \in {0, 1, 3}}
MCQuestions == {Flows, Impacts, Calls, Traces}

-----------------------------------------------------------------------------
(* Four services that call, publish to and query one another in any of     *)
(* several ways, and three services whose entities resemble one another,   *)
(* for ChannelFlow.                                                        *)

Shops == {shop, pay, mail, stock}
Edge(m, p, h, t, to) ==
    [method |-> m, path |-> p, handler |-> h, target |-> t, to |-> to, url |-> t]
Root(h, p) == [handler |-> h, method |-> "get", path |-> p]
Nothing == [s \in Shops |-> <<>>]

HttpOf(s) ==
    LET next == (shop :> pay @@ pay :> mail @@ mail :> stock @@ stock :> shop)[s]
    IN  {<<>>, <<Edge("get", "/1", h1, next, h2)>>}
        \cup {<<Edge("get", "/1", h1, t, None), Edge("post", "/1", h2, t, h1)>> : t \in {next, pay} \ {s}}

Asked == {[entry |-> shop, trigger |-> t, max_depth |-> d] :
            t \in {[kind |-> "any"], [kind |-> "handler", handler |-> h2]}
                    \cup {[kind |-> "endpoint", method |-> m, path |-> "/1"] : m \in {"get", None}}, d \in 0 .. 3}
Buses == {[publishes |-> [Nothing EXCEPT ![shop] = <<[from |-> {h1}, broker |-> "q", topic |-> {"a"}]>>,
                                            ![pay] = <<[from |-> {h2}, broker |-> "q", topic |-> {"a", "b"}]>>],
              roots |-> [s \in Shops |-> <<Root(h1, "/1"), Root(h2, "/2")>>],
              subscriptions |-> c,
              rpc |-> [Nothing EXCEPT ![mail] = <<[target |-> shop, to |-> h2]>>],
              tables |-> [Nothing EXCEPT ![stock] = <<[table |-> k3]>>]] :
             c \in {<<>>, <<[service |-> mail, broker |-> "q", topic |-> {"a"}, handler |-> h1]>>,
                    <<[service |-> stock, broker |-> "q", topic |-> {"b"}, handler |-> h2],
                      [service |-> shop, broker |-> "q", topic |-> {}, handler |-> h1]>>}}
Followed ==
    {{a @@ c @@ [http |-> http, entities |-> Nothing, similar |-> <<>>, order |-> <<>>] :
        http \in {f \in [Shops -> UNION {HttpOf(s) : s \in Shops}] :
                    \A s \in Shops : f[s] \in HttpOf(s)}} : a \in Asked, c \in Buses}

Entities == {k1, k2, k3}
Alike == {p \in SUBSET Entities : Cardinality(p) \in 1 .. 2}
Alignments ==
    {{[entry |-> None, trigger |-> [kind |-> "any"], max_depth |-> 0, http |-> Nothing, publishes |-> Nothing,
       roots |-> Nothing, subscriptions |-> <<>>, rpc |-> Nothing, tables |-> Nothing,
       order |-> <<shop, pay, mail>>, similar |-> [p \in Alike |-> IF Cardinality(p) = 1 THEN 100 ELSE v[p]],
       entities |-> [Nothing EXCEPT ![shop] = a, ![pay] = b, ![mail] = <<k1>>]] :
        v \in [{p \in Alike : Cardinality(p) = 2} -> {0, 60, 70}]} :
       a \in {<<>>, <<k1>>, <<k1, k2>>, <<k2, k3>>, <<k1, k1>>}, b \in {<<>>, <<k2>>, <<k1, k3>>, <<k3, k2>>, <<k1, k2, k3>>}}

MCChannels == Followed \cup Alignments

-----------------------------------------------------------------------------
Data == INSTANCE MCTopologies
MCViewMembers == Data!Order
MCViewFacts == Data!AllFacts
MCRepositories == Data!KnownRepositories
MCLogicalService == Data!Logical
MCHostNames == Data!Hosts
MCDatabases == Data!Filled
MCSpans == Data!AllSpans
MCLogs == Data!AllLogs
MCFeatures == Data!KnownFeatures
MCStaticEdges == Data!StaticFamilies
MCFits == Data!Fitting
=============================================================================
