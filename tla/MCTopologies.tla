---------------------------- MODULE MCTopologies ----------------------------
(* Views, artifacts and rules for TopologyMatching, repositories and their *)
(* databases for CrossRepoTopology, and payloads for RuntimeTelemetry.     *)
EXTENDS Integers, Sequences, SequencesExt, FiniteSetsExt

CONSTANTS None, gateway, web, orders, users, h1, h2,
          c1, get, post, order1, order2, anyOrder, other, link

-----------------------------------------------------------------------------
(* The members of a view *)
Order == <<gateway, orders, users>>

(* Nobody calls, publishes, subscribes or answers. *)
Quiet == [available |-> [m \in Range(Order) |-> TRUE],
          aliases |-> [m \in Range(Order) |-> {}],
          entries |-> [m \in Range(Order) |-> {}],
          rules |-> {},
          calls |-> [m \in Range(Order) |-> <<>>],
          subscriptions |-> [m \in Range(Order) |-> <<>>]]

-----------------------------------------------------------------------------
(* HTTP calls of the gateway, one or two *)
Paths == {<<"a">>, <<"a", "b">>}
Call(host, method, path, confidence) ==
    [kind |-> "http", entry |-> "e", authority |-> host, method |-> method, path |-> path,
     confidence |-> confidence]
HttpCalls ==
    {Call(h, <<"get">>, p, c) : h \in {h1, None}, p \in Paths, c \in {0, 45, 95}}
    \cup {Call(h1, None, <<"a">>, 95), Call(h1, <<"get">>, None, 45), Call(h2, <<"post">>, <<"a">>, 95),
          [Call(h1, <<"get">>, <<"a">>, 95) EXCEPT !.entry = None]}
Second == Call(h1, <<"get">>, <<"a">>, 95)
Http(method, route) == [protocol |-> "http", method |-> method, route |-> route]
Routes == {<<"a">>, <<":">>, <<"**">>, <<"a", "b">>, <<"a", ":">>, <<"*", "b">>, <<":", "b">>}
HttpEntries == {Http(<<"get">>, r) : r \in Routes} \cup {Http(<<"post">>, <<"a">>)}
Rule(id, host, protocols, methods, prefixes) ==
    [id |-> id, authority |-> host, protocols |-> protocols, methods |-> methods, prefixes |-> prefixes]
Rules == {Rule(1, h1, {"http", "grpc"}, {}, {}), Rule(2, h1, {"http"}, {}, {<<"a", "b">>}),
          Rule(3, h2, {"http", "grpc"}, {<<"post">>}, {})}
AliasSets == {{}, {h1}, {h1, h2}}
(* Every shape of a route against one another ... *)
Shapes ==
    {[Quiet EXCEPT !.calls[gateway] = <<o>>, !.aliases[orders] = {h1}, !.entries[orders] = e] :
       o \in HttpCalls, e \in kSubset(1, HttpEntries) \cup kSubset(2, HttpEntries)}
(* ... and who claims the authority of a call. *)
Claims ==
    {[Quiet EXCEPT !.calls[gateway] = c, !.aliases[orders] = x, !.aliases[users] = y,
                   !.entries[orders] = {e}, !.entries[users] = {Http(<<"get">>, <<"a">>)},
                   !.rules = r, !.available[users] = v] :
       c \in {<<o>> : o \in HttpCalls} \cup {<<Second, Second>>, <<Call(h2, <<"get">>, <<"a">>, 95), Second>>},
       x \in AliasSets, y \in {{}, {h1}, {h2}}, e \in {Http(<<"get">>, <<":">>), Http(<<"post">>, <<"a">>)},
       r \in {{}, {Rule(2, h1, {"http"}, {}, {<<"a", "b">>})}} \cup kSubset(2, Rules), v \in BOOLEAN}
HttpFacts == Shapes \cup Claims

-----------------------------------------------------------------------------
(* Two publications, and three subscriptions of two members *)
Topics == {<<"x">>, <<"x", "y">>, <<"*", "y">>, <<"x", ">">>, None}
Sent(broker, channel, routing, delivery) ==
    [kind |-> "message", broker |-> broker, channel |-> channel, routing |-> routing,
     delivery |-> delivery]
Deliveries == {"broadcast", "competing", "unknown"}
Sendings == {Sent(b, c, r, d) : b \in {"rabbitmq", "nats"}, c \in Topics,
                                r \in {None}, d \in Deliveries}
            \cup {Sent("rabbitmq", <<"x">>, <<"k">>, "broadcast")}
Fixed1 == Sent("rabbitmq", <<"x", "y">>, None, "broadcast")
Fixed2 == Sent("rabbitmq", <<"x", "y">>, None, "competing")
MessageFacts ==
    {[Quiet EXCEPT !.calls[gateway] = c, !.subscriptions[orders] = s,
                   !.subscriptions[gateway] = <<Fixed1>>, !.subscriptions[users] = t] :
       c \in {<<p>> : p \in Sendings} \cup {<<Fixed2, Fixed1>>},
       s \in {<<>>} \cup {<<p>> : p \in Sendings} \cup {<<p, Fixed1>> : p \in Sendings},
       t \in {<<>>, <<Fixed1>>, <<Fixed2>>}}

-----------------------------------------------------------------------------
(* A gRPC call *)
Get == <<"orders", "get">>
Rpc(host, method) == [kind |-> "grpc", authority |-> host, method |-> method]
Answer(method, ends) ==
    [protocol |-> "grpc", method |-> <<Last(method)>>, route |-> method, handler |-> [ends |-> ends]]
Answered == {Answer(Get, {}), Answer(<<"audit", "get">>, {<<"get">>}), Answer(<<"audit", "post">>, {}),
             Answer(<<"orders", "fetch">>, {<<"get">>})}
GrpcFacts ==
    {[Quiet EXCEPT !.calls[gateway] = <<Rpc(h, m)>>, !.aliases[orders] = x,
                   !.aliases[users] = y, !.entries[orders] = e, !.rules = r] :
       h \in {h1, h2, None}, m \in {Get, <<"audit", "post">>, <<"get">>, None},
       x \in AliasSets, y \in {{}, {h1}}, e \in SUBSET Answered, r \in SUBSET Rules}

AllFacts == {HttpFacts, MessageFacts, GrpcFacts}

-----------------------------------------------------------------------------
(* The web front end belongs to the service of the orders. *)
KnownRepositories == <<gateway, orders, web, users>>
Logical == (gateway :> "gateway" @@ orders :> "orders" @@ web :> "orders" @@ users :> "users")
Hosts == ("gateway" :> {"gateway"} @@ "orders" :> {"orders", "shop"} @@ "users" :> {"users", "shop"})

Content(language, apis, calls, publications, subscriptions) ==
    [language |-> language, apis |-> apis, calls |-> calls, publications |-> publications,
     subscriptions |-> subscriptions]
Api(method, path, handler) == [method |-> method, path |-> path, handler |-> handler]
Url(host, path) == [host |-> host, path |-> path]
Outgoing(line, method, url) ==
    [service |-> None, entry |-> "/", function |-> "f", line |-> line, method |-> method, url |-> url]
Message(entry, channel) == [entry |-> entry, broker |-> "kafka", channel |-> channel]

OneCall == {Outgoing(1, m, u) : m \in {"GET", None},
            u \in {Url(h, p) : h \in {None, "orders", "shop", "evil"}, p \in {<<"o">>, <<"o", "1">>}}
                  \cup {None, Url("orders", None)}}
Says ==
    (gateway :> ({Content("go", {}, <<c>>, {}, {}) : c \in OneCall}
                 \cup {Content("go", {}, <<Outgoing(1, "GET", Url(h, <<"o">>)), Outgoing(2, "DELETE", Url(h, <<"o">>))>>,
                               {Message("/", k)}, {}) : h \in {None, "orders"}, k \in {"a", "*", None}})
     @@ orders :> {Content("java", {Api("GET", <<"o">>, "list")}, <<>>, {}, {Message(None, "a")}),
                   Content("java", {Api("GET", <<"o", ":">>, "get"), Api("GET", <<":", "1">>, "any")},
                           <<Outgoing(3, "GET", Url("users", <<"u">>))>>, {Message("/o", "b")}, {}),
                   Content("kotlin", {Api(None, <<":">>, "all"), Api("GET", <<"o">>, "list")}, <<>>, {}, {})}
     @@ web :> {Content("js", {Api("GET", <<"o">>, "page")}, <<>>, {}, {}),
                Content("ts", {}, <<Outgoing(4, "GET", Url(None, <<"o">>))>>, {}, {})}
     @@ users :> {Content("go", {Api("GET", <<"u">>, "users")}, <<>>, {}, {Message(None, "b")}),
                  Content("go", {Api("POST", <<"o">>, "add"), Api("GET", <<"o", "1">>, "one")}, <<>>, {}, {})})
Filled == {(gateway :> g @@ orders :> o @@ web :> w @@ users :> u) :
             g \in Says[gateway], o \in Says[orders], w \in Says[web], u \in Says[users]}

-----------------------------------------------------------------------------
(* Telemetry for RuntimeTelemetry: a feature with a template path and one  *)
(* without, in payloads of up to three items.                              *)

Telemetry == [trace |-> None, stable |-> None, link |-> link, method |-> get, path |-> order1, errors |-> 0]
AllSpans ==
    {Telemetry, [Telemetry EXCEPT !.trace = c1], [Telemetry EXCEPT !.trace = c1, !.path = other, !.errors = 1],
     [Telemetry EXCEPT !.path = order2, !.method = None], [Telemetry EXCEPT !.stable = 2, !.trace = c1]}
AllLogs == {[trace |-> c1, stable |-> None, severe |-> FALSE], [trace |-> None, stable |-> 3, severe |-> TRUE]}
KnownFeatures == <<[method |-> get, path |-> anyOrder], [method |-> post, path |-> order1]>>
Fitting == {<<order1, order1>>, <<order1, anyOrder>>, <<order2, order2>>, <<order2, anyOrder>>}
Static(method, path) == [link |-> link, method |-> method, path |-> path]
StaticFamilies == {<<Static(get, anyOrder)>>, <<Static(get, order1), Static(get, anyOrder)>>, <<Static(post, order1), Static(None, anyOrder)>>}
=============================================================================
