---------------------------- MODULE ChannelFlow ----------------------------
(***************************************************************************)
(* The end-to-end flow of an entry across HTTP, message queues, RPC and    *)
(* databases, as AdvancedTopologyImplementation traces it: breadth-first   *)
(* over services, each with the trigger that has led to it, every edge     *)
(* once.  And the alignment of the entities of services, pair by pair.     *)
(*                                                                         *)
(* One action takes one edge, delivers a message to one consumer, or looks *)
(* at one entity.  The service that is expanded is the first of the queue; *)
(* its edges are taken channel by channel, in order: an edge that was      *)
(* passed over, as it does not match or its key was met, stays passed over.*)
(***************************************************************************)
EXTENDS Integers, Sequences, FiniteSets

CONSTANTS
    Systems,   \* what the services hold and who asks: the union of these sets
    None

VARIABLES
    system,    \* entry, trigger and max_depth asked for, and the channels
    queue,     \* services to expand, each with its trigger and depth
    delivery,  \* a published topic, and the subscriptions it has not reached
    visited,   \* keys of the edges taken
    steps,     \* the steps of the flow
    mappings, unmapped,  \* alignment: pairs of entities, and those without
    pair, place \* alignment: positions of two services and of an entity

vars == <<system, queue, delivery, visited, steps, mappings, unmapped, pair, place>>

-----------------------------------------------------------------------------
(* A trigger is anything, the handler that was entered, or an endpoint, of *)
(* which a part may be left out.                                           *)
Anything == [kind |-> "any"]
Handler(h) == IF h = None THEN Anything ELSE [kind |-> "handler", handler |-> h]
AtEndpoint(edge, trigger) == trigger.method \in {None, edge.method} /\ trigger.path \in {None, edge.path}
AnyEdge(edge, trigger) == TRUE
Matches(edge, trigger) ==
    \/ trigger.kind = "any"
    \/ trigger.kind = "handler" /\ edge.handler = trigger.handler
    \/ trigger.kind = "endpoint" /\ AtEndpoint(edge, trigger)

(* A topic that is not known matches any, and a name matches one that      *)
(* holds it: topics are sets of words here.                                *)
TopicsMatch(a, b) == a = {} \/ b = {} \/ a \subseteq b \/ b \subseteq a

HttpKey(s, e) == <<s, e.path, e.target, e.url>>
QueueKey(s, e) == <<s, e.broker, e.topic>>
RpcKey(s, e) == <<s, e.target, e.to>>
TableKey(s, e) == <<s, "db", e.table>>

Step(depth, channel, from, to, handler, entry) ==
    [depth |-> depth, channel |-> channel, from |-> from, to |-> to, handler |-> handler,
     entry |-> entry]
Visit(service, trigger, depth) == [service |-> service, trigger |-> trigger, depth |-> depth]

At == Head(queue)
Here == At.service
BelowLimit(depth) == depth < system.max_depth
Within(depth) == depth <= system.max_depth
Expanding == queue # <<>> /\ Within(At.depth) /\ delivery.to = {}

-----------------------------------------------------------------------------
(* What is left to take of the service that is expanded. *)
Untaken(key) == key \notin visited
HttpLeft ==
    {i \in DOMAIN system.http[Here] :
       LET e == system.http[Here][i] IN Matches(e, At.trigger) /\ Untaken(HttpKey(Here, e))}

(* A publication belongs to each entry of the service that reaches it.     *)
Publication(m) ==
    LET call == system.publishes[Here][m[1]]
        root == system.roots[Here][m[2]]
    IN  [handler |-> root.handler, method |-> root.method, path |-> root.path,
         broker |-> call.broker, topic |-> call.topic]
Publications ==
    {m \in (DOMAIN system.publishes[Here]) \X (DOMAIN system.roots[Here]) :
       system.roots[Here][m[2]].handler \in system.publishes[Here][m[1]].from}
MessagesLeft ==
    {m \in Publications :
       Matches(Publication(m), At.trigger) /\ Untaken(QueueKey(Here, Publication(m)))}
RpcLeft == {i \in DOMAIN system.rpc[Here] : Untaken(RpcKey(Here, system.rpc[Here][i]))}
TablesLeft == {i \in DOMAIN system.tables[Here] : Untaken(TableKey(Here, system.tables[Here][i]))}

First(set) == {i \in set : \A j \in set : i <= j}
FirstOfPairs(set) == {m \in set : \A n \in set : m[1] < n[1] \/ (m[1] = n[1] /\ m[2] <= n[2])}
(* Consumers in other services. *)
Consumers(p) ==
    {i \in DOMAIN system.subscriptions :
       LET c == system.subscriptions[i]
       IN  c.service # Here /\ c.broker = p.broker /\ TopicsMatch(p.topic, c.topic)}

CallHttp ==
    /\ Expanding
    /\ \E i \in First(HttpLeft) :
         LET e == system.http[Here][i] IN
         /\ visited' = visited \cup {HttpKey(Here, e)}
         /\ steps' = steps \cup {Step(At.depth, "http", Here, e.target, e.to, e.handler)}
         /\ queue' = Append(queue, Visit(e.target, Handler(e.to), At.depth + 1))
    /\ UNCHANGED <<system, delivery, mappings, unmapped, pair, place>>

Publish ==
    /\ Expanding /\ HttpLeft = {}
    /\ \E m \in FirstOfPairs(MessagesLeft) :
         LET p == Publication(m) IN
         /\ visited' = visited \cup {QueueKey(Here, p)}
         /\ steps' = steps \cup {Step(At.depth, "queue", Here, p.topic, None, p.handler)}
         /\ delivery' = [topic |-> p.topic, to |-> Consumers(p)]
    /\ UNCHANGED <<system, queue, mappings, unmapped, pair, place>>

Deliver ==
    /\ queue # <<>>
    /\ \E i \in First(delivery.to) :
         LET c == system.subscriptions[i] IN
         /\ steps' = steps \cup {Step(At.depth + 1, "queue", delivery.topic, c.service, c.handler, None)}
         /\ queue' = Append(queue, Visit(c.service, Handler(c.handler), At.depth + 2))
         /\ delivery' = [delivery EXCEPT !.to = @ \ {i}]
    /\ UNCHANGED <<system, visited, mappings, unmapped, pair, place>>

CallRpc ==
    /\ Expanding /\ HttpLeft = {} /\ MessagesLeft = {}
    /\ \E i \in First(RpcLeft) :
         LET e == system.rpc[Here][i] IN
         /\ visited' = visited \cup {RpcKey(Here, e)}
         /\ steps' = steps \cup {Step(At.depth, "rpc", Here, e.target, e.to, None)}
         /\ queue' = Append(queue, Visit(e.target, Anything, At.depth + 1))
    /\ UNCHANGED <<system, delivery, mappings, unmapped, pair, place>>

Access ==
    /\ Expanding /\ HttpLeft = {} /\ MessagesLeft = {} /\ RpcLeft = {}
    /\ \E i \in First(TablesLeft) :
         LET e == system.tables[Here][i] IN
         /\ visited' = visited \cup {TableKey(Here, e)}
         /\ steps' = steps \cup {Step(At.depth, "db", Here, e.table, None, None)}
    /\ UNCHANGED <<system, queue, delivery, mappings, unmapped, pair, place>>

Leave ==
    /\ queue # <<>> /\ delivery.to = {}
    /\ Within(At.depth) => HttpLeft = {} /\ MessagesLeft = {} /\ RpcLeft = {} /\ TablesLeft = {}
    /\ queue' = Tail(queue)
    /\ UNCHANGED <<system, delivery, visited, steps, mappings, unmapped, pair, place>>

-----------------------------------------------------------------------------
(* align_entities: each entity of the first service takes, in order, the   *)
(* most similar one of the second whose name is not taken, if it is similar*)
(* enough.  Several entities of a service may have one name.  The          *)
(* similarity of names, in hundredths, is given.                           *)
Threshold == 60
Likeness(a, b) == system.similar[{a, b}]
Aligning == pair[2] <= Len(system.order)
One == system.order[pair[1]]
Two == system.order[pair[2]]
Matched == {m.to : m \in {k \in mappings : k.source = One /\ k.target = Two}}
Everything(b, taken) == DOMAIN system.entities[b]
Left(b, taken) == {i \in DOMAIN system.entities[b] : system.entities[b][i] \notin taken}
Best(a, b) ==
    LET name(i) == system.entities[b][i]
        left == Left(b, Matched)
    IN  {i \in left : /\ Likeness(a, name(i)) >= Threshold
                      /\ \A j \in left : Likeness(a, name(j)) <= Likeness(a, name(i))}

AlignEntity ==
    /\ Aligning /\ place <= Len(system.entities[One])
    /\ LET a == system.entities[One][place] IN
         \/ /\ Best(a, Two) = {}
            /\ unmapped' = unmapped \cup {<<One, a>>} /\ UNCHANGED mappings
         \/ /\ \E i \in First(Best(a, Two)) :
                 mappings' = mappings \cup {[source |-> One, entity |-> place, target |-> Two,
                                             to |-> system.entities[Two][i]]}
            /\ UNCHANGED unmapped
    /\ place' = place + 1
    /\ UNCHANGED <<system, queue, delivery, visited, steps, pair>>

AlignNext ==
    /\ Aligning /\ place > Len(system.entities[One])
    /\ unmapped' = unmapped \cup {<<Two, e>> : e \in {system.entities[Two][k] : k \in DOMAIN system.entities[Two]} \ Matched}
    /\ pair' = IF pair[2] < Len(system.order) THEN <<pair[1], pair[2] + 1>>
               ELSE <<pair[1] + 1, pair[1] + 2>>
    /\ place' = 1
    /\ UNCHANGED <<system, queue, delivery, visited, steps, mappings>>

-----------------------------------------------------------------------------
Start(s) ==
    /\ system = s
    /\ queue = IF s.entry = None THEN <<>> ELSE <<Visit(s.entry, s.trigger, 0)>>
    /\ delivery = [topic |-> {}, to |-> {}]
    /\ visited = {} /\ steps = {}
    /\ mappings = {} /\ unmapped = {}
    /\ pair = <<1, 2>> /\ place = 1
Init == \E family \in Systems : \E s \in family : Start(s)

Next == CallHttp \/ Publish \/ Deliver \/ CallRpc \/ Access \/ Leave \/ AlignEntity \/ AlignNext

Spec == Init /\ [][Next]_vars
-----------------------------------------------------------------------------
(* Properties *)

(* The flow keeps to its depth: a message takes two levels, and its second *)
(* half may lie one below the last.  What is aligned are entities.         *)
TypeOK ==
    /\ \A i \in DOMAIN queue : queue[i].depth \in 0 .. system.max_depth + 2
    /\ \A t \in steps : t.depth \in 0 .. system.max_depth + 1
    /\ \A m \in mappings : m.entity \in DOMAIN system.entities[m.source]
                           /\ \E k \in DOMAIN system.entities[m.target] : m.to = system.entities[m.target][k]

(* A step comes from somewhere: from the entry that was asked for, or from *)
(* what a step one hop before has reached; and where it begins at a        *)
(* handler, that is the handler reached, unless RPC has hidden it.         *)
StepsAreConnected ==
    \A t \in steps :
      \/ t.depth = 0 /\ t.from = system.entry
      \/ \E p \in steps : /\ p.depth = t.depth - 1 /\ p.to = t.from
                          /\ None \in {t.entry, p.handler} \/ p.channel = "rpc" \/ p.handler = t.entry

(* When a flow is done, whatever leaves the handler that a call or a       *)
(* message has entered is in it, up to the depth asked for, although an    *)
(* edge is taken once and perhaps on a longer way.                         *)
FlowIsClosed ==
    queue = <<>> =>
      \A t \in steps :
        /\ t.channel \in {"http", "queue"} /\ t.handler # None /\ t.depth < system.max_depth
        /\ t.to \in DOMAIN system.http
        => \A k \in DOMAIN system.http[t.to] :
             LET e == system.http[t.to][k] IN e.handler = t.handler => HttpKey(t.to, e) \in visited

(* Between two services a mapping is one to one, and it is never a weak    *)
(* one: a name that has been taken is not offered again.                   *)
MappingsAreOneToOne ==
    /\ \A m, n \in mappings :
         m.source = n.source /\ m.target = n.target => ((m.entity = n.entity) <=> (m.to = n.to))
    /\ \A m \in mappings : Likeness(system.entities[m.source][m.entity], m.to) >= Threshold
=============================================================================
