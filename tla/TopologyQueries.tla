-------------------------- MODULE TopologyQueries --------------------------
(***************************************************************************)
(* Walks over a topology that does not change.  Flow, impact and the calls *)
(* that an endpoint reaches are breadth-first: a queue, nodes that have    *)
(* been found, and a limit on the depth; flow has limits on nodes and      *)
(* edges too, and says when one was hit.  The trace of the legacy topology *)
(* is depth-first over its edges.                                          *)
(*                                                                         *)
(* One action looks at one node of the queue or at one edge.  An edge is   *)
(* its position among the dependencies: two may join the same nodes.       *)
(***************************************************************************)
EXTENDS Integers, Sequences, FiniteSets

CONSTANTS
    Queries,   \* what may be asked of which topology: the union of these sets
    None

VARIABLES
    query,
    queue,       \* nodes found and not expanded, in order: the paths to them
    source,      \* the path to the node being expanded
    rest,        \* its edges that have not been looked at
    nodes,       \* the path by which each node was found
    edges,       \* flow: the edges shown, in order
    references,  \* flow: positions in edges of those to a node found before
    resources,   \* flow: resource nodes shown
    truncation,  \* flow: which limit was hit, and where
    stack, chain,  \* trace: the calls in progress, and what they have found
    done

walking == <<queue, source, rest, nodes, edges, references, resources, truncation>>
tracing == <<stack, chain>>
vars == <<query, walking, tracing, done>>

Truncated(reason, n) == [reason |-> reason, frontier |-> {n}]
Whole == [reason |-> "none", frontier |-> {}]

Start(q) ==
    /\ query = q
    /\ queue = IF q.kind = "trace" THEN <<>> ELSE << <<q.root>> >>
    /\ source = <<>> /\ rest = {} /\ edges = <<>> /\ references = {} /\ resources = 0
    (* An impact does not count the member it starts from as found. *)
    /\ nodes = IF q.kind \in {"flow", "calls"} THEN [n \in {q.root} |-> <<q.root>>] ELSE <<>>
    /\ truncation = Whole /\ done = FALSE
    /\ stack = IF q.kind = "trace" THEN <<[at |-> q.root, handler |-> None, next |-> 1]>> ELSE <<>>
    /\ chain = <<>>
Init == \E family \in Queries : \E q \in family : Start(q)

-----------------------------------------------------------------------------
(* The dependencies that a query considers: those of the channels asked    *)
(* for, the alternatives of a message among them.  Impact walks between    *)
(* services, in one direction, and leaves out those from one to itself.    *)
Dependency(i) == query.dependencies[i]
Considered ==
    {i \in DOMAIN query.dependencies :
       /\ Dependency(i).kind \in query.channels
       /\ query.kind = "impact" => Dependency(i).source # Dependency(i).target}
Reversed == query.kind = "impact" /\ query.reverse
From(i) == IF Reversed THEN Dependency(i).target ELSE Dependency(i).source
To(i) == IF Reversed THEN Dependency(i).source ELSE Dependency(i).target
Leaving(n) == {i \in Considered : From(i) = n}
First(set) == {i \in set : \A j \in set : i <= j}
Depth(path) == Len(path) - 1
End(path) == path[Len(path)]

Stacked(path) == <<path>> \o queue
Enqueued(path) == Append(queue, path)

Dequeue ==
    /\ rest = {} /\ queue # <<>> /\ Depth(Head(queue)) < query.max_depth
    /\ queue' = Tail(queue) /\ source' = Head(queue) /\ rest' = Leaving(End(Head(queue)))
    /\ UNCHANGED <<nodes, edges, references, resources, truncation>>

(* Only the last node whose edges are left out is remembered.              *)
NoMark(n) == truncation
Mark(n) == IF Leaving(n) # {} /\ query.kind = "flow"
           THEN Truncated("max_depth", n) ELSE truncation
CutOff ==
    /\ rest = {} /\ queue # <<>> /\ Depth(Head(queue)) >= query.max_depth
    /\ queue' = Tail(queue) /\ truncation' = Mark(End(Head(queue)))
    /\ UNCHANGED <<source, rest, nodes, edges, references, resources>>

StopExpanding(reason, n) == rest' = {} /\ truncation' = Truncated(reason, n) /\ UNCHANGED queue
Stop(reason, n) == queue' = <<>> /\ rest' = {} /\ truncation' = Truncated(reason, n)
EdgesAreFull == query.kind = "flow" /\ Len(edges) >= query.max_edges
NodesOverflow == query.kind = "flow" /\ Cardinality(DOMAIN nodes) > query.max_nodes
NodesAreFull == query.kind = "flow" /\ Cardinality(DOMAIN nodes) >= query.max_nodes

EdgeLimit ==
    /\ rest # {} /\ EdgesAreFull
    /\ Stop("max_edges", End(source))
    /\ UNCHANGED <<source, nodes, edges, references, resources>>
Revisit(i) ==
    /\ To(i) \in DOMAIN nodes
    /\ references' = references \cup {Len(edges) + 1} /\ rest' = rest \ {i}
    /\ UNCHANGED <<queue, nodes, truncation>>
(* The edge to the node that is one too many is shown all the same.        *)
NodeLimit(i) ==
    /\ To(i) \notin DOMAIN nodes /\ NodesAreFull
    /\ Stop("max_nodes", To(i))
    /\ UNCHANGED <<nodes, references>>
Reach(i) ==
    /\ To(i) \notin DOMAIN nodes /\ ~ NodesAreFull
    /\ nodes' = [n \in DOMAIN nodes \cup {To(i)} |-> IF n = To(i) THEN Append(source, n) ELSE nodes[n]]
    /\ queue' = Enqueued(Append(source, To(i)))
    /\ rest' = rest \ {i}
    /\ UNCHANGED <<references, truncation>>
Show ==
    /\ ~ EdgesAreFull
    /\ \E i \in First(rest) :
         /\ edges' = Append(edges, i)
         /\ Revisit(i) \/ NodeLimit(i) \/ Reach(i)
    /\ UNCHANGED <<source, resources>>

(* Resources of the member share the limit of the nodes.                   *)
Finish ==
    /\ query.kind # "trace" /\ queue = <<>> /\ rest = {} /\ ~ done
    /\ LET room == IF query.max_nodes > Cardinality(DOMAIN nodes)
                   THEN query.max_nodes - Cardinality(DOMAIN nodes) ELSE 0
       IN  /\ resources' = IF query.resources > room THEN room ELSE query.resources
           /\ truncation' = IF query.resources > room /\ truncation = Whole
                            THEN Truncated("max_nodes", query.root) ELSE truncation
    /\ done' = TRUE
    /\ UNCHANGED <<query, queue, source, rest, nodes, edges, references, tracing>>

Walk == (Dequeue \/ CutOff \/ EdgeLimit \/ Show) /\ UNCHANGED <<query, tracing, done>>

-----------------------------------------------------------------------------
(* trace: an edge is followed once, by its key *)

TraceKey(e) == <<e.source, e.path, e.from, e.target, e.url>>
Seen == {TraceKey(chain[i].edge) : i \in DOMAIN chain}
Frame == stack[Len(stack)]
Hops == Len(stack) - 1
Edge == query.dependencies[Frame.next]

AnyHandler(e, handler) == TRUE
Continues(e, handler) == handler = None \/ e.handler = None \/ e.handler = handler
Begins(e) == query.path = None \/ e.path = None \/ e.path = query.path
Follows(e) == /\ e.source = Frame.at /\ TraceKey(e) \notin Seen
              /\ IF Hops = 0 THEN Begins(e) ELSE Continues(e, Frame.handler)
Advanced == [stack EXCEPT ![Len(stack)].next = @ + 1]

Return ==
    /\ stack # <<>> /\ (Hops > query.max_depth \/ Frame.next > Len(query.dependencies))
    /\ stack' = SubSeq(stack, 1, Len(stack) - 1) /\ done' = (Len(stack) = 1) /\ UNCHANGED chain
Skip ==
    /\ stack # <<>> /\ Hops <= query.max_depth /\ Frame.next <= Len(query.dependencies)
    /\ ~ Follows(Edge) /\ stack' = Advanced /\ UNCHANGED <<chain, done>>
Follow ==
    /\ stack # <<>> /\ Hops <= query.max_depth /\ Frame.next <= Len(query.dependencies)
    /\ Follows(Edge)
    /\ chain' = Append(chain, [edge |-> Edge, depth |-> Hops])
    /\ stack' = Append(Advanced, [at |-> Edge.target, handler |-> Edge.to, next |-> 1])
    /\ UNCHANGED done

Trace == (Return \/ Skip \/ Follow) /\ UNCHANGED <<query, walking>>

Next == Walk \/ Finish \/ Trace

Spec == Init /\ [][Next]_vars

-----------------------------------------------------------------------------
(* Properties *)

(* The nodes that d edges lead to from the root. *)
Layer[d \in Nat] ==
    IF d = 0 THEN {query.root} ELSE {To(i) : i \in {k \in Considered : From(k) \in Layer[d - 1]}}
Least == IF query.kind = "impact" THEN 1 ELSE 0

(* The queue holds what was found and not expanded, and the limits hold.   *)
TypeOK ==
    /\ \A i \in DOMAIN queue : queue[i] = <<query.root>> \/ \E n \in DOMAIN nodes : queue[i] = nodes[n]
    /\ query.kind = "flow" =>
         /\ Cardinality(DOMAIN nodes) + resources <= query.max_nodes
         /\ Len(edges) <= query.max_edges
    /\ references \subseteq DOMAIN edges

(* A path is a shortest one: whoever is shown at a depth cannot be reached *)
(* with fewer hops, and nobody is shown beyond the limit.                  *)
PathsAreShortest ==
    \A n \in DOMAIN nodes :
      LET path == nodes[n] IN
        /\ path[1] = query.root /\ End(path) = n /\ Depth(path) <= query.max_depth
        /\ \A k \in 1 .. Depth(path) : \E i \in Considered : From(i) = path[k] /\ To(i) = path[k + 1]
        /\ \A d \in Least .. Depth(path) - 1 : n \notin Layer[d]

(* A flow that does not say it was truncated shows everything: each edge   *)
(* that leaves a node it shows, and the node at its end.  One that says so *)
(* did leave something out.                                                *)
WholeUnlessTruncated ==
    done /\ query.kind = "flow" =>
      LET left == {i \in Considered : From(i) \in DOMAIN nodes}
          whole == left \subseteq {edges[k] : k \in DOMAIN edges} /\ {To(i) : i \in left} \subseteq DOMAIN nodes
      IN  truncation = Whole <=> whole /\ resources = query.resources

(* An edge leads from a node that is shown to another, but for the last    *)
(* one of a flow that has hit the limit of its nodes.                      *)
OneEdgeMayDangle ==
    query.kind = "flow" =>
      \A k \in DOMAIN edges :
        /\ From(edges[k]) \in DOMAIN nodes
        /\ \/ To(edges[k]) \in DOMAIN nodes
           \/ k = Len(edges) /\ truncation = Truncated("max_nodes", To(edges[k]))

(* Impact and the calls of an endpoint find whoever is within the limit.   *)
NobodyIsMissed ==
    done /\ query.kind \in {"impact", "calls"} =>
      DOMAIN nodes = UNION {Layer[d] : d \in Least .. query.max_depth}

(* The trace follows calls: after the first, an edge leaves the service,   *)
(* and the handler where both ends know it, that an edge one hop before    *)
(* has entered; and no edge is followed twice.                             *)
TraceIsConnected ==
    \A i \in DOMAIN chain :
      LET hop == chain[i] IN
        /\ \A j \in 1 .. i - 1 : TraceKey(chain[j].edge) # TraceKey(hop.edge)
        /\ IF hop.depth = 0 THEN hop.edge.source = query.root
           ELSE \E j \in 1 .. i - 1 :
                  /\ chain[j].depth = hop.depth - 1 /\ chain[j].edge.target = hop.edge.source
                  /\ \/ None \in {hop.edge.handler, chain[j].edge.to}
                     \/ hop.edge.handler = chain[j].edge.to
=============================================================================
