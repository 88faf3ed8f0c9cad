--------------------------- MODULE ExplanationPlan ---------------------------
(***************************************************************************)
(* How the explanation of an endpoint is put together: its calls are       *)
(* frozen (infrastructure/explanation_source.py), ordered from the callees *)
(* to the callers (analysis/knowledge/explanation_graph.py), every source  *)
(* is explained in chunks (source_chunking.py) and every function with     *)
(* what it calls, taking over from the previous explanation what has not   *)
(* changed (application/explanation_generation_service.py), and the whole  *)
(* is validated (explanation_validation.py).  What an explanation says is  *)
(* the set of the sources it tells of, with their versions.                *)
(***************************************************************************)
EXTENDS Integers, Sequences, SequencesExt, FiniteSetsExt

CONSTANTS
    Functions,    \* numbers, in the order of their ids
    Entry,        \* the handler of the endpoint
    Graphs,       \* calls that the code may have: sets of pairs of functions
    Lines,        \* per function: the lines of its source that are there
    Declared,     \* per function: the lines it is said to have
    Boundaries,   \* per function: lines at which control flow begins
    MaxNodes, MaxCallees, ChunkLines, Overlap,   \* limits of the code
    None,
    MaxChanges, MaxGenerations   \* bounds

VARIABLES
    calls, version,   \* the code now
    at,           \* what the generation does next, or None
    frozen,       \* the frozen graph: nodes with versions, edges, truncated, code
    order,        \* the functions planned so far, in order
    chunks,       \* per function: first and last line of its chunks
    locals,       \* functions whose own source is explained
    aggregates,   \* per function: digest, and what it tells of
    published,    \* the last published explanation, or None
    changes, generations

vars == <<calls, version, at, frozen, order, chunks, locals, aggregates, published,
          changes, generations>>

-----------------------------------------------------------------------------
Empty == [n \in {} |-> None]
NothingFrozen == [nodes |-> Empty, edges |-> {}, truncated |-> FALSE, code |-> {}]
Nodes == DOMAIN frozen.nodes
Sorted(S) == SetToSortSeq(S, <)

(* Breadth first from the entry, the first callees of each; what is over a *)
(* limit is left out, and that is noted.                                   *)
Callees(n) == {c \in Functions : <<n, c>> \in calls}
Kept(n) == {c \in Callees(n) : Cardinality({d \in Callees(n) : d < c}) < MaxCallees}
RECURSIVE Visit(_, _)
Visit(queue, visited) ==
    IF queue = <<>> THEN [nodes |-> visited, cut |-> FALSE]
    ELSE LET n == Head(queue) IN
         IF n \in visited THEN Visit(Tail(queue), visited)
         ELSE IF Cardinality(visited) >= MaxNodes THEN [nodes |-> visited, cut |-> TRUE]
         ELSE Visit(Tail(queue) \o Sorted(Kept(n) \ (visited \cup {n})), visited \cup {n})
Unmarked(seen) == seen.cut
Truncated(seen) == seen.cut \/ \E n \in seen.nodes : Kept(n) # Callees(n)
WithDangling ==
    LET seen == Visit(<<Entry>>, {})
    IN  [nodes |-> [n \in seen.nodes |-> version[n]],
         edges |-> {e \in seen.nodes \X Functions : e[2] \in Kept(e[1])},
         truncated |-> Truncated(seen), code |-> calls]
Load ==
    LET seen == Visit(<<Entry>>, {})
    IN  [nodes |-> [n \in seen.nodes |-> version[n]],
         edges |-> {e \in seen.nodes \X seen.nodes : e[2] \in Kept(e[1])},
         truncated |-> Truncated(seen), code |-> calls]

Start ==
    /\ at = None /\ generations < MaxGenerations
    /\ generations' = generations + 1
    /\ at' = "plan" /\ frozen' = Load
    /\ order' = <<>> /\ chunks' = Empty /\ locals' = {} /\ aggregates' = Empty
    /\ UNCHANGED <<calls, version, published, changes>>

-----------------------------------------------------------------------------
(* The components of functions that call each other, and Kahn's order of   *)
(* them from the callees up, the lowest of those that are ready first.     *)
RECURSIVE Reached(_, _)
Reached(edges, from) ==
    LET to == from \cup {e[2] : e \in {d \in edges : d[1] \in from}}
    IN  IF to = from THEN from ELSE Reached(edges, to)
Reaches(n) == Reached(frozen.edges, {n})
Component(n) == {m \in Reaches(n) : n \in Reaches(m)}
Below(n) == {c \in Nodes : \E m \in Component(n) : <<m, c>> \in frozen.edges} \ Component(n)
AnyOne(n) == TRUE
Ready(n) == Below(n) \subseteq Range(order)
Plan ==
    /\ at = "plan"
    /\ LET ready == {n \in Nodes \ Range(order) : Ready(n)}
       IN  IF ready = {} THEN at' = "explain" /\ UNCHANGED order
           ELSE order' = order \o Sorted(Component(Min(ready))) /\ UNCHANGED at
    /\ UNCHANGED <<calls, version, frozen, chunks, locals, aggregates, published, changes, generations>>

-----------------------------------------------------------------------------
(* Every function's own source, in chunks that end before a line at which  *)
(* control flow begins, when there is one in the second half.              *)
Digest(n) == <<n, frozen.nodes[n]>>
Before(n) == published # None /\ n \in DOMAIN published.aggregates
LocalReused(n) == Before(n) /\ published.aggregates[n].digest.own = Digest(n)
Next1 == order[Cardinality(locals) + 1]
EndOf(n, start) ==
    LET hard == Min({start + ChunkLines, Lines[n]})
        soft == {i \in Boundaries[n] : start + ChunkLines \div 2 <= i /\ i <= hard /\ i < Lines[n]}
    IN  IF hard < Lines[n] /\ soft # {} THEN Max(soft) ELSE hard
Skipping(end) == end + Overlap
Resumed(end) == end - Overlap
ExplainChunk ==
    /\ at = "explain" /\ Cardinality(locals) < Len(order)
    /\ LET n == Next1
           had == IF n \in DOMAIN chunks THEN chunks[n] ELSE <<>>
           start == IF had = <<>> THEN 0 ELSE Resumed(Last(had)[2])
           now == Append(had, <<start, EndOf(n, start)>>)
           whole == Lines[n] = 0 \/ Last(now)[2] = Lines[n]
       IN  IF LocalReused(n)
           THEN locals' = locals \cup {n} /\ chunks' = [m \in DOMAIN chunks \cup {n} |->
                  IF m = n THEN published.chunks[n] ELSE chunks[m]]
           ELSE /\ chunks' = [m \in DOMAIN chunks \cup {n} |->
                                IF m # n THEN chunks[m] ELSE IF Lines[n] = 0 THEN <<>> ELSE now]
                /\ locals' = IF whole THEN locals \cup {n} ELSE locals
    /\ UNCHANGED <<calls, version, at, frozen, order, aggregates, published, changes, generations>>

(* Every function with what it calls: of a function of its own component   *)
(* its own explanation, of any other the explanation with what it calls.   *)
Local(n) == {Digest(n)}
SameCycle(n, c) == c \in Component(n)
CalledBy(n) == {c \in Nodes : <<n, c>> \in frozen.edges}
Told(n) ==
    Local(n) \cup UNION {IF SameCycle(n, c) THEN Local(c) ELSE aggregates[c].tells : c \in CalledBy(n)}
OwnDigest(n) == [own |-> Digest(n), calls |-> CalledBy(n), called |-> {}]
FullDigest(n) ==
    [own |-> Digest(n), calls |-> CalledBy(n),
     called |-> {IF c \in DOMAIN aggregates THEN <<"aggregate", aggregates[c].digest>>
                 ELSE <<"local", Digest(c)>> : c \in CalledBy(n)}]
AggregateReused(n, digest) == Before(n) /\ published.aggregates[n].digest = digest
Aggregate ==
    /\ at = "explain" /\ Cardinality(locals) = Len(order)
    /\ IF Cardinality(DOMAIN aggregates) = Len(order) THEN at' = "validate" /\ UNCHANGED aggregates
       ELSE LET n == order[Cardinality(DOMAIN aggregates) + 1]
                digest == FullDigest(n)
                tells == IF AggregateReused(n, digest) THEN published.aggregates[n].tells ELSE Told(n)
            IN  /\ aggregates' = [m \in DOMAIN aggregates \cup {n} |->
                       IF m = n THEN [digest |-> digest, tells |-> tells] ELSE aggregates[m]]
                /\ UNCHANGED at
    /\ UNCHANGED <<calls, version, frozen, order, chunks, locals, published, changes, generations>>

-----------------------------------------------------------------------------
(* validate_explanation_coverage: all that is frozen is explained, from    *)
(* all of its source, and the chunks cover every line.  A function that is *)
(* taken over counts as complete; then only its chunks tell.               *)
Covered(n) == UNION {c[1] + 1 .. c[2] : c \in Range(chunks[n])}
Gap(n) == chunks[n] # <<>> /\ ~(1 .. Declared[n] \subseteq Covered(n))
Issues ==
    \/ frozen.truncated
    \/ \E n \in Nodes : (~LocalReused(n) /\ Lines[n] < Declared[n]) \/ Lines[n] = 0 \/ Gap(n)
(* The code is loaded again: when it is not the same, it has changed       *)
(* meanwhile, and nothing is published.                                    *)
SameCode == Load.nodes = frozen.nodes /\ Load.edges = frozen.edges
Publish ==
    /\ at = "validate"
    /\ published' = IF SameCode
                    THEN [status |-> IF Issues THEN "partial" ELSE "completed", aggregates |-> aggregates,
                          frozen |-> frozen, chunks |-> chunks]
                    ELSE published
    /\ at' = None
    /\ UNCHANGED <<calls, version, frozen, order, chunks, locals, aggregates, changes, generations>>

(* The language model fails, or the generation is cancelled. *)
Abort ==
    /\ at \in {"explain", "validate"}
    /\ at' = None
    /\ UNCHANGED <<calls, version, frozen, order, chunks, locals, aggregates, published, changes, generations>>

(* The code changes: a function, or what is called. *)
Change ==
    /\ changes < MaxChanges /\ at \in {None, "explain"} /\ changes' = changes + 1
    /\ \/ \E n \in Functions : version' = [version EXCEPT ![n] = @ + 1] /\ UNCHANGED calls
       \/ calls' \in Graphs \ {calls} /\ UNCHANGED version
    /\ UNCHANGED <<at, frozen, order, chunks, locals, aggregates, published, generations>>

Init ==
    /\ calls \in Graphs /\ version = [n \in Functions |-> 1]
    /\ at = None /\ frozen = NothingFrozen
    /\ order = <<>> /\ chunks = Empty /\ locals = {} /\ aggregates = Empty
    /\ published = None /\ changes = 0 /\ generations = 0

Next ==
    \/ Start \/ Plan \/ ExplainChunk \/ Aggregate \/ Publish \/ Abort \/ Change

Spec == Init /\ [][Next]_vars
-----------------------------------------------------------------------------
(* Properties *)

(* The frozen graph is closed, and what is explained is frozen.            *)
TypeOK ==
    /\ frozen.edges \subseteq Nodes \X Nodes
    /\ Cardinality(Nodes) <= MaxNodes
    /\ Range(order) \subseteq Nodes /\ locals \subseteq Range(order)
    /\ DOMAIN aggregates \subseteq locals

(* The plan has every function once, and a function comes after those that *)
(* it calls, but for those that call it in turn.                           *)
OrderIsBottomUp ==
    at \in {"explain", "validate"} =>
      /\ Len(order) = Cardinality(Nodes) /\ Range(order) = Nodes
      /\ \A i, j \in DOMAIN order :
           <<order[i], order[j]>> \in frozen.edges => j <= i \/ order[i] \in Reaches(order[j])

(* The chunks of a source leave no line out, each but the last has its     *)
(* successor overlap, and each begins behind where the one before began.   *)
ChunksLeaveNoGap ==
    \A n \in DOMAIN chunks :
      /\ \A i \in 1 .. Len(chunks[n]) - 1 :
           /\ chunks[n][i + 1][1] > chunks[n][i][1]
           /\ chunks[n][i + 1][1] <= chunks[n][i][2]
      /\ n \in locals => Covered(n) = 1 .. Lines[n]

(* Whatever was taken over from the explanation before, a published one    *)
(* tells of no version but those that were frozen for it, and, of a        *)
(* function that leads to no functions that call each other, of it and of  *)
(* all that it calls.  Where functions call each other, a change of what   *)
(* one calls can leave the explanations of the others and of their callers *)
(* as they were, so that these miss functions.                             *)
Mutual(e, edges) == e[1] \in Reached(edges, {e[2]})
FreshlyTold(p, n) == {<<m, p.nodes[m]>> : m \in Reached(p.edges, {n})}
NoCycle(p, n) == \A e \in p.edges : e[1] \in Reached(p.edges, {n}) /\ e[1] # e[2] => ~Mutual(e, p.edges)
ReusedIsFresh ==
    published # None =>
      \A n \in DOMAIN published.aggregates :
        LET p == published.frozen
            tells == published.aggregates[n].tells
        IN  /\ \A t \in tells : t[1] \in DOMAIN p.nodes /\ t[2] = p.nodes[t[1]]
            /\ NoCycle(p, n) => tells = FreshlyTold(p, n)

(* A completed explanation leaves nothing out: whatever is called, from    *)
(* the entry on, was frozen, with all the lines it is said to have.        *)
CompletedIsWhole ==
    published # None /\ published.status = "completed" =>
      LET nodes == DOMAIN published.frozen.nodes IN
      /\ Entry \in nodes
      /\ \A e \in published.frozen.code : e[1] \in nodes => e[2] \in nodes
      /\ \A n \in nodes : Lines[n] > 0 /\ Lines[n] = Declared[n]
=============================================================================
