---------------------------- MODULE Communication ----------------------------
(***************************************************************************)
(* What a frozen repository says of its communication                      *)
(* (analysis/communication): the entries of the program, the functions     *)
(* each of them reaches over calls (entry_collector.py), the calls that    *)
(* they make to others -- requests, messages, remote procedures, resources *)
(* -- as observations of the entry (extractor.py), and the artifact that   *)
(* holds them and says how complete it is (schema.py).  Entries, depth,    *)
(* functions, calls and observations are limited.  A fact is a record of   *)
(* the entry, the caller and the callee; a path is the functions on it.    *)
(***************************************************************************)
EXTENDS Integers, Sequences, SequencesExt, FiniteSetsExt

CONSTANTS
    Functions,     \* numbers, in the order of their files and lines
    Codes,         \* calls, and the function whose name or decorator says what it is:
                   \* named: per function; declared: per function; excluded: tests and
                   \* examples; literal: calls and functions (as pairs) beside which a name is found
    Supports,      \* protocols that the collectors support for the language
    MaxEntries, MaxDepth, MaxNodes, MaxEdges, MaxFacts,    \* budgets of the code
    None

Protocols == <<"http", "message", "grpc", "resource">>

VARIABLES
    code, supported,
    at,          \* "entries", "reach", a protocol, "build" or "done"
    entries,     \* functions that handle an entry
    queue,       \* functions to be looked at for the last entry, with their depth
    examined,    \* calls that were examined for it
    paths,       \* per entry: per function that it reaches, the path to it
    cut,         \* entries whose functions are incomplete
    results,     \* per protocol: facts, entries and status
    artifact     \* facts, entries and completeness, or None

vars == <<code, supported, at, entries, queue, examined, paths, cut, results, artifact>>

-----------------------------------------------------------------------------
(* Entries: the first of the functions that are declared as one, in code   *)
(* that is neither a test nor an example.                                  *)
Sorted(S) == SetToSortSeq(S, <)
Eligible == {f \in Functions : code.declared[f] = "entry"} \ code.excluded
CollectEntries ==
    /\ at = "entries"
    /\ entries' = SubSeq(Sorted(Eligible), 1, Min({MaxEntries, Cardinality(Eligible)}))
    /\ at' = "reach"
    /\ UNCHANGED <<code, supported, queue, examined, paths, cut, results, artifact>>

(* The calls of a function in turn, until one is over a limit.             *)
Callees(f) == Sorted({g \in Functions : <<f, g>> \in code.calls})
RoomForOneMore(found) == Cardinality(DOMAIN found) <= MaxNodes
Room(found) == Cardinality(DOMAIN found) < MaxNodes
InFront(old, new) == new \o old
Behind(old, new) == old \o new
Step(from, walk, to) ==
    LET now == [walk EXCEPT !.examined = @ + 1] IN
    IF walk.stopped THEN walk
    ELSE IF now.examined > MaxEdges THEN [now EXCEPT !.stopped = TRUE]
    ELSE IF to \in DOMAIN walk.found THEN now
    ELSE IF ~Room(walk.found) THEN [now EXCEPT !.stopped = TRUE]
    ELSE [now EXCEPT !.found = [g \in DOMAIN @ \cup {to} |-> IF g = to THEN Append(@[from], to) ELSE @[g]],
                     !.queue = Behind(@, <<to>>)]
Walk(e, f) ==
    LET step(walk, to) == Step(f, walk, to)
    IN  FoldLeft(step, [found |-> paths[e], queue |-> Tail(queue), examined |-> examined, stopped |-> FALSE],
                 Callees(f))

Started == Cardinality(DOMAIN paths)
NextEntry ==
    /\ at = "reach" /\ queue = <<>>
    /\ IF Started = Len(entries) THEN at' = "http" /\ UNCHANGED <<queue, examined, paths>>
       ELSE LET e == entries[Started + 1] IN
            /\ paths' = [d \in DOMAIN paths \cup {e} |-> IF d = e THEN [f \in {e} |-> <<e>>] ELSE paths[d]]
            /\ queue' = <<e>> /\ examined' = 0 /\ UNCHANGED at
    /\ UNCHANGED <<code, supported, entries, cut, results, artifact>>
Reach ==
    /\ at = "reach" /\ queue # <<>>
    /\ LET e == entries[Started]
           f == Head(queue)
           walk == Walk(e, f)
       IN  IF Len(paths[e][f]) - 1 >= MaxDepth
           THEN /\ cut' = IF Callees(f) # <<>> THEN cut \cup {e} ELSE cut
                /\ queue' = Tail(queue) /\ UNCHANGED <<examined, paths>>
           ELSE /\ cut' = IF walk.stopped THEN cut \cup {e} ELSE cut
                /\ queue' = walk.queue /\ examined' = walk.examined
                /\ paths' = [paths EXCEPT ![e] = walk.found]
    /\ UNCHANGED <<code, supported, at, entries, results, artifact>>

-----------------------------------------------------------------------------
(* What the calls are, by the name of the called function; a consumer is   *)
(* any function that has such a name or decorator, or calls one.           *)
EntriesOf(f) == {e \in DOMAIN paths : f \in DOMAIN paths[e]}
Named(what) == {f \in Functions : code.named[f] \in what}
Messages == {"publish", "consume"}
Consumers ==
    {f \in Functions : code.declared[f] = "consumer" \/ f \in Named(Messages)
                       \/ \E c \in Named(Messages) : <<f, c>> \in code.calls}
Fact(kind, e, f, c, resolved, path) ==
    [kind |-> kind, entry |-> e, caller |-> f, callee |-> c, resolved |-> resolved, path |-> path]
CallFacts(kind, what) ==
    UNION {{Fact(kind, e, d[1], d[2], d \in code.literal, paths[e][d[1]]) : e \in EntriesOf(d[1])} :
           d \in {d \in code.calls : d[2] \in Named(what)}}
(* A consumer that no entry reaches is an entry of its own.                *)
Overheard == {}
Synthetic == {f \in Consumers : EntriesOf(f) = {}}
Subscriptions ==
    UNION {{Fact("subscription", e, f, f, <<f, f>> \in code.literal, paths[e][f]) : e \in EntriesOf(f)} : f \in Consumers}
    \cup {Fact("subscription", f, f, f, <<f, f>> \in code.literal, <<f>>) : f \in Synthetic}
Facts(p) ==
    CASE p = "http" -> CallFacts("outbound", {"request"})
      [] p = "message" -> CallFacts("publication", Messages) \cup Subscriptions
      [] p = "grpc" -> CallFacts("client", {"rpc"})
      [] p = "resource" -> CallFacts("access", {"query"})

(* Every field of a result is limited on its own. *)
Field(o) == IF ~o.resolved /\ o.kind \in {"outbound", "publication", "subscription"}
            THEN "unresolved" ELSE o.kind
Fields == {"outbound", "publication", "subscription", "client", "access", "unresolved"}
In(field, facts) == {o \in facts : Field(o) = field}
Kept(facts) ==
    {S \in SUBSET facts : \A field \in Fields :
        Cardinality(In(field, S)) = Min({MaxFacts, Cardinality(In(field, facts))})}
OfEntries == Cardinality(Eligible) > Len(entries)
Bounded == cut # {} \/ Cardinality(Eligible) > Len(entries)
Status(p, facts, kept) ==
    IF p \notin supported THEN "unsupported"
    ELSE IF Bounded \/ kept # facts THEN "truncated" ELSE "complete"
WithoutOwn(p) == IF p = "http" THEN Range(entries) ELSE {}
EntriesIn(p) ==
    IF p = "http" THEN Range(entries)
    ELSE IF p = "message" /\ p \in supported THEN Synthetic ELSE {}
Collect(i) ==
    /\ at = Protocols[i]
    /\ LET p == Protocols[i]
           facts == IF p \in supported THEN Facts(p) ELSE {}
       IN \E kept \in Kept(facts) :
            results' = [q \in DOMAIN results \cup {p} |->
               IF q = p THEN [facts |-> kept, entries |-> EntriesIn(p), status |-> Status(p, facts, kept)]
               ELSE results[q]]
    /\ at' = IF i < Len(Protocols) THEN Protocols[i + 1] ELSE "build"
    /\ UNCHANGED <<code, supported, entries, queue, examined, paths, cut, artifact>>

-----------------------------------------------------------------------------
(* The artifact refuses facts of entries that it does not hold; the worker *)
(* then stores one without any facts.                                      *)
AllEntries == UNION {results[p].entries : p \in DOMAIN results}
AllFacts == UNION {results[p].facts : p \in DOMAIN results}
Valid == \A o \in AllFacts : o.entry \in AllEntries
Completeness ==
    IF \A p \in DOMAIN results : results[p].status = "complete" THEN "complete" ELSE "partial"
Build ==
    /\ at = "build"
    /\ artifact' = IF Valid
                   THEN [facts |-> AllFacts, entries |-> AllEntries, completeness |-> Completeness, failed |-> FALSE]
                   ELSE [facts |-> {}, entries |-> {}, completeness |-> "partial", failed |-> TRUE]
    /\ at' = "done"
    /\ UNCHANGED <<code, supported, entries, queue, examined, paths, cut, results>>

Init ==
    /\ code \in Codes /\ supported \in Supports
    /\ at = "entries" /\ entries = <<>> /\ queue = <<>> /\ examined = 0
    /\ paths = [e \in {} |-> <<>>] /\ cut = {} /\ results = [p \in {} |-> <<>>] /\ artifact = None

Next ==
    \/ CollectEntries \/ NextEntry \/ Reach
    \/ \E i \in DOMAIN Protocols : Collect(i)
    \/ Build

Spec == Init /\ [][Next]_vars
-----------------------------------------------------------------------------
(* Properties *)

(* The budgets hold, for every entry and every field of the artifact.      *)
TypeOK ==
    /\ Range(entries) \subseteq Eligible /\ Len(entries) <= MaxEntries
    /\ DOMAIN paths \subseteq Range(entries) /\ cut \subseteq DOMAIN paths
    /\ \A e \in DOMAIN paths :
         /\ Cardinality(DOMAIN paths[e]) <= MaxNodes
         /\ \A f \in DOMAIN paths[e] : Len(paths[e][f]) <= MaxDepth + 1
    /\ \A p \in DOMAIN results : \A field \in Fields \ {"unresolved"} :
         Cardinality(In(field, results[p].facts)) <= MaxFacts

(* The path of a fact leads from its entry to the caller, over calls of    *)
(* the code, and no other is shorter, whatever was left out for a budget.  *)
RECURSIVE Within(_, _)
Within(S, n) ==
    IF n = 0 THEN S ELSE Within(S \cup {d[2] : d \in {d \in code.calls : d[1] \in S}}, n - 1)
PathsAreShortest ==
    \A e \in DOMAIN paths : \A f \in DOMAIN paths[e] :
      LET path == paths[e][f] IN
      /\ path[1] = e /\ Last(path) = f
      /\ \A i \in 1 .. Len(path) - 1 : <<path[i], path[i + 1]>> \in code.calls
      /\ Len(path) > 1 => f \notin Within({e}, Len(path) - 2)

(* An artifact that says it is complete tells of every call to another     *)
(* system, by any function that an entry reaches, as one of that entry.    *)
Telling == Named({"request", "publish", "consume", "rpc", "query"})
CompleteIsWhole ==
    artifact # None /\ artifact.completeness = "complete" =>
      \A e \in Eligible : \A d \in code.calls :
        d[1] \in Within({e}, Cardinality(Functions)) /\ d[2] \in Telling =>
          \E o \in artifact.facts : o.entry = e /\ o.caller = d[1] /\ o.callee = d[2]

(* Whatever is collected, the artifact is one that the schema accepts.     *)
SchemaHolds == artifact # None => ~artifact.failed

(* Every consumer is in an artifact that is complete for messages, even    *)
(* one that no entry of the program reaches.                               *)
ConsumersAreHeard ==
    artifact # None /\ results["message"].status = "complete" =>
      \A f \in Consumers : \E o \in artifact.facts : o.kind = "subscription" /\ o.caller = f
=============================================================================
