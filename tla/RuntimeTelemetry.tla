-------------------------- MODULE RuntimeTelemetry --------------------------
(***************************************************************************)
(* Telemetry of the running services (infrastructure/otlp_json.py,         *)
(* application/runtime_telemetry_service.py) is written down, each         *)
(* observation with the feature it belongs to, and held against the static *)
(* topology (analysis/topology/runtime_validation.py).                     *)
(***************************************************************************)
EXTENDS Integers, Sequences

CONSTANTS
    Spans,        \* what a span may say: its trace, stable id, link between two
                  \* services, method, path and number of errors
    Logs,         \* what a log record may say: its trace, stable id and severity
    Features,     \* the features of the store, in order: method and pattern
    Topologies,   \* sequences of static edges: link, method and pattern
    Fits,         \* pairs of a path and a pattern that PathMatcher matches
    None,
    MaxItems, MaxPayloads   \* bounds

VARIABLES
    topology,     \* the static edges
    payload,      \* spans and logs of the payload that is received
    todo,         \* observations to be written, each with its place
    traces,       \* per trace: the feature that its observations belong to
    batch,        \* rows of the transaction that is under way
    stored,       \* committed rows
    result        \* what the validation of the last payload answers, or None

vars == <<topology, payload, todo, traces, batch, stored, result>>

TraceIds == {x.trace : x \in Spans \cup Logs} \ {None}
-----------------------------------------------------------------------------
(* The collector: the errors of a span are observations of their own,      *)
(* right behind it; the logs are behind all the spans.                     *)
Span(x) == [kind |-> "span", trace |-> x.trace, stable |-> x.stable, link |-> x.link,
            method |-> x.method, path |-> x.path]
Log(x) == [kind |-> IF x.severe THEN "error" ELSE "log", trace |-> x.trace, stable |-> x.stable,
           link |-> None, method |-> None, path |-> None]
Observed(item, n) ==
    IF item.kind = "log" THEN Log(item.of)
    ELSE IF n = 0 THEN Span(item.of) ELSE [Span(item.of) EXCEPT !.kind = "error"]
Errors(item) == IF item.kind = "log" THEN 0 ELSE item.of.errors
Collected(items) ==
    UNION {{[of |-> Observed(items[i], n), from |-> items[i].kind, item |-> i, nth |-> n] :
              n \in 0 .. Errors(items[i])} : i \in DOMAIN items}

(* Which of two observations is written first: spans go before all the     *)
(* rest, which keep their order.                                           *)
IsSpan(x) == x.kind = "span"
AsCollected(o, p) ==
    \/ o.from = "span" /\ p.from = "log"
    \/ o.from = p.from /\ (o.item < p.item \/ (o.item = p.item /\ o.nth < p.nth))
SpansFirst(o, p) ==
    \/ IsSpan(o.of) /\ ~IsSpan(p.of)
    \/ (IsSpan(o.of) <=> IsSpan(p.of)) /\ AsCollected(o, p)

(* _feature_id: by its stable id, by its trace, by its method and path.    *)
Lowest(S) == IF S = {} THEN None ELSE CHOOSE i \in S : \A j \in S : i <= j
MethodFits(method, other) == method = None \/ other = None \/ method = other
ByPath(x) ==
    Lowest({i \in DOMAIN Features :
              /\ x.path # None /\ <<x.path, Features[i].path>> \in Fits
              /\ x.method \in {None, Features[i].method}})
FeatureOf(x) ==
    IF x.stable \in DOMAIN Features THEN x.stable
    ELSE IF x.trace # None /\ traces[x.trace] # None THEN traces[x.trace]
    ELSE ByPath(x)

-----------------------------------------------------------------------------
(* The spans are grouped by link, method and path.  A group stands where   *)
(* its first span stands, and counts the spans that are like it.           *)
GroupOf(x) == [link |-> x.link, method |-> x.method, path |-> x.path]
Alike(rows, i, j) ==
    IsSpan(rows[i].of) /\ IsSpan(rows[j].of) /\ GroupOf(rows[i].of) = GroupOf(rows[j].of)
Leaders(rows) == {i \in DOMAIN rows : IsSpan(rows[i].of) /\ \A j \in 1 .. i - 1 : ~Alike(rows, i, j)}
Groups(rows) ==
    [i \in Leaders(rows) |-> [group |-> GroupOf(rows[i].of),
                              counted |-> {j \in DOMAIN rows : Alike(rows, i, j)}]]

(* validate: every static edge takes the first group that fits it and that *)
(* no edge before it has taken.                                            *)
EdgeFits(edge, group) ==
    /\ group.link = edge.link /\ MethodFits(group.method, edge.method)
    /\ <<group.path, edge.path>> \in Fits
Retaken(taken, e, i) == TRUE
Untaken(taken, e, i) == \A d \in 1 .. e - 1 : taken[d] # i
Matched(edges, groups) ==
    LET taken[e \in DOMAIN edges] ==
          Lowest({i \in DOMAIN groups : Untaken(taken, e, i) /\ EdgeFits(edges[e], groups[i].group)})
    IN  taken
Validation(rows) ==
    LET groups == Groups(rows)
        taken == Matched(topology, groups)
        static == {e \in DOMAIN topology : taken[e] = None}
    IN  [confirmed |-> {<<e, taken[e]>> : e \in DOMAIN topology \ static},
         staticOnly |-> static,
         runtimeOnly |-> {i \in DOMAIN groups : \A e \in DOMAIN topology : taken[e] # i},
         groups |-> groups]

-----------------------------------------------------------------------------
Receive ==
    /\ todo = {} /\ batch = <<>> /\ Len(payload) < MaxItems /\ Len(stored) < MaxPayloads
    /\ \/ \E x \in Spans : payload' = Append(payload, [kind |-> "span", of |-> x])
       \/ \E x \in Logs : payload' = Append(payload, [kind |-> "log", of |-> x])
    /\ UNCHANGED <<topology, todo, traces, batch, stored, result>>

Ingest ==
    /\ todo = {} /\ batch = <<>> /\ payload # <<>>
    /\ todo' = Collected(payload)
    /\ traces' = [t \in TraceIds |-> None]
    /\ UNCHANGED <<topology, payload, batch, stored, result>>

Insert(o) ==
    /\ o \in todo /\ \A p \in todo \ {o} : SpansFirst(o, p)
    /\ LET observed == o.of
           feature == FeatureOf(observed)
       IN  /\ batch' = Append(batch, [of |-> observed, feature |-> feature])
           /\ traces' = IF observed.trace # None /\ feature # None
                        THEN [traces EXCEPT ![observed.trace] = feature]
                        ELSE traces
    /\ todo' = todo \ {o}
    /\ UNCHANGED <<topology, payload, stored, result>>

Commit ==
    /\ todo = {} /\ batch # <<>>
    /\ stored' = Append(stored, batch)
    /\ result' = Validation(batch)
    /\ payload' = <<>> /\ batch' = <<>>
    /\ UNCHANGED <<topology, todo, traces>>

(* An insert fails or the process dies: the transaction is rolled back,    *)
(* and the payload may be sent again.                                      *)
Rollback ==
    /\ todo # {} \/ batch # <<>>
    /\ todo' = {} /\ batch' = <<>>
    /\ UNCHANGED <<topology, payload, traces, stored, result>>

Init ==
    /\ topology \in Topologies
    /\ payload = <<>> /\ todo = {} /\ batch = <<>> /\ stored = <<>>
    /\ traces = [t \in TraceIds |-> None] /\ result = None

Next == Receive \/ Ingest \/ (\E o \in todo : Insert(o)) \/ Commit \/ Rollback

Spec == Init /\ [][Next]_vars
-----------------------------------------------------------------------------
(* Properties *)

(* A row names a feature of the store, or none, and the validation counts  *)
(* every span of the payload in one group.                                 *)
TypeOK ==
    /\ \A p \in DOMAIN stored : \A i \in DOMAIN stored[p] : stored[p][i].feature \in DOMAIN Features \cup {None}
    /\ result # None =>
         LET rows == stored[Len(stored)] IN
         \A i \in DOMAIN rows :
           LET counting == {g \in DOMAIN result.groups : i \in result.groups[g].counted}
           IN  IF IsSpan(rows[i].of) THEN \E g \in counting : counting = {g} ELSE counting = {}

(* Once a span tells the feature of its trace, whatever else the payload   *)
(* says of the trace is associated, wherever in the payload it is.         *)
TracesAreAssociated ==
    \A p \in DOMAIN stored : \A i, j \in DOMAIN stored[p] :
      LET span == stored[p][i]  second == stored[p][j] IN
      /\ IsSpan(span.of) /\ span.feature # None /\ span.of.trace # None
      /\ second.of.trace = span.of.trace /\ ~IsSpan(second.of)
      => second.feature # None

(* A static edge is confirmed by one group of spans and a group confirms   *)
(* one edge; an edge and a group that are left over do not fit each other. *)
EverythingIsValidatedOnce ==
    result # None =>
      /\ {c[1] : c \in result.confirmed} \cup result.staticOnly = DOMAIN topology
      /\ {c[2] : c \in result.confirmed} \cup result.runtimeOnly = DOMAIN result.groups
      /\ \A c, d \in result.confirmed : (c[1] = d[1] \/ c[2] = d[2]) => c = d
      /\ \A e \in result.staticOnly, i \in result.runtimeOnly : ~EdgeFits(topology[e], result.groups[i].group)
=============================================================================
