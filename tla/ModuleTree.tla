----------------------------- MODULE ModuleTree -----------------------------
(***************************************************************************)
(* The tree of modules of a repository and how they are coupled            *)
(* (analysis/knowledge/module_topology.py): by its directories, by         *)
(* business names its files carry, or by the taxonomy a language model has *)
(* given (analysis/knowledge/business_taxonomy.py).  A path and a module   *)
(* id are sequences of segments; the root module is the empty one.         *)
(***************************************************************************)
EXTENDS Integers, Sequences, SequencesExt, FiniteSetsExt

CONSTANTS
    Files,        \* source files: directory, entity and domain that the name tells
    Manifests,    \* directories that may hold a build file
    Containers,   \* segments such as src and main
    Underscored,  \* segments that begin with an underscore
    Domains,      \* what the language model may call a domain
    Shared, Unclassified, Invented, None,
    MinFiles, MinEntities, TopDomains, SubDepth,   \* limits of the code
    MaxFiles, MaxEdges   \* bounds

VARIABLES
    files, manifests, edges,   \* the repository
    domains,      \* domains that the model has proposed, in order
    taxonomy,     \* the stored taxonomy: per file domain and entity; or None
    tree          \* the answer: leaf of each file, modules, metrics; or None

vars == <<files, manifests, edges, domains, taxonomy, tree>>

-----------------------------------------------------------------------------
(* Layout by directories. *)

Cut(id, depth) == SubSeq(id, 1, IF depth < Len(id) THEN depth ELSE Len(id))

(* Only the innermost build files count; the root gives way to any other.  *)
Roots ==
    LET inner == {m \in manifests : ~\E o \in manifests : o # m /\ o # <<>> /\ IsPrefix(m, o)}
    IN  IF inner = {} THEN {<<>>} ELSE inner
RootOf(f) ==
    LET above == {r \in Roots : IsPrefix(r, f.dir)} \cup {<<>>}
    IN  CHOOSE r \in above : \A o \in above : Len(o) <= Len(r)
Normalised(segments) ==
    LET named == {i \in DOMAIN segments : segments[i] \notin Containers}
    IN  IF named = {} THEN segments ELSE SubSeq(segments, Min(named), Len(segments))
Segments(f) == Normalised(SubSeq(f.dir, Len(RootOf(f)) + 1, Len(f.dir)))
CommonPrefix ==
    LET named == {Segments(f) : f \in files} \ {<<>>}
    IN  IF named = {} THEN <<>> ELSE LongestCommonPrefix(named)
PathId(f) ==
    LET tail == SubSeq(Segments(f), Len(CommonPrefix) + 1, Len(Segments(f)))
    IN  RootOf(f) \o Cut(tail, SubDepth)

-----------------------------------------------------------------------------
(* Layout by business names. *)

EntitiesOf(domain) == {f.entity : f \in {g \in files : g.domain = domain}}
NamedDomain(f) ==
    IF f.domain # None /\ Cardinality(EntitiesOf(f.domain)) >= MinEntities THEN f.domain ELSE None
AcceptsBusinessLayout ==
    LET size(domain) == Cardinality({f \in files : NamedDomain(f) = domain})
        named == {NamedDomain(f) : f \in files} \ {None}
    IN  /\ Cardinality(files) >= MinFiles /\ named # {}
        /\ \E top \in SUBSET named :
             /\ Cardinality(top) <= TopDomains
             /\ 2 * MapThenSumSet(size, top) >= Cardinality(files)
BusinessId(domain, entity) == <<IF domain = None THEN Shared ELSE domain, entity>>
HeuristicId(f) == BusinessId(NamedDomain(f), f.entity)
TaxonomyId(f) ==
    IF f \in DOMAIN taxonomy THEN BusinessId(taxonomy[f].domain, taxonomy[f].entity)
    ELSE BusinessId(None, f.entity)

-----------------------------------------------------------------------------
(* The modules, and how they depend on each other. *)

Source == IF taxonomy # None THEN "llm" ELSE IF AcceptsBusinessLayout THEN "heuristic" ELSE "paths"
Leaf(f) ==
    CASE Source = "llm" -> TaxonomyId(f) [] Source = "heuristic" -> HeuristicId(f) [] OTHER -> PathId(f)
LeafOf == [f \in files |-> Leaf(f)]

(* Ids that begin with an underscore are taken for notes of the code's own.*)
Hidden(id) == id # <<>> /\ Head(id) \in Underscored
LeavesOf(leaf) == {leaf[f] : f \in files} \cup {<<>>}
BranchesOf(leaf) == {id \in UNION {Prefixes(leaf[f]) \ {leaf[f]} : f \in files} \cup {<<>>} : ~Hidden(id)}
ModulesOf(leaf) ==
    {id \in UNION {Prefixes(leaf[f]) : f \in files} \cup {<<>>} : ~Hidden(id)}

CouplingDepth(modules) ==
    LET depths == {Len(m) : m \in modules}
        split == {d \in depths : Cardinality({m \in modules : Len(m) = d}) >= 2}
    IN  IF split = {} THEN Max(depths) ELSE Min(split)
ScopeDepth(modules) == IF Source = "paths" THEN CouplingDepth(modules) ELSE 2
GroupDepth(modules) == IF Source = "paths" THEN CouplingDepth(modules) ELSE 1

(* Between modules at a depth; an edge within one leaf does not count. *)
DependsOnLeaf(leaf, depth) ==
    {d \in {<<Cut(leaf[e[1]], depth), leaf[e[2]]>> : e \in edges} : d[1] # d[2]}
Depends(leaf, depth) ==
    {d \in {<<Cut(leaf[e[1]], depth), Cut(leaf[e[2]], depth)>> : e \in edges} : d[1] # d[2]}
Internal(leaf, m) == Cardinality({e \in edges : IsPrefix(m, leaf[e[1]]) /\ IsPrefix(m, leaf[e[2]])})
External(leaf, m) == Cardinality({e \in edges : IsPrefix(m, leaf[e[1]]) # IsPrefix(m, leaf[e[2]])})
Unordered(pairs) == {{d[1], d[2]} : d \in pairs}
Contained(leaf, depth) ==
    Unordered({<<leaf[e[1]], leaf[e[2]]>> :
        e \in {d \in edges : leaf[d[1]] # leaf[d[2]] /\ Cut(leaf[d[1]], depth) = Cut(leaf[d[2]], depth)}})

Metrics(leaf, modules) ==
    LET groups == GroupDepth(modules)
        own(m) == Depends(leaf, IF Len(m) = groups THEN groups ELSE ScopeDepth(modules))
    IN  [m \in modules |->
           [owned |-> {f \in files : leaf[f] = m},
            total |-> Cardinality({f \in files : IsPrefix(m, leaf[f])}),
            internal |-> Internal(leaf, m), external |-> External(leaf, m),
            efferent |-> Cardinality({d \in own(m) : d[1] = m}),
            afferent |-> Cardinality({d \in own(m) : d[2] = m})]]

(* An edge at a module that was left out fails the whole extraction. *)
Failed(leaf) == \E e \in edges : Hidden(leaf[e[1]]) \/ Hidden(leaf[e[2]])
Tree ==
    LET leaf == LeafOf
        modules == ModulesOf(leaf)
        groups == GroupDepth(modules)
    IN  IF Failed(leaf) THEN [source |-> "failed"]
        ELSE [source |-> Source, leaf |-> leaf, modules |-> Metrics(leaf, modules),
              depth |-> groups,
              dependencies |-> Depends(leaf, groups) \cup Depends(leaf, ScopeDepth(modules)),
              crossing |-> Cardinality(Unordered(Depends(leaf, groups))),
              contained |-> Cardinality(Contained(leaf, groups))]

-----------------------------------------------------------------------------
Repository == <<files, manifests, edges>>
Scan ==
    /\ tree = None /\ taxonomy = None /\ domains = <<>>
    /\ \/ \E f \in Files \ files :
            /\ Cardinality(files) < MaxFiles /\ edges = {}
            /\ files' = files \cup {f} /\ UNCHANGED <<manifests, edges>>
       \/ \E m \in Manifests \ manifests :
            /\ files = {} /\ manifests' = manifests \cup {m} /\ UNCHANGED <<files, edges>>
       \/ \E a, b \in files :
            /\ a # b /\ <<a, b>> \notin edges /\ Cardinality(edges) < MaxEdges
            /\ edges' = edges \cup {<<a, b>>} /\ UNCHANGED <<files, manifests>>
    /\ UNCHANGED <<domains, taxonomy, tree>>

(* parse_domains: a domain that is named twice is taken once. *)
Propose ==
    \E answer \in {<<d>> : d \in Domains} \cup (Domains \X Domains) :
      /\ tree = None /\ taxonomy = None /\ domains = <<>> /\ files # {}
      /\ domains' = IF Cardinality(Range(answer)) < Len(answer) THEN <<answer[1]>> ELSE answer
      /\ UNCHANGED <<Repository, taxonomy, tree>>

(* parse_assignments keeps what names a domain; assemble_taxonomy puts the *)
(* entities that are left into a bucket of their own, and fails when no    *)
(* domain has an entity.                                                   *)
Entities == {f.entity : f \in files}
Parsed(answer) == [e \in Entities |-> IF answer[e] \in Range(domains) \cup {Shared} THEN answer[e] ELSE None]
Bucket(assigned, f) ==
    CASE assigned[f.entity] = None -> [domain |-> None, entity |-> Unclassified]
      [] assigned[f.entity] = Shared /\ Shared \notin Range(domains) -> [domain |-> None, entity |-> Shared]
      [] OTHER -> [domain |-> assigned[f.entity], entity |-> f.entity]
PlacedOnly(assigned) == {f \in files : assigned[f.entity] # None}
Placed(assigned) == files
Assign ==
    /\ tree = None /\ taxonomy = None /\ domains # <<>>
    /\ \E answer \in [Entities -> Range(domains) \cup {Shared, Invented, None}] :
         LET assigned == Parsed(answer) IN
         \/ /\ \E e \in Entities : assigned[e] \in Range(domains)
            /\ taxonomy' = [f \in Placed(assigned) |-> Bucket(assigned, f)]
            /\ UNCHANGED domains
         \/ /\ ~\E e \in Entities : assigned[e] \in Range(domains)
            /\ domains' = <<>> /\ UNCHANGED taxonomy
    /\ UNCHANGED <<Repository, tree>>

Extract ==
    /\ tree = None /\ files # {}
    /\ tree' = Tree
    /\ UNCHANGED <<Repository, domains, taxonomy>>

Init ==
    /\ files = {} /\ manifests = {} /\ edges = {}
    /\ domains = <<>> /\ taxonomy = None /\ tree = None

Next == Scan \/ Propose \/ Assign \/ Extract

Spec == Init /\ [][Next]_vars
-----------------------------------------------------------------------------
(* Properties *)

Extracted == tree # None /\ tree.source # "failed"
Modules == DOMAIN tree.modules
Children(m) == {c \in Modules : Len(c) = Len(m) + 1 /\ IsPrefix(m, c)}

(* The modules are a tree: with a module goes the one above it.            *)
TypeOK ==
    Extracted =>
      /\ <<>> \in Modules
      /\ \A m \in Modules : m # <<>> => Front(m) \in Modules

(* A module's files are its own and those of the modules below it.  Only   *)
(* files in directories that begin with an underscore are in none.         *)
EveryFileIsInOneModule ==
    Extracted =>
      /\ \A f \in files : (\E m \in Modules : f \in tree.modules[m].owned) <=> ~Hidden(tree.leaf[f])
      /\ \A m \in Modules \ {<<>>} :
           tree.modules[m].total = Cardinality(tree.modules[m].owned)
             + MapThenSumSet(LAMBDA c : tree.modules[c].total, Children(m))

(* The two ways of counting coupling agree: a module at the depth of the   *)
(* groups has edges that leave it when, and only when, it depends on       *)
(* another or another depends on it.                                       *)
CohesionAgreesWithCoupling ==
    Extracted =>
      \A m \in Modules \ {<<>>} :
        Len(m) = tree.depth =>
          (tree.modules[m].external > 0 <=> tree.modules[m].efferent + tree.modules[m].afferent > 0)

(* business_taxonomy.py, "Every entity it misses, and every domain it      *)
(* invents, is surfaced": the files of entities without a domain are in    *)
(* the tree as well, among the unclassified.                               *)
WhatIsMissedIsShown ==
    taxonomy # None =>
      /\ \A f \in files : f \in DOMAIN taxonomy
      /\ \A f \in DOMAIN taxonomy :
           taxonomy[f].domain = None => taxonomy[f].entity \in {Shared, Unclassified}
      /\ Extracted => \A f \in files : tree.leaf[f][1] \in Range(domains) \cup {Shared}
=============================================================================
