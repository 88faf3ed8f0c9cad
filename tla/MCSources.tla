----------------------------- MODULE MCSources ------------------------------
(***************************************************************************)
(* Inputs of the analyses of source: for ModuleTree, ExplanationPlan,      *)
(* Communication, HandlerRoutes and TermRecognition.                       *)
(***************************************************************************)
EXTENDS Integers, Sequences

CONSTANTS None, a, b, c, src, hidden, pms, ums, x, y

-----------------------------------------------------------------------------
(* Repositories for ModuleTree: directories two and three deep with a      *)
(* container in one, a build file or two, and names of two domains.        *)

File(dir, domain, entity) == [dir |-> dir, domain |-> domain, entity |-> entity]
MCFiles ==
    {File(<<src, a, b>>, pms, x), File(<<b, a>>, ums, x), File(<<b, src, a, b>>, None, y),
     File(<<>>, None, x), File(<<hidden, a>>, pms, x)}
MCManifests == {<<b>>, <<src, a>>}

-----------------------------------------------------------------------------
(* Calls for ExplanationPlan: four functions with shared callees,          *)
(* recursion and cycles, and a fifth over the limits.                      *)

MCGraphs ==
    {{<<1, 2>>, <<1, 3>>, <<2, 4>>, <<3, 4>>}, {<<1, 2>>, <<2, 3>>, <<3, 2>>, <<3, 4>>},
     {<<1, 2>>, <<2, 1>>, <<2, 2>>, <<2, 3>>}, {<<1, 2>>, <<1, 3>>, <<1, 4>>}, {<<1, 3>>, <<3, 2>>, <<2, 4>>, <<4, 5>>},
     {<<1, 3>>, <<3, 2>>, <<2, 4>>, <<4, 3>>}, {<<1, 3>>, <<3, 2>>, <<2, 4>>, <<4, 2>>}}
MCLines == <<5, 9, 1, 3, 0>>
MCDeclared == <<5, 9, 2, 3, 1>>
MCBoundaries == <<{}, {2, 6}, {}, {1}, {}>>

-----------------------------------------------------------------------------
(* Code for Communication: six functions, two of which may be entries,     *)
(* over some graphs of calls: two ways to a callee, cycles, and a long     *)
(* chain, with every choice of what two of them are named.                 *)

Calls == {
    {<<1, 2>>, <<1, 3>>, <<2, 5>>, <<3, 4>>, <<4, 5>>, <<5, 6>>},
    {<<1, 2>>, <<1, 3>>, <<2, 1>>, <<2, 3>>, <<3, 2>>, <<3, 4>>, <<4, 5>>, <<6, 5>>},
    {<<1, 4>>, <<4, 1>>, <<2, 4>>, <<4, 5>>, <<2, 5>>, <<6, 4>>},
    {<<1, 2>>, <<2, 3>>, <<3, 6>>, <<6, 4>>, <<4, 5>>},
    {<<1, 3>>, <<3, 5>>, <<2, 3>>, <<6, 3>>, <<6, 6>>}}
Names == {"plain", "request", "publish", "consume", "rpc", "query"}
MCCodes ==
    {[calls |-> calls, named |-> <<"plain", "plain", "plain", four, five, "plain">>,
      declared |-> <<"entry", two, "none", "none", "none", six>>, excluded |-> excluded, literal |-> literal] :
        calls \in Calls, four \in {"plain", "request", "publish"}, five \in Names,
        two \in {"none", "entry"}, six \in {"none", "consumer"}, excluded \in {{}, {1}},
        literal \in {{}, {<<4, 5>>, <<3, 5>>}}}
MCSupports == {{"http", "message", "grpc", "resource"}, {"http", "resource"}}

-----------------------------------------------------------------------------
(* Handlers for HandlerRoutes: methods of a few shapes with every pair of  *)
(* tests.                                                                  *)

MCRequests == UNION {[1 .. n -> {a, b, c}] : n \in 1 .. 4}

Fact(kind, lit, at) == [kind |-> kind, neg |-> FALSE, lit |-> lit, at |-> at]
Not(f) == [f EXCEPT !.neg = TRUE]
Api == Fact("prefix", <<a>>, 0)
Facts == {Api, Fact("prefix", <<a, b>>, 0), Fact("eq", <<a, b>>, 0), Fact("slice", <<a, b>>, 1),
          Fact("tok", <<b>>, 2), Fact("tok", <<c>>, 2), Fact("tok", <<c>>, 3), Fact("tok", <<c>>, -1),
          Fact("len", <<>>, 4), Fact("suffix", <<c>>, 0), Fact("substr", <<c>>, 0),
          Fact("substr", <<c>>, 1), Not(Fact("substr", <<c>>, 0)), Not(Fact("tok", <<b>>, 2))}

Arg(kind, at, named) == [kind |-> kind, at |-> at, named |-> named]
ArgLists == {<<>>, <<Arg("part", 2, TRUE)>>, <<Arg("skip", 0, TRUE), Arg("part", 3, FALSE)>>,
             <<Arg("part", -1, TRUE)>>, <<Arg("near", -1, TRUE), Arg("near", 1, TRUE)>>,
             <<Arg("end", -2, TRUE)>>, <<Arg("part", 2, TRUE), Arg("part", 4, TRUE)>>}

Leaf(id, args) == <<[kind |-> "leaf", test |-> <<>>, body |-> <<>>, orelse |-> <<>>,
                     leaf |-> [id |-> id, helper |-> id # 0, args |-> args]]>>
Refused == Leaf(0, <<>>)
Stmt(kind, test, body, orelse) ==
    <<[kind |-> kind, test |-> test, body |-> body, orelse |-> orelse, leaf |-> None]>>
If(test, body, orelse) == Stmt("if", test, body, orelse)

(* Tests inside a common one; a chain of alternatives; both at once, in a  *)
(* try.                                                                    *)
Bodies == {If(<<Api>>, If(<<f>>, Leaf(1, xs), <<>>) \o If(<<g>>, Leaf(2, xs), <<>>), <<>>) \o Refused
                : f, g \in Facts, xs \in ArgLists}
          \cup {If(<<f>>, Leaf(1, xs), If(<<g>>, Leaf(2, xs), Refused)) : f, g \in Facts, xs \in ArgLists}
          \cup {Stmt("try", <<>>, If(<<Api>>, If(<<f, g>>, Leaf(1, xs), <<>>), <<>>), Refused)
                : f, g \in Facts, xs \in ArgLists}
MCHandlers == {[tests |-> FALSE, imports |-> TRUE, readable |-> TRUE, body |-> body] : body \in Bodies}
              \cup {[tests |-> t, imports |-> i, readable |-> FALSE, body |-> Refused] : t, i \in BOOLEAN}

-----------------------------------------------------------------------------
(* All ways to mention, up to four times, names that become two nouns, one *)
(* of which is shown as the other is.                                      *)

Evidence(kind, weight) == [kind |-> kind, weight |-> weight]
EvidenceOf(type) ==
    CASE type = "entity" -> {<<Evidence("entity_definition", 42)>>,
                             <<Evidence("entity_definition", 42), Evidence("field_structure", 12)>>}
      [] type = "resource" -> {<<Evidence("api_route", 48)>>,
                               <<Evidence("api_route", 48), Evidence("api_schema", 18), Evidence("api_entity_link", 20)>>}
      [] type = "page" -> {<<Evidence("frontend_page", 45)>>}
      [] type = "action" -> {<<Evidence("api_handler", 42), Evidence("api_method", 18), Evidence("api_route", 25)>>}
Words == {<<"order", "Order">>, <<"api_order", "Order">>, <<"user", "User">>}
Mentions(type) ==
    {[type |-> type, word |-> w[1], shown |-> w[2], technical |-> t, refused |-> FALSE, evidence |-> e,
      bonus |-> IF type = "entity" /\ Len(e) = 2 THEN 12 ELSE 0] :
        w \in {v \in Words : type \in {"entity", "resource"} \/ v[1] # "api_order"},
        t \in IF type \in {"entity"} THEN {TRUE, FALSE} ELSE {FALSE}, e \in EvidenceOf(type)}
Technical == [type |-> "entity", word |-> "api_order", shown |-> "Order", technical |-> TRUE,
              refused |-> FALSE, bonus |-> 0,
              evidence |-> <<Evidence("entity_definition", 42)>>]
Abstract == [Technical EXCEPT !.refused = TRUE, !.word = "file", !.shown = "File"]

(* pages, then entities, then routes, then handlers *)
OfPages == {<<>>} \cup {<<p>> : p \in Mentions("page")}
OfEntities == {<<>>, <<Abstract>>} \cup {<<e>> : e \in Mentions("entity")}
              \cup {<<e, f>> : e \in Mentions("entity"), f \in Mentions("entity")}
OfRoutes == {<<>>} \cup {<<r>> : r \in Mentions("resource")}
            \cup {<<r, [r EXCEPT !.evidence = <<Evidence("api_route", 48)>>]>> : r \in Mentions("resource")}
OfHandlers == {<<>>} \cup {<<h>> : h \in Mentions("action")}
AllMentions == {{p \o e \o r \o h : p \in OfPages} : e \in OfEntities, r \in OfRoutes, h \in OfHandlers}
=============================================================================
