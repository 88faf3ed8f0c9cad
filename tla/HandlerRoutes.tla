---------------------------- MODULE HandlerRoutes ----------------------------
(***************************************************************************)
(* The endpoints that are reconstructed from the source of a handler of    *)
(* Python's http.server, whose do_<VERB> method dispatches by hand         *)
(* (analysis/knowledge/http_server.py, and http_handler_endpoints of       *)
(* infrastructure/codegraph_sqlite.py).  A method is a sequence of         *)
(* statements: an if with a test, a try, or a call that answers (a leaf).  *)
(* Every leaf is taken with the tests it stands under, and a template of   *)
(* the paths it answers is made of what they say.                          *)
(*                                                                         *)
(* A path is the sequence of its segments, parts[1], parts[2], ... in the  *)
(* code; a literal consists of whole segments.                             *)
(***************************************************************************)
EXTENDS Integers, Sequences, SequencesExt, FiniteSetsExt

CONSTANTS
    Handlers,   \* methods: [tests, imports, readable, body]
    Requests,   \* paths that may be asked for
    None

VARIABLES
    handler, leaves,   \* the method, and its leaves that are still to do
    endpoints          \* what was made of the others

vars == <<handler, leaves, endpoints>>

-----------------------------------------------------------------------------
(* The facts a test states: [kind, neg, lit, at].  The path is lit,        *)
(* begins with it, ends with it, or holds it in the middle ("substr", and  *)
(* more follows if at # 0); the segments from at on are lit ("slice", and  *)
(* "tok" when there is one, counted from the end if at is negative); or    *)
(* there are as many parts as at says, the empty one before the first      *)
(* slash included ("len").                                                 *)
From(facts, kind) == SelectSeq(facts, LAMBDA f : f.kind = kind /\ ~f.neg)
FromAny(facts, kind) == SelectSeq(facts, LAMBDA f : f.kind = kind)
FirstOf(facts, kind) == IF From(facts, kind) = <<>> THEN None ELSE From(facts, kind)[1].lit

(* What the program does with the test. *)
Said(f, r) ==
    CASE f.kind = "eq" -> r = f.lit
      [] f.kind = "prefix" -> IsStrictPrefix(f.lit, r)
      [] f.kind = "suffix" -> IsSuffix(f.lit, r)
      [] f.kind = "substr" -> \E i \in 1 .. Len(r) : i + Len(f.lit) - 1 <= Len(r) - f.at
                                  /\ SubSeq(r, i, i + Len(f.lit) - 1) = f.lit
      [] f.kind = "len" -> Len(r) + 1 = f.at
      [] OTHER -> LET from == IF f.at < 0 THEN Len(r) + 1 + f.at ELSE f.at
                  IN  from > 0 /\ from + Len(f.lit) - 1 <= Len(r)
                      /\ SubSeq(r, from, from + Len(f.lit) - 1) = f.lit
Holds(test, r) == \A i \in DOMAIN test : Said(test[i], r) # test[i].neg

(* The leaves that a request may come to, and whether it comes past them.  *)
RECURSIVE Answers(_, _)
Answers(body, r) ==
    IF body = <<>> THEN [leaves |-> {}, past |-> TRUE]
    ELSE LET s == Head(body)
             rest == Answers(Tail(body), r)
             here == CASE s.kind = "leaf" -> [leaves |-> {s.leaf}, past |-> FALSE]
                       [] s.kind = "if" -> Answers(IF Holds(s.test, r) THEN s.body ELSE s.orelse, r)
                       [] OTHER -> LET done == Answers(s.body, r) failed == Answers(s.orelse, r)
                                   IN  [leaves |-> done.leaves \cup failed.leaves,
                                        past |-> done.past \/ failed.past]
         IN  [leaves |-> here.leaves \cup (IF here.past THEN rest.leaves ELSE {}),
              past |-> here.past /\ rest.past]

-----------------------------------------------------------------------------
(* The leaves with the tests they stand under: what follows "else" stands  *)
(* under the tests of the "if" only, and so does what follows "except".    *)
RECURSIVE Collect(_, _)
Under(s, guards) == guards \o s.test
Otherwise(s, guards) == guards
Collect(body, guards) ==
    FlattenSeq([i \in DOMAIN body |->
        LET s == body[i] IN
        CASE s.kind = "leaf" -> <<[facts |-> guards, leaf |-> s.leaf]>>
          [] s.kind = "if" -> Collect(s.body, Under(s, guards))
                                  \o Collect(s.orelse, Otherwise(s, guards))
          [] OTHER -> Collect(s.body, guards) \o Collect(s.orelse, guards)])

-----------------------------------------------------------------------------
(* A template is a sequence of literals, parameters (numbers of arguments) *)
(* and holes.                                                              *)
Literal(t) == [lit |-> t, arg |-> 0]
Named(k) == [lit |-> k, arg |-> k]
Param(k) == [lit |-> None, arg |-> k]
Hole == [lit |-> None, arg |-> 0]
Literals(lit) == [i \in DOMAIN lit |-> Literal(lit[i])]
Params(ks) == [i \in DOMAIN ks |-> Param(ks[i])]

(* An argument of the leaf is [kind, at, named]: parts[at], directly or by *)
(* a name ("part"); a segment counted from the end of the path ("end") or  *)
(* from a literal in the middle ("near"); or anything else.  A name of the *)
(* request itself ("skip") is no part of the path.                         *)
Used(args) == SelectSeq([k \in DOMAIN args |-> k], LAMBDA k : args[k].kind # "skip")
FromZero(arg, facts) ==
    IF arg.kind # "part" THEN None
    ELSE IF arg.at >= 0 THEN arg.at
    ELSE IF From(facts, "len") # <<>> THEN From(facts, "len")[1].at + arg.at - 1 ELSE None
PartIndex(arg, facts) ==
    IF arg.kind # "part" THEN None
    ELSE IF arg.at >= 0 THEN arg.at
    ELSE IF From(facts, "len") # <<>> THEN From(facts, "len")[1].at + arg.at ELSE None
Near(args, ks, before) ==
    LET them == {k \in Range(ks) : args[k].kind = "near" /\ (args[k].at < 0) = before}
    IN  SetToSortSeq(them, LAMBDA j, k : args[j].at < args[k].at \/ (args[j].at = args[k].at /\ j < k))

(* The literal that the path begins with, the first part it takes and its  *)
(* segments: the first slice, or else the first prefix.                    *)
BaseInfo(facts) ==
    LET prefix == FirstOf(facts, "prefix")
        slice == From(facts, "slice")
    IN  IF slice # <<>> THEN [str |-> IF prefix = None THEN slice[1].lit ELSE prefix,
                              start |-> slice[1].at, tokens |-> slice[1].lit]
        ELSE [str |-> prefix, start |-> 1, tokens |-> IF prefix = None THEN <<>> ELSE prefix]

Placed(f) == {<<f.at + i - 1, f.lit[i]>> : i \in DOMAIN f.lit}
LiteralAtAny(base, facts) ==
    Placed([at |-> base.start, lit |-> base.tokens])
    \cup UNION {Placed(f) : f \in Range(FromAny(facts, "slice") \o FromAny(facts, "tok"))}
LiteralAt(base, facts) ==
    Placed([at |-> base.start, lit |-> base.tokens])
    \cup UNION {Placed(f) : f \in Range(From(facts, "slice") \o From(facts, "tok"))}
Segment(i, literals, dynamic) ==
    IF \E l \in literals : l[1] = i THEN Literal((CHOOSE l \in literals : l[1] = i)[2])
    ELSE IF \E d \in dynamic : d[1] = i THEN Param(Min({d[2] : d \in {e \in dynamic : e[1] = i}}))
    ELSE Hole

Template(note, path) == [note |-> note, path |-> path]
Dropped(note) == Template(note, None)
Anchored(base, args, facts) ==
    LET before == Near(args, Used(args), TRUE)
        after == Near(args, Used(args), FALSE)
        suffix == FirstOf(facts, "suffix")
        middle == From(facts, "substr")
        tail == SelectSeq(Used(args), LAMBDA k : args[k].named /\ PartIndex(args[k], facts) = None)
    IN  IF suffix # None /\ Used(args) # <<>>
        THEN Template("prefix+suffix", Literals(base.str) \o Params(Used(args)) \o Literals(suffix))
        ELSE IF middle # <<>> /\ before \o after # <<>>
        THEN Template("substr", Literals(base.str) \o Params(before) \o Literals(middle[1].lit)
                                    \o Params(IF middle[1].at = 0 THEN <<>> ELSE after))
        ELSE IF tail # <<>> THEN Template("tail", Literals(base.str) \o Params(tail))
        ELSE Template("coarse", Literals(base.str))

Reconstruct(args, facts) ==
    LET base == BaseInfo(facts)
        literals == LiteralAt(base, facts)
        dynamic == {<<PartIndex(args[k], facts), k>> : k \in
                        {j \in Range(Used(args)) : PartIndex(args[j], facts) # None}}
        end == base.start + Len(base.tokens) - 1
        last == Max({end, 0} \cup {l[1] : l \in literals} \cup {d[1] : d \in dynamic})
    IN  CASE From(facts, "eq") # <<>> -> Template("exact", Literals(FirstOf(facts, "eq")))
          [] From(facts, "eq") = <<>> /\ base.str = None -> Dropped("no-prefix")
          [] OTHER ->
             IF \E l, k \in literals : l[1] = k[1] /\ l[2] # k[2] THEN Dropped("conflict-token")
             ELSE IF \E d \in dynamic : d[1] \in base.start .. end THEN Dropped("conflict-param-over-base")
             ELSE IF last > end THEN Template("segments",
                  [i \in 1 .. last + 1 - base.start |-> Segment(base.start + i - 1, literals, dynamic)])
             ELSE Anchored(base, args, facts)

-----------------------------------------------------------------------------
(* Only classes of the product whose file imports http.server are read. *)
Candidate(h) == ~h.tests /\ h.imports /\ h.readable
Init ==
    /\ handler \in Handlers
    /\ leaves = IF Candidate(handler) THEN Collect(handler.body, <<>>) ELSE <<>>
    /\ endpoints = <<>>

(* An answer written in place counts only behind an exact path. *)
OnlyExact(l) == \E f \in Range(l.facts) : f.kind = "eq"
Counts(l) == l.leaf.helper \/ \E f \in Range(l.facts) : f.kind = "eq"
Synthesize ==
    /\ leaves # <<>>
    /\ LET l == Head(leaves)
           made == Reconstruct(l.leaf.args, l.facts)
       IN  endpoints' = IF Counts(l) THEN Append(endpoints,
               [leaf |-> l.leaf, facts |-> l.facts, note |-> made.note, path |-> made.path]) ELSE endpoints
    /\ leaves' = Tail(leaves)
    /\ UNCHANGED handler

Next == Synthesize
Spec == Init /\ [][Next]_vars

-----------------------------------------------------------------------------
(* Templates are sequences of segments. *)
TypeOK ==
    /\ handler \in Handlers
    /\ \A e \in Range(endpoints) : e.path = None \/ \A s \in Range(e.path) : s.lit = None \/ s.arg = 0

Reaching(e) == {r \in Requests : e.leaf \in Answers(handler.body, r).leaves}
FromOne(e) == \A f \in Range(From(e.facts, "slice")) : f.at = 1
ReadAt(arg, r) == IF arg.at < 0 THEN Len(r) + 1 + arg.at ELSE arg.at
Reads(e, r) ==   \* the answer reads no segment that is not there
    \A arg \in Range(e.leaf.args) : arg.kind = "part" => ReadAt(arg, r) \in 1 .. Len(r)
Agrees(path, r) == \A i \in DOMAIN path \cap DOMAIN r : path[i].lit \in {None, r[i]}

(* A path that a leaf answers is described by the leaf's template: the     *)
(* exact path is it, what is made of segments describes its beginning, and *)
(* what is made of a beginning and an end describes the paths of its       *)
(* length.  (It is not so when a slice is compared from the second segment *)
(* on: what stands before it is then missing from the template.)           *)
TemplatesFit ==
    \A e \in Range(endpoints) : e.path # None /\ FromOne(e) =>
        \A r \in Reaching(e) : Reads(e, r) =>
            CASE e.note = "exact" -> e.path = Literals(r)
              [] e.note = "segments" -> Len(e.path) <= Len(r) /\ Agrees(e.path, r)
              [] e.note \in {"prefix+suffix", "tail"} -> Len(e.path) = Len(r) => Agrees(e.path, r)
              [] OTHER -> TRUE

(* Every parameter of a template of segments stands where, in all the      *)
(* paths the leaf answers, its argument reads the path; and an argument    *)
(* that reads a certain place behind the base has its segment there.       *)
ParametersAreInPlace ==
    \A e \in Range(endpoints) : e.note = "segments" /\ FromOne(e) =>
        \A r \in Reaching(e) : Reads(e, r) =>
            /\ \A i \in DOMAIN e.path : e.path[i].arg # 0 => ReadAt(e.leaf.args[e.path[i].arg], r) = i
            /\ \A arg \in Range(e.leaf.args) : arg.kind = "part" /\ arg.at > 0 => arg.at \in DOMAIN e.path

(* A leaf left out because its tests contradict each other answers         *)
(* nothing.                                                                *)
DroppedIsDead ==
    \A e \in Range(endpoints) : e.note = "conflict-token" => Reaching(e) = {}

(* Every call that answers some path, other than one that only writes a    *)
(* response, was considered once the method is done.                       *)
NoAnswerIsForgotten ==
    leaves = <<>> /\ Candidate(handler) =>
        \A r \in Requests : \A l \in Answers(handler.body, r).leaves :
            l.helper => \E e \in Range(endpoints) : e.leaf = l
=============================================================================
