------------------------- MODULE MCEvolutionHistory -------------------------
(* The small instance of EvolutionHistory that TLC checks. *)
EXTENDS EvolutionHistory

MCCommits == 1 .. 4

(* A chain; a fork, with the merge of both branches. *)
MCGraphs == {<< <<>>, <<1>>, <<2>>, <<3>> >>, << <<>>, <<1>>, <<1>>, <<2, 3>> >>}

Point(name, type, sig, calls, chain, depth, file) ==
    [name |-> name, type |-> type, sig |-> sig, calls |-> calls, chain |-> chain,
     edges |-> depth, depth |-> depth, file |-> file]

(* A function, the same renamed and grown, the same as an HTTP handler     *)
(* (another type and signature under one qualified name), and another one  *)
(* that shares nothing with it but part of its text.                       *)
F == Point("f", "other", "a:f", {"x", "y", "z"}, "k1", 2, "a")
G == Point("g", "other", "b:g", {"x", "y", "z", "w"}, "k1", 3, "b")
Handler == Point("f", "http", "f", {"x", "y", "z"}, "k1", 2, "a")
H == Point("h", "other", "a:h", {"u"}, "k2", 1, "a")

Options == << {<<F, H>>}, {<<G>>, <<F, G>>}, {<<>>, <<G, H>>}, {<<F>>, <<Handler, H>>} >>
MCSources == {src \in [MCCommits -> UNION {Options[c] : c \in MCCommits}] :
                \A c \in MCCommits : src[c] \in Options[c]}

Chains == {"k1", "k2"}
MCRatio == [p \in Chains \X Chains |-> IF p[1] = p[2] THEN 100
                                       ELSE IF p[1] = "k2" THEN 85 ELSE 70]
MCRatioCallees == [p \in Chains \X Chains |-> IF p = <<"k2", "k2">> THEN 90 ELSE 60]
=============================================================================
