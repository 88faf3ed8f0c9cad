-------------------------- MODULE TermRecognition --------------------------
(***************************************************************************)
(* The terms of a snapshot (analysis/knowledge/terms.py): names that API   *)
(* routes, entities, handlers and pages mention are reduced to nouns, put  *)
(* into one bucket per type and noun, merged by noun and then by the name  *)
(* that is shown, and accepted by the weight of their evidence.            *)
(*                                                                         *)
(* What the reduction makes of a name is given: its noun ("word"), the     *)
(* name shown, whether it holds a technical token, and whether it is       *)
(* refused (operations and abstract words).  Weights are in hundredths;    *)
(* what an entity's own score adds is its bonus.                           *)
(***************************************************************************)
EXTENDS Integers, Sequences, SequencesExt, FiniteSetsExt

CONSTANTS
    Facts,     \* families of mentions, each in the order they are read
    None

VARIABLES
    mentions,  \* still to be read
    seen,      \* read so far
    buckets,   \* candidates, in the order of their first mention
    report     \* None, or the terms
vars == <<mentions, seen, buckets, report>>

-----------------------------------------------------------------------------
Priority == [entity |-> 0, value_object |-> 1, state |-> 2, event |-> 3,
             resource |-> 4, page |-> 5, action |-> 6]
Anchors == {"api_route", "entity_definition", "api_handler", "frontend_page"}
Primary == {"api_route", "entity_definition", "api_handler"}

Nowhere(m) == {}
Place(m) == {i \in DOMAIN buckets : buckets[i].type = m.type /\ buckets[i].word = m.word}

(* A technical wrapper does not spoil a bucket that has a clean name.      *)
Flag(clean) == ~clean
Added(b, m) ==
    LET clean == b.clean \/ ~m.technical
    IN  [b EXCEPT !.clean = clean, !.flagged = Flag(clean), !.evidence = @ \o m.evidence,
                !.bonus = IF m.type = "entity" THEN m.bonus ELSE @]
Candidate(m) ==
    [type |-> m.type, word |-> m.word, shown |-> m.shown, clean |-> ~m.technical,
     flagged |-> Flag(~m.technical), evidence |-> m.evidence, bonus |-> m.bonus]

(* Handlers are read after all routes, and one that names a noun already   *)
(* found is an operation on it and not a term.                             *)
RefusedName(m) == m.refused \/ m.technical
Refused(m) ==
    \/ m.refused
    \/ m.type = "action" /\ (m.technical \/ \E i \in DOMAIN buckets :
                               buckets[i].type \in {"entity", "resource"} /\ buckets[i].word = m.word)
Read ==
    /\ mentions # <<>>
    /\ LET m == Head(mentions)
       IN  /\ buckets' = IF Refused(m) THEN buckets
                         ELSE IF Place(m) = {} THEN Append(buckets, Candidate(m))
                         ELSE [i \in DOMAIN buckets |-> IF i \in Place(m) THEN Added(buckets[i], m) ELSE buckets[i]]
           /\ seen' = Append(seen, m)
    /\ mentions' = Tail(mentions)
    /\ UNCHANGED report

-----------------------------------------------------------------------------
(* One of each group: the first of the strongest type, with the evidence   *)
(* of all.  A group that holds a bucket with a clean name is not flagged.  *)
Stronger(list, i, j) ==
    \/ Priority[list[i].type] < Priority[list[j].type]
    \/ Priority[list[i].type] = Priority[list[j].type] /\ i < j
Joined(list, group) ==
    LET order == SetToSortSeq(group, LAMBDA i, j : Stronger(list, i, j))
        first == list[order[1]]
    IN  [first EXCEPT !.evidence = FlattenSeq([k \in DOMAIN order |-> list[order[k]].evidence]),
                      !.bonus = Max({list[i].bonus : i \in group}),
                      !.flagged = @ /\ ~ \E i \in group : list[i].clean]
Merge(list, name) ==
    LET firsts == SetToSortSeq({i \in DOMAIN list : \A j \in 1 .. i - 1 : list[j][name] # list[i][name]}, <)
    IN  [k \in DOMAIN firsts |-> Joined(list, {i \in DOMAIN list : list[i][name] = list[firsts[k]][name]})]

ByWord(list) == Merge(list, "word")
AsTheyAre(list) == list
ByShown(list) == Merge(list, "shown")

Sum(weights) == FoldSeq(LAMBDA a, b : a + b, 0, weights)
Confidence(c) ==
    LET sum == Sum([k \in DOMAIN c.evidence |-> c.evidence[k].weight]) + c.bonus
    IN  IF sum > 100 THEN 100 ELSE sum
Kinds(c) == {c.evidence[k].kind : k \in DOMAIN c.evidence}
Corroborated(c) == Kinds(c) \ Primary # {}
Anchored(c) == Kinds(c) \cap Anchors # {}
Status(c) ==
    IF c.flagged THEN "rejected"
    ELSE IF Confidence(c) >= 85 /\ Anchored(c) /\ Corroborated(c) THEN "accepted"
    ELSE IF Confidence(c) >= 60 THEN "needs_review" ELSE "candidate"

Term(c) == [type |-> c.type, word |-> c.word, shown |-> c.shown, kinds |-> Kinds(c),
            status |-> Status(c), confidence |-> Confidence(c)]
(* A term without evidence has no source that can be traced: it is left    *)
(* out.                                                                    *)
Rank ==
    /\ mentions = <<>> /\ report = None
    /\ LET terms == SelectSeq(ByShown(ByWord(buckets)), LAMBDA c : c.evidence # <<>>)
       IN  report' = {Term(terms[k]) : k \in DOMAIN terms}
    /\ UNCHANGED <<mentions, seen, buckets>>

Start(facts) == mentions = facts /\ seen = <<>> /\ buckets = <<>> /\ report = None
Init == \E family \in Facts : \E facts \in family : Start(facts)
Next == Read \/ Rank
Spec == Init /\ [][Next]_vars
-----------------------------------------------------------------------------
(* Properties *)
Terms == IF report = None THEN {} ELSE report
Named(word) == {i \in DOMAIN seen : seen[i].word = word}

(* A term was mentioned, and as what it says it is.                        *)
TypeOK ==
    /\ \A t \in Terms : \E i \in Named(t.word) : seen[i].type = t.type /\ seen[i].shown = t.shown
    /\ \A i, j \in DOMAIN buckets : buckets[i].type = buckets[j].type /\ buckets[i].word = buckets[j].word => i = j

(* "Deduplicate into one entry": a report holds no word and no name shown  *)
(* twice, although the two merges look at different names.                 *)
NoNameTwice ==
    \A t, u \in Terms : t.word = u.word \/ t.shown = u.shown => t = u

(* Nothing that was mentioned disappears: its name, as it is shown, is     *)
(* among the terms, unless it was refused or had no evidence of its own.   *)
NothingDisappears ==
    report # None =>
      \A i \in DOMAIN seen :
        ~seen[i].refused /\ seen[i].type # "action" /\ seen[i].evidence # <<>>
          => \E t \in Terms : t.shown = seen[i].shown \/ t.word = seen[i].word

(* Whatever is accepted has an anchor, is no technical name alone, and a   *)
(* route, a definition or a handler, however often, is not enough.         *)
AcceptedIsEarned ==
    \A t \in Terms : t.status = "accepted" =>
      /\ t.kinds \cap Anchors # {} /\ t.kinds \ Primary # {}
      /\ \E i \in DOMAIN seen : seen[i].shown = t.shown /\ ~seen[i].technical
=============================================================================
