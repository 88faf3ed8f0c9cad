---------------------------- MODULE TermReviews ----------------------------
(***************************************************************************)
(* The store of terms, of what people have decided about them, and of the  *)
(* alignments of terms between the services of a view (term_store.py,      *)
(* term_service.py and the requests in api.py).  Each operation of the     *)
(* store is a transaction of its own, but that of the alignments begins    *)
(* only when the first is written, after it was read.  A request for       *)
(* alignments extracts the terms of each member anew, one transaction      *)
(* each, before it saves.                                                  *)
(***************************************************************************)
EXTENDS Integers, Sequences, SequencesExt, FiniteSets

CONSTANTS
    Terms,       \* ids: one for the repository, the type and the word
    Snapshots, Views,
    Reports,     \* snapshot -> types of terms, or "all" -> what is recognised in it:
                 \* found: term -> status and evidence; relations: pairs of terms
    Owns,        \* snapshot -> the terms of its repository
    Members,     \* view -> its snapshots, in order
    Alike,       \* pairs of terms of connected services that are similar
    None,
    MaxReviews   \* bound on the reviews that show

VARIABLES
    terms,       \* the known terms
    results,     \* <<snapshot, term>> -> status and source
    evidence,    \* rows: id, snapshot and term; the id is the primary key
    relations,   \* relations between the terms of a snapshot
    alignments,  \* <<view, pair>> -> status; the pair alone is the primary key
    aligning     \* view -> what a request for alignments has still to extract, the terms it
                 \* may align, the pairs it passed over as decided, the first it is to write

vars == <<terms, results, evidence, relations, alignments, aligning>>

-----------------------------------------------------------------------------
Decided == {"accepted", "rejected"}
Work(todo, accepted, passed, first) ==
    [todo |-> todo, accepted |-> accepted, passed |-> passed, first |-> first]
Nothing == Work(<<>>, None, {}, None)

(* replace_snapshot: what the snapshot had is deleted, whoever has written *)
(* it.  The id of a piece of evidence names the term and what was found,   *)
(* not the snapshot: where another snapshot has it, the insert is refused. *)
(* So is a relation of a term that is not known.  (A handler that is named *)
(* like a page gives a relation, but the page is the term that is kept.)   *)
NewEvidence(s, report) ==
    UNION {{[id |-> <<t, v>>, snapshot |-> s, term |-> t] : v \in report.found[t].evidence}
             : t \in DOMAIN report.found}
Ignoring(kept, new) == kept \cup {e \in new : \A k \in kept : k.id # e.id}   \* mutation: taken ids are left out
Inserted(kept, new) == IF \E e \in new, k \in kept : e.id = k.id THEN None ELSE kept \cup new
Kept(s) == {e \in evidence : e.snapshot # s}
Upserted(report) == terms \cup DOMAIN report.found
Unenforced(report) == TRUE                                \* mutation: foreign keys are not enforced
EndsKnown(report) == \A r \in report.relations : {r[1], r[2]} \subseteq Upserted(report)
Refused(s, report) == Inserted(Kept(s), NewEvidence(s, report)) = None \/ ~ EndsKnown(report)
Replace(s, report) ==
    IF Refused(s, report) THEN UNCHANGED <<terms, results, evidence, relations>>
    ELSE /\ terms' = Upserted(report)
         /\ results' = [p \in Snapshots \X Terms |->
               IF p[1] # s THEN results[p]
               ELSE IF p[2] \in DOMAIN report.found
                    THEN [status |-> report.found[p[2]].status, source |-> "rule"]
               ELSE None]
         /\ evidence' = Inserted(Kept(s), NewEvidence(s, report))
         /\ relations' =
                {r \in relations : r.snapshot # s}
                \cup {[snapshot |-> s, source |-> r[1], target |-> r[2], kind |-> "applies_to"]
                         : r \in report.relations}

(* After publication, on request, or for an alignment; a request may       *)
(* select types of terms.                                                  *)
Extract ==
    \E s \in Snapshots : \E types \in DOMAIN Reports[s] :
      /\ Replace(s, Reports[s][types])
      /\ UNCHANGED <<alignments, aligning>>

Overridden(old, action) ==
    [source |-> "user_override",
     status |-> CASE action = "accept" -> "accepted" [] action = "reject" -> "rejected"
                  [] OTHER -> old.status]
Reviewed(table, rows) ==
    Cardinality({p \in DOMAIN table : table[p] # None /\ table[p].source = "user_override"})
      + Cardinality({r \in rows : r.kind = "alias"})
Review ==
    \E s \in Snapshots, t \in Terms :
      /\ results[<<s, t>>] # None
      /\ \/ /\ \E action \in {"accept", "reject", "rename"} :
                results' = [results EXCEPT ![<<s, t>>] = Overridden(@, action)]
            /\ UNCHANGED relations
         \/ /\ \E other \in terms :
                relations' = relations \cup
                               {[snapshot |-> s, source |-> t, target |-> other, kind |-> "alias"]}
            /\ UNCHANGED results
      /\ Reviewed(results', relations') <= MaxReviews
      /\ UNCHANGED <<terms, evidence, alignments, aligning>>

(* A term added by hand brings its definition as evidence, with a new id.  *)
AddManual ==
    \E s \in Snapshots : \E t \in Owns[s] :
      /\ terms' = terms \cup {t}
      /\ results' = [results EXCEPT ![<<s, t>>] = [status |-> "accepted", source |-> "manual"]]
      /\ evidence' = evidence \cup {[id |-> <<t, "manual", s>>, snapshot |-> s, term |-> t]}
      /\ UNCHANGED <<relations, alignments, aligning>>

-----------------------------------------------------------------------------
BeginAlign ==
    \E v \in Views :
      /\ aligning[v] = Nothing
      /\ aligning' = [aligning EXCEPT ![v] = Work(Members[v], {}, {}, None)]
      /\ UNCHANGED <<terms, results, evidence, relations, alignments>>

(* The report, and not the store, says which terms may be aligned.         *)
Accepted(report) == {t \in DOMAIN report.found : report.found[t].status = "accepted"}
AlignMember ==
    \E v \in Views :
      /\ aligning[v].todo # <<>>
      /\ LET s == Head(aligning[v].todo)
             report == Reports[s]["all"]
         IN  /\ Replace(s, report)
             /\ aligning' = [aligning EXCEPT ![v] =
                   IF Refused(s, report) THEN Nothing
                   ELSE Work(Tail(@.todo), @.accepted \cup Accepted(report), {}, None)]
      /\ UNCHANGED alignments

(* align: accepted terms of one type, of connected business services,      *)
(* whose names are similar.                                                *)
Items(v) == {p \in Alike : p \subseteq aligning[v].accepted}
Recommended(v, p) == TRUE   \* mutation: decisions do not count
Undecided(v, p) == alignments[<<v, p>>] \notin Decided
Saving(v) == aligning[v] # Nothing /\ aligning[v].todo = <<>>

(* replace_alignments reads each pair and passes over what somebody has    *)
(* decided.  Up to the first pair that it is to write it is in no          *)
(* transaction.                                                            *)
ReadAlignment ==
    \E v \in Views :
      /\ Saving(v) /\ aligning[v].first = None
      /\ \E p \in Items(v) \ aligning[v].passed :
           aligning' = [aligning EXCEPT ![v] =
             IF Undecided(v, p) THEN Work(<<>>, @.accepted, @.passed, p)
             ELSE Work(<<>>, @.accepted, @.passed \cup {p}, None)]
      /\ UNCHANGED <<terms, results, evidence, relations, alignments>>

(* That write begins the transaction, in which the other pairs are read    *)
(* and written: the first is recommended whatever it has become.  The id   *)
(* of a pair does not name the view: where another has it, all is undone.  *)
SaveAlignments ==
    \E v \in Views :
      /\ Saving(v)
      /\ LET first == aligning[v].first
             unread == Items(v) \ aligning[v].passed
             written == IF first = None THEN {} ELSE {p \in unread : p = first \/ Undecided(v, p)}
             elsewhere == \E p \in written, w \in Views \ {v} : alignments[<<w, p>>] # None
         IN  /\ first # None \/ unread = {}
             /\ alignments' = IF elsewhere THEN alignments
                              ELSE [k \in Views \X Alike |->
                                      IF k[1] = v /\ k[2] \in written THEN "needs_review" ELSE alignments[k]]
      /\ aligning' = [aligning EXCEPT ![v] = Nothing]
      /\ UNCHANGED <<terms, results, evidence, relations>>

ReviewAlignment ==
    \E v \in Views, p \in Alike, decision \in Decided :
      /\ alignments[<<v, p>>] # None
      /\ alignments' = [alignments EXCEPT ![<<v, p>>] = decision]
      /\ UNCHANGED <<terms, results, evidence, relations, aligning>>

Init ==
    /\ terms = {}
    /\ results = [p \in Snapshots \X Terms |-> None]
    /\ evidence = {} /\ relations = {}
    /\ alignments = [k \in Views \X Alike |-> None]
    /\ aligning = [v \in Views |-> Nothing]

Next ==
    \/ Extract \/ Review \/ AddManual
    \/ BeginAlign \/ AlignMember \/ ReadAlignment \/ SaveAlignments \/ ReviewAlignment
Spec == Init /\ [][Next]_vars
-----------------------------------------------------------------------------
(* Properties *)

(* Keys are keys, and every row refers to a term that is known.            *)
TypeOK ==
    /\ \A p \in DOMAIN results : results[p] # None => p[2] \in terms
    /\ \A e, f \in evidence : e.id = f.id => e = f
    /\ \A r \in relations : {r.source, r.target} \subseteq terms
    /\ \A k \in DOMAIN alignments : alignments[k] # None => k[2] \subseteq terms

(* Every term in the list of a snapshot can be traced to evidence in that  *)
(* snapshot or to a definition, whatever is extracted, reviewed or added   *)
(* in other snapshots of the repository.                                   *)
TermsAreTraceable ==
    \A p \in DOMAIN results : results[p] # None =>
      \E e \in evidence : e.snapshot = p[1] /\ e.term = p[2]

(* "Preserving prior human decisions": no recommendation, of this view or  *)
(* another, takes back what was decided about an alignment, before the     *)
(* request or while it goes on, but for one: the first that the request    *)
(* writes, if it was decided after the request had read it.                *)
DecidedStands ==
    /\ \A v \in Views : LET first == aligning'[v].first IN
         first \notin {None, aligning[v].first} => Undecided(v, first)
    /\ \A k \in DOMAIN alignments : alignments[k] \in Decided =>
         \/ alignments'[k] \in Decided
         \/ aligning[k[1]].first = k[2] /\ aligning'[k[1]] = Nothing

(* Extraction and alignment, again and in several snapshots and views at   *)
(* once, leave what was decided and what it rests on.                      *)
ReviewStands == DecidedStands /\ TermsAreTraceable' /\ TypeOK'
=============================================================================
