----------------------- MODULE EvolutionHistoryProofs -----------------------
(***************************************************************************)
(* Theorems about EvolutionHistory for any commits, histories and          *)
(* contents.                                                               *)
(*                                                                         *)
(* Least stands for induction: what holds of a number unless it fails for  *)
(* a smaller one holds of all, since there is no least counterexample.     *)
(* With it the recursive functions of git are shown to exist and to be     *)
(* what they are meant to be (Reaches).  The invariant Inv says how the    *)
(* open transaction and the matcher are related to the database, and what  *)
(* is left of a walk to what is recorded.                                  *)
(***************************************************************************)
EXTENDS EvolutionHistory, FiniteSetTheorems, FunctionTheorems, SequenceTheorems, TLAPS

-----------------------------------------------------------------------------
(* Numbers *)

LEMMA MinimalSet ==
  ASSUME NEW S, NEW T, \A x \in T : x \subseteq S /\ IsFiniteSet(x), T # {}
  PROVE  \E x \in T : \A y \in T : y \subseteq x => y = x
<1>1. IsWellFoundedOn(StrictSubsetOrdering(S), FiniteSubsetsOf(S))
  BY FS_StrictSubsetOrderingWellFounded
<1>2. T \subseteq FiniteSubsetsOf(S)
  BY DEF FiniteSubsetsOf
<1>3. PICK x \in T : \A y \in T : ~ (<<y, x>> \in StrictSubsetOrdering(S))
  BY <1>1, <1>2, WFMin
<1> QED
  BY <1>3 DEF StrictSubsetOrdering

LEMMA Least ==
  ASSUME NEW T \in SUBSET Nat, T # {}
  PROVE  \E n \in T : \A m \in T : n <= m
<1> DEFINE F == {0 .. n : n \in T}
<1>1. F \subseteq SUBSET Nat
  OBVIOUS
<1>2. F # {}
  <2>1. PICK n \in T : TRUE
    OBVIOUS
  <2>2. 0 .. n \in F
    OBVIOUS
  <2> QED
    BY <2>2
<1>3. \A x \in F : IsFiniteSet(x)
  <2> SUFFICES ASSUME NEW n \in T
               PROVE  IsFiniteSet(0 .. n)
    OBVIOUS
  <2>1. n \in Int /\ 0 \in Int
    OBVIOUS
  <2> QED
    BY <2>1, FS_Interval
<1>4. PICK x \in F : \A y \in F : y \subseteq x => y = x
  <2>1. \A x \in F : x \subseteq Nat /\ IsFiniteSet(x)
    BY <1>1, <1>3
  <2> HIDE DEF F
  <2> QED
    BY <1>2, <2>1, MinimalSet
<1>5. PICK n \in T : x = 0 .. n
  OBVIOUS
<1>6. ASSUME NEW m \in T, m < n
      PROVE  FALSE
  <2>1. 0 .. m \subseteq 0 .. n
    BY <1>6
  <2>2. 0 .. m = 0 .. n
    BY <1>4, <1>5, <2>1
  <2> QED
    BY <1>6, <2>2
<1> QED
  BY <1>6

LEMMA Greatest ==
  ASSUME NEW n \in Nat, NEW T \in SUBSET (0 .. n), T # {}
  PROVE  \E i \in T : \A j \in T : j <= i
<1> DEFINE U == {k \in Nat : \A j \in T : j <= k}
<1>1. n \in U
  OBVIOUS
<1>2. PICK i \in U : \A k \in U : i <= k
  <2>1. U \in SUBSET Nat /\ U # {}
    BY <1>1
  <2> HIDE DEF U
  <2> QED
    BY <2>1, Least
<1>3. i \in T
  <2> SUFFICES ASSUME i \notin T
               PROVE  FALSE
    OBVIOUS
  <2>1. PICK t \in T : TRUE
    OBVIOUS
  <2>2. i \in Nat /\ t \in Nat /\ t <= i /\ t # i
    BY <1>2
  <2>3. i - 1 \in Nat
    BY <2>2
  <2>4. \A j \in T : j \in Nat /\ j <= i /\ j # i
    BY <1>2
  <2>5. \A j \in T : j <= i - 1
    BY <2>2, <2>4
  <2>6. i - 1 \in U
    BY <2>3, <2>5
  <2> QED
    BY <1>2, <2>2, <2>6
<1> QED
  BY <1>2, <1>3

LEMMA CommitsFact ==
  /\ IsFiniteSet(Commits) /\ 1 \in Commits /\ Commits \subseteq Nat \ {0}
  /\ Cardinality(Commits) \in Nat /\ Commits = 1 .. Cardinality(Commits)
  /\ \A c \in Commits : 1 .. c \subseteq Commits /\ 1 .. c - 1 \subseteq Commits
BY CommitsAssumption, FS_CardinalityType

-----------------------------------------------------------------------------
(* Commits that are reached from another one: Up[c] is one step further.   *)

Steps == {Up \in [Commits -> SUBSET Commits] : \A c \in Commits : Up[c] \subseteq 1 .. c - 1}

LEMMA ReachExists ==
  ASSUME NEW Up \in Steps
  PROVE  \E R : R = [c \in Commits |-> {c} \cup UNION {R[p] : p \in Up[c]}]
<1> DEFINE Upto(n, R) == R = [c \in 1 .. n |-> {c} \cup UNION {R[p] : p \in Up[c]}]
           N == Cardinality(Commits)
           Bad == {n \in 0 .. N : ~ \E R : Upto(n, R)}
<1>1. N \in Nat /\ Commits = 1 .. N
  BY CommitsFact
<1>2. ASSUME NEW n \in Bad, \A m \in Bad : n <= m
      PROVE  FALSE
  <2>1. n # 0
    <3>1. Upto(0, [c \in 1 .. 0 |-> {}])
      OBVIOUS
    <3> QED
      BY <3>1
  <2>2. n - 1 \in 0 .. N /\ n - 1 \notin Bad
    <3>1. n \in 0 .. N
      OBVIOUS
    <3>2. n - 1 \in 0 .. N /\ ~ (n <= n - 1)
      BY <1>1, <2>1, <3>1
    <3> HIDE DEF Bad
    <3> QED
      BY <1>2, <3>2
  <2>3. PICK R : Upto(n - 1, R)
    BY <2>2
  <2> DEFINE Q == [c \in 1 .. n |-> IF c = n THEN {n} \cup UNION {R[p] : p \in Up[n]} ELSE R[c]]
  <2>4. ASSUME NEW c \in 1 .. n
        PROVE  /\ Up[c] \subseteq 1 .. n - 1
               /\ \A p \in Up[c] : Q[p] = R[p]
    <3>1. c \in Commits
      BY <1>1
    <3>2. Up[c] \subseteq 1 .. c - 1
      BY <3>1 DEF Steps
    <3> QED
      BY <1>1, <3>2
  <2>5. ASSUME NEW c \in 1 .. n
        PROVE  Q[c] = {c} \cup UNION {Q[p] : p \in Up[c]}
    <3>1. {Q[p] : p \in Up[c]} = {R[p] : p \in Up[c]}
      BY <2>4
    <3>2. CASE c = n
      BY <3>1, <3>2
    <3>3. CASE c # n
      <4>1. c \in 1 .. n - 1 /\ Q[c] = R[c]
        BY <3>3
      <4>2. R[c] = {c} \cup UNION {R[p] : p \in Up[c]}
        BY <2>3, <4>1
      <4> QED
        BY <3>1, <4>1, <4>2
    <3> QED
      BY <3>2, <3>3
  <2>6. Upto(n, Q)
    BY <2>5
  <2> QED
    BY <1>2, <2>6
<1>3. Bad = {}
  <2>1. Bad \in SUBSET Nat
    BY <1>1
  <2> HIDE DEF Bad
  <2> QED
    BY <1>2, <2>1, Least
<1>4. N \in 0 .. N
  BY <1>1
<1>5. \E R : Upto(N, R)
  <2> HIDE DEF Upto
  <2> QED
    BY <1>3, <1>4
<1> QED
  BY <1>1, <1>5

(* What is reached from c: the least set that contains c and goes on.      *)
Reaches(Up, R) ==
    \A c \in Commits :
      /\ c \in R[c] /\ R[c] \subseteq Commits
      /\ \A d \in R[c] : Up[d] \subseteq R[c]
      /\ \A S : c \in S /\ (\A d \in S : Up[d] \subseteq S) => R[c] \subseteq S

LEMMA ReachFact ==
  ASSUME NEW Up \in Steps, NEW R, R = [c \in Commits |-> {c} \cup UNION {R[p] : p \in Up[c]}]
  PROVE  Reaches(Up, R)
<1> DEFINE Good(c) ==
      /\ c \in R[c] /\ R[c] \subseteq Commits
      /\ \A d \in R[c] : Up[d] \subseteq R[c]
      /\ \A S : c \in S /\ (\A d \in S : Up[d] \subseteq S) => R[c] \subseteq S
    Bad == {c \in Commits : ~ Good(c)}
<1>1. ASSUME NEW c \in Bad, \A m \in Bad : c <= m
      PROVE  FALSE
  <2>1. R[c] = {c} \cup UNION {R[p] : p \in Up[c]}
    OBVIOUS
  <2>2. Up[c] \subseteq Commits /\ \A p \in Up[c] : p < c
    BY CommitsFact DEF Steps
  <2>3. \A p \in Up[c] : Good(p)
    BY <1>1, <2>2, CommitsFact
  <2>4. c \in R[c] /\ R[c] \subseteq Commits
    <3>1. \A p \in Up[c] : R[p] \subseteq Commits
      BY <2>3
    <3>2. UNION {R[p] : p \in Up[c]} \subseteq Commits
      BY <3>1
    <3>3. c \in Commits
      OBVIOUS
    <3> QED
      BY <2>1, <3>2, <3>3
  <2>5. ASSUME NEW d \in R[c]
        PROVE  Up[d] \subseteq R[c]
    <3>1. CASE d = c
      <4>1. \A p \in Up[c] : p \in R[p]
        BY <2>3
      <4> QED
        BY <2>1, <3>1, <4>1
    <3>2. CASE d # c
      <4>1. d \in UNION {R[p] : p \in Up[c]}
        <5> HIDE DEF Good, Bad
        <5> QED
          BY <2>1, <3>2
      <4>2. PICK p \in Up[c] : d \in R[p]
        BY <4>1
      <4>3. Up[d] \subseteq R[p]
        BY <2>3, <4>2
      <4> QED
        BY <2>1, <4>2, <4>3
    <3> QED
      BY <3>1, <3>2
  <2>6. ASSUME NEW S, c \in S, \A d \in S : Up[d] \subseteq S
        PROVE  R[c] \subseteq S
    <3>1. \A p \in Up[c] : R[p] \subseteq S
      BY <2>3, <2>6
    <3> QED
      BY <2>1, <2>6, <3>1
  <2>7. Good(c)
    BY <2>4, <2>5, <2>6
  <2> QED
    BY <2>7
<1>2. Bad = {}
  <2>1. Bad \in SUBSET Nat
    BY CommitsFact
  <2> HIDE DEF Bad
  <2> QED
    BY <1>1, <2>1, Least
<1>3. \A c \in Commits : Good(c)
  BY <1>2
<1> QED
  BY <1>3 DEF Reaches

Repos == [parents : Graphs, contents : Sources, head : Commits, firstParent : BOOLEAN]
Parents == [c \in Commits |-> SeqRange(repo.parents[c])]

LEMMA ParentsFact ==
  ASSUME repo \in Repos
  PROVE  /\ Parents \in Steps
         /\ \A c \in Commits : Parents[c] = SeqRange(repo.parents[c])
<1>1. ASSUME NEW c \in Commits
      PROVE  SeqRange(repo.parents[c]) \subseteq 1 .. c - 1
  <2>1. repo.parents[c] \in Seq(1 .. c - 1)
    BY GraphsAssumption DEF Repos
  <2>2. \A i \in 1 .. Len(repo.parents[c]) : repo.parents[c][i] \in 1 .. c - 1
    BY <2>1, ElementOfSeq
  <2> QED
    BY <2>2 DEF SeqRange
<1> QED
  BY <1>1, CommitsFact DEF Parents, Steps

LEMMA AncestorsFact ==
  ASSUME repo \in Repos
  PROVE  Reaches(Parents, Ancestors)
<1>1. PICK R : R = [c \in Commits |-> {c} \cup UNION {R[p] : p \in Parents[c]}]
  BY ParentsFact, ReachExists
<1>2. R = [c \in Commits |-> {c} \cup UNION {R[p] : p \in SeqRange(repo.parents[c])}]
  BY <1>1, ParentsFact
<1>3. Ancestors = [c \in Commits |->
                     {c} \cup UNION {Ancestors[p] : p \in SeqRange(repo.parents[c])}]
  BY <1>2 DEF Ancestors
<1>4. Ancestors = [c \in Commits |-> {c} \cup UNION {Ancestors[p] : p \in Parents[c]}]
  <2> DEFINE A == Ancestors
  <2>1. A = [c \in Commits |-> {c} \cup UNION {A[p] : p \in SeqRange(repo.parents[c])}]
    BY <1>3
  <2> HIDE DEF A
  <2>2. A = [c \in Commits |-> {c} \cup UNION {A[p] : p \in Parents[c]}]
    BY <2>1, ParentsFact
  <2> QED
    BY <2>2 DEF A
<1> QED
  BY <1>4, ParentsFact, ReachFact

Includes == [c \in Commits |-> Included(c)]

LEMMA IncludesFact ==
  ASSUME repo \in Repos
  PROVE  /\ Includes \in Steps
         /\ \A c \in Commits : Includes[c] = Included(c) /\ Includes[c] \subseteq Parents[c]
<1>1. ASSUME NEW c \in Commits
      PROVE  Included(c) \subseteq SeqRange(repo.parents[c])
  <2>1. repo.parents[c] \in Seq(1 .. c - 1)
    BY GraphsAssumption DEF Repos
  <2>2. repo.parents[c] # <<>> => 1 \in 1 .. Len(repo.parents[c])
    BY <2>1
  <2> QED
    BY <2>2 DEF Included, SeqRange
<1>2. \A c \in Commits : Includes[c] = Included(c)
  BY DEF Includes
<1>3. \A c \in Commits : Parents[c] \subseteq Commits /\ Parents[c] \subseteq 1 .. c - 1
  BY ParentsFact DEF Steps
<1> QED
  BY <1>1, <1>2, <1>3, ParentsFact DEF Includes, Steps

LEMMA LinesFact ==
  ASSUME repo \in Repos
  PROVE  Reaches(Includes, Lines)
<1>1. PICK R : R = [c \in Commits |-> {c} \cup UNION {R[p] : p \in Includes[c]}]
  BY IncludesFact, ReachExists
<1>2. R = [c \in Commits |-> {c} \cup UNION {R[p] : p \in Included(c)}]
  BY <1>1, IncludesFact
<1>3. Lines = [c \in Commits |-> {c} \cup UNION {Lines[p] : p \in Included(c)}]
  BY <1>2 DEF Lines
<1>4. Lines = [c \in Commits |-> {c} \cup UNION {Lines[p] : p \in Includes[c]}]
  <2> DEFINE A == Lines
  <2>1. A = [c \in Commits |-> {c} \cup UNION {A[p] : p \in Included(c)}]
    BY <1>3
  <2> HIDE DEF A
  <2>2. A = [c \in Commits |-> {c} \cup UNION {A[p] : p \in Includes[c]}]
    BY <2>1, IncludesFact
  <2> QED
    BY <2>2 DEF A
<1> QED
  BY <1>4, IncludesFact, ReachFact

-----------------------------------------------------------------------------
(* Walks *)

IsAscending(w) == \A i, j \in 1 .. Len(w) : i < j => w[i] < w[j]

(* As many members are up to c as c has members before it, and no two have *)
(* as many; so there is one for each number.                               *)
LEMMA AscendingFact ==
  ASSUME NEW S \in SUBSET Commits
  PROVE  /\ Ascending(S) \in Seq(Commits) /\ IsAscending(Ascending(S))
         /\ SeqRange(Ascending(S)) = S
<1> DEFINE Upto(c) == {d \in S : d <= c}
           N == Cardinality(S)
           rank == [c \in S |-> Cardinality(Upto(c))]
           w == Ascending(S)
<1>1. IsFiniteSet(S) /\ N \in Nat /\ S \subseteq Nat
  BY CommitsFact, FS_Subset, FS_CardinalityType
<1>2. ASSUME NEW c \in S
      PROVE  /\ IsFiniteSet(Upto(c)) /\ Cardinality(Upto(c)) \in 1 .. N
  <2>1. Upto(c) \in SUBSET S /\ c \in Upto(c)
    BY <1>1
  <2>2. IsFiniteSet(Upto(c)) /\ Cardinality(Upto(c)) <= N
    BY <1>1, <2>1, FS_Subset
  <2>3. Cardinality(Upto(c)) \in Nat /\ Cardinality(Upto(c)) # 0
    BY <2>1, <2>2, FS_CardinalityType, FS_EmptySet
  <2> QED
    BY <1>1, <2>2, <2>3
<1>3. ASSUME NEW c \in S, NEW d \in S, c < d
      PROVE  Cardinality(Upto(c)) < Cardinality(Upto(d))
  <2>1. Upto(c) \in SUBSET Upto(d) /\ Upto(c) # Upto(d)
    <3>1. c \in Nat /\ d \in Nat /\ \A x \in S : x \in Nat
      BY <1>1
    <3>2. \A x \in Upto(c) : x \in Upto(d)
      BY <1>3, <3>1
    <3>3. d \in Upto(d) /\ d \notin Upto(c)
      BY <1>3, <3>1
    <3> QED
      BY <3>2, <3>3
  <2>2. Cardinality(Upto(c)) <= Cardinality(Upto(d)) /\ Cardinality(Upto(c)) # Cardinality(Upto(d))
    <3> HIDE DEF Upto
    <3> QED
      BY <1>2, <2>1, FS_Subset
  <2> QED
    BY <1>2, <2>2
<1> HIDE DEF Upto
<1>4. rank \in [S -> 1 .. N]
  BY <1>2
<1>5. \A c, d \in S : c # d => rank[c] # rank[d]
  BY <1>1, <1>2, <1>3
<1>6. rank \in Injection(S, 1 .. N)
  BY <1>4, <1>5, Fun_IsInj
<1>7. IsFiniteSet(1 .. N) /\ Cardinality(1 .. N) = N
  BY <1>1, FS_Interval
<1>8. rank \in Surjection(S, 1 .. N)
  BY <1>6, <1>7, FS_Injection
<1>9. \A i \in 1 .. N : \E c \in S : rank[c] = i
  BY <1>8 DEF Surjection
<1>10. w = [i \in 1 .. N |-> CHOOSE c \in S : Cardinality(Upto(c)) = i]
  BY DEF Ascending, Upto
<1>11. ASSUME NEW i \in 1 .. N
       PROVE  w[i] \in S /\ rank[w[i]] = i
  <2>1. \E c \in S : Cardinality(Upto(c)) = i
    BY <1>9
  <2>2. w[i] = CHOOSE c \in S : Cardinality(Upto(c)) = i
    BY <1>10
  <2> HIDE DEF w
  <2>3. w[i] \in S /\ Cardinality(Upto(w[i])) = i
    BY <2>1, <2>2
  <2> QED
    BY <2>3
<1>12. w \in Seq(S) /\ Len(w) = N
  <2>1. w \in [1 .. N -> S]
    BY <1>10, <1>11
  <2> HIDE DEF w
  <2> QED
    BY <1>1, <2>1, IsASeq, LenProperties
<1> HIDE DEF w
<1>13. ASSUME NEW i \in 1 .. N, NEW j \in 1 .. N, i < j
       PROVE  w[i] < w[j]
  <2>1. /\ w[i] \in S /\ w[j] \in S
        /\ Cardinality(Upto(w[i])) = i /\ Cardinality(Upto(w[j])) = j
    BY <1>11
  <2>2. w[i] # w[j] /\ ~ (w[j] < w[i])
    <3>1. w[j] < w[i] => Cardinality(Upto(w[j])) < Cardinality(Upto(w[i]))
      BY <1>3, <2>1
    <3>2. i \in Nat /\ j \in Nat /\ i # j /\ ~ (j < i)
      BY <1>1, <1>13
    <3> QED
      BY <2>1, <3>1, <3>2
  <2>3. w[i] \in Nat /\ w[j] \in Nat
    BY <1>1, <2>1
  <2> QED
    BY <2>2, <2>3
<1>14. \A c \in S : \E i \in 1 .. N : w[i] = c
  BY <1>4, <1>5, <1>11
<1>15. SeqRange(w) = S
  BY <1>11, <1>12, <1>14 DEF SeqRange
<1>16. w \in Seq(Commits)
  BY <1>12, SeqMonotonic
<1>17. IsAscending(w)
  BY <1>12, <1>13 DEF IsAscending
<1> QED
  BY <1>15, <1>16, <1>17 DEF w

(* A merge is in the history, and only its first parents are walked.       *)
LeavesOut == repo.firstParent /\ \E c \in Commits : Len(repo.parents[c]) > 1

(* What a walk lists, and that nothing it lists is made from something     *)
(* else, unless it leaves out side branches.                               *)
LEMMA WalkFact ==
  ASSUME repo \in Repos, NEW start \in Commits \cup {None}
  PROVE  /\ WalkFrom(start) \in Seq(Commits) /\ IsAscending(WalkFrom(start))
         /\ start # None => /\ start \in Ancestors[start] /\ Ancestors[start] \in SUBSET Commits
                            /\ \A c \in Ancestors[start] : Parents[c] \subseteq Ancestors[start]
                            /\ SeqRange(WalkFrom(start)) \cap Ancestors[start] = {}
         /\ ~ LeavesOut =>
              \A c \in SeqRange(WalkFrom(start)) : \A p \in Parents[c] :
                \/ p \in SeqRange(WalkFrom(start))
                \/ start # None /\ p \in Ancestors[start]
<1> DEFINE S == Lines[repo.head] \ (IF start = None THEN {} ELSE Ancestors[start])
<1>1. Reaches(Includes, Lines) /\ Reaches(Parents, Ancestors) /\ repo.head \in Commits
  BY LinesFact, AncestorsFact DEF Repos
<1>2. S \in SUBSET Commits
  BY <1>1 DEF Reaches
<1>3. /\ WalkFrom(start) \in Seq(Commits) /\ IsAscending(WalkFrom(start))
      /\ SeqRange(WalkFrom(start)) = S
  BY <1>2, AscendingFact DEF WalkFrom
<1>4. start # None => /\ start \in Ancestors[start] /\ Ancestors[start] \in SUBSET Commits
                      /\ \A c \in Ancestors[start] : Parents[c] \subseteq Ancestors[start]
                      /\ S \cap Ancestors[start] = {}
  BY <1>1 DEF Reaches
<1>5. ASSUME ~ LeavesOut, NEW c \in Commits
      PROVE  Parents[c] = Includes[c]
  <2>1. Parents[c] = SeqRange(repo.parents[c]) /\ Includes[c] = Included(c)
    BY ParentsFact, IncludesFact
  <2>2. repo.parents[c] \in Seq(1 .. c - 1)
    BY GraphsAssumption DEF Repos
  <2>3. repo.firstParent => Len(repo.parents[c]) <= 1
    BY <1>5, <2>2 DEF LeavesOut
  <2>4. CASE repo.firstParent /\ repo.parents[c] # <<>>
    <3>1. Len(repo.parents[c]) = 1
      <4>1. PICK n : n = Len(repo.parents[c])
        OBVIOUS
      <4>2. n \in Nat /\ n # 0
        BY <2>2, <2>4, <4>1, EmptySeq, LenProperties
      <4>3. n <= 1
        BY <2>3, <2>4, <4>1
      <4>4. n = 1
        BY <4>2, <4>3
      <4> QED
        BY <4>1, <4>4
    <3>2. SeqRange(repo.parents[c]) = {repo.parents[c][1]}
      BY <3>1 DEF SeqRange
    <3> QED
      BY <2>1, <2>4, <3>2 DEF Included
  <2>5. CASE ~ (repo.firstParent /\ repo.parents[c] # <<>>)
    BY <2>1, <2>5 DEF Included
  <2> QED
    BY <2>4, <2>5
<1>6. ASSUME ~ LeavesOut, NEW c \in S, NEW p \in Parents[c]
      PROVE  p \in S \/ (start # None /\ p \in Ancestors[start])
  <2>1. c \in Commits /\ p \in Includes[c]
    BY <1>2, <1>5, <1>6
  <2>2. p \in Lines[repo.head]
    BY <1>1, <2>1 DEF Reaches
  <2> QED
    BY <2>2
<1> QED
  BY <1>3, <1>4, <1>6
-----------------------------------------------------------------------------
(* Databases and matchers *)

Memories == [index : SUBSET ((STRING \X STRING) \X Names), prints : [Names -> Prints \cup {None}]]

(* A commit is recorded once; what a row tells is in the snapshots and     *)
(* events; nothing is said of commits that are not recorded.               *)
DbOK(d) ==
    /\ d \in [log : Seq(Commits), row : [Names -> Rows],
              snap : [Names -> [Ids -> Entries \cup {None}]],
              events : SUBSET (Names \X Nat \X EventTypes)]
    /\ \A i, j \in 1 .. Len(d.log) : d.log[i] = d.log[j] => i = j
    /\ \A x \in d.events : x[2] \in 1 .. Len(d.log)
    /\ \A f \in Names :
         /\ d.row[f].status # "none" => /\ <<f, d.row[f].first, "BORN">> \in d.events
                                        /\ \E i \in Ids : d.snap[f][i] # None
         /\ d.row[f].status = "removed" => \E i \in Ids : <<f, i, "DIED">> \in d.events
         /\ \A i \in Ids : i > Len(d.log) => d.snap[f][i] = None

MemOK(m, d) ==
    /\ m \in Memories
    /\ \A x \in m.index : d.row[x[2]].status # "none"
    /\ \A f \in Names : m.prints[f] # None =>
         \E i \in Ids : d.snap[f][i] # None /\ d.snap[f][i].calls = m.prints[f].tree
    /\ \A f \in Active(d) : m.prints[f] # None

OneCommit(d) ==
    d.log # <<>> => \E i \in 1 .. Len(d.log) : \A f \in Active(d) : d.snap[f][i] # None

(* What is recorded of commit i is what it contains. *)
Whole(contents, d, i) == contents[d.log[i]] # <<>> <=> \E f \in Names : d.snap[f][i] # None

LEMMA EntriesFact ==
  /\ \A e \in Entries : /\ e.name \in Names /\ e # None /\ e.type \in STRING /\ e.sig \in STRING
                        /\ Trace(e) \in Prints /\ Trace(e) # None /\ Trace(e).tree = e.calls
  /\ None \notin Entries /\ None \notin Prints /\ None \notin Commits
<1>1. ASSUME NEW e \in Entries
      PROVE  /\ e.name \in Names /\ e # None /\ e.type \in STRING /\ e.sig \in STRING
             /\ Trace(e) \in Prints /\ Trace(e) # None /\ Trace(e).tree = e.calls
  <2>1. e.type \in STRING /\ e.sig \in STRING
    BY SourcesAssumption
  <2>2. e.calls \in SUBSET UNION {x.calls : x \in Entries} /\ e.chain \in {x.chain : x \in Entries}
    OBVIOUS
  <2>3. Trace(e) \in Prints /\ Trace(e).tree = e.calls
    BY <2>1, <2>2 DEF Trace, Prints
  <2>4. e # None /\ Trace(e) # None
    BY <2>3, NoneAssumption
  <2>5. e.name \in Names
    BY DEF Names
  <2> QED
    BY <2>1, <2>3, <2>4, <2>5
<1> QED
  BY <1>1, NoneAssumption

LEMMA DbFact ==
  ASSUME NEW d, DbOK(d)
  PROVE  Len(d.log) \in Nat /\ 1 .. Len(d.log) \subseteq Ids
<1>1. d.log \in Seq(Commits) /\ Len(d.log) \in Nat
  BY LenProperties DEF DbOK
<1>2. PICK n \in Nat : n = Len(d.log)
  BY <1>1
<1>3. IsFiniteSet(1 .. n) /\ Cardinality(1 .. n) = n
  BY FS_Interval
<1>4. \A i \in 1 .. n : d.log[i] \in Commits
  BY <1>1, <1>2, ElementOfSeq
<1>5. PICK log : log = [i \in 1 .. n |-> d.log[i]]
  OBVIOUS
<1>6. log \in Injection(1 .. n, Commits)
  <2>1. log \in [1 .. n -> Commits]
    BY <1>4, <1>5
  <2>2. \A i, j \in 1 .. n : log[i] = log[j] => i = j
    BY <1>2, <1>5 DEF DbOK
  <2> QED
    BY <2>1, <2>2 DEF Injection, IsInjective
<1>7. Cardinality(1 .. n) <= Cardinality(Commits)
  BY <1>3, <1>6, CommitsFact, FS_Injection
<1>8. PICK k : k = Cardinality(Commits)
  OBVIOUS
<1>9. k \in Nat /\ Commits = 1 .. k /\ n <= k
  BY <1>3, <1>7, <1>8, CommitsFact
<1>10. 1 .. n \subseteq 1 .. k
  BY <1>9
<1> QED
  BY <1>1, <1>2, <1>9, <1>10 DEF Ids

LEMMA LatestFact ==
  ASSUME NEW d, DbOK(d), NEW f \in Names, \E i \in Ids : d.snap[f][i] # None
  PROVE  \E i \in Ids : d.snap[f][i] # None /\ Latest(d, f) = d.snap[f][i]
<1> DEFINE T == {i \in Ids : d.snap[f][i] # None}
<1>1. PICK n \in Nat : Ids = 1 .. n
  BY CommitsFact DEF Ids
<1>2. \E i \in T : \A j \in T : j <= i
  <2>1. T \in SUBSET (0 .. n) /\ T # {}
    BY <1>1
  <2> HIDE DEF T
  <2> QED
    BY <2>1, Greatest
<1>3. T # {} /\ Latest(d, f) = d.snap[f][CHOOSE i \in T : \A j \in T : j <= i]
  BY <1>2 DEF Latest
<1>4. PICK i : i = CHOOSE k \in T : \A j \in T : j <= k
  OBVIOUS
<1>5. i \in T
  BY <1>2, <1>4
<1> QED
  BY <1>3, <1>4, <1>5

LEMMA HydratedFact ==
  ASSUME NEW d, DbOK(d)
  PROVE  MemOK(Hydrated(d), d)
<1> DEFINE m == Hydrated(d)
<1>1. ASSUME NEW f \in Active(d)
      PROVE  /\ f \in Names /\ d.row[f].type \in STRING /\ d.row[f].sig \in STRING
             /\ d.row[f].status # "none"
             /\ \E i \in Ids : /\ d.snap[f][i] # None /\ d.snap[f][i] \in Entries
                               /\ Latest(d, f) = d.snap[f][i]
  <2>1. f \in Names /\ d.row[f].status = "active" /\ d.row[f] \in Rows
    BY DEF Active, DbOK
  <2>2. d.row[f].type \in STRING /\ d.row[f].sig \in STRING
    BY <2>1 DEF Rows, NoRow
  <2>3. \E i \in Ids : d.snap[f][i] # None
    BY <2>1 DEF DbOK
  <2>4. PICK i \in Ids : d.snap[f][i] # None /\ Latest(d, f) = d.snap[f][i]
    BY <2>1, <2>3, LatestFact
  <2>5. d.snap[f][i] \in Entries
    BY <2>1, <2>4 DEF DbOK
  <2> QED
    BY <2>1, <2>2, <2>4, <2>5
<1>2. m.index = {<<<<d.row[f].type, d.row[f].sig>>, f>> : f \in Active(d)}
  BY DEF Hydrated
<1>3. ASSUME NEW f \in Active(d)
      PROVE  /\ m.prints[f] \in Prints
             /\ Latest(d, f) # None /\ m.prints[f].tree = Latest(d, f).calls
  <2>1. m.prints[f] = [type |-> d.row[f].type, callers |-> FALSE,
                       tree |-> Latest(d, f).calls, chain |-> Latest(d, f).chain]
    BY <1>1 DEF Hydrated
  <2>2. Latest(d, f) \in Entries /\ Latest(d, f) # None
    BY <1>1
  <2>3. /\ Latest(d, f).calls \in SUBSET UNION {e.calls : e \in Entries}
        /\ Latest(d, f).chain \in {e.chain : e \in Entries}
    BY <2>2
  <2> HIDE DEF m
  <2> QED
    BY <1>1, <2>1, <2>2, <2>3 DEF Prints
<1>4. \A f \in Names : f \notin Active(d) => m.prints[f] = None
  BY DEF Hydrated
<1>5. m \in Memories
  <2>1. m = [index |-> m.index, prints |-> [f \in Names |-> m.prints[f]]]
    BY DEF Hydrated
  <2>2. m.index \in SUBSET ((STRING \X STRING) \X Names)
    BY <1>1, <1>2
  <2>3. \A f \in Names : m.prints[f] \in Prints \cup {None}
    BY <1>3, <1>4
  <2> HIDE DEF m
  <2> QED
    BY <2>1, <2>2, <2>3 DEF Memories
<1>6. \A x \in m.index : d.row[x[2]].status # "none"
  BY <1>1, <1>2
<1>7. \A f \in Active(d) : m.prints[f] # None
  BY <1>3, EntriesFact
<1>8. \A f \in Names : m.prints[f] # None =>
         \E i \in Ids : d.snap[f][i] # None /\ d.snap[f][i].calls = m.prints[f].tree
  BY <1>1, <1>3, <1>4
<1> QED
  BY <1>5, <1>6, <1>7, <1>8 DEF MemOK
-----------------------------------------------------------------------------
(* What an entry point e changes when it is taken for feature f: the row,  *)
(* the snapshot of commit h, events of h, the fingerprint and the index.   *)
Noted(d, f, row, h, e, types) ==
    [log |-> d.log, row |-> [d.row EXCEPT ![f] = row],
     snap |-> [d.snap EXCEPT ![f] = [d.snap[f] EXCEPT ![h] = e]],
     events |-> d.events \cup {<<f, h, t>> : t \in types}]

(* Database d and matcher m become d2 and m2. *)
Notes(d, m, f, row, h, e, types, d2, m2) ==
    /\ DbOK(d) /\ MemOK(m, d)
    /\ f \in Names /\ row \in Rows /\ h \in 1 .. Len(d.log) /\ e \in Entries
    /\ types \in SUBSET EventTypes
    /\ d2 = Noted(d, f, row, h, e, types)
    /\ row.status # "none" /\ <<f, row.first, "BORN">> \in d2.events
    /\ row.status = "removed" => d.row[f].status = "removed"
    /\ m2 = [index |-> m2.index, prints |-> [m.prints EXCEPT ![f] = Trace(e)]]
    /\ m2.index \subseteq m.index \cup {<<<<e.type, e.sig>>, f>>}

LEMMA NotedFact ==
  ASSUME NEW d, NEW m, NEW f, NEW row, NEW h, NEW e, NEW types, NEW d2, NEW m2,
         Notes(d, m, f, row, h, e, types, d2, m2)
  PROVE  /\ DbOK(d2) /\ MemOK(m2, d2) /\ d2.log = d.log
         /\ \A g \in Names : d.row[g].status # "none" => d2.row[g].status # "none"
         /\ Active(d2) \subseteq Active(d) \cup {f}
         /\ \A g \in Names, i \in Ids :
              d2.snap[g][i] = IF g = f /\ i = h THEN e ELSE d.snap[g][i]
<1> USE DEF Notes
<1>1. /\ d2.log = d.log /\ d.log \in Seq(Commits)
      /\ d2.row = [d.row EXCEPT ![f] = row]
      /\ d2.snap = [d.snap EXCEPT ![f] = [d.snap[f] EXCEPT ![h] = e]]
      /\ d2.events = d.events \cup {<<f, h, t>> : t \in types}
      /\ d.row \in [Names -> Rows] /\ d.snap \in [Names -> [Ids -> Entries \cup {None}]]
      /\ d.events \in SUBSET (Names \X Nat \X EventTypes)
  BY DEF DbOK, Noted
<1>2. h \in Ids /\ h \in Nat /\ Len(d.log) \in Nat
  BY DbFact
<1>3. \A g \in Names : d2.row[g] = IF g = f THEN row ELSE d.row[g]
  BY <1>1
<1>4. ASSUME NEW g \in Names, NEW i \in Ids
      PROVE  d2.snap[g][i] = IF g = f /\ i = h THEN e ELSE d.snap[g][i]
  <2>1. d.snap[f] \in [Ids -> Entries \cup {None}]
    BY <1>1
  <2>2. d2.snap[g] = IF g = f THEN [d.snap[f] EXCEPT ![h] = e] ELSE d.snap[g]
    BY <1>1
  <2> QED
    BY <1>2, <2>1, <2>2
<1>5. d2.snap[f][h] = e /\ d2.snap[f][h] # None
  BY <1>2, <1>4, EntriesFact
<1>6. \A g \in Names, i \in Ids : d.snap[g][i] # None => d2.snap[g][i] # None
  BY <1>4, EntriesFact
<1>7. d2 \in [log : Seq(Commits), row : [Names -> Rows],
              snap : [Names -> [Ids -> Entries \cup {None}]],
              events : SUBSET (Names \X Nat \X EventTypes)]
  <2>1. d2.row \in [Names -> Rows]
    BY <1>1
  <2>2. d2.snap \in [Names -> [Ids -> Entries \cup {None}]]
    <3>1. d.snap[f] \in [Ids -> Entries \cup {None}]
      BY <1>1
    <3>2. [d.snap[f] EXCEPT ![h] = e] \in [Ids -> Entries \cup {None}]
      BY <3>1
    <3> QED
      BY <1>1, <3>2
  <2>3. d2.events \in SUBSET (Names \X Nat \X EventTypes)
    BY <1>1, <1>2
  <2>4. d2 = [log |-> d2.log, row |-> d2.row, snap |-> d2.snap, events |-> d2.events]
    BY DEF Noted
  <2> QED
    BY <1>1, <2>1, <2>2, <2>3, <2>4
<1>8. \A x \in d2.events : x[2] \in 1 .. Len(d2.log)
  <2>1. \A x \in d.events : x[2] \in 1 .. Len(d.log)
    BY DEF DbOK
  <2> QED
    BY <1>1, <2>1
<1>9. ASSUME NEW g \in Names
      PROVE  /\ d2.row[g].status # "none" => /\ <<g, d2.row[g].first, "BORN">> \in d2.events
                                             /\ \E i \in Ids : d2.snap[g][i] # None
             /\ d2.row[g].status = "removed" => \E i \in Ids : <<g, i, "DIED">> \in d2.events
             /\ \A i \in Ids : i > Len(d2.log) => d2.snap[g][i] = None
  <2>1. /\ d.row[g].status # "none" => /\ <<g, d.row[g].first, "BORN">> \in d.events
                                       /\ \E i \in Ids : d.snap[g][i] # None
        /\ d.row[g].status = "removed" => \E i \in Ids : <<g, i, "DIED">> \in d.events
        /\ \A i \in Ids : i > Len(d.log) => d.snap[g][i] = None
    BY DEF DbOK
  <2>2. d2.row[g].status # "none" => /\ <<g, d2.row[g].first, "BORN">> \in d2.events
                                     /\ \E i \in Ids : d2.snap[g][i] # None
    <3>1. CASE g = f
      BY <1>2, <1>3, <1>5, <3>1
    <3>2. CASE g # f
      BY <1>1, <1>3, <1>6, <2>1, <3>2
    <3> QED
      BY <3>1, <3>2
  <2>3. d2.row[g].status = "removed" => d.row[g].status = "removed"
    BY <1>3
  <2>4. d2.row[g].status = "removed" => \E i \in Ids : <<g, i, "DIED">> \in d2.events
    BY <1>1, <2>1, <2>3
  <2>5. ASSUME NEW i \in Ids, i > Len(d2.log)
        PROVE  d2.snap[g][i] = None
    <3>1. i # h
      BY <1>1, <1>2, <2>5
    <3> QED
      BY <1>1, <1>4, <2>1, <2>5, <3>1
  <2> QED
    BY <2>2, <2>4, <2>5
<1>10. DbOK(d2)
  <2>1. \A i, j \in 1 .. Len(d2.log) : d2.log[i] = d2.log[j] => i = j
    BY <1>1 DEF DbOK
  <2> QED
    BY <1>7, <1>8, <1>9, <2>1 DEF DbOK
<1>11. Active(d2) \subseteq Active(d) \cup {f}
  BY <1>3 DEF Active
<1>12. m \in Memories
  BY DEF MemOK
<1>13. m2.prints = [m.prints EXCEPT ![f] = Trace(e)] /\ m.prints \in [Names -> Prints \cup {None}]
  <2> HIDE DEF Memories
  <2>1. m2.prints = [m.prints EXCEPT ![f] = Trace(e)]
    OBVIOUS
  <2> QED
    BY <1>12, <2>1 DEF Memories
<1>14. \A g \in Names : m2.prints[g] = IF g = f THEN Trace(e) ELSE m.prints[g]
  BY <1>13
<1>15. m2 \in Memories
  <2>1. m2.prints \in [Names -> Prints \cup {None}]
    BY <1>13, EntriesFact
  <2>2. m2.index \in SUBSET ((STRING \X STRING) \X Names)
    BY <1>12, EntriesFact DEF Memories
  <2>3. m2 = [index |-> m2.index, prints |-> m2.prints]
    BY <1>13
  <2> QED
    BY <2>1, <2>2, <2>3 DEF Memories
<1>16. \A x \in m2.index : d2.row[x[2]].status # "none"
  <2>1. \A x \in m.index : x[2] \in Names /\ d.row[x[2]].status # "none"
    BY <1>12 DEF MemOK, Memories
  <2>2. \A x \in m2.index : x \in m.index \/ x[2] = f
    OBVIOUS
  <2> QED
    BY <1>3, <2>1, <2>2
<1>17. ASSUME NEW g \in Names, m2.prints[g] # None
       PROVE  \E i \in Ids : d2.snap[g][i] # None /\ d2.snap[g][i].calls = m2.prints[g].tree
  <2>1. CASE g = f
    <3>1. d2.snap[f][h].calls = m2.prints[g].tree
      BY <1>5, <1>14, <2>1, EntriesFact
    <3> QED
      BY <1>2, <1>5, <2>1, <3>1
  <2>2. CASE g # f
    <3>1. \E i \in Ids : d.snap[g][i] # None /\ d.snap[g][i].calls = m2.prints[g].tree
      BY <1>14, <1>17, <2>2 DEF MemOK
    <3> QED
      BY <1>4, <2>2, <3>1
  <2> QED
    BY <2>1, <2>2
<1>18. ASSUME NEW g \in Active(d2)
       PROVE  m2.prints[g] # None
  <2>1. g = f \/ g \in Active(d)
    BY <1>11
  <2>2. g \in Names
    BY DEF Active
  <2>3. g \in Active(d) => m.prints[g] # None
    BY DEF MemOK
  <2> QED
    BY <1>14, <2>1, <2>2, <2>3, EntriesFact
<1>19. MemOK(m2, d2)
  BY <1>15, <1>16, <1>17, <1>18 DEF MemOK
<1>20. \A g \in Names : d.row[g].status # "none" => d2.row[g].status # "none"
  BY <1>3
<1> QED
  BY <1>1, <1>4, <1>10, <1>11, <1>19, <1>20
-----------------------------------------------------------------------------
(* A commit begins and ends *)

LEMMA EmptyFact == DbOK(EmptyDb) /\ SeqRange(<<>>) = {} /\ IsAscending(<<>>)
<1>1. EmptyDb = [log |-> <<>>, row |-> [f \in Names |-> NoRow],
                 snap |-> [f \in Names |-> [i \in Ids |-> None]], events |-> {}]
  BY DEF EmptyDb
<1>2. \A f \in Names : EmptyDb.row[f] = NoRow /\ NoRow.status = "none" /\ NoRow \in Rows
  BY <1>1 DEF NoRow, Rows
<1>3. \A f \in Names, i \in Ids : EmptyDb.snap[f][i] = None
  BY <1>1
<1>4. <<>> \in Seq(Commits) /\ Len(<<>>) = 0
  OBVIOUS
<1>5. [i \in Ids |-> None] \in [Ids -> Entries \cup {None}]
  OBVIOUS
<1>6. EmptyDb \in [log : Seq(Commits), row : [Names -> Rows],
                   snap : [Names -> [Ids -> Entries \cup {None}]],
                   events : SUBSET (Names \X Nat \X EventTypes)]
  BY <1>1, <1>2, <1>4, <1>5
<1>7. EmptyDb.log = <<>> /\ EmptyDb.events = {}
  BY <1>1
<1> QED
  BY <1>2, <1>3, <1>4, <1>6, <1>7 DEF DbOK, SeqRange, IsAscending

LEMMA InsertFact ==
  ASSUME NEW d, DbOK(d), NEW c \in Commits, NEW d2, d2 = InsertCommit(d, c)
  PROVE  /\ DbOK(d2) /\ d2.row = d.row /\ d2.snap = d.snap
         /\ c \in SeqRange(d.log) => d2.log = d.log
         /\ c \notin SeqRange(d.log) =>
              Len(d2.log) = Len(d.log) + 1 /\ d2.log[Len(d.log) + 1] = c
         /\ Len(d.log) <= Len(d2.log)
         /\ \A i \in 1 .. Len(d.log) : d2.log[i] = d.log[i]
         /\ SeqRange(d2.log) = SeqRange(d.log) \cup {c}
<1>1. d \in [log : Seq(Commits), row : [Names -> Rows],
             snap : [Names -> [Ids -> Entries \cup {None}]],
             events : SUBSET (Names \X Nat \X EventTypes)]
  BY DEF DbOK
<1>2. PICK n \in Nat : n = Len(d.log)
  BY <1>1
<1>3. CASE c \in SeqRange(d.log)
  <2>1. d2 = d
    BY <1>3 DEF InsertCommit
  <2>2. SeqRange(d.log) = SeqRange(d.log) \cup {c}
    BY <1>3
  <2> QED
    BY <1>2, <1>3, <2>1, <2>2
<1>4. CASE c \notin SeqRange(d.log)
  <2>1. /\ d2.log = Append(d.log, c) /\ d2.row = d.row /\ d2.snap = d.snap /\ d2.events = d.events
        /\ d2 = [log |-> d2.log, row |-> d2.row, snap |-> d2.snap, events |-> d2.events]
    BY <1>1, <1>4 DEF InsertCommit
  <2>2. /\ d2.log \in Seq(Commits) /\ Len(d2.log) = n + 1 /\ d2.log[n + 1] = c
        /\ \A i \in 1 .. n : d2.log[i] = d.log[i]
    BY <1>1, <1>2, <2>1, AppendProperties
  <2>3. 1 .. n + 1 = (1 .. n) \cup {n + 1}
    OBVIOUS
  <2>4. SeqRange(d2.log) = SeqRange(d.log) \cup {c}
    BY <1>2, <2>2, <2>3 DEF SeqRange
  <2>5. \A i \in 1 .. n : d.log[i] # c
    BY <1>2, <1>4 DEF SeqRange
  <2>6. \A i, j \in 1 .. Len(d2.log) : d2.log[i] = d2.log[j] => i = j
    <3>1. \A i, j \in 1 .. n : d.log[i] = d.log[j] => i = j
      BY <1>2 DEF DbOK
    <3> QED
      BY <2>2, <2>3, <2>5, <3>1
  <2>7. \A x \in d2.events : x[2] \in 1 .. Len(d2.log)
    BY <1>2, <2>1, <2>2, <2>3 DEF DbOK
  <2>8. \A f \in Names, i \in Ids : i > Len(d2.log) => d2.snap[f][i] = None
    <3>1. \A i \in Ids : i \in Nat
      BY CommitsFact DEF Ids
    <3>2. \A f \in Names, i \in Ids : i > n => d.snap[f][i] = None
      BY <1>2 DEF DbOK
    <3>3. \A i \in Ids : i > n + 1 => i > n
      BY <3>1
    <3> QED
      BY <2>1, <2>2, <3>2, <3>3
  <2>9. d2 \in [log : Seq(Commits), row : [Names -> Rows],
                snap : [Names -> [Ids -> Entries \cup {None}]],
                events : SUBSET (Names \X Nat \X EventTypes)]
    BY <1>1, <2>1, <2>2
  <2>10. DbOK(d2)
    <3>1. ASSUME NEW f \in Names
          PROVE  /\ d2.row[f].status # "none" => /\ <<f, d2.row[f].first, "BORN">> \in d2.events
                                                 /\ \E i \in Ids : d2.snap[f][i] # None
                 /\ d2.row[f].status = "removed" => \E i \in Ids : <<f, i, "DIED">> \in d2.events
      <4>1. /\ d.row[f].status # "none" => /\ <<f, d.row[f].first, "BORN">> \in d.events
                                           /\ \E i \in Ids : d.snap[f][i] # None
            /\ d.row[f].status = "removed" => \E i \in Ids : <<f, i, "DIED">> \in d.events
        BY DEF DbOK
      <4> QED
        BY <2>1, <4>1
    <3> QED
      BY <2>6, <2>7, <2>8, <2>9, <3>1 DEF DbOK
  <2> QED
    BY <1>2, <1>4, <2>1, <2>2, <2>4, <2>10
<1> QED
  BY <1>3, <1>4

LEMMA SameFact ==
  ASSUME NEW d, NEW d2, d2.row = d.row, d2.snap = d.snap
  PROVE  /\ Active(d2) = Active(d)
         /\ \A m : MemOK(m, d) => MemOK(m, d2)
BY DEF Active, MemOK

(* Features that are gone are removed in the same transaction. *)
Leaves(t, m, h, gone, died, keys, d2, m2) ==
    /\ DbOK(t) /\ MemOK(m, t) /\ h \in 1 .. Len(t.log)
    /\ gone \in SUBSET Names /\ \A f \in gone : t.row[f].status # "none"
    /\ died = {f \in gone : Latest(t, f) # None}
    /\ d2 = [t EXCEPT
              !.events = @ \cup {<<f, h, "DIED">> : f \in died},
              !.row = [f \in Names |-> IF f \in gone
                         THEN [@[f] EXCEPT !.status = "removed"] ELSE @[f]]]
    /\ m2 = [m EXCEPT !.index = {x \in @ : x[1] \notin keys}]

LEMMA GoneFact ==
  ASSUME NEW t, NEW m, NEW h, NEW gone, NEW died, NEW keys, NEW d2, NEW m2,
         Leaves(t, m, h, gone, died, keys, d2, m2)
  PROVE  /\ DbOK(d2) /\ MemOK(m2, d2) /\ d2.log = t.log /\ d2.snap = t.snap
         /\ Active(d2) = Active(t) \ gone
<1> USE DEF Leaves
<1>1. /\ t \in [log : Seq(Commits), row : [Names -> Rows],
                snap : [Names -> [Ids -> Entries \cup {None}]],
                events : SUBSET (Names \X Nat \X EventTypes)]
      /\ t.row \in [Names -> Rows] /\ t.events \in SUBSET (Names \X Nat \X EventTypes)
  BY DEF DbOK
<1>2. /\ d2.log = t.log /\ d2.snap = t.snap
      /\ d2.events = t.events \cup {<<f, h, "DIED">> : f \in died}
      /\ d2.row = [f \in Names |-> IF f \in gone
                     THEN [t.row[f] EXCEPT !.status = "removed"] ELSE t.row[f]]
      /\ d2 = [log |-> d2.log, row |-> d2.row, snap |-> d2.snap, events |-> d2.events]
  BY <1>1
<1>3. h \in Ids /\ h \in Nat
  BY DbFact
<1>4. died = gone
  <2>1. ASSUME NEW f \in gone
        PROVE  Latest(t, f) # None
    <3>1. f \in Names /\ \E i \in Ids : t.snap[f][i] # None
      BY DEF DbOK
    <3> QED
      BY <3>1, LatestFact
  <2> QED
    BY <2>1
<1>5. ASSUME NEW f \in Names
      PROVE  /\ d2.row[f] \in Rows /\ d2.row[f].first = t.row[f].first
             /\ d2.row[f].status = IF f \in gone THEN "removed" ELSE t.row[f].status
  <2>1. t.row[f] \in Rows
    BY <1>1
  <2>2. CASE f \in gone
    <3>1. t.row[f] \in [status : {"none", "active", "removed"}, type : STRING, sig : STRING,
                        first : Nat, last : Nat]
      BY <2>1, <2>2 DEF Rows, NoRow
    <3>2. d2.row[f] = [t.row[f] EXCEPT !.status = "removed"]
      BY <1>2, <2>2
    <3> QED
      BY <2>2, <3>1, <3>2 DEF Rows
  <2>3. CASE f \notin gone
    BY <1>2, <2>1, <2>3
  <2> QED
    BY <2>2, <2>3
<1>6. Active(d2) = Active(t) \ gone
  BY <1>5 DEF Active
<1>7. d2 \in [log : Seq(Commits), row : [Names -> Rows],
              snap : [Names -> [Ids -> Entries \cup {None}]],
              events : SUBSET (Names \X Nat \X EventTypes)]
  <2>1. d2.row \in [Names -> Rows]
    BY <1>2, <1>5
  <2>2. d2.events \in SUBSET (Names \X Nat \X EventTypes)
    <3>1. ASSUME NEW f \in died
          PROVE  <<f, h, "DIED">> \in Names \X Nat \X EventTypes
      <4>1. f \in Names /\ h \in Nat
        BY <1>3
      <4>2. "DIED" \in EventTypes
        BY DEF EventTypes
      <4> QED
        BY <4>1, <4>2
    <3>2. {<<f, h, "DIED">> : f \in died} \subseteq Names \X Nat \X EventTypes
      BY <3>1
    <3>3. d2.events = t.events \cup {<<f, h, "DIED">> : f \in died}
      BY <1>2
    <3> QED
      BY <1>1, <3>2, <3>3
  <2> QED
    BY <1>1, <1>2, <2>1, <2>2
<1>8. \A x \in d2.events : x[2] \in 1 .. Len(d2.log)
  BY <1>2 DEF DbOK
<1>9. ASSUME NEW f \in Names
      PROVE  /\ d2.row[f].status # "none" => /\ <<f, d2.row[f].first, "BORN">> \in d2.events
                                             /\ \E i \in Ids : d2.snap[f][i] # None
             /\ d2.row[f].status = "removed" => \E i \in Ids : <<f, i, "DIED">> \in d2.events
             /\ \A i \in Ids : i > Len(d2.log) => d2.snap[f][i] = None
  <2>1. /\ t.row[f].status # "none" => /\ <<f, t.row[f].first, "BORN">> \in t.events
                                       /\ \E i \in Ids : t.snap[f][i] # None
        /\ t.row[f].status = "removed" => \E i \in Ids : <<f, i, "DIED">> \in t.events
        /\ \A i \in Ids : i > Len(t.log) => t.snap[f][i] = None
    BY DEF DbOK
  <2>2. d2.row[f].status # "none" => t.row[f].status # "none"
    BY <1>5
  <2>3. f \in gone => <<f, h, "DIED">> \in d2.events
    BY <1>2, <1>4
  <2>4. t.events \subseteq d2.events
    BY <1>2
  <2>5. d2.row[f].status = "removed" => \E i \in Ids : <<f, i, "DIED">> \in d2.events
    BY <1>3, <1>5, <2>1, <2>3, <2>4
  <2> QED
    BY <1>2, <1>5, <2>1, <2>2, <2>4, <2>5
<1>10. DbOK(d2)
  <2>1. \A i, j \in 1 .. Len(d2.log) : d2.log[i] = d2.log[j] => i = j
    BY <1>2 DEF DbOK
  <2> QED
    BY <1>7, <1>8, <1>9, <2>1 DEF DbOK
<1>11. /\ m \in Memories /\ m2.prints = m.prints /\ m2.index = {x \in m.index : x[1] \notin keys}
       /\ m2 \in Memories
  BY DEF MemOK, Memories
<1>12. MemOK(m2, d2)
  <2>1. ASSUME NEW x \in m2.index
        PROVE  d2.row[x[2]].status # "none"
    <3>1. x \in m.index /\ x[2] \in Names
      BY <1>11 DEF Memories
    <3>2. t.row[x[2]].status # "none"
      BY <3>1 DEF MemOK
    <3> QED
      BY <1>5, <3>1, <3>2
  <2>2. \A f \in Names : m2.prints[f] # None =>
          \E i \in Ids : d2.snap[f][i] # None /\ d2.snap[f][i].calls = m2.prints[f].tree
    BY <1>2, <1>11 DEF MemOK
  <2>3. \A f \in Active(d2) : m2.prints[f] # None
    BY <1>6, <1>11 DEF MemOK
  <2> QED
    BY <1>11, <2>1, <2>2, <2>3 DEF MemOK
<1> QED
  BY <1>2, <1>6, <1>10, <1>12
-----------------------------------------------------------------------------
(* The invariant *)

DatabaseOK ==
    /\ DbOK(db) /\ OneCommit(db)
    /\ \A i \in 1 .. Len(db.log) : Whole(repo.contents, db, i)

MatcherOK == at \in {"idle", "walk"} => MemOK(memory, db)

(* Commit h is in progress. *)
NowOK(h) ==
    /\ tx.log[h] = Head(todo)
    /\ \A f \in seen : tx.snap[f][h] # None
    /\ \A i \in 1 .. Len(tx.log) : i # h => Whole(repo.contents, tx, i)
    /\ IF repo.contents[Head(todo)] = <<>>
       THEN eps = <<>> /\ \A f \in Names : tx.snap[f][h] = None
       ELSE eps # <<>> \/ seen # {}

TransactionOK ==
    /\ DbOK(tx)
    /\ at = "entries" =>
         /\ todo # <<>> /\ MemOK(memory, tx) /\ MemOK(saved, db)
         /\ tx.log = InsertCommit(db, Head(todo)).log
         /\ \A f \in Names : db.row[f].status # "none" => tx.row[f].status # "none"
         /\ Active(tx) \subseteq Active(db) \cup seen
         /\ \E h \in 1 .. Len(tx.log) : NowOK(h)

(* Old commits come first, and none is left that is made from commits      *)
(* which are neither recorded nor left.                                    *)
OrderOK ==
    /\ IsAscending(todo)
    /\ ~ LeavesOut =>
         /\ \A c \in Recorded : Parents[c] \subseteq Recorded
         /\ \A c \in SeqRange(todo) : Parents[c] \subseteq Recorded \cup SeqRange(todo)

(* A set of commits that contains what its members are made from, and the  *)
(* commit recorded last, has nothing of what is left.                      *)
Behind(S) ==
    /\ \A c \in S : Parents[c] \subseteq S
    /\ LatestCommit \in S /\ S \cap SeqRange(todo) = {}
AheadOK ==
    at \in {"walk", "entries"} /\ db.log # <<>> => \E S \in SUBSET Commits : Behind(S)

Typed ==
    /\ repo \in Repos /\ at \in {"closed", "idle", "walk", "entries"}
    /\ todo \in Seq(Commits) /\ eps \in Seq(Entries)
    /\ seen \subseteq Names /\ failures \in 0 .. MaxFailures

Inv == Typed /\ DatabaseOK /\ MatcherOK /\ TransactionOK /\ OrderOK /\ AheadOK

LEMMA InitOK == Init => Inv
<1> SUFFICES ASSUME Init
             PROVE  Inv
  OBVIOUS
<1>1. /\ repo \in [parents : Graphs, contents : Sources, head : {1}, firstParent : BOOLEAN]
      /\ db = EmptyDb /\ at = "closed" /\ todo = <<>> /\ tx = EmptyDb /\ eps = <<>> /\ seen = {}
      /\ failures = 0
  BY DEF Init
<1>2. EmptyDb.log = <<>> /\ DbOK(EmptyDb)
  BY EmptyFact DEF EmptyDb
<1>3. Typed
  BY <1>1, CommitsFact, FailuresAssumption DEF Typed, Repos
<1>4. DatabaseOK
  BY <1>1, <1>2 DEF DatabaseOK, OneCommit
<1>5. MatcherOK /\ TransactionOK /\ AheadOK
  BY <1>1, <1>2 DEF MatcherOK, TransactionOK, AheadOK
<1>6. OrderOK
  BY <1>1, <1>2, EmptyFact DEF OrderOK, Recorded
<1> QED
  BY <1>3, <1>4, <1>5, <1>6 DEF Inv

(* The place of the commit in progress. *)
LEMMA HereFact ==
  ASSUME TransactionOK, at = "entries"
  PROVE  Here \in 1 .. Len(tx.log) /\ NowOK(Here)
<1>1. PICK h \in 1 .. Len(tx.log) : NowOK(h)
  BY DEF TransactionOK
<1>2. tx.log[h] = Head(todo) /\ \A i \in 1 .. Len(tx.log) : tx.log[i] = Head(todo) => i = h
  BY <1>1 DEF NowOK, TransactionOK, DbOK
<1>3. Here = CHOOSE i \in 1 .. Len(tx.log) : tx.log[i] = Head(todo)
  BY DEF Here, IdOf
<1>4. Here \in 1 .. Len(tx.log) /\ tx.log[Here] = Head(todo)
  BY <1>2, <1>3
<1>5. Here = h
  BY <1>2, <1>4
<1> QED
  BY <1>1, <1>5

LEMMA OpenFact == ASSUME Inv, Open PROVE Inv'
<1>1. /\ at' = "idle" /\ memory' = Hydrated(db)
      /\ repo' = repo /\ db' = db /\ todo' = todo /\ tx' = tx /\ eps' = eps /\ seen' = seen
      /\ failures' = failures
  BY DEF Open, commit
<1>2. DatabaseOK' /\ Typed' /\ AheadOK' /\ TransactionOK'
  BY <1>1 DEF Inv, DatabaseOK, Typed, AheadOK, TransactionOK
<1>3. MatcherOK'
  BY <1>1, HydratedFact DEF Inv, DatabaseOK, MatcherOK
<1>4. OrderOK'
  BY <1>1 DEF Inv, OrderOK, LeavesOut, Recorded, Parents
<1> QED
  BY <1>2, <1>3, <1>4 DEF Inv

LEMMA ForgetFact == ASSUME Inv, Forget, failures' \in 0 .. MaxFailures PROVE Inv'
<1>1. /\ at' = "closed" /\ todo' = <<>> /\ tx' = EmptyDb /\ eps' = <<>> /\ seen' = {}
      /\ repo' = repo /\ db' = db
  BY DEF Forget, NoCommit
<1>2. Typed' /\ DatabaseOK' /\ MatcherOK' /\ AheadOK'
  BY <1>1 DEF Inv, Typed, DatabaseOK, MatcherOK, AheadOK
<1>3. TransactionOK'
  BY <1>1, EmptyFact DEF TransactionOK
<1>4. OrderOK'
  BY <1>1, EmptyFact DEF Inv, OrderOK, LeavesOut, Recorded, Parents
<1> QED
  BY <1>2, <1>3, <1>4 DEF Inv

(* A walk that does not go on: it has ended, or fails. *)
LEMMA StopFact ==
  ASSUME Inv, at' = "idle", todo' = todo \/ todo' = <<>>, MemOK(memory, db)',
         DbOK(tx)', eps' \in Seq(Entries), seen' \subseteq Names,
         failures' \in 0 .. MaxFailures, repo' = repo, db' = db
  PROVE  Inv'
<1>1. Typed'
  <2>1. todo' \in Seq(Commits)
    <3>1. todo \in Seq(Commits) /\ <<>> \in Seq(Commits)
      BY DEF Inv, Typed
    <3> QED
      BY <3>1
  <2> QED
    BY <2>1 DEF Inv, Typed
<1>2. DatabaseOK' /\ AheadOK'
  BY DEF Inv, DatabaseOK, AheadOK
<1>3. MatcherOK'
  BY DEF MatcherOK
<1>4. TransactionOK'
  BY DEF TransactionOK
<1>5. OrderOK'
  BY EmptyFact DEF Inv, OrderOK, LeavesOut, Recorded, Parents
<1> QED
  BY <1>1, <1>2, <1>3, <1>4, <1>5 DEF Inv

LEMMA EndWalkFact == ASSUME Inv, EndWalk PROVE Inv'
<1>1. /\ at = "walk" /\ at' = "idle" /\ todo' = todo /\ repo' = repo /\ db' = db
      /\ memory' = memory /\ tx' = tx /\ eps' = eps /\ seen' = seen /\ failures' = failures
  BY DEF EndWalk, commit
<1>2. MemOK(memory, db)'
  BY <1>1 DEF Inv, MatcherOK
<1> QED
  BY <1>1, <1>2, StopFact DEF Inv, TransactionOK, Typed

LEMMA SyncFailsFact == ASSUME Inv, SyncFails PROVE Inv'
<1>1. /\ at = "walk" /\ at' = "idle" /\ todo' = <<>> /\ repo' = repo /\ db' = db
      /\ memory' = memory /\ tx' = tx /\ eps' = eps /\ seen' = seen
      /\ failures < MaxFailures /\ failures' = failures + 1
  BY DEF SyncFails, Fails, commit
<1>2. MemOK(memory, db)' /\ failures' \in 0 .. MaxFailures
  BY <1>1, FailuresAssumption DEF Inv, MatcherOK, Typed
<1> QED
  BY <1>1, <1>2, StopFact DEF Inv, TransactionOK, Typed

LEMMA CommitFailsFact == ASSUME Inv, CommitFails PROVE Inv'
<1>1. /\ at = "entries" /\ at' = "idle" /\ todo' = <<>> /\ repo' = repo /\ db' = db
      /\ memory' = saved /\ tx' = EmptyDb /\ eps' = <<>> /\ seen' = {}
      /\ failures < MaxFailures /\ failures' = failures + 1
  BY DEF CommitFails, Restored, Fails, NoCommit
<1>2. MemOK(memory, db)' /\ failures' \in 0 .. MaxFailures
  BY <1>1, FailuresAssumption DEF Inv, TransactionOK, Typed
<1>3. DbOK(tx)'
  BY <1>1, EmptyFact
<1> QED
  BY <1>1, <1>2, <1>3, StopFact

LEMMA MoveHeadFact == ASSUME Inv, NEW c \in Commits, MoveHead(c) PROVE Inv'
<1>1. /\ repo' = [repo EXCEPT !.head = c] /\ db' = db /\ at' = at /\ todo' = todo
      /\ memory' = memory /\ saved' = saved /\ tx' = tx /\ eps' = eps /\ seen' = seen
      /\ failures' = failures
  BY DEF MoveHead, commit
<1>2. /\ repo' \in Repos /\ repo'.contents = repo.contents /\ repo'.parents = repo.parents
      /\ repo'.firstParent = repo.firstParent
  BY <1>1 DEF Inv, Typed, Repos
<1>3. Typed' /\ DatabaseOK' /\ MatcherOK'
  BY <1>1, <1>2 DEF Inv, Typed, DatabaseOK, MatcherOK
<1>4. TransactionOK'
  BY <1>1, <1>2 DEF Inv, TransactionOK, NowOK
<1>5. Parents' = Parents /\ (LeavesOut' <=> LeavesOut)
  BY <1>2 DEF Parents, LeavesOut
<1>6. OrderOK' /\ AheadOK'
  BY <1>1, <1>5 DEF Inv, OrderOK, AheadOK, Behind, Recorded, LatestCommit
<1> QED
  BY <1>3, <1>4, <1>6 DEF Inv
LEMMA LatestCommitFact ==
  ASSUME Inv
  PROVE  /\ LatestCommit \in Commits \cup {None}
         /\ LatestCommit # None <=> db.log # <<>>
         /\ db.log # <<>> => LatestCommit \in Commits /\ LatestCommit \in Recorded
<1>1. db.log \in Seq(Commits)
  BY DEF Inv, DatabaseOK, DbOK
<1>2. ASSUME db.log # <<>>
      PROVE  LatestCommit \in Commits /\ LatestCommit \in Recorded /\ LatestCommit # None
  <2>1. PICK n : n = Len(db.log)
    OBVIOUS
  <2>2. n \in Nat /\ n # 0
    BY <1>1, <1>2, <2>1, EmptySeq, LenProperties
  <2>3. n \in 1 .. n
    BY <2>2
  <2>4. LatestCommit = db.log[n]
    BY <1>2, <2>1 DEF LatestCommit
  <2>5. db.log[n] \in Commits
    BY <1>1, <2>1, <2>3, ElementOfSeq
  <2>6. db.log[n] \in Recorded
    BY <2>1, <2>3 DEF Recorded, SeqRange
  <2> QED
    BY <2>4, <2>5, <2>6, NoneAssumption
<1>3. db.log = <<>> => LatestCommit = None
  BY DEF LatestCommit
<1> QED
  BY <1>2, <1>3

LEMMA StartWalkFact == ASSUME Inv, StartWalk(LatestCommit) PROVE Inv'
<1>1. /\ at = "idle" /\ at' = "walk" /\ todo' = WalkFrom(LatestCommit)
      /\ repo' = repo /\ db' = db /\ memory' = memory /\ tx' = tx /\ eps' = eps /\ seen' = seen
      /\ failures' = failures
  BY DEF StartWalk, commit
<1>2. PICK start : start = LatestCommit
  OBVIOUS
<1>3. start \in Commits \cup {None} /\ repo \in Repos /\ todo' = WalkFrom(start)
  BY <1>1, <1>2, LatestCommitFact DEF Inv, Typed
<1>4. /\ todo' \in Seq(Commits) /\ IsAscending(todo')
      /\ start # None => /\ start \in Ancestors[start] /\ Ancestors[start] \in SUBSET Commits
                         /\ \A c \in Ancestors[start] : Parents[c] \subseteq Ancestors[start]
                         /\ SeqRange(todo') \cap Ancestors[start] = {}
      /\ ~ LeavesOut =>
           \A c \in SeqRange(todo') : \A p \in Parents[c] :
             p \in SeqRange(todo') \/ (start # None /\ p \in Ancestors[start])
  BY <1>3, WalkFact
<1>5. Typed' /\ DatabaseOK'
  BY <1>1, <1>4 DEF Inv, Typed, DatabaseOK
<1>6. MatcherOK' /\ TransactionOK'
  BY <1>1 DEF Inv, MatcherOK, TransactionOK
<1>7. Parents' = Parents /\ (LeavesOut' <=> LeavesOut) /\ Recorded' = Recorded
      /\ LatestCommit' = LatestCommit
  BY <1>1 DEF Parents, LeavesOut, Recorded, LatestCommit
<1>8. OrderOK'
  <2>1. ASSUME ~ LeavesOut, start # None
        PROVE  Ancestors[start] \subseteq Recorded
    <3>1. start \in Commits /\ start \in Recorded
      BY <1>2, <2>1, LatestCommitFact
    <3>2. \A c \in Recorded : Parents[c] \subseteq Recorded
      BY <2>1 DEF Inv, OrderOK
    <3>3. Reaches(Parents, Ancestors)
      BY <1>3, AncestorsFact
    <3> QED
      BY <3>1, <3>2, <3>3 DEF Reaches
  <2>2. ~ LeavesOut => \A c \in Recorded : Parents[c] \subseteq Recorded
    BY DEF Inv, OrderOK
  <2>3. ~ LeavesOut => \A c \in SeqRange(todo') : Parents[c] \subseteq Recorded \cup SeqRange(todo')
    BY <1>4, <2>1
  <2>4. (~ LeavesOut)' => ~ LeavesOut
    BY <1>7
  <2> QED
    BY <1>4, <1>7, <2>2, <2>3, <2>4 DEF OrderOK
<1>9. AheadOK'
  <2>1. SUFFICES ASSUME db.log # <<>>
                 PROVE  \E S \in SUBSET Commits : Behind(S)'
    BY <1>1 DEF AheadOK
  <2>2. start # None
    BY <1>2, <2>1, LatestCommitFact
  <2>3. PICK S \in SUBSET Commits : S = Ancestors[start]
    BY <1>4, <2>2
  <2>4. Behind(S)'
    BY <1>2, <1>4, <1>7, <2>2, <2>3 DEF Behind
  <2> QED
    BY <2>4
<1> QED
  BY <1>5, <1>6, <1>8, <1>9 DEF Inv

LEMMA BeginCommitFact == ASSUME Inv, BeginCommit PROVE Inv'
<1>1. /\ at = "walk" /\ todo # <<>> /\ at' = "entries" /\ saved' = memory
      /\ tx' = InsertCommit(db, Head(todo)) /\ eps' = repo.contents[Head(todo)] /\ seen' = {}
      /\ repo' = repo /\ db' = db /\ todo' = todo /\ memory' = memory /\ failures' = failures
  BY DEF BeginCommit
<1>2. PICK c : c = Head(todo)
  OBVIOUS
<1>3. c \in Commits
  BY <1>1, <1>2, HeadTailProperties DEF Inv, Typed
<1>4. DbOK(db) /\ MemOK(memory, db)
  BY <1>1 DEF Inv, DatabaseOK, MatcherOK
<1>5. PICK d2 : d2 = InsertCommit(db, c)
  OBVIOUS
<1>6. /\ DbOK(d2) /\ d2.row = db.row /\ d2.snap = db.snap
      /\ c \in SeqRange(db.log) => d2.log = db.log
      /\ c \notin SeqRange(db.log) =>
           Len(d2.log) = Len(db.log) + 1 /\ d2.log[Len(db.log) + 1] = c
      /\ \A i \in 1 .. Len(db.log) : d2.log[i] = db.log[i]
  BY <1>3, <1>4, <1>5, InsertFact
<1>7. tx' = d2
  BY <1>1, <1>2, <1>5
<1>8. Typed'
  <2>1. repo.contents \in Sources
    BY DEF Inv, Typed, Repos
  <2>2. eps' \in Seq(Entries)
    BY <1>1, <1>2, <1>3, <2>1, SourcesAssumption
  <2> QED
    BY <1>1, <2>2 DEF Inv, Typed
<1>9. DatabaseOK' /\ MatcherOK'
  BY <1>1 DEF Inv, DatabaseOK, MatcherOK
<1>10. Parents' = Parents /\ (LeavesOut' <=> LeavesOut) /\ Recorded' = Recorded
       /\ LatestCommit' = LatestCommit
  BY <1>1 DEF Parents, LeavesOut, Recorded, LatestCommit
<1>11. OrderOK'
  BY <1>1, <1>10 DEF Inv, OrderOK
<1>12. AheadOK'
  <2>1. SUFFICES ASSUME db.log # <<>>
                 PROVE  \E S \in SUBSET Commits : Behind(S)'
    BY <1>1 DEF AheadOK
  <2>2. PICK S \in SUBSET Commits : Behind(S)
    BY <1>1, <2>1 DEF Inv, AheadOK
  <2>3. Behind(S)'
    BY <1>1, <1>10, <2>2 DEF Behind
  <2> QED
    BY <2>3
<1>13. /\ MemOK(memory, d2) /\ Active(d2) = Active(db)
  BY <1>4, <1>6, SameFact
<1>14. \A i \in 1 .. Len(db.log) :
         Whole(repo.contents, db, i) /\ Whole(repo.contents, d2, i)
  <2>1. \A i \in 1 .. Len(db.log) : Whole(repo.contents, db, i)
    BY DEF Inv, DatabaseOK
  <2> QED
    BY <1>6, <2>1 DEF Whole
<1>15. \E h \in 1 .. Len(d2.log) :
         /\ d2.log[h] = c
         /\ \A i \in 1 .. Len(d2.log) : i # h => i \in 1 .. Len(db.log)
         /\ repo.contents[c] = <<>> => \A f \in Names : d2.snap[f][h] = None
  <2>1. CASE c \in SeqRange(db.log)
    <3>1. PICK h \in 1 .. Len(db.log) : db.log[h] = c
      BY <2>1 DEF SeqRange
    <3>2. d2.log = db.log /\ Whole(repo.contents, db, h)
      BY <1>6, <1>14, <2>1
    <3>3. repo.contents[c] = <<>> => \A f \in Names : d2.snap[f][h] = None
      BY <1>6, <3>1, <3>2 DEF Whole
    <3> QED
      BY <3>1, <3>2, <3>3
  <2>2. CASE c \notin SeqRange(db.log)
    <3>1. PICK n : n = Len(db.log)
      OBVIOUS
    <3>2. n \in Nat /\ Len(d2.log) = n + 1 /\ d2.log[n + 1] = c
      BY <1>4, <1>6, <2>2, <3>1, DbFact
    <3>3. n + 1 \in 1 .. Len(d2.log) /\ \A i \in 1 .. Len(d2.log) : i # n + 1 => i \in 1 .. n
      BY <3>2
    <3>4. n + 1 \in Ids
      BY <1>6, <3>3, DbFact
    <3>5. \A f \in Names : d2.snap[f][n + 1] = None
      <4>1. n + 1 > Len(db.log)
        BY <3>1, <3>2
      <4>2. PICK i \in Ids : i = n + 1
        BY <3>4
      <4>3. \A f \in Names : i > Len(db.log) => db.snap[f][i] = None
        BY <1>4 DEF DbOK
      <4> QED
        BY <1>6, <4>1, <4>2, <4>3
    <3> QED
      BY <3>1, <3>2, <3>3, <3>5
  <2> QED
    BY <2>1, <2>2
<1>16. PICK h \in 1 .. Len(d2.log) :
         /\ d2.log[h] = c
         /\ \A i \in 1 .. Len(d2.log) : i # h => i \in 1 .. Len(db.log)
         /\ repo.contents[c] = <<>> => \A f \in Names : d2.snap[f][h] = None
  BY <1>15
<1>17. NowOK(h)'
  <2>1. tx'.log[h] = Head(todo')
    BY <1>1, <1>2, <1>7, <1>16
  <2>2. \A i \in 1 .. Len(tx'.log) : i # h => Whole(repo'.contents, tx', i)
    BY <1>1, <1>7, <1>14, <1>16
  <2>3. IF repo'.contents[Head(todo')] = <<>>
        THEN eps' = <<>> /\ \A f \in Names : tx'.snap[f][h] = None
        ELSE eps' # <<>> \/ seen' # {}
    BY <1>1, <1>2, <1>7, <1>16
  <2> QED
    BY <1>1, <2>1, <2>2, <2>3 DEF NowOK
<1>18. TransactionOK'
  <2>1. \E i \in 1 .. Len(tx'.log) : NowOK(i)'
    BY <1>7, <1>16, <1>17
  <2>2. DbOK(tx') /\ MemOK(memory', tx') /\ MemOK(saved', db')
    BY <1>1, <1>4, <1>6, <1>7, <1>13
  <2>3. tx'.log = InsertCommit(db', Head(todo')).log
    BY <1>1
  <2>4. \A f \in Names : db'.row[f].status # "none" => tx'.row[f].status # "none"
    BY <1>1, <1>6, <1>7
  <2>5. Active(tx') \subseteq Active(db') \cup seen'
    BY <1>1, <1>7, <1>13
  <2> QED
    BY <1>1, <2>1, <2>2, <2>3, <2>4, <2>5 DEF TransactionOK
<1> QED
  BY <1>8, <1>9, <1>11, <1>12, <1>18 DEF Inv
(* An entry point that is taken for feature f. *)
LEMMA NoteFact ==
  ASSUME Inv, at = "entries", eps # <<>>, eps' = Tail(eps),
         NEW e \in Entries, NEW f \in Names, NEW row \in Rows, NEW types \in SUBSET EventTypes,
         tx' = Noted(tx, f, row, Here, e, types),
         row.status # "none", <<f, row.first, "BORN">> \in tx'.events,
         row.status = "removed" => tx.row[f].status = "removed",
         memory' = [index |-> memory'.index, prints |-> [memory.prints EXCEPT ![f] = Trace(e)]],
         memory'.index \subseteq memory.index \cup {<<<<e.type, e.sig>>, f>>},
         seen' = seen \cup {f}, UNCHANGED <<repo, db, at, todo, saved, failures>>
  PROVE  Inv'
<1>1. DbOK(tx) /\ MemOK(memory, tx) /\ Here \in 1 .. Len(tx.log) /\ NowOK(Here)
  BY HereFact DEF Inv, TransactionOK
<1>2. PICK h \in 1 .. Len(tx.log) : h = Here
  BY <1>1
<1>3. PICK d : d = tx
  OBVIOUS
<1>4. PICK d2 : d2 = tx'
  OBVIOUS
<1>5. PICK m : m = memory
  OBVIOUS
<1>6. PICK m2 : m2 = memory'
  OBVIOUS
<1>7. Notes(d, m, f, row, h, e, types, d2, m2)
  BY <1>1, <1>2, <1>3, <1>4, <1>5, <1>6 DEF Notes
<1>8. /\ DbOK(d2) /\ MemOK(m2, d2) /\ d2.log = d.log
      /\ \A g \in Names : d.row[g].status # "none" => d2.row[g].status # "none"
      /\ Active(d2) \subseteq Active(d) \cup {f}
      /\ \A g \in Names, i \in Ids :
           d2.snap[g][i] = IF g = f /\ i = h THEN e ELSE d.snap[g][i]
  BY <1>7, NotedFact
<1>9. Typed'
  <2>1. eps' \in Seq(Entries)
    BY HeadTailProperties DEF Inv, Typed
  <2> QED
    BY <2>1 DEF Inv, Typed
<1>10. DatabaseOK' /\ MatcherOK'
  BY DEF Inv, DatabaseOK, MatcherOK
<1>11. Parents' = Parents /\ (LeavesOut' <=> LeavesOut) /\ Recorded' = Recorded
       /\ LatestCommit' = LatestCommit
  BY DEF Parents, LeavesOut, Recorded, LatestCommit
<1>12. OrderOK'
  BY <1>11 DEF Inv, OrderOK
<1>13. AheadOK'
  <2>1. SUFFICES ASSUME db.log # <<>>
                 PROVE  \E S \in SUBSET Commits : Behind(S)'
    BY DEF AheadOK
  <2>2. PICK S \in SUBSET Commits : Behind(S)
    BY <2>1 DEF Inv, AheadOK
  <2>3. Behind(S)'
    BY <1>11, <2>2 DEF Behind
  <2> QED
    BY <2>3
<1>14. h \in Ids /\ \A i \in 1 .. Len(d.log) : i \in Ids
  BY <1>1, <1>3, DbFact
<1>15. NowOK(h)'
  <2>1. NowOK(h)
    BY <1>1, <1>2
  <2>2. /\ d.log[h] = Head(todo) /\ \A g \in seen : d.snap[g][h] # None
        /\ \A i \in 1 .. Len(d.log) : i # h => Whole(repo.contents, d, i)
        /\ repo.contents[Head(todo)] # <<>>
    BY <1>3, <2>1 DEF NowOK
  <2>3. \A g \in seen : g \in Names
    BY DEF Inv, Typed
  <2>4. \A g \in seen \cup {f} : d2.snap[g][h] # None
    BY <1>8, <1>14, <2>2, <2>3, EntriesFact
  <2>5. ASSUME NEW i \in 1 .. Len(d.log), i # h
        PROVE  Whole(repo.contents, d2, i)
    <3>1. Whole(repo.contents, d, i) /\ d2.log = d.log
      BY <1>8, <2>2, <2>5
    <3>2. \A g \in Names : d2.snap[g][i] = d.snap[g][i]
      BY <1>8, <1>14, <2>5
    <3> QED
      BY <3>1, <3>2 DEF Whole
  <2>6. tx'.log[h] = Head(todo')
    BY <1>4, <1>8, <2>2
  <2>7. \A g \in seen' : tx'.snap[g][h] # None
    BY <1>4, <2>4
  <2>8. \A i \in 1 .. Len(tx'.log) : i # h => Whole(repo'.contents, tx', i)
    BY <1>4, <1>8, <2>5
  <2>9. repo'.contents[Head(todo')] # <<>> /\ seen' # {}
    BY <2>2
  <2> QED
    BY <2>6, <2>7, <2>8, <2>9 DEF NowOK
<1>16. TransactionOK'
  <2>1. \E i \in 1 .. Len(tx'.log) : NowOK(i)'
    BY <1>3, <1>4, <1>8, <1>15
  <2>2. /\ todo # <<>> /\ MemOK(saved, db) /\ d.log = InsertCommit(db, Head(todo)).log
        /\ \A g \in Names : db.row[g].status # "none" => d.row[g].status # "none"
        /\ Active(d) \subseteq Active(db) \cup seen
    BY <1>3 DEF Inv, TransactionOK
  <2>3. DbOK(tx') /\ MemOK(memory', tx') /\ MemOK(saved', db')
    BY <1>4, <1>6, <1>8, <2>2
  <2>4. tx'.log = InsertCommit(db', Head(todo')).log
    BY <1>4, <1>8, <2>2
  <2>5. \A g \in Names : db'.row[g].status # "none" => tx'.row[g].status # "none"
    BY <1>4, <1>8, <2>2
  <2>6. Active(tx') \subseteq Active(db') \cup seen'
    BY <1>4, <1>8, <2>2
  <2> QED
    BY <2>1, <2>2, <2>3, <2>4, <2>5, <2>6 DEF TransactionOK
<1> QED
  BY <1>9, <1>10, <1>12, <1>13, <1>16 DEF Inv

LEMMA TypesFact ==
  /\ \A old, new : Changes(old, new) \in SUBSET EventTypes
  /\ \A condition, t : t \in EventTypes => If(condition, t) \in SUBSET EventTypes
<1>1. ASSUME NEW condition, NEW t, t \in EventTypes
      PROVE  If(condition, t) \in SUBSET EventTypes
  BY <1>1 DEF If
<1>2. /\ "BORN" \in EventTypes /\ "GROWN" \in EventTypes /\ "SHRUNK" \in EventTypes
      /\ "EXTENDED" \in EventTypes /\ "CONTRACTED" \in EventTypes /\ "DEP_CREATED" \in EventTypes
      /\ "DEP_REMOVED" \in EventTypes /\ "MOVED" \in EventTypes
  BY DEF EventTypes
<1>3. ASSUME NEW old, NEW new
      PROVE  Changes(old, new) \in SUBSET EventTypes
  <2>1. CASE old = None
    BY <1>2, <2>1 DEF Changes
  <2>2. CASE old # None
    <3>1. \A condition : /\ If(condition, "GROWN") \in SUBSET EventTypes
                         /\ If(condition, "SHRUNK") \in SUBSET EventTypes
                         /\ If(condition, "EXTENDED") \in SUBSET EventTypes
                         /\ If(condition, "CONTRACTED") \in SUBSET EventTypes
                         /\ If(condition, "DEP_CREATED") \in SUBSET EventTypes
                         /\ If(condition, "DEP_REMOVED") \in SUBSET EventTypes
                         /\ If(condition, "MOVED") \in SUBSET EventTypes
      BY <1>1, <1>2
    <3>2. Changes(old, new) =
            If(Grew(Cardinality(old.calls), Cardinality(new.calls)), "GROWN")
            \cup If(Shrank(Cardinality(old.calls), Cardinality(new.calls)), "SHRUNK")
            \cup If(Grew(old.depth, new.depth), "EXTENDED")
            \cup If(Shrank(old.depth, new.depth), "CONTRACTED")
            \cup If(new.edges > old.edges, "DEP_CREATED")
            \cup If(new.edges < old.edges, "DEP_REMOVED")
            \cup If(new.file # old.file, "MOVED")
      BY <2>2 DEF Changes
    <3> QED
      BY <3>1, <3>2
  <2> QED
    BY <2>1, <2>2
<1> QED
  BY <1>1, <1>3
(* Changes within a database, spelled out. *)
Is(d, log, row, snap, events) ==
    d = [log |-> log, row |-> row, snap |-> snap, events |-> events]

LEMMA SnapFact ==
  ASSUME NEW d, NEW log, NEW row, NEW snap, NEW events,
         Is(d, log, row, snap, events),
         NEW f, NEW h, NEW e
  PROVE  Is([d EXCEPT !.snap[f][h] = e], log, row,
            [snap EXCEPT ![f] = [snap[f] EXCEPT ![h] = e]], events)
BY DEF Is

LEMMA WriteFact ==
  ASSUME NEW d, NEW log, NEW row, NEW snap, NEW events,
         Is(d, log, row, snap, events),
         NEW f, NEW h, NEW e, NEW types
  PROVE  Is(Write(d, f, h, e, types), log, row,
            [snap EXCEPT ![f] = [snap[f] EXCEPT ![h] = e]],
            events \cup {<<f, h, t>> : t \in types})
<1>1. PICK w : w = [d EXCEPT !.snap[f][h] = e]
  OBVIOUS
<1>2. PICK more : more = {<<f, h, t>> : t \in types}
  OBVIOUS
<1>3. Write(d, f, h, e, types) = [w EXCEPT !.events = @ \cup more]
  BY <1>1, <1>2 DEF Write
<1>4. Is(w, log, row, [snap EXCEPT ![f] = [snap[f] EXCEPT ![h] = e]], events)
  BY <1>1, SnapFact
<1> QED
  BY <1>2, <1>3, <1>4 DEF Is

LEMMA SignFact ==
  ASSUME NEW d, NEW log, NEW row, NEW snap, NEW events,
         Is(d, log, row, snap, events),
         NEW f \in Names, row \in [Names -> Rows], NEW sig, NEW h
  PROVE  Is([d EXCEPT !.row[f].sig = sig, !.row[f].last = h], log,
            [row EXCEPT ![f] = [row[f] EXCEPT !.sig = sig, !.last = h]], snap, events)
<1>1. PICK w : w = [d EXCEPT !.row[f].sig = sig]
  OBVIOUS
<1>2. [d EXCEPT !.row[f].sig = sig, !.row[f].last = h] = [w EXCEPT !.row[f].last = h]
  BY <1>1
<1>3. PICK row2 : row2 = [row EXCEPT ![f] = [row[f] EXCEPT !.sig = sig]]
  OBVIOUS
<1>4. w = [log |-> log, row |-> row2, snap |-> snap, events |-> events]
  BY <1>1, <1>3 DEF Is
<1>5. [w EXCEPT !.row[f].last = h] =
        [log |-> log, row |-> [row2 EXCEPT ![f] = [row2[f] EXCEPT !.last = h]],
         snap |-> snap, events |-> events]
  BY <1>4
<1>6. PICK r : r = [row[f] EXCEPT !.sig = sig, !.last = h]
  OBVIOUS
<1>7. row2[f] = [row[f] EXCEPT !.sig = sig]
  BY <1>3
<1>8. [row2[f] EXCEPT !.last = h] = r
  BY <1>6, <1>7
<1>9. [row2 EXCEPT ![f] = r] = [row EXCEPT ![f] = r]
  BY <1>3
<1> QED
  BY <1>2, <1>5, <1>6, <1>8, <1>9 DEF Is

LEMMA RecogniseFact ==
  ASSUME Inv, at = "entries", eps # <<>>, eps' = Tail(eps),
         NEW e \in Entries, NEW f \in Names, Recognise(e, f),
         UNCHANGED <<repo, db, at, todo, saved, failures>>
  PROVE  Inv'
<1> DEFINE old == tx.row[f].sig
           kinds == Changes(Latest(tx, f), e) \cup If(Ambiguous(memory, e), "MERGED")
                      \cup If(old # e.sig, "RENAMED")
           moved == IF old # e.sig THEN Unregister(memory, e.type, old) ELSE memory
           row == [tx.row[f] EXCEPT !.sig = e.sig, !.last = Here]
<1>1. /\ tx.row[f].status # "none"
      /\ tx' = [Write(tx, f, Here, e, kinds \cup Split(f))
                  EXCEPT !.row[f].sig = e.sig, !.row[f].last = Here]
      /\ memory' = Register(moved, f, e, Trace(e)) /\ seen' = seen \cup {f}
  BY DEF Recognise
<1>2. PICK types : types = kinds \cup Split(f)
  OBVIOUS
<1>3. types \in SUBSET EventTypes
  <2>1. "MERGED" \in EventTypes /\ "RENAMED" \in EventTypes /\ "SPLIT" \in EventTypes
    BY DEF EventTypes
  <2> QED
    BY <1>2, <2>1, TypesFact DEF Split
<1>4. /\ DbOK(tx) /\ memory \in Memories /\ Here \in 1 .. Len(tx.log) /\ Here \in Nat
  BY HereFact DEF Inv, TransactionOK, MemOK
<1>5. PICK h \in Nat : h = Here
  BY <1>4
<1>6. /\ tx \in [log : Seq(Commits), row : [Names -> Rows],
                 snap : [Names -> [Ids -> Entries \cup {None}]],
                 events : SUBSET (Names \X Nat \X EventTypes)]
      /\ tx.row \in [Names -> Rows] /\ tx.row[f] \in Rows
  BY <1>4 DEF DbOK
<1>7. tx.row[f] \in [status : {"none", "active", "removed"}, type : STRING, sig : STRING,
                     first : Nat, last : Nat]
  BY <1>1, <1>6 DEF Rows, NoRow
<1>8. PICK r \in Rows : r = row
  <2>1. row \in Rows
    BY <1>4, <1>7, EntriesFact DEF Rows
  <2> QED
    BY <2>1
<1>9. /\ r.status = tx.row[f].status /\ r.first = tx.row[f].first
  BY <1>7, <1>8
<1>10. tx' = Noted(tx, f, r, Here, e, types)
  <2>1. PICK snap : snap = [tx.snap EXCEPT ![f] = [tx.snap[f] EXCEPT ![h] = e]]
    OBVIOUS
  <2>2. PICK events : events = tx.events \cup {<<f, h, t>> : t \in types}
    OBVIOUS
  <2>3. PICK w : w = Write(tx, f, h, e, types)
    OBVIOUS
  <2>4. Is(tx, tx.log, tx.row, tx.snap, tx.events)
    BY <1>6 DEF Is
  <2>5. Is(w, tx.log, tx.row, snap, events)
    BY <2>1, <2>2, <2>3, <2>4, WriteFact
  <2>6. tx' = [w EXCEPT !.row[f].sig = e.sig, !.row[f].last = h]
    BY <1>1, <1>2, <1>5, <2>3
  <2>7. Is([w EXCEPT !.row[f].sig = e.sig, !.row[f].last = h], tx.log,
           [tx.row EXCEPT ![f] = [tx.row[f] EXCEPT !.sig = e.sig, !.last = h]], snap, events)
    BY <1>6, <2>5, SignFact
  <2>8. Is(tx', tx.log, [tx.row EXCEPT ![f] = r], snap, events)
    BY <1>5, <1>8, <2>6, <2>7
  <2> QED
    BY <1>5, <2>1, <2>2, <2>8 DEF Noted, Is
<1>11. <<f, r.first, "BORN">> \in tx'.events
  <2>1. <<f, tx.row[f].first, "BORN">> \in tx.events
    BY <1>1, <1>4 DEF DbOK
  <2> QED
    BY <1>9, <1>10, <2>1 DEF Noted
<1>12. moved \in Memories /\ moved.prints = memory.prints /\ moved.index \subseteq memory.index
  <2>1. CASE old # e.sig
    <3>1. moved = [memory EXCEPT !.index = {x \in @ : x[1] # <<e.type, old>>}]
      BY <2>1 DEF Unregister
    <3> QED
      BY <1>4, <3>1 DEF Memories
  <2>2. CASE old = e.sig
    BY <1>4, <2>2
  <2> QED
    BY <2>1, <2>2
<1>13. /\ memory' = [index |-> memory'.index, prints |-> [memory.prints EXCEPT ![f] = Trace(e)]]
       /\ memory'.index \subseteq memory.index \cup {<<<<e.type, e.sig>>, f>>}
  <2> HIDE DEF moved
  <2> QED
    BY <1>1, <1>12 DEF Register
<1> HIDE DEF old, kinds, moved, row
<1> QED
  BY <1>1, <1>3, <1>9, <1>10, <1>11, <1>13, NoteFact

LEMMA IntroduceFact ==
  ASSUME Inv, at = "entries", eps # <<>>, eps' = Tail(eps), NEW e \in Entries, Introduce(e),
         UNCHANGED <<repo, db, at, todo, saved, failures>>
  PROVE  Inv'
<1>1. PICK f : f = e.name
  OBVIOUS
<1>2. f \in Names
  BY <1>1, EntriesFact
<1>3. /\ DbOK(tx) /\ memory \in Memories /\ Here \in 1 .. Len(tx.log) /\ Here \in Nat
  BY HereFact DEF Inv, TransactionOK, MemOK
<1>4. PICK h \in Nat : h = Here
  BY <1>3
<1>5. PICK types : types = {"BORN"} \cup Split(f)
  OBVIOUS
<1>6. types \in SUBSET EventTypes /\ "BORN" \in types
  <2>1. "BORN" \in EventTypes /\ "SPLIT" \in EventTypes
    BY DEF EventTypes
  <2> QED
    BY <1>5, <2>1, TypesFact DEF Split
<1>7. /\ tx' = Write(Revived(InsertFeature(tx, e, h), f, h), f, h, e, types)
      /\ memory' = Register(memory, f, e, Trace(e)) /\ seen' = seen \cup {f}
  BY <1>1, <1>4, <1>5 DEF Introduce
<1>8. /\ tx \in [log : Seq(Commits), row : [Names -> Rows],
                 snap : [Names -> [Ids -> Entries \cup {None}]],
                 events : SUBSET (Names \X Nat \X EventTypes)]
      /\ tx.row \in [Names -> Rows] /\ tx.row[f] \in Rows
  BY <1>2, <1>3 DEF DbOK
<1>9. PICK d : d = tx
  OBVIOUS
<1>10. \E r \in Rows :
         /\ Revived(InsertFeature(d, e, h), f, h) = [d EXCEPT !.row = [@ EXCEPT ![f] = r]]
         /\ r.status = "active"
         /\ d.row[f].status = "none" => r.first = h
         /\ d.row[f].status # "none" => r.first = d.row[f].first
  <2>1. CASE d.row[f].status = "none"
    <3>1. PICK r : r = [status |-> "active", type |-> e.type, sig |-> e.sig, first |-> h, last |-> h]
      OBVIOUS
    <3>2. r \in Rows /\ r.status = "active" /\ r.first = h
      BY <3>1, EntriesFact DEF Rows
    <3>3. PICK d2 : d2 = [d EXCEPT !.row = [@ EXCEPT ![f] = r]]
      OBVIOUS
    <3>4. InsertFeature(d, e, h) = d2
      BY <1>1, <2>1, <3>1, <3>3 DEF InsertFeature
    <3>5. d2.row[f] = r
      BY <1>2, <1>8, <1>9, <3>3
    <3>6. Revived(d2, f, h) = d2
      BY <3>2, <3>5 DEF Revived
    <3> QED
      BY <2>1, <3>2, <3>3, <3>4, <3>6
  <2>2. CASE d.row[f].status = "removed"
    <3>1. InsertFeature(d, e, h) = d
      BY <1>1, <2>2 DEF InsertFeature
    <3>2. d.row[f] \in [status : {"none", "active", "removed"}, type : STRING, sig : STRING,
                        first : Nat, last : Nat]
      BY <1>8, <1>9, <2>2 DEF Rows, NoRow
    <3>3. PICK r : r = [d.row[f] EXCEPT !.status = "active", !.last = h]
      OBVIOUS
    <3>4. r \in Rows /\ r.status = "active" /\ r.first = d.row[f].first
      BY <3>2, <3>3 DEF Rows
    <3>5. Revived(d, f, h) = [d EXCEPT !.row[f].status = "active", !.row[f].last = h]
      BY <2>2 DEF Revived
    <3>6. [d EXCEPT !.row[f].status = "active", !.row[f].last = h] = [d EXCEPT !.row = [@ EXCEPT ![f] = r]]
      BY <1>2, <1>8, <1>9, <3>2, <3>3
    <3> QED
      BY <2>2, <3>1, <3>4, <3>5, <3>6
  <2>3. CASE d.row[f].status = "active"
    <3>1. InsertFeature(d, e, h) = d /\ Revived(d, f, h) = d
      BY <1>1, <2>3 DEF InsertFeature, Revived
    <3>2. d = [d EXCEPT !.row = [@ EXCEPT ![f] = d.row[f]]]
      BY <1>2, <1>8, <1>9
    <3>3. d.row[f] \in Rows
      BY <1>8, <1>9
    <3> QED
      BY <2>3, <3>1, <3>2, <3>3
  <2> QED
    BY <1>8, <1>9, <2>1, <2>2, <2>3 DEF Rows, NoRow
<1>11. PICK r \in Rows :
         /\ Revived(InsertFeature(d, e, h), f, h) = [d EXCEPT !.row = [@ EXCEPT ![f] = r]]
         /\ r.status = "active"
         /\ d.row[f].status = "none" => r.first = h
         /\ d.row[f].status # "none" => r.first = d.row[f].first
  BY <1>10
<1>12. tx' = Noted(tx, f, r, Here, e, types)
  <2>1. PICK d2 : d2 = [d EXCEPT !.row = [@ EXCEPT ![f] = r]]
    OBVIOUS
  <2>2. d2 = [log |-> d.log, row |-> [d.row EXCEPT ![f] = r], snap |-> d.snap, events |-> d.events]
    BY <1>8, <1>9, <2>1
  <2>3. tx' = Write(d2, f, h, e, types)
    BY <1>7, <1>9, <1>11, <2>1
  <2>4. Write(d2, f, h, e, types) = Noted(d, f, r, h, e, types)
    <3>1. PICK row : row = [d.row EXCEPT ![f] = r]
      OBVIOUS
    <3>2. Is(d2, d.log, row, d.snap, d.events)
      BY <2>2, <3>1 DEF Is
    <3>3. Is(Write(d2, f, h, e, types), d.log, row,
             [d.snap EXCEPT ![f] = [d.snap[f] EXCEPT ![h] = e]],
             d.events \cup {<<f, h, t>> : t \in types})
      BY <3>2, WriteFact
    <3> QED
      BY <3>1, <3>3 DEF Noted, Is
  <2> QED
    BY <1>4, <1>9, <2>3, <2>4
<1>13. <<f, r.first, "BORN">> \in tx'.events
  <2>1. tx'.events = d.events \cup {<<f, h, t>> : t \in types}
    BY <1>4, <1>9, <1>12 DEF Noted
  <2>2. CASE d.row[f].status = "none"
    BY <1>6, <1>11, <2>1, <2>2
  <2>3. CASE d.row[f].status # "none"
    <3>1. <<f, d.row[f].first, "BORN">> \in d.events
      BY <1>2, <1>3, <1>9, <2>3 DEF DbOK
    <3> QED
      BY <1>11, <2>1, <2>3, <3>1
  <2> QED
    BY <2>2, <2>3
<1>14. /\ memory' = [index |-> memory'.index, prints |-> [memory.prints EXCEPT ![f] = Trace(e)]]
       /\ memory'.index \subseteq memory.index \cup {<<<<e.type, e.sig>>, f>>}
  BY <1>3, <1>7 DEF Register
<1> QED
  BY <1>2, <1>6, <1>7, <1>11, <1>12, <1>13, <1>14, NoteFact

LEMMA EntryPointFact == ASSUME Inv, EntryPoint PROVE Inv'
<1>1. /\ at = "entries" /\ eps # <<>> /\ eps' = Tail(eps)
      /\ UNCHANGED <<repo, db, at, todo, saved, failures>>
  BY DEF EntryPoint
<1>2. PICK e : e = Head(eps)
  OBVIOUS
<1>3. e \in Entries
  BY <1>1, <1>2, HeadTailProperties DEF Inv, Typed
<1>4. Introduce(e) \/ \E f \in Names : Recognise(e, f)
  BY <1>2 DEF EntryPoint, Introduce, Recognise
<1> QED
  BY <1>1, <1>3, <1>4, IntroduceFact, RecogniseFact
LEMMA TailFact ==
  ASSUME NEW w \in Seq(Commits), w # <<>>, IsAscending(w)
  PROVE  /\ Head(w) \in Commits /\ Tail(w) \in Seq(Commits) /\ IsAscending(Tail(w))
         /\ SeqRange(w) = {Head(w)} \cup SeqRange(Tail(w))
         /\ \A c \in SeqRange(Tail(w)) : Head(w) < c
<1>1. PICK n : n = Len(w)
  OBVIOUS
<1>2. n \in Nat /\ n # 0
  BY <1>1, EmptySeq, LenProperties
<1>3. PICK t : t = Tail(w)
  OBVIOUS
<1>4. /\ Head(w) \in Commits /\ Head(w) = w[1] /\ t \in Seq(Commits) /\ Len(t) = n - 1
      /\ \A i \in 1 .. n - 1 : t[i] = w[i + 1]
  BY <1>1, <1>2, <1>3, HeadTailProperties
<1>5. /\ \A i \in 1 .. n - 1 : i + 1 \in 1 .. n /\ 1 < i + 1
      /\ \A i \in 1 .. n : i = 1 \/ (i - 1 \in 1 .. n - 1 /\ (i - 1) + 1 = i)
      /\ 1 \in 1 .. n
  BY <1>2
<1>6. IsAscending(t)
  <2>1. SUFFICES ASSUME NEW i \in 1 .. n - 1, NEW j \in 1 .. n - 1, i < j
                 PROVE  t[i] < t[j]
    BY <1>4 DEF IsAscending
  <2>2. i + 1 \in 1 .. n /\ j + 1 \in 1 .. n /\ i + 1 < j + 1
    BY <1>2, <2>1
  <2>3. w[i + 1] < w[j + 1]
    BY <1>1, <2>2 DEF IsAscending
  <2> QED
    BY <1>4, <2>3
<1>7. SeqRange(w) = {w[1]} \cup SeqRange(t)
  <2>1. SeqRange(t) = {w[i + 1] : i \in 1 .. n - 1}
    BY <1>4 DEF SeqRange
  <2>2. \A i \in 1 .. n : i = 1 \/ w[i] \in SeqRange(t)
    BY <1>5, <2>1
  <2>3. SeqRange(w) = {w[i] : i \in 1 .. n}
    BY <1>1 DEF SeqRange
  <2> QED
    BY <1>5, <2>1, <2>2, <2>3
<1>8. ASSUME NEW c \in SeqRange(t)
      PROVE  w[1] < c
  <2>1. PICK i \in 1 .. n - 1 : c = t[i]
    BY <1>4 DEF SeqRange
  <2> QED
    BY <1>1, <1>4, <1>5, <2>1 DEF IsAscending
<1> QED
  BY <1>3, <1>4, <1>6, <1>7, <1>8

LEMMA EndCommitFact == ASSUME Inv, EndCommit PROVE Inv'
<1>1. /\ at = "entries" /\ eps = <<>> /\ at' = "walk" /\ todo' = Tail(todo)
      /\ tx' = EmptyDb /\ eps' = <<>> /\ seen' = {} /\ repo' = repo /\ failures' = failures
  BY DEF EndCommit, NoCommit
<1>2. /\ DbOK(tx) /\ MemOK(memory, tx) /\ todo # <<>>
      /\ tx.log = InsertCommit(db, Head(todo)).log
      /\ \A f \in Names : db.row[f].status # "none" => tx.row[f].status # "none"
      /\ Active(tx) \subseteq Active(db) \cup seen
      /\ Here \in 1 .. Len(tx.log) /\ NowOK(Here)
  BY <1>1, HereFact DEF Inv, TransactionOK
<1>3. PICK h \in 1 .. Len(tx.log) : h = Here
  BY <1>2
<1>4. PICK t : t = tx
  OBVIOUS
<1>5. PICK gone : gone = Gone
  OBVIOUS
<1>6. PICK c : c = Head(todo)
  OBVIOUS
<1>7. gone = Active(db) \ seen /\ gone \in SUBSET Names
  BY <1>5 DEF Gone, Active
<1>8. /\ DbOK(db') /\ MemOK(memory', db') /\ db'.log = t.log /\ db'.snap = t.snap
      /\ Active(db') = Active(t) \ gone
  <2>1. PICK died : died = {f \in gone : Latest(t, f) # None}
    OBVIOUS
  <2>2. PICK keys : keys = {<<db.row[f].type, db.row[f].sig>> : f \in gone}
    OBVIOUS
  <2>3. PICK m : m = memory
    OBVIOUS
  <2>4. db' = [t EXCEPT
              !.events = @ \cup {<<f, h, "DIED">> : f \in died},
              !.row = [f \in Names |-> IF f \in gone
                         THEN [@[f] EXCEPT !.status = "removed"] ELSE @[f]]]
    BY <1>3, <1>4, <1>5, <2>1 DEF EndCommit
  <2>5. memory' = [m EXCEPT !.index = {x \in @ : x[1] \notin keys}]
    BY <1>5, <2>2, <2>3 DEF EndCommit
  <2>6. PICK d2 : d2 = db'
    OBVIOUS
  <2>7. PICK m2 : m2 = memory'
    OBVIOUS
  <2>8. DbOK(t) /\ MemOK(m, t) /\ h \in 1 .. Len(t.log)
    BY <1>2, <1>4, <2>3
  <2>9. \A f \in gone : t.row[f].status # "none"
    BY <1>2, <1>4, <1>7 DEF Active
  <2>10. Leaves(t, m, h, gone, died, keys, d2, m2)
    BY <1>7, <2>1, <2>4, <2>5, <2>6, <2>7, <2>8, <2>9 DEF Leaves
  <2> QED
    BY <2>6, <2>7, <2>10, GoneFact
<1>9. /\ tx.log[h] = c /\ \A f \in seen : t.snap[f][h] # None
      /\ \A i \in 1 .. Len(t.log) : i # h => Whole(repo.contents, t, i)
      /\ IF repo.contents[c] = <<>> THEN \A f \in Names : t.snap[f][h] = None ELSE seen # {}
  BY <1>1, <1>2, <1>3, <1>4, <1>6 DEF NowOK
<1>10. Typed'
  <2>1. todo' \in Seq(Commits)
    BY <1>1, <1>2, HeadTailProperties DEF Inv, Typed
  <2>2. eps' \in Seq(Entries)
    BY <1>1
  <2> QED
    BY <1>1, <2>1, <2>2 DEF Inv, Typed
<1>11. DatabaseOK'
  <2>1. OneCommit(db')
    <3>1. Active(db') \subseteq seen
      BY <1>2, <1>4, <1>7, <1>8
    <3>2. \A f \in Active(db') : db'.snap[f][h] # None
      BY <1>8, <1>9, <3>1
    <3>3. h \in 1 .. Len(db'.log)
      BY <1>4, <1>8
    <3> QED
      BY <3>2, <3>3 DEF OneCommit
  <2>2. ASSUME NEW i \in 1 .. Len(db'.log)
        PROVE  Whole(repo.contents, db', i)
    <3>1. i \in 1 .. Len(t.log)
      BY <1>8
    <3>2. CASE i = h
      <4>1. db'.log[i] = c
        BY <1>4, <1>8, <1>9, <3>2
      <4>2. seen # {} => \E f \in Names : t.snap[f][h] # None
        BY <1>9 DEF Inv, Typed
      <4>3. repo.contents[c] # <<>> <=> \E f \in Names : t.snap[f][h] # None
        BY <1>9, <4>2
      <4> QED
        BY <1>8, <3>2, <4>1, <4>3 DEF Whole
    <3>3. CASE i # h
      <4>1. Whole(repo.contents, t, i)
        BY <1>9, <3>1, <3>3
      <4> QED
        BY <1>8, <4>1 DEF Whole
    <3> QED
      BY <3>2, <3>3
  <2> QED
    BY <1>1, <1>8, <2>1, <2>2 DEF DatabaseOK
<1>12. MatcherOK' /\ TransactionOK'
  BY <1>1, <1>8, EmptyFact DEF MatcherOK, TransactionOK
<1>13. /\ c \in Commits /\ IsAscending(todo') /\ SeqRange(todo) = {c} \cup SeqRange(todo')
       /\ \A x \in SeqRange(todo') : c < x
  BY <1>1, <1>2, <1>6, TailFact DEF Inv, Typed, OrderOK
<1>14. PICK d2 : d2 = InsertCommit(db, c)
  OBVIOUS
<1>15. /\ db'.log = d2.log /\ DbOK(d2)
       /\ c \in Recorded => d2.log = db.log
       /\ c \notin Recorded => Len(d2.log) = Len(db.log) + 1 /\ d2.log[Len(db.log) + 1] = c
       /\ SeqRange(d2.log) = Recorded \cup {c}
  <2>1. DbOK(db)
    BY DEF Inv, DatabaseOK
  <2>2. /\ DbOK(d2)
        /\ c \in SeqRange(db.log) => d2.log = db.log
        /\ c \notin SeqRange(db.log) =>
             Len(d2.log) = Len(db.log) + 1 /\ d2.log[Len(db.log) + 1] = c
        /\ SeqRange(d2.log) = SeqRange(db.log) \cup {c}
    BY <1>13, <1>14, <2>1, InsertFact
  <2>3. db'.log = d2.log
    BY <1>2, <1>4, <1>6, <1>8, <1>14
  <2> QED
    BY <2>2, <2>3 DEF Recorded
<1>16. Parents' = Parents /\ (LeavesOut' <=> LeavesOut) /\ Recorded' = Recorded \cup {c}
  <2>1. Recorded' = SeqRange(db'.log)
    BY DEF Recorded
  <2> QED
    BY <1>1, <1>15, <2>1 DEF Parents, LeavesOut
<1>17. Parents[c] \subseteq 1 .. c - 1 /\ \A x \in Commits : Parents[x] \subseteq 1 .. x - 1
  BY <1>13, ParentsFact DEF Inv, Typed, Steps
<1>18. OrderOK'
  <2>1. SUFFICES ASSUME ~ LeavesOut
                 PROVE  /\ \A x \in Recorded \cup {c} : Parents[x] \subseteq Recorded \cup {c}
                        /\ \A x \in SeqRange(todo') :
                             Parents[x] \subseteq Recorded \cup {c} \cup SeqRange(todo')
    BY <1>13, <1>16 DEF OrderOK
  <2>2. /\ \A x \in Recorded : Parents[x] \subseteq Recorded
        /\ \A x \in SeqRange(todo) : Parents[x] \subseteq Recorded \cup SeqRange(todo)
    BY <2>1 DEF Inv, OrderOK
  <2>3. ASSUME NEW p \in Parents[c]
        PROVE  p \in Recorded
    <3>1. p \in Recorded \/ p = c \/ p \in SeqRange(todo')
      BY <1>13, <2>2
    <3>2. p \in 1 .. c - 1 /\ c \in Nat
      BY <1>13, <1>17, CommitsFact
    <3>3. ~ (c < p) /\ p # c
      BY <3>2
    <3> QED
      BY <1>13, <3>1, <3>3
  <2>4. \A x \in SeqRange(todo') : Parents[x] \subseteq Recorded \cup {c} \cup SeqRange(todo')
    BY <1>13, <2>2
  <2> QED
    BY <2>2, <2>3, <2>4
<1>19. AheadOK'
  <2>1. CASE c \in Recorded
    <3>1. db'.log = db.log
      BY <1>15, <2>1
    <3>2. LatestCommit' = LatestCommit
      BY <3>1 DEF LatestCommit
    <3>3. SUFFICES ASSUME db.log # <<>>
                   PROVE  \E S \in SUBSET Commits : Behind(S)'
      BY <3>1 DEF AheadOK
    <3>4. PICK S \in SUBSET Commits : Behind(S)
      BY <1>1, <3>3 DEF Inv, AheadOK
    <3>5. Behind(S)'
      BY <1>13, <1>16, <3>2, <3>4 DEF Behind
    <3> QED
      BY <3>5
  <2>2. CASE c \notin Recorded
    <3>1. PICK n : n = Len(db.log)
      OBVIOUS
    <3>2. n \in Nat /\ Len(db'.log) = n + 1 /\ db'.log[n + 1] = c
      <4>1. DbOK(db)
        BY DEF Inv, DatabaseOK
      <4> QED
        BY <1>15, <2>2, <3>1, <4>1, DbFact
    <3>3. LatestCommit' = c
      <4>1. db'.log # <<>>
        BY <3>2
      <4> QED
        BY <3>2, <4>1 DEF LatestCommit
    <3>4. PICK S \in SUBSET Commits : S = 1 .. c
      BY <1>13, CommitsFact
    <3>5. c \in Nat \ {0} /\ \A x \in S : x \in Commits /\ x \in Nat
      BY <1>13, <3>4, CommitsFact
    <3>6. \A x \in S : 1 .. x - 1 \subseteq S
      BY <3>4, <3>5
    <3>7. \A x \in S : Parents[x] \subseteq S
      BY <1>17, <3>5, <3>6
    <3>8. c \in S /\ \A x \in SeqRange(todo') : x \notin S
      BY <1>13, <3>4, <3>5
    <3>9. Behind(S)'
      BY <1>16, <3>3, <3>7, <3>8 DEF Behind
    <3> QED
      BY <3>9 DEF AheadOK
  <2> QED
    BY <2>1, <2>2
<1> QED
  BY <1>10, <1>11, <1>12, <1>18, <1>19 DEF Inv
-----------------------------------------------------------------------------
(* The theorems *)

LEMMA StutterFact == ASSUME Inv, UNCHANGED vars PROVE Inv'
<1>1. /\ repo' = repo /\ db' = db /\ at' = at /\ todo' = todo /\ memory' = memory
      /\ saved' = saved /\ tx' = tx /\ eps' = eps /\ seen' = seen /\ failures' = failures
  BY DEF vars, commit
<1>2. Typed' /\ DatabaseOK' /\ MatcherOK'
  BY <1>1 DEF Inv, Typed, DatabaseOK, MatcherOK
<1>3. TransactionOK'
  BY <1>1 DEF Inv, TransactionOK, NowOK
<1>4. OrderOK' /\ AheadOK'
  BY <1>1 DEF Inv, OrderOK, AheadOK, Behind, Recorded, LatestCommit, Parents, LeavesOut
<1> QED
  BY <1>2, <1>3, <1>4 DEF Inv

LEMMA InvStays == Inv /\ [Next]_vars => Inv'
<1> SUFFICES ASSUME Inv, [Next]_vars
             PROVE  Inv'
  OBVIOUS
<1>1. failures \in 0 .. MaxFailures
  BY DEF Inv, Typed
<1>2. CASE Open
  BY <1>2, OpenFact
<1>3. CASE Close
  BY <1>1, <1>3, ForgetFact DEF Close
<1>4. CASE Crash
  <2>1. failures' \in 0 .. MaxFailures
    BY <1>1, <1>4, FailuresAssumption DEF Crash, Fails
  <2> QED
    BY <1>4, <2>1, ForgetFact DEF Crash
<1>5. CASE Backfill
  <2>1. StartWalk(LatestCommit)
    BY <1>5 DEF Backfill, LatestCommit, StartWalk
  <2> QED
    BY <2>1, StartWalkFact
<1>6. CASE Update
  <2>1. StartWalk(LatestCommit)
    BY <1>6 DEF Update, ResumeAt
  <2> QED
    BY <2>1, StartWalkFact
<1>7. CASE Walk
  BY <1>7, EndWalkFact, BeginCommitFact, EntryPointFact, EndCommitFact DEF Walk
<1>8. CASE SyncFails
  BY <1>8, SyncFailsFact
<1>9. CASE CommitFails
  BY <1>9, CommitFailsFact
<1>10. CASE \E c \in Commits : MoveHead(c)
  BY <1>10, MoveHeadFact
<1>11. CASE UNCHANGED vars
  BY <1>11, StutterFact
<1> QED
  BY <1>2, <1>3, <1>4, <1>5, <1>6, <1>7, <1>8, <1>9, <1>10, <1>11 DEF Next

(* In every reachable state the open transaction continues the database,   *)
(* the matcher agrees with it, and what is left of the walk is in order.   *)
THEOREM Invariance == Spec => []Inv
<1>1. Init => Inv
  BY InitOK
<1>2. Inv /\ [Next]_vars => Inv'
  BY InvStays
<1> QED
  BY <1>1, <1>2, PTL DEF Spec

LEMMA MemoryFollows == Inv => MemoryAgrees
<1> SUFFICES ASSUME Inv
             PROVE  MemoryAgrees
  OBVIOUS
<1>1. TypeOK
  <2>1. ASSUME NEW d \in {db, tx}
        PROVE  /\ d.log \in Seq(Commits)
               /\ d.row \in [Names -> Rows]
               /\ d.snap \in [Names -> [Ids -> Entries \cup {None}]]
               /\ \A e \in d.events : e \in Names \X (1 .. Len(d.log)) \X EventTypes
    <3>1. DbOK(d)
      BY DEF Inv, DatabaseOK, TransactionOK
    <3>2. /\ d.log \in Seq(Commits) /\ d.row \in [Names -> Rows]
          /\ d.snap \in [Names -> [Ids -> Entries \cup {None}]]
          /\ d.events \in SUBSET (Names \X Nat \X EventTypes)
          /\ \A e \in d.events : e[2] \in 1 .. Len(d.log)
      BY <3>1 DEF DbOK
    <3> QED
      BY <3>2
  <2>2. repo.head \in Commits
    BY DEF Inv, Typed, Repos
  <2> QED
    BY <2>1, <2>2 DEF TypeOK, Inv, Typed
<1>2. Settled => MemOK(memory, db)
  BY DEF Inv, MatcherOK, Settled
<1>3. MemoryIsRecorded /\ ActiveIsRemembered
  BY <1>2 DEF MemoryIsRecorded, ActiveIsRemembered, MemOK
<1> QED
  BY <1>1, <1>3 DEF MemoryAgrees

LEMMA HistoryFollows == Inv => HistoryIsWhole
<1> SUFFICES ASSUME Inv
             PROVE  HistoryIsWhole
  OBVIOUS
<1>1. ActiveAreOfOneCommit
  BY DEF Inv, DatabaseOK, OneCommit, ActiveAreOfOneCommit
<1>2. LivesAreRecorded
  <2>1. DbOK(db)
    BY DEF Inv, DatabaseOK
  <2> QED
    BY <2>1 DEF DbOK, LivesAreRecorded
<1>3. CommitsAreWhole
  BY DEF Inv, DatabaseOK, Whole, CommitsAreWhole
<1>4. NoGaps
  <2>1. SUFFICES ASSUME ~ LeavesOut, NEW c \in Recorded
                 PROVE  Ancestors[c] \subseteq Recorded
    BY DEF NoGaps, LeavesOut
  <2>2. Reaches(Parents, Ancestors)
    BY AncestorsFact DEF Inv, Typed
  <2>3. \A x \in Recorded : Parents[x] \subseteq Recorded
    BY <2>1 DEF Inv, OrderOK
  <2>4. c \in Commits
    <3>1. db.log \in Seq(Commits)
      BY DEF Inv, DatabaseOK, DbOK
    <3> QED
      BY <3>1, ElementOfSeq DEF Recorded, SeqRange
  <2> QED
    BY <2>2, <2>3, <2>4 DEF Reaches
<1> QED
  BY <1>1, <1>2, <1>3, <1>4 DEF HistoryIsWhole

(* Between two commits the matcher in memory and the database agree: what  *)
(* the matcher knows is recorded and every active feature is known to it,  *)
(* whatever failed or died before (MemoryAgrees).                          *)
THEOREM MemoryAgreesHolds == Spec => []MemoryAgrees
<1>1. Inv => MemoryAgrees
  BY MemoryFollows
<1> QED
  BY <1>1, Invariance, PTL

(* What is recorded is the whole history up to some commits, with whole    *)
(* commits and whole lives of features (HistoryIsWhole).                   *)
THEOREM HistoryIsWholeHolds == Spec => []HistoryIsWhole
<1>1. Inv => HistoryIsWhole
  BY HistoryFollows
<1> QED
  BY <1>1, Invariance, PTL

(* A walk never begins a commit that the commit recorded last is made from *)
(* (NeverBehind).                                                          *)
THEOREM NeverBehindHolds == Spec => NeverBehind
<1> DEFINE Step == at = "walk" /\ at' = "entries" /\ db.log # <<>> =>
                     Head(todo) \notin Ancestors[LatestCommit]
<1>1. Inv /\ [Next]_vars => [Step]_vars
  <2>1. SUFFICES ASSUME Inv, Next, at = "walk", at' = "entries", db.log # <<>>
                 PROVE  Head(todo) \notin Ancestors[LatestCommit]
    OBVIOUS
  <2>2. todo # <<>>
    BY <2>1 DEF Next, Open, Close, Crash, Forget, Backfill, Update, StartWalk, Walk, EndWalk,
                BeginCommit, EntryPoint, EndCommit, SyncFails, CommitFails, MoveHead
  <2>3. PICK S \in SUBSET Commits : Behind(S)
    BY <2>1 DEF Inv, AheadOK
  <2>4. Ancestors[LatestCommit] \subseteq S
    <3>1. PICK c : c = LatestCommit
      OBVIOUS
    <3>2. c \in Commits /\ c \in S /\ \A d \in S : Parents[d] \subseteq S
      BY <2>1, <2>3, <3>1, LatestCommitFact DEF Behind
    <3>3. Reaches(Parents, Ancestors)
      BY <2>1, AncestorsFact DEF Inv, Typed
    <3>4. Ancestors[c] \subseteq S
      BY <3>2, <3>3 DEF Reaches
    <3> QED
      BY <3>1, <3>4
  <2>5. Head(todo) \in SeqRange(todo)
    BY <2>1, <2>2, TailFact DEF Inv, Typed, OrderOK
  <2> QED
    BY <2>3, <2>4, <2>5 DEF Behind
<1> QED
  BY <1>1, Invariance, PTL DEF Spec, NeverBehind
=============================================================================
