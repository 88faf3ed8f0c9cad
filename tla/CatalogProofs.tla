---------------------------- MODULE CatalogProofs ----------------------------
(***************************************************************************)
(* Theorems about the parts that MCCatalog puts side by side; each has an  *)
(* inductive invariant of its own, that holds of the others trivially.     *)
(*                                                                         *)
(* StorageReservations: sums over finite sets do not depend on the order,  *)
(* and no sum of reservations goes beyond what was free (StorageInv).      *)
(* SchemaUpgrade: every table has been copied in full or is still there    *)
(* (TablesInv), and openers agree about what is left to do (ContractInv).  *)
(* CapturePublish: what an attempt has seen is of one state of the tree,   *)
(* or it will notice (AttemptInv); what is published was whole (ResultInv).*)
(* GraphViews: a member keeps to its scope, views and their references     *)
(* change together (CatalogInv).                                           *)
(* TermReviews: what was decided and what it rests on stay (ReviewsInv).   *)
(***************************************************************************)
EXTENDS MCCatalog, Sequences, FiniteSetTheorems, TLAPS

-----------------------------------------------------------------------------
(* Sums over finite sets.  MinimalSet stands for induction: there is no    *)
(* smallest set for which a statement about sums fails.                    *)

LEMMA MinimalSet ==
  ASSUME NEW A, IsFiniteSet(A), NEW F \in SUBSET SUBSET A, F # {}
  PROVE  \E u \in F : \A w \in F : w \subseteq u => w = u
<1>1. IsWellFoundedOn(StrictSubsetOrdering(A), FiniteSubsetsOf(A))
  BY FS_StrictSubsetOrderingWellFounded
<1>2. F \subseteq FiniteSubsetsOf(A)
  <2> SUFFICES ASSUME NEW u \in F
               PROVE  u \in FiniteSubsetsOf(A)
    OBVIOUS
  <2>1. u \subseteq A /\ IsFiniteSet(u)
    BY FS_Subset
  <2> QED
    BY <2>1 DEF FiniteSubsetsOf
<1>3. PICK u \in F : \A w \in F : ~ (<<w, u>> \in StrictSubsetOrdering(A))
  BY <1>1, <1>2, WFMin
<1>4. \A w \in F : w \subseteq A
  OBVIOUS
<1> QED
  BY <1>3, <1>4 DEF StrictSubsetOrdering

Pick(u) == CHOOSE c \in u : TRUE
Integral(f, A) == \A c \in A : f[c] \in Int

(* g is a table of the sums of f over the sets D. *)
Table(f, D, g) ==
    /\ g \in [D -> Int]
    /\ \A u \in D : /\ u # {} => u \ {Pick(u)} \in D
                    /\ g[u] = IF u = {} THEN 0 ELSE f[Pick(u)] + g[u \ {Pick(u)}]

LEMMA PickFact ==
  ASSUME NEW u, u # {}
  PROVE  Pick(u) \in u
BY DEF Pick

LEMMA TablesAgree ==
  ASSUME NEW A, IsFiniteSet(A), NEW f,
         NEW D \in SUBSET SUBSET A, NEW E \in SUBSET SUBSET A, NEW g, NEW h,
         Table(f, D, g), Table(f, E, h), NEW u \in D \cap E
  PROVE  g[u] = h[u]
<1> DEFINE F == {w \in D \cap E : g[w] # h[w]}
<1> SUFFICES ASSUME F # {}
             PROVE  FALSE
  OBVIOUS
<1>1. PICK w \in F : \A v \in F : v \subseteq w => v = w
  <2>1. F \in SUBSET SUBSET A
    OBVIOUS
  <2> HIDE DEF F
  <2> QED
    BY <2>1, MinimalSet
<1>2. w # {}
  BY DEF Table
<1>3. Pick(w) \in w
  BY <1>2, PickFact
<1>4. w \ {Pick(w)} \in D \cap E
  BY <1>2 DEF Table
<1>5. w \ {Pick(w)} \notin F
  BY <1>1, <1>3
<1>6. g[w \ {Pick(w)}] = h[w \ {Pick(w)}]
  BY <1>4, <1>5
<1> QED
  BY <1>2, <1>6 DEF Table

LEMMA TablesExist ==
  ASSUME NEW A, IsFiniteSet(A), NEW f, Integral(f, A), NEW u \in SUBSET A
  PROVE  \E D \in SUBSET SUBSET A : u \in D /\ \E g : Table(f, D, g)
<1> DEFINE Has(w) == \E D \in SUBSET SUBSET A : w \in D /\ \E g : Table(f, D, g)
           F == {w \in SUBSET A : ~ Has(w)}
<1> SUFFICES ASSUME F # {}
             PROVE  FALSE
  OBVIOUS
<1>1. PICK w \in F : \A v \in F : v \subseteq w => v = w
  <2>1. F \in SUBSET SUBSET A
    OBVIOUS
  <2> HIDE DEF F
  <2> QED
    BY <2>1, MinimalSet
<1>2. CASE w = {}
  <2> DEFINE g == [v \in {{}} |-> 0]
  <2>1. Table(f, {{}}, g)
    BY DEF Table
  <2> QED
    BY <1>2, <2>1
<1>3. CASE w # {}
  <2> DEFINE v == w \ {Pick(w)}
  <2>1. Pick(w) \in w /\ v \in SUBSET A /\ f[Pick(w)] \in Int
    BY <1>3, PickFact DEF Integral
  <2>2. v \notin F
    BY <1>1, <2>1
  <2>3. PICK D \in SUBSET SUBSET A : v \in D /\ \E g : Table(f, D, g)
    BY <2>1, <2>2
  <2>4. PICK g : Table(f, D, g)
    BY <2>3
  <2> DEFINE E == D \cup {w}
             h == [t \in E |-> IF t \in D THEN g[t] ELSE f[Pick(w)] + g[v]]
  <2>5. E \in SUBSET SUBSET A /\ w \in E
    OBVIOUS
  <2>6. g[v] \in Int /\ \A t \in D : g[t] \in Int
    BY <2>3, <2>4 DEF Table
  <2>7. h \in [E -> Int]
    BY <2>1, <2>6
  <2>8. ASSUME NEW t \in E
        PROVE  /\ t # {} => t \ {Pick(t)} \in D
               /\ h[t] = IF t = {} THEN 0 ELSE f[Pick(t)] + h[t \ {Pick(t)}]
    <3>1. CASE t \in D
      <4>1. /\ t # {} => t \ {Pick(t)} \in D
            /\ g[t] = IF t = {} THEN 0 ELSE f[Pick(t)] + g[t \ {Pick(t)}]
        BY <2>4, <3>1 DEF Table
      <4> QED
        BY <3>1, <4>1
    <3>2. CASE t \notin D
      BY <1>3, <2>3, <3>2
    <3> QED
      BY <3>1, <3>2
  <2>9. Table(f, E, h)
    <3>1. \A t \in E : /\ t # {} => t \ {Pick(t)} \in E
                       /\ h[t] = IF t = {} THEN 0 ELSE f[Pick(t)] + h[t \ {Pick(t)}]
      BY <2>8
    <3> HIDE DEF h, E
    <3> QED
      BY <2>7, <3>1 DEF Table
  <2> HIDE DEF h
  <2> QED
    BY <2>5, <2>9
<1> QED
  BY <1>2, <1>3

LEMMA WholeTable ==
  ASSUME NEW A, IsFiniteSet(A), NEW f, Integral(f, A)
  PROVE  \E g : Table(f, SUBSET A, g)
<1> DEFINE Gives(u, v) == \E D \in SUBSET SUBSET A : u \in D /\ \E g : Table(f, D, g) /\ v = g[u]
           h == [u \in SUBSET A |-> CHOOSE v : Gives(u, v)]
<1>1. ASSUME NEW u \in SUBSET A, NEW D \in SUBSET SUBSET A, NEW g, Table(f, D, g), u \in D
      PROVE  h[u] = g[u]
  <2>1. Gives(u, g[u])
    BY <1>1
  <2>2. Gives(u, h[u])
    BY <2>1
  <2>3. PICK E \in SUBSET SUBSET A : u \in E /\ \E k : Table(f, E, k) /\ h[u] = k[u]
    BY <2>2
  <2>4. PICK k : Table(f, E, k) /\ h[u] = k[u]
    BY <2>3
  <2>5. k[u] = g[u]
    BY <1>1, <2>3, <2>4, TablesAgree
  <2> QED
    BY <2>4, <2>5
<1>2. ASSUME NEW u \in SUBSET A
      PROVE  /\ h[u] \in Int
             /\ u # {} => u \ {Pick(u)} \in SUBSET A
             /\ h[u] = IF u = {} THEN 0 ELSE f[Pick(u)] + h[u \ {Pick(u)}]
  <2>1. PICK D \in SUBSET SUBSET A : u \in D /\ \E g : Table(f, D, g)
    BY TablesExist
  <2>2. PICK g : Table(f, D, g)
    BY <2>1
  <2>3. h[u] = g[u]
    BY <1>1, <2>1, <2>2
  <2>4. u # {} => u \ {Pick(u)} \in D /\ h[u \ {Pick(u)}] = g[u \ {Pick(u)}]
    <3>1. u # {} => u \ {Pick(u)} \in D
      BY <2>1, <2>2 DEF Table
    <3> QED
      BY <1>1, <2>2, <3>1
  <2> HIDE DEF h
  <2> QED
    BY <2>1, <2>2, <2>3, <2>4 DEF Table
<1>3. h \in [SUBSET A -> Int]
  BY <1>2
<1> HIDE DEF h
<1> QED
  BY <1>2, <1>3 DEF Table

LEMMA TotalIsTabled ==
  ASSUME NEW A, IsFiniteSet(A), NEW f, Integral(f, A)
  PROVE  \E g : Table(f, SUBSET A, g) /\ S!Total(f, A) = g[A]
<1> DEFINE Sums(g) == [u \in SUBSET A |-> IF u = {} THEN 0
                                          ELSE f[CHOOSE c \in u : TRUE] + g[u \ {CHOOSE c \in u : TRUE}]]
<1>1. PICK h : Table(f, SUBSET A, h)
  BY WholeTable
<1>2. h = Sums(h)
  BY <1>1 DEF Table, Pick
<1>3. PICK g : g = CHOOSE k : k = Sums(k)
  OBVIOUS
<1>4. g = Sums(g)
  <2> HIDE DEF Sums
  <2> QED
    BY <1>2, <1>3
<1>5. S!Total(f, A) = g[A]
  BY <1>3 DEF S!Total, S!MapThenSumSet, S!MapThenFoldSet
<1>6. ASSUME NEW u \in SUBSET A
      PROVE  g[u] = IF u = {} THEN 0 ELSE f[Pick(u)] + g[u \ {Pick(u)}]
  BY <1>4 DEF Pick
<1>7. g \in [SUBSET A -> Int]
  <2>1. \A u \in SUBSET A : g[u] = h[u]
    <3> DEFINE F == {u \in SUBSET A : g[u] # h[u]}
    <3> SUFFICES ASSUME F # {}
                 PROVE  FALSE
      OBVIOUS
    <3>1. PICK u \in F : \A w \in F : w \subseteq u => w = u
      <4>1. F \in SUBSET SUBSET A
        OBVIOUS
      <4> HIDE DEF F
      <4> QED
        BY <4>1, MinimalSet
    <3>2. u \in SUBSET A /\ u # {}
      BY <1>1, <1>6 DEF Table
    <3>3. Pick(u) \in u
      BY <3>2, PickFact
    <3>4. g[u \ {Pick(u)}] = h[u \ {Pick(u)}]
      BY <3>1, <3>2, <3>3
    <3> QED
      BY <1>1, <1>6, <3>1, <3>2, <3>4 DEF Table
  <2>2. DOMAIN g = SUBSET A /\ g = [u \in SUBSET A |-> g[u]]
    BY <1>4
  <2>3. \A u \in SUBSET A : g[u] \in Int
    BY <1>1, <2>1 DEF Table
  <2> QED
    BY <2>2, <2>3
<1>8. Table(f, SUBSET A, g)
  BY <1>6, <1>7 DEF Table
<1> QED
  BY <1>5, <1>8

LEMMA TotalSteps ==
  ASSUME NEW A, IsFiniteSet(A), NEW f, Integral(f, A)
  PROVE  /\ S!Total(f, A) \in Int
         /\ A = {} => S!Total(f, A) = 0
         /\ A # {} => \E c \in A : S!Total(f, A) = f[c] + S!Total(f, A \ {c})
<1>1. PICK g : Table(f, SUBSET A, g) /\ S!Total(f, A) = g[A]
  BY TotalIsTabled
<1>2. A \in SUBSET A
  OBVIOUS
<1>3. S!Total(f, A) \in Int /\ (A = {} => S!Total(f, A) = 0)
  BY <1>1, <1>2 DEF Table
<1>4. ASSUME A # {}
      PROVE  \E c \in A : S!Total(f, A) = f[c] + S!Total(f, A \ {c})
  <2>1. Pick(A) \in A
    BY <1>4, PickFact
  <2>2. PICK w : w = A \ {Pick(A)}
    OBVIOUS
  <2>3. IsFiniteSet(w) /\ Integral(f, w) /\ SUBSET w \in SUBSET SUBSET A /\ w \in SUBSET w
    BY <2>2, FS_Subset DEF Integral
  <2>4. PICK h : Table(f, SUBSET w, h) /\ S!Total(f, w) = h[w]
    BY <2>3, TotalIsTabled
  <2>5. g[w] = h[w]
    <3>1. PICK D, E : D = SUBSET A /\ E = SUBSET w
      OBVIOUS
    <3>2. D \in SUBSET SUBSET A /\ E \in SUBSET SUBSET A /\ w \in D \cap E
      BY <2>2, <2>3, <3>1
    <3>3. Table(f, D, g) /\ Table(f, E, h)
      BY <1>1, <2>4, <3>1
    <3> QED
      BY <3>2, <3>3, TablesAgree
  <2>6. g[A] = f[Pick(A)] + g[w]
    BY <1>1, <1>2, <1>4, <2>2 DEF Table
  <2> QED
    BY <1>1, <2>1, <2>2, <2>4, <2>5, <2>6
<1> QED
  BY <1>3, <1>4

LEMMA TotalWithout ==
  ASSUME NEW A, IsFiniteSet(A), NEW f, Integral(f, A), NEW c \in A
  PROVE  S!Total(f, A) = f[c] + S!Total(f, A \ {c})
<1> DEFINE Fails(u) == \E d \in u : S!Total(f, u) # f[d] + S!Total(f, u \ {d})
           F == {u \in SUBSET A : Fails(u)}
<1>1. ASSUME NEW u \in SUBSET A
      PROVE  IsFiniteSet(u) /\ Integral(f, u) /\ S!Total(f, u) \in Int
  <2>1. IsFiniteSet(u) /\ Integral(f, u)
    BY FS_Subset DEF Integral
  <2> QED
    BY <2>1, TotalSteps
<1>2. ASSUME F # {}
      PROVE  FALSE
  <2>1. PICK u \in F : \A w \in F : w \subseteq u => w = u
    <3>1. F \in SUBSET SUBSET A
      OBVIOUS
    <3> HIDE DEF F
    <3> QED
      BY <1>2, <3>1, MinimalSet
  <2>2. u \in SUBSET A /\ Fails(u)
    BY <2>1
  <2>3. PICK d \in u : S!Total(f, u) # f[d] + S!Total(f, u \ {d})
    BY <2>2
  <2>4. PICK e \in u : S!Total(f, u) = f[e] + S!Total(f, u \ {e})
    BY <1>1, <2>2, <2>3, TotalSteps
  <2>5. d # e
    BY <2>3, <2>4
  <2>6. PICK v, w : v = u \ {d} /\ w = u \ {e}
    OBVIOUS
  <2>7. v \in SUBSET A /\ w \in SUBSET A /\ ~ Fails(v) /\ ~ Fails(w)
    <3>1. v \in SUBSET A /\ w \in SUBSET A /\ v \subseteq u /\ w \subseteq u /\ v # u /\ w # u
      BY <2>2, <2>3, <2>4, <2>6
    <3>2. v \notin F /\ w \notin F
      BY <2>1, <3>1
    <3> QED
      BY <3>1, <3>2
  <2>8. S!Total(f, v) = f[e] + S!Total(f, v \ {e}) /\ S!Total(f, w) = f[d] + S!Total(f, w \ {d})
    BY <2>3, <2>4, <2>5, <2>6, <2>7
  <2>9. v \ {e} = w \ {d}
    BY <2>6
  <2>10. f[d] \in Int /\ f[e] \in Int /\ S!Total(f, v \ {e}) \in Int
    BY <1>1, <2>2, <2>3, <2>4, <2>7 DEF Integral
  <2>11. PICK x1, y1, z1 : /\ x1 = S!Total(f, v) /\ y1 = S!Total(f, w)
                           /\ z1 = S!Total(f, v \ {e})
    OBVIOUS
  <2>12. x1 = f[e] + z1 /\ y1 = f[d] + z1 /\ z1 \in Int
    BY <2>8, <2>9, <2>10, <2>11
  <2>13. S!Total(f, u) # f[d] + x1 /\ S!Total(f, u) = f[e] + y1
    BY <2>3, <2>4, <2>6, <2>11
  <2> QED
    BY <2>10, <2>12, <2>13
<1>3. A \notin F
  BY <1>2
<1> QED
  BY <1>3

(* The total over a set and one more. *)
LEMMA TotalWith ==
  ASSUME NEW A, IsFiniteSet(A), NEW f, NEW c, c \notin A, Integral(f, A \cup {c})
  PROVE  S!Total(f, A \cup {c}) = f[c] + S!Total(f, A)
<1>1. PICK B : B = A \cup {c}
  OBVIOUS
<1>2. IsFiniteSet(B) /\ c \in B /\ B \ {c} = A
  BY <1>1, FS_AddElement
<1> QED
  BY <1>1, <1>2, TotalWithout

LEMMA TotalSame ==
  ASSUME NEW A, IsFiniteSet(A), NEW f, NEW g, Integral(f, A), \A c \in A : f[c] = g[c]
  PROVE  S!Total(f, A) = S!Total(g, A)
<1> DEFINE F == {u \in SUBSET A : S!Total(f, u) # S!Total(g, u)}
<1>1. ASSUME F # {}
      PROVE  FALSE
  <2>1. PICK u \in F : \A w \in F : w \subseteq u => w = u
    <3>1. F \in SUBSET SUBSET A
      OBVIOUS
    <3> HIDE DEF F
    <3> QED
      BY <1>1, <3>1, MinimalSet
  <2>2. u \in SUBSET A /\ S!Total(f, u) # S!Total(g, u)
    BY <2>1
  <2>3. IsFiniteSet(u) /\ Integral(f, u) /\ Integral(g, u)
    BY <2>2, FS_Subset DEF Integral
  <2>4. u # {}
    BY <2>2, <2>3, TotalSteps
  <2>5. PICK c : c \in u
    BY <2>4
  <2>6. S!Total(f, u \ {c}) = S!Total(g, u \ {c})
    <3>1. u \ {c} \in SUBSET A /\ u \ {c} \subseteq u /\ u \ {c} # u
      BY <2>2, <2>5
    <3>2. u \ {c} \notin F
      BY <2>1, <3>1
    <3> QED
      BY <3>1, <3>2
  <2>7. f[c] = g[c]
    BY <2>2, <2>5
  <2> QED
    BY <2>2, <2>3, <2>5, <2>6, <2>7, TotalWithout
<1>2. A \notin F
  BY <1>1
<1> QED
  BY <1>2

LEMMA TotalPart ==
  ASSUME NEW A, IsFiniteSet(A), NEW f, \A c \in A : f[c] \in Nat, NEW B \in SUBSET A
  PROVE  /\ S!Total(f, A) \in Nat
         /\ S!Total(f, B) \in Nat
         /\ S!Total(f, B) <= S!Total(f, A)
<1> DEFINE Fails(u) == ~ (S!Total(f, u) \in Nat /\ (B \subseteq u => S!Total(f, B) <= S!Total(f, u)))
           F == {u \in SUBSET A : Fails(u)}
<1>1. ASSUME F # {}
      PROVE  FALSE
  <2>1. PICK u \in F : \A w \in F : w \subseteq u => w = u
    <3>1. F \in SUBSET SUBSET A
      OBVIOUS
    <3> HIDE DEF F
    <3> QED
      BY <1>1, <3>1, MinimalSet
  <2>2. u \in SUBSET A /\ Fails(u)
    BY <2>1
  <2>3. IsFiniteSet(u) /\ Integral(f, u) /\ S!Total(f, u) \in Int /\ (u = {} => S!Total(f, u) = 0)
    <3>1. IsFiniteSet(u) /\ Integral(f, u)
      BY <2>2, FS_Subset DEF Integral
    <3> QED
      BY <3>1, TotalSteps
  <2>4. ASSUME NEW c \in u
        PROVE  /\ S!Total(f, u \ {c}) \in Nat /\ S!Total(f, u) \in Nat
               /\ S!Total(f, u \ {c}) <= S!Total(f, u)
               /\ B \subseteq u \ {c} => S!Total(f, B) <= S!Total(f, u)
    <3>1. PICK w : w = u \ {c}
      OBVIOUS
    <3>2. w \in SUBSET A /\ w \subseteq u /\ w # u
      BY <2>2, <3>1
    <3>3. w \notin F
      BY <2>1, <3>2
    <3>4. S!Total(f, w) \in Nat /\ (B \subseteq w => S!Total(f, B) <= S!Total(f, w))
      BY <3>2, <3>3
    <3>5. S!Total(f, u) = f[c] + S!Total(f, w) /\ f[c] \in Nat
      BY <2>2, <2>3, <3>1, TotalWithout
    <3>6. S!Total(f, u) \in Nat /\ S!Total(f, w) <= S!Total(f, u)
      BY <3>4, <3>5
    <3>7. ASSUME B \subseteq w
          PROVE  S!Total(f, B) <= S!Total(f, u)
      <4>1. S!Total(f, B) <= S!Total(f, w)
        BY <3>4, <3>7
      <4>2. S!Total(f, B) \in Int
        <5>1. IsFiniteSet(B) /\ Integral(f, B)
          BY FS_Subset DEF Integral
        <5> QED
          BY <5>1, TotalSteps
      <4> QED
        BY <3>4, <3>6, <4>1, <4>2
    <3> QED
      BY <3>1, <3>4, <3>6, <3>7
  <2>5. S!Total(f, u) \in Nat
    <3>1. CASE u = {}
      BY <2>3, <3>1
    <3>2. CASE u # {}
      <4>1. PICK c : c \in u
        BY <3>2
      <4> QED
        BY <2>4, <4>1
    <3> QED
      BY <3>1, <3>2
  <2>6. B \subseteq u /\ ~ (S!Total(f, B) <= S!Total(f, u))
    BY <2>2, <2>5
  <2>7. PICK c \in u : c \notin B
    BY <2>5, <2>6
  <2> QED
    BY <2>4, <2>6, <2>7
<1>2. ASSUME NEW u \in SUBSET A
      PROVE  ~ Fails(u)
  BY <1>1
<1>3. A \in SUBSET A /\ B \subseteq A
  OBVIOUS
<1> HIDE DEF F
<1> QED
  BY <1>2, <1>3

LEMMA TotalZero ==
  ASSUME NEW A, IsFiniteSet(A), NEW f, \A c \in A : f[c] = 0
  PROVE  S!Total(f, A) = 0
<1> DEFINE F == {u \in SUBSET A : S!Total(f, u) # 0}
<1>1. ASSUME F # {}
      PROVE  FALSE
  <2>1. PICK u \in F : \A w \in F : w \subseteq u => w = u
    <3>1. F \in SUBSET SUBSET A
      OBVIOUS
    <3> HIDE DEF F
    <3> QED
      BY <1>1, <3>1, MinimalSet
  <2>2. u \in SUBSET A /\ IsFiniteSet(u) /\ Integral(f, u)
    BY <2>1, FS_Subset DEF Integral
  <2>3. u # {}
    BY <2>1, <2>2, TotalSteps
  <2>4. PICK c : c \in u
    BY <2>3
  <2>5. u \ {c} \in SUBSET A /\ u \ {c} \subseteq u /\ u \ {c} # u
    BY <2>2, <2>4
  <2>6. u \ {c} \notin F
    BY <2>1, <2>5
  <2>7. S!Total(f, u \ {c}) = 0
    BY <2>5, <2>6
  <2> QED
    BY <2>1, <2>2, <2>4, <2>7, TotalWithout
<1>2. A \notin F
  BY <1>1
<1> QED
  BY <1>2

-----------------------------------------------------------------------------
(* Reservations of storage.  What attempts that run need, and what others  *)
(* have left, is Used.  Without overlaps at most one attempt is being      *)
(* admitted, and what it has measured, less what it has seen reserved, is  *)
(* at most what is not used.                                               *)

Running == S!Running
Others == Admissions \ Running
Used == S!Total(need, Running) + S!Total(written, Others)

StorageTypes ==
    /\ at \in [Admissions -> {"new", "measured", "summed", "refused", "running", "ended"}]
    /\ need \in [Admissions -> Nat] /\ written \in [Admissions -> Nat]
    /\ free \in [Admissions -> Int] /\ sum \in [Admissions -> Int]
    /\ row \in [Admissions -> [bytes : Nat, expires : Nat]]
    /\ now \in Nat /\ raced \in BOOLEAN

AttemptOK(c) ==
    /\ c \notin Running => row[c] = S!NoRow
    /\ at[c] \notin {"running", "ended"} => written[c] = 0
    /\ at[c] = "running" => written[c] <= need[c] /\ row[c].bytes = need[c]
    /\ ~ raced =>
         /\ c \in Running => S!Live(c)
         /\ at[c] = "measured" => free[c] <= Capacity - S!Total(written, Others)
         /\ at[c] = "summed" => free[c] - sum[c] <= Capacity - Used

StorageInv ==
    /\ StorageTypes
    /\ \A c \in Admissions : AttemptOK(c)
    /\ ~ raced => /\ Used <= Capacity
                  /\ \A c, d \in S!Admitting : c = d
    /\ focus # "storage" => \A c \in Admissions : at[c] = "new"

LEMMA AdmissionsFinite ==
  /\ IsFiniteSet(Admissions)
  /\ \A A \in SUBSET Admissions : IsFiniteSet(A)
BY AdmissionsAssumption, FS_Subset

LEMMA RunningFact ==
  /\ Running \in SUBSET Admissions /\ Others \in SUBSET Admissions
  /\ \A c \in Admissions : c \in Running <=> at[c] = "running"
BY DEF Running, S!Running, Others

LEMMA UsedFact ==
  ASSUME StorageTypes
  PROVE  /\ S!Total(need, Running) \in Nat /\ S!Total(written, Others) \in Nat
         /\ S!Total(written, Admissions) \in Nat
         /\ S!Total(written, Others) <= S!Total(written, Admissions)
         /\ Used \in Nat
<1>1. \A c \in Admissions : need[c] \in Nat /\ written[c] \in Nat
  BY DEF StorageTypes
<1>2. IsFiniteSet(Admissions) /\ Running \in SUBSET Admissions /\ Others \in SUBSET Admissions
  BY AdmissionsFinite, RunningFact
<1>3. S!Total(need, Running) \in Nat
  BY <1>1, <1>2, TotalPart
<1>4. /\ S!Total(written, Others) \in Nat /\ S!Total(written, Admissions) \in Nat
      /\ S!Total(written, Others) <= S!Total(written, Admissions)
  BY <1>1, <1>2, TotalPart
<1> QED
  BY <1>3, <1>4 DEF Used

(* One attempt begins or ends to run. *)
LEMMA UsedMoves ==
  ASSUME StorageTypes, NEW c \in Admissions, c \notin Running,
         NEW R, R = Running \cup {c}
  PROVE  /\ S!Total(need, R) = need[c] + S!Total(need, Running)
         /\ S!Total(written, Others) = written[c] + S!Total(written, Admissions \ R)
<1>1. \A d \in Admissions : need[d] \in Int /\ written[d] \in Int
  BY DEF StorageTypes
<1>2. Running \in SUBSET Admissions /\ Others \in SUBSET Admissions
  BY RunningFact
<1>3. IsFiniteSet(Running) /\ Integral(need, Running \cup {c})
  BY <1>1, <1>2, AdmissionsFinite DEF Integral
<1>4. S!Total(need, Running \cup {c}) = need[c] + S!Total(need, Running)
  BY <1>3, TotalWith
<1>5. IsFiniteSet(Others) /\ Integral(written, Others) /\ c \in Others
  BY <1>1, <1>2, AdmissionsFinite DEF Integral, Others
<1>6. Others \ {c} = Admissions \ R
  BY DEF Others
<1> QED
  BY <1>4, <1>5, <1>6, TotalWithout

LEMMA StorageInit ==
  ASSUME Init
  PROVE  StorageInv
<1>1. /\ row = [c \in Admissions |-> S!NoRow] /\ at = [c \in Admissions |-> "new"]
      /\ need = [c \in Admissions |-> 0] /\ free = need /\ sum = need /\ written = need
      /\ now = 0 /\ raced = FALSE
  BY DEF Init, S!Init
<1>2. StorageTypes
  <2>1. at \in [Admissions -> {"new", "measured", "summed", "refused", "running", "ended"}]
    BY <1>1
  <2>2. row \in [Admissions -> [bytes : Nat, expires : Nat]]
    BY <1>1 DEF S!NoRow
  <2>3. need \in [Admissions -> Nat] /\ need \in [Admissions -> Int]
    BY <1>1
  <2> QED
    BY <1>1, <2>1, <2>2, <2>3 DEF StorageTypes
<1>3. Running = {} /\ Others = Admissions
  BY <1>1, RunningFact DEF Others
<1>4. Used = 0
  <2>1. S!Total(need, {}) = 0
    BY FS_EmptySet, TotalZero
  <2>2. S!Total(written, Admissions) = 0
    BY <1>1, AdmissionsFinite, TotalZero
  <2> QED
    BY <1>3, <2>1, <2>2 DEF Used
<1>5. \A c \in Admissions : AttemptOK(c)
  BY <1>1, <1>3 DEF AttemptOK
<1>6. S!Admitting = {}
  BY <1>1 DEF S!Admitting
<1> QED
  BY <1>1, <1>2, <1>4, <1>5, <1>6, SpaceAssumption DEF StorageInv

LEMMA BeginStorage ==
  ASSUME StorageInv, focus = "storage", focus' = focus,
         NEW c \in Admissions, NEW bytes \in 1 .. MaxNeed, S!Begin(c, bytes)
  PROVE  StorageInv'
<1>1. /\ at[c] = "new" /\ bytes \in Nat
      /\ at' = [at EXCEPT ![c] = "measured"] /\ need' = [need EXCEPT ![c] = bytes]
      /\ free' = [free EXCEPT ![c] = Capacity - S!Total(written, Admissions)]
      /\ raced' = (raced \/ S!Admitting # {})
      /\ row' = row /\ sum' = sum /\ written' = written /\ now' = now
  BY SpaceAssumption DEF S!Begin
<1>2. StorageTypes /\ \A d \in Admissions : AttemptOK(d)
  BY DEF StorageInv
<1>3. S!Total(written, Admissions) \in Nat /\ S!Total(written, Others) <= S!Total(written, Admissions)
      /\ S!Total(written, Others) \in Nat
  BY <1>2, UsedFact
<1>4. StorageTypes'
  <2>1. free' \in [Admissions -> Int]
    BY <1>1, <1>2, <1>3, SpaceAssumption DEF StorageTypes
  <2>2. /\ at' \in [Admissions -> {"new", "measured", "summed", "refused", "running", "ended"}]
        /\ need' \in [Admissions -> Nat]
    BY <1>1, <1>2 DEF StorageTypes
  <2>3. raced' \in BOOLEAN
    BY <1>1
  <2> QED
    BY <1>1, <1>2, <2>1, <2>2, <2>3 DEF StorageTypes
<1>5. Running' = Running /\ Others' = Others /\ c \notin Running
  BY <1>1, <1>2 DEF Running, S!Running, Others, StorageTypes
<1>6. Used' = Used
  <2>1. \A d \in Running : need'[d] = need[d] /\ need[d] \in Int
    BY <1>1, <1>2, <1>5, RunningFact DEF StorageTypes
  <2>2. IsFiniteSet(Running)
    BY AdmissionsFinite, RunningFact
  <2>3. S!Total(need, Running) = S!Total(need', Running)
    BY <2>1, <2>2, TotalSame DEF Integral
  <2> QED
    BY <1>1, <1>5, <2>3 DEF Used
<1>7. ~ raced' => ~ raced /\ S!Admitting = {}
  BY <1>1
<1>8. ~ raced' => S!Admitting' \subseteq {c}
  BY <1>1, <1>2, <1>7 DEF S!Admitting, StorageTypes
<1>9. ASSUME NEW d \in Admissions
      PROVE  AttemptOK(d)'
  <2>1. CASE d # c
    <3>1. at'[d] = at[d] /\ need'[d] = need[d] /\ free'[d] = free[d]
      BY <1>1, <1>2, <2>1 DEF StorageTypes
    <3> QED
      BY <1>1, <1>2, <1>5, <1>6, <1>7, <3>1 DEF AttemptOK, S!Live, S!NoRow
  <2>2. CASE d = c
    <3>1. at'[c] = "measured" /\ free'[c] = Capacity - S!Total(written, Admissions)
      BY <1>1, <1>2 DEF StorageTypes
    <3>2. row[c] = S!NoRow /\ written[c] = 0
      BY <1>1, <1>2, <1>5 DEF AttemptOK
    <3>3. free'[c] <= Capacity - S!Total(written', Others')
      BY <1>1, <1>3, <1>5, <3>1, SpaceAssumption
    <3> QED
      BY <1>1, <1>5, <2>2, <3>1, <3>2, <3>3 DEF AttemptOK, S!NoRow
  <2> QED
    BY <2>1, <2>2
<1> QED
  BY <1>4, <1>6, <1>7, <1>8, <1>9 DEF StorageInv

LEMMA ReadSumStorage ==
  ASSUME StorageInv, focus = "storage", focus' = focus, NEW c \in Admissions, S!ReadSum(c)
  PROVE  StorageInv'
<1>1. /\ at[c] = "measured"
      /\ at' = [at EXCEPT ![c] = "summed"]
      /\ sum' = [sum EXCEPT ![c] = S!Total(S!Bytes, S!Counted(c))]
      /\ row' = row /\ need' = need /\ free' = free /\ written' = written /\ now' = now
      /\ raced' = raced
  BY DEF S!ReadSum
<1>2. StorageTypes /\ \A d \in Admissions : AttemptOK(d)
  BY DEF StorageInv
<1>3. \A d \in Admissions : S!Bytes[d] = row[d].bytes /\ row[d].bytes \in Nat
  BY <1>2 DEF S!Bytes, StorageTypes
<1>4. S!Counted(c) \in SUBSET Admissions
  BY DEF S!Counted
<1>5. S!Total(S!Bytes, S!Counted(c)) \in Nat
  <2>1. IsFiniteSet(S!Counted(c)) /\ \A d \in S!Counted(c) : S!Bytes[d] \in Nat
    BY <1>3, <1>4, AdmissionsFinite
  <2>2. S!Counted(c) \in SUBSET S!Counted(c)
    OBVIOUS
  <2> QED
    BY <2>1, <2>2, TotalPart
<1>6. StorageTypes'
  <2>1. sum' \in [Admissions -> Int]
    BY <1>1, <1>2, <1>5 DEF StorageTypes
  <2>2. at' \in [Admissions -> {"new", "measured", "summed", "refused", "running", "ended"}]
    BY <1>1, <1>2 DEF StorageTypes
  <2> QED
    BY <1>1, <1>2, <2>1, <2>2 DEF StorageTypes
<1>7. Running' = Running /\ Others' = Others /\ c \notin Running
  BY <1>1, <1>2 DEF Running, S!Running, Others, StorageTypes
<1>8. Used' = Used /\ S!Admitting' = S!Admitting
  <2>1. Used' = Used
    BY <1>1, <1>7 DEF Used
  <2>2. S!Admitting' = S!Admitting
    BY <1>1, <1>2 DEF S!Admitting, StorageTypes
  <2> QED
    BY <2>1, <2>2
<1>9. ASSUME ~ raced
      PROVE  free[c] - S!Total(S!Bytes, S!Counted(c)) <= Capacity - Used
  <2>1. \A d \in Admissions : S!Live(d) <=> d \in Running
    <3> SUFFICES ASSUME NEW d \in Admissions, d \notin Running
                 PROVE  ~ S!Live(d)
      BY <1>2, <1>9 DEF AttemptOK
    <3>1. row[d].expires = 0 /\ now \in Nat
      BY <1>2 DEF AttemptOK, S!NoRow, StorageTypes
    <3> QED
      BY <3>1 DEF S!Live
  <2>2. S!Counted(c) = Running
    BY <1>7, <2>1, RunningFact DEF S!Counted
  <2>3. \A d \in Running : S!Bytes[d] = need[d] /\ need[d] \in Int
    BY <1>2, <1>3, RunningFact DEF AttemptOK, StorageTypes
  <2>4. IsFiniteSet(Running)
    BY AdmissionsFinite, RunningFact
  <2>5. S!Total(S!Bytes, Running) = S!Total(need, Running)
    BY <2>3, <2>4, TotalSame DEF Integral
  <2>6. free[c] <= Capacity - S!Total(written, Others) /\ free[c] \in Int
    BY <1>1, <1>2, <1>9 DEF AttemptOK, StorageTypes
  <2> QED
    BY <1>2, <2>2, <2>5, <2>6, SpaceAssumption, UsedFact DEF Used
<1>10. ASSUME NEW d \in Admissions
       PROVE  AttemptOK(d)'
  <2>1. CASE d # c
    <3>1. at'[d] = at[d] /\ sum'[d] = sum[d]
      BY <1>1, <1>2, <2>1 DEF StorageTypes
    <3> QED
      BY <1>1, <1>2, <1>7, <1>8, <3>1 DEF AttemptOK, S!Live, S!NoRow
  <2>2. CASE d = c
    <3>1. at'[c] = "summed" /\ sum'[c] = S!Total(S!Bytes, S!Counted(c))
      BY <1>1, <1>2 DEF StorageTypes
    <3>2. row[c] = S!NoRow /\ written[c] = 0
      BY <1>1, <1>2, <1>7 DEF AttemptOK
    <3>3. ~ raced' => free'[c] - sum'[c] <= Capacity - Used'
      BY <1>1, <1>8, <1>9, <3>1
    <3> QED
      BY <1>1, <1>7, <2>2, <3>1, <3>2, <3>3 DEF AttemptOK, S!NoRow
  <2> QED
    BY <2>1, <2>2
<1> QED
  BY <1>1, <1>6, <1>8, <1>10 DEF StorageInv

LEMMA ReserveStorage ==
  ASSUME StorageInv, focus = "storage", focus' = focus, NEW c \in Admissions, S!Reserve(c)
  PROVE  StorageInv'
<1>1. /\ at[c] = "summed"
      /\ need' = need /\ free' = free /\ sum' = sum /\ written' = written /\ now' = now
      /\ raced' = raced
  BY DEF S!Reserve
<1>2. StorageTypes /\ \A d \in Admissions : AttemptOK(d)
  BY DEF StorageInv
<1>3. row[c] = S!NoRow /\ written[c] = 0 /\ need[c] \in Nat /\ c \notin Running
  BY <1>1, <1>2, RunningFact DEF AttemptOK, StorageTypes
<1>4. CASE /\ need[c] > S!Rest(c)
           /\ at' = [at EXCEPT ![c] = "refused"] /\ row' = row
  <2>1. StorageTypes'
    <3>1. at' \in [Admissions -> {"new", "measured", "summed", "refused", "running", "ended"}]
      BY <1>2, <1>4 DEF StorageTypes
    <3> QED
      BY <1>1, <1>2, <1>4, <3>1 DEF StorageTypes
  <2>2. Running' = Running /\ Others' = Others
    BY <1>1, <1>2, <1>4 DEF Running, S!Running, Others, StorageTypes
  <2>3. Used' = Used
    BY <1>1, <2>2 DEF Used
  <2>4. S!Admitting' \subseteq S!Admitting
    BY <1>2, <1>4 DEF S!Admitting, StorageTypes
  <2>5. ASSUME NEW d \in Admissions
        PROVE  AttemptOK(d)'
    <3>1. CASE d # c
      <4>1. at'[d] = at[d]
        BY <1>2, <1>4, <3>1 DEF StorageTypes
      <4> QED
        BY <1>1, <1>2, <1>4, <2>2, <2>3, <4>1 DEF AttemptOK, S!Live, S!NoRow
    <3>2. CASE d = c
      <4>1. at'[c] = "refused"
        BY <1>2, <1>4 DEF StorageTypes
      <4> QED
        BY <1>1, <1>3, <1>4, <2>2, <3>2, <4>1 DEF AttemptOK, S!NoRow
    <3> QED
      BY <3>1, <3>2
  <2> QED
    BY <1>1, <2>1, <2>3, <2>4, <2>5 DEF StorageInv
<1>5. CASE /\ ~ (need[c] > S!Rest(c))
           /\ at' = [at EXCEPT ![c] = "running"]
           /\ row' = [row EXCEPT ![c] = [bytes |-> need[c], expires |-> now + KeptFor]]
  <2>1. StorageTypes' /\ row'[c] = [bytes |-> need[c], expires |-> now + KeptFor]
    <3>1. at' \in [Admissions -> {"new", "measured", "summed", "refused", "running", "ended"}]
      BY <1>2, <1>5 DEF StorageTypes
    <3>2. now + KeptFor \in Nat
      BY <1>2, TimesAssumption DEF StorageTypes
    <3>3. [bytes |-> need[c], expires |-> now + KeptFor] \in [bytes : Nat, expires : Nat]
      BY <1>3, <3>2
    <3>4. row' \in [Admissions -> [bytes : Nat, expires : Nat]]
          /\ row'[c] = [bytes |-> need[c], expires |-> now + KeptFor]
      BY <1>2, <1>5, <3>3 DEF StorageTypes
    <3> QED
      BY <1>1, <1>2, <3>1, <3>4 DEF StorageTypes
  <2>2. Running' = Running \cup {c} /\ Others' = Admissions \ Running'
    BY <1>2, <1>5 DEF Running, S!Running, Others, StorageTypes
  <2>3. Used' = Used + need[c]
    <3>1. PICK R : R = Running \cup {c}
      OBVIOUS
    <3>2. /\ S!Total(need, R) = need[c] + S!Total(need, Running)
          /\ S!Total(written, Others) = written[c] + S!Total(written, Admissions \ R)
      BY <1>2, <1>3, <3>1, UsedMoves
    <3>3. Used' = S!Total(need, R) + S!Total(written, Admissions \ R)
      BY <1>1, <2>2, <3>1 DEF Used
    <3>4. /\ S!Total(need, Running) \in Nat /\ S!Total(written, Others) \in Nat
          /\ Used = S!Total(need, Running) + S!Total(written, Others)
      BY <1>2, UsedFact DEF Used
    <3>5. S!Total(written, Admissions \ R) \in Int
      <4>1. Admissions \ R \in SUBSET Admissions
        OBVIOUS
      <4>2. \A d \in Admissions : written[d] \in Nat
        BY <1>2 DEF StorageTypes
      <4> QED
        BY <4>1, <4>2, AdmissionsFinite, TotalPart
    <3> QED
      BY <1>3, <3>2, <3>3, <3>4, <3>5
  <2>4. S!Admitting' = S!Admitting \ {c}
    BY <1>2, <1>5 DEF S!Admitting, StorageTypes
  <2>5. ASSUME ~ raced
        PROVE  Used' <= Capacity
    <3>1. free[c] - sum[c] <= Capacity - Used /\ Used <= Capacity
          /\ free[c] \in Int /\ sum[c] \in Int /\ Used \in Nat /\ Capacity \in Int
      BY <1>1, <1>2, <2>5, UsedFact, SpaceAssumption DEF AttemptOK, StorageTypes, StorageInv
    <3>2. need[c] <= IF free[c] > sum[c] THEN free[c] - sum[c] ELSE 0
      BY <1>3, <1>5, <3>1 DEF S!Rest
    <3> QED
      BY <1>3, <2>3, <3>1, <3>2
  <2>6. ASSUME NEW d \in Admissions
        PROVE  AttemptOK(d)'
    <3>1. CASE d # c
      <4>1. at'[d] = at[d] /\ row'[d] = row[d]
        BY <1>2, <1>5, <3>1 DEF StorageTypes
      <4>2. d \in Running' <=> d \in Running
        BY <2>2, <3>1
      <4>3. ~ raced => at[d] \notin {"measured", "summed"}
        <5>1. c \in S!Admitting
          BY <1>1 DEF S!Admitting
        <5> QED
          BY <3>1, <5>1 DEF StorageInv, S!Admitting
      <4>4. S!Live(d)' <=> S!Live(d)
        BY <1>1, <4>1 DEF S!Live
      <4> QED
        BY <1>1, <1>2, <4>1, <4>2, <4>3, <4>4 DEF AttemptOK, S!NoRow
    <3>2. CASE d = c
      <4>1. at'[c] = "running" /\ row'[c].bytes = need[c]
        BY <1>2, <1>5, <2>1 DEF StorageTypes
      <4>2. S!Live(c)'
        BY <1>1, <1>2, <2>1, TimesAssumption DEF S!Live, StorageTypes
      <4>3. c \in Running' /\ written'[c] <= need'[c]
        BY <1>1, <1>3, <2>2
      <4> QED
        BY <1>1, <3>2, <4>1, <4>2, <4>3 DEF AttemptOK
    <3> QED
      BY <3>1, <3>2
  <2> QED
    BY <1>1, <2>1, <2>4, <2>5, <2>6 DEF StorageInv
<1> QED
  BY <1>4, <1>5 DEF S!Reserve

LEMMA WriteStorage ==
  ASSUME StorageInv, focus = "storage", focus' = focus, NEW c \in Admissions, S!Write(c)
  PROVE  StorageInv'
<1>1. /\ at[c] = "running" /\ written[c] < need[c]
      /\ written' = [written EXCEPT ![c] = @ + 1]
      /\ row' = row /\ at' = at /\ need' = need /\ free' = free /\ sum' = sum /\ now' = now
      /\ raced' = raced
  BY DEF S!Write
<1>2. StorageTypes /\ \A d \in Admissions : AttemptOK(d)
  BY DEF StorageInv
<1>3. written[c] \in Nat /\ need[c] \in Nat /\ written'[c] = written[c] + 1
      /\ written' \in [Admissions -> Nat] /\ \A d \in Admissions \ {c} : written'[d] = written[d]
  BY <1>1, <1>2 DEF StorageTypes
<1>4. StorageTypes'
  BY <1>1, <1>2, <1>3 DEF StorageTypes
<1>5. Running' = Running /\ Others' = Others /\ c \notin Others /\ S!Admitting' = S!Admitting
  BY <1>1 DEF Running, S!Running, Others, S!Admitting
<1>6. S!Total(written', Others) = S!Total(written, Others)
  <2>1. IsFiniteSet(Others) /\ Integral(written, Others)
    BY <1>2, AdmissionsFinite, RunningFact DEF Integral, StorageTypes
  <2>2. \A d \in Others : written[d] = written'[d]
    BY <1>3, <1>5, RunningFact
  <2>3. S!Total(written, Others) = S!Total(written', Others)
    BY <2>1, <2>2, TotalSame
  <2> QED
    BY <2>3
<1>7. Used' = Used
  BY <1>1, <1>5, <1>6 DEF Used
<1>8. ASSUME NEW d \in Admissions
      PROVE  AttemptOK(d)'
  <2>1. S!Live(d)' <=> S!Live(d)
    BY <1>1 DEF S!Live
  <2>2. d # c => written'[d] = written[d]
    BY <1>3
  <2>3. written'[c] <= need[c]
    BY <1>1, <1>3
  <2>4. S!Total(written', Others') = S!Total(written, Others)
    BY <1>5, <1>6
  <2> QED
    BY <1>1, <1>2, <1>5, <1>7, <2>1, <2>2, <2>3, <2>4 DEF AttemptOK, S!NoRow
<1> QED
  BY <1>1, <1>4, <1>5, <1>7, <1>8 DEF StorageInv

LEMMA ReleaseStorage ==
  ASSUME StorageInv, focus = "storage", focus' = focus, NEW c \in Admissions, S!Release(c)
  PROVE  StorageInv'
<1>1. /\ at[c] = "running"
      /\ at' = [at EXCEPT ![c] = "ended"] /\ row' = [row EXCEPT ![c] = S!NoRow]
      /\ raced' = (raced \/ \E d \in Admissions : at[d] = "measured")
      /\ need' = need /\ free' = free /\ sum' = sum /\ written' = written /\ now' = now
  BY DEF S!Release
<1>2. StorageTypes /\ \A d \in Admissions : AttemptOK(d)
  BY DEF StorageInv
<1>3. StorageTypes' /\ row'[c] = S!NoRow /\ at'[c] = "ended"
  <2>1. at' \in [Admissions -> {"new", "measured", "summed", "refused", "running", "ended"}]
        /\ at'[c] = "ended"
    BY <1>1, <1>2 DEF StorageTypes
  <2>2. S!NoRow \in [bytes : Nat, expires : Nat]
    BY DEF S!NoRow
  <2>3. row' \in [Admissions -> [bytes : Nat, expires : Nat]] /\ row'[c] = S!NoRow
    BY <1>1, <1>2, <2>2 DEF StorageTypes
  <2>4. raced' \in BOOLEAN
    BY <1>1
  <2> QED
    BY <1>1, <1>2, <2>1, <2>3, <2>4 DEF StorageTypes
<1>4. Running' = Running \ {c} /\ Others' = Admissions \ Running' /\ c \notin Running'
  BY <1>1, <1>2 DEF Running, S!Running, Others, StorageTypes
<1>5. StorageTypes' /\ c \in Admissions /\ Running = Running' \cup {c}
  BY <1>1, <1>3, <1>4, RunningFact
<1>6. Used' <= Used /\ Used \in Nat /\ Used' \in Int
  <2>1. PICK R : R = Running \ {c}
    OBVIOUS
  <2>2. IsFiniteSet(R) /\ Integral(need, R \cup {c}) /\ R \cup {c} = Running /\ c \notin R
    <3>1. Running \in SUBSET Admissions /\ c \in Running
      BY <1>1, RunningFact
    <3> QED
      BY <1>2, <2>1, <3>1, AdmissionsFinite DEF Integral, StorageTypes
  <2>3. S!Total(need, Running) = need[c] + S!Total(need, R)
    BY <2>2, TotalWith
  <2>4. IsFiniteSet(Others) /\ Integral(written, Others \cup {c}) /\ c \notin Others
        /\ Admissions \ R = Others \cup {c}
    <3>1. Others \in SUBSET Admissions /\ c \in Running
      BY <1>1, RunningFact
    <3> QED
      BY <1>2, <2>1, <3>1, AdmissionsFinite DEF Integral, StorageTypes, Others
  <2>5. S!Total(written, Others \cup {c}) = written[c] + S!Total(written, Others)
    BY <2>4, TotalWith
  <2>6. Used' = S!Total(need, R) + S!Total(written, Others \cup {c})
    BY <1>1, <1>4, <2>1, <2>4 DEF Used
  <2>7. /\ S!Total(need, Running) \in Nat /\ S!Total(written, Others) \in Nat /\ Used \in Nat
        /\ Used = S!Total(need, Running) + S!Total(written, Others)
    BY <1>2, UsedFact DEF Used
  <2>8. written[c] <= need[c] /\ written[c] \in Nat /\ need[c] \in Nat
    BY <1>1, <1>2 DEF AttemptOK, StorageTypes
  <2>9. S!Total(need, R) \in Int
    BY <2>2, TotalSteps DEF Integral
  <2> QED
    BY <2>3, <2>5, <2>6, <2>7, <2>8, <2>9
<1>7. S!Admitting' = S!Admitting
  BY <1>1, <1>2 DEF S!Admitting, StorageTypes
<1>8. ASSUME NEW d \in Admissions
      PROVE  AttemptOK(d)'
  <2>1. CASE d # c
    <3>1. at'[d] = at[d] /\ row'[d] = row[d]
      BY <1>1, <1>2, <2>1 DEF StorageTypes
    <3>2. d \in Running' <=> d \in Running
      BY <1>4, <2>1
    <3>3. S!Live(d)' <=> S!Live(d)
      BY <1>1, <3>1 DEF S!Live
    <3>4. ~ raced' => ~ raced /\ at[d] # "measured"
      BY <1>1
    <3>5. ASSUME ~ raced', at[d] = "summed"
          PROVE  free[d] - sum[d] <= Capacity - Used'
      <4>1. free[d] - sum[d] <= Capacity - Used /\ free[d] \in Int /\ sum[d] \in Int
        BY <1>2, <3>4, <3>5 DEF AttemptOK, StorageTypes
      <4> QED
        BY <1>6, <4>1, SpaceAssumption
    <3> QED
      BY <1>1, <1>2, <3>1, <3>2, <3>3, <3>4, <3>5 DEF AttemptOK, S!NoRow
  <2>2. CASE d = c
    BY <1>1, <1>3, <1>4, <2>2 DEF AttemptOK, S!NoRow
  <2> QED
    BY <2>1, <2>2
<1>9. ASSUME ~ raced'
      PROVE  Used' <= Capacity
  <2>1. ~ raced
    BY <1>1, <1>9
  <2>2. Used <= Capacity
    BY <2>1 DEF StorageInv
  <2> QED
    BY <1>6, <2>2, SpaceAssumption
<1> QED
  BY <1>1, <1>3, <1>7, <1>8, <1>9 DEF StorageInv

LEMMA TickStorage ==
  ASSUME StorageInv, focus = "storage", focus' = focus, S!Tick
  PROVE  StorageInv'
<1>1. /\ now' = now + 1
      /\ raced' = (raced \/ \E c \in Running : row[c].expires <= now')
      /\ row' = row /\ at' = at /\ need' = need /\ free' = free /\ sum' = sum
      /\ written' = written
  BY DEF S!Tick, Running
<1>2. StorageTypes /\ \A d \in Admissions : AttemptOK(d)
  BY DEF StorageInv
<1>3. StorageTypes'
  <2>1. now' \in Nat /\ raced' \in BOOLEAN
    BY <1>1, <1>2 DEF StorageTypes
  <2> QED
    BY <1>1, <1>2, <2>1 DEF StorageTypes
<1>4. Running' = Running /\ Others' = Others /\ S!Admitting' = S!Admitting
  BY <1>1 DEF Running, S!Running, Others, S!Admitting
<1>5. Used' = Used
  BY <1>1, <1>4 DEF Used
<1>6. ASSUME NEW d \in Admissions
      PROVE  AttemptOK(d)'
  <2>1. ~ raced' => ~ raced /\ (d \in Running => S!Live(d)')
    <3>1. ASSUME ~ raced', d \in Running
          PROVE  S!Live(d)'
      <4>1. ~ (row[d].expires <= now') /\ now' \in Int /\ row[d].expires \in Int
        <5>1. ~ (row[d].expires <= now')
          BY <1>1, <3>1
        <5>2. row[d].expires \in Int
          BY <1>2 DEF StorageTypes
        <5>3. now' \in Int
          BY <1>3 DEF StorageTypes
        <5> QED
          BY <5>1, <5>2, <5>3
      <4> QED
        BY <1>1, <4>1 DEF S!Live
    <3> QED
      BY <1>1, <3>1
  <2> QED
    BY <1>1, <1>2, <1>4, <1>5, <2>1 DEF AttemptOK, S!NoRow
<1> QED
  BY <1>1, <1>3, <1>4, <1>5, <1>6 DEF StorageInv

(* The clock of the views may move while no storage is reserved. *)
LEMMA StorageStays ==
  ASSUME StorageInv, UNCHANGED storing, focus' = focus, focus = "storage" => now' = now,
         now' \in Nat
  PROVE  StorageInv'
<1>1. /\ row' = row /\ at' = at /\ need' = need /\ free' = free /\ sum' = sum
      /\ written' = written /\ raced' = raced
  BY DEF storing
<1>2. StorageTypes /\ \A d \in Admissions : AttemptOK(d)
  BY DEF StorageInv
<1>3. StorageTypes'
  BY <1>1, <1>2 DEF StorageTypes
<1>4. Running' = Running /\ Others' = Others /\ S!Admitting' = S!Admitting
  BY <1>1 DEF Running, S!Running, Others, S!Admitting
<1>5. Used' = Used
  BY <1>1, <1>4 DEF Used
<1>6. ASSUME NEW d \in Admissions
      PROVE  AttemptOK(d)'
  <2>1. d \in Running => (S!Live(d)' <=> S!Live(d))
    <3>1. d \in Running => focus = "storage"
      BY RunningFact DEF StorageInv
    <3> QED
      BY <1>1, <3>1 DEF S!Live
  <2> QED
    BY <1>1, <1>2, <1>4, <1>5, <2>1 DEF AttemptOK, S!NoRow
<1> QED
  BY <1>1, <1>3, <1>4, <1>5, <1>6 DEF StorageInv

LEMMA StorageStep ==
  ASSUME StorageInv, Next
  PROVE  StorageInv'
<1>1. focus' = focus
  BY DEF Next
<1>2. CASE focus = "storage" /\ S!Next
  <2>1. CASE \E c \in Admissions, bytes \in 1 .. MaxNeed : S!Begin(c, bytes)
    BY <1>1, <1>2, <2>1, BeginStorage
  <2>2. ASSUME NEW c \in Admissions, S!ReadSum(c) \/ S!Reserve(c) \/ S!Write(c) \/ S!Release(c)
        PROVE  StorageInv'
    BY <1>1, <1>2, <2>2, ReadSumStorage, ReserveStorage, WriteStorage, ReleaseStorage
  <2>3. CASE S!Tick
    BY <1>1, <1>2, <2>3, TickStorage
  <2> QED
    BY <1>2, <2>1, <2>2, <2>3 DEF S!Next
<1>3. CASE UNCHANGED storing /\ (focus = "storage" => now' = now) /\ now' \in Nat
  BY <1>1, <1>3, StorageStays
<1>4. now \in Nat
  BY DEF StorageInv, StorageTypes
<1>5. CASE focus = "administration" /\ G!Administration /\ UNCHANGED storing
  <2>1. now' = now
    BY <1>5 DEF G!Administration, G!CreateScope, G!RetireMember, G!Publish, G!AddMember,
                G!ReadMember, G!ListMembers, G!WriteMember, G!RetireListed, G!CheckScope,
                G!MarkScope
  <2> QED
    BY <1>3, <1>4, <1>5, <2>1
<1>6. CASE focus = "views" /\ Viewing /\ UNCHANGED storing
  <2>1. now' = now \/ now' = now + 1
    <3>1. CASE G!Viewing
      BY <3>1 DEF G!Viewing, G!ReadScope, G!ReadMembers, G!ReadExplicit, G!InsertView, G!CheckPin,
                  G!ReadView, G!TouchView, G!PinView, G!Refresh
    <3> QED
      BY <1>6, <3>1 DEF Viewing, G!Tick, G!RetireMember, G!Publish
  <2> QED
    BY <1>3, <1>4, <1>6, <2>1
<1>7. CASE focus \in {"capture", "upgrade", "reviewing"} /\ UNCHANGED <<now, storing>>
  BY <1>3, <1>4, <1>7
<1> QED
  BY <1>2, <1>5, <1>6, <1>7 DEF Next

(* Attempts that run fit on the disk together with what others have left   *)
(* there, unless admissions have overlapped, an attempt has ended between  *)
(* another's measuring and adding, or has outlived its reservation.        *)
THEOREM SoldOnceHolds == Spec => []SoldOnce
<1>1. Init => StorageInv
  BY StorageInit
<1>2. StorageInv /\ [Next]_<<cataloging, storing, now, capturing, upgrading, reviewing, focus>> => StorageInv'
  <2>1. ASSUME StorageInv, UNCHANGED <<cataloging, storing, now, capturing, upgrading, reviewing, focus>>
        PROVE  StorageInv'
    BY <2>1, StorageStays DEF StorageInv, StorageTypes
  <2> QED
    BY <2>1, StorageStep
<1>3. StorageInv => SoldOnce
  BY DEF StorageInv, Used, Running, Others, SoldOnce, S!SoldOnce, S!Fits
<1> QED
  BY <1>1, <1>2, <1>3, PTL DEF Spec

-----------------------------------------------------------------------------
(* The upgrade of the schema.  Two parts: what the tables of jobs hold,    *)
(* and what has been done for the contract of the views.                   *)

Shapes == {"first", "attempts", "all"}
Table0 == [shape : Shapes, rows : SUBSET Jobs]
Labels == {"closed", "look", "create", "widen", "rename", "make", "copy", "version", "script",
           "contract", "columns", "stamp", "open"}
Busy(o) == pc[o] \notin {"closed", "open"}

TablesTyped ==
    /\ jobs \in Table0 \cup {None} /\ legacy \in Table0 \cup {None}
    /\ fresh \in Table0 \cup {None}
    /\ known \subseteq Jobs /\ alone \in BOOLEAN /\ pc \in [Openers -> Labels]
    /\ version \in Nat

(* A table that requests can work with. *)
Usable == jobs # None /\ jobs.shape # "first"

(* Where an opening is that nobody disturbs. *)
PlaceOK(o) ==
    /\ pc[o] = "create" => jobs = None
    /\ pc[o] = "rename" => jobs # None
    /\ pc[o] \in {"make", "copy"} => jobs = None /\ legacy # None
    /\ pc[o] = "make" => fresh = None
    /\ pc[o] = "copy" => fresh # None /\ fresh.shape = "attempts"
    /\ pc[o] = "version" /\ version > 0 => Usable
    /\ pc[o] \in {"contract", "columns", "stamp", "open"} => Usable
    /\ pc[o] = "open" => \A s \in Openers : pc[s] \notin {"create", "rename", "make", "copy"}

Undisturbed ==
    /\ \A o, s \in Openers : Busy(o) /\ Busy(s) => o = s
    /\ legacy # None => \E o \in Openers : pc[o] \in {"make", "copy"}
    /\ fresh # None => \E o \in Openers : pc[o] = "copy"
    /\ \A o \in Openers : PlaceOK(o)

TablesInv == TablesTyped /\ U!NothingIsDestroyed /\ (alone => Undisturbed)

LEMMA NoneIsNoTable == None \notin Table0 /\ None \notin Scopes
BY UpgradeAssumption DEF Table0, Shapes

LEMMA TableFact ==
  ASSUME NEW shape \in Shapes, NEW rows \in SUBSET Jobs
  PROVE  /\ U!Table(shape, rows) \in Table0 /\ U!Table(shape, rows) # None
         /\ U!Table(shape, rows).shape = shape
         /\ U!Rows(U!Table(shape, rows)) = rows
BY NoneIsNoTable DEF U!Table, U!Rows, Table0

LEMMA RowsFact ==
  /\ U!Rows(None) = {}
  /\ \A t \in Table0 : t.shape \in Shapes /\ t.rows \in SUBSET Jobs /\ U!Rows(t) = t.rows
BY NoneIsNoTable DEF U!Rows, Table0

LEMMA TablesInit ==
  ASSUME U!Init
  PROVE  TablesInv
<1>1. jobs \in Table0 \cup {None}
  <2>1. \A shape \in Shapes, rows \in SUBSET Jobs : U!Table(shape, rows) \in Table0
    BY TableFact
  <2>2. jobs = None \/ \E shape \in Shapes, rows \in SUBSET Jobs : jobs = U!Table(shape, rows)
    BY DEF U!Init, Shapes
  <2> QED
    BY <2>1, <2>2
<1>2. /\ legacy = None /\ fresh = None /\ alone = TRUE /\ known = U!Rows(jobs)
      /\ pc = [o \in Openers |-> "closed"]
  BY DEF U!Init
<1>3. known \subseteq Jobs
  BY <1>1, <1>2, RowsFact
<1>4. TablesTyped
  <2>1. version \in Nat
    BY UpgradeAssumption DEF U!Init
  <2> QED
    BY <1>1, <1>2, <1>3, <2>1 DEF TablesTyped, Labels
<1>5. U!NothingIsDestroyed
  BY <1>2, RowsFact DEF U!NothingIsDestroyed
<1>6. Undisturbed
  BY <1>2 DEF Undisturbed, Busy, PlaceOK
<1> QED
  BY <1>4, <1>5, <1>6 DEF TablesInv

(* One opening goes on to label w. *)
Moves(o, w) ==
    /\ pc' \in [Openers -> Labels] /\ pc'[o] = w
    /\ \A s \in Openers : s # o => pc'[s] = pc[s]

LEMMA GoFact ==
  ASSUME TablesTyped, NEW o \in Openers, NEW w \in Labels, U!Go(o, w)
  PROVE  Moves(o, w)
BY DEF TablesTyped, U!Go, Moves

(* Steps that do not touch the tables of jobs. *)
LEMMA TablesMove ==
  ASSUME TablesInv, UNCHANGED <<jobs, legacy, fresh, known>>,
         NEW o \in Openers, NEW w \in Labels, Moves(o, w),
         alone' \in BOOLEAN, alone' => alone, version' \in Nat,
         alone' /\ Busy(o)' => \A s \in Openers : Busy(s) => s = o,
         alone => pc[o] \notin {"make", "copy"} /\ w \notin {"make", "copy"},
         alone /\ w = "create" => jobs = None /\ (\A s \in Openers : pc[s] # "open"),
         alone /\ w = "rename" => jobs # None /\ (\A s \in Openers : pc[s] # "open"),
         alone /\ w = "version" /\ version' > 0 => Usable,
         alone /\ w \in {"contract", "columns", "stamp", "open"} => Usable,
         version' # version => pc[o] = "stamp",
         w = "open" => pc[o] = "stamp"
  PROVE  TablesInv'
<1>1. TablesTyped'
  BY DEF TablesInv, TablesTyped, Moves
<1>2. U!NothingIsDestroyed'
  BY DEF TablesInv, U!NothingIsDestroyed, U!Rows
<1>3. ASSUME alone'
      PROVE  Undisturbed'
  <2>1. Undisturbed /\ alone
    BY <1>3 DEF TablesInv
  <2>2. \A s, t \in Openers : Busy(s)' /\ Busy(t)' => s = t
    BY <1>3, <2>1 DEF Undisturbed, Busy, Moves
  <2>3. legacy' # None => \E s \in Openers : pc'[s] \in {"make", "copy"}
    BY <2>1 DEF Undisturbed, Moves
  <2>4. fresh' # None => \E s \in Openers : pc'[s] = "copy"
    BY <2>1 DEF Undisturbed, Moves
  <2>5. ASSUME NEW s \in Openers
        PROVE  PlaceOK(s)'
    <3>1. PlaceOK(s) /\ PlaceOK(o) /\ (Usable' <=> Usable)
      BY <2>1 DEF Undisturbed, Usable
    <3>2. pc'[s] = "version" /\ version' > 0 => Usable'
      <4>1. CASE s = o
        BY <2>1, <3>1, <4>1 DEF Moves
      <4>2. CASE s # o /\ version' # version
        <5>1. Busy(o) /\ (pc'[s] = "version" => Busy(s))
          BY <4>2 DEF Moves, Busy
        <5> QED
          BY <2>1, <4>2, <5>1 DEF Undisturbed
      <4>3. CASE s # o /\ version' = version
        BY <3>1, <4>3 DEF Moves, PlaceOK
      <4> QED
        BY <4>1, <4>2, <4>3
    <3>3. pc'[s] = "open" => \A t \in Openers : pc'[t] \notin {"create", "rename", "make", "copy"}
      <4>1. CASE s = o /\ pc'[s] = "open"
        <5>1. Usable
          BY <2>1, <4>1 DEF Moves
        <5>2. \A t \in Openers : t # o => pc'[t] \notin {"create", "make", "copy"}
          BY <2>1, <5>1 DEF Moves, Undisturbed, PlaceOK, Usable
        <5>3. \A t \in Openers : t # o => pc'[t] # "rename"
          <6> SUFFICES ASSUME NEW t \in Openers, t # o, pc[t] = "rename"
                       PROVE  FALSE
            BY DEF Moves
          <6> QED
            BY <2>1, <4>1 DEF Undisturbed, Busy, Moves, PlaceOK
        <5> QED
          BY <4>1, <5>2, <5>3 DEF Moves
      <4>2. CASE s # o
        BY <2>1, <3>1, <4>2 DEF Moves, PlaceOK
      <4> QED
        BY <4>1, <4>2
    <3> QED
      BY <2>1, <3>1, <3>2, <3>3 DEF Moves, PlaceOK
  <2> QED
    BY <2>2, <2>3, <2>4, <2>5 DEF Undisturbed
<1> QED
  BY <1>1, <1>2, <1>3 DEF TablesInv

LEMMA CalmSteps ==
  ASSUME TablesInv, NEW o \in Openers,
         \/ U!Open(o) \/ U!Look(o) \/ U!ReadVersion(o) \/ U!Start(o) \/ U!AddColumn(o)
         \/ U!Backfill(o) \/ U!Stamp(o) \/ U!Crash(o) \/ U!Close(o)
  PROVE  TablesInv'
<1>1. TablesTyped /\ (alone => Undisturbed)
  BY DEF TablesInv
<1>2. /\ UNCHANGED <<jobs, legacy, fresh, known>> /\ version' \in Nat
      /\ version' # version => pc[o] = "stamp"
      /\ alone' \in BOOLEAN /\ (alone' => alone)
  <2>1. alone \in BOOLEAN /\ version \in Nat /\ Newest \in Nat
    BY <1>1, UpgradeAssumption DEF TablesTyped
  <2>2. CASE U!Stamp(o)
    BY <2>1, <2>2 DEF U!Stamp, U!tables
  <2>3. CASE U!Open(o) \/ U!Crash(o) \/ U!Close(o)
    <3>1. UNCHANGED <<jobs, legacy, fresh, known, version>>
      BY <2>3 DEF U!Open, U!Crash, U!Close, U!tables
    <3>2. alone' \in BOOLEAN /\ (alone' => alone)
      <4>1. CASE U!Open(o)
        <5>1. alone' = (alone /\ \A s \in Openers : pc[s] \in {"closed", "open"})
          BY <4>1 DEF U!Open
        <5> QED
          BY <5>1
      <4>2. CASE U!Crash(o)
        BY <4>2 DEF U!Crash
      <4>3. CASE U!Close(o)
        BY <2>1, <4>3 DEF U!Close
      <4> QED
        BY <2>3, <4>1, <4>2, <4>3
    <3> QED
      BY <2>1, <3>1, <3>2
  <2>4. CASE U!Look(o) \/ U!ReadVersion(o) \/ U!Start(o) \/ U!AddColumn(o) \/ U!Backfill(o)
    <3>1. UNCHANGED <<jobs, legacy, fresh, known, version, alone>>
      BY <2>4 DEF U!Look, U!ReadVersion, U!Start, U!AddColumn, U!Backfill, U!tables
    <3> QED
      BY <2>1, <3>1
  <2> QED
    BY <2>2, <2>3, <2>4
<1>3. CASE U!Open(o)
  <2>1. /\ pc[o] = "closed" /\ U!Go(o, "look") /\ version' = version
        /\ alone' => \A s \in Openers : pc[s] \in {"closed", "open"}
    BY <1>3 DEF U!Open
  <2>2. Moves(o, "look")
    BY <1>1, <2>1, GoFact DEF Labels
  <2>3. alone' => \A s \in Openers : Busy(s) => s = o
    BY <2>1 DEF Busy
  <2> QED
    BY <1>2, <2>1, <2>2, <2>3, TablesMove DEF Labels
<1>4. CASE U!Look(o)
  <2>1. pc[o] = "look" /\ version' = version
    BY <1>4 DEF U!Look
  <2>2. PICK w \in {"create", "rename", "widen", "version"} :
           /\ U!Go(o, w)
           /\ w = "create" => jobs = None
           /\ w = "rename" => jobs # None /\ jobs.shape = "first"
           /\ w = "version" /\ version > 0 => Usable
    <3>1. CASE ~ U!HasViews
      BY <1>4, <3>1 DEF U!Look, U!HasViews
    <3>2. CASE U!HasViews /\ jobs = None
      BY <1>4, <3>2 DEF U!Look
    <3>3. CASE U!HasViews /\ jobs # None /\ jobs.shape = "first"
      BY <1>4, <3>3 DEF U!Look
    <3>4. CASE U!HasViews /\ jobs # None /\ jobs.shape = "attempts"
      BY <1>4, <3>4 DEF U!Look
    <3>5. CASE U!HasViews /\ jobs # None /\ jobs.shape \notin {"first", "attempts"}
      BY <1>4, <3>5 DEF U!Look, Usable
    <3> QED
      BY <3>1, <3>2, <3>3, <3>4, <3>5
  <2>3. Moves(o, w)
    BY <1>1, <2>2, GoFact DEF Labels
  <2>4. alone => /\ \A s \in Openers : Busy(s) => s = o
                 /\ ~ Usable => \A s \in Openers : pc[s] # "open"
    BY <1>1, <2>1 DEF Undisturbed, Busy, PlaceOK
  <2>5. w \in {"create", "rename"} => ~ Usable
    BY <2>2 DEF Usable
  <2> QED
    BY <1>2, <2>1, <2>2, <2>3, <2>4, <2>5, TablesMove DEF Labels
<1>5. ASSUME pc[o] \in {"version", "contract", "columns", "stamp"},
             NEW w \in {"closed", "script", "contract", "columns", "stamp", "open", pc[o]},
             Moves(o, w), w = "open" => pc[o] = "stamp",
             w \in {"contract", "columns", "stamp"} /\ pc[o] = "version" => version > 0
      PROVE  TablesInv'
  <2>1. alone => \A s \in Openers : Busy(s) => s = o
    BY <1>1, <1>5 DEF Undisturbed, Busy
  <2>2. alone /\ w \in {"contract", "columns", "stamp", "open"} => Usable
    BY <1>1, <1>5 DEF Undisturbed, PlaceOK
  <2>3. version' = version \/ w # "version"
    BY <1>2, <1>5
  <2>4. alone /\ w = "version" /\ version' > 0 => Usable
    BY <1>1, <1>5, <2>3 DEF Undisturbed, PlaceOK
  <2> QED
    BY <1>2, <1>5, <2>1, <2>2, <2>4, TablesMove DEF Labels
<1>6. CASE U!ReadVersion(o)
  <2>1. /\ pc[o] = "version"
        /\ U!Go(o, "closed") \/ U!Go(o, "script") \/ (U!Go(o, "contract") /\ ~ (version <= 2))
    BY <1>6 DEF U!ReadVersion, U!Raise
  <2>2. ~ (version <= 2) => version > 0
    BY <1>1 DEF TablesTyped
  <2> QED
    BY <1>1, <1>5, <2>1, <2>2, GoFact DEF Labels
<1>7. CASE U!Start(o)
  BY <1>1, <1>5, <1>7, GoFact DEF Labels, U!Start
<1>8. CASE U!AddColumn(o)
  <2>1. pc[o] = "columns" /\ (pc' = pc \/ U!Go(o, "closed"))
    BY <1>8 DEF U!AddColumn, U!Raise
  <2>2. pc' = pc => Moves(o, pc[o])
    BY <1>1 DEF Moves, TablesTyped
  <2> QED
    BY <1>1, <1>5, <2>1, <2>2, GoFact DEF Labels
<1>9. CASE U!Backfill(o)
  BY <1>1, <1>5, <1>9, GoFact DEF Labels, U!Backfill
<1>10. CASE U!Stamp(o)
  BY <1>1, <1>5, <1>10, GoFact DEF Labels, U!Stamp
<1>11. CASE U!Crash(o)
  <2>1. U!Go(o, "closed") /\ ~ alone' /\ version' = version
    BY <1>11 DEF U!Crash, U!Raise
  <2>2. TablesTyped'
    BY <1>1, <1>2, <2>1, GoFact DEF Labels, TablesTyped, Moves
  <2>3. U!NothingIsDestroyed'
    BY <1>2 DEF TablesInv, U!NothingIsDestroyed, U!Rows
  <2> QED
    BY <2>1, <2>2, <2>3 DEF TablesInv
<1>12. CASE U!Close(o)
  <2>1. pc[o] = "open" /\ U!Go(o, "closed") /\ version' = version
    BY <1>12 DEF U!Close, U!Raise
  <2>2. Moves(o, "closed")
    BY <1>1, <2>1, GoFact DEF Labels
  <2> QED
    BY <1>2, <2>1, <2>2, TablesMove DEF Labels, Busy, Moves
<1> QED
  BY <1>3, <1>4, <1>6, <1>7, <1>8, <1>9, <1>10, <1>11, <1>12

(* A step of the only opening there is, that works on the tables. *)
LEMMA TablesWork ==
  ASSUME TablesInv, TablesTyped', U!NothingIsDestroyed', alone' = alone,
         NEW o \in Openers, Busy(o), NEW w \in Labels \ {"open"}, Moves(o, w),
         alone /\ legacy' # None => w \in {"make", "copy"},
         alone /\ fresh' # None => w = "copy",
         alone => PlaceOK(o)',
         alone /\ (\E s \in Openers : pc[s] = "open") =>
           Usable' /\ w \notin {"create", "rename", "make", "copy"}
  PROVE  TablesInv'
<1>1. ASSUME alone
      PROVE  Undisturbed'
  <2>1. Undisturbed
    BY <1>1 DEF TablesInv
  <2>2. \A s \in Openers : s # o => pc'[s] = pc[s] /\ pc[s] \in {"closed", "open"}
    BY <2>1 DEF Undisturbed, Busy, Moves
  <2>3. \A s, t \in Openers : Busy(s)' /\ Busy(t)' => s = t
    BY <2>2 DEF Busy
  <2>4. pc'[o] = w
    BY DEF Moves
  <2>5. ASSUME NEW s \in Openers, s # o
        PROVE  PlaceOK(s)'
    <3>1. CASE pc[s] = "closed"
      BY <2>2, <2>5, <3>1 DEF PlaceOK
    <3>2. CASE pc[s] = "open"
      <4>1. \A t \in Openers : pc'[t] \notin {"create", "rename", "make", "copy"}
        BY <1>1, <2>2, <2>4, <3>2
      <4> QED
        BY <1>1, <2>2, <2>5, <3>2, <4>1 DEF PlaceOK
    <3> QED
      BY <2>2, <2>5, <3>1, <3>2
  <2> QED
    BY <1>1, <2>3, <2>4, <2>5 DEF Undisturbed
<1> QED
  BY <1>1 DEF TablesInv

LEMMA TablesRaise ==
  ASSUME TablesInv, UNCHANGED <<jobs, legacy, fresh, known, alone, version>>,
         NEW o \in Openers, Busy(o), U!Raise(o), alone => pc[o] \notin {"make", "copy"}
  PROVE  TablesInv'
<1>1. TablesTyped
  BY DEF TablesInv
<1>2. Moves(o, "closed")
  BY <1>1, GoFact DEF Labels, U!Raise
<1>3. ~ Busy(o)'
  BY <1>2 DEF Busy, Moves
<1> QED
  BY <1>1, <1>2, <1>3, TablesMove DEF Labels, TablesTyped

LEMMA AloneFact ==
  ASSUME TablesInv, alone, NEW o \in Openers, Busy(o)
  PROVE  /\ PlaceOK(o)
         /\ legacy # None => pc[o] \in {"make", "copy"}
         /\ fresh # None => pc[o] = "copy"
         /\ (\E s \in Openers : pc[s] = "open") =>
              Usable /\ pc[o] \notin {"create", "rename", "make", "copy"}
<1>1. Undisturbed
  BY DEF TablesInv
<1>2. legacy # None => pc[o] \in {"make", "copy"}
  BY <1>1 DEF Undisturbed, Busy
<1>3. fresh # None => pc[o] = "copy"
  BY <1>1 DEF Undisturbed, Busy
<1>4. PlaceOK(o) /\ \A s \in Openers : PlaceOK(s)
  BY <1>1 DEF Undisturbed
<1> QED
  BY <1>2, <1>3, <1>4 DEF PlaceOK

LEMMA CreateStep ==
  ASSUME TablesInv, NEW o \in Openers, U!Create(o)
  PROVE  TablesInv'
<1>1. /\ pc[o] = "create" /\ Busy(o) /\ TablesTyped
      /\ UNCHANGED <<legacy, fresh, known, alone, version>>
  BY DEF U!Create, Busy, TablesInv
<1>2. CASE jobs = None /\ jobs' = U!Table("attempts", {}) /\ U!Go(o, "version")
  <2>1. /\ jobs' \in Table0 /\ jobs' # None /\ jobs'.shape = "attempts" /\ U!Rows(jobs') = {}
    BY <1>2, TableFact DEF Shapes
  <2>2. Moves(o, "version")
    BY <1>1, <1>2, GoFact DEF Labels
  <2>3. TablesTyped'
    BY <1>1, <2>1, <2>2 DEF TablesTyped, Moves
  <2>4. U!NothingIsDestroyed'
    BY <1>1, <1>2, <2>1, RowsFact DEF TablesInv, U!NothingIsDestroyed, U!Rows
  <2>5. PlaceOK(o)' /\ Usable'
    BY <2>1, <2>2 DEF PlaceOK, Moves, Usable
  <2>6. alone => /\ legacy' = None /\ fresh' = None
                 /\ ~ \E s \in Openers : pc[s] = "open"
    BY <1>1, AloneFact
  <2> QED
    BY <1>1, <2>2, <2>3, <2>4, <2>5, <2>6, TablesWork DEF Labels
<1>3. CASE jobs' = jobs /\ U!Raise(o)
  BY <1>1, <1>3, TablesRaise
<1> QED
  BY <1>2, <1>3 DEF U!Create

LEMMA WidenStep ==
  ASSUME TablesInv, NEW o \in Openers, U!Widen(o)
  PROVE  TablesInv'
<1>1. /\ pc[o] = "widen" /\ Busy(o) /\ TablesTyped
      /\ UNCHANGED <<legacy, fresh, known, alone, version>>
  BY DEF U!Widen, Busy, TablesInv
<1>2. CASE jobs # None /\ jobs' = U!Table("all", jobs.rows) /\ U!Go(o, "version")
  <2>0. jobs \in Table0
    BY <1>1, <1>2 DEF TablesTyped
  <2>1. /\ jobs' \in Table0 /\ jobs' # None /\ jobs'.shape = "all" /\ U!Rows(jobs') = U!Rows(jobs)
    BY <1>2, <2>0, TableFact, RowsFact DEF Shapes
  <2>2. Moves(o, "version")
    BY <1>1, <1>2, GoFact DEF Labels
  <2>3. TablesTyped'
    BY <1>1, <2>1, <2>2 DEF TablesTyped, Moves
  <2>4. U!NothingIsDestroyed'
    BY <1>1, <2>1 DEF TablesInv, U!NothingIsDestroyed, U!Rows
  <2>5. PlaceOK(o)' /\ Usable'
    BY <2>1, <2>2 DEF PlaceOK, Moves, Usable
  <2>6. alone => legacy' = None /\ fresh' = None
    BY <1>1, AloneFact
  <2> QED
    BY <1>1, <2>2, <2>3, <2>4, <2>5, <2>6, TablesWork DEF Labels
<1>3. CASE jobs' = jobs /\ U!Raise(o)
  BY <1>1, <1>3, TablesRaise
<1> QED
  BY <1>2, <1>3 DEF U!Widen

LEMMA RenameStep ==
  ASSUME TablesInv, NEW o \in Openers, U!Rename(o)
  PROVE  TablesInv'
<1>1. /\ pc[o] = "rename" /\ Busy(o) /\ TablesTyped
      /\ UNCHANGED <<fresh, known, alone, version>>
  BY DEF U!Rename, Busy, TablesInv
<1>2. CASE jobs # None /\ legacy = None /\ legacy' = jobs /\ jobs' = None /\ U!Go(o, "make")
  <2>1. Moves(o, "make")
    BY <1>1, <1>2, GoFact DEF Labels
  <2>2. TablesTyped'
    BY <1>1, <1>2, <2>1 DEF TablesTyped, Moves
  <2>3. U!NothingIsDestroyed'
    BY <1>1, <1>2, RowsFact DEF TablesInv, U!NothingIsDestroyed, U!Rows
  <2>4. alone => fresh = None /\ ~ \E s \in Openers : pc[s] = "open"
    BY <1>1, AloneFact
  <2>5. alone => PlaceOK(o)'
    BY <1>1, <1>2, <2>1, <2>4 DEF PlaceOK, Moves
  <2> QED
    BY <1>1, <2>1, <2>2, <2>3, <2>4, <2>5, TablesWork DEF Labels
<1>3. CASE UNCHANGED <<jobs, legacy>> /\ U!Raise(o)
  BY <1>1, <1>3, TablesRaise
<1> QED
  BY <1>2, <1>3 DEF U!Rename

LEMMA MakeStep ==
  ASSUME TablesInv, NEW o \in Openers, U!Make(o)
  PROVE  TablesInv'
<1>1. /\ pc[o] = "make" /\ Busy(o) /\ TablesTyped
      /\ UNCHANGED <<jobs, legacy, known, alone, version>>
  BY DEF U!Make, Busy, TablesInv
<1>2. CASE fresh = None /\ fresh' = U!Table("attempts", {}) /\ U!Go(o, "copy")
  <2>1. /\ fresh' \in Table0 /\ fresh' # None /\ fresh'.shape = "attempts" /\ U!Rows(fresh') = {}
    BY <1>2, TableFact DEF Shapes
  <2>2. Moves(o, "copy")
    BY <1>1, <1>2, GoFact DEF Labels
  <2>3. TablesTyped'
    BY <1>1, <2>1, <2>2 DEF TablesTyped, Moves
  <2>4. U!NothingIsDestroyed'
    BY <1>1, <1>2, <2>1, RowsFact DEF TablesInv, U!NothingIsDestroyed, U!Rows
  <2>5. alone => PlaceOK(o) /\ ~ \E s \in Openers : pc[s] = "open"
    BY <1>1, AloneFact
  <2>6. alone => PlaceOK(o)'
    BY <1>1, <2>1, <2>2, <2>5 DEF PlaceOK, Moves
  <2> QED
    BY <1>1, <2>2, <2>3, <2>4, <2>5, <2>6, TablesWork DEF Labels
<1>3. CASE fresh # None /\ fresh' = fresh /\ U!Raise(o)
  <2>1. ~ alone
    BY <1>1, <1>3, AloneFact DEF PlaceOK
  <2> QED
    BY <1>1, <1>3, <2>1, TablesRaise
<1> QED
  BY <1>2, <1>3 DEF U!Make

LEMMA CopyStep ==
  ASSUME TablesInv, NEW o \in Openers, U!Copy(o)
  PROVE  TablesInv'
<1>1. /\ pc[o] = "copy" /\ Busy(o) /\ TablesTyped /\ UNCHANGED <<known, alone, version>>
  BY DEF U!Copy, Busy, TablesInv
<1>2. CASE /\ legacy # None /\ fresh # None /\ jobs = None
           /\ jobs' = U!Table(fresh.shape, fresh.rows \cup legacy.rows)
           /\ legacy' = None /\ fresh' = None /\ U!Go(o, "version")
  <2>1. legacy \in Table0 /\ fresh \in Table0
    BY <1>1, <1>2 DEF TablesTyped
  <2>2. /\ jobs' \in Table0 /\ jobs' # None /\ jobs'.shape = fresh.shape
        /\ U!Rows(jobs') = fresh.rows \cup legacy.rows
    BY <1>2, <2>1, TableFact, RowsFact
  <2>3. Moves(o, "version")
    BY <1>1, <1>2, GoFact DEF Labels
  <2>4. TablesTyped'
    BY <1>1, <1>2, <2>2, <2>3 DEF TablesTyped, Moves
  <2>5. U!NothingIsDestroyed'
    <3>1. U!Rows(jobs) = {} /\ U!Rows(legacy) = legacy.rows /\ U!Rows(fresh) = fresh.rows
          /\ U!Rows(legacy') = {} /\ U!Rows(fresh') = {}
      BY <1>2, <2>1, RowsFact
    <3> QED
      BY <1>1, <2>2, <3>1 DEF TablesInv, U!NothingIsDestroyed, U!Rows
  <2>6. alone => PlaceOK(o) /\ ~ \E s \in Openers : pc[s] = "open"
    BY <1>1, AloneFact
  <2>7. alone => PlaceOK(o)'
    BY <1>1, <2>2, <2>3, <2>6 DEF PlaceOK, Moves, Usable
  <2> QED
    BY <1>1, <1>2, <2>3, <2>4, <2>5, <2>6, <2>7, TablesWork DEF Labels
<1>3. CASE /\ ~ (legacy # None /\ fresh # None /\ jobs = None)
           /\ UNCHANGED <<jobs, legacy, fresh>> /\ U!Raise(o)
  <2>1. ~ alone
    BY <1>1, <1>3, AloneFact DEF PlaceOK
  <2> QED
    BY <1>1, <1>3, <2>1, TablesRaise
<1> QED
  BY <1>2, <1>3 DEF U!Copy, U!Placed, U!tables

LEMMA ScriptStep ==
  ASSUME TablesInv, NEW o \in Openers, U!Script(o)
  PROVE  TablesInv'
<1>1. /\ pc[o] = "script" /\ Busy(o) /\ TablesTyped
      /\ UNCHANGED <<legacy, fresh, known, alone>>
  BY DEF U!Script, Busy, TablesInv
<1>2. CASE jobs' = U!Table("all", U!Carried(jobs)) /\ version' = Newest /\ U!Go(o, "contract")
  <2>1. U!Carried(jobs) = U!Rows(jobs) /\ U!Rows(jobs) \in SUBSET Jobs
    BY <1>1, RowsFact DEF U!Carried, TablesTyped
  <2>2. /\ jobs' \in Table0 /\ jobs' # None /\ jobs'.shape = "all" /\ U!Rows(jobs') = U!Rows(jobs)
    BY <1>2, <2>1, TableFact DEF Shapes
  <2>3. Moves(o, "contract")
    BY <1>1, <1>2, GoFact DEF Labels
  <2>4. TablesTyped'
    BY <1>1, <1>2, <2>2, <2>3, UpgradeAssumption DEF TablesTyped, Moves
  <2>5. U!NothingIsDestroyed'
    BY <1>1, <2>2 DEF TablesInv, U!NothingIsDestroyed, U!Rows
  <2>6. PlaceOK(o)' /\ Usable'
    BY <2>2, <2>3 DEF PlaceOK, Moves, Usable
  <2>7. alone => legacy' = None /\ fresh' = None
    BY <1>1, AloneFact
  <2> QED
    BY <1>1, <2>3, <2>4, <2>5, <2>6, <2>7, TablesWork DEF Labels
<1>3. CASE UNCHANGED <<jobs, version>> /\ U!Raise(o)
  BY <1>1, <1>3, TablesRaise
<1> QED
  BY <1>2, <1>3 DEF U!Script

LEMMA EnqueueStep ==
  ASSUME TablesInv, NEW o \in Openers, NEW job \in Jobs, U!Enqueue(o, job)
  PROVE  TablesInv'
<1>1. /\ jobs # None /\ jobs.shape = "all" /\ TablesTyped
      /\ jobs' = U!Table(jobs.shape, jobs.rows \cup {job}) /\ known' = known \cup {job}
      /\ UNCHANGED <<version, legacy, fresh, alone, pc>>
  BY DEF U!Enqueue, TablesInv
<1>2. jobs \in Table0
  BY <1>1 DEF TablesTyped
<1>3. /\ jobs' \in Table0 /\ jobs' # None /\ jobs'.shape = jobs.shape
      /\ U!Rows(jobs') = U!Rows(jobs) \cup {job}
  BY <1>1, <1>2, TableFact, RowsFact
<1>4. TablesTyped'
  BY <1>1, <1>3 DEF TablesTyped
<1>5. U!NothingIsDestroyed'
  <2>1. known = U!Rows(jobs) \cup U!Rows(legacy) \cup U!Rows(fresh)
    BY DEF TablesInv, U!NothingIsDestroyed
  <2>2. U!Rows(legacy') = U!Rows(legacy) /\ U!Rows(fresh') = U!Rows(fresh)
    BY <1>1
  <2> HIDE DEF U!Rows
  <2>3. known' = U!Rows(jobs') \cup U!Rows(legacy') \cup U!Rows(fresh')
    BY <1>1, <1>3, <2>1, <2>2
  <2> QED
    BY <2>3 DEF U!NothingIsDestroyed
<1>6. ASSUME alone
      PROVE  Undisturbed'
  <2>1. Undisturbed
    BY <1>6 DEF TablesInv
  <2>2. \A s \in Openers : PlaceOK(s) => PlaceOK(s)'
    BY <1>1, <1>3 DEF PlaceOK, Usable
  <2> QED
    BY <1>1, <2>1, <2>2 DEF Undisturbed, Busy
<1> QED
  BY <1>1, <1>4, <1>5, <1>6 DEF TablesInv

LEMMA TablesStep ==
  ASSUME TablesInv, U!Next
  PROVE  TablesInv'
<1>1. PICK o \in Openers : U!Opening(o) \/ U!Crash(o) \/ U!Close(o) \/ \E job \in Jobs : U!Enqueue(o, job)
  BY DEF U!Next
<1> QED
  BY <1>1, CalmSteps, CreateStep, WidenStep, RenameStep, MakeStep, CopyStep, ScriptStep, EnqueueStep
     DEF U!Opening

(* The scope that a view belongs to. *)
Own(v) == IF U!Certain(v) THEN CHOOSE s \in spans[v] : TRUE ELSE None
All == 1 .. 6
Reads == [version : 0 .. Newest + 1, next : 1 .. 7, columns : SUBSET All]

(* How far the contract of the views is when an opening is at a place. *)
ContractOK(o) ==
    /\ read[o].columns \subseteq columns
    /\ pc[o] \in {"script", "contract", "columns", "stamp", "open"} =>
         read[o].version <= version /\ version <= Newest
    /\ pc[o] = "columns" => \A i \in All : i < read[o].next => i \in columns
    /\ pc[o] \in {"stamp", "open"} => columns = All /\ \A v \in OldViews : scopeOf[v] = Own(v)
    /\ pc[o] = "open" => version = Newest

ContractTyped ==
    /\ version \in 0 .. Newest + 1 /\ columns \subseteq All
    /\ spans \in [OldViews -> SUBSET Scopes \ {{}}]
    /\ scopeOf \in [OldViews -> Scopes \cup {None}]
    /\ read \in [Openers -> Reads] /\ pc \in [Openers -> Labels]

ContractInv ==
    /\ ContractTyped
    /\ \A v \in OldViews : scopeOf[v] \in {None, Own(v)}
    /\ \A o \in Openers : ContractOK(o)

LEMMA AllFact == Len(U!Columns) = 6 /\ 1 .. Len(U!Columns) = All
BY DEF U!Columns, All

LEMMA OwnFact ==
  ASSUME ContractTyped, NEW v \in OldViews
  PROVE  Own(v) \in Scopes \cup {None}
BY DEF ContractTyped, Own, U!Certain

LEMMA ContractInit ==
  ASSUME U!Init
  PROVE  ContractInv
<1>1. /\ version \in 0 .. Newest + 1 /\ columns \in {{}, All}
      /\ spans \in [OldViews -> SUBSET Scopes \ {{}}]
      /\ scopeOf = [v \in OldViews |-> None] /\ pc = [o \in Openers |-> "closed"]
      /\ read = [o \in Openers |-> [version |-> 0, next |-> 1, columns |-> {}]]
  <2>1. columns \in {{}, 1 .. Len(U!Columns)}
    BY DEF U!Init
  <2>2. columns \in {{}, All}
    BY <2>1, AllFact
  <2> QED
    BY <2>2 DEF U!Init
<1>2. [version |-> 0, next |-> 1, columns |-> {}] \in Reads
  BY UpgradeAssumption DEF Reads
<1>3. read \in [Openers -> Reads]
  BY <1>1, <1>2
<1>4. ContractTyped
  BY <1>1, <1>3 DEF ContractTyped, Labels
<1>5. \A o \in Openers : ContractOK(o)
  BY <1>1 DEF ContractOK
<1> QED
  BY <1>1, <1>4, <1>5 DEF ContractInv

(* What is there of the contract grows, as openings go on. *)
LEMMA ContractGrows ==
  ASSUME ContractInv, ContractTyped', spans' = spans, columns \subseteq columns',
         \A v \in OldViews : scopeOf'[v] = scopeOf[v] \/ scopeOf'[v] = Own(v),
         version' = version \/ (version' = Newest /\ version <= Newest),
         NEW o \in Openers, NEW w \in Labels, Moves(o, w),
         \A s \in Openers : s # o => read'[s] = read[s],
         read'[o].columns \subseteq columns',
         w \in {"script", "contract", "columns", "stamp", "open"} =>
           read'[o].version <= version' /\ version' <= Newest,
         w = "columns" => \A i \in All : i < read'[o].next => i \in columns',
         w \in {"stamp", "open"} => columns' = All /\ \A v \in OldViews : scopeOf'[v] = Own(v),
         w = "open" => version' = Newest
  PROVE  ContractInv'
<1>1. \A v \in OldViews : Own(v)' = Own(v) /\ scopeOf'[v] \in {None, Own(v)}
  BY DEF ContractInv, Own, U!Certain
<1>2. ContractOK(o)'
  BY <1>1 DEF ContractOK, Moves
<1>3. ASSUME NEW s \in Openers, s # o
      PROVE  ContractOK(s)'
  <2>1. ContractOK(s) /\ pc'[s] = pc[s] /\ read'[s] = read[s]
    BY <1>3 DEF ContractInv, Moves
  <2>2. columns' \subseteq All /\ read[s].version \in Nat /\ version \in Nat /\ Newest \in Nat
    <3>1. read[s] \in Reads
      BY DEF ContractInv, ContractTyped
    <3> QED
      BY <3>1, UpgradeAssumption DEF ContractInv, ContractTyped, Reads
  <2>3. pc'[s] \in {"script", "contract", "columns", "stamp", "open"} =>
          read'[s].version <= version' /\ version' <= Newest
    BY <2>1, <2>2 DEF ContractOK
  <2>4. pc'[s] \in {"stamp", "open"} =>
          columns' = All /\ \A v \in OldViews : scopeOf'[v] = Own(v)
    BY <2>1, <2>2 DEF ContractOK
  <2>5. pc'[s] = "open" => version' = Newest
    BY <2>1 DEF ContractOK
  <2>6. /\ read'[s].columns \subseteq columns'
        /\ pc'[s] = "columns" => \A i \in All : i < read'[s].next => i \in columns'
    BY <2>1 DEF ContractOK
  <2> QED
    BY <1>1, <2>3, <2>4, <2>5, <2>6 DEF ContractOK
<1> QED
  BY <1>1, <1>2, <1>3 DEF ContractInv

(* Steps that do nothing for the contract. *)
LEMMA ContractMove ==
  ASSUME ContractInv, UNCHANGED <<version, columns, spans, scopeOf, read>>,
         NEW o \in Openers, NEW w \in Labels \ {"script", "contract", "columns", "stamp", "open"},
         Moves(o, w)
  PROVE  ContractInv'
<1>1. ContractTyped'
  BY DEF ContractInv, ContractTyped, Moves
<1>2. read'[o].columns \subseteq columns'
  BY DEF ContractInv, ContractOK
<1> QED
  BY <1>1, <1>2, ContractGrows

LEMMA ReadFact ==
  ASSUME ContractInv, NEW o \in Openers
  PROVE  /\ read[o].version \in 0 .. Newest + 1 /\ read[o].next \in 1 .. 7
         /\ read[o].columns \subseteq All /\ read[o] \in Reads
         /\ \A v \in 0 .. Newest + 1 : [read[o] EXCEPT !.version = v] \in Reads
         /\ \A i \in 1 .. 7 : [read[o] EXCEPT !.next = i] \in Reads
         /\ \A i \in 1 .. 7, c \in SUBSET All :
              [read[o] EXCEPT !.next = i, !.columns = c] \in Reads
<1>1. read[o] \in Reads
  BY DEF ContractInv, ContractTyped
<1> QED
  BY <1>1 DEF Reads

LEMMA VersionFact ==
  ASSUME ContractInv, NEW o \in Openers
  PROVE  /\ Newest \in Nat /\ version \in Nat /\ read[o].version \in Nat
         /\ read[o].next \in Nat /\ 1 <= read[o].next /\ read[o].next <= 7
         /\ columns \subseteq All
<1>1. Newest \in Nat /\ version \in 0 .. Newest + 1 /\ columns \subseteq All
  BY UpgradeAssumption DEF ContractInv, ContractTyped
<1>2. read[o].version \in 0 .. Newest + 1 /\ read[o].next \in 1 .. 7
  BY ReadFact
<1> QED
  BY <1>1, <1>2

LEMMA ReadSet ==
  ASSUME ContractInv, NEW o \in Openers, NEW r \in Reads, read' = [read EXCEPT ![o] = r]
  PROVE  /\ read' \in [Openers -> Reads] /\ read'[o] = r
         /\ \A s \in Openers : s # o => read'[s] = read[s]
BY DEF ContractInv, ContractTyped

LEMMA ContractCalm ==
  ASSUME ContractInv, TablesTyped, NEW o \in Openers,
         \/ U!Open(o) \/ U!Look(o) \/ U!Create(o) \/ U!Widen(o) \/ U!Rename(o) \/ U!Make(o)
         \/ U!Copy(o) \/ U!Crash(o) \/ U!Close(o)
  PROVE  ContractInv'
<1>1. UNCHANGED <<version, columns, spans, scopeOf, read>>
  BY DEF U!Open, U!Look, U!Create, U!Widen, U!Rename, U!Make, U!Copy, U!Crash, U!Close, U!contract
<1>2. PICK w \in {"closed", "look", "create", "widen", "rename", "make", "copy", "version"} :
         U!Go(o, w)
  <2>1. CASE U!Look(o)
    <3>1. CASE ~ U!HasViews
      BY <2>1, <3>1 DEF U!Look, U!HasViews
    <3>2. CASE U!HasViews /\ jobs = None
      BY <2>1, <3>2 DEF U!Look
    <3>3. CASE U!HasViews /\ jobs # None /\ jobs.shape = "first"
      BY <2>1, <3>3 DEF U!Look
    <3>4. CASE U!HasViews /\ jobs # None /\ jobs.shape = "attempts"
      BY <2>1, <3>4 DEF U!Look
    <3>5. CASE U!HasViews /\ jobs # None /\ jobs.shape \notin {"first", "attempts"}
      BY <2>1, <3>5 DEF U!Look
    <3> QED
      BY <3>1, <3>2, <3>3, <3>4, <3>5
  <2>2. CASE U!Open(o) \/ U!Crash(o) \/ U!Close(o)
    BY <2>2 DEF U!Open, U!Crash, U!Close, U!Raise
  <2>3. CASE U!Create(o) \/ U!Widen(o)
    BY <2>3 DEF U!Create, U!Widen, U!Raise
  <2>4. CASE U!Rename(o) \/ U!Make(o) \/ U!Copy(o)
    BY <2>4 DEF U!Rename, U!Make, U!Copy, U!Raise
  <2> QED
    BY <2>1, <2>2, <2>3, <2>4
<1>3. Moves(o, w)
  BY <1>2, GoFact DEF Labels
<1> QED
  BY <1>1, <1>3, ContractMove DEF Labels

LEMMA ContractRaise ==
  ASSUME ContractInv, TablesTyped, UNCHANGED <<version, columns, spans, scopeOf>>,
         NEW o \in Openers, U!Raise(o), ContractTyped',
         \A s \in Openers : s # o => read'[s] = read[s], read'[o].columns \subseteq columns
  PROVE  ContractInv'
<1>1. Moves(o, "closed")
  BY GoFact DEF Labels, U!Raise
<1> QED
  BY <1>1, ContractGrows DEF Labels

LEMMA ContractReadVersion ==
  ASSUME ContractInv, TablesTyped, NEW o \in Openers, U!ReadVersion(o)
  PROVE  ContractInv'
<1>1. /\ read' = [read EXCEPT ![o] = [read[o] EXCEPT !.version = version]]
      /\ UNCHANGED <<version, columns, spans, scopeOf>>
  BY DEF U!ReadVersion, U!contract
<1>2. version \in 0 .. Newest + 1 /\ Newest \in Nat
  BY UpgradeAssumption DEF ContractInv, ContractTyped
<1>3. PICK r \in Reads : r = [read[o] EXCEPT !.version = version]
  BY <1>2, ReadFact
<1>4. r.version = version /\ r.columns = read[o].columns
  BY <1>3, ReadFact DEF Reads
<1>5. /\ read' \in [Openers -> Reads] /\ read'[o] = r
      /\ \A s \in Openers : s # o => read'[s] = read[s]
  BY <1>1, <1>3, ReadSet
<1>6. PICK w \in {"closed", "script", "contract"} : U!Go(o, w) /\ (version > Newest => w = "closed")
  BY DEF U!ReadVersion, U!Raise
<1>7. Moves(o, w)
  BY <1>6, GoFact DEF Labels
<1>8. ContractTyped'
  BY <1>1, <1>5, <1>7 DEF ContractInv, ContractTyped, Moves
<1>9. read'[o].columns \subseteq columns'
  BY <1>1, <1>4, <1>5 DEF ContractInv, ContractOK
<1>10. w \in {"script", "contract", "columns", "stamp", "open"} =>
         read'[o].version <= version' /\ version' <= Newest
  BY <1>1, <1>2, <1>4, <1>5, <1>6
<1> QED
  BY <1>1, <1>5, <1>7, <1>8, <1>9, <1>10, ContractGrows DEF Labels

LEMMA ContractScript ==
  ASSUME ContractInv, TablesTyped, NEW o \in Openers, U!Script(o)
  PROVE  ContractInv'
<1>1. pc[o] = "script" /\ UNCHANGED <<spans, scopeOf, read>>
  BY DEF U!Script
<1>2. /\ read[o].version <= version /\ version <= Newest /\ read[o].columns \subseteq columns
      /\ read[o].version \in Nat /\ version \in Nat /\ Newest \in Nat /\ columns \subseteq All
  <2>1. ContractOK(o)
    BY DEF ContractInv
  <2> QED
    BY <1>1, <2>1, VersionFact DEF ContractOK
<1>3. CASE /\ version' = Newest /\ U!Go(o, "contract")
           /\ columns' = IF read[o].version = 0 THEN 1 .. Len(U!Columns) ELSE columns
  <2>1. columns \subseteq columns' /\ columns' \subseteq All
    BY <1>2, <1>3, AllFact
  <2>2. Moves(o, "contract")
    BY <1>3, GoFact DEF Labels
  <2>3. ContractTyped'
    BY <1>1, <1>2, <1>3, <2>1, <2>2 DEF ContractInv, ContractTyped, Moves
  <2>4. read'[o].columns \subseteq columns' /\ read'[o].version <= version' /\ version' <= Newest
    <3>1. read'[o] = read[o] /\ version' = Newest
      BY <1>1, <1>3
    <3>2. read[o].columns \subseteq columns'
      BY <1>2, <2>1
    <3>3. read[o].version <= version' /\ version' <= Newest
      BY <1>2, <3>1
    <3> QED
      BY <3>1, <3>2, <3>3
  <2> QED
    BY <1>1, <1>2, <1>3, <2>1, <2>2, <2>3, <2>4, ContractGrows DEF Labels
<1>4. CASE UNCHANGED <<version, columns>> /\ U!Raise(o)
  <2>1. Moves(o, "closed")
    BY <1>4, GoFact DEF Labels, U!Raise
  <2>2. ContractTyped'
    BY <1>1, <1>4, <2>1 DEF ContractInv, ContractTyped, Moves
  <2> QED
    BY <1>1, <1>2, <1>4, <2>2, ContractRaise
<1> QED
  BY <1>3, <1>4 DEF U!Script

LEMMA ContractStart ==
  ASSUME ContractInv, TablesTyped, NEW o \in Openers, U!Start(o)
  PROVE  ContractInv'
<1>1. /\ pc[o] = "contract" /\ U!Go(o, "columns")
      /\ read' = [read EXCEPT ![o] = [read[o] EXCEPT !.next = 1]]
      /\ UNCHANGED <<version, columns, spans, scopeOf>>
  BY DEF U!Start, U!contract
<1>2. PICK r \in Reads : r = [read[o] EXCEPT !.next = 1]
  <2>1. 1 \in 1 .. 7
    OBVIOUS
  <2> QED
    BY <2>1, ReadFact
<1>3. r.version = read[o].version /\ r.columns = read[o].columns /\ r.next = 1
  BY <1>2, ReadFact DEF Reads
<1>4. /\ read' \in [Openers -> Reads] /\ read'[o] = r
      /\ \A s \in Openers : s # o => read'[s] = read[s]
  BY <1>1, <1>2, ReadSet
<1>5. Moves(o, "columns")
  BY <1>1, GoFact DEF Labels
<1>6. ContractTyped'
  BY <1>1, <1>4, <1>5 DEF ContractInv, ContractTyped, Moves
<1>7. /\ read'[o].columns \subseteq columns' /\ read'[o].version <= version' /\ version' <= Newest
      /\ \A i \in All : ~ (i < read'[o].next)
  BY <1>1, <1>3, <1>4 DEF ContractInv, ContractOK, All
<1> QED
  BY <1>1, <1>4, <1>5, <1>6, <1>7, ContractGrows DEF Labels

LEMMA ContractAddColumn ==
  ASSUME ContractInv, TablesTyped, NEW o \in Openers, U!AddColumn(o)
  PROVE  ContractInv'
<1>1. /\ pc[o] = "columns" /\ read[o].next <= 6 /\ UNCHANGED <<version, spans, scopeOf>>
  BY AllFact DEF U!AddColumn
<1>2. /\ read[o].version <= version /\ version <= Newest /\ read[o].columns \subseteq columns
      /\ columns \subseteq All /\ \A i \in All : i < read[o].next => i \in columns
  BY <1>1 DEF ContractInv, ContractOK, ContractTyped
<1>3. PICK n : n = read[o].next
  OBVIOUS
<1>4. n \in All /\ n + 1 \in 1 .. 7
  <2>1. n \in Nat /\ 1 <= n /\ n <= 6
    BY <1>1, <1>3, VersionFact
  <2> QED
    BY <2>1 DEF All
<1>5. PICK there : there = IF n \in U!Firsts THEN columns ELSE read[o].columns
  OBVIOUS
<1>6. there \subseteq columns /\ there \in SUBSET All
  BY <1>2, <1>5
<1>7. /\ read' = [read EXCEPT ![o] = [read[o] EXCEPT !.next = n + 1, !.columns = there]]
      /\ IF n \in there THEN UNCHANGED <<columns, pc>>
         ELSE IF n \in columns THEN UNCHANGED columns /\ U!Raise(o)
         ELSE columns' = columns \cup {n} /\ UNCHANGED pc
  BY <1>3, <1>5 DEF U!AddColumn
<1>8. PICK r \in Reads : r = [read[o] EXCEPT !.next = n + 1, !.columns = there]
  BY <1>4, <1>6, ReadFact
<1>9. r.version = read[o].version /\ r.columns = there /\ r.next = n + 1
  BY <1>8, ReadFact DEF Reads
<1>10. /\ read' \in [Openers -> Reads] /\ read'[o] = r
       /\ \A s \in Openers : s # o => read'[s] = read[s]
  BY <1>7, <1>8, ReadSet
<1>11. columns \subseteq columns' /\ columns' \subseteq All
  BY <1>2, <1>4, <1>7
<1>12. CASE pc' = pc /\ n \in columns'
  <2>1. Moves(o, "columns")
    BY <1>1, <1>12 DEF TablesTyped, Moves
  <2>2. ContractTyped'
    BY <1>1, <1>10, <1>11, <1>12 DEF ContractInv, ContractTyped
  <2>3. \A i \in All : i < n + 1 => i < n \/ i = n
    BY <1>4 DEF All
  <2>4. \A i \in All : i < read'[o].next => i \in columns'
    BY <1>2, <1>3, <1>9, <1>10, <1>11, <1>12, <2>3
  <2>5. /\ read'[o].columns \subseteq columns' /\ read'[o].version <= version' /\ version' <= Newest
    BY <1>1, <1>2, <1>6, <1>9, <1>10, <1>11
  <2> QED
    BY <1>1, <1>10, <1>11, <2>1, <2>2, <2>4, <2>5, ContractGrows DEF Labels
<1>13. CASE columns' = columns /\ U!Raise(o)
  <2>1. Moves(o, "closed")
    BY <1>13, GoFact DEF Labels, U!Raise
  <2>2. ContractTyped'
    BY <1>1, <1>10, <1>11, <2>1 DEF ContractInv, ContractTyped, Moves
  <2> QED
    BY <1>1, <1>6, <1>9, <1>10, <1>13, <2>2, ContractRaise
<1> QED
  BY <1>6, <1>7, <1>12, <1>13

LEMMA ContractBackfill ==
  ASSUME ContractInv, TablesTyped, NEW o \in Openers, U!Backfill(o)
  PROVE  ContractInv'
<1>1. /\ pc[o] = "columns" /\ read[o].next > 6 /\ U!Go(o, "stamp")
      /\ UNCHANGED <<version, columns, spans, read>>
  <2>1. /\ pc[o] = "columns" /\ read[o].next > Len(U!Columns) /\ U!Go(o, "stamp")
        /\ UNCHANGED <<version, columns, spans, read>>
    BY DEF U!Backfill
  <2>2. Len(U!Columns) = 6
    BY AllFact
  <2> QED
    BY <2>1, <2>2
<1>2. scopeOf' = [v \in OldViews |-> IF scopeOf[v] = None /\ U!Certain(v)
                                     THEN CHOOSE s \in spans[v] : TRUE ELSE scopeOf[v]]
  BY DEF U!Backfill
<1>3. \A v \in OldViews : scopeOf'[v] = Own(v)
  <2> SUFFICES ASSUME NEW v \in OldViews
               PROVE  scopeOf'[v] = Own(v)
    OBVIOUS
  <2>1. scopeOf[v] \in {None, Own(v)}
    BY DEF ContractInv
  <2>2. scopeOf'[v] = IF scopeOf[v] = None /\ U!Certain(v)
                      THEN CHOOSE s \in spans[v] : TRUE ELSE scopeOf[v]
    BY <1>2
  <2>3. CASE scopeOf[v] = None /\ U!Certain(v)
    BY <2>2, <2>3 DEF Own, U!Certain
  <2>4. CASE scopeOf[v] = None /\ ~ U!Certain(v)
    BY <2>2, <2>4 DEF Own, U!Certain
  <2>5. CASE scopeOf[v] # None
    BY <2>1, <2>2, <2>5
  <2> QED
    BY <2>3, <2>4, <2>5
<1>4. scopeOf' \in [OldViews -> Scopes \cup {None}]
  <2>1. \A v \in OldViews : scopeOf'[v] \in Scopes \cup {None}
    BY <1>3, OwnFact DEF ContractInv
  <2>2. scopeOf' = [v \in OldViews |-> scopeOf'[v]]
    BY <1>2
  <2> QED
    BY <2>1, <2>2
<1>5. Moves(o, "stamp")
  BY <1>1, GoFact DEF Labels
<1>6. ContractTyped'
  BY <1>1, <1>4, <1>5 DEF ContractInv, ContractTyped, Moves
<1>7. ContractOK(o) /\ columns \subseteq All
  BY DEF ContractInv, ContractTyped
<1>8. columns = All
  <2>1. \A i \in All : i < read[o].next
    <3>1. read[o].next \in Nat /\ read[o].next > 6
      BY <1>1, VersionFact
    <3> QED
      BY <3>1 DEF All
  <2> QED
    BY <1>1, <1>7, <2>1 DEF ContractOK
<1>9. read'[o].columns \subseteq columns' /\ read'[o].version <= version' /\ version' <= Newest
  BY <1>1, <1>7 DEF ContractOK
<1> QED
  BY <1>1, <1>3, <1>5, <1>6, <1>8, <1>9, ContractGrows DEF Labels

LEMMA ContractStamp ==
  ASSUME ContractInv, TablesTyped, NEW o \in Openers, U!Stamp(o)
  PROVE  ContractInv'
<1>1. /\ pc[o] = "stamp" /\ U!Go(o, "open") /\ UNCHANGED <<columns, spans, scopeOf, read>>
      /\ version' = IF read[o].version < Newest THEN Newest ELSE version
  BY DEF U!Stamp, U!contract
<1>2. ContractOK(o) /\ Newest \in Nat /\ version \in Nat /\ read[o].version \in Nat
  BY VersionFact DEF ContractInv
<1>3. version' = Newest /\ version <= Newest /\ read[o].version <= Newest
  BY <1>1, <1>2 DEF ContractOK
<1>4. Moves(o, "open")
  BY <1>1, GoFact DEF Labels
<1>5. ContractTyped'
  BY <1>1, <1>2, <1>3, <1>4 DEF ContractInv, ContractTyped, Moves
<1>6. /\ read'[o].columns \subseteq columns' /\ read'[o].version <= version' /\ version' <= Newest
      /\ columns' = All /\ \A v \in OldViews : scopeOf'[v] = Own(v)
  BY <1>1, <1>2, <1>3 DEF ContractOK
<1> QED
  BY <1>1, <1>3, <1>4, <1>5, <1>6, ContractGrows DEF Labels

LEMMA ContractEnqueue ==
  ASSUME ContractInv, NEW o \in Openers, NEW job \in Jobs, U!Enqueue(o, job)
  PROVE  ContractInv'
<1>1. UNCHANGED <<version, columns, spans, scopeOf, read, pc>>
  BY DEF U!Enqueue, U!contract
<1>2. ContractTyped' /\ \A v \in OldViews : Own(v)' = Own(v)
  BY <1>1 DEF ContractInv, ContractTyped, Own, U!Certain
<1>3. \A s \in Openers : ContractOK(s)'
  BY <1>1, <1>2 DEF ContractInv, ContractOK
<1> QED
  BY <1>1, <1>2, <1>3 DEF ContractInv

LEMMA ContractStep ==
  ASSUME ContractInv, TablesTyped, U!Next
  PROVE  ContractInv'
<1>1. PICK o \in Openers : U!Opening(o) \/ U!Crash(o) \/ U!Close(o) \/ \E job \in Jobs : U!Enqueue(o, job)
  BY DEF U!Next
<1> QED
  BY <1>1, ContractCalm, ContractReadVersion, ContractScript, ContractStart, ContractAddColumn,
     ContractBackfill, ContractStamp, ContractEnqueue
     DEF U!Opening

UpgradeInv == focus = "upgrade" => TablesInv /\ ContractInv

LEMMA UpgradeStays ==
  ASSUME UpgradeInv, UNCHANGED upgrading, focus' = focus
  PROVE  UpgradeInv'
<1> SUFFICES ASSUME focus = "upgrade"
             PROVE  TablesInv' /\ ContractInv'
  BY DEF UpgradeInv
<1>1. TablesInv /\ ContractInv
  BY DEF UpgradeInv
<1>2. UNCHANGED <<version, jobs, legacy, fresh, columns, spans, scopeOf, pc, read, known, alone>>
  BY DEF upgrading
<1>3. TablesInv'
  <2>1. TablesTyped' /\ U!NothingIsDestroyed'
    BY <1>1, <1>2 DEF TablesInv, TablesTyped, U!NothingIsDestroyed, U!Rows
  <2>2. \A o \in Openers : PlaceOK(o) => PlaceOK(o)'
    BY <1>2 DEF PlaceOK, Usable
  <2>3. alone' => Undisturbed'
    BY <1>1, <1>2, <2>2 DEF TablesInv, Undisturbed, Busy
  <2> QED
    BY <2>1, <2>3 DEF TablesInv
<1>4. ContractInv'
  <2>1. ContractTyped' /\ \A v \in OldViews : Own(v)' = Own(v)
    BY <1>1, <1>2 DEF ContractInv, ContractTyped, Own, U!Certain
  <2>2. \A s \in Openers : ContractOK(s)'
    BY <1>1, <1>2, <2>1 DEF ContractInv, ContractOK
  <2> QED
    BY <1>1, <1>2, <2>1, <2>2 DEF ContractInv
<1> QED
  BY <1>3, <1>4

(* However processes open a database together, and whenever they die:      *)
(* migrate destroys no job, an upgrade that nobody disturbs brings all     *)
(* jobs to the table in use, and whoever has opened the database finds the *)
(* version, the columns and the scopes of views that it needs.             *)
THEOREM UpgradeKeepsAllHolds == Spec => []UpgradeKeepsAll
<1>1. Init => UpgradeInv
  BY TablesInit, ContractInit DEF Init, UpgradeInv
<1>2. UpgradeInv /\ [Next]_<<cataloging, storing, now, capturing, upgrading, reviewing, focus>> => UpgradeInv'
  <2> SUFFICES ASSUME UpgradeInv, [Next]_<<cataloging, storing, now, capturing, upgrading, reviewing, focus>>
               PROVE  UpgradeInv'
    OBVIOUS
  <2>1. CASE focus = "upgrade" /\ focus' = focus /\ U!Next
    BY <2>1, TablesStep, ContractStep DEF UpgradeInv, TablesInv
  <2>2. CASE UNCHANGED <<upgrading, focus>>
    BY <2>2, UpgradeStays
  <2> QED
    BY <2>1, <2>2 DEF Next
<1>3. UpgradeInv => UpgradeKeepsAll
  <2> SUFFICES ASSUME UpgradeInv, focus = "upgrade"
               PROVE  U!UpgradeKeepsAll
    BY DEF UpgradeKeepsAll
  <2>1. TablesInv /\ ContractInv
    BY DEF UpgradeInv
  <2>2. U!TypeOK
    <3>1. \A t \in {jobs, legacy, fresh} : t = None \/ t \in Table0
      BY <2>1 DEF TablesInv, TablesTyped
    <3>2. \A t \in Table0 : t.shape \in {"first", "attempts", "all"} /\ t.rows \subseteq Jobs
      BY DEF Table0, Shapes
    <3> QED
      BY <2>1, <3>1, <3>2, AllFact DEF U!TypeOK, ContractInv, ContractTyped
  <2>3. U!JobsAreKept
    <3> SUFFICES ASSUME alone, NEW o \in Openers, pc[o] = "open"
                 PROVE  U!Rows(jobs) = known
      BY DEF U!JobsAreKept
    <3>1. Undisturbed
      BY <2>1 DEF TablesInv
    <3>2. legacy = None /\ fresh = None
      BY <3>1 DEF Undisturbed, PlaceOK
    <3> QED
      BY <2>1, <3>2, RowsFact DEF TablesInv, U!NothingIsDestroyed
  <2>4. U!OpenHasContract
    <3> SUFFICES ASSUME NEW o \in Openers, pc[o] = "open"
                 PROVE  /\ version = Newest /\ columns = 1 .. Len(U!Columns)
                        /\ \A v \in OldViews : scopeOf[v] = Own(v)
      BY DEF U!OpenHasContract, Own, U!Certain
    <3>1. ContractOK(o)
      BY <2>1 DEF ContractInv
    <3>2. version = Newest /\ columns = All /\ \A v \in OldViews : scopeOf[v] = Own(v)
      BY <3>1 DEF ContractOK
    <3> QED
      BY <3>2, AllFact
  <2> QED
    BY <2>1, <2>2, <2>3, <2>4 DEF U!UpgradeKeepsAll, TablesInv
<1> QED
  BY <1>1, <1>2, <1>3, PTL DEF Spec

-----------------------------------------------------------------------------
(* Files, and maps from files to contents *)

Values == Readable \cup Oversized \cup {Absent}
Maps(W, X) == C!FileMaps(W, X)

LEMMA FilesAreNumbers == Files \subseteq Nat /\ IsFiniteSet(Files)
<1>1. Files = 1 .. Cardinality(Files) /\ Cardinality(Files) \in Nat
  BY FilesAssumption, FS_CardinalityType
<1> QED
  BY <1>1, FilesAssumption

LEMMA FirstFact ==
  ASSUME NEW W \in SUBSET Files, W # {}
  PROVE  C!First(W) \in W
<1> DEFINE Upto(f) == {g \in W : g <= f}
           F == {Upto(f) : f \in W}
<1>1. IsFiniteSet(Files) /\ F \in SUBSET SUBSET Files /\ F # {}
  BY FilesAreNumbers
<1>2. PICK u \in F : \A w \in F : w \subseteq u => w = u
  <2> HIDE DEF F
  <2> QED
    BY <1>1, MinimalSet
<1>3. PICK f \in W : u = Upto(f)
  OBVIOUS
<1>4. \A g \in W : f <= g
  <2> SUFFICES ASSUME NEW g \in W, g < f
               PROVE  FALSE
    BY FilesAreNumbers
  <2>1. f \in Nat /\ g \in Nat /\ W \subseteq Nat
    BY FilesAreNumbers
  <2>2. f \in Upto(f) /\ f \notin Upto(g)
    BY <2>1
  <2>3. \A h \in W : h <= g => h <= f
    BY <2>1
  <2>4. Upto(g) \subseteq Upto(f)
    BY <2>3
  <2> QED
    BY <1>2, <1>3, <2>2, <2>4
<1> QED
  BY <1>4 DEF C!First

LEMMA MapIn ==
  ASSUME NEW W, NEW X, NEW D \in SUBSET W, NEW m \in [D -> X]
  PROVE  m \in Maps(W, X)
BY DEF Maps, C!FileMaps

LEMMA MapOut ==
  ASSUME NEW W, NEW X, NEW m \in Maps(W, X)
  PROVE  DOMAIN m \subseteq W /\ m \in [DOMAIN m -> X]
BY DEF Maps, C!FileMaps

LEMMA PutFact ==
  ASSUME NEW W, NEW X, NEW m \in Maps(W, X), NEW f \in W, NEW c \in X
  PROVE  C!Put(m, f, c) \in Maps(W, X)
<1>1. DOMAIN m \subseteq W /\ m \in [DOMAIN m -> X]
  BY MapOut
<1>2. C!Put(m, f, c) \in [DOMAIN m \cup {f} -> X]
  BY <1>1 DEF C!Put
<1> QED
  BY <1>1, <1>2, MapIn

LEMMA OnlyFact ==
  ASSUME NEW W, NEW X, NEW m \in Maps(W, X), NEW D
  PROVE  C!Only(m, D) \in Maps(W, X)
<1>1. DOMAIN m \subseteq W /\ m \in [DOMAIN m -> X]
  BY MapOut
<1>2. C!Only(m, D) \in [DOMAIN m \cap D -> X]
  BY <1>1 DEF C!Only
<1> QED
  BY <1>1, <1>2, MapIn

LEMMA NothingFact ==
  ASSUME NEW W, NEW X
  PROVE  C!Nothing \in Maps(W, X) /\ DOMAIN C!Nothing = {}
<1>1. C!Nothing \in [{} -> X]
  BY DEF C!Nothing
<1> QED
  BY <1>1, MapIn

-----------------------------------------------------------------------------
(* An attempt.  Late: the scans have agreed.  Follows: where t has what    *)
(* the first scan saw, m has it too; as long as no edit has been taken     *)
(* back, a file that has changed stays different from what was seen.       *)

Late == {"analyze", "communication", "evidence", "row", "cleanup"}
Stages == {"idle", "before", "command", "after", "graph", "freeze", "final"} \cup Late
Statuses == {"none", "running", "failed", "cancelled", "completed", "unchanged"}
Freezes == [graph : Maps(Indexed, Readable), expected : Maps(Files, Readable),
            sources : Maps(Files, Readable)]
Seen(scan) == seen[scan].entries
Follows(e, m, W, t) ==
    \A f \in W \cap DOMAIN e : t[f] = e[f] => f \in DOMAIN m /\ m[f] = e[f]

CaptureTyped ==
    /\ tree \in [Files -> Values] /\ past \in [Files -> SUBSET Values] /\ reverted \in BOOLEAN
    /\ graph \in Maps(Indexed, Readable) /\ left \subseteq Indexed
    /\ stray \subseteq Indexed \X Values /\ strayed \in BOOLEAN
    /\ stage \in Stages /\ cursor \subseteq Files
    /\ seen \in [C!Scans -> C!ScanResults] /\ frozen \in Freezes

(* What the first scan has seen was there since the attempt began. *)
WatchOK ==
    stage # "idle" =>
      /\ \A f \in Files : tree[f] \in past[f]
      /\ \A f \in DOMAIN Seen("before") : Seen("before")[f] \in past[f]
FreshOK ==
    /\ stage = "idle" => seen["before"] = C!NoScan
    /\ stage \notin {"final"} \cup Late => seen["final"] = C!NoScan
(* What it has seen and the tree still has is indexed. *)
GraphOK ==
    /\ stage \in {"command", "after", "graph"} /\ ~ reverted /\ ~ strayed =>
         Follows(Seen("before"), graph, Indexed \ left, tree)
    /\ stage = "freeze" /\ ~ reverted /\ ~ strayed =>
         Follows(Seen("before"), frozen.graph, Indexed, tree)
    /\ stage \in {"final"} \cup Late /\ ~ reverted /\ ~ strayed =>
         Follows(Seen("before"), frozen.graph, Indexed, mid)
    /\ stage # "command" => left = {}
(* mid is the tree when the last source was frozen: whatever the final     *)
(* scan finds unchanged was so at mid.                                     *)
MidOK ==
    stage \in {"final"} \cup Late =>
      /\ mid \in [Files -> Values]
      /\ stage = "final" /\ ~ reverted => Follows(Seen("before"), mid, Files, tree)
      /\ ~ reverted => Follows(Seen("before"), mid, DOMAIN Seen("final"), Seen("final"))
      /\ \A f \in Files : mid[f] # Absent =>
           f \in cursor \cup DOMAIN Seen("final") \cup seen["final"].excluded
(* The stages after a scan are reached only if it agreed with the first.   *)
AgreeOK ==
    /\ stage \in {"graph", "freeze", "final"} \cup Late => Seen("after") = Seen("before")
    /\ stage \in {"freeze", "final"} \cup Late =>
         frozen.expected = C!Only(Seen("after"), DOMAIN frozen.graph \cup Declared)
    /\ stage = "freeze" => cursor \subseteq DOMAIN frozen.expected
    /\ stage \in Late =>
         Seen("final") = Seen("before") /\ frozen.expected = frozen.sources /\ cursor = {}

AttemptInv == CaptureTyped /\ WatchOK /\ FreshOK /\ GraphOK /\ MidOK /\ AgreeOK

LEMMA EmptyFact ==
  /\ C!NoScan \in C!ScanResults /\ C!NoScan.entries = C!Nothing /\ C!NoScan.excluded = {}
  /\ C!NoFreeze \in Freezes /\ DOMAIN C!Nothing = {}
<1>1. /\ C!Nothing \in Maps(Files, Readable) /\ C!Nothing \in Maps(Indexed, Readable)
      /\ DOMAIN C!Nothing = {}
  BY NothingFact
<1> QED
  BY <1>1 DEF C!NoScan, C!ScanResults, C!NoFreeze, Freezes, Maps

LEMMA ScanFact ==
  ASSUME CaptureTyped, NEW k \in C!Scans
  PROVE  /\ seen[k] \in C!ScanResults /\ Seen(k) \in Maps(Files, Readable)
         /\ DOMAIN Seen(k) \subseteq Files /\ \A f \in DOMAIN Seen(k) : Seen(k)[f] \in Readable
         /\ seen[k].excluded \subseteq Files
<1>1. seen[k] \in C!ScanResults
  BY DEF CaptureTyped
<1>2. Seen(k) \in Maps(Files, Readable) /\ seen[k].excluded \subseteq Files
  BY <1>1 DEF C!ScanResults, Seen, Maps
<1> QED
  BY <1>1, <1>2, MapOut

LEMMA ScansFact == {"before", "after", "final"} = C!Scans
BY DEF C!Scans

(* Whatever ends the attempt. *)
LEMMA AttemptOver ==
  ASSUME AttemptInv, C!Over, UNCHANGED <<tree, graph>>, stray' \subseteq Indexed \X Values
  PROVE  AttemptInv'
<1>1. /\ stage' = "idle" /\ cursor' = {} /\ seen' = [k \in C!Scans |-> C!NoScan]
      /\ frozen' = C!NoFreeze /\ left' = {} /\ past' = [f \in Files |-> {}]
      /\ reverted' = FALSE /\ strayed' = FALSE
  BY DEF C!Over
<1>2. CaptureTyped'
  BY <1>1, EmptyFact DEF AttemptInv, CaptureTyped, Stages
<1>3. seen'["before"] = C!NoScan /\ seen'["final"] = C!NoScan
  BY <1>1, ScansFact
<1> QED
  BY <1>1, <1>2, <1>3 DEF AttemptInv, WatchOK, FreshOK, GraphOK, MidOK, AgreeOK, Late

LEMMA AttemptEnds ==
  ASSUME AttemptInv, NEW status, NEW reclaimed, C!End(status, reclaimed),
         stray' \subseteq Indexed \X Values
  PROVE  AttemptInv'
BY AttemptOver DEF C!End

LEMMA AttemptCalm ==
  ASSUME AttemptInv,
         UNCHANGED <<tree, past, reverted, graph, left, stray, strayed, stage, cursor, seen,
                     frozen, mid>>
  PROVE  AttemptInv'
<1>1. CaptureTyped'
  BY DEF AttemptInv, CaptureTyped
<1>2. \A k \in {"before", "after", "final"} : Seen(k)' = Seen(k)
  BY DEF Seen
<1>3. WatchOK' /\ FreshOK'
  BY <1>2 DEF AttemptInv, WatchOK, FreshOK
<1>4. GraphOK'
  BY <1>2 DEF AttemptInv, GraphOK
<1>5. MidOK'
  BY <1>2 DEF AttemptInv, MidOK
<1>6. AgreeOK'
  BY <1>2 DEF AttemptInv, AgreeOK
<1> QED
  BY <1>1, <1>3, <1>4, <1>5, <1>6 DEF AttemptInv

(* An edit that is not taken back. *)
LEMMA EditFact ==
  ASSUME AttemptInv, stage # "idle", NEW f \in Files, NEW c \in Values, C!Edited(f, c)
  PROVE  /\ tree' \in [Files -> Values] /\ past' \in [Files -> SUBSET Values]
         /\ reverted' \in BOOLEAN /\ (~ reverted' => ~ reverted)
         /\ \A g \in Files : tree'[g] \in past'[g] /\ past[g] \subseteq past'[g]
         /\ ~ reverted' => \A g \in Files : \A v \in past[g] : tree'[g] = v => tree[g] = v
<1>1. /\ tree \in [Files -> Values] /\ past \in [Files -> SUBSET Values] /\ reverted \in BOOLEAN
      /\ \A g \in Files : tree[g] \in past[g]
  BY DEF AttemptInv, CaptureTyped, WatchOK
<1>2. /\ tree' = [tree EXCEPT ![f] = c] /\ past' = [past EXCEPT ![f] = past[f] \cup {c}]
      /\ reverted' = (reverted \/ c \in past[f])
  BY DEF C!Edited
<1>3. tree' \in [Files -> Values] /\ past' \in [Files -> SUBSET Values]
  BY <1>1, <1>2
<1>4. reverted' \in BOOLEAN /\ (~ reverted' => ~ reverted /\ c \notin past[f])
  BY <1>1, <1>2
<1>5. \A g \in Files : tree'[g] \in past'[g] /\ past[g] \subseteq past'[g]
  BY <1>1, <1>2
<1>6. c \notin past[f] => \A g \in Files : \A v \in past[g] : tree'[g] = v => tree[g] = v
  BY <1>1, <1>2
<1> QED
  BY <1>3, <1>4, <1>5, <1>6

LEMMA FollowsEdit ==
  ASSUME AttemptInv, stage # "idle", NEW f \in Files, NEW c \in Values, C!Edited(f, c), ~ reverted',
         NEW m, NEW W \in SUBSET Files, Follows(Seen("before"), m, W, tree)
  PROVE  Follows(Seen("before"), m, W, tree')
<1>1. \A g \in Files : \A v \in past[g] : tree'[g] = v => tree[g] = v
  BY EditFact
<1>2. \A g \in DOMAIN Seen("before") : Seen("before")[g] \in past[g]
  BY DEF AttemptInv, WatchOK
<1> QED
  BY <1>1, <1>2 DEF Follows

LEMMA AttemptEdit ==
  ASSUME AttemptInv, NEW f \in Files, NEW c \in Values, C!Edit(f, c)
  PROVE  AttemptInv'
<1>1. /\ stage # "idle" /\ C!Edited(f, c)
      /\ UNCHANGED <<graph, left, stray, strayed, stage, cursor, seen, frozen, mid>>
  BY DEF C!Edit, C!indexer, C!capture
<1>2. /\ tree' \in [Files -> Values] /\ past' \in [Files -> SUBSET Values]
      /\ reverted' \in BOOLEAN /\ (~ reverted' => ~ reverted)
      /\ \A g \in Files : tree'[g] \in past'[g] /\ past[g] \subseteq past'[g]
  BY <1>1, EditFact
<1>3. CaptureTyped'
  BY <1>1, <1>2 DEF AttemptInv, CaptureTyped
<1>4. /\ Seen("before")' = Seen("before") /\ Seen("after")' = Seen("after")
      /\ Seen("final")' = Seen("final")
  BY <1>1 DEF Seen
<1>5. DOMAIN Seen("before") \subseteq Files /\ Indexed \subseteq Files
  BY ScansFact, ScanFact, FilesAssumption DEF AttemptInv
<1>6. WatchOK' /\ FreshOK'
  BY <1>1, <1>2, <1>4, <1>5 DEF AttemptInv, WatchOK, FreshOK
<1>7. ASSUME ~ reverted', NEW m, NEW W \in SUBSET Files, Follows(Seen("before"), m, W, tree)
      PROVE  Follows(Seen("before"), m, W, tree')
  BY <1>1, <1>7, FollowsEdit
<1>8. Indexed \ left \in SUBSET Files /\ Indexed \in SUBSET Files /\ Files \in SUBSET Files
  BY <1>5
<1>9. GraphOK'
  BY <1>1, <1>2, <1>4, <1>7, <1>8 DEF AttemptInv, GraphOK
<1>10. MidOK'
  BY <1>1, <1>2, <1>4, <1>7, <1>8 DEF AttemptInv, MidOK
<1>11. AgreeOK'
  BY <1>1, <1>4 DEF AttemptInv, AgreeOK
<1> QED
  BY <1>3, <1>6, <1>9, <1>10, <1>11 DEF AttemptInv

LEMMA AttemptBegin ==
  ASSUME AttemptInv, C!Begin
  PROVE  AttemptInv'
<1>1. /\ stage = "idle" /\ stage' = "before" /\ cursor' = C!Present
      /\ past' = [f \in Files |-> {tree[f]}]
      /\ UNCHANGED <<tree, reverted, graph, left, stray, strayed, seen, frozen, mid>>
  BY DEF C!Begin, C!indexer, C!capture
<1>2. tree \in [Files -> Values] /\ C!Present \subseteq Files
  BY DEF AttemptInv, CaptureTyped, C!Present
<1>3. CaptureTyped'
  BY <1>1, <1>2 DEF AttemptInv, CaptureTyped, Stages
<1>4. seen'["before"] = C!NoScan /\ seen'["final"] = C!NoScan /\ left' = {}
  BY <1>1 DEF AttemptInv, FreshOK, GraphOK, Late
<1>5. DOMAIN Seen("before")' = {}
  BY <1>4, EmptyFact DEF Seen
<1>6. WatchOK'
  BY <1>1, <1>5 DEF WatchOK
<1> QED
  BY <1>1, <1>3, <1>4, <1>6 DEF AttemptInv, FreshOK, GraphOK, MidOK, AgreeOK, Late

LEMMA EntryFact ==
  ASSUME NEW r \in C!ScanResults, NEW f \in Files, NEW c \in Readable
  PROVE  LET w == [r EXCEPT !.entries = C!Put(r.entries, f, c)]
         IN  /\ w \in C!ScanResults /\ w.excluded = r.excluded
             /\ DOMAIN w.entries = DOMAIN r.entries \cup {f} /\ w.entries[f] = c
             /\ \A g \in DOMAIN r.entries : g # f => w.entries[g] = r.entries[g]
<1>1. r \in [entries : Maps(Files, Readable), excluded : SUBSET Files]
  BY DEF C!ScanResults, Maps
<1>2. PICK e : e = r.entries
  OBVIOUS
<1>3. e \in Maps(Files, Readable)
  BY <1>1, <1>2
<1>4. PICK put : put = C!Put(e, f, c)
  OBVIOUS
<1>5. /\ put \in Maps(Files, Readable) /\ DOMAIN put = DOMAIN e \cup {f}
      /\ put[f] = c /\ \A g \in DOMAIN e : g # f => put[g] = e[g]
  <2>1. /\ C!Put(e, f, c) \in Maps(Files, Readable) /\ DOMAIN C!Put(e, f, c) = DOMAIN e \cup {f}
        /\ C!Put(e, f, c)[f] = c /\ \A g \in DOMAIN e : g # f => C!Put(e, f, c)[g] = e[g]
    <3>1. C!Put(e, f, c) \in Maps(Files, Readable)
      BY <1>3, PutFact
    <3> QED
      BY <3>1 DEF C!Put
  <2> QED
    BY <1>4, <2>1
<1>6. PICK w : w = [r EXCEPT !.entries = put]
  OBVIOUS
<1>7. /\ w \in [entries : Maps(Files, Readable), excluded : SUBSET Files]
      /\ w.excluded = r.excluded /\ w.entries = put
  BY <1>1, <1>5, <1>6
<1>8. w \in C!ScanResults
  BY <1>7 DEF C!ScanResults, Maps
<1> QED
  BY <1>2, <1>4, <1>5, <1>6, <1>7, <1>8

LEMMA ExclusionFact ==
  ASSUME NEW r \in C!ScanResults, NEW f \in Files
  PROVE  LET w == [r EXCEPT !.excluded = r.excluded \cup {f}]
         IN  w \in C!ScanResults /\ w.excluded = r.excluded \cup {f} /\ w.entries = r.entries
<1>1. r \in [entries : Maps(Files, Readable), excluded : SUBSET Files]
  BY DEF C!ScanResults, Maps
<1>2. PICK w : w = [r EXCEPT !.excluded = r.excluded \cup {f}]
  OBVIOUS
<1>3. /\ w \in [entries : Maps(Files, Readable), excluded : SUBSET Files]
      /\ w.entries = r.entries /\ w.excluded = r.excluded \cup {f}
  BY <1>1, <1>2
<1>4. w \in C!ScanResults
  BY <1>3 DEF C!ScanResults, Maps
<1> QED
  BY <1>2, <1>3, <1>4

(* What a scan notes of a file. *)
LEMMA NoteFact ==
  ASSUME AttemptInv, C!Scanning, cursor # {}, NEW f, f = C!First(cursor),
         \/ tree[f] \in Readable /\ C!Entry(f, tree[f])
         \/ C!Exclusion(f)
  PROVE  /\ seen' \in [C!Scans -> C!ScanResults] /\ stage \in C!Scans
         /\ \A k \in C!Scans : k # stage => seen'[k] = seen[k]
         /\ f \in cursor /\ f \in Files
         /\ f \in DOMAIN seen'[stage].entries \cup seen'[stage].excluded
         /\ DOMAIN seen[stage].entries \subseteq DOMAIN seen'[stage].entries
         /\ seen[stage].excluded \subseteq seen'[stage].excluded
         /\ \A g \in DOMAIN seen'[stage].entries :
              \/ g \in DOMAIN seen[stage].entries /\ seen'[stage].entries[g] = seen[stage].entries[g]
              \/ g = f /\ seen'[stage].entries[g] = tree[g]
<1>1. stage \in C!Scans
  BY DEF C!Scanning
<1>2. f \in cursor /\ f \in Files
  BY FirstFact DEF AttemptInv, CaptureTyped
<1>3. seen \in [C!Scans -> C!ScanResults]
  BY DEF AttemptInv, CaptureTyped
<1>4. PICK r \in C!ScanResults : r = seen[stage]
  BY <1>1, <1>3
<1>5. CASE tree[f] \in Readable /\ C!Entry(f, tree[f])
  <2>1. PICK w : w = [r EXCEPT !.entries = C!Put(r.entries, f, tree[f])]
    OBVIOUS
  <2>2. /\ w \in C!ScanResults /\ w.excluded = r.excluded
        /\ DOMAIN w.entries = DOMAIN r.entries \cup {f} /\ w.entries[f] = tree[f]
        /\ \A g \in DOMAIN r.entries : g # f => w.entries[g] = r.entries[g]
    BY <1>2, <1>5, <2>1, EntryFact
  <2>3. seen' = [seen EXCEPT ![stage] = w]
    BY <1>4, <1>5, <2>1 DEF C!Entry
  <2>4. /\ seen' \in [C!Scans -> C!ScanResults] /\ seen'[stage] = w
        /\ \A k \in C!Scans : k # stage => seen'[k] = seen[k]
    BY <1>1, <1>3, <2>2, <2>3
  <2>5. \A g \in DOMAIN w.entries :
          \/ g \in DOMAIN r.entries /\ w.entries[g] = r.entries[g]
          \/ g = f /\ w.entries[g] = tree[g]
    BY <2>2
  <2> QED
    BY <1>1, <1>2, <1>4, <2>2, <2>4, <2>5
<1>6. CASE C!Exclusion(f)
  <2>1. PICK w : w = [r EXCEPT !.excluded = r.excluded \cup {f}]
    OBVIOUS
  <2>2. w \in C!ScanResults /\ w.excluded = r.excluded \cup {f} /\ w.entries = r.entries
    BY <1>2, <2>1, ExclusionFact
  <2>3. seen' = [seen EXCEPT ![stage] = w]
    BY <1>4, <1>6, <2>1 DEF C!Exclusion
  <2>4. /\ seen' \in [C!Scans -> C!ScanResults] /\ seen'[stage] = w
        /\ \A k \in C!Scans : k # stage => seen'[k] = seen[k]
    BY <1>1, <1>3, <2>2, <2>3
  <2> QED
    BY <1>1, <1>2, <1>4, <2>2, <2>4
<1> QED
  BY <1>5, <1>6

(* Edits in between. *)
Disturbs(f) == UNCHANGED <<tree, past, reverted>> \/ \E c \in Values : C!Edited(f, c)

LEMMA DisturbFact ==
  ASSUME AttemptInv, stage # "idle", NEW f \in Files, Disturbs(f)
  PROVE  /\ tree' \in [Files -> Values] /\ past' \in [Files -> SUBSET Values]
         /\ reverted' \in BOOLEAN /\ (~ reverted' => ~ reverted)
         /\ \A g \in Files : tree'[g] \in past'[g] /\ past[g] \subseteq past'[g]
<1>1. CASE UNCHANGED <<tree, past, reverted>>
  BY <1>1 DEF AttemptInv, CaptureTyped, WatchOK
<1>2. CASE \E c \in Values : C!Edited(f, c)
  BY <1>2, EditFact
<1> QED
  BY <1>1, <1>2 DEF Disturbs

LEMMA FollowsOn ==
  ASSUME AttemptInv, stage # "idle", NEW f \in Files, Disturbs(f), ~ reverted',
         NEW m, NEW W \in SUBSET Files, Follows(Seen("before"), m, W, tree)
  PROVE  Follows(Seen("before"), m, W, tree')
<1>1. CASE UNCHANGED <<tree, past, reverted>>
  BY <1>1
<1>2. CASE \E c \in Values : C!Edited(f, c)
  BY <1>2, FollowsEdit
<1> QED
  BY <1>1, <1>2 DEF Disturbs

LEMMA AttemptReads ==
  ASSUME AttemptInv, C!Scanning, cursor # {}, NEW f, f = C!First(cursor),
         \/ tree[f] \in Readable /\ C!Entry(f, tree[f])
         \/ C!Exclusion(f),
         Disturbs(f), cursor' = cursor \ {f},
         UNCHANGED <<graph, left, stray, strayed, stage, frozen, mid>>
  PROVE  AttemptInv'
<1>1. /\ seen' \in [C!Scans -> C!ScanResults] /\ stage \in C!Scans
      /\ \A k \in C!Scans : k # stage => seen'[k] = seen[k]
      /\ f \in cursor /\ f \in Files
      /\ f \in DOMAIN seen'[stage].entries \cup seen'[stage].excluded
      /\ DOMAIN seen[stage].entries \subseteq DOMAIN seen'[stage].entries
      /\ seen[stage].excluded \subseteq seen'[stage].excluded
      /\ \A g \in DOMAIN seen'[stage].entries :
           \/ g \in DOMAIN seen[stage].entries /\ seen'[stage].entries[g] = seen[stage].entries[g]
           \/ g = f /\ seen'[stage].entries[g] = tree[g]
  BY NoteFact
<1>2. stage \in {"before", "after", "final"} /\ stage # "idle"
  BY <1>1, ScansFact
<1>3. /\ tree' \in [Files -> Values] /\ past' \in [Files -> SUBSET Values]
      /\ reverted' \in BOOLEAN /\ (~ reverted' => ~ reverted)
      /\ \A g \in Files : tree'[g] \in past'[g] /\ past[g] \subseteq past'[g]
  BY <1>1, <1>2, DisturbFact
<1>4. CaptureTyped'
  BY <1>1, <1>3 DEF AttemptInv, CaptureTyped
<1>5. /\ \A g \in Files : tree[g] \in past[g]
      /\ \A g \in DOMAIN Seen("before") : g \in Files /\ Seen("before")[g] \in past[g]
  BY <1>2, ScansFact, ScanFact DEF AttemptInv, WatchOK
<1>6. ASSUME ~ reverted', NEW m, NEW W \in SUBSET Files, Follows(Seen("before"), m, W, tree)
      PROVE  Follows(Seen("before"), m, W, tree')
  BY <1>1, <1>2, <1>6, FollowsOn
<1>7. Indexed \ left \in SUBSET Files /\ Files \in SUBSET Files
  BY FilesAssumption
<1>8. CASE stage = "before"
  <2>1. seen'["final"] = seen["final"] /\ Seen("before")' = seen'["before"].entries
    BY <1>1, <1>8, ScansFact DEF Seen
  <2>2. \A g \in DOMAIN Seen("before")' : Seen("before")'[g] \in past'[g]
    BY <1>1, <1>3, <1>5, <1>8, <2>1 DEF Seen
  <2>3. WatchOK'
    BY <1>3, <2>2 DEF WatchOK
  <2> QED
    BY <1>4, <1>8, <2>1, <2>3 DEF AttemptInv, FreshOK, GraphOK, MidOK, AgreeOK, Late
<1>9. CASE stage \in {"after", "final"}
  <2>1. Seen("before")' = Seen("before") /\ seen'["before"] = seen["before"]
    BY <1>1, <1>9, ScansFact DEF Seen
  <2>2. WatchOK'
    BY <1>3, <1>5, <2>1 DEF WatchOK
  <2>3. CASE stage = "after"
    <3>1. seen'["final"] = seen["final"]
      BY <1>1, <2>3, ScansFact
    <3>2. GraphOK'
      BY <1>3, <1>6, <1>7, <2>1, <2>3 DEF AttemptInv, GraphOK, Late
    <3> QED
      BY <1>4, <2>2, <2>3, <3>1, <3>2 DEF AttemptInv, FreshOK, MidOK, AgreeOK, Late
  <2>4. CASE stage = "final"
    <3>1. Seen("after")' = Seen("after") /\ Seen("final")' = seen'["final"].entries
      BY <1>1, <2>4, ScansFact DEF Seen
    <3>2. GraphOK'
      BY <1>3, <2>1, <2>4 DEF AttemptInv, GraphOK
    <3>3. AgreeOK'
      BY <2>1, <2>4, <3>1 DEF AttemptInv, AgreeOK, Late
    <3>4. /\ mid \in [Files -> Values]
          /\ ~ reverted => Follows(Seen("before"), mid, Files, tree)
          /\ ~ reverted => Follows(Seen("before"), mid, DOMAIN Seen("final"), Seen("final"))
          /\ \A g \in Files : mid[g] # Absent =>
               g \in cursor \cup DOMAIN Seen("final") \cup seen["final"].excluded
      BY <2>4 DEF AttemptInv, MidOK
    <3>5. ~ reverted' => Follows(Seen("before"), mid, Files, tree')
      BY <1>3, <1>6, <1>7, <3>4
    <3>6. ~ reverted' => Follows(Seen("before"), mid, DOMAIN seen'["final"].entries, seen'["final"].entries)
      BY <1>1, <1>3, <2>4, <3>4 DEF Follows, Seen
    <3>7. \A g \in Files : mid[g] # Absent =>
            g \in cursor' \cup DOMAIN seen'["final"].entries \cup seen'["final"].excluded
      BY <1>1, <2>4, <3>4 DEF Seen
    <3>8. MidOK'
      BY <2>1, <2>4, <3>1, <3>4, <3>5, <3>6, <3>7 DEF MidOK
    <3> QED
      BY <1>4, <2>2, <2>4, <3>2, <3>3, <3>8 DEF AttemptInv, FreshOK, Late
  <2> QED
    BY <1>9, <2>3, <2>4
<1> QED
  BY <1>2, <1>8, <1>9

LEMMA AttemptReadFile ==
  ASSUME AttemptInv, C!ReadFile
  PROVE  AttemptInv'
<1>1. PICK f : f = C!First(cursor)
  OBVIOUS
<1>2. /\ C!Scanning /\ cursor # {} /\ cursor' = cursor \ {f}
      /\ UNCHANGED <<tree, past, reverted, graph, left, stray, strayed, stage, frozen, mid>>
      /\ \/ tree[f] \in Readable /\ C!Entry(f, tree[f])
         \/ C!Exclusion(f)
  BY <1>1 DEF C!ReadFile, C!world, C!indexer
<1> QED
  BY <1>1, <1>2, AttemptReads DEF Disturbs

LEMMA AttemptReadUnstable ==
  ASSUME AttemptInv, NEW c \in Values, C!ReadUnstable(c)
  PROVE  AttemptInv'
<1>1. PICK f : f = C!First(cursor)
  OBVIOUS
<1>2. /\ C!Scanning /\ cursor # {} /\ cursor' = cursor \ {f}
      /\ UNCHANGED <<graph, left, stray, strayed, stage, frozen, mid>>
      /\ C!Edited(f, c) /\ C!Exclusion(f)
  BY <1>1 DEF C!ReadUnstable, C!indexer
<1> QED
  BY <1>1, <1>2, AttemptReads DEF Disturbs

(* A stage begins, or the attempt ends. *)
Moved(next, files, freeze, indexing) ==
    /\ stage' = next /\ cursor' = files /\ frozen' = freeze /\ left' = indexing
    /\ mid' = IF next = "final" THEN tree ELSE mid
    /\ UNCHANGED <<tree, past, reverted, graph, stray, strayed, seen>>

LEMMA GoesFact ==
  ASSUME AttemptInv, NEW next, NEW files, NEW freeze, NEW indexing,
         C!Goes(next, files, freeze, indexing)
  PROVE  AttemptInv' \/ Moved(next, files, freeze, indexing)
<1>1. CASE cancelled
  <2>1. C!End("cancelled", TRUE) /\ stray' \subseteq Indexed \X Values
    BY <1>1 DEF C!Goes, AttemptInv, CaptureTyped
  <2> QED
    BY <2>1, AttemptEnds
<1>2. CASE ~ cancelled
  BY <1>2 DEF C!Goes, C!world, Moved
<1> QED
  BY <1>1, <1>2

LEMMA EnterFact ==
  ASSUME AttemptInv, NEW next, NEW files, C!Enter(next, files)
  PROVE  AttemptInv' \/ Moved(next, files, frozen, {})
BY GoesFact DEF C!Enter

LEMMA FailFact ==
  ASSUME AttemptInv, C!Fail
  PROVE  AttemptInv'
<1>1. C!End("failed", TRUE) /\ stray' \subseteq Indexed \X Values
  BY DEF C!Fail, AttemptInv, CaptureTyped
<1> QED
  BY <1>1, AttemptEnds

LEMMA MovedFact ==
  ASSUME AttemptInv, stage # "idle", NEW next \in Stages, NEW files \in SUBSET Files,
         NEW freeze \in Freezes, NEW indexing \in SUBSET Indexed,
         Moved(next, files, freeze, indexing)
  PROVE  /\ CaptureTyped' /\ WatchOK'
         /\ \A k \in {"before", "after", "final"} : Seen(k)' = Seen(k)
<1>1. CaptureTyped'
  BY DEF AttemptInv, CaptureTyped, Moved
<1>2. \A k \in {"before", "after", "final"} : Seen(k)' = Seen(k)
  BY DEF Seen, Moved
<1>3. WatchOK'
  BY <1>2 DEF AttemptInv, WatchOK, Moved
<1> QED
  BY <1>1, <1>2, <1>3

LEMMA TypesFact ==
  ASSUME AttemptInv
  PROVE  /\ frozen \in Freezes /\ stage \in Stages /\ tree \in [Files -> Values]
         /\ cursor \in SUBSET Files /\ C!Present \in SUBSET Files /\ Indexed \in SUBSET Indexed
         /\ {} \in SUBSET Files /\ {} \in SUBSET Indexed
BY DEF AttemptInv, CaptureTyped, C!Present

LEMMA AttemptAfterFirstScan ==
  ASSUME AttemptInv, C!AfterFirstScan
  PROVE  AttemptInv'
<1>1. stage = "before" /\ C!Goes("command", {}, frozen, Indexed)
  BY DEF C!AfterFirstScan, C!ScanEnds
<1> SUFFICES ASSUME Moved("command", {}, frozen, Indexed)
             PROVE  AttemptInv'
  BY <1>1, GoesFact
<1>2. /\ CaptureTyped' /\ WatchOK' /\ \A k \in {"before", "after", "final"} : Seen(k)' = Seen(k)
  BY <1>1, MovedFact, TypesFact DEF Stages
<1>3. stage' = "command" /\ left' = Indexed /\ seen' = seen
  BY DEF Moved
<1>4. GraphOK'
  BY <1>3 DEF GraphOK, Follows, Late
<1> QED
  BY <1>1, <1>2, <1>3, <1>4 DEF AttemptInv, FreshOK, MidOK, AgreeOK, Late

LEMMA AttemptCommandSucceeds ==
  ASSUME AttemptInv, C!CommandSucceeds
  PROVE  AttemptInv'
<1>1. stage = "command" /\ left = {} /\ C!Enter("after", C!Present)
  BY DEF C!CommandSucceeds
<1> SUFFICES ASSUME Moved("after", C!Present, frozen, {})
             PROVE  AttemptInv'
  BY <1>1, EnterFact
<1>2. /\ CaptureTyped' /\ WatchOK' /\ \A k \in {"before", "after", "final"} : Seen(k)' = Seen(k)
  BY <1>1, MovedFact, TypesFact DEF Stages
<1>3. stage' = "after" /\ left' = left /\ UNCHANGED <<seen, graph, tree, reverted, strayed>>
  BY <1>1 DEF Moved
<1>4. GraphOK'
  BY <1>1, <1>2, <1>3 DEF AttemptInv, GraphOK, Late
<1> QED
  BY <1>1, <1>2, <1>3, <1>4 DEF AttemptInv, FreshOK, MidOK, AgreeOK, Late

LEMMA AttemptAfterSecondScan ==
  ASSUME AttemptInv, C!AfterSecondScan
  PROVE  AttemptInv'
<1>1. stage = "after"
  BY DEF C!AfterSecondScan, C!ScanEnds
<1>2. CASE C!Agrees("after") /\ C!Enter("graph", {})
  <2> SUFFICES ASSUME Moved("graph", {}, frozen, {})
               PROVE  AttemptInv'
    BY <1>2, EnterFact
  <2>1. /\ CaptureTyped' /\ WatchOK' /\ \A k \in {"before", "after", "final"} : Seen(k)' = Seen(k)
    BY <1>1, MovedFact, TypesFact DEF Stages
  <2>2. stage' = "graph" /\ left' = {} /\ UNCHANGED <<seen, graph, tree, reverted, strayed>>
    BY DEF Moved
  <2>3. GraphOK'
    BY <1>1, <2>1, <2>2 DEF AttemptInv, GraphOK, Late
  <2>4. AgreeOK'
    BY <1>2, <2>1, <2>2 DEF C!Agrees, Seen, AgreeOK, Late
  <2> QED
    BY <1>1, <2>1, <2>2, <2>3, <2>4 DEF AttemptInv, FreshOK, MidOK, Late
<1>3. CASE C!Fail
  BY <1>3, FailFact
<1> QED
  BY <1>2, <1>3 DEF C!AfterSecondScan

LEMMA AttemptFreezeGraph ==
  ASSUME AttemptInv, C!FreezeGraph
  PROVE  AttemptInv'
<1>1. PICK expected : expected = C!Only(Seen("after"), DOMAIN graph \cup Declared)
  OBVIOUS
<1>2. PICK freeze : freeze = [graph |-> graph, expected |-> expected, sources |-> C!Nothing]
  OBVIOUS
<1>3. stage = "graph" /\ C!Goes("freeze", DOMAIN expected, freeze, {})
  BY <1>1, <1>2 DEF C!FreezeGraph, C!ExpectedOf, Seen
<1>4. expected \in Maps(Files, Readable)
  <2>1. Seen("after") \in Maps(Files, Readable)
    BY ScansFact, ScanFact DEF AttemptInv
  <2> QED
    BY <1>1, <2>1, OnlyFact
<1>5. DOMAIN expected \in SUBSET Files
  BY <1>4, MapOut
<1>6. freeze \in Freezes /\ freeze.graph = graph /\ freeze.expected = expected
  BY <1>2, <1>4, NothingFact DEF Freezes, AttemptInv, CaptureTyped
<1> SUFFICES ASSUME Moved("freeze", DOMAIN expected, freeze, {})
             PROVE  AttemptInv'
  BY <1>3, GoesFact
<1>7. /\ CaptureTyped' /\ WatchOK' /\ \A k \in {"before", "after", "final"} : Seen(k)' = Seen(k)
  BY <1>3, <1>5, <1>6, MovedFact, TypesFact DEF Stages
<1>8. /\ stage' = "freeze" /\ left' = {} /\ frozen' = freeze /\ cursor' = DOMAIN expected
      /\ UNCHANGED <<seen, tree, reverted, strayed>>
  BY DEF Moved
<1>9. GraphOK'
  <2>1. left = {} /\ (~ reverted /\ ~ strayed => Follows(Seen("before"), graph, Indexed \ left, tree))
    BY <1>3 DEF AttemptInv, GraphOK
  <2>2. ~ reverted /\ ~ strayed => Follows(Seen("before"), graph, Indexed, tree)
    BY <2>1
  <2> QED
    BY <1>6, <1>7, <1>8, <2>2 DEF GraphOK, Late
<1>10. AgreeOK'
  <2>1. Seen("after")' = Seen("before")'
    BY <1>3, <1>7 DEF AttemptInv, AgreeOK
  <2>2. frozen'.expected = C!Only(Seen("after")', DOMAIN frozen'.graph \cup Declared)
    BY <1>1, <1>6, <1>7, <1>8
  <2> QED
    BY <1>6, <1>8, <2>1, <2>2 DEF AgreeOK, Late
<1> QED
  BY <1>3, <1>7, <1>8, <1>9, <1>10 DEF AttemptInv, FreshOK, MidOK, Late

LEMMA AttemptFreezeFile ==
  ASSUME AttemptInv, C!FreezeFile
  PROVE  AttemptInv'
<1>1. PICK f : f = C!First(cursor)
  OBVIOUS
<1>2. stage = "freeze" /\ cursor # {}
  BY DEF C!FreezeFile
<1>3. CASE C!Fail
  BY <1>3, FailFact
<1>4. CASE /\ C!Still(f) /\ frozen' = [frozen EXCEPT !.sources = C!Put(frozen.sources, f, tree[f])]
           /\ cursor' = cursor \ {f}
           /\ UNCHANGED <<tree, past, reverted, graph, left, stray, strayed, stage, seen, mid>>
  <2>1. f \in cursor /\ f \in Files
    BY <1>1, <1>2, FirstFact, TypesFact
  <2>2. PICK fr \in Freezes : fr = frozen
    BY TypesFact
  <2>3. f \in DOMAIN fr.expected
    BY <1>2, <2>1, <2>2 DEF AttemptInv, AgreeOK
  <2>4. fr.expected \in Maps(Files, Readable) /\ fr.sources \in Maps(Files, Readable)
    BY <2>2 DEF Freezes
  <2>5. tree[f] \in Readable
    <3>1. fr.expected \in [DOMAIN fr.expected -> Readable]
      BY <2>4, MapOut
    <3> QED
      BY <1>4, <2>2, <2>3, <3>1 DEF C!Still
  <2>6. PICK sources : sources = C!Put(fr.sources, f, tree[f])
    OBVIOUS
  <2>7. sources \in Maps(Files, Readable)
    BY <2>1, <2>4, <2>5, <2>6, PutFact
  <2>8. PICK w : w = [fr EXCEPT !.sources = sources]
    OBVIOUS
  <2>9. w \in Freezes /\ w.graph = fr.graph /\ w.expected = fr.expected
    BY <2>2, <2>7, <2>8 DEF Freezes
  <2>10. frozen' = w
    BY <1>4, <2>2, <2>6, <2>8
  <2>11. CaptureTyped'
    BY <1>4, <2>9, <2>10 DEF AttemptInv, CaptureTyped
  <2>12. \A k \in {"before", "after", "final"} : Seen(k)' = Seen(k)
    BY <1>4 DEF Seen
  <2>13. frozen'.graph = frozen.graph /\ frozen'.expected = frozen.expected
    BY <2>2, <2>9, <2>10
  <2>14. WatchOK' /\ FreshOK'
    BY <1>4, <2>12 DEF AttemptInv, WatchOK, FreshOK
  <2>15. GraphOK'
    BY <1>2, <1>4, <2>12, <2>13 DEF AttemptInv, GraphOK, Late
  <2>16. AgreeOK' /\ MidOK'
    BY <1>2, <1>4, <2>12, <2>13 DEF AttemptInv, AgreeOK, MidOK, Late
  <2> QED
    BY <2>11, <2>14, <2>15, <2>16 DEF AttemptInv
<1> QED
  BY <1>1, <1>3, <1>4 DEF C!FreezeFile, C!world, C!indexer

LEMMA AttemptFreezeEnds ==
  ASSUME AttemptInv, C!FreezeEnds
  PROVE  AttemptInv'
<1>1. stage = "freeze" /\ C!Enter("final", C!Present)
  BY DEF C!FreezeEnds
<1> SUFFICES ASSUME Moved("final", C!Present, frozen, {})
             PROVE  AttemptInv'
  BY <1>1, EnterFact
<1>2. /\ CaptureTyped' /\ WatchOK' /\ \A k \in {"before", "after", "final"} : Seen(k)' = Seen(k)
  BY <1>1, MovedFact, TypesFact DEF Stages
<1>3. /\ stage' = "final" /\ left' = {} /\ mid' = tree /\ cursor' = C!Present
      /\ UNCHANGED <<seen, frozen, tree, reverted, strayed>>
  BY DEF Moved
<1>4. seen["final"] = C!NoScan /\ DOMAIN Seen("final") = {}
  BY <1>1, EmptyFact DEF AttemptInv, FreshOK, Late, Seen
<1>5. GraphOK'
  BY <1>1, <1>2, <1>3 DEF AttemptInv, GraphOK, Late
<1>6. MidOK'
  <2>1. mid' \in [Files -> Values]
    BY <1>3, TypesFact
  <2>2. Follows(Seen("before"), mid, Files, tree)'
    <3>1. \A f \in Files : f \in DOMAIN tree
      BY TypesFact
    <3> QED
      BY <1>2, <1>3, <3>1 DEF Follows
  <2>3. Follows(Seen("before"), mid, DOMAIN Seen("final"), Seen("final"))'
    BY <1>2, <1>4 DEF Follows
  <2>4. \A f \in Files : mid'[f] # Absent => f \in cursor'
    BY <1>3 DEF C!Present
  <2> QED
    BY <2>1, <2>2, <2>3, <2>4 DEF MidOK
<1>7. AgreeOK'
  BY <1>1, <1>2, <1>3 DEF AttemptInv, AgreeOK, Late
<1> QED
  BY <1>2, <1>3, <1>5, <1>6, <1>7 DEF AttemptInv, FreshOK

LEMMA AttemptGoesOn ==
  ASSUME AttemptInv, NEW next \in Late, UNCHANGED <<graph, tree, past, reverted, stray, seen, mid, frozen, cursor>>,
         stage \in Late, stage' = next, left' = {}, strayed' = strayed
  PROVE  AttemptInv'
<1>1. CaptureTyped'
  BY DEF AttemptInv, CaptureTyped, Stages
<1>2. \A k \in {"before", "after", "final"} : Seen(k)' = Seen(k)
  BY DEF Seen
<1>3. WatchOK' /\ FreshOK'
  BY <1>2 DEF AttemptInv, WatchOK, FreshOK, Late
<1>4. GraphOK'
  BY <1>2 DEF AttemptInv, GraphOK, Late
<1>5. MidOK'
  BY <1>2 DEF AttemptInv, MidOK, Late
<1>6. AgreeOK'
  BY <1>2 DEF AttemptInv, AgreeOK, Late
<1> QED
  BY <1>1, <1>3, <1>4, <1>5, <1>6 DEF AttemptInv

LEMMA AttemptAfterFinalScan ==
  ASSUME AttemptInv, C!AfterFinalScan
  PROVE  AttemptInv'
<1>1. stage = "final" /\ cursor = {}
  BY DEF C!AfterFinalScan, C!ScanEnds
<1>2. CASE C!Agrees("final") /\ frozen.expected = frozen.sources /\ C!Enter("analyze", {})
  <2> SUFFICES ASSUME Moved("analyze", {}, frozen, {})
               PROVE  AttemptInv'
    BY <1>2, EnterFact
  <2>1. /\ CaptureTyped' /\ WatchOK' /\ \A k \in {"before", "after", "final"} : Seen(k)' = Seen(k)
    BY <1>1, MovedFact, TypesFact DEF Stages, Late
  <2>2. /\ stage' = "analyze" /\ left' = {} /\ cursor' = cursor
        /\ UNCHANGED <<seen, frozen, tree, reverted, strayed, mid>>
    BY <1>1 DEF Moved
  <2>3. GraphOK'
    BY <1>1, <2>1, <2>2 DEF AttemptInv, GraphOK, Late
  <2>4. MidOK'
    BY <1>1, <2>1, <2>2 DEF AttemptInv, MidOK, Late
  <2>5. Seen("final") = Seen("before")
    BY <1>2 DEF C!Agrees, Seen
  <2>6. AgreeOK'
    BY <1>1, <1>2, <2>1, <2>2, <2>5 DEF AttemptInv, AgreeOK, Late
  <2> QED
    BY <2>1, <2>2, <2>3, <2>4, <2>6 DEF AttemptInv, FreshOK, Late
<1>3. CASE C!Fail
  BY <1>3, FailFact
<1> QED
  BY <1>2, <1>3 DEF C!AfterFinalScan

LEMMA AttemptAnalyze ==
  ASSUME AttemptInv, C!Analyze
  PROVE  AttemptInv'
<1>1. stage = "analyze" /\ C!Enter("communication", {})
  BY DEF C!Analyze
<1>2. stage \in Late /\ cursor = {}
  BY <1>1 DEF AttemptInv, AgreeOK, Late
<1>3. CASE Moved("communication", {}, frozen, {})
  <2>1. /\ stage' = "communication" /\ left' = {} /\ cursor' = cursor
        /\ UNCHANGED <<graph, tree, past, reverted, stray, strayed, seen, mid, frozen>>
    BY <1>2, <1>3 DEF Moved
  <2> QED
    BY <1>2, <2>1, AttemptGoesOn DEF Late
<1> QED
  BY <1>1, <1>3, EnterFact

LEMMA IndexingFact ==
  ASSUME NEW m \in Maps(Indexed, Readable), NEW f \in Indexed, NEW c,
         NEW w, w = C!Indexing(m, f, c)
  PROVE  /\ w \in Maps(Indexed, Readable)
         /\ \A g \in DOMAIN m : g # f => g \in DOMAIN w /\ w[g] = m[g]
         /\ c \in Readable => f \in DOMAIN w /\ w[f] = c
<1>1. DOMAIN m \subseteq Files
  BY MapOut, FilesAssumption
<1>2. CASE c \in Readable
  <2>1. w = C!Put(m, f, c)
    BY <1>2 DEF C!Indexing
  <2>2. w \in Maps(Indexed, Readable)
    BY <1>2, <2>1, PutFact
  <2>3. DOMAIN w = DOMAIN m \cup {f} /\ w[f] = c /\ \A g \in DOMAIN m : g # f => w[g] = m[g]
    BY <2>1 DEF C!Put
  <2> QED
    BY <2>2, <2>3
<1>3. CASE c \notin Readable
  <2>1. w = C!Only(m, Files \ {f})
    BY <1>3 DEF C!Indexing
  <2>2. w \in Maps(Indexed, Readable)
    BY <2>1, OnlyFact
  <2>3. /\ DOMAIN w = DOMAIN m \cap (Files \ {f})
        /\ \A g \in DOMAIN m \cap (Files \ {f}) : w[g] = m[g]
    BY <2>1 DEF C!Only
  <2> QED
    BY <1>1, <1>3, <2>2, <2>3
<1> QED
  BY <1>2, <1>3

LEMMA AttemptIndexFile ==
  ASSUME AttemptInv, C!IndexFile
  PROVE  AttemptInv'
<1>1. PICK f : f = C!First(left)
  OBVIOUS
<1>2. /\ stage = "command" /\ left # {} /\ graph' = C!Indexing(graph, f, tree[f])
      /\ left' = left \ {f}
      /\ UNCHANGED <<tree, past, reverted, stray, strayed, stage, cursor, seen, frozen, mid>>
  BY <1>1 DEF C!IndexFile, C!world, C!capture
<1>3. f \in left /\ left \subseteq Indexed
  <2>1. left \subseteq Indexed /\ left \in SUBSET Files
    BY FilesAssumption DEF AttemptInv, CaptureTyped
  <2> QED
    BY <1>1, <1>2, <2>1, FirstFact
<1>4. PICK g0 \in Maps(Indexed, Readable) : g0 = graph
  BY DEF AttemptInv, CaptureTyped
<1>5. PICK w : w = C!Indexing(g0, f, tree[f])
  OBVIOUS
<1>6. /\ w \in Maps(Indexed, Readable)
      /\ \A g \in DOMAIN g0 : g # f => g \in DOMAIN w /\ w[g] = g0[g]
      /\ tree[f] \in Readable => f \in DOMAIN w /\ w[f] = tree[f]
  BY <1>3, <1>5, IndexingFact
<1>7. graph' = w
  BY <1>2, <1>4, <1>5
<1>8. CaptureTyped'
  BY <1>2, <1>3, <1>6, <1>7 DEF AttemptInv, CaptureTyped
<1>9. \A k \in {"before", "after", "final"} : Seen(k)' = Seen(k)
  BY <1>2 DEF Seen
<1>10. WatchOK' /\ FreshOK'
  BY <1>2, <1>9 DEF AttemptInv, WatchOK, FreshOK
<1>11. \A g \in DOMAIN Seen("before") : Seen("before")[g] \in Readable
  BY ScansFact, ScanFact DEF AttemptInv
<1>12. Follows(Seen("before"), g0, Indexed \ left, tree) =>
         Follows(Seen("before"), w, Indexed \ left', tree)
  BY <1>2, <1>6, <1>11 DEF Follows
<1>13. GraphOK'
  BY <1>2, <1>4, <1>7, <1>9, <1>12 DEF AttemptInv, GraphOK, Late
<1>14. MidOK' /\ AgreeOK'
  BY <1>2 DEF MidOK, AgreeOK, Late
<1> QED
  BY <1>8, <1>10, <1>13, <1>14 DEF AttemptInv

LEMMA AttemptStrayWrite ==
  ASSUME AttemptInv, NEW w, C!StrayWrite(w)
  PROVE  AttemptInv'
<1>1. /\ w \in stray /\ graph' = C!Indexing(graph, w[1], w[2])
      /\ stray' = stray \ {w} /\ strayed' = (stage # "idle")
      /\ UNCHANGED <<tree, past, reverted, left, stage, cursor, seen, frozen, mid>>
  BY DEF C!StrayWrite, C!world, C!capture
<1>2. w[1] \in Indexed
  BY <1>1 DEF AttemptInv, CaptureTyped
<1>3. graph' \in Maps(Indexed, Readable)
  <2>1. graph \in Maps(Indexed, Readable)
    BY DEF AttemptInv, CaptureTyped
  <2> QED
    BY <1>1, <1>2, <2>1, IndexingFact
<1>4. strayed' \in BOOLEAN /\ (stage # "idle" => strayed')
  BY <1>1
<1>5. CaptureTyped'
  BY <1>1, <1>3, <1>4 DEF AttemptInv, CaptureTyped
<1>6. \A k \in {"before", "after", "final"} : Seen(k)' = Seen(k)
  BY <1>1 DEF Seen
<1>7. WatchOK' /\ FreshOK'
  BY <1>1, <1>6 DEF AttemptInv, WatchOK, FreshOK
<1>8. GraphOK'
  BY <1>1, <1>4 DEF AttemptInv, GraphOK, Late
<1>9. MidOK'
  BY <1>1, <1>6 DEF AttemptInv, MidOK
<1>10. AgreeOK'
  BY <1>1, <1>6 DEF AttemptInv, AgreeOK
<1> QED
  BY <1>5, <1>7, <1>8, <1>9, <1>10 DEF AttemptInv

LEMMA AttemptStops ==
  ASSUME AttemptInv, C!StopCommand \/ C!Raise
  PROVE  AttemptInv'
<1>1. stray \subseteq Indexed \X Values /\ left \subseteq Indexed /\ tree \in [Files -> Values]
  BY DEF AttemptInv, CaptureTyped
<1>2. {<<f, tree[f]>> : f \in left} \subseteq Indexed \X Values
  BY <1>1, FilesAssumption
<1>3. CASE C!StopCommand
  <2>1. PICK status : C!Terminated(status)
    BY <1>3 DEF C!StopCommand
  <2>2. stray' \subseteq Indexed \X Values
    BY <1>1, <1>2, <2>1 DEF C!Terminated
  <2> QED
    BY <2>1, <2>2, AttemptEnds DEF C!Terminated
<1>4. CASE C!Raise
  <2>1. (\E known1 \in BOOLEAN : C!End("failed", known1)) /\ stray' = stray
    BY <1>4 DEF C!Raise
  <2> QED
    BY <1>1, <2>1, AttemptEnds
<1> QED
  BY <1>3, <1>4

LEMMA AttemptPublishes ==
  ASSUME AttemptInv, C!StoreCommunication \/ C!StoreEvidence \/ C!PublishRow
  PROVE  AttemptInv'
<1>1. /\ stage \in Late /\ stage' \in {"evidence", "row", "cleanup"}
      /\ UNCHANGED <<tree, past, reverted, graph, left, stray, strayed, cursor, seen, frozen, mid>>
  BY DEF C!StoreCommunication, C!StoreEvidence, C!PublishRow, C!Store, Late, C!world, C!indexer, C!capture
<1>2. left' = {}
  BY <1>1 DEF AttemptInv, GraphOK, Late
<1> QED
  BY <1>1, <1>2, AttemptGoesOn DEF Late

LEMMA AttemptRests ==
  ASSUME AttemptInv
  PROVE  /\ C!Cancel => AttemptInv'
         /\ \A k \in C!Attempts : C!ScavengeStaging(k) => AttemptInv'
         /\ C!Cleanup => AttemptInv'
<1>1. ASSUME C!Cancel
      PROVE  AttemptInv'
  <2>1. UNCHANGED <<tree, past, reverted, graph, left, stray, strayed, stage, cursor, seen, frozen, mid>>
    BY <1>1 DEF C!Cancel, C!world, C!indexer, C!capture
  <2> QED
    BY <2>1, AttemptCalm
<1>2. ASSUME NEW k, C!ScavengeStaging(k)
      PROVE  AttemptInv'
  <2>1. UNCHANGED <<tree, past, reverted, graph, left, stray, strayed, stage, cursor, seen, frozen, mid>>
    BY <1>2 DEF C!ScavengeStaging, C!world, C!indexer, C!capture
  <2> QED
    BY <2>1, AttemptCalm
<1>3. ASSUME C!Cleanup
      PROVE  AttemptInv'
  <2>1. C!Over /\ UNCHANGED <<tree, graph>> /\ stray' \subseteq Indexed \X Values
    BY <1>3 DEF C!Cleanup, AttemptInv, CaptureTyped
  <2> QED
    BY <2>1, AttemptOver
<1> QED
  BY <1>1, <1>2, <1>3

LEMMA ValuesFact == C!Contents \cup {Absent} = Values
BY DEF C!Contents, Values

LEMMA AttemptStep ==
  ASSUME AttemptInv, C!Next
  PROVE  AttemptInv'
<1>1. CASE C!Work
  BY <1>1, AttemptBegin, AttemptReadFile, AttemptAfterFirstScan, AttemptAfterSecondScan,
     AttemptAfterFinalScan, AttemptCommandSucceeds, AttemptFreezeGraph, AttemptFreezeFile,
     AttemptFreezeEnds, AttemptAnalyze, AttemptPublishes, AttemptRests
     DEF C!Work
<1>2. CASE C!IndexFile \/ C!StopCommand \/ C!Raise \/ C!Cancel
  BY <1>2, AttemptIndexFile, AttemptStops, AttemptRests
<1>3. CASE \E f \in Files, c \in C!Contents \cup {Absent} : C!Edit(f, c)
  BY <1>3, AttemptEdit, ValuesFact
<1>4. CASE \E c \in C!Contents \cup {Absent} : C!ReadUnstable(c)
  BY <1>4, AttemptReadUnstable, ValuesFact
<1>5. CASE \E w \in Files \X (C!Contents \cup {Absent}) : C!StrayWrite(w)
  BY <1>5, AttemptStrayWrite
<1>6. CASE \E k \in C!Attempts : C!ScavengeStaging(k)
  BY <1>6, AttemptRests
<1> QED
  BY <1>1, <1>2, <1>3, <1>4, <1>5, <1>6 DEF C!Next

LEMMA AttemptInit ==
  ASSUME C!Init
  PROVE  AttemptInv
<1>1. /\ tree \in Trees /\ graph \in Graphs /\ past = [f \in Files |-> {}] /\ reverted = FALSE
      /\ left = {} /\ stray = {} /\ strayed = FALSE /\ stage = "idle" /\ cursor = {}
      /\ seen = [k \in C!Scans |-> C!NoScan] /\ frozen = C!NoFreeze
  BY DEF C!Init
<1>2. tree \in [Files -> Values] /\ graph \in Maps(Indexed, Readable)
  BY <1>1, WorldsAssumption DEF Values, Maps, C!FileMaps
<1>3. CaptureTyped
  BY <1>1, <1>2, EmptyFact DEF CaptureTyped, Stages
<1>4. seen["before"] = C!NoScan /\ seen["final"] = C!NoScan
  BY <1>1, ScansFact
<1> QED
  BY <1>1, <1>3, <1>4 DEF AttemptInv, WatchOK, FreshOK, GraphOK, MidOK, AgreeOK, Late

-----------------------------------------------------------------------------
(* Attempts and what they publish *)

Early == {"before", "command", "after", "graph", "freeze", "final", "analyze", "communication"}

PublishedOK(s) ==
    /\ s.communication = [attempt |-> s.id] /\ s.id \in C!Attempts /\ s.id <= attempt
    /\ outcome[s.id] = "completed" /\ "graph" \in DOMAIN s.evidence
    /\ s.evidence \in store /\ s.communication \in store

ResultInv ==
    /\ attempt \in 0 .. MaxAttempts /\ outcome \in [C!Attempts -> Statuses]
    /\ staging \subseteq C!Attempts
    /\ stage \notin {"idle", "cleanup"} => outcome[attempt] = "running" /\ attempt \in staging
    /\ stage # "idle" => attempt \in C!Attempts
    /\ stage \in {"evidence", "row"} => C!Communication \in store
    /\ stage = "row" => C!Manifest \in store
    /\ \A s \in published : PublishedOK(s)

LEMMA ResultEnds ==
  ASSUME ResultInv, stage \notin {"idle", "cleanup"}, NEW status \in {"failed", "cancelled"},
         NEW reclaimed, C!End(status, reclaimed)
  PROVE  ResultInv'
<1>1. /\ stage' = "idle" /\ outcome' = [outcome EXCEPT ![attempt] = status]
      /\ staging' \subseteq staging /\ UNCHANGED <<attempt, store, published>>
  BY DEF C!End, C!Over
<1>2. outcome' \in [C!Attempts -> Statuses] /\ \A k \in C!Attempts : k # attempt => outcome'[k] = outcome[k]
  BY <1>1 DEF ResultInv, Statuses
<1>3. \A s \in published' : PublishedOK(s)'
  <2> SUFFICES ASSUME NEW s \in published
               PROVE  PublishedOK(s)'
    BY <1>1
  <2>1. PublishedOK(s) /\ outcome[attempt] = "running"
    BY DEF ResultInv
  <2>2. s.id # attempt
    BY <2>1 DEF PublishedOK
  <2> QED
    BY <1>1, <1>2, <2>1, <2>2 DEF PublishedOK
<1> QED
  BY <1>1, <1>2, <1>3 DEF ResultInv

LEMMA ResultStays ==
  ASSUME ResultInv, UNCHANGED <<attempt, outcome, staging, store, published>>,
         \/ stage \in Early /\ stage' \in Early
         \/ UNCHANGED <<stage, seen, frozen>>
  PROVE  ResultInv'
<1>1. \A s \in published' : PublishedOK(s)'
  BY DEF ResultInv, PublishedOK
<1>2. CASE stage \in Early /\ stage' \in Early
  BY <1>1, <1>2 DEF ResultInv, Early
<1>3. CASE UNCHANGED <<stage, seen, frozen>>
  BY <1>1, <1>3 DEF ResultInv, C!Manifest, C!Communication
<1> QED
  BY <1>2, <1>3

(* What happens before anything is stored. *)
Ended == \E status \in {"failed", "cancelled"} : \E reclaimed \in BOOLEAN : C!End(status, reclaimed)
EarlyStep ==
    /\ stage \in Early
    /\ Ended \/ (stage' \in Early /\ UNCHANGED <<attempt, outcome, staging, store, published>>)

LEMMA GoesEarly ==
  ASSUME stage \in Early, NEW next \in Early, NEW files, NEW freeze, NEW indexing,
         C!Goes(next, files, freeze, indexing)
  PROVE  EarlyStep
<1>1. CASE cancelled
  BY <1>1 DEF C!Goes, EarlyStep, Ended
<1>2. CASE ~ cancelled
  BY <1>2 DEF C!Goes, C!results, EarlyStep
<1> QED
  BY <1>1, <1>2

LEMMA EarlySteps ==
  ASSUME \/ C!ReadFile \/ C!AfterFirstScan \/ C!AfterSecondScan \/ C!AfterFinalScan
         \/ C!CommandSucceeds \/ C!FreezeGraph \/ C!FreezeFile \/ C!FreezeEnds \/ C!Analyze
         \/ C!IndexFile \/ \E c \in Values : C!ReadUnstable(c)
  PROVE  EarlyStep
<1>1. CASE C!ReadFile \/ \E c \in Values : C!ReadUnstable(c)
  BY <1>1, ScansFact DEF C!ReadFile, C!ReadUnstable, C!Scanning, C!results, EarlyStep, Early
<1>2. CASE C!AfterFirstScan
  BY <1>2, GoesEarly DEF C!AfterFirstScan, C!ScanEnds, Early
<1>3. CASE C!AfterSecondScan
  <2>1. stage = "after" /\ (C!Fail \/ C!Enter("graph", {}))
    BY <1>3 DEF C!AfterSecondScan, C!ScanEnds
  <2>2. CASE C!Fail
    BY <2>1, <2>2 DEF C!Fail, EarlyStep, Ended, Early
  <2> QED
    BY <2>1, <2>2, GoesEarly DEF C!Enter, Early
<1>4. CASE C!AfterFinalScan
  <2>1. stage = "final" /\ (C!Fail \/ C!Enter("analyze", {}))
    BY <1>4 DEF C!AfterFinalScan, C!ScanEnds
  <2>2. CASE C!Fail
    BY <2>1, <2>2 DEF C!Fail, EarlyStep, Ended, Early
  <2> QED
    BY <2>1, <2>2, GoesEarly DEF C!Enter, Early
<1>5. CASE C!CommandSucceeds
  BY <1>5, GoesEarly DEF C!CommandSucceeds, C!Enter, Early
<1>6. CASE C!FreezeGraph
  <2>1. stage = "graph" /\ \E files, freeze : C!Goes("freeze", files, freeze, {})
    BY <1>6 DEF C!FreezeGraph
  <2> QED
    BY <2>1, GoesEarly DEF Early
<1>7. CASE C!FreezeFile
  <2>1. CASE C!Fail
    BY <1>7, <2>1 DEF C!FreezeFile, C!Fail, EarlyStep, Ended, Early
  <2>2. CASE ~ C!Fail
    BY <1>7, <2>2 DEF C!FreezeFile, C!results, EarlyStep, Early
  <2> QED
    BY <2>1, <2>2
<1>8. CASE C!FreezeEnds
  BY <1>8, GoesEarly DEF C!FreezeEnds, C!Enter, Early
<1>9. CASE C!Analyze
  BY <1>9, GoesEarly DEF C!Analyze, C!Enter, Early
<1>10. CASE C!IndexFile
  BY <1>10 DEF C!IndexFile, C!results, EarlyStep, Early
<1> QED
  BY <1>1, <1>2, <1>3, <1>4, <1>5, <1>6, <1>7, <1>8, <1>9, <1>10

LEMMA ResultEarly ==
  ASSUME ResultInv, EarlyStep
  PROVE  ResultInv'
<1>1. CASE Ended
  BY <1>1, ResultEnds DEF Ended, EarlyStep, Early
<1>2. CASE stage' \in Early /\ UNCHANGED <<attempt, outcome, staging, store, published>>
  BY <1>2, ResultStays DEF EarlyStep
<1> QED
  BY <1>1, <1>2 DEF EarlyStep

LEMMA ResultStops ==
  ASSUME ResultInv, C!StopCommand \/ C!Raise
  PROVE  ResultInv'
<1>1. CASE C!StopCommand
  <2>1. stage = "command" /\ \E status \in {"failed", "cancelled"} : C!Terminated(status)
    BY <1>1 DEF C!StopCommand
  <2> QED
    BY <2>1, ResultEnds DEF C!Terminated
<1>2. CASE C!Raise
  <2>1. stage \notin {"idle", "cleanup"} /\ \E known1 \in BOOLEAN : C!End("failed", known1)
    BY <1>2 DEF C!Raise
  <2> QED
    BY <2>1, ResultEnds
<1> QED
  BY <1>1, <1>2

LEMMA ResultAside ==
  ASSUME ResultInv,
         \/ C!Cancel \/ \E f \in Files, c \in Values : C!Edit(f, c)
         \/ \E w \in Files \X Values : C!StrayWrite(w)
  PROVE  ResultInv'
<1>1. UNCHANGED <<attempt, outcome, staging, store, published, stage, seen, frozen>>
  BY DEF C!Cancel, C!Edit, C!StrayWrite, C!results, C!capture
<1> QED
  BY <1>1, ResultStays

LEMMA ResultBegin ==
  ASSUME ResultInv, C!Begin
  PROVE  ResultInv'
<1>1. /\ stage = "idle" /\ attempt < MaxAttempts /\ attempt' = attempt + 1 /\ stage' = "before"
      /\ staging' = staging \cup {attempt + 1} /\ outcome' = [outcome EXCEPT ![attempt + 1] = "running"]
      /\ UNCHANGED <<store, published>>
  BY DEF C!Begin
<1>2. attempt \in Nat /\ attempt' \in 0 .. MaxAttempts /\ attempt' \in C!Attempts
  BY <1>1, FilesAssumption DEF ResultInv, C!Attempts
<1>3. /\ outcome' \in [C!Attempts -> Statuses] /\ outcome'[attempt'] = "running"
      /\ \A k \in C!Attempts : k # attempt' => outcome'[k] = outcome[k]
  BY <1>1, <1>2 DEF ResultInv, Statuses
<1>4. staging' \subseteq C!Attempts /\ attempt' \in staging'
  BY <1>1, <1>2 DEF ResultInv
<1>5. \A s \in published' : PublishedOK(s)'
  <2> SUFFICES ASSUME NEW s \in published
               PROVE  PublishedOK(s)'
    BY <1>1
  <2>1. PublishedOK(s)
    BY DEF ResultInv
  <2>2. s.id \in Nat /\ s.id <= attempt /\ s.id \in C!Attempts
    BY <2>1 DEF PublishedOK, C!Attempts
  <2>3. s.id # attempt' /\ s.id <= attempt'
    BY <1>1, <1>2, <2>2
  <2> QED
    BY <1>1, <1>3, <2>1, <2>2, <2>3 DEF PublishedOK
<1> QED
  BY <1>1, <1>2, <1>3, <1>4, <1>5 DEF ResultInv

LEMMA ResultStore ==
  ASSUME ResultInv, C!StoreCommunication \/ C!StoreEvidence
  PROVE  ResultInv'
<1>1. /\ stage \notin {"idle", "cleanup"} /\ store \subseteq store'
      /\ UNCHANGED <<attempt, outcome, staging, published, seen, frozen>>
  BY DEF C!StoreCommunication, C!StoreEvidence, C!Store, C!capture
<1>2. C!Communication' = C!Communication /\ C!Manifest' = C!Manifest
  BY <1>1 DEF C!Communication, C!Manifest
<1>3. \/ stage' = "evidence" /\ C!Communication \in store'
      \/ stage = "evidence" /\ stage' = "row" /\ C!Manifest \in store'
  BY DEF C!StoreCommunication, C!StoreEvidence, C!Store
<1>4. \A s \in published' : PublishedOK(s)'
  BY <1>1 DEF ResultInv, PublishedOK
<1> QED
  BY <1>1, <1>2, <1>3, <1>4 DEF ResultInv

LEMMA ResultPublish ==
  ASSUME ResultInv, C!PublishRow
  PROVE  ResultInv'
<1>1. /\ stage = "row" /\ stage' = "cleanup" /\ UNCHANGED <<attempt, staging, store>>
      /\ published' = IF C!Known THEN published
                      ELSE published \cup {[id |-> attempt, evidence |-> C!Manifest,
                                            communication |-> C!Communication]}
      /\ outcome' = [outcome EXCEPT ![attempt] = IF C!Known THEN "unchanged" ELSE "completed"]
  BY DEF C!PublishRow
<1>2. /\ attempt \in C!Attempts /\ outcome[attempt] = "running" /\ attempt \in Nat
      /\ C!Communication \in store /\ C!Manifest \in store
  BY <1>1 DEF ResultInv, C!Attempts
<1>3. /\ outcome' \in [C!Attempts -> Statuses]
      /\ outcome'[attempt] = IF C!Known THEN "unchanged" ELSE "completed"
      /\ \A k \in C!Attempts : k # attempt => outcome'[k] = outcome[k]
  BY <1>1, <1>2 DEF ResultInv, Statuses
<1>4. ASSUME NEW s \in published
      PROVE  PublishedOK(s)'
  <2>1. PublishedOK(s)
    BY DEF ResultInv
  <2>2. s.id # attempt
    BY <1>2, <2>1 DEF PublishedOK
  <2> QED
    BY <1>1, <1>3, <2>1, <2>2 DEF PublishedOK
<1>5. ASSUME ~ C!Known, NEW s, s = [id |-> attempt, evidence |-> C!Manifest,
                                     communication |-> C!Communication]
      PROVE  PublishedOK(s)'
  <2>1. s.id = attempt /\ s.evidence = C!Manifest /\ s.communication = C!Communication
    BY <1>5
  <2>2. C!Communication = [attempt |-> attempt] /\ "graph" \in DOMAIN C!Manifest
    BY DEF C!Communication, C!Manifest
  <2> QED
    BY <1>1, <1>2, <1>3, <1>5, <2>1, <2>2 DEF PublishedOK
<1>6. \A s \in published' : PublishedOK(s)'
  BY <1>1, <1>4, <1>5
<1> QED
  BY <1>1, <1>2, <1>3, <1>6 DEF ResultInv

LEMMA ResultCleanup ==
  ASSUME ResultInv, C!Cleanup
  PROVE  ResultInv'
<1>1. /\ stage' = "idle" /\ staging' \subseteq staging /\ UNCHANGED <<attempt, outcome, published>>
      /\ store \ {C!Communication} \subseteq store'
      /\ outcome[attempt] # "unchanged" => store' = store
  BY DEF C!Cleanup, C!Over, C!Reclaimed
<1>2. ASSUME NEW s \in published
      PROVE  PublishedOK(s)'
  <2>1. PublishedOK(s)
    BY DEF ResultInv
  <2>2. CASE outcome[attempt] = "unchanged"
    <3>1. s.id # attempt
      BY <2>1, <2>2 DEF PublishedOK
    <3>2. PICK com : com = [attempt |-> attempt]
      OBVIOUS
    <3>3. com = C!Communication /\ com.attempt = attempt /\ DOMAIN com = {"attempt"}
      BY <3>2 DEF C!Communication
    <3>4. s.communication.attempt = s.id /\ "graph" \in DOMAIN s.evidence
      BY <2>1 DEF PublishedOK
    <3>5. s.communication # com
      BY <3>1, <3>3, <3>4
    <3>6. s.evidence # com
      BY <3>3, <3>4
    <3>7. s.evidence \in store' /\ s.communication \in store'
      BY <1>1, <2>1, <3>3, <3>5, <3>6 DEF PublishedOK
    <3> QED
      BY <1>1, <2>1, <3>7 DEF PublishedOK
  <2>3. CASE outcome[attempt] # "unchanged"
    BY <1>1, <2>1, <2>3 DEF PublishedOK
  <2> QED
    BY <2>2, <2>3
<1> QED
  BY <1>1, <1>2 DEF ResultInv

LEMMA ResultScavenge ==
  ASSUME ResultInv, NEW k, C!ScavengeStaging(k)
  PROVE  ResultInv'
<1>1. /\ k \notin C!Protected /\ staging' = staging \ {k} /\ k \in staging
      /\ UNCHANGED <<attempt, outcome, store, published, stage, seen, frozen>>
  BY DEF C!ScavengeStaging, C!capture
<1>2. outcome[k] # "running"
  BY <1>1 DEF C!Protected
<1>3. C!Communication' = C!Communication /\ C!Manifest' = C!Manifest
  BY <1>1 DEF C!Communication, C!Manifest
<1>4. \A s \in published' : PublishedOK(s)'
  BY <1>1 DEF ResultInv, PublishedOK
<1> QED
  BY <1>1, <1>2, <1>3, <1>4 DEF ResultInv

LEMMA ResultStep ==
  ASSUME ResultInv, C!Next
  PROVE  ResultInv'
<1>1. CASE C!Begin \/ C!StoreCommunication \/ C!StoreEvidence \/ C!PublishRow \/ C!Cleanup
  BY <1>1, ResultBegin, ResultStore, ResultPublish, ResultCleanup
<1>2. CASE \/ C!ReadFile \/ C!AfterFirstScan \/ C!AfterSecondScan \/ C!AfterFinalScan
           \/ C!CommandSucceeds \/ C!FreezeGraph \/ C!FreezeFile \/ C!FreezeEnds \/ C!Analyze
           \/ C!IndexFile
  BY <1>2, EarlySteps, ResultEarly
<1>3. CASE \E c \in C!Contents \cup {Absent} : C!ReadUnstable(c)
  BY <1>3, EarlySteps, ResultEarly, ValuesFact
<1>4. CASE C!StopCommand \/ C!Raise
  BY <1>4, ResultStops
<1>5. CASE \/ C!Cancel \/ \E f \in Files, c \in C!Contents \cup {Absent} : C!Edit(f, c)
           \/ \E w \in Files \X (C!Contents \cup {Absent}) : C!StrayWrite(w)
  BY <1>5, ResultAside, ValuesFact
<1>6. CASE \E k \in C!Attempts : C!ScavengeStaging(k)
  BY <1>6, ResultScavenge
<1> QED
  BY <1>1, <1>2, <1>3, <1>4, <1>5, <1>6 DEF C!Next, C!Work

LEMMA ResultInit ==
  ASSUME C!Init
  PROVE  ResultInv
BY FilesAssumption DEF C!Init, ResultInv, Statuses

-----------------------------------------------------------------------------
CaptureInv == focus = "capture" => AttemptInv /\ ResultInv

LEMMA FrozenFact ==
  ASSUME AttemptInv, C!Verified
  PROVE  /\ stage \in Late /\ frozen \in Freezes
         /\ Seen("after") = Seen("before") /\ Seen("final") = Seen("before")
         /\ DOMAIN frozen.sources = DOMAIN Seen("before") \cap (DOMAIN frozen.graph \cup Declared)
         /\ \A f \in DOMAIN frozen.sources : frozen.sources[f] = Seen("before")[f]
         /\ ~ reverted => \A f \in DOMAIN Seen("before") : mid[f] = Seen("before")[f]
<1>1. stage \in Late
  BY DEF C!Verified, C!Publishing, Late
<1>2. /\ Seen("after") = Seen("before") /\ Seen("final") = Seen("before")
      /\ frozen.sources = C!Only(Seen("before"), DOMAIN frozen.graph \cup Declared)
  BY <1>1 DEF AttemptInv, AgreeOK
<1>3. ~ reverted => Follows(Seen("before"), mid, DOMAIN Seen("before"), Seen("before"))
  BY <1>1, <1>2 DEF AttemptInv, MidOK
<1>4. /\ DOMAIN frozen.sources = DOMAIN Seen("before") \cap (DOMAIN frozen.graph \cup Declared)
      /\ \A f \in DOMAIN frozen.sources : frozen.sources[f] = Seen("before")[f]
  BY <1>2 DEF C!Only
<1> QED
  BY <1>1, <1>2, <1>3, <1>4, TypesFact DEF Follows

LEMMA CaptureImplies ==
  ASSUME AttemptInv, ResultInv
  PROVE  C!PublishedIsOneState
<1>1. C!TypeOK
  <2>1. /\ tree \in [Files -> C!Contents \cup {Absent}] /\ left \subseteq Indexed /\ cursor \subseteq Files
        /\ graph \in C!FileMaps(Indexed, Readable)
        /\ \A p1 \in C!Scans : seen[p1] \in C!ScanResults
    BY ValuesFact DEF AttemptInv, CaptureTyped, Maps
  <2>2. /\ frozen.graph \in C!FileMaps(Indexed, Readable)
        /\ frozen.expected \in C!FileMaps(Files, Readable)
        /\ frozen.sources \in C!FileMaps(Files, Readable)
    BY TypesFact DEF Freezes, Maps
  <2>3. /\ attempt \in 0 .. MaxAttempts /\ staging \subseteq C!Attempts
        /\ outcome \in [C!Attempts -> {"none", "running", "failed", "cancelled",
                                       "completed", "unchanged"}]
    BY DEF ResultInv, Statuses
  <2> QED
    BY <2>1, <2>2, <2>3 DEF C!TypeOK
<1>2. C!FrozenIsOneState
  BY FrozenFact DEF C!FrozenIsOneState
<1>3. C!GraphIsOfSources
  <2> SUFFICES ASSUME C!Verified, ~ reverted, ~ strayed, NEW f \in Indexed \cap DOMAIN frozen.sources
               PROVE  f \in DOMAIN frozen.graph /\ frozen.graph[f] = frozen.sources[f]
    BY DEF C!GraphIsOfSources
  <2>1. f \in DOMAIN Seen("before") /\ frozen.sources[f] = Seen("before")[f] /\ mid[f] = Seen("before")[f]
    BY FrozenFact
  <2>2. Follows(Seen("before"), frozen.graph, Indexed, mid)
    BY FrozenFact DEF AttemptInv, GraphOK
  <2> QED
    BY <2>1, <2>2 DEF Follows
<1>4. C!CompleteMeansAll
  <2> SUFFICES ASSUME C!Verified, NEW f \in Declared \cup DOMAIN frozen.graph, mid[f] \in Readable
               PROVE  f \in DOMAIN frozen.sources \cup seen["final"].excluded
    BY DEF C!CompleteMeansAll
  <2>1. f \in Files
    <3>1. frozen.graph \in Maps(Indexed, Readable)
      BY TypesFact DEF Freezes
    <3>2. DOMAIN frozen.graph \subseteq Indexed
      BY <3>1, MapOut
    <3> QED
      BY <3>2, FilesAssumption
  <2>2. mid[f] # Absent
    BY ContentsAssumption
  <2>3. stage \in Late /\ cursor = {}
    BY FrozenFact DEF AttemptInv, AgreeOK
  <2>4. f \in DOMAIN Seen("final") \cup seen["final"].excluded
    BY <2>1, <2>2, <2>3 DEF AttemptInv, MidOK
  <2> QED
    BY <2>4, FrozenFact
<1>5. C!PublishedIsStored
  BY DEF C!PublishedIsStored, ResultInv, PublishedOK
<1>6. C!WorkKeepsStaging
  BY DEF C!WorkKeepsStaging, ResultInv
<1> QED
  BY <1>1, <1>2, <1>3, <1>4, <1>5, <1>6 DEF C!PublishedIsOneState

(* What a capture publishes is one state of the working tree, whole, and   *)
(* stays stored, for any files, contents and number of edits and attempts. *)
THEOREM PublishedIsOneStateHolds == Spec => []PublishedIsOneState
<1>1. Init => CaptureInv
  BY AttemptInit, ResultInit DEF Init, CaptureInv
<1>2. CaptureInv /\ [Next]_<<cataloging, storing, now, capturing, upgrading, reviewing, focus>> => CaptureInv'
  <2> SUFFICES ASSUME CaptureInv, [Next]_<<cataloging, storing, now, capturing, upgrading, reviewing, focus>>
               PROVE  CaptureInv'
    OBVIOUS
  <2>1. CASE focus = "capture" /\ focus' = focus /\ C!Next
    BY <2>1, AttemptStep, ResultStep DEF CaptureInv
  <2>2. CASE UNCHANGED <<capturing, focus>>
    <3>1. CASE focus = "capture"
      <4>1. UNCHANGED <<tree, past, reverted, graph, left, stray, strayed, stage, cursor, seen,
                        frozen, mid, attempt, outcome, staging, store, published>>
        BY <2>2 DEF capturing
      <4> QED
        BY <2>2, <3>1, <4>1, AttemptCalm, ResultStays DEF CaptureInv
    <3> QED
      BY <2>2, <3>1 DEF CaptureInv
  <2> QED
    BY <2>1, <2>2 DEF Next
<1>3. CaptureInv => PublishedIsOneState
  BY CaptureImplies DEF CaptureInv, PublishedIsOneState
<1> QED
  BY <1>1, <1>2, <1>3, PTL DEF Spec

-----------------------------------------------------------------------------
(* Members, their views and the requests about them.  A member keeps to    *)
(* its scope, a view that there is stays.                                  *)

Rows == [scope : Scopes \cup {None}, name : Names \cup {None}, path : Paths \cup {None},
         identity : Paths \cup {None}, retired : BOOLEAN]
ViewRows == [lifecycle : {"ephemeral", "pinned"}, scope : Scopes,
             selector : {"scope", "members", "explicit"}, expires : G!Times \cup {None},
             accessed : 0 .. MaxTime, members : G!Mappings]
Views == {r \in ViewRows : G!Checked(r)}
Refs == [snapshot : G!Snapshots, view : G!ViewIds, expires : G!Times \cup {None},
         owner : {"ephemeral_view", "pinned_view"}]

MembersOK ==
    /\ scopes \in [Scopes -> {"none", "active", "retired"}]
    /\ members \in [Members -> Rows] /\ current \in [Members -> 0 .. MaxSnapshots]
    /\ \A m \in Members : /\ members[m].path = members[m].identity
                          /\ members[m] = G!NoMember \/ members[m].scope \in Scopes
    /\ \A m, n \in G!Active : members[m].path = members[n].path => m = n

OfScope(mapping, s, rows) ==
    s \in Scopes /\ \A m \in DOMAIN mapping : m \in Members /\ rows[m].scope = s
Refers(r, s, v, view) ==
    /\ r.snapshot = s /\ r.view = v
    /\ IF view.lifecycle = "ephemeral" THEN r.owner = "ephemeral_view" /\ r.expires = view.expires
       ELSE r.owner = "pinned_view" /\ r.expires = None

ViewsOK ==
    /\ now \in 0 .. MaxTime /\ views \in [G!ViewIds -> Views \cup {G!NoView}]
    /\ refs \subseteq Refs /\ \A r \in refs : r.expires = None => r.owner = "pinned_view"
    /\ \A v \in G!ViewIds : views[v] # G!NoView =>
         /\ OfScope(views[v].members, views[v].scope, members)
         /\ \A s \in G!Used(views[v].members) : \E r \in refs : Refers(r, s, v, views[v])

RequestOK(w, rows, vs) ==
    /\ w.at = "write" =>
         /\ w.member \in Members /\ rows[w.member].scope \in Scopes
         /\ w.row \in Rows /\ w.row.path = w.row.identity
         /\ w.name \in Names \cup {None} /\ w.path \in Paths \cup {None}
    /\ w.at = "retire" => w \in [at : {"retire"}, scope : Scopes, left : SUBSET Members]
    /\ w.at = "mark" => w.scope \in Scopes
    /\ w.at = "insert" =>
         /\ w.selector \in {"scope", "members", "explicit"} /\ w.members \in G!Mappings
         /\ OfScope(w.members, w.scope, rows)
    /\ w.at \in {"touch", "pin", "refresh"} => w.view \in G!ViewIds /\ vs[w.view] # G!NoView
    /\ w.at = "touch" => w.time \in 0 .. MaxTime

RequestsOK == DOMAIN request = Requests /\ \A c \in Requests : RequestOK(request[c], members, views)
CatalogInv == MembersOK /\ ViewsOK /\ RequestsOK

(* What every step keeps. *)
Keeps ==
    /\ \A m \in Members : members[m].scope \in Scopes => members'[m].scope = members[m].scope
    /\ \A v \in G!ViewIds : views[v] # G!NoView => views'[v] # G!NoView

LEMMA NoMemberFact ==
  /\ G!NoMember \in Rows /\ G!NoMember.scope = None /\ None \notin Scopes
  /\ G!NoMember.path = G!NoMember.identity
BY UpgradeAssumption DEF G!NoMember, Rows

LEMMA KnownFact ==
  ASSUME MembersOK, NEW m
  PROVE  m \in G!Known <=> m \in Members /\ members[m].scope \in Scopes
BY NoMemberFact DEF MembersOK, G!Known

LEMMA ScopeKept ==
  ASSUME Keeps, NEW mapping, NEW s, OfScope(mapping, s, members)
  PROVE  OfScope(mapping, s, members')
BY DEF Keeps, OfScope

LEMMA RequestKept ==
  ASSUME Keeps, NEW w, RequestOK(w, members, views)
  PROVE  RequestOK(w, members', views')
<1>1. w.at = "insert" => OfScope(w.members, w.scope, members')
  BY ScopeKept DEF RequestOK
<1> QED
  BY <1>1 DEF RequestOK, Keeps

LEMMA RequestsKept ==
  ASSUME RequestsOK, Keeps, UNCHANGED request
  PROVE  RequestsOK'
BY RequestKept DEF RequestsOK

LEMMA RequestSet ==
  ASSUME RequestsOK, Keeps, NEW c \in Requests, NEW w, RequestOK(w, members', views'), G!Does(c, w)
  PROVE  RequestsOK'
<1>1. /\ DOMAIN request' = Requests /\ request'[c] = w
      /\ \A d \in Requests : d # c => request'[d] = request[d]
  BY DEF RequestsOK, G!Does
<1>2. \A d \in Requests : RequestOK(request[d], members', views')
  BY RequestKept DEF RequestsOK
<1> QED
  BY <1>1, <1>2 DEF RequestsOK

LEMMA RequestDone ==
  ASSUME RequestsOK, Keeps, NEW c \in Requests, G!Done(c)
  PROVE  RequestsOK'
<1>1. RequestOK(G!Idle, members', views')
  BY DEF RequestOK, G!Idle
<1>2. G!Does(c, G!Idle)
  BY DEF G!Done, G!Does
<1> QED
  BY <1>1, <1>2, RequestSet

LEMMA ViewsKept ==
  ASSUME ViewsOK, Keeps, UNCHANGED <<views, refs>>, now' \in 0 .. MaxTime
  PROVE  ViewsOK'
<1>1. \A v \in G!ViewIds :
        views[v] # G!NoView => OfScope(views[v].members, views[v].scope, members')
  BY ScopeKept DEF ViewsOK
<1> QED
  BY <1>1 DEF ViewsOK

LEMMA MemberSet ==
  ASSUME MembersOK, NEW m \in Members, NEW r \in Rows, r.path = r.identity, r.scope \in Scopes,
         members' = [members EXCEPT ![m] = r], UNCHANGED <<scopes, current, views>>,
         members[m].scope \in Scopes => r.scope = members[m].scope,
         r.retired \/ \A n \in G!Active : n # m => members[n].path # r.path
  PROVE  MembersOK' /\ Keeps
<1>1. /\ members' \in [Members -> Rows] /\ members'[m] = r
      /\ \A n \in Members : n # m => members'[n] = members[n]
  BY DEF MembersOK
<1>2. r # G!NoMember
  BY NoMemberFact
<1>3. \A n \in Members : /\ members'[n].path = members'[n].identity
                         /\ members'[n] = G!NoMember \/ members'[n].scope \in Scopes
  BY <1>1 DEF MembersOK
<1>4. ASSUME NEW n \in G!Active', n # m
      PROVE  n \in G!Active /\ n \in Members /\ members'[n] = members[n]
  BY <1>1, <1>4 DEF G!Active, G!Known
<1>5. m \in G!Active' => ~ r.retired
  BY <1>1 DEF G!Active
<1>6. \A i, n \in G!Active' : members'[i].path = members'[n].path => i = n
  <2> SUFFICES ASSUME NEW i \in G!Active', NEW n \in G!Active', members'[i].path = members'[n].path,
                      i # n
               PROVE  FALSE
    OBVIOUS
  <2>1. CASE i # m /\ n # m
    BY <1>4, <2>1 DEF MembersOK
  <2>2. CASE i = m
    BY <1>1, <1>4, <1>5, <2>2
  <2>3. CASE n = m
    BY <1>1, <1>4, <1>5, <2>3
  <2> QED
    BY <2>1, <2>2, <2>3
<1>7. MembersOK'
  BY <1>1, <1>3, <1>6 DEF MembersOK
<1>8. Keeps
  BY <1>1 DEF Keeps
<1> QED
  BY <1>7, <1>8

(* A row that the unique indexes let in. *)
LEMMA UniqueFact ==
  ASSUME MembersOK, NEW m \in Members, NEW r \in Rows, r.path = r.identity, r.scope \in Scopes,
         NEW rows, rows = [members EXCEPT ![m] = r], G!Unique(rows)
  PROVE  r.retired \/ \A n \in G!Active : n # m => members[n].path # r.path
<1> SUFFICES ASSUME ~ r.retired, NEW n \in G!Active, n # m
             PROVE  members[n].path # r.path
  OBVIOUS
<1>1. rows[m] = r /\ n \in Members /\ rows[n] = members[n]
  BY DEF MembersOK, G!Active, G!Known
<1>2. m \in {k \in Members : rows[k] # G!NoMember}
  BY <1>1, NoMemberFact
<1>3. n \in {k \in Members : rows[k] # G!NoMember} /\ ~ members[n].retired
  BY <1>1 DEF G!Active, G!Known
<1>4. rows[m].retired \/ rows[n].retired \/ rows[m].identity # rows[n].identity
  BY <1>2, <1>3 DEF G!Unique
<1> QED
  BY <1>1, <1>3, <1>4 DEF MembersOK

LEMMA CatalogMembers ==
  ASSUME CatalogInv, MembersOK', Keeps, UNCHANGED <<views, refs, now>>, RequestsOK'
  PROVE  CatalogInv'
BY ViewsKept DEF CatalogInv, ViewsOK

LEMMA RetiredFact ==
  ASSUME MembersOK, NEW m \in G!Active, members' = G!Retired(m), UNCHANGED <<scopes, current, views>>
  PROVE  MembersOK' /\ Keeps
<1>1. m \in Members /\ members[m].scope \in Scopes
  BY KnownFact DEF G!Active
<1>2. PICK old \in Rows : old = members[m] /\ old.path = old.identity
  BY <1>1 DEF MembersOK
<1>3. PICK r : r = [old EXCEPT !.retired = TRUE]
  OBVIOUS
<1>4. r \in Rows /\ r.path = r.identity /\ r.scope = old.scope /\ r.retired
  BY <1>2, <1>3 DEF Rows
<1>5. members' = [members EXCEPT ![m] = r]
  BY <1>2, <1>3 DEF G!Retired
<1> QED
  BY <1>1, <1>2, <1>4, <1>5, MemberSet

LEMMA CatalogCreateScope ==
  ASSUME CatalogInv, NEW s \in Scopes, G!CreateScope(s)
  PROVE  CatalogInv'
<1>1. /\ scopes' = [scopes EXCEPT ![s] = "active"] /\ UNCHANGED <<members, current, views, refs, now, request>>
  BY DEF G!CreateScope
<1>2. Keeps
  BY <1>1 DEF Keeps
<1>3. MembersOK'
  BY <1>1 DEF CatalogInv, MembersOK, G!Active, G!Known
<1> QED
  BY <1>1, <1>2, <1>3, CatalogMembers, RequestsKept DEF CatalogInv

LEMMA CatalogAddMember ==
  ASSUME CatalogInv, NEW m \in Members, NEW s \in Scopes, NEW name \in Names, NEW path \in Paths,
         G!AddMember(m, s, name, path)
  PROVE  CatalogInv'
<1>1. PICK r : r = [scope |-> s, name |-> name, path |-> path, identity |-> path, retired |-> FALSE]
  OBVIOUS
<1>2. /\ m \notin G!Known /\ G!Unique(members') /\ members' = [members EXCEPT ![m] = r]
      /\ UNCHANGED <<scopes, current, views, refs, now, request>>
  BY <1>1 DEF G!AddMember
<1>3. r \in Rows /\ r.path = r.identity /\ r.scope \in Scopes
  BY <1>1 DEF Rows
<1>4. ~ (members[m].scope \in Scopes)
  BY <1>2, KnownFact DEF CatalogInv
<1>5. r.retired \/ \A n \in G!Active : n # m => members[n].path # r.path
  <2>1. PICK rows : rows = members'
    OBVIOUS
  <2>2. rows = [members EXCEPT ![m] = r] /\ G!Unique(rows)
    BY <1>2, <2>1
  <2> QED
    BY <1>3, <2>2, UniqueFact DEF CatalogInv
<1>6. MembersOK' /\ Keeps
  BY <1>2, <1>3, <1>4, <1>5, MemberSet DEF CatalogInv
<1> QED
  BY <1>2, <1>6, CatalogMembers, RequestsKept DEF CatalogInv

LEMMA CatalogRetireMember ==
  ASSUME CatalogInv, NEW m, G!RetireMember(m)
  PROVE  CatalogInv'
<1>1. /\ m \in G!Active /\ members' = G!Retired(m)
      /\ UNCHANGED <<scopes, current, views, refs, now, request>>
  BY DEF G!RetireMember
<1>2. MembersOK' /\ Keeps
  BY <1>1, RetiredFact DEF CatalogInv
<1> QED
  BY <1>1, <1>2, CatalogMembers, RequestsKept DEF CatalogInv

LEMMA CatalogPublish ==
  ASSUME CatalogInv, NEW m \in Members, G!Publish(m)
  PROVE  CatalogInv'
<1>1. /\ current[m] < MaxSnapshots /\ current' = [current EXCEPT ![m] = current[m] + 1]
      /\ UNCHANGED <<scopes, members, views, refs, now, request>>
  BY DEF G!Publish
<1>2. current' \in [Members -> 0 .. MaxSnapshots]
  BY <1>1, ViewsAssumption DEF CatalogInv, MembersOK
<1>3. Keeps
  BY <1>1 DEF Keeps
<1>4. MembersOK'
  BY <1>1, <1>2 DEF CatalogInv, MembersOK, G!Active, G!Known
<1> QED
  BY <1>1, <1>3, <1>4, CatalogMembers, RequestsKept DEF CatalogInv

(* A request goes on, and does nothing to the catalog. *)
LEMMA CatalogRequest ==
  ASSUME CatalogInv, UNCHANGED <<scopes, members, current, views, refs, now>>,
         NEW c \in Requests,
         G!Done(c) \/ \E w : RequestOK(w, members, views) /\ G!Does(c, w)
  PROVE  CatalogInv'
<1>1. Keeps
  BY DEF Keeps
<1>2. MembersOK'
  BY DEF CatalogInv, MembersOK, G!Active, G!Known
<1>3. RequestsOK'
  <2>1. CASE G!Done(c)
    BY <1>1, <2>1, RequestDone DEF CatalogInv
  <2>2. CASE \E w : RequestOK(w, members, views) /\ G!Does(c, w)
    <3>1. PICK w : RequestOK(w, members', views') /\ G!Does(c, w)
      BY <2>2
    <3> QED
      BY <1>1, <3>1, RequestSet DEF CatalogInv
  <2> QED
    BY <2>1, <2>2
<1> QED
  BY <1>1, <1>2, <1>3, CatalogMembers

LEMMA CatalogReadMember ==
  ASSUME CatalogInv, NEW c \in Requests, NEW m \in Members, NEW u \in Updates,
         G!ReadMember(c, m, u[1], u[2])
  PROVE  CatalogInv'
<1>1. PICK w : w = [at |-> "write", member |-> m, row |-> members[m], name |-> u[1], path |-> u[2]]
  OBVIOUS
<1>2. /\ m \in G!Known /\ G!Does(c, w) /\ UNCHANGED <<scopes, members, current, views, refs, now>>
  BY <1>1 DEF G!ReadMember, G!catalog
<1>3. members[m].scope \in Scopes /\ members[m] \in Rows /\ members[m].path = members[m].identity
  BY <1>2, KnownFact DEF CatalogInv, MembersOK
<1>4. u[1] \in Names \cup {None} /\ u[2] \in Paths \cup {None}
  BY UpdatesAssumption
<1>5. /\ w.at = "write" /\ w.member = m /\ w.row = members[m] /\ w.name = u[1] /\ w.path = u[2]
  BY <1>1
<1>6. RequestOK(w, members, views)
  BY <1>3, <1>4, <1>5 DEF RequestOK
<1> QED
  BY <1>2, <1>6, CatalogRequest

LEMMA WrittenFact ==
  ASSUME MembersOK, NEW w, RequestOK(w, members, views), w.at = "write"
  PROVE  \E r \in Rows : /\ r.path = r.identity /\ r.scope = members[w.member].scope
                         /\ G!Written(w) = [members EXCEPT ![w.member] = r]
<1>1. /\ w.member \in Members /\ w.row \in Rows /\ w.row.path = w.row.identity
      /\ w.name \in Names \cup {None} /\ w.path \in Paths \cup {None}
  BY DEF RequestOK
<1>2. PICK old \in Rows : old = members[w.member]
  BY <1>1 DEF MembersOK
<1>3. PICK name \in Names \cup {None} : name = G!Given(w.name, w.row.name)
  BY <1>1 DEF G!Given, Rows
<1>4. PICK path \in Paths \cup {None} : path = G!Given(w.path, w.row.path)
  BY <1>1 DEF G!Given, Rows
<1>5. path = G!Given(w.path, w.row.identity)
  BY <1>1, <1>4 DEF G!Given
<1>6. PICK r : r = [old EXCEPT !.name = name, !.path = path, !.identity = path]
  OBVIOUS
<1>7. r \in Rows /\ r.path = path /\ r.identity = path /\ r.scope = old.scope
  BY <1>2, <1>3, <1>4, <1>6 DEF Rows
<1>8. PICK k \in Members : k = w.member
  BY <1>1
<1>9. G!Written(w) = [members EXCEPT ![k].name = name, ![k].path = path, ![k].identity = path]
  BY <1>3, <1>4, <1>5, <1>8 DEF G!Written
<1>10. members \in [Members -> Rows]
  BY DEF MembersOK
<1>11. [members EXCEPT ![k].name = name, ![k].path = path, ![k].identity = path]
         = [members EXCEPT ![k] = r]
  BY <1>2, <1>6, <1>8, <1>10
<1> QED
  BY <1>2, <1>7, <1>8, <1>9, <1>11

LEMMA CatalogWriteMember ==
  ASSUME CatalogInv, NEW c \in Requests, G!WriteMember(c)
  PROVE  CatalogInv'
<1>1. PICK w : w = request[c] /\ RequestOK(w, members, views)
  BY DEF CatalogInv, RequestsOK
<1>2. /\ w.at = "write" /\ G!Done(c) /\ UNCHANGED <<scopes, current, views, refs, now>>
      /\ members' = IF G!Unique(G!Written(w)) THEN G!Written(w) ELSE members
  BY <1>1 DEF G!WriteMember
<1>3. CASE ~ G!Unique(G!Written(w))
  BY <1>2, <1>3, CatalogRequest
<1>4. CASE G!Unique(G!Written(w))
  <2>1. PICK r \in Rows : /\ r.path = r.identity /\ r.scope = members[w.member].scope
                          /\ G!Written(w) = [members EXCEPT ![w.member] = r]
    BY <1>1, <1>2, WrittenFact DEF CatalogInv
  <2>2. w.member \in Members /\ r.scope \in Scopes
    BY <1>1, <1>2, <2>1 DEF RequestOK
  <2>3. PICK rows : rows = G!Written(w)
    OBVIOUS
  <2>4. rows = [members EXCEPT ![w.member] = r] /\ G!Unique(rows) /\ members' = rows
    BY <1>2, <1>4, <2>1, <2>3
  <2>5. r.retired \/ \A n \in G!Active : n # w.member => members[n].path # r.path
    BY <2>1, <2>2, <2>4, UniqueFact DEF CatalogInv
  <2>6. MembersOK' /\ Keeps
    BY <1>2, <2>1, <2>2, <2>4, <2>5, MemberSet DEF CatalogInv
  <2> QED
    BY <1>2, <2>6, CatalogMembers, RequestDone DEF CatalogInv
<1> QED
  BY <1>3, <1>4

LEMMA CatalogRetireScope ==
  ASSUME CatalogInv, NEW c \in Requests,
         (\E s \in ToRetire : G!ListMembers(c, s)) \/ G!CheckScope(c) \/ G!MarkScope(c)
  PROVE  CatalogInv'
<1>1. PICK w : w = request[c] /\ RequestOK(w, members, views)
  BY DEF CatalogInv, RequestsOK
<1>2. CASE \E s \in ToRetire : G!ListMembers(c, s)
  <2>1. PICK s \in Scopes : G!ListMembers(c, s)
    BY <1>2, ScopesAssumption
  <2>2. PICK v : v = [at |-> "retire", scope |-> s, left |-> G!MembersOf(s)]
    OBVIOUS
  <2>3. G!MembersOf(s) \subseteq Members
    BY DEF G!MembersOf, G!Active, G!Known
  <2>4. v \in [at : {"retire"}, scope : Scopes, left : SUBSET Members] /\ v.at = "retire"
    BY <2>2, <2>3
  <2>5. RequestOK(v, members, views)
    BY <2>4 DEF RequestOK
  <2> QED
    BY <2>1, <2>2, <2>5, CatalogRequest DEF G!ListMembers, G!catalog
<1>3. CASE G!CheckScope(c)
  <2>1. w.scope \in Scopes
    BY <1>1, <1>3 DEF G!CheckScope, RequestOK
  <2>2. PICK v : v = [at |-> "mark", scope |-> w.scope]
    OBVIOUS
  <2>3. v.at = "mark" /\ v.scope \in Scopes
    BY <2>1, <2>2
  <2>4. RequestOK(v, members, views)
    BY <2>3 DEF RequestOK
  <2>5. /\ G!Done(c) \/ G!Does(c, v)
        /\ UNCHANGED <<scopes, members, current, views, refs, now>>
    BY <1>1, <1>3, <2>2 DEF G!CheckScope, G!catalog
  <2> QED
    BY <2>4, <2>5, CatalogRequest
<1>4. CASE G!MarkScope(c)
  <2>1. /\ w.scope \in Scopes /\ G!Done(c) /\ scopes' = [scopes EXCEPT ![w.scope] = "retired"]
        /\ UNCHANGED <<members, current, views, refs, now>>
    BY <1>1, <1>4 DEF G!MarkScope, RequestOK
  <2>2. Keeps
    BY <2>1 DEF Keeps
  <2>3. MembersOK'
    BY <2>1 DEF CatalogInv, MembersOK, G!Active, G!Known
  <2> QED
    BY <2>1, <2>2, <2>3, CatalogMembers, RequestDone DEF CatalogInv
<1> QED
  BY <1>2, <1>3, <1>4

LEMMA CatalogRetireListed ==
  ASSUME CatalogInv, NEW c \in Requests, G!RetireListed(c)
  PROVE  CatalogInv'
<1>1. PICK w : w = request[c] /\ RequestOK(w, members, views)
  BY DEF CatalogInv, RequestsOK
<1>2. /\ w.at = "retire" /\ UNCHANGED <<scopes, current, views, refs, now>>
      /\ \E m \in w.left : IF m \in G!Active
                           THEN members' = G!Retired(m) /\ G!Does(c, [w EXCEPT !.left = w.left \ {m}])
                           ELSE G!Done(c) /\ UNCHANGED members
  BY <1>1 DEF G!RetireListed
<1>3. PICK m \in w.left : IF m \in G!Active
                          THEN members' = G!Retired(m) /\ G!Does(c, [w EXCEPT !.left = w.left \ {m}])
                          ELSE G!Done(c) /\ UNCHANGED members
  BY <1>2
<1>4. CASE m \notin G!Active
  BY <1>2, <1>3, <1>4, CatalogRequest
<1>5. CASE m \in G!Active
  <2>1. PICK v : v = [w EXCEPT !.left = w.left \ {m}]
    OBVIOUS
  <2>2. w \in [at : {"retire"}, scope : Scopes, left : SUBSET Members]
    BY <1>1, <1>2 DEF RequestOK
  <2>3. v \in [at : {"retire"}, scope : Scopes, left : SUBSET Members] /\ v.at = "retire"
    BY <2>1, <2>2
  <2>4. RequestOK(v, members', views')
    BY <2>3 DEF RequestOK
  <2>5. MembersOK' /\ Keeps
    BY <1>2, <1>3, <1>5, RetiredFact DEF CatalogInv
  <2>6. RequestsOK'
    BY <1>3, <1>5, <2>1, <2>4, <2>5, RequestSet DEF CatalogInv
  <2> QED
    BY <1>2, <2>5, <2>6, CatalogMembers
<1> QED
  BY <1>4, <1>5

-----------------------------------------------------------------------------
(* What the views are made of *)

LEMMA MappingFact ==
  ASSUME MembersOK, NEW M \in SUBSET Members
  PROVE  G!Mapping(M) \in G!Mappings /\ DOMAIN G!Mapping(M) = M
<1>1. \A m \in M : G!Availability(m) = "available" => <<m, current[m]>> \in G!Snapshots
  <2> SUFFICES ASSUME NEW m \in M, G!Availability(m) = "available"
               PROVE  <<m, current[m]>> \in G!Snapshots
    OBVIOUS
  <2>1. current[m] \in 0 .. MaxSnapshots /\ current[m] # 0
    BY DEF MembersOK, G!Availability
  <2>2. current[m] \in 1 .. MaxSnapshots
    BY <2>1, ViewsAssumption
  <2> QED
    BY <2>2 DEF G!Snapshots
<1>2. G!Mapping(M) \in [M -> G!Snapshots \cup {None}]
  BY <1>1 DEF G!Mapping
<1> QED
  BY <1>2 DEF G!Mappings

LEMMA InsertionFact ==
  ASSUME NEW s, NEW selector \in {"scope", "members", "explicit"}, NEW mapping \in G!Mappings,
         OfScope(mapping, s, members)
  PROVE  RequestOK(G!Insertion(s, selector, mapping), members, views)
<1>1. PICK w : w = G!Insertion(s, selector, mapping)
  OBVIOUS
<1>2. w.at = "insert" /\ w.scope = s /\ w.selector = selector /\ w.members = mapping
  BY <1>1 DEF G!Insertion
<1>3. RequestOK(w, members, views)
  BY <1>2 DEF RequestOK
<1> QED
  BY <1>1, <1>3

LEMMA SelectFact ==
  ASSUME CatalogInv, NEW c, NEW s \in Scopes, G!SelectScope(c, s)
  PROVE  \E w : RequestOK(w, members, views) /\ G!Does(c, w)
<1>0. G!MembersOf(s) \in SUBSET Members /\ \A m \in G!MembersOf(s) : members[m].scope = s
  BY DEF G!MembersOf, G!Active, G!Known
<1>1. PICK M \in SUBSET Members : M = G!MembersOf(s) /\ \A m \in M : members[m].scope = s
  BY <1>0
<1>2. G!Mapping(M) \in G!Mappings /\ DOMAIN G!Mapping(M) = M
  BY MappingFact DEF CatalogInv
<1>3. OfScope(G!Mapping(M), s, members)
  BY <1>1, <1>2 DEF OfScope
<1>4. RequestOK(G!Insertion(s, "scope", G!Mapping(M)), members, views)
  BY <1>2, <1>3, InsertionFact
<1> QED
  BY <1>1, <1>4 DEF G!SelectScope

LEMMA OneScopeFact ==
  ASSUME MembersOK, NEW mapping, DOMAIN mapping \subseteq Members, G!OneScope(DOMAIN mapping)
  PROVE  OfScope(mapping, G!ScopeOf(DOMAIN mapping), members)
<1>1. PICK m \in DOMAIN mapping : m = CHOOSE k \in DOMAIN mapping : TRUE
  BY DEF G!OneScope
<1>2. \A k \in DOMAIN mapping : k \in Members /\ members[k].scope \in Scopes /\ members[k].scope = members[m].scope
  BY <1>1, KnownFact DEF G!OneScope
<1>3. G!ScopeOf(DOMAIN mapping) = members[m].scope
  BY <1>1 DEF G!ScopeOf
<1> QED
  BY <1>1, <1>2, <1>3 DEF OfScope

LEMMA CatalogReads ==
  ASSUME CatalogInv, NEW c \in Requests,
         \/ \E s \in Scopes : G!ReadScope(c, s)
         \/ \E M \in SUBSET Members : G!ReadMembers(c, M)
         \/ \E m \in Members, s \in G!Published : G!ReadExplicit(c, [k \in {m} |-> s])
  PROVE  CatalogInv'
<1>1. UNCHANGED <<scopes, members, current, views, refs, now>>
  BY DEF G!ReadScope, G!ReadMembers, G!ReadExplicit, G!catalog
<1>2. CASE \E s \in Scopes : G!ReadScope(c, s)
  <2>1. \E s \in Scopes : G!SelectScope(c, s)
    BY <1>2 DEF G!ReadScope
  <2> QED
    BY <1>1, <2>1, SelectFact, CatalogRequest
<1>3. CASE \E M \in SUBSET Members : G!ReadMembers(c, M)
  <2>1. PICK M \in SUBSET Members : G!ReadMembers(c, M)
    BY <1>3
  <2>2. PICK mapping : mapping = G!Mapping(M)
    OBVIOUS
  <2>3. mapping \in G!Mappings /\ DOMAIN mapping = M
    BY <2>2, MappingFact DEF CatalogInv
  <2>4. OfScope(mapping, G!ScopeOf(M), members)
    BY <2>1, <2>3, OneScopeFact DEF CatalogInv, G!ReadMembers
  <2>5. RequestOK(G!Insertion(G!ScopeOf(M), "members", mapping), members, views)
    BY <2>3, <2>4, InsertionFact
  <2> QED
    BY <1>1, <2>1, <2>2, <2>5, CatalogRequest DEF G!ReadMembers
<1>4. CASE \E m \in Members, s \in G!Published : G!ReadExplicit(c, [k \in {m} |-> s])
  <2>1. PICK m \in Members, s \in G!Published : G!ReadExplicit(c, [k \in {m} |-> s])
    BY <1>4
  <2>2. PICK mapping : mapping = [k \in {m} |-> s]
    OBVIOUS
  <2>3. DOMAIN mapping \subseteq Members /\ mapping \in G!Mappings
    <3>1. s \in G!Snapshots
      BY DEF G!Published
    <3>2. mapping \in [{m} -> G!Snapshots \cup {None}] /\ {m} \in SUBSET Members
      BY <2>2, <3>1
    <3> QED
      BY <3>2 DEF G!Mappings
  <2>4. /\ G!OneScope(DOMAIN mapping)
        /\ G!Does(c, G!Insertion(G!ScopeOf(DOMAIN mapping), "explicit", mapping))
    BY <2>1, <2>2 DEF G!ReadExplicit
  <2>5. OfScope(mapping, G!ScopeOf(DOMAIN mapping), members)
    BY <2>3, <2>4, OneScopeFact DEF CatalogInv
  <2>6. RequestOK(G!Insertion(G!ScopeOf(DOMAIN mapping), "explicit", mapping), members, views)
    BY <2>3, <2>5, InsertionFact
  <2> QED
    BY <1>1, <2>4, <2>6, CatalogRequest
<1> QED
  BY <1>2, <1>3, <1>4

(* A request that knows a view. *)
LEMMA ViewRequest ==
  ASSUME ViewsOK, NEW w, w.at \in {"touch", "pin", "refresh"}, w.view \in G!ViewIds,
         NEW vs, vs[w.view] # G!NoView, w.at = "touch" => w.time \in 0 .. MaxTime, NEW rows
  PROVE  RequestOK(w, rows, vs)
BY DEF RequestOK

LEMMA ProceedsFact ==
  ASSUME ViewsOK, NEW c, NEW v \in G!ViewIds, NEW vs, vs[v] # G!NoView, NEW next, NEW rows,
         G!Proceeds(c, v, next)
  PROVE  G!Done(c) \/ \E w : RequestOK(w, rows, vs) /\ G!Does(c, w)
<1>1. PICK w : w = [at |-> "refresh", view |-> v]
  OBVIOUS
<1>2. w.at = "refresh" /\ w.view = v
  BY <1>1
<1>3. RequestOK(w, rows, vs)
  BY <1>2, ViewRequest
<1> QED
  BY <1>1, <1>3 DEF G!Proceeds

LEMMA CatalogReadView ==
  ASSUME CatalogInv, NEW c \in Requests, NEW v \in G!ViewIds,
         G!CheckPin(c, v) \/ \E next : G!ReadView(c, v, next)
  PROVE  CatalogInv'
<1>1. views[v] # G!NoView /\ UNCHANGED <<scopes, members, current, views, refs, now>>
  BY DEF G!CheckPin, G!ReadView, G!catalog
<1>2. CASE G!CheckPin(c, v)
  <2>1. PICK w : w = [at |-> "pin", view |-> v]
    OBVIOUS
  <2>2. w.at = "pin" /\ w.view = v
    BY <2>1
  <2>3. RequestOK(w, members, views)
    BY <1>1, <2>2, ViewRequest DEF CatalogInv
  <2> QED
    BY <1>1, <1>2, <2>1, <2>3, CatalogRequest DEF G!CheckPin
<1>3. ASSUME NEW next, G!ReadView(c, v, next)
      PROVE  CatalogInv'
  <2>1. PICK w : w = [at |-> "touch", view |-> v, time |-> now, next |-> next]
    OBVIOUS
  <2>2. w.at = "touch" /\ w.view = v /\ w.time \in 0 .. MaxTime
    BY <2>1 DEF CatalogInv, ViewsOK
  <2>3. RequestOK(w, members, views)
    BY <1>1, <2>2, ViewRequest DEF CatalogInv
  <2>4. G!Does(c, w) \/ G!Proceeds(c, v, next)
    BY <1>3, <2>1 DEF G!ReadView
  <2> QED
    BY <1>1, <2>3, <2>4, ProceedsFact, CatalogRequest DEF CatalogInv
<1> QED
  BY <1>2, <1>3

LEMMA CatalogRefresh ==
  ASSUME CatalogInv, NEW c \in Requests, G!Refresh(c)
  PROVE  CatalogInv'
<1>1. PICK w : w = request[c] /\ RequestOK(w, members, views)
  BY DEF CatalogInv, RequestsOK
<1>2. /\ w.at = "refresh" /\ UNCHANGED <<scopes, members, current, views, refs, now>>
      /\ G!Done(c) \/ G!SelectScope(c, views[w.view].scope)
  BY <1>1 DEF G!Refresh, G!catalog
<1>3. views[w.view].scope \in Scopes
  BY <1>1, <1>2 DEF RequestOK, CatalogInv, ViewsOK, OfScope
<1> QED
  BY <1>2, <1>3, SelectFact, CatalogRequest

(* A view is made or changed. *)
LEMMA ViewSet ==
  ASSUME ViewsOK, NEW v \in G!ViewIds, NEW r \in Views, views' = [views EXCEPT ![v] = r],
         UNCHANGED <<scopes, members, current, now>>, refs' \subseteq Refs,
         \A i \in refs' : i.expires = None => i.owner = "pinned_view",
         OfScope(r.members, r.scope, members),
         \A s \in G!Used(r.members) : \E i \in refs' : Refers(i, s, v, r),
         \A u \in G!ViewIds \ {v} : views[u] # G!NoView =>
           \A s \in G!Used(views[u].members) : \E i \in refs' : Refers(i, s, u, views[u])
  PROVE  ViewsOK' /\ Keeps /\ views'[v] # G!NoView
<1>1. r # G!NoView
  BY DEF Views, ViewRows, G!NoView
<1>2. /\ views' \in [G!ViewIds -> Views \cup {G!NoView}] /\ views'[v] = r
      /\ \A u \in G!ViewIds : u # v => views'[u] = views[u]
  BY DEF ViewsOK
<1>3. ASSUME NEW u \in G!ViewIds, views'[u] # G!NoView
      PROVE  /\ OfScope(views'[u].members, views'[u].scope, members')
             /\ \A s \in G!Used(views'[u].members) : \E i \in refs' : Refers(i, s, u, views'[u])
  <2>1. CASE u = v
    BY <1>2, <2>1
  <2>2. CASE u # v
    BY <1>2, <1>3, <2>2 DEF ViewsOK
  <2> QED
    BY <2>1, <2>2
<1>4. ViewsOK'
  BY <1>2, <1>3 DEF ViewsOK
<1>5. Keeps
  BY <1>1, <1>2 DEF Keeps
<1> QED
  BY <1>1, <1>2, <1>4, <1>5

LEMMA CatalogViews ==
  ASSUME CatalogInv, UNCHANGED <<scopes, members, current>>, ViewsOK', Keeps, NEW c \in Requests,
         G!Done(c) \/ \E w : RequestOK(w, members', views') /\ G!Does(c, w)
  PROVE  CatalogInv'
<1>1. MembersOK'
  BY DEF CatalogInv, MembersOK, G!Active, G!Known
<1>2. RequestsOK'
  BY RequestDone, RequestSet DEF CatalogInv
<1> QED
  BY <1>1, <1>2 DEF CatalogInv

LEMMA TimesFact ==
  ASSUME NEW t \in 0 .. MaxTime
  PROVE  t + Lifetime \in G!Times /\ t + Lifetime # None
BY TimesAssumption, ViewsAssumption DEF G!Times

LEMMA UsedSnapshots ==
  ASSUME NEW mapping \in G!Mappings
  PROVE  G!Used(mapping) \subseteq G!Snapshots
<1>1. PICK M \in SUBSET Members : mapping \in [M -> G!Snapshots \cup {None}]
  BY DEF G!Mappings
<1> QED
  BY <1>1 DEF G!Used

LEMMA CatalogInsertView ==
  ASSUME CatalogInv, NEW c \in Requests, NEW v \in G!ViewIds, G!InsertView(c, v)
  PROVE  CatalogInv' /\ G!PinStays
<1>1. PICK w : w = request[c] /\ RequestOK(w, members, views)
  BY DEF CatalogInv, RequestsOK
<1>2. PICK t \in G!Times : t = now + Lifetime /\ t # None
  BY TimesFact DEF CatalogInv, ViewsOK
<1>3. PICK r : r = [lifecycle |-> "ephemeral", scope |-> w.scope, selector |-> w.selector,
                    expires |-> t, accessed |-> now, members |-> w.members]
  OBVIOUS
<1>4. PICK new : new = {G!Reference(s, v, "ephemeral_view", t) : s \in G!Used(w.members)}
  OBVIOUS
<1>5. /\ w.at = "insert" /\ views' = [views EXCEPT ![v] = r] /\ refs' = refs \cup new /\ G!Done(c)
      /\ views[v] = G!NoView
      /\ UNCHANGED <<scopes, members, current, now>>
  BY <1>1, <1>2, <1>3, <1>4 DEF G!InsertView, G!catalog
<1>6. /\ w.selector \in {"scope", "members", "explicit"} /\ w.members \in G!Mappings
      /\ OfScope(w.members, w.scope, members) /\ w.scope \in Scopes
  BY <1>1, <1>5 DEF RequestOK, OfScope
<1>7. r \in Views
  BY <1>2, <1>3, <1>6 DEF Views, ViewRows, G!Checked, CatalogInv, ViewsOK
<1>8. ASSUME NEW s \in G!Used(w.members)
      PROVE  \E i \in new : Refers(i, s, v, r)
  <2>1. PICK i : i = G!Reference(s, v, "ephemeral_view", t)
    OBVIOUS
  <2> QED
    BY <1>3, <1>4, <2>1 DEF G!Reference, Refers
<1>9. new \subseteq Refs /\ \A i \in new : i.expires # None
  BY <1>2, <1>4, <1>6, UsedSnapshots DEF Refs, G!Reference
<1>10. refs' \subseteq Refs /\ \A i \in refs' : i.expires = None => i.owner = "pinned_view"
  BY <1>5, <1>9 DEF CatalogInv, ViewsOK
<1>11. \A u \in G!ViewIds \ {v} : views[u] # G!NoView =>
         \A s \in G!Used(views[u].members) : \E i \in refs' : Refers(i, s, u, views[u])
  BY <1>5 DEF CatalogInv, ViewsOK
<1>12. r.members = w.members /\ r.scope = w.scope
  BY <1>3
<1>13. ViewsOK' /\ Keeps
  BY <1>5, <1>6, <1>7, <1>8, <1>10, <1>11, <1>12, ViewSet DEF CatalogInv
<1>14. G!PinStays
  <2>1. views[v].lifecycle # "pinned"
    BY <1>5 DEF G!NoView
  <2>2. \A u \in G!ViewIds \ {v} : views'[u] = views[u]
    BY <1>5 DEF CatalogInv, ViewsOK
  <2> QED
    BY <1>5, <2>1, <2>2 DEF G!PinStays
<1> QED
  BY <1>5, <1>13, <1>14, CatalogViews

(* A view is touched, or pinned: what refers to the other views stays, and *)
(* so does what refers to a view for good.                                 *)
LEMMA TouchedFact ==
  ASSUME ViewsOK, NEW v \in G!ViewIds, NEW t \in G!Times, t # None, refs' = G!Touched(v, t)
  PROVE  /\ refs' \subseteq Refs /\ \A i \in refs' : i.expires = None => i.owner = "pinned_view"
         /\ \A i \in refs : i.view # v \/ i.owner = "pinned_view" => i \in refs'
         /\ \A i \in refs : i.view = v /\ i.owner = "ephemeral_view" =>
              \E j \in refs' : /\ j.snapshot = i.snapshot /\ j.view = v
                               /\ j.owner = "ephemeral_view" /\ j.expires = t
<1>1. ASSUME NEW i \in refs
      PROVE  LET j == [i EXCEPT !.expires = t]
             IN  /\ j \in Refs /\ j.expires = t /\ j.snapshot = i.snapshot /\ j.view = i.view
                 /\ j.owner = i.owner
  BY DEF ViewsOK, Refs
<1>2. \A j \in refs' : \E i \in refs : j = IF i.view = v /\ i.owner = "ephemeral_view"
                                          THEN [i EXCEPT !.expires = t] ELSE i
  BY DEF G!Touched
<1>3. \A i \in refs : (IF i.view = v /\ i.owner = "ephemeral_view"
                       THEN [i EXCEPT !.expires = t] ELSE i) \in refs'
  BY DEF G!Touched
<1>4. refs \subseteq Refs /\ \A i \in refs : i.expires = None => i.owner = "pinned_view"
  BY DEF ViewsOK
<1>5. ASSUME NEW j \in refs'
      PROVE  j \in Refs /\ (j.expires = None => j.owner = "pinned_view")
  <2>1. PICK i \in refs : j = IF i.view = v /\ i.owner = "ephemeral_view"
                              THEN [i EXCEPT !.expires = t] ELSE i
    BY <1>2
  <2>2. CASE j = i
    BY <1>4, <2>2
  <2>3. CASE j = [i EXCEPT !.expires = t]
    BY <1>1, <2>3
  <2> QED
    BY <2>1, <2>2, <2>3
<1>6. ASSUME NEW i \in refs, i.view # v \/ i.owner = "pinned_view"
      PROVE  i \in refs'
  BY <1>3, <1>6
<1>7. ASSUME NEW i \in refs, i.view = v, i.owner = "ephemeral_view"
      PROVE  \E j \in refs' : /\ j.snapshot = i.snapshot /\ j.view = v
                              /\ j.owner = "ephemeral_view" /\ j.expires = t
  <2>1. [i EXCEPT !.expires = t] \in refs'
    BY <1>3, <1>7
  <2> QED
    BY <1>1, <1>7, <2>1
<1> QED
  BY <1>5, <1>6, <1>7

LEMMA CatalogTouchView ==
  ASSUME CatalogInv, NEW c \in Requests, G!TouchView(c)
  PROVE  CatalogInv' /\ G!PinStays
<1>1. PICK w : w = request[c] /\ RequestOK(w, members, views)
  BY DEF CatalogInv, RequestsOK
<1>2. w.at = "touch" /\ w.view \in G!ViewIds /\ views[w.view] # G!NoView /\ w.time \in 0 .. MaxTime
  BY <1>1 DEF G!TouchView, RequestOK
<1>3. PICK v \in G!ViewIds : v = w.view
  BY <1>2
<1>4. PICK t \in G!Times : t = w.time + Lifetime /\ t # None
  BY <1>2, TimesFact
<1>5. PICK old \in Views : old = views[v]
  BY <1>2, <1>3 DEF CatalogInv, ViewsOK
<1>6. PICK r : r = [old EXCEPT !.accessed = w.time, !.expires = t]
  OBVIOUS
<1>7. /\ r \in ViewRows /\ r.expires = t /\ r.lifecycle = old.lifecycle /\ r.members = old.members
      /\ r.scope = old.scope
  BY <1>2, <1>5, <1>6 DEF Views, ViewRows
<1>17. CASE ~ G!Checked(r)
  <2>1. G!Done(c) /\ UNCHANGED <<scopes, members, current, views, refs, now>>
    BY <1>1, <1>3, <1>4, <1>5, <1>6, <1>17 DEF G!TouchView, G!catalog
  <2>2. ViewsOK' /\ Keeps
    BY <2>1, ViewsKept DEF CatalogInv, ViewsOK, Keeps
  <2> QED
    BY <2>1, <2>2, CatalogViews DEF G!PinStays
<1> SUFFICES ASSUME G!Checked(r) PROVE CatalogInv' /\ G!PinStays
  BY <1>17
<1>18. r \in Views /\ old.lifecycle # "pinned"
  BY <1>4, <1>7 DEF Views, G!Checked
<1>8. /\ views' = [views EXCEPT ![v] = r]
      /\ refs' = G!Touched(v, t) /\ G!Proceeds(c, v, w.next) /\ UNCHANGED <<scopes, members, current, now>>
  BY <1>1, <1>3, <1>4, <1>5, <1>6 DEF G!TouchView, G!catalog
<1>10. /\ refs' \subseteq Refs /\ \A i \in refs' : i.expires = None => i.owner = "pinned_view"
       /\ \A i \in refs : i.view # v \/ i.owner = "pinned_view" => i \in refs'
       /\ \A i \in refs : i.view = v /\ i.owner = "ephemeral_view" =>
            \E j \in refs' : /\ j.snapshot = i.snapshot /\ j.view = v
                             /\ j.owner = "ephemeral_view" /\ j.expires = t
  BY <1>4, <1>8, TouchedFact DEF CatalogInv
<1>11. OfScope(r.members, r.scope, members)
  BY <1>2, <1>3, <1>5, <1>7 DEF CatalogInv, ViewsOK
<1>12. ASSUME NEW s \in G!Used(r.members)
       PROVE  \E j \in refs' : Refers(j, s, v, r)
  <2>1. PICK i \in refs : Refers(i, s, v, old)
    BY <1>2, <1>3, <1>5, <1>7 DEF CatalogInv, ViewsOK
  <2>2. CASE old.lifecycle = "ephemeral"
    BY <1>7, <1>10, <2>1, <2>2 DEF Refers
  <2>3. CASE old.lifecycle # "ephemeral"
    BY <1>7, <1>10, <2>1, <2>3 DEF Refers
  <2> QED
    BY <2>2, <2>3
<1>13. \A u \in G!ViewIds \ {v} : views[u] # G!NoView =>
         \A s \in G!Used(views[u].members) : \E i \in refs' : Refers(i, s, u, views[u])
  <2> SUFFICES ASSUME NEW u \in G!ViewIds \ {v}, views[u] # G!NoView, NEW s \in G!Used(views[u].members)
               PROVE  \E i \in refs' : Refers(i, s, u, views[u])
    OBVIOUS
  <2>1. PICK i \in refs : Refers(i, s, u, views[u])
    BY DEF CatalogInv, ViewsOK
  <2>2. i.view # v
    BY <2>1 DEF Refers
  <2> QED
    BY <1>10, <2>1, <2>2
<1>14. ViewsOK' /\ Keeps /\ views'[v] # G!NoView
  BY <1>7, <1>8, <1>10, <1>11, <1>12, <1>13, <1>18, ViewSet DEF CatalogInv
<1>15. G!Done(c) \/ \E i : RequestOK(i, members', views') /\ G!Does(c, i)
  BY <1>8, <1>14, ProceedsFact DEF CatalogInv
<1>16. G!PinStays
  <2>1. \A u \in G!ViewIds : views[u].lifecycle = "pinned" => views'[u] = views[u]
    BY <1>5, <1>8, <1>18 DEF CatalogInv, ViewsOK
  <2> QED
    BY <1>10, <2>1 DEF G!PinStays, CatalogInv, ViewsOK
<1> QED
  BY <1>8, <1>14, <1>15, <1>16, CatalogViews

LEMMA CatalogPinView ==
  ASSUME CatalogInv, NEW c \in Requests, G!PinView(c)
  PROVE  CatalogInv' /\ G!PinStays
<1>1. PICK w : w = request[c] /\ RequestOK(w, members, views)
  BY DEF CatalogInv, RequestsOK
<1>2. w.at = "pin" /\ w.view \in G!ViewIds /\ views[w.view] # G!NoView
  BY <1>1 DEF G!PinView, RequestOK
<1>3. PICK v \in G!ViewIds : v = w.view
  BY <1>2
<1>4. PICK old \in Views : old = views[v]
  BY <1>2, <1>3 DEF CatalogInv, ViewsOK
<1>5. PICK r : r = [old EXCEPT !.lifecycle = "pinned", !.expires = None]
  OBVIOUS
<1>6. /\ r \in Views /\ r.expires = None /\ r.lifecycle = "pinned" /\ r.members = old.members
      /\ r.scope = old.scope
  BY <1>4, <1>5 DEF Views, ViewRows, G!Checked
<1>7. /\ views' = [views EXCEPT ![v].lifecycle = "pinned", ![v].expires = None]
      /\ refs' = G!Kept(v) /\ G!Done(c) /\ UNCHANGED <<scopes, members, current, now>>
  BY <1>1, <1>3 DEF G!PinView, G!catalog
<1>8. views' = [views EXCEPT ![v] = r]
  BY <1>4, <1>5, <1>7 DEF CatalogInv, ViewsOK
<1>9. refs \subseteq Refs /\ \A i \in refs : i.expires = None => i.owner = "pinned_view"
  BY DEF CatalogInv, ViewsOK
<1>10. ASSUME NEW i \in refs
       PROVE  LET j == [i EXCEPT !.owner = "pinned_view", !.expires = None]
              IN  /\ j \in Refs /\ j.snapshot = i.snapshot /\ j.view = i.view
                  /\ j.owner = "pinned_view" /\ j.expires = None
                  /\ i.expires = None => j = i
  BY <1>9 DEF Refs
<1>11. /\ \A i \in refs : (IF i.view = v THEN [i EXCEPT !.owner = "pinned_view", !.expires = None]
                           ELSE i) \in refs'
       /\ \A j \in refs' : \E i \in refs :
            j = IF i.view = v THEN [i EXCEPT !.owner = "pinned_view", !.expires = None] ELSE i
  BY <1>7 DEF G!Kept
<1>12. ASSUME NEW j \in refs'
       PROVE  j \in Refs /\ (j.expires = None => j.owner = "pinned_view")
  <2>1. PICK i \in refs :
          j = IF i.view = v THEN [i EXCEPT !.owner = "pinned_view", !.expires = None] ELSE i
    BY <1>11
  <2>2. CASE j = i
    BY <1>9, <2>2
  <2>3. CASE j = [i EXCEPT !.owner = "pinned_view", !.expires = None]
    BY <1>10, <2>3
  <2> QED
    BY <2>1, <2>2, <2>3
<1>13. OfScope(r.members, r.scope, members)
  BY <1>2, <1>3, <1>4, <1>6 DEF CatalogInv, ViewsOK
<1>14. ASSUME NEW s \in G!Used(r.members)
       PROVE  \E j \in refs' : Refers(j, s, v, r)
  <2>1. PICK i \in refs : i.snapshot = s /\ i.view = v
    BY <1>2, <1>3, <1>4, <1>6 DEF CatalogInv, ViewsOK, Refers
  <2>2. [i EXCEPT !.owner = "pinned_view", !.expires = None] \in refs'
    BY <1>11, <2>1
  <2> QED
    BY <1>6, <1>10, <2>1, <2>2 DEF Refers
<1>15. \A u \in G!ViewIds \ {v} : views[u] # G!NoView =>
         \A s \in G!Used(views[u].members) : \E i \in refs' : Refers(i, s, u, views[u])
  <2> SUFFICES ASSUME NEW u \in G!ViewIds \ {v}, views[u] # G!NoView, NEW s \in G!Used(views[u].members)
               PROVE  \E i \in refs' : Refers(i, s, u, views[u])
    OBVIOUS
  <2>1. PICK i \in refs : Refers(i, s, u, views[u])
    BY DEF CatalogInv, ViewsOK
  <2>2. i.view # v
    BY <2>1 DEF Refers
  <2> QED
    BY <1>11, <2>1, <2>2
<1>16. ViewsOK' /\ Keeps
  BY <1>6, <1>7, <1>8, <1>12, <1>13, <1>14, <1>15, ViewSet DEF CatalogInv
<1>17. \A i \in refs : i.expires = None => i \in refs'
  BY <1>10, <1>11
<1>18. \A u \in G!ViewIds : views[u].lifecycle = "pinned" => views'[u] = views[u]
  <2>1. old.lifecycle = "pinned" => r = old
    BY <1>4, <1>5 DEF Views, ViewRows, G!Checked
  <2> QED
    BY <1>4, <1>8, <2>1 DEF CatalogInv, ViewsOK
<1> QED
  BY <1>7, <1>16, <1>17, <1>18, CatalogViews DEF G!PinStays

LEMMA CatalogTick ==
  ASSUME CatalogInv, G!Tick
  PROVE  CatalogInv'
<1>1. /\ now < MaxTime /\ now' = now + 1
      /\ UNCHANGED <<scopes, members, current, views, refs, request>>
  BY DEF G!Tick, G!catalog
<1>2. now' \in 0 .. MaxTime
  BY <1>1, ViewsAssumption DEF CatalogInv, ViewsOK
<1>3. Keeps
  BY <1>1 DEF Keeps
<1>4. MembersOK'
  BY <1>1 DEF CatalogInv, MembersOK, G!Active, G!Known
<1> QED
  BY <1>1, <1>2, <1>3, <1>4, ViewsKept, RequestsKept DEF CatalogInv

LEMMA CatalogAdministers ==
  ASSUME CatalogInv, G!Administration
  PROVE  CatalogInv' /\ UNCHANGED <<views, refs>>
<1>1. CASE \E s \in Scopes : G!CreateScope(s)
  BY <1>1, CatalogCreateScope DEF G!CreateScope
<1>2. CASE \E m \in Members : G!RetireMember(m) \/ G!Publish(m)
  BY <1>2, CatalogRetireMember, CatalogPublish DEF G!RetireMember, G!Publish
<1>3. CASE \E m \in Members, s \in Scopes, name \in Names, path \in Paths : G!AddMember(m, s, name, path)
  BY <1>3, CatalogAddMember DEF G!AddMember
<1>4. CASE \E c \in Requests, m \in Members, u \in Updates : G!ReadMember(c, m, u[1], u[2])
  BY <1>4, CatalogReadMember DEF G!ReadMember
<1>5. CASE \E c \in Requests, s \in ToRetire : G!ListMembers(c, s)
  BY <1>5, CatalogRetireScope DEF G!ListMembers
<1>6. CASE \E c \in Requests : G!WriteMember(c) \/ G!RetireListed(c)
  BY <1>6, CatalogWriteMember, CatalogRetireListed DEF G!WriteMember, G!RetireListed
<1>7. CASE \E c \in Requests : G!CheckScope(c) \/ G!MarkScope(c)
  BY <1>7, CatalogRetireScope DEF G!CheckScope, G!MarkScope
<1> QED
  BY <1>1, <1>2, <1>3, <1>4, <1>5, <1>6, <1>7 DEF G!Administration

LEMMA CatalogViewing ==
  ASSUME CatalogInv, Viewing
  PROVE  CatalogInv' /\ G!PinStays
<1>1. CASE G!Viewing
  <2>1. CASE \/ \E c \in Requests, s \in Scopes : G!ReadScope(c, s)
             \/ \E c \in Requests, M \in SUBSET Members : G!ReadMembers(c, M)
             \/ \E c \in Requests, m \in Members, s \in G!Published :
                  G!ReadExplicit(c, [k \in {m} |-> s])
    <3>1. UNCHANGED <<views, refs>>
      BY <2>1 DEF G!ReadScope, G!ReadMembers, G!ReadExplicit
    <3>2. CatalogInv'
      BY <2>1, CatalogReads
    <3> QED
      BY <3>1, <3>2 DEF G!PinStays
  <2>2. CASE \E c \in Requests, v \in G!ViewIds : G!InsertView(c, v)
    BY <2>2, CatalogInsertView
  <2>3. CASE \E c \in Requests, v \in G!ViewIds :
               G!CheckPin(c, v) \/ \E next \in {"show", "refresh"} : G!ReadView(c, v, next)
    <3>1. UNCHANGED <<views, refs>>
      BY <2>3 DEF G!CheckPin, G!ReadView
    <3>2. CatalogInv'
      BY <2>3, CatalogReadView
    <3> QED
      BY <3>1, <3>2 DEF G!PinStays
  <2>4. CASE \E c \in Requests : G!TouchView(c) \/ G!PinView(c)
    BY <2>4, CatalogTouchView, CatalogPinView
  <2>5. CASE \E c \in Requests : G!Refresh(c)
    BY <2>5, CatalogRefresh DEF G!Refresh, G!PinStays
  <2> QED
    BY <1>1, <2>1, <2>2, <2>3, <2>4, <2>5 DEF G!Viewing
<1>2. CASE G!Tick
  BY <1>2, CatalogTick DEF G!Tick, G!PinStays
<1>3. CASE \E m \in Members : G!RetireMember(m) \/ G!Publish(m)
  BY <1>3, CatalogRetireMember, CatalogPublish DEF G!RetireMember, G!Publish, G!PinStays
<1> QED
  BY <1>1, <1>2, <1>3 DEF Viewing

ViewsInv == focus \in {"administration", "views"} => CatalogInv

LEMMA CatalogInit ==
  ASSUME G!Init
  PROVE  CatalogInv
<1>1. PICK c \in Catalogs : scopes = c.scopes /\ members = c.members /\ current = c.current
  BY DEF G!Init
<1>2. /\ views = [v \in G!ViewIds |-> G!NoView] /\ refs = {} /\ now = 0
      /\ request = [i \in Requests |-> G!Idle]
  BY DEF G!Init
<1>3. G!NoMember = NoMember
  BY DEF G!NoMember, NoMember
<1>4. G!Active \subseteq {k \in Members : members[k] # NoMember /\ ~ members[k].retired}
  BY <1>3 DEF G!Active, G!Known
<1>5. MembersOK
  BY <1>1, <1>3, <1>4, CatalogsAssumption DEF MembersOK, Rows
<1>6. ViewsOK
  BY <1>2, ViewsAssumption DEF ViewsOK
<1>7. RequestOK(G!Idle, members, views)
  BY DEF RequestOK, G!Idle
<1>8. RequestsOK
  BY <1>2, <1>7 DEF RequestsOK
<1> QED
  BY <1>5, <1>6, <1>8 DEF CatalogInv

LEMMA CatalogStays ==
  ASSUME CatalogInv, UNCHANGED <<cataloging, now>>
  PROVE  CatalogInv'
<1>1. /\ scopes' = scopes /\ members' = members /\ current' = current /\ views' = views /\ refs' = refs
      /\ request' = request /\ now' = now
  BY DEF cataloging
<1>2. Keeps
  BY <1>1 DEF Keeps
<1>3. MembersOK'
  BY <1>1 DEF CatalogInv, MembersOK, G!Active, G!Known
<1> QED
  BY <1>1, <1>2, <1>3, CatalogMembers, RequestsKept DEF CatalogInv

LEMMA ViewsStep ==
  ASSUME ViewsInv, [Next]_<<cataloging, storing, now, capturing, upgrading, reviewing, focus>>
  PROVE  ViewsInv' /\ (G!PinStays \/ UNCHANGED cataloging)
<1>1. CASE focus = "administration" /\ G!Administration /\ UNCHANGED focus
  BY <1>1, CatalogAdministers DEF ViewsInv, G!PinStays
<1>2. CASE focus = "views" /\ Viewing /\ UNCHANGED focus
  BY <1>2, CatalogViewing DEF ViewsInv
<1>3. CASE focus \notin {"administration", "views"} /\ UNCHANGED <<cataloging, focus>>
  BY <1>3 DEF ViewsInv
<1>4. CASE UNCHANGED <<cataloging, storing, now, capturing, upgrading, reviewing, focus>>
  BY <1>4, CatalogStays DEF ViewsInv
<1> QED
  BY <1>1, <1>2, <1>3, <1>4 DEF Next

LEMMA ViewsHoldIn ==
  ASSUME CatalogInv
  PROVE  G!ViewsHold
<1>1. ASSUME NEW v \in G!ViewIds, views[v] # G!NoView
      PROVE  views[v] \in Views
  BY <1>1 DEF CatalogInv, ViewsOK
<1>2. G!TypeOK
  BY <1>1 DEF CatalogInv, MembersOK, ViewsOK, Rows, Refs, Views, ViewRows, G!TypeOK
<1>3. G!PathIsIdentity
  BY DEF CatalogInv, MembersOK, G!PathIsIdentity
<1>4. G!ViewsAreOfOneScope
  <2> SUFFICES ASSUME NEW v \in G!ViewIds, NEW m \in DOMAIN views[v].members
               PROVE  members[m].scope = views[v].scope
    BY DEF G!ViewsAreOfOneScope
  <2>1. CASE views[v] = G!NoView
    BY <2>1 DEF G!NoView
  <2>2. CASE views[v] # G!NoView
    BY <2>2 DEF CatalogInv, ViewsOK, OfScope
  <2> QED
    BY <2>1, <2>2
<1>5. G!ReadableIsReferenced
  <2> SUFFICES ASSUME NEW v \in G!ViewIds, views[v] # G!NoView, NEW s \in G!Used(views[v].members)
               PROVE  \E r \in refs :
                        /\ r.snapshot = s /\ r.view = v
                        /\ IF G!Ephemeral(v) THEN r.expires = views[v].expires
                           ELSE r.owner = "pinned_view" /\ r.expires = None
    BY DEF G!ReadableIsReferenced
  <2>1. PICK r \in refs : Refers(r, s, v, views[v])
    BY DEF CatalogInv, ViewsOK
  <2> QED
    BY <2>1 DEF Refers, G!Ephemeral
<1> QED
  BY <1>2, <1>3, <1>4, <1>5 DEF G!ViewsHold

(* A view keeps to the members of its scope and to its snapshots, which    *)
(* are referred to for as long as it can be read, however the requests     *)
(* interleave.                                                             *)
THEOREM ViewsHoldHolds == Spec => []ViewsHold
<1>1. Init => ViewsInv
  BY CatalogInit DEF Init, ViewsInv
<1>2. ViewsInv /\ [Next]_<<cataloging, storing, now, capturing, upgrading, reviewing, focus>> => ViewsInv'
  BY ViewsStep
<1>3. ViewsInv => ViewsHold
  BY ViewsHoldIn DEF ViewsInv, ViewsHold
<1> QED
  BY <1>1, <1>2, <1>3, PTL DEF Spec

(* A pinned view, and what refers to a snapshot for good, is not deleted   *)
(* or changed by any step: a touch of the view that began before fails on  *)
(* the CHECK of the table.                                                 *)
THEOREM PinsStayHolds == Spec => PinsStay
<1>1. Init => ViewsInv
  BY CatalogInit DEF Init, ViewsInv
<1>2. ViewsInv /\ [Next]_<<cataloging, storing, now, capturing, upgrading, reviewing, focus>> =>
        ViewsInv' /\ [G!PinStays]_cataloging
  BY ViewsStep
<1> QED
  BY <1>1, <1>2, PTL DEF Spec, PinsStay

-----------------------------------------------------------------------------
(* Terms, the evidence they rest on and what is decided about them.        *)

(* Terms that are listed are known and have evidence in the snapshot; the  *)
(* id of a piece of evidence says which term it is of, and one that was    *)
(* added by hand which snapshot; whatever may be aligned is known.         *)
EvidenceOK(rows) ==
    /\ \A e \in rows :
         /\ e = [id |-> e.id, snapshot |-> e.snapshot, term |-> e.term]
         /\ e.id = <<e.term, e.id[2]>> \/ e.id = <<e.term, "manual", e.snapshot>>
    /\ \A e, f \in rows : e.id = f.id => e = f
ListedOK(table, all, rows) ==
    /\ DOMAIN table = Extracted \X Terms
    /\ \A s \in Extracted, t \in Terms : table[<<s, t>>] # None =>
         t \in all /\ \E e \in rows : e.snapshot = s /\ e.term = t
RelationsOK(rows, all) == \A r \in rows : r.source \in all /\ r.target \in all
AlignmentsOK(table, all) ==
    /\ DOMAIN table = Aligned \X Alike
    /\ \A v \in Aligned, l \in Alike : table[<<v, l>>] # None => l \subseteq all
AligningOK(work, all) ==
    /\ work.todo \in Seq(Extracted)
    /\ work # T!Nothing => work.accepted \subseteq all
    /\ work.first # None => work.first \in Alike /\ work.first \subseteq all
StoreOK == EvidenceOK(evidence) /\ ListedOK(results, terms, evidence) /\ RelationsOK(relations, terms)
WorkOK == DOMAIN aligning = Aligned /\ \A v \in Aligned : AligningOK(aligning[v], terms)
ReviewsInv == StoreOK /\ AlignmentsOK(alignments, terms) /\ WorkOK

LEMMA NewEvidenceFact ==
  ASSUME NEW s, NEW rep
  PROVE  /\ EvidenceOK(T!NewEvidence(s, rep))
         /\ \A e \in T!NewEvidence(s, rep) : e.snapshot = s
         /\ \A t \in DOMAIN rep.found : rep.found[t].evidence # {} => \E e \in T!NewEvidence(s, rep) : e.term = t
<1>1. ASSUME NEW e \in T!NewEvidence(s, rep)
      PROVE  \E t \in DOMAIN rep.found : \E v \in rep.found[t].evidence :
                e = [id |-> <<t, v>>, snapshot |-> s, term |-> t]
  BY DEF T!NewEvidence
<1>2. ASSUME NEW e \in T!NewEvidence(s, rep)
      PROVE  /\ e = [id |-> e.id, snapshot |-> e.snapshot, term |-> e.term] /\ e.snapshot = s
             /\ e.id = <<e.term, e.id[2]>>
  <2>0. PICK t \in DOMAIN rep.found : \E v \in rep.found[t].evidence : e = [id |-> <<t, v>>, snapshot |-> s, term |-> t]
    BY <1>1
  <2>1. PICK v \in rep.found[t].evidence : e = [id |-> <<t, v>>, snapshot |-> s, term |-> t]
    BY <2>0
  <2>2. e.id = <<t, v>> /\ e.snapshot = s /\ e.term = t
    BY <2>1
  <2>3. e.id[2] = v
    BY <2>2
  <2> QED
    BY <2>1, <2>2, <2>3
<1>3. ASSUME NEW e \in T!NewEvidence(s, rep), NEW f \in T!NewEvidence(s, rep), e.id = f.id
      PROVE  e = f
  <2>1. e.id = <<e.term, e.id[2]>> /\ f.id = <<f.term, f.id[2]>>
    BY <1>2
  <2>2. e.term = f.term
    BY <1>3, <2>1
  <2> QED
    BY <1>2, <1>3, <2>2
<1>4. ASSUME NEW t \in DOMAIN rep.found, rep.found[t].evidence # {}
      PROVE  \E e \in T!NewEvidence(s, rep) : e.term = t
  <2>1. PICK v : v \in rep.found[t].evidence
    BY <1>4
  <2>2. [id |-> <<t, v>>, snapshot |-> s, term |-> t] \in T!NewEvidence(s, rep)
    BY <2>1 DEF T!NewEvidence
  <2> QED
    BY <2>2
<1> QED
  BY <1>2, <1>3, <1>4 DEF EvidenceOK

(* A transaction that is not refused leaves everything traceable.          *)
LEMMA ReplaceStore ==
  ASSUME StoreOK, NEW s \in Extracted, NEW rep, DOMAIN rep.found \subseteq Terms,
         \A t \in DOMAIN rep.found : rep.found[t].evidence # {}, T!Replace(s, rep)
  PROVE  /\ StoreOK' /\ terms \subseteq terms'
         /\ T!Refused(s, rep) \/ DOMAIN rep.found \subseteq terms'
<1>1. CASE T!Refused(s, rep)
  BY <1>1 DEF T!Replace, StoreOK
<1>2. CASE ~ T!Refused(s, rep)
  <2> DEFINE New == T!NewEvidence(s, rep)
             Old == T!Kept(s)
  <2>1. /\ terms' = terms \cup DOMAIN rep.found
        /\ results' = [k \in Extracted \X Terms |->
               IF k[1] # s THEN results[k]
               ELSE IF k[2] \in DOMAIN rep.found THEN [status |-> rep.found[k[2]].status, source |-> "rule"]
               ELSE None]
        /\ evidence' = T!Inserted(Old, New)
        /\ relations' = {r \in relations : r.snapshot # s} \cup
             {[snapshot |-> s, source |-> r[1], target |-> r[2], kind |-> "applies_to"] : r \in rep.relations}
        /\ \A r \in rep.relations : r[1] \in terms' /\ r[2] \in terms'
    BY <1>2 DEF T!Replace, T!Upserted, T!Refused, T!EndsKnown
  <2>2. /\ \A e \in New, k \in Old : e.id # k.id
        /\ evidence' = Old \cup New
    BY <1>2, <2>1 DEF T!Refused, T!Inserted
  <2>3. Old \subseteq evidence /\ \A e \in evidence : e.snapshot # s => e \in Old
    BY DEF T!Kept
  <2>4. EvidenceOK(Old)
    BY <2>3 DEF StoreOK, EvidenceOK
  <2>5. /\ EvidenceOK(New) /\ \A e \in New : e.snapshot = s
        /\ \A t \in DOMAIN rep.found : \E e \in New : e.term = t
    BY NewEvidenceFact
  <2>6. EvidenceOK(evidence')
    <3> HIDE DEF New, Old
    <3> QED
      BY <2>2, <2>4, <2>5 DEF EvidenceOK
  <2>7. ASSUME NEW u \in Extracted, NEW t \in Terms, results'[<<u, t>>] # None
        PROVE  t \in terms' /\ \E e \in evidence' : e.snapshot = u /\ e.term = t
    <3>1. CASE u # s
      <4>1. results[<<u, t>>] # None
        BY <2>1, <2>7, <3>1
      <4>2. PICK e \in evidence : e.snapshot = u /\ e.term = t
        BY <4>1 DEF StoreOK, ListedOK
      <4> QED
        BY <2>1, <2>2, <2>3, <3>1, <4>1, <4>2 DEF StoreOK, ListedOK
    <3>2. CASE u = s
      <4>1. t \in DOMAIN rep.found
        BY <2>1, <2>7, <3>2
      <4> QED
        BY <2>1, <2>2, <2>5, <3>2, <4>1
    <3> QED
      BY <3>1, <3>2
  <2>8. RelationsOK(relations', terms')
    BY <2>1 DEF StoreOK, RelationsOK
  <2> QED
    BY <2>1, <2>6, <2>7, <2>8 DEF StoreOK, ListedOK
<1> QED
  BY <1>1, <1>2

LEMMA WorkGrows ==
  ASSUME ReviewsInv, terms \subseteq terms'
  PROVE  /\ \A v \in Aligned : AligningOK(aligning[v], terms')
         /\ AlignmentsOK(alignments, terms')
BY DEF ReviewsInv, WorkOK, AligningOK, AlignmentsOK

(* Steps that decide nothing, and read no alignment.                       *)
LEMMA NothingDecided ==
  ASSUME UNCHANGED alignments,
         \A v \in Aligned : aligning'[v].first \in {None, aligning[v].first}
  PROVE  T!DecidedStands
BY DEF T!DecidedStands

LEMMA ExtractReviews ==
  ASSUME ReviewsInv, T!Extract
  PROVE  ReviewsInv' /\ T!DecidedStands
<1>1. PICK s \in Extracted : \E types \in DOMAIN Recognized[s] :
         /\ T!Replace(s, Recognized[s][types])
         /\ UNCHANGED <<alignments, aligning>>
  BY DEF T!Extract
<1>2. PICK types \in DOMAIN Recognized[s] :
         /\ T!Replace(s, Recognized[s][types])
         /\ UNCHANGED <<alignments, aligning>>
  BY <1>1
<1>3. StoreOK' /\ terms \subseteq terms'
  <2> DEFINE rep == Recognized[s][types]
  <2>1. DOMAIN rep.found \subseteq Terms /\ \A t \in DOMAIN rep.found : rep.found[t].evidence # {}
    BY TermsAssumption
  <2>2. T!Replace(s, rep)
    BY <1>2
  <2> HIDE DEF rep
  <2> QED
    BY <2>1, <2>2, ReplaceStore DEF ReviewsInv
<1> QED
  BY <1>2, <1>3, WorkGrows, NothingDecided DEF ReviewsInv, WorkOK

LEMMA ReviewReviews ==
  ASSUME ReviewsInv, T!Review
  PROVE  ReviewsInv' /\ T!DecidedStands
<1>1. PICK s \in Extracted, t \in Terms :
         /\ results[<<s, t>>] # None
         /\ \/ /\ \E action \in {"accept", "reject", "rename"} :
                   results' = [results EXCEPT ![<<s, t>>] = T!Overridden(results[<<s, t>>], action)]
               /\ UNCHANGED relations
            \/ /\ \E other \in terms :
                   relations' = relations \cup {[snapshot |-> s, source |-> t, target |-> other, kind |-> "alias"]}
               /\ UNCHANGED results
         /\ UNCHANGED <<terms, evidence, alignments, aligning>>
  BY DEF T!Review
<1>2. t \in terms
  BY <1>1 DEF ReviewsInv, StoreOK, ListedOK
<1>3. ListedOK(results', terms', evidence')
  <2>1. CASE \E action \in {"accept", "reject", "rename"} :
               results' = [results EXCEPT ![<<s, t>>] = T!Overridden(results[<<s, t>>], action)]
    <3>1. PICK rowNew : results' = [results EXCEPT ![<<s, t>>] = rowNew]
      BY <2>1
    <3>2. DOMAIN results' = DOMAIN results
      BY <3>1
    <3>3. \A k \in DOMAIN results : k # <<s, t>> => results'[k] = results[k]
      BY <3>1
    <3>4. ASSUME NEW u \in Extracted, NEW w \in Terms, results'[<<u, w>>] # None
          PROVE  results[<<u, w>>] # None
      <4>1. <<u, w>> \in DOMAIN results
        BY DEF ReviewsInv, StoreOK, ListedOK
      <4> QED
        BY <1>1, <3>3, <3>4, <4>1
    <3> QED
      BY <1>1, <3>2, <3>4 DEF ReviewsInv, StoreOK, ListedOK
  <2>2. CASE UNCHANGED results
    BY <1>1, <2>2 DEF ReviewsInv, StoreOK
  <2> QED
    BY <1>1, <2>1, <2>2
<1>4. RelationsOK(relations', terms')
  <2>1. CASE UNCHANGED relations
    BY <1>1, <2>1 DEF ReviewsInv, StoreOK
  <2>2. ASSUME NEW other \in terms,
               relations' = relations \cup {[snapshot |-> s, source |-> t, target |-> other, kind |-> "alias"]}
        PROVE  RelationsOK(relations', terms')
    BY <1>1, <1>2, <2>2 DEF ReviewsInv, StoreOK, RelationsOK
  <2> QED
    BY <1>1, <2>1, <2>2
<1> QED
  BY <1>1, <1>3, <1>4, NothingDecided DEF ReviewsInv, StoreOK, WorkOK

LEMMA AddManualReviews ==
  ASSUME ReviewsInv, T!AddManual
  PROVE  ReviewsInv' /\ T!DecidedStands
<1>1. PICK s \in Extracted : \E t \in Owned[s] :
         /\ terms' = terms \cup {t}
         /\ results' = [results EXCEPT ![<<s, t>>] = [status |-> "accepted", source |-> "manual"]]
         /\ evidence' = evidence \cup {[id |-> <<t, "manual", s>>, snapshot |-> s, term |-> t]}
         /\ UNCHANGED <<relations, alignments, aligning>>
  BY DEF T!AddManual
<1>0. PICK t \in Owned[s] :
         /\ terms' = terms \cup {t}
         /\ results' = [results EXCEPT ![<<s, t>>] = [status |-> "accepted", source |-> "manual"]]
         /\ evidence' = evidence \cup {[id |-> <<t, "manual", s>>, snapshot |-> s, term |-> t]}
         /\ UNCHANGED <<relations, alignments, aligning>>
  BY <1>1
<1> DEFINE row_ == [id |-> <<t, "manual", s>>, snapshot |-> s, term |-> t]
<1>2. row_.id = <<t, "manual", s>> /\ row_.snapshot = s /\ row_.term = t
  OBVIOUS
<1>3. EvidenceOK(evidence')
  <2>1. ASSUME NEW e \in evidence, e.id = row_.id
        PROVE  e = row_
    <3>1. e = [id |-> e.id, snapshot |-> e.snapshot, term |-> e.term]
      BY DEF ReviewsInv, StoreOK, EvidenceOK
    <3>2. e.id = <<e.term, "manual", e.snapshot>>
      <4>1. e.id # <<e.term, e.id[2]>>
        <5>1. Len(e.id) = 3
          BY <1>2, <2>1
        <5>2. Len(<<e.term, e.id[2]>>) = 2
          OBVIOUS
        <5> QED
          BY <5>1, <5>2
      <4> QED
        BY <4>1 DEF ReviewsInv, StoreOK, EvidenceOK
    <3>3. e.term = t /\ e.snapshot = s
      BY <1>2, <2>1, <3>2
    <3> QED
      BY <1>2, <2>1, <3>1, <3>3
  <2>2. evidence' = evidence \cup {row_}
    BY <1>0
  <2>3. EvidenceOK(evidence)
    BY DEF ReviewsInv, StoreOK
  <2>4. row_ = [id |-> row_.id, snapshot |-> row_.snapshot, term |-> row_.term]
    OBVIOUS
  <2>5. row_.id = <<row_.term, "manual", row_.snapshot>>
    BY <1>2
  <2> HIDE DEF row_
  <2> QED
    BY <2>1, <2>2, <2>3, <2>4, <2>5 DEF EvidenceOK
<1>4. ListedOK(results', terms', evidence')
  <2>1. DOMAIN results' = DOMAIN results /\ \A k \in DOMAIN results : k # <<s, t>> => results'[k] = results[k]
    BY <1>0
  <2>2. ASSUME NEW u \in Extracted, NEW w \in Terms, results'[<<u, w>>] # None
        PROVE  w \in terms' /\ \E e \in evidence' : e.snapshot = u /\ e.term = w
    <3>1. CASE u = s /\ w = t
      <4>1. row_ \in evidence'
        BY <1>0
      <4> QED
        BY <1>0, <1>2, <3>1, <4>1
    <3>2. CASE ~ (u = s /\ w = t)
      <4>1. <<u, w>> \in DOMAIN results /\ <<u, w>> # <<s, t>>
        BY <3>2 DEF ReviewsInv, StoreOK, ListedOK
      <4>2. results[<<u, w>>] # None
        BY <2>1, <2>2, <4>1
      <4> QED
        BY <1>0, <4>2 DEF ReviewsInv, StoreOK, ListedOK
    <3> QED
      BY <3>1, <3>2
  <2> QED
    BY <2>1, <2>2 DEF ReviewsInv, StoreOK, ListedOK
<1>5. RelationsOK(relations', terms')
  BY <1>0 DEF ReviewsInv, StoreOK, RelationsOK
<1> QED
  BY <1>0, <1>3, <1>4, <1>5, WorkGrows, NothingDecided DEF ReviewsInv, StoreOK, WorkOK

LEMMA BeginAlignReviews ==
  ASSUME ReviewsInv, T!BeginAlign
  PROVE  ReviewsInv' /\ T!DecidedStands
<1>1. PICK v \in Aligned :
         /\ aligning' = [aligning EXCEPT ![v] = T!Work(Held[v], {}, {}, None)]
         /\ UNCHANGED <<terms, results, evidence, relations, alignments>>
  BY DEF T!BeginAlign
<1>2. AligningOK(T!Work(Held[v], {}, {}, None), terms')
  BY TermsAssumption DEF AligningOK, T!Work
<1>3. \A w \in Aligned : aligning'[w].first \in {None, aligning[w].first}
  BY <1>1 DEF ReviewsInv, WorkOK, T!Nothing, T!Work
<1> QED
  BY <1>1, <1>2, <1>3, NothingDecided DEF ReviewsInv, StoreOK, WorkOK

LEMMA AlignMemberReviews ==
  ASSUME ReviewsInv, T!AlignMember
  PROVE  ReviewsInv' /\ T!DecidedStands
<1> DEFINE SourceOf(v) == Head(aligning[v].todo)
           ReportOf(v) == Recognized[SourceOf(v)]["all"]
<1>1. PICK v \in Aligned :
         /\ aligning[v].todo # <<>>
         /\ T!Replace(SourceOf(v), ReportOf(v))
         /\ aligning' = [aligning EXCEPT ![v] =
               IF T!Refused(SourceOf(v), ReportOf(v)) THEN T!Nothing
               ELSE T!Work(Tail(aligning[v].todo), aligning[v].accepted \cup T!Accepted(ReportOf(v)), {}, None)]
         /\ UNCHANGED alignments
  BY Zenon DEF T!AlignMember
<1> DEFINE s == Head(aligning[v].todo)
           rep == Recognized[s]["all"]
<1>2. aligning[v].todo \in Seq(Extracted) /\ AligningOK(aligning[v], terms)
  BY DEF ReviewsInv, WorkOK, AligningOK
<1>3. s \in Extracted /\ Tail(aligning[v].todo) \in Seq(Extracted)
  BY <1>1, <1>2
<1>4. DOMAIN rep.found \subseteq Terms /\ \A t \in DOMAIN rep.found : rep.found[t].evidence # {}
  BY <1>3, TermsAssumption
<1>5. T!Replace(s, rep)
  BY <1>1
<1>6. StoreOK' /\ terms \subseteq terms' /\ (T!Refused(s, rep) \/ DOMAIN rep.found \subseteq terms')
  <2> HIDE DEF s, rep
  <2> QED
    BY <1>3, <1>4, <1>5, ReplaceStore DEF ReviewsInv
<1>7. PICK work : /\ aligning' = [aligning EXCEPT ![v] = work]
                  /\ \/ T!Refused(s, rep) /\ work = T!Nothing
                     \/ /\ ~ T!Refused(s, rep) /\ work.todo = Tail(aligning[v].todo)
                        /\ work.first = None
                        /\ \E good \in SUBSET DOMAIN rep.found : work.accepted = aligning[v].accepted \cup good
  <2> DEFINE good == T!Accepted(rep)
             next == T!Work(Tail(aligning[v].todo), aligning[v].accepted \cup good, {}, None)
  <2>1. aligning' = [aligning EXCEPT ![v] = IF T!Refused(s, rep) THEN T!Nothing ELSE next]
    BY <1>1
  <2>2. /\ next.todo = Tail(aligning[v].todo) /\ next.accepted = aligning[v].accepted \cup good
        /\ next.first = None
    BY DEF T!Work
  <2>3. good \in SUBSET DOMAIN rep.found
    BY DEF T!Accepted
  <2>4. CASE T!Refused(s, rep)
    <3>1. aligning' = [aligning EXCEPT ![v] = T!Nothing]
      BY <2>1, <2>4
    <3> QED
      BY <2>4, <3>1
  <2>5. CASE ~ T!Refused(s, rep)
    <3>1. aligning' = [aligning EXCEPT ![v] = next]
      BY <2>1, <2>5
    <3> HIDE DEF good, next, s, rep
    <3> QED
      BY <2>2, <2>3, <2>5, <3>1
  <2> QED
    BY <2>4, <2>5
<1>8. aligning[v] # T!Nothing
  BY <1>1 DEF T!Nothing, T!Work
<1>9. AligningOK(work, terms')
  <2>1. CASE work = T!Nothing
    BY <2>1 DEF AligningOK, T!Nothing, T!Work
  <2>2. CASE work # T!Nothing
    BY <1>2, <1>3, <1>6, <1>7, <1>8, <2>2 DEF AligningOK
  <2> QED
    BY <2>1, <2>2
<1>10. WorkOK'
  BY <1>6, <1>7, <1>9, WorkGrows DEF ReviewsInv, WorkOK
<1>11. \A w \in Aligned : aligning'[w].first \in {None, aligning[w].first}
  BY <1>7 DEF ReviewsInv, WorkOK, T!Nothing, T!Work
<1> QED
  BY <1>1, <1>6, <1>10, <1>11, WorkGrows, NothingDecided DEF ReviewsInv

LEMMA ReadAlignmentReviews ==
  ASSUME ReviewsInv, T!ReadAlignment
  PROVE  ReviewsInv' /\ T!DecidedStands
<1>1. PICK v \in Aligned :
         /\ aligning[v] # T!Nothing
         /\ \E l \in T!Items(v) :
              aligning' = [aligning EXCEPT ![v] =
                IF T!Undecided(v, l) THEN T!Work(<<>>, @.accepted, @.passed, l)
                ELSE T!Work(<<>>, @.accepted, @.passed \cup {l}, None)]
         /\ UNCHANGED <<terms, results, evidence, relations, alignments>>
  BY DEF T!ReadAlignment, T!Saving
<1>2. PICK l \in T!Items(v) :
         aligning' = [aligning EXCEPT ![v] =
           IF T!Undecided(v, l) THEN T!Work(<<>>, @.accepted, @.passed, l)
           ELSE T!Work(<<>>, @.accepted, @.passed \cup {l}, None)]
  BY <1>1
<1>3. l \in Alike /\ l \subseteq aligning[v].accepted
  BY DEF T!Items
<1>4. PICK work : /\ aligning' = [aligning EXCEPT ![v] = work]
                  /\ work.todo = <<>> /\ work.accepted = aligning[v].accepted
                  /\ work.first = None \/ (work.first = l /\ T!Undecided(v, l))
  <2> DEFINE chosen == T!Work(<<>>, aligning[v].accepted, aligning[v].passed, l)
             passing == T!Work(<<>>, aligning[v].accepted, aligning[v].passed \cup {l}, None)
  <2>0. /\ chosen.todo = <<>> /\ chosen.accepted = aligning[v].accepted /\ chosen.first = l
        /\ passing.todo = <<>> /\ passing.accepted = aligning[v].accepted /\ passing.first = None
    BY DEF T!Work
  <2>1. CASE T!Undecided(v, l)
    <3>1. aligning' = [aligning EXCEPT ![v] = chosen]
      BY <1>2, <2>1
    <3> HIDE DEF chosen, passing
    <3> QED
      BY <2>0, <2>1, <3>1
  <2>2. CASE ~ T!Undecided(v, l)
    <3>1. aligning' = [aligning EXCEPT ![v] = passing]
      BY <1>2, <2>2
    <3> HIDE DEF chosen, passing
    <3> QED
      BY <2>0, <2>2, <3>1
  <2> QED
    BY <2>1, <2>2
<1>5. AligningOK(aligning[v], terms)
  BY DEF ReviewsInv, WorkOK
<1>6. AligningOK(work, terms)
  BY <1>1, <1>3, <1>4, <1>5 DEF AligningOK
<1>7. WorkOK'
  BY <1>1, <1>4, <1>6 DEF ReviewsInv, WorkOK
<1>8. T!DecidedStands
  <2>1. ASSUME NEW w \in Aligned, aligning'[w].first \notin {None, aligning[w].first}
        PROVE  T!Undecided(w, aligning'[w].first)
    <3>1. w = v
      BY <1>4, <2>1 DEF ReviewsInv, WorkOK
    <3> QED
      BY <1>4, <2>1, <3>1 DEF ReviewsInv, WorkOK
  <2> QED
    BY <1>1, <2>1 DEF T!DecidedStands
<1> QED
  BY <1>1, <1>7, <1>8 DEF ReviewsInv, StoreOK

LEMMA SaveAlignmentsReviews ==
  ASSUME ReviewsInv, T!SaveAlignments
  PROVE  ReviewsInv' /\ T!DecidedStands
<1>1. PICK v \in Aligned :
         /\ aligning[v] # T!Nothing
         /\ \/ alignments' = alignments
            \/ \E chosen \in SUBSET T!Items(v) :
                 /\ \A l \in chosen : l = aligning[v].first \/ T!Undecided(v, l)
                 /\ alignments' = [k \in Aligned \X Alike |->
                      IF k[1] = v /\ k[2] \in chosen THEN "needs_review" ELSE alignments[k]]
         /\ aligning' = [aligning EXCEPT ![v] = T!Nothing]
         /\ UNCHANGED <<terms, results, evidence, relations>>
  <2>1. PICK v \in Aligned :
         /\ T!Saving(v)
         /\ LET first == aligning[v].first
                unread == T!Items(v) \ aligning[v].passed
                chosen == IF first = None THEN {} ELSE {l \in unread : l = first \/ T!Undecided(v, l)}
                elsewhere == \E l \in chosen, w \in Aligned \ {v} : alignments[<<w, l>>] # None
            IN  alignments' = IF elsewhere THEN alignments
                              ELSE [k \in Aligned \X Alike |->
                                      IF k[1] = v /\ k[2] \in chosen THEN "needs_review" ELSE alignments[k]]
         /\ aligning' = [aligning EXCEPT ![v] = T!Nothing]
         /\ UNCHANGED <<terms, results, evidence, relations>>
    BY DEF T!SaveAlignments
  <2> DEFINE unread == T!Items(v) \ aligning[v].passed
             chosen == IF aligning[v].first = None THEN {}
                        ELSE {l \in unread : l = aligning[v].first \/ T!Undecided(v, l)}
  <2>2. \/ alignments' = alignments
        \/ alignments' = [k \in Aligned \X Alike |->
             IF k[1] = v /\ k[2] \in chosen THEN "needs_review" ELSE alignments[k]]
    BY <2>1
  <2>3. /\ chosen \in SUBSET T!Items(v)
        /\ \A l \in chosen : l = aligning[v].first \/ T!Undecided(v, l)
    OBVIOUS
  <2> HIDE DEF chosen
  <2> QED
    BY <2>1, <2>2, <2>3 DEF T!Saving
<1>2. aligning[v].accepted \subseteq terms
  BY <1>1 DEF ReviewsInv, WorkOK, AligningOK
<1>3. AlignmentsOK(alignments', terms')
  BY <1>1, <1>2 DEF ReviewsInv, AlignmentsOK, T!Items
<1>4. aligning'[v] = T!Nothing /\ \A w \in Aligned : w # v => aligning'[w] = aligning[w]
  BY <1>1 DEF ReviewsInv, WorkOK
<1>5. ASSUME NEW k \in DOMAIN alignments, alignments[k] \in T!Decided
      PROVE  \/ alignments'[k] \in T!Decided
             \/ aligning[k[1]].first = k[2] /\ aligning'[k[1]] = T!Nothing
  <2>1. PICK w \in Aligned, l \in Alike : k = <<w, l>>
    BY <1>5 DEF ReviewsInv, AlignmentsOK
  <2>2. ~ T!Undecided(w, l)
    BY <1>5, <2>1 DEF T!Undecided
  <2> QED
    BY <1>1, <1>4, <1>5, <2>1, <2>2
<1>6. ASSUME NEW w \in Aligned, aligning'[w].first \notin {None, aligning[w].first}
      PROVE  FALSE
  BY <1>4, <1>6 DEF T!Nothing, T!Work
<1>7. AligningOK(T!Nothing, terms)
  BY DEF AligningOK, T!Nothing, T!Work
<1>8. T!DecidedStands
  BY <1>5, <1>6 DEF T!DecidedStands
<1> QED
  BY <1>1, <1>3, <1>7, <1>8 DEF ReviewsInv, StoreOK, WorkOK

LEMMA ReviewAlignmentReviews ==
  ASSUME ReviewsInv, T!ReviewAlignment
  PROVE  ReviewsInv' /\ T!DecidedStands
<1>1. PICK v \in Aligned, l \in Alike, decision \in T!Decided :
         /\ alignments[<<v, l>>] # None
         /\ alignments' = [alignments EXCEPT ![<<v, l>>] = decision]
         /\ UNCHANGED <<terms, results, evidence, relations, aligning>>
  BY DEF T!ReviewAlignment
<1>2. /\ DOMAIN alignments' = DOMAIN alignments
      /\ \A k \in DOMAIN alignments : alignments'[k] = IF k = <<v, l>> THEN decision ELSE alignments[k]
  BY <1>1
<1>3. l \subseteq terms
  BY <1>1 DEF ReviewsInv, AlignmentsOK
<1>4. AlignmentsOK(alignments', terms')
  <2>1. ASSUME NEW w \in Aligned, NEW k \in Alike, alignments'[<<w, k>>] # None
        PROVE  k \subseteq terms'
    <3>1. <<w, k>> \in DOMAIN alignments
      BY DEF ReviewsInv, AlignmentsOK
    <3> QED
      BY <1>1, <1>2, <1>3, <2>1, <3>1 DEF ReviewsInv, AlignmentsOK
  <2> QED
    BY <1>2, <2>1 DEF ReviewsInv, AlignmentsOK
<1>5. T!DecidedStands
  BY <1>1, <1>2 DEF T!DecidedStands
<1> QED
  BY <1>1, <1>4, <1>5 DEF ReviewsInv, StoreOK, WorkOK

LEMMA ReviewsImply ==
  ASSUME ReviewsInv
  PROVE  T!TermsAreTraceable /\ T!TypeOK
<1>1. ASSUME NEW k \in DOMAIN results, results[k] # None
      PROVE  k[2] \in terms /\ \E e \in evidence : e.snapshot = k[1] /\ e.term = k[2]
  <2>1. PICK s \in Extracted, t \in Terms : k = <<s, t>>
    BY DEF ReviewsInv, StoreOK, ListedOK
  <2> QED
    BY <1>1, <2>1 DEF ReviewsInv, StoreOK, ListedOK
<1>2. ASSUME NEW k \in DOMAIN alignments, alignments[k] # None
      PROVE  k[2] \subseteq terms
  <2>1. PICK v \in Aligned, l \in Alike : k = <<v, l>>
    BY DEF ReviewsInv, AlignmentsOK
  <2> QED
    BY <1>2, <2>1 DEF ReviewsInv, AlignmentsOK
<1> QED
  BY <1>1, <1>2 DEF ReviewsInv, StoreOK, EvidenceOK, RelationsOK, T!TermsAreTraceable, T!TypeOK

ReviewingInv == focus = "reviewing" => ReviewsInv

LEMMA ReviewsStep ==
  ASSUME ReviewingInv, [Next]_<<cataloging, storing, now, capturing, upgrading, reviewing, focus>>
  PROVE  ReviewingInv' /\ ((focus = "reviewing" => T!ReviewStands) \/ UNCHANGED <<reviewing, focus>>)
<1>1. CASE focus = "reviewing" /\ T!Next /\ focus' = focus
  <2>1. ReviewsInv' /\ T!DecidedStands
    BY <1>1, ExtractReviews, ReviewReviews, AddManualReviews, BeginAlignReviews, AlignMemberReviews,
       ReadAlignmentReviews, SaveAlignmentsReviews, ReviewAlignmentReviews DEF ReviewingInv, T!Next
  <2>2. T!TermsAreTraceable' /\ T!TypeOK'
    BY <2>1, ReviewsImply, PTL
  <2> QED
    BY <1>1, <2>1, <2>2 DEF ReviewingInv, T!ReviewStands
<1>2. CASE UNCHANGED <<reviewing, focus>>
  <2>1. ReviewsInv <=> ReviewsInv'
    BY <1>2 DEF reviewing, ReviewsInv, StoreOK, WorkOK
  <2> QED
    BY <1>2, <2>1 DEF ReviewingInv
<1> QED
  BY <1>1, <1>2 DEF Next

(* However extraction, reviews, additions by hand and alignments of any    *)
(* views interleave, no recommendation takes back what was decided about   *)
(* an alignment, and every term that a snapshot lists can be traced.       *)
THEOREM ReviewsStandHolds == Spec => ReviewsStand
<1>1. Init => ReviewingInv
  <2> SUFFICES ASSUME Init, focus = "reviewing"
               PROVE  ReviewsInv
    BY DEF ReviewingInv
  <2>1. T!Init
    BY DEF Init
  <2>2. StoreOK
    BY <2>1 DEF T!Init, StoreOK, EvidenceOK, ListedOK, RelationsOK
  <2>3. AlignmentsOK(alignments, terms)
    BY <2>1 DEF T!Init, AlignmentsOK
  <2>4. AligningOK(T!Nothing, terms)
    BY DEF AligningOK, T!Nothing, T!Work
  <2>5. WorkOK
    BY <2>1, <2>4 DEF T!Init, WorkOK
  <2> QED
    BY <2>2, <2>3, <2>5 DEF ReviewsInv
<1>2. ReviewingInv /\ [Next]_<<cataloging, storing, now, capturing, upgrading, reviewing, focus>> =>
        ReviewingInv' /\ [focus = "reviewing" => T!ReviewStands]_<<reviewing, focus>>
  BY ReviewsStep
<1> QED
  BY <1>1, <1>2, PTL DEF Spec, ReviewsStand

=============================================================================
