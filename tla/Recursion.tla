------------------------------ MODULE Recursion -----------------------------
(***************************************************************************)
(* Induction and recursion over data, stated about sets and functions so   *)
(* that they can be cited: a set of numbers has a least one, a set of      *)
(* subsets of a finite set a smallest one, and a function may be defined   *)
(* by recursion along a relation that is well founded.  The proofs about   *)
(* the log of the feedback service and about the recursive functions of    *)
(* the event graph rest on them.                                           *)
(***************************************************************************)
EXTENDS Integers, FiniteSets, FiniteSetTheorems, WellFoundedInduction, TLAPS

\* A set of numbers has a least one.
LEMMA LeastNumber ==
    ASSUME NEW X \in SUBSET Nat, X # {}
    PROVE  \E x \in X : \A y \in X : x <= y
<1>1. \E x \in X : \A y \in X : ~(<<y, x>> \in OpToRel(<, Nat))
  BY NatLessThanWellFounded, WFMin
<1>2. PICK x \in X : \A y \in X : ~(<<y, x>> \in OpToRel(<, Nat))
  BY <1>1
<1>3. \A y \in X : ~(y < x)
  BY <1>2 DEF OpToRel
<1> QED
  BY <1>3

\* A set of numbers with a bound has a greatest one.
LEMMA GreatestNumber ==
    ASSUME NEW n \in Nat, NEW X \in SUBSET (0..n), X # {}
    PROVE  \E x \in X : \A y \in X : y <= x
<1> DEFINE Y == {n - x : x \in X}
<1>1. Y \in SUBSET Nat /\ Y # {}
  <2>1. \A x \in X : n - x \in Nat
    OBVIOUS
  <2>2. Y # {}
    <3>1. PICK x \in X : TRUE
      OBVIOUS
    <3>2. n - x \in Y
      OBVIOUS
    <3> QED
      BY <3>2
  <2> QED
    BY <2>1, <2>2
<1>2. PICK y \in Y : \A z \in Y : y <= z
  <2> HIDE DEF Y
  <2> QED
    BY <1>1, LeastNumber
<1>3. PICK x \in X : y = n - x
  BY <1>2
<1>4. ASSUME NEW z \in X PROVE z <= x
  <2>1. n - z \in Y
    OBVIOUS
  <2> QED
    BY <1>2, <1>3, <2>1
<1> QED
  BY <1>4

\* A set of subsets of a finite set has one that none of the others is within.
LEMMA LeastSubset ==
    ASSUME NEW S, IsFiniteSet(S), NEW X \in SUBSET SUBSET S, X # {}
    PROVE  \E T \in X : \A U \in X : U \subseteq T => U = T
<1>1. IsWellFoundedOn(StrictSubsetOrdering(S), SUBSET S)
  BY FS_StrictSubsetOrderingWellFounded, FS_FiniteSubsetsOfFinite
<1>2. \E T \in X : \A U \in X : ~(<<U, T>> \in StrictSubsetOrdering(S))
  BY <1>1, WFMin
<1> QED
  BY <1>2 DEF StrictSubsetOrdering

\* A finite set in which any two elements compare has a last one.
LEMMA LastElement ==
    ASSUME NEW S, IsFiniteSet(S), S # {}, NEW before,
           \A x, y \in S : <<x, y>> \in before \/ <<y, x>> \in before,
           \A x, y, z \in S : <<x, y>> \in before /\ <<y, z>> \in before => <<x, z>> \in before
    PROVE  \E x \in S : \A y \in S : <<y, x>> \in before
<1> DEFINE HasLast(T) == \E x \in T : \A y \in T : <<y, x>> \in before
           X == {T \in SUBSET S : T # {} /\ ~HasLast(T)}
<1>1. ASSUME X # {} PROVE FALSE
  <2>1. PICK T \in X : \A U \in X : U \subseteq T => U = T
    <3>1. X \in SUBSET SUBSET S
      OBVIOUS
    <3> HIDE DEF X
    <3> QED
      BY <1>1, <3>1, LeastSubset
  <2>2. PICK x \in T : TRUE
    BY <2>1
  <2>3. <<x, x>> \in before
    BY <2>1, <2>2
  <2>4. CASE T \ {x} = {}
    BY <2>1, <2>2, <2>3, <2>4
  <2>5. CASE T \ {x} # {}
    <3>1. HasLast(T \ {x})
      <4>1. T \ {x} \notin X
        <5>1. T \ {x} \subseteq T /\ T \ {x} # T
          BY <2>2
        <5> HIDE DEF X
        <5> QED
          BY <2>1, <5>1
      <4>2. T \ {x} \in SUBSET S
        BY <2>1
      <4> HIDE DEF HasLast
      <4> QED
        BY <2>5, <4>1, <4>2
    <3>2. PICK y \in T \ {x} : \A z \in T \ {x} : <<z, y>> \in before
      BY <3>1
    <3>3. CASE <<x, y>> \in before
      BY <2>1, <3>2, <3>3
    <3>4. CASE <<y, x>> \in before
      <4>1. \A z \in T : <<z, x>> \in before
        BY <2>1, <2>2, <2>3, <3>2, <3>4
      <4> QED
        BY <2>1, <2>2, <4>1
    <3> QED
      BY <2>1, <2>2, <3>2, <3>3, <3>4
  <2> QED
    BY <2>4, <2>5
<1> QED
  BY <1>1

----------------------------------------------------------------------------
\* below[s]: the elements that come before s.  Every set has a first element.
WellFounded(S, below) ==
    \A X \in SUBSET S : X # {} => \E x \in X : below[x] \cap X = {}

\* The values of f below s.
Below(f, below, s) == [x \in below[s] |-> f[x]]

\* f is what step makes of the values below.
Solves(f, S, below, step) == \A s \in S : f[s] = step[s][Below(f, below, s)]

\* Two solutions are the same wherever both are closed under what is below.
LEMMA RecursionUnique ==
    ASSUME NEW S, NEW below, WellFounded(S, below),
           NEW step, NEW f, NEW g, NEW U \in SUBSET S, \A s \in U : below[s] \subseteq U,
           Solves(f, U, below, step), Solves(g, U, below, step)
    PROVE  \A s \in U : f[s] = g[s]
<1> DEFINE X == {s \in U : f[s] # g[s]}
<1> SUFFICES ASSUME X # {} PROVE FALSE
  OBVIOUS
<1>1. PICK s \in X : below[s] \cap X = {}
  BY DEF WellFounded
<1>2. \A x \in below[s] : f[x] = g[x]
  BY <1>1
<1>3. Below(f, below, s) = Below(g, below, s)
  BY <1>2 DEF Below
<1> QED
  BY <1>1, <1>3 DEF Solves

\* There is a solution: the union of the solutions on the sets that are closed
\* under what is below is one, and a first element outside could be added to it.
LEMMA RecursionExists ==
    ASSUME NEW S, NEW T, NEW below \in [S -> SUBSET S], WellFounded(S, below), NEW step,
           \A s \in S : \A g \in [below[s] -> T] : step[s][g] \in T
    PROVE  \E f \in [S -> T] : Solves(f, S, below, step)
<1> DEFINE Closed(U) == \A s \in U : below[s] \subseteq U
           Solution(U) == {g \in [U -> T] : Solves(g, U, below, step)}
           Good == {U \in SUBSET S : Closed(U) /\ Solution(U) # {}}
           W == UNION Good
           sol(U) == CHOOSE g \in Solution(U) : TRUE
           pick(s) == CHOOSE U \in Good : s \in U
           f == [s \in W |-> sol(pick(s))[s]]
<1>1. ASSUME NEW U \in Good
      PROVE  sol(U) \in [U -> T] /\ Solves(sol(U), U, below, step)
  <2>1. sol(U) \in Solution(U)
    BY <1>1
  <2> QED
    BY <2>1
<1>2. ASSUME NEW U \in Good, NEW V \in Good, NEW s \in U \cap V
      PROVE  sol(U)[s] = sol(V)[s]
  <2> DEFINE g == sol(U)
             h == sol(V)
             I == U \cap V
  <2>1. Solves(g, I, below, step) /\ Solves(h, I, below, step)
    BY <1>1 DEF Solves
  <2>2. I \in SUBSET S /\ \A x \in I : below[x] \subseteq I
    OBVIOUS
  <2> HIDE DEF g, h, I
  <2>3. \A x \in I : g[x] = h[x]
    BY <2>1, <2>2, RecursionUnique
  <2> QED
    BY <2>3 DEF g, h, I
<1>3. ASSUME NEW U \in Good, NEW s \in U
      PROVE  f[s] = sol(U)[s]
  <2>1. s \in W
    OBVIOUS
  <2>2. pick(s) \in Good /\ s \in pick(s)
    OBVIOUS
  <2> QED
    BY <1>2, <2>1, <2>2
<1>4. f \in [W -> T]
  <2>1. ASSUME NEW s \in W PROVE sol(pick(s))[s] \in T
    <3>1. pick(s) \in Good /\ s \in pick(s)
      OBVIOUS
    <3> QED
      BY <1>1, <3>1
  <2> QED
    BY <2>1
<1> HIDE DEF f, sol, pick
<1>5. W \in SUBSET S /\ Closed(W)
  OBVIOUS
<1>6. Solves(f, W, below, step)
  <2> SUFFICES ASSUME NEW s \in W
               PROVE  f[s] = step[s][Below(f, below, s)]
    BY DEF Solves
  <2>1. PICK U \in Good : s \in U
    OBVIOUS
  <2>2. \A x \in below[s] : f[x] = sol(U)[x]
    BY <1>3, <2>1
  <2>3. Below(f, below, s) = Below(sol(U), below, s)
    BY <2>2 DEF Below
  <2> QED
    BY <1>1, <1>3, <2>1, <2>3 DEF Solves
<1>7. W = S
  <2> SUFFICES ASSUME S \ W # {} PROVE FALSE
    BY <1>5
  <2>1. PICK s \in S \ W : below[s] \cap (S \ W) = {}
    BY DEF WellFounded
  <2>2. below[s] \subseteq W
    BY <2>1
  <2> DEFINE V == W \cup {s}
             h == [x \in V |-> IF x = s THEN step[s][Below(f, below, s)] ELSE f[x]]
  <2>3. Below(f, below, s) \in [below[s] -> T]
    BY <1>4, <2>2 DEF Below
  <2>4. h \in [V -> T]
    BY <1>4, <2>3
  <2>5. ASSUME NEW x \in V PROVE Below(h, below, x) = Below(f, below, x)
    <3>1. below[x] \subseteq W
      BY <1>5, <2>2
    <3>2. \A y \in below[x] : h[y] = f[y]
      BY <2>1, <3>1
    <3> QED
      BY <3>2 DEF Below
  <2>6. Solves(h, V, below, step)
    BY <1>6, <2>5 DEF Solves
  <2>7. V \in Good
    <3>1. h \in Solution(V)
      BY <2>4, <2>6
    <3> QED
      BY <1>5, <2>2, <3>1
  <2> QED
    BY <2>1, <2>7
<1> HIDE DEF W, Good
<1>8. f \in [S -> T] /\ Solves(f, S, below, step)
  BY <1>4, <1>6, <1>7
<1> QED
  BY <1>8
----------------------------------------------------------------------------
\* f folds op over every subset of S, taking away one element after the other.
IsFold(f, S, base, pick, op) ==
    f = [U \in SUBSET S |->
            IF U = {} THEN base ELSE op[<<pick[U], f[U \ {pick[U]}]>>]]

\* There is such a function: its argument gets smaller.
LEMMA FoldExists ==
    ASSUME NEW S, IsFiniteSet(S), NEW T, NEW base \in T,
           NEW pick, \A U \in SUBSET S : U # {} => pick[U] \in U,
           NEW op, \A x \in S, t \in T : op[<<x, t>>] \in T
    PROVE  \E f \in [SUBSET S -> T] : IsFold(f, S, base, pick, op)
<1> DEFINE B == SUBSET S
           below == [U \in B |-> IF U = {} THEN {} ELSE {U \ {pick[U]}}]
           step == [U \in B |-> [g \in [below[U] -> T] |->
                       IF U = {} THEN base ELSE op[<<pick[U], g[U \ {pick[U]}]>>]]]
<1>1. below \in [B -> SUBSET B]
  OBVIOUS
<1>2. WellFounded(B, below)
  <2>1. SUFFICES ASSUME NEW X \in SUBSET B, X # {}
                 PROVE  \E x \in X : below[x] \cap X = {}
    BY DEF WellFounded
  <2>2. PICK x \in X : \A U \in X : U \subseteq x => U = x
    BY <2>1, LeastSubset
  <2>3. below[x] \cap X = {}
    <3>1. CASE x = {}
      BY <3>1
    <3>2. CASE x # {}
      <4>1. pick[x] \in x
        BY <3>2
      <4>2. PICK y : y = x \ {pick[x]}
        OBVIOUS
      <4>3. y \notin X
        BY <2>2, <4>1, <4>2
      <4>4. below[x] = {y}
        BY <3>2, <4>2
      <4> HIDE DEF below
      <4> QED
        BY <4>3, <4>4
    <3> QED
      BY <3>1, <3>2
  <2> QED
    BY <2>3
<1>3. \A U \in B : \A g \in [below[U] -> T] : step[U][g] \in T
  <2>1. SUFFICES ASSUME NEW U \in B, NEW g \in [below[U] -> T]
                 PROVE  step[U][g] \in T
    OBVIOUS
  <2>2. CASE U = {}
    BY <2>2
  <2>3. CASE U # {}
    <3>1. pick[U] \in S /\ U \ {pick[U]} \in below[U]
      BY <2>3
    <3> QED
      BY <2>3, <3>1
  <2> QED
    BY <2>2, <2>3
<1>4. PICK f \in [B -> T] : Solves(f, B, below, step)
  <2> HIDE DEF B, below, step
  <2> QED
    BY <1>1, <1>2, <1>3, RecursionExists
<1>5. ASSUME NEW U \in B
      PROVE  f[U] = IF U = {} THEN base ELSE op[<<pick[U], f[U \ {pick[U]}]>>]
  <2>1. Below(f, below, U) \in [below[U] -> T]
    BY <1>1 DEF Below
  <2>2. f[U] = step[U][Below(f, below, U)]
    BY <1>4 DEF Solves
  <2>3. step[U][Below(f, below, U)] =
            IF U = {} THEN base
            ELSE op[<<pick[U], Below(f, below, U)[U \ {pick[U]}]>>]
    BY <2>1
  <2> QED
    BY <2>2, <2>3 DEF Below
<1> QED
  BY <1>4, <1>5 DEF IsFold

----------------------------------------------------------------------------
\* The depth of the nodes of a graph: par[e] are the parents of e.
Acyclic(par, D) == \A X \in SUBSET D : X # {} => \E x \in X : par[x] \cap X = {}

\* One more than the greatest.
Deeper(above) ==
    IF above = {} THEN 0 ELSE 1 + CHOOSE n \in above : \A m \in above : m <= n

\* depth is the function that is defined by this recursion.
Deepens(depth, par, D) == depth = [e \in D |-> Deeper({depth[p] : p \in par[e] \cap D})]

LEMMA DeeperFacts ==
    ASSUME NEW P, IsFiniteSet(P), NEW g, \A p \in P : g[p] \in Nat
    PROVE  /\ Deeper({g[p] : p \in P}) \in Nat
           /\ \A p \in P : g[p] < Deeper({g[p2] : p2 \in P})
           /\ \A k \in Nat : (\A p \in P : g[p] < k) => Deeper({g[p] : p \in P}) <= k
<1>1. PICK above : above = {g[p] : p \in P}
  OBVIOUS
<1>2. above \in SUBSET Nat /\ \A p \in P : g[p] \in above
  BY <1>1
<1>3. CASE P = {}
  BY <1>1, <1>3 DEF Deeper
<1>4. CASE P # {}
  <2> DEFINE before == {pair \in P \X P : g[pair[1]] <= g[pair[2]]}
  <2>1. \A x, y \in P : <<x, y>> \in before <=> g[x] <= g[y]
    OBVIOUS
  <2> HIDE DEF before
  <2>2. /\ \A x, y \in P : <<x, y>> \in before \/ <<y, x>> \in before
        /\ \A x, y, z \in P : <<x, y>> \in before /\ <<y, z>> \in before => <<x, z>> \in before
    BY <2>1
  <2>3. PICK x \in P : \A y \in P : <<y, x>> \in before
    BY <1>4, <2>2, LastElement
  <2>4. g[x] \in above /\ \A m \in above : m <= g[x]
    BY <1>1, <2>1, <2>3
  <2>5. PICK n : n = CHOOSE k \in above : \A m \in above : m <= k
    OBVIOUS
  <2>6. n \in above /\ \A m \in above : m <= n
    BY <2>4, <2>5
  <2>7. Deeper(above) = 1 + n
    BY <2>4, <2>5 DEF Deeper
  <2>8. PICK q \in P : n = g[q]
    BY <1>1, <2>6
  <2>9. n \in Nat /\ \A p \in P : g[p] <= n
    BY <1>2, <2>6
  <2> QED
    BY <1>1, <2>7, <2>8, <2>9
<1> QED
  BY <1>3, <1>4

\* There is such a function.
LEMMA DepthExists ==
    ASSUME NEW D, IsFiniteSet(D), NEW par, Acyclic(par, D)
    PROVE  \E depth \in [D -> Nat] : Deepens(depth, par, D)
<1> DEFINE below == [e \in D |-> par[e] \cap D]
           step == [e \in D |-> [g \in [below[e] -> Nat] |-> Deeper({g[p] : p \in below[e]})]]
<1>1. below \in [D -> SUBSET D]
  OBVIOUS
<1>2. WellFounded(D, below)
  <2>1. ASSUME NEW X \in SUBSET D, X # {}
        PROVE  \E x \in X : below[x] \cap X = {}
    <3>1. PICK x \in X : par[x] \cap X = {}
      BY <2>1 DEF Acyclic
    <3> QED
      BY <3>1
  <2> QED
    BY <2>1 DEF WellFounded
<1>3. \A e \in D : \A g \in [below[e] -> Nat] : step[e][g] \in Nat
  <2>1. SUFFICES ASSUME NEW e \in D, NEW g \in [below[e] -> Nat]
                 PROVE  step[e][g] \in Nat
    OBVIOUS
  <2>2. step[e][g] = Deeper({g[p] : p \in below[e]})
    OBVIOUS
  <2>3. IsFiniteSet(below[e])
    <3>1. below[e] \in SUBSET D
      BY <1>1
    <3> HIDE DEF below
    <3> QED
      BY <3>1, FS_Subset
  <2> HIDE DEF below, step
  <2> QED
    BY <2>2, <2>3, DeeperFacts
<1>4. PICK f \in [D -> Nat] : Solves(f, D, below, step)
  <2> HIDE DEF below, step
  <2> QED
    BY <1>1, <1>2, <1>3, RecursionExists
<1>5. ASSUME NEW e \in D
      PROVE  f[e] = Deeper({f[p] : p \in par[e] \cap D})
  <2>1. Below(f, below, e) \in [below[e] -> Nat]
    BY <1>1 DEF Below
  <2>2. f[e] = step[e][Below(f, below, e)]
    BY <1>4 DEF Solves
  <2>3. step[e][Below(f, below, e)] = Deeper({Below(f, below, e)[p] : p \in below[e]})
    BY <2>1
  <2>4. {Below(f, below, e)[p] : p \in below[e]} = {f[p] : p \in par[e] \cap D}
    BY DEF Below
  <2> QED
    BY <2>2, <2>3, <2>4
<1> QED
  BY <1>4, <1>5 DEF Deepens

\* A node is deeper than its parents, and no deeper than it has to be.
LEMMA DepthFacts ==
    ASSUME NEW D, IsFiniteSet(D), NEW par, Acyclic(par, D), NEW depth, Deepens(depth, par, D)
    PROVE  /\ depth \in [D -> Nat]
           /\ \A e \in D : \A p \in par[e] \cap D : depth[p] < depth[e]
           /\ \A e \in D : \A k \in Nat :
                 (\A p \in par[e] \cap D : depth[p] < k) => depth[e] <= k
<1>1. \A e \in D : IsFiniteSet(par[e] \cap D)
  BY FS_Subset
<1>2. \A e \in D : depth[e] \in Nat
  <2> DEFINE Bad == {e \in D : depth[e] \notin Nat}
  <2>1. ASSUME Bad # {} PROVE FALSE
    <3>1. PICK e \in Bad : par[e] \cap Bad = {}
      BY <2>1 DEF Acyclic
    <3>2. \A p \in par[e] \cap D : depth[p] \in Nat
      BY <3>1
    <3>3. PICK P : P = par[e] \cap D
      OBVIOUS
    <3>4. IsFiniteSet(P) /\ \A p \in P : depth[p] \in Nat
      BY <1>1, <3>2, <3>3
    <3>5. Deeper({depth[p] : p \in P}) \in Nat
      BY <3>4, DeeperFacts
    <3> QED
      BY <3>1, <3>3, <3>5 DEF Deepens
  <2> QED
    BY <2>1
<1>3. ASSUME NEW e \in D
      PROVE  /\ \A p \in par[e] \cap D : depth[p] < depth[e]
             /\ \A k \in Nat : (\A p \in par[e] \cap D : depth[p] < k) => depth[e] <= k
  <2>1. PICK P : P = par[e] \cap D
    OBVIOUS
  <2>2. IsFiniteSet(P) /\ \A p \in P : depth[p] \in Nat
    BY <1>1, <1>2, <2>1
  <2>3. depth[e] = Deeper({depth[p] : p \in P})
    BY <2>1 DEF Deepens
  <2>4. /\ \A p \in P : depth[p] < depth[e]
        /\ \A k \in Nat : (\A p \in P : depth[p] < k) => depth[e] <= k
    BY <2>2, <2>3, DeeperFacts
  <2> QED
    BY <2>1, <2>4
<1> QED
  BY <1>1, <1>2, <1>3 DEF Deepens

\* There is only one such function.
LEMMA DepthUnique ==
    ASSUME NEW D, NEW par, Acyclic(par, D), NEW depth, Deepens(depth, par, D),
           NEW other, Deepens(other, par, D)
    PROVE  depth = other
<1> DEFINE Bad == {e \in D : depth[e] # other[e]}
<1>1. ASSUME Bad # {} PROVE FALSE
  <2>1. PICK e \in Bad : par[e] \cap Bad = {}
    BY <1>1 DEF Acyclic
  <2>2. \A p \in par[e] \cap D : depth[p] = other[p]
    BY <2>1
  <2>3. {depth[p] : p \in par[e] \cap D} = {other[p] : p \in par[e] \cap D}
    BY <2>2
  <2>4. depth[e] = Deeper({depth[p] : p \in par[e] \cap D})
        /\ other[e] = Deeper({other[p] : p \in par[e] \cap D})
    BY DEF Deepens
  <2> QED
    BY <2>1, <2>3, <2>4
<1>2. \A e \in D : depth[e] = other[e]
  BY <1>1
<1> QED
  BY <1>2 DEF Deepens
=============================================================================
