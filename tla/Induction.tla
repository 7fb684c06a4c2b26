------------------------------ MODULE Induction -----------------------------
(***************************************************************************)
(* Induction with a set in the place of a predicate: a property of numbers *)
(* or of finite sets is proved of all of them by showing that the set of   *)
(* those that have it is closed.  From it, that a function on 0 .. n       *)
(* defined by recursion exists, which is what lets a proof unfold the      *)
(* recursive definitions of the models.  The same for the recursive        *)
(* definitions that collect what precedes the node of a graph.             *)
(***************************************************************************)
EXTENDS Integers, Sequences, FiniteSets, FiniteSetTheorems, TLAPS

\* A family of finite sets has a member that no other is strictly inside of.
LEMMA LeastFiniteSet ==
  ASSUME NEW F, F # {}, \A T \in F : IsFiniteSet(T)
  PROVE  \E T \in F : \A U \in F : ~(U \subseteq T /\ U # T)
<1> DEFINE S == UNION F
<1>1. F \subseteq FiniteSubsetsOf(S)
  BY DEF FiniteSubsetsOf
<1>2. \E T \in F : \A U \in F : ~(<<U, T>> \in StrictSubsetOrdering(S))
  <2> HIDE DEF S
  <2> QED
    BY <1>1, FS_StrictSubsetOrderingWellFounded, WFMin
<1> QED
  BY <1>2 DEF StrictSubsetOrdering

\* A nonempty set of naturals has a least element.
LEMMA LeastNat ==
  ASSUME NEW T, T \subseteq Nat, T # {}
  PROVE  \E n \in T : \A m \in T : n <= m
<1> DEFINE Below(n) == 0 .. (n - 1)
           F == {Below(n) : n \in T}
<1>1. \A n \in Nat : IsFiniteSet(Below(n))
  <2> TAKE n \in Nat
  <2>1. 0 \in Int /\ n - 1 \in Int
    OBVIOUS
  <2> QED
    BY <2>1, FS_Interval
<1>2. \A m, n \in Nat : m < n => Below(m) \subseteq Below(n) /\ Below(m) # Below(n)
  <2> TAKE m, n \in Nat
  <2> HAVE m < n
  <2>1. m \in Below(n) /\ m \notin Below(m)
    OBVIOUS
  <2> QED
    BY <2>1
<1> HIDE DEF Below
<1>3. F # {} /\ \A U \in F : IsFiniteSet(U)
  BY <1>1
<1>4. \E V \in F : \A U \in F : ~(U \subseteq V /\ U # V)
  <2> HIDE DEF F
  <2>1. F # {}
    BY <1>3
  <2>2. \A U \in F : IsFiniteSet(U)
    BY <1>3
  <2> QED
    BY <2>1, <2>2, LeastFiniteSet
<1> QED
  BY <1>2, <1>4

\* Mathematical induction.
LEMMA NatSetInduction ==
  ASSUME NEW T, 0 \in T, \A n \in Nat : n \in T => n + 1 \in T
  PROVE  \A n \in Nat : n \in T
<1> SUFFICES ASSUME Nat \ T # {} PROVE FALSE
  OBVIOUS
<1>1. PICK n \in Nat \ T : \A m \in Nat \ T : n <= m
  <2>1. Nat \ T \subseteq Nat
    OBVIOUS
  <2> QED
    BY <2>1, LeastNat
<1>2. n # 0
  OBVIOUS
<1>3. n - 1 \in Nat /\ n - 1 \in T
  BY <1>1, <1>2
<1> QED
  BY <1>3

\* Induction over a finite set, one element at a time.
LEMMA FiniteSetInduction ==
  ASSUME NEW S, IsFiniteSet(S), NEW F, {} \in F,
         \A T \in F : \A x \in S : T \subseteq S /\ x \notin T => T \cup {x} \in F
  PROVE  S \in F
<1> DEFINE Parts == {U \in F : U \subseteq S}
           Rest(U) == S \ U
           Rests == {Rest(U) : U \in Parts}
<1>1. \A U \in Parts : IsFiniteSet(Rest(U))
  <2> TAKE U \in Parts
  <2>1. Rest(U) \subseteq S
    OBVIOUS
  <2> HIDE DEF Rest
  <2> QED
    BY <2>1, FS_Subset
<1>2. {} \in Parts
  OBVIOUS
<1>3. \A U \in Parts : \A x \in S \ U : /\ U \cup {x} \in Parts
                                       /\ Rest(U \cup {x}) \subseteq Rest(U)
                                       /\ Rest(U \cup {x}) # Rest(U)
  OBVIOUS
<1>4. \A U \in Parts : U # S => \E x \in S \ U : TRUE
  OBVIOUS
<1>5. \A U \in Parts : U \in F
  OBVIOUS
<1> HIDE DEF Rest, Parts
<1>6. \E R \in Rests : \A Q \in Rests : ~(Q \subseteq R /\ Q # R)
  <2>1. Rests # {}
    BY <1>2
  <2>2. \A R \in Rests : IsFiniteSet(R)
    BY <1>1
  <2> HIDE DEF Rests
  <2> QED
    BY <2>1, <2>2, LeastFiniteSet
<1>7. PICK U \in Parts : \A Q \in Parts : ~(Rest(Q) \subseteq Rest(U) /\ Rest(Q) # Rest(U))
  BY <1>6
<1>8. U = S
  BY <1>3, <1>4, <1>7
<1> QED
  BY <1>5, <1>8

\* f is on 0 .. n the function with f[0] = base and f[k] = step[k][f[k - 1]].
Follows(f, n, base, step) ==
  f[0] = base /\ \A k \in 1 .. n : f[k] = step[k][f[k - 1]]

Keeps(step, V) == \A k \in Nat, v \in V : step[k][v] \in V

\* A function defined by recursion on 0 .. n exists.
LEMMA RecursionExists ==
  ASSUME NEW V, NEW base \in V, NEW n \in Nat, NEW step, Keeps(step, V)
  PROVE  \E f \in [0 .. n -> V] : Follows(f, n, base, step)
<1> USE DEF Follows, Keeps
<1> DEFINE Solves(m, f) == f \in [0 .. m -> V] /\ Follows(f, m, base, step)
           T == {m \in Nat : \E f : Solves(m, f)}
<1>1. 0 \in T
  <2>1. Solves(0, [k \in 0 .. 0 |-> base])
    OBVIOUS
  <2> HIDE DEF Solves
  <2> QED
    BY <2>1
<1>2. ASSUME NEW m \in Nat, NEW f, Solves(m, f) PROVE \E g : Solves(m + 1, g)
  <2>1. m \in 0 .. m /\ f[m] \in V /\ step[m + 1][f[m]] \in V
    BY <1>2
  <2>2. PICK next \in V : next = step[m + 1][f[m]]
    BY <2>1
  <2>3. PICK g : g = [k \in 0 .. m + 1 |-> IF k = m + 1 THEN next ELSE f[k]]
    OBVIOUS
  <2>4. g \in [0 .. m + 1 -> V] /\ g[m + 1] = next /\ \A k \in 0 .. m : g[k] = f[k]
    BY <1>2, <2>2, <2>3
  <2>5. g[0] = base
    BY <1>2, <2>4
  <2>6. ASSUME NEW k \in 1 .. m + 1 PROVE g[k] = step[k][g[k - 1]]
    <3>1. CASE k = m + 1
      <4>1. k - 1 = m
        BY <3>1
      <4> QED
        BY <2>2, <2>4, <3>1, <4>1
    <3>2. CASE k # m + 1
      <4>1. k \in 1 .. m /\ k \in 0 .. m /\ k - 1 \in 0 .. m
        BY <3>2
      <4> QED
        BY <1>2, <2>4, <4>1
    <3> QED
      BY <3>1, <3>2
  <2> QED
    BY <2>4, <2>5, <2>6
<1>3. n \in T
  <2>1. \A m \in Nat : m \in T => m + 1 \in T
    <3> HIDE DEF Solves
    <3> QED
      BY <1>2
  <2> HIDE DEF T
  <2> QED
    BY <1>1, <2>1, NatSetInduction
<1> QED
  BY <1>3

-----------------------------------------------------------------------------
(* Sums over finite sets *)

\* The element of a set that a sum over the set takes first.
Pick(T) == CHOOSE x \in T : TRUE

\* g has for each part of S the sum of w over it, as the folds of the
\* community modules compute it.
SumsUp(g, S, w) ==
  g = [T \in SUBSET S |-> IF T = {} THEN 0 ELSE w[Pick(T)] + g[T \ {Pick(T)}]]

\* Taking one element leaves a smaller set.
LEMMA PickFacts ==
  ASSUME NEW T, T # {}, IsFiniteSet(T)
  PROVE  /\ Pick(T) \in T
         /\ \A x \in T : IsFiniteSet(T \ {x})
                         /\ Cardinality(T) \in Nat \ {0}
                         /\ Cardinality(T \ {x}) = Cardinality(T) - 1
<1>1. Pick(T) \in T
  BY DEF Pick
<1>2. ASSUME NEW x \in T
      PROVE  /\ IsFiniteSet(T \ {x}) /\ Cardinality(T) \in Nat \ {0}
             /\ Cardinality(T \ {x}) = Cardinality(T) - 1
  <2>1. Cardinality(T \ {x}) = Cardinality(T) - 1 /\ IsFiniteSet(T \ {x})
    BY FS_RemoveElement
  <2>2. Cardinality(T) \in Nat /\ Cardinality(T) # 0
    BY FS_EmptySet, FS_CardinalityType
  <2> QED
    BY <2>1, <2>2
<1> QED
  BY <1>1, <1>2

\* Sums over the parts of a finite set exist.
LEMMA SumExists ==
  ASSUME NEW S, IsFiniteSet(S), NEW w, \A x \in S : w[x] \in Nat
  PROVE  \E g : SumsUp(g, S, w)
<1> DEFINE Step(g, T) == IF T = {} THEN 0 ELSE w[Pick(T)] + g[T \ {Pick(T)}]
           Partly(g, n) == /\ g \in [SUBSET S -> Nat]
                           /\ \A T \in SUBSET S : Cardinality(T) <= n => g[T] = Step(g, T)
           N == {n \in Nat : \E g : Partly(g, n)}
<1>1. \A T \in SUBSET S : IsFiniteSet(T) /\ Cardinality(T) \in Nat
                          /\ Cardinality(T) <= Cardinality(S)
  BY FS_Subset, FS_CardinalityType
<1>2. \A T \in SUBSET S : T # {} =>
        Pick(T) \in S /\ T \ {Pick(T)} \in SUBSET S
        /\ Cardinality(T \ {Pick(T)}) = Cardinality(T) - 1
  <2> TAKE T \in SUBSET S
  <2> HAVE T # {}
  <2>1. IsFiniteSet(T)
    BY <1>1
  <2>2. Pick(T) \in T /\ Cardinality(T \ {Pick(T)}) = Cardinality(T) - 1
    BY <2>1, PickFacts
  <2> QED
    BY <2>2
<1>3. \A g \in [SUBSET S -> Nat], T \in SUBSET S : Step(g, T) \in Nat
  <2> TAKE g \in [SUBSET S -> Nat], T \in SUBSET S
  <2>1. CASE T = {}
    BY <2>1
  <2>2. CASE T # {}
    <3>1. PICK p, R : p = Pick(T) /\ R = T \ {Pick(T)}
      OBVIOUS
    <3>2. w[p] \in Nat /\ g[R] \in Nat
      BY <1>2, <2>2, <3>1
    <3> QED
      BY <2>2, <3>1, <3>2
  <2> QED
    BY <2>1, <2>2
<1>4. 0 \in N
  <2>1. PICK g : g = [T \in SUBSET S |-> 0]
    OBVIOUS
  <2>2. ASSUME NEW T \in SUBSET S, Cardinality(T) <= 0 PROVE T = {}
    BY <1>1, <2>2, FS_EmptySet
  <2>3. Partly(g, 0)
    BY <2>1, <2>2
  <2> QED
    BY <2>3
<1>5. ASSUME NEW n \in Nat, NEW g, Partly(g, n)
      PROVE  \E h : Partly(h, n + 1)
  <2>0. g \in [SUBSET S -> Nat]
    BY <1>5
  <2>1. PICK h : h = [T \in SUBSET S |-> IF Cardinality(T) <= n THEN g[T] ELSE Step(g, T)]
    OBVIOUS
  <2>2. h \in [SUBSET S -> Nat]
    <3> HIDE DEF Step
    <3> QED
      BY <1>3, <2>0, <2>1
  <2>3. ASSUME NEW T \in SUBSET S, Cardinality(T) <= n + 1 PROVE h[T] = Step(h, T)
    <3>1. h[T] = Step(g, T)
      <4> HIDE DEF Step
      <4> QED
        BY <1>5, <2>1
    <3>2. CASE T = {}
      BY <3>1, <3>2
    <3>3. CASE T # {}
      <4>1. PICK R \in SUBSET S : R = T \ {Pick(T)} /\ Cardinality(R) <= n
        <5>1. PICK R : R = T \ {Pick(T)}
          OBVIOUS
        <5>2. R \in SUBSET S /\ Cardinality(R) = Cardinality(T) - 1 /\ Cardinality(T) \in Nat
          BY <1>1, <1>2, <3>3, <5>1
        <5> QED
          BY <2>3, <5>1, <5>2
      <4>2. h[R] = g[R]
        BY <2>1, <4>1
      <4> QED
        BY <3>1, <3>3, <4>1, <4>2
    <3> QED
      BY <3>2, <3>3
  <2>4. Partly(h, n + 1)
    BY <2>2, <2>3
  <2> HIDE DEF Partly
  <2> QED
    BY <2>4
<1>6. Cardinality(S) \in N
  <2>1. \A n \in Nat : n \in N => n + 1 \in N
    <3> HIDE DEF Partly
    <3> QED
      BY <1>5
  <2>2. Cardinality(S) \in Nat
    BY FS_CardinalityType
  <2> HIDE DEF N
  <2> QED
    BY <1>4, <2>1, <2>2, NatSetInduction
<1>7. PICK g : Partly(g, Cardinality(S))
  BY <1>6
<1>8. g \in [SUBSET S -> Nat] /\ \A T \in SUBSET S : g[T] = Step(g, T)
  BY <1>1, <1>7
<1>9. SumsUp(g, S, w)
  BY <1>8 DEF SumsUp
<1> QED
  BY <1>9

\* A sum may be taken in any order.
LEMMA SumAdds ==
  ASSUME NEW S, IsFiniteSet(S), NEW w, \A x \in S : w[x] \in Nat,
         NEW g, SumsUp(g, S, w)
  PROVE  /\ g[{}] = 0
         /\ \A T \in SUBSET S : g[T] \in Nat
         /\ \A T \in SUBSET S : \A x \in T : g[T] = w[x] + g[T \ {x}]
<1> DEFINE Any(T) == /\ g[T] \in Nat
                     /\ \A x \in T : g[T] = w[x] + g[T \ {x}]
           N == {n \in Nat : \A T \in SUBSET S : Cardinality(T) <= n => Any(T)}
<1>1. \A T \in SUBSET S : IsFiniteSet(T) /\ Cardinality(T) \in Nat
                          /\ Cardinality(T) <= Cardinality(S)
  BY FS_Subset, FS_CardinalityType
<1>2. g[{}] = 0 /\ \A T \in SUBSET S : T # {} => g[T] = w[Pick(T)] + g[T \ {Pick(T)}]
  BY DEF SumsUp
<1>3. 0 \in N
  <2>1. ASSUME NEW T \in SUBSET S, Cardinality(T) <= 0 PROVE T = {}
    BY <1>1, <2>1, FS_EmptySet
  <2>2. Any({})
    BY <1>2
  <2> HIDE DEF Any
  <2> QED
    BY <2>1, <2>2
<1>4. ASSUME NEW n \in Nat, n \in N, NEW T \in SUBSET S, Cardinality(T) <= n + 1
      PROVE  Any(T)
  <2>1. CASE T = {}
    BY <1>2, <2>1
  <2>2. CASE T # {}
    <3>1. IsFiniteSet(T) /\ Cardinality(T) \in Nat
      BY <1>1
    <3>2. /\ Pick(T) \in T
          /\ \A x \in T : Cardinality(T \ {x}) = Cardinality(T) - 1
      BY <2>2, <3>1, PickFacts
    <3>3. PICK p \in T : p = Pick(T) /\ g[T] = w[p] + g[T \ {p}]
      BY <1>2, <2>2, <3>2
    <3>4. \A x \in T : Any(T \ {x})
      <4> TAKE x \in T
      <4>1. T \ {x} \in SUBSET S /\ Cardinality(T \ {x}) <= n
        BY <1>4, <3>1, <3>2
      <4> HIDE DEF Any
      <4> QED
        BY <1>4, <4>1
    <3>5. g[T] \in Nat /\ w[p] \in Nat /\ g[T \ {p}] \in Nat
      BY <3>3, <3>4
    <3>6. ASSUME NEW x \in T, x # p PROVE g[T] = w[x] + g[T \ {x}]
      <4>1. PICK R : R = (T \ {x}) \ {p}
        OBVIOUS
      <4>2. (T \ {p}) \ {x} = R /\ p \in T \ {x} /\ x \in T \ {p}
        BY <3>6, <4>1
      <4>3. g[T \ {x}] = w[p] + g[R] /\ g[T \ {p}] = w[x] + g[R]
        BY <3>4, <4>1, <4>2
      <4>4. w[x] \in Nat /\ w[p] \in Nat
        OBVIOUS
      <4>5. g[R] \in Nat
        <5>1. R \in SUBSET S /\ Cardinality(R) <= n
          <6>1. Cardinality(R) <= Cardinality(T \ {x}) /\ R \subseteq T \ {x}
            <7>1. IsFiniteSet(T \ {x})
              BY <3>1, FS_Subset
            <7> QED
              BY <4>1, <7>1, FS_Subset
          <6>2. R \in SUBSET S /\ T \ {x} \in SUBSET S
            BY <6>1
          <6>3. Cardinality(R) \in Nat /\ Cardinality(T \ {x}) \in Nat
            BY <1>1, <6>2
          <6> QED
            BY <1>4, <3>1, <3>2, <6>1, <6>2, <6>3
        <5> QED
          BY <1>4, <5>1
      <4> QED
        BY <3>3, <4>3, <4>4, <4>5
    <3> QED
      BY <3>3, <3>5, <3>6
  <2> QED
    BY <2>1, <2>2
<1>5. Cardinality(S) \in N
  <2>1. \A n \in Nat : n \in N => n + 1 \in N
    <3> TAKE n \in Nat
    <3> HAVE n \in N
    <3>1. \A T \in SUBSET S : Cardinality(T) <= n + 1 => Any(T)
      <4> HIDE DEF Any, N
      <4> QED
        BY <1>4
    <3> HIDE DEF Any
    <3> QED
      BY <3>1
  <2>2. Cardinality(S) \in Nat
    BY FS_CardinalityType
  <2> HIDE DEF N
  <2> QED
    BY <1>3, <2>1, <2>2, NatSetInduction
<1>6. \A T \in SUBSET S : Any(T)
  BY <1>1, <1>5
<1> QED
  BY <1>2, <1>6

\* Two sums over the same set are equal if what they add is.
LEMMA SumAgrees ==
  ASSUME NEW S, NEW R, NEW T, T \subseteq S, T \subseteq R,
         IsFiniteSet(S), IsFiniteSet(R), NEW w, NEW v,
         \A x \in S : w[x] \in Nat, \A x \in R : v[x] \in Nat, \A x \in T : w[x] = v[x],
         NEW g, NEW h, SumsUp(g, S, w), SumsUp(h, R, v)
  PROVE  g[T] = h[T]
<1>1. /\ g[{}] = 0
      /\ \A U \in SUBSET S : \A x \in U : g[U] = w[x] + g[U \ {x}]
  BY SumAdds
<1>2. /\ h[{}] = 0
      /\ \A U \in SUBSET R : \A x \in U : h[U] = v[x] + h[U \ {x}]
  BY SumAdds
<1> DEFINE F == {U \in SUBSET T : g[U] = h[U]}
<1>3. IsFiniteSet(T)
  BY FS_Subset
<1>4. {} \in F
  BY <1>1, <1>2
<1>5. ASSUME NEW U \in F, NEW x \in T, U \subseteq T, x \notin U PROVE U \cup {x} \in F
  <2>1. PICK V : V = U \cup {x}
    OBVIOUS
  <2>2. V \ {x} = U /\ x \in V /\ V \in SUBSET S /\ V \in SUBSET R
    BY <1>5, <2>1
  <2>3. g[V] = w[x] + g[U] /\ h[V] = v[x] + h[U]
    BY <1>1, <1>2, <2>2
  <2>4. g[U] = h[U]
    OBVIOUS
  <2> QED
    BY <2>1, <2>3, <2>4
<1> HIDE DEF F
<1>6. T \in F
  BY <1>3, <1>4, <1>5, FiniteSetInduction
<1> QED
  BY <1>6 DEF F

-----------------------------------------------------------------------------
(* Paths: w[x] is the set of nodes there is an edge to x from *)

\* Node x and those there is a path to it from.
Reaching(w, x) ==
  {f \in DOMAIN w : \A T \in SUBSET DOMAIN w :
     x \in T /\ (\A y \in T : w[y] \subseteq T) => f \in T}

\* Edges are between the nodes w is defined on.
Predecessors(w) == w = [x \in DOMAIN w |-> w[x]] /\ \A x \in DOMAIN w : w[x] \subseteq DOMAIN w

\* A path to x is no edge, or one to a predecessor of x and an edge.
LEMMA ReachingFacts ==
  ASSUME NEW w, Predecessors(w), NEW x \in DOMAIN w
  PROVE  /\ x \in Reaching(w, x) /\ Reaching(w, x) \subseteq DOMAIN w
         /\ \A y \in w[x] : Reaching(w, y) \subseteq Reaching(w, x)
         /\ \A f \in Reaching(w, x) : f = x \/ \E y \in w[x] : f \in Reaching(w, y)
<1>1. x \in Reaching(w, x) /\ Reaching(w, x) \subseteq DOMAIN w
  BY DEF Reaching
<1>2. ASSUME NEW z \in DOMAIN w, NEW y \in w[z] PROVE Reaching(w, y) \subseteq Reaching(w, z)
  BY DEF Reaching, Predecessors
<1>3. ASSUME NEW f \in Reaching(w, x) PROVE f = x \/ \E y \in w[x] : f \in Reaching(w, y)
  <2> DEFINE T == {x} \cup UNION {Reaching(w, y) : y \in w[x]}
  <2>1. T \subseteq DOMAIN w
    BY DEF Reaching
  <2>2. ASSUME NEW z \in T, NEW v \in w[z] PROVE v \in T
    <3>1. v \in DOMAIN w
      BY <2>1 DEF Predecessors
    <3>2. v \in Reaching(w, v)
      BY <3>1 DEF Reaching
    <3>3. CASE z = x
      BY <3>2, <3>3
    <3>4. CASE z # x
      <4>1. PICK y \in w[x] : z \in Reaching(w, y)
        BY <3>4
      <4>2. v \in Reaching(w, y)
        BY <2>1, <3>1, <4>1 DEF Reaching, Predecessors
      <4> QED
        BY <4>2
    <3> QED
      BY <3>3, <3>4
  <2>3. \A z \in T : w[z] \subseteq T
    BY <2>2
  <2>4. x \in T
    OBVIOUS
  <2>5. f \in T
    <3> HIDE DEF T
    <3> QED
      BY <2>1, <2>3, <2>4 DEF Reaching
  <2> QED
    BY <2>5
<1> QED
  BY <1>1, <1>2, <1>3

\* The equation by which a recursive definition collects what reaches a node.
IsClosure(w, a) == a = [x \in DOMAIN w |-> w[x] \cup UNION {a[y] : y \in w[x]}]

\* It has a solution.
LEMMA ClosureExists ==
  ASSUME NEW w, Predecessors(w)
  PROVE  \E a : IsClosure(w, a)
<1> DEFINE A == [x \in DOMAIN w |-> UNION {Reaching(w, y) : y \in w[x]}]
<1>1. ASSUME NEW x \in DOMAIN w
      PROVE  A[x] = w[x] \cup UNION {A[y] : y \in w[x]}
  <2>1. \A y \in w[x] : y \in DOMAIN w /\ y \in Reaching(w, y)
    BY ReachingFacts DEF Predecessors
  <2>2. ASSUME NEW y \in w[x]
        PROVE  A[y] \subseteq Reaching(w, y) /\ Reaching(w, y) \subseteq {y} \cup A[y]
    <3>1. y \in DOMAIN w /\ A[y] = UNION {Reaching(w, z) : z \in w[y]}
      BY <2>1
    <3>2. \A z \in w[y] : Reaching(w, z) \subseteq Reaching(w, y)
      BY <3>1, ReachingFacts
    <3>3. \A f \in Reaching(w, y) : f = y \/ \E z \in w[y] : f \in Reaching(w, z)
      BY <3>1, ReachingFacts
    <3> QED
      BY <3>1, <3>2, <3>3
  <2>3. A[x] = UNION {Reaching(w, y) : y \in w[x]}
    OBVIOUS
  <2> HIDE DEF A
  <2> QED
    BY <2>1, <2>2, <2>3
<1>2. DOMAIN A = DOMAIN w /\ A = [x \in DOMAIN w |-> A[x]]
  OBVIOUS
<1> HIDE DEF A
<1>3. IsClosure(w, A)
  BY <1>1, <1>2 DEF IsClosure
<1> QED
  BY <1>3

\* A solution has at x what reaches a predecessor of x.
LEMMA ClosureReaches ==
  ASSUME NEW w, Predecessors(w), NEW a, IsClosure(w, a), NEW x \in DOMAIN w, NEW y \in w[x]
  PROVE  Reaching(w, y) \subseteq a[x]
<1>1. \A z \in DOMAIN w : a[z] = w[z] \cup UNION {a[v] : v \in w[z]}
  <2>1. a = [z \in DOMAIN w |-> w[z] \cup UNION {a[v] : v \in w[z]}]
    BY DEF IsClosure
  <2> QED
    BY ONLY <2>1
<1>2. \A z \in DOMAIN w : w[z] \subseteq a[z] /\ \A v \in w[z] : a[v] \subseteq a[z]
  BY <1>1
<1>3. PICK T \in SUBSET DOMAIN w : T = {z \in DOMAIN w : a[z] \cup {z} \subseteq a[x]}
  OBVIOUS
<1>4. y \in T
  BY <1>2, <1>3 DEF Predecessors
<1>5. \A z \in T : w[z] \subseteq T
  <2> TAKE z \in T
  <2>1. z \in DOMAIN w /\ a[z] \subseteq a[x] /\ w[z] \subseteq DOMAIN w
    BY <1>3 DEF Predecessors
  <2>2. \A v \in w[z] : v \in a[z] /\ a[v] \subseteq a[z]
    BY <1>2, <2>1
  <2> QED
    BY <1>3, <2>1, <2>2
<1>6. \A f \in Reaching(w, y) : f \in T
  BY <1>4, <1>5 DEF Reaching
<1> QED
  BY <1>3, <1>6

\* A node e is added, with edges from S.
LEMMA ReachingAdd ==
  ASSUME NEW w, Predecessors(w), NEW e, e \notin DOMAIN w, NEW S \in SUBSET DOMAIN w,
         NEW v, v = [x \in DOMAIN w \cup {e} |-> IF x = e THEN S ELSE w[x]]
  PROVE  /\ Predecessors(v) /\ DOMAIN v = DOMAIN w \cup {e} /\ v[e] = S
         /\ \A x \in DOMAIN w : v[x] = w[x] /\ Reaching(w, x) \subseteq Reaching(v, x)
         /\ \A y \in S : Reaching(w, y) \subseteq Reaching(v, e)
         /\ e \in Reaching(v, e)
<1>1. /\ Predecessors(v) /\ DOMAIN v = DOMAIN w \cup {e} /\ v[e] = S
      /\ \A x \in DOMAIN w : v[x] = w[x]
  BY DEF Predecessors
<1>2. ASSUME NEW x \in DOMAIN w, NEW f \in Reaching(w, x) PROVE f \in Reaching(v, x)
  <2> SUFFICES ASSUME NEW T \in SUBSET DOMAIN v, x \in T, \A y \in T : v[y] \subseteq T
               PROVE  f \in T
    BY <1>1 DEF Reaching
  <2>1. PICK U \in SUBSET DOMAIN w : U = T \cap DOMAIN w
    OBVIOUS
  <2>2. x \in U /\ \A y \in U : w[y] \subseteq U
    BY <1>1, <2>1 DEF Predecessors
  <2>3. f \in U
    BY <2>2 DEF Reaching
  <2> QED
    BY <2>1, <2>3
<1>3. ASSUME NEW y \in S PROVE Reaching(w, y) \subseteq Reaching(v, e)
  <2>1. Reaching(v, y) \subseteq Reaching(v, e)
    BY <1>1, ReachingFacts
  <2> QED
    BY <1>2, <2>1
<1>4. e \in Reaching(v, e)
  BY <1>1, ReachingFacts
<1> QED
  BY <1>1, <1>2, <1>3, <1>4

\* Nodes go away with all that reaches them.
LEMMA ReachingDrop ==
  ASSUME NEW w, Predecessors(w), NEW S, \A x \in S \cap DOMAIN w : w[x] \subseteq S,
         NEW v, v = [x \in DOMAIN w \ S |-> w[x] \ S]
  PROVE  /\ Predecessors(v) /\ DOMAIN v = DOMAIN w \ S
         /\ \A x \in DOMAIN w \ S : v[x] = w[x] \ S
         /\ \A x \in DOMAIN w : \A f \in Reaching(w, x) \ S : x \notin S /\ f \in Reaching(v, x)
<1>1. /\ Predecessors(v) /\ DOMAIN v = DOMAIN w \ S
      /\ \A x \in DOMAIN w \ S : v[x] = w[x] \ S
  BY DEF Predecessors
<1>2. ASSUME NEW x \in DOMAIN w, NEW f \in Reaching(w, x) \ S PROVE x \notin S /\ f \in Reaching(v, x)
  <2>1. ASSUME NEW T \in SUBSET DOMAIN w, T \subseteq DOMAIN v,
               x \in T \/ x \in S, \A y \in T : v[y] \subseteq T
        PROVE  f \in T
    <3>1. PICK U \in SUBSET DOMAIN w : U = T \cup (S \cap DOMAIN w)
      OBVIOUS
    <3>2. \A y \in T : w[y] \subseteq v[y] \cup (S \cap DOMAIN w)
      BY <1>1, <2>1 DEF Predecessors
    <3>3. \A y \in S \cap DOMAIN w : w[y] \subseteq S \cap DOMAIN w
      BY DEF Predecessors
    <3>4. x \in U /\ \A y \in U : w[y] \subseteq U
      BY <2>1, <3>1, <3>2, <3>3
    <3>5. f \in U
      BY <3>4 DEF Reaching
    <3> QED
      BY <3>1, <3>5
  <2>2. x \notin S
    <3>1. {} \in SUBSET DOMAIN w /\ {} \subseteq DOMAIN v /\ \A y \in {} : v[y] \subseteq {}
      OBVIOUS
    <3> QED
      BY <2>1, <3>1
  <2>3. f \in DOMAIN v
    BY <1>1 DEF Reaching
  <2> QED
    BY <1>1, <2>1, <2>2, <2>3 DEF Reaching
<1> QED
  BY <1>1, <1>2

-----------------------------------------------------------------------------
(* Finite sets *)

\* A table of finitely many entries has finitely many values.
LEMMA ValuesFinite ==
  ASSUME NEW f, IsFiniteSet(DOMAIN f)
  PROVE  IsFiniteSet({f[x] : x \in DOMAIN f})
<1>1. PICK D, T : D = DOMAIN f /\ T = {f[x] : x \in DOMAIN f}
  OBVIOUS
<1>2. PICK g \in [D -> T] : \A x \in D : g[x] = f[x]
  <2>1. [x \in D |-> f[x]] \in [D -> T]
    BY <1>1
  <2> QED
    BY <2>1
<1>3. g \in Surjection(D, T)
  BY <1>1, <1>2 DEF Surjection
<1> QED
  BY <1>1, <1>3, FS_Surjection

\* A finite set of numbers has a largest.
LEMMA GreatestNat ==
  ASSUME NEW T, T \subseteq Nat, T # {}, IsFiniteSet(T)
  PROVE  \E m \in T : \A y \in T : y <= m
<1> DEFINE F == {U \in SUBSET T : U = {} \/ \E m \in U : \A y \in U : y <= m}
<1>1. {} \in F
  OBVIOUS
<1>2. ASSUME NEW U \in F, NEW x \in T PROVE U \cup {x} \in F
  <2>1. U \in SUBSET Nat /\ x \in Nat
    OBVIOUS
  <2>2. CASE U = {}
    BY <2>1, <2>2
  <2>3. CASE U # {}
    <3>1. PICK m \in U : \A y \in U : y <= m
      BY <2>3
    <3>2. CASE x <= m
      <4>1. \A y \in U \cup {x} : y <= m
        BY <3>1, <3>2
      <4>2. m \in U \cup {x} /\ U \cup {x} \in SUBSET T
        BY <3>1
      <4> QED
        BY <4>1, <4>2
    <3>3. CASE ~(x <= m)
      <4>1. \A y \in U \cup {x} : y <= x
        BY <2>1, <3>1, <3>3
      <4> QED
        BY <4>1
    <3> QED
      BY <3>2, <3>3
  <2> QED
    BY <2>2, <2>3
<1>3. T \in F
  <2> HIDE DEF F
  <2> QED
    BY <1>1, <1>2, FiniteSetInduction
<1> QED
  BY <1>3

=============================================================================
