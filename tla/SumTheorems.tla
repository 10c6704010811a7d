----------------------------- MODULE SumTheorems -----------------------------
(***************************************************************************)
(* Facts about SumFunctionOnSet of the community module Functions: what    *)
(* the sum of a function's values over a finite set is.  Induction is by a *)
(* smallest counterexample among the subsets of a finite set.              *)
(***************************************************************************)
EXTENDS Functions, FiniteSets, Integers, FiniteSetTheorems, TLAPS

(* The recursive function inside the fold, as a table of subsets' sums.    *)
Some(s) == CHOOSE x \in s : TRUE
Table(f, S, g) ==
  g = [s \in SUBSET S |-> IF s = {} THEN 0 ELSE f[Some(s)] + g[s \ {Some(s)}]]

(* A family of subsets that has each set all of whose proper subsets it    *)
(* has, has them all.                                                      *)
LEMMA SubsetInduction ==
  ASSUME NEW S, IsFiniteSet(S), NEW G,
         \A T \in SUBSET S : (\A U \in SUBSET T : U # T => U \in G) => T \in G
  PROVE  SUBSET S \subseteq G
<1> SUFFICES ASSUME (SUBSET S) \ G # {}  PROVE FALSE
  OBVIOUS
<1> DEFINE B == (SUBSET S) \ G
<1>0. B # {}
  OBVIOUS
<1>1. B \subseteq FiniteSubsetsOf(S)
  BY FS_Subset DEF FiniteSubsetsOf
<1>2. PICK T \in B : \A U \in B : ~ (<<U, T>> \in StrictSubsetOrdering(S))
  <2>1. IsWellFoundedOn(StrictSubsetOrdering(S), FiniteSubsetsOf(S))
    BY FS_StrictSubsetOrderingWellFounded
  <2> HIDE DEF B
  <2> QED  BY <1>1, <1>0, <2>1, WFMin
<1>3. ASSUME NEW U \in SUBSET T, U # T  PROVE U \in G
  <2>1. <<U, T>> \in StrictSubsetOrdering(S)
    BY <1>3 DEF StrictSubsetOrdering
  <2>2. U \notin B
    <3> HIDE DEF B
    <3> QED  BY <1>2, <2>1
  <2> QED  BY <2>2
<1>4. T \in G
  BY <1>3
<1> QED  BY <1>4

(* An entry of a table, by the table's equation.                           *)
LEMMA TableFact ==
  ASSUME NEW f, NEW S, NEW g, Table(f, S, g), NEW s \in SUBSET S
  PROVE  g[s] = IF s = {} THEN 0 ELSE f[Some(s)] + g[s \ {Some(s)}]
<1>1. g = [t \in SUBSET S |-> IF t = {} THEN 0 ELSE f[Some(t)] + g[t \ {Some(t)}]]
  BY DEF Table
<1> DEFINE h == [t \in SUBSET S |-> IF t = {} THEN 0 ELSE f[Some(t)] + g[t \ {Some(t)}]]
<1>2. h[s] = IF s = {} THEN 0 ELSE f[Some(s)] + g[s \ {Some(s)}]
  OBVIOUS
<1> HIDE DEF h
<1>3. g = h
  BY <1>1 DEF h
<1> QED  BY <1>2, <1>3

(* The chosen element is one.                                              *)
LEMMA SomeFact == ASSUME NEW s, s # {}  PROVE Some(s) \in s
  BY DEF Some

(* Two tables of one function give a set they both have the same sum.      *)
LEMMA TablesAgree ==
  ASSUME NEW f, NEW A, NEW B, IsFiniteSet(A), NEW g, NEW h,
         Table(f, A, g), Table(f, B, h)
  PROVE  \A s \in SUBSET A : s \subseteq B => g[s] = h[s]
<1> DEFINE G == {s \in SUBSET A : s \subseteq B => g[s] = h[s]}
<1>1. ASSUME NEW T \in SUBSET A, \A U \in SUBSET T : U # T => U \in G  PROVE T \in G
  <2> SUFFICES ASSUME T \subseteq B, T # {}  PROVE g[T] = h[T]
    <3>1. T \subseteq B /\ T = {} => g[T] = h[T]
      BY TableFact
    <3> QED  BY <3>1
  <2> DEFINE U == T \ {Some(T)}
  <2>1. U \in SUBSET T /\ U # T
    BY SomeFact
  <2>2. g[U] = h[U]
    BY <1>1, <2>1
  <2>3. g[T] = f[Some(T)] + g[U] /\ h[T] = f[Some(T)] + h[U]
    BY TableFact
  <2> QED  BY <2>2, <2>3
<1> HIDE DEF G
<1>2. SUBSET A \subseteq G
  BY <1>1, SubsetInduction
<1> QED  BY <1>2 DEF G

(* The sum is the table's entry for the whole set, if there is a table:    *)
(* the fold chooses one.                                                   *)
LEMMA SumTable ==
  ASSUME NEW f, NEW S, \E g : Table(f, S, g)
  PROVE  \E g : Table(f, S, g) /\ SumFunctionOnSet(f, S) = g[S]
<1> DEFINE it == CHOOSE g : g = [s \in SUBSET S |->
                   IF s = {} THEN 0
                   ELSE f[CHOOSE x \in s : TRUE] + g[s \ {CHOOSE x \in s : TRUE}]]
<1>1. SumFunctionOnSet(f, S) = it[S]
  BY DEF SumFunctionOnSet, FoldFunctionOnSet, MapThenFoldSet
<1>2. Table(f, S, it)
  BY DEF Table, Some
<1> QED  BY <1>1, <1>2

(* Any table over a larger set has the sum as an entry.                    *)
LEMMA SumIsEntry ==
  ASSUME NEW f, NEW A, IsFiniteSet(A), NEW g, Table(f, A, g),
         NEW s \in SUBSET A, \E h : Table(f, s, h)
  PROVE  SumFunctionOnSet(f, s) = g[s]
<1>1. PICK h : Table(f, s, h) /\ SumFunctionOnSet(f, s) = h[s]
  BY SumTable
<1>2. g[s] = h[s]
  BY <1>1, TablesAgree
<1> QED  BY <1>1, <1>2

(* Every finite set has a table: its entries are the sums over its proper  *)
(* subsets, and one more step.                                             *)
LEMMA TableExists ==
  ASSUME NEW f, NEW S, IsFiniteSet(S)
  PROVE  \E g : Table(f, S, g)
<1> DEFINE Sum(s) == SumFunctionOnSet(f, s)
           G == {T \in SUBSET S : \E g : Table(f, T, g)}
<1>1. ASSUME NEW T \in SUBSET S, \A U \in SUBSET T : U # T => U \in G  PROVE T \in G
  <2> DEFINE g == [s \in SUBSET T |-> IF s = {} THEN 0 ELSE f[Some(s)] + Sum(s \ {Some(s)})]
  <2>1. ASSUME NEW U \in SUBSET T, U # T  PROVE g[U] = Sum(U)
    <3>1. PICK h : Table(f, U, h) /\ Sum(U) = h[U]
      BY <1>1, <2>1, SumTable
    <3>2. CASE U = {}
      BY <3>1, <3>2, TableFact
    <3>3. CASE U # {}
      <4> DEFINE V == U \ {Some(U)}
      <4>1. V \in SUBSET U /\ V \in SUBSET T /\ V # T
        BY <3>3, SomeFact
      <4>2. IsFiniteSet(U)
        BY FS_Subset
      <4>3. Sum(V) = h[V]
        BY <1>1, <3>1, <4>1, <4>2, SumIsEntry
      <4>4. h[U] = f[Some(U)] + h[V]
        BY <3>1, <3>3, TableFact
      <4>5. g[U] = f[Some(U)] + Sum(V)
        BY <3>3
      <4> QED  BY <3>1, <4>3, <4>4, <4>5
    <3> QED  BY <3>2, <3>3
  <2>2. ASSUME NEW s \in SUBSET T, s # {}  PROVE Sum(s \ {Some(s)}) = g[s \ {Some(s)}]
    <3>1. s \ {Some(s)} \in SUBSET T /\ s \ {Some(s)} # T
      BY <2>2, SomeFact
    <3> QED  BY <2>1, <3>1
  <2>3. g = [s \in SUBSET T |-> IF s = {} THEN 0 ELSE f[Some(s)] + g[s \ {Some(s)}]]
    <3> DEFINE k == [s \in SUBSET T |-> IF s = {} THEN 0 ELSE f[Some(s)] + g[s \ {Some(s)}]]
    <3>1. ASSUME NEW s \in SUBSET T  PROVE g[s] = k[s]
      <4>1. CASE s = {}
        BY <4>1
      <4>2. CASE s # {}
        <5>1. g[s] = f[Some(s)] + Sum(s \ {Some(s)})
          BY <4>2
        <5> HIDE DEF g
        <5>2. k[s] = f[Some(s)] + g[s \ {Some(s)}]
          BY <4>2
        <5> QED  BY <2>2, <4>2, <5>1, <5>2
      <4> QED  BY <4>1, <4>2
    <3>2. g = [s \in SUBSET T |-> g[s]] /\ k = [s \in SUBSET T |-> k[s]]
      OBVIOUS
    <3> HIDE DEF g, k
    <3>3. g = k
      BY <3>1, <3>2
    <3> QED  BY <3>3 DEF k
  <2> HIDE DEF g
  <2>4. Table(f, T, g)
    BY <2>3 DEF Table
  <2> QED  BY <2>4
<1> HIDE DEF G
<1>2. SUBSET S \subseteq G
  BY <1>1, SubsetInduction
<1> QED  BY <1>2 DEF G

-----------------------------------------------------------------------------
(* The order in which the elements are chosen does not matter. *)

(* The fold's own step.                                                    *)
LEMMA SumStep ==
  ASSUME NEW f, NEW S, IsFiniteSet(S), S # {}
  PROVE  SumFunctionOnSet(f, S) = f[Some(S)] + SumFunctionOnSet(f, S \ {Some(S)})
<1> DEFINE U == S \ {Some(S)}
<1>1. PICK g : Table(f, S, g)
  BY TableExists
<1>2. IsFiniteSet(U) /\ U \in SUBSET S
  BY FS_Subset
<1>3. SumFunctionOnSet(f, U) = g[U] /\ SumFunctionOnSet(f, S) = g[S]
  BY <1>1, <1>2, TableExists, SumIsEntry
<1> QED  BY <1>1, <1>3, TableFact

(* Nothing sums to 0.                                                      *)
THEOREM SumEmpty == \A f : SumFunctionOnSet(f, {}) = 0
<1> TAKE f
<1>1. PICK g : Table(f, {}, g) /\ SumFunctionOnSet(f, {}) = g[{}]
  BY FS_EmptySet, TableExists, SumTable
<1> QED  BY <1>1, TableFact

(* Integers sum to an integer.                                             *)
THEOREM SumType ==
  ASSUME NEW f, NEW S, IsFiniteSet(S), \A x \in S : f[x] \in Int
  PROVE  SumFunctionOnSet(f, S) \in Int
<1> DEFINE G == {T \in SUBSET S : SumFunctionOnSet(f, T) \in Int}
<1>1. ASSUME NEW T \in SUBSET S, \A U \in SUBSET T : U # T => U \in G  PROVE T \in G
  <2>1. CASE T = {}
    BY <2>1, SumEmpty
  <2>2. CASE T # {}
    <3>1. Some(T) \in T /\ IsFiniteSet(T)
      BY <2>2, SomeFact, FS_Subset
    <3>2. T \ {Some(T)} \in G
      BY <1>1, <3>1
    <3> QED  BY <2>2, <3>1, <3>2, SumStep
  <2> QED  BY <2>1, <2>2
<1> HIDE DEF G
<1>2. SUBSET S \subseteq G
  BY <1>1, SubsetInduction
<1> QED  BY <1>2 DEF G

(* Any element may be taken out of the sum, not only the one the fold      *)
(* would choose.                                                           *)
THEOREM SumRemove ==
  ASSUME NEW f, NEW S, IsFiniteSet(S), \A x \in S : f[x] \in Int, NEW y \in S
  PROVE  SumFunctionOnSet(f, S) = f[y] + SumFunctionOnSet(f, S \ {y})
<1> DEFINE Sum(T) == SumFunctionOnSet(f, T)
           G == {T \in SUBSET S : \A x \in T : Sum(T) = f[x] + Sum(T \ {x})}
<1>1. ASSUME NEW T \in SUBSET S, \A U \in SUBSET T : U # T => U \in G,
             NEW x \in T
      PROVE  Sum(T) = f[x] + Sum(T \ {x})
  <2> DEFINE c == Some(T)
  <2>1. c \in T /\ IsFiniteSet(T)
    BY SomeFact, FS_Subset
  <2>2. Sum(T) = f[c] + Sum(T \ {c})
    BY <2>1, SumStep
  <2>3. CASE x # c
    <3> DEFINE R == T \ {c, x}
    <3>1. (T \ {c}) \ {x} = R /\ (T \ {x}) \ {c} = R
      OBVIOUS
    <3>2. Sum(T \ {c}) = f[x] + Sum(R)
      <4>1. T \ {c} \in G /\ x \in T \ {c}
        BY <1>1, <2>1, <2>3
      <4> QED  BY <3>1, <4>1
    <3>3. Sum(T \ {x}) = f[c] + Sum(R)
      <4>1. T \ {x} \in G /\ c \in T \ {x}
        BY <1>1, <2>1, <2>3
      <4> QED  BY <3>1, <4>1
    <3>4. Sum(R) \in Int /\ f[x] \in Int /\ f[c] \in Int
      <4>1. IsFiniteSet(R)
        BY <2>1, FS_Subset
      <4> QED  BY <2>1, <4>1, SumType
    <3> HIDE DEF Sum, c
    <3> QED  BY <2>2, <3>2, <3>3, <3>4
  <2> QED  BY <2>2, <2>3
<1>2. ASSUME NEW T \in SUBSET S, \A U \in SUBSET T : U # T => U \in G  PROVE T \in G
  BY <1>1, <1>2
<1> HIDE DEF G
<1>3. SUBSET S \subseteq G
  BY <1>2, SubsetInduction
<1> QED  BY <1>3 DEF G

(* One element more adds its value.                                        *)
THEOREM SumAdd ==
  ASSUME NEW f, NEW S, IsFiniteSet(S), NEW y, y \notin S,
         \A x \in S \cup {y} : f[x] \in Int
  PROVE  SumFunctionOnSet(f, S \cup {y}) = f[y] + SumFunctionOnSet(f, S)
<1>1. (S \cup {y}) \ {y} = S /\ IsFiniteSet(S \cup {y})
  BY FS_AddElement
<1> QED  BY <1>1, SumRemove

(* The sum depends only on the values over the set.                        *)
THEOREM SumSame ==
  ASSUME NEW f, NEW g, NEW S, IsFiniteSet(S), \A x \in S : f[x] = g[x]
  PROVE  SumFunctionOnSet(f, S) = SumFunctionOnSet(g, S)
<1> DEFINE G == {T \in SUBSET S : SumFunctionOnSet(f, T) = SumFunctionOnSet(g, T)}
<1>1. ASSUME NEW T \in SUBSET S, \A U \in SUBSET T : U # T => U \in G  PROVE T \in G
  <2>1. CASE T = {}
    BY <2>1, SumEmpty
  <2>2. CASE T # {}
    <3>1. Some(T) \in T /\ IsFiniteSet(T)
      BY <2>2, SomeFact, FS_Subset
    <3>2. T \ {Some(T)} \in G
      BY <1>1, <3>1
    <3> QED  BY <2>2, <3>1, <3>2, SumStep
  <2> QED  BY <2>1, <2>2
<1> HIDE DEF G
<1>2. SUBSET S \subseteq G
  BY <1>1, SubsetInduction
<1> QED  BY <1>2 DEF G

(* A function on one element more sums to its value more.                  *)
THEOREM SumGrows ==
  ASSUME NEW f, NEW g, NEW y, IsFiniteSet(DOMAIN f), y \notin DOMAIN f,
         DOMAIN g = DOMAIN f \cup {y},
         \A x \in DOMAIN f : g[x] = f[x] /\ f[x] \in Int, g[y] \in Int
  PROVE  SumFunction(g) = SumFunction(f) + g[y] /\ SumFunction(f) \in Int
<1> DEFINE S == DOMAIN f
<1>1. SumFunctionOnSet(g, S \cup {y}) = g[y] + SumFunctionOnSet(g, S)
  <2>1. \A x \in S \cup {y} : g[x] \in Int
    OBVIOUS
  <2> QED  BY <2>1, SumAdd
<1>2. SumFunctionOnSet(g, S) = SumFunctionOnSet(f, S)
  BY SumSame
<1>3. SumFunctionOnSet(f, S) \in Int
  BY SumType
<1> QED  BY <1>1, <1>2, <1>3 DEF SumFunction

(* A function changed at one element sums to that much more or less.       *)
THEOREM SumChanged ==
  ASSUME NEW f, NEW g, NEW S, IsFiniteSet(S), NEW y \in S,
         \A x \in S : f[x] \in Int /\ g[x] \in Int, \A x \in S \ {y} : g[x] = f[x]
  PROVE  SumFunctionOnSet(g, S) = SumFunctionOnSet(f, S) - f[y] + g[y]
<1>1. IsFiniteSet(S \ {y}) /\ \A x \in S \ {y} : f[x] \in Int
  BY FS_RemoveElement
<1>2. /\ SumFunctionOnSet(f, S) = f[y] + SumFunctionOnSet(f, S \ {y})
      /\ SumFunctionOnSet(g, S) = g[y] + SumFunctionOnSet(g, S \ {y})
  BY SumRemove
<1>3. SumFunctionOnSet(g, S \ {y}) = SumFunctionOnSet(f, S \ {y})
  BY <1>1, SumSame
<1>4. SumFunctionOnSet(f, S \ {y}) \in Int /\ f[y] \in Int /\ g[y] \in Int
  BY <1>1, SumType
<1> QED  BY <1>2, <1>3, <1>4

(* Naturals sum to a natural, no smaller than any of them.                 *)
THEOREM SumBound ==
  ASSUME NEW f, NEW S, IsFiniteSet(S), \A x \in S : f[x] \in Nat
  PROVE  /\ SumFunctionOnSet(f, S) \in Nat
         /\ \A y \in S : f[y] <= SumFunctionOnSet(f, S)
<1> DEFINE G == {T \in SUBSET S : SumFunctionOnSet(f, T) \in Nat}
<1>1. ASSUME NEW T \in SUBSET S, \A U \in SUBSET T : U # T => U \in G  PROVE T \in G
  <2>1. CASE T = {}
    BY <2>1, SumEmpty
  <2>2. CASE T # {}
    <3>1. Some(T) \in T /\ IsFiniteSet(T)
      BY <2>2, SomeFact, FS_Subset
    <3>2. T \ {Some(T)} \in G
      BY <1>1, <3>1
    <3> QED  BY <2>2, <3>1, <3>2, SumStep
  <2> QED  BY <2>1, <2>2
<1> HIDE DEF G
<1>2. SUBSET S \subseteq G
  BY <1>1, SubsetInduction
<1>3. \A T \in SUBSET S : SumFunctionOnSet(f, T) \in Nat
  BY <1>2 DEF G
<1>4. ASSUME NEW y \in S  PROVE f[y] <= SumFunctionOnSet(f, S)
  <2>1. SumFunctionOnSet(f, S) = f[y] + SumFunctionOnSet(f, S \ {y})
    BY SumRemove
  <2>2. SumFunctionOnSet(f, S \ {y}) \in Nat
    BY <1>3
  <2> QED  BY <2>1, <2>2
<1> QED  BY <1>3, <1>4
=============================================================================
