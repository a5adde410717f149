----------------------------- MODULE SumLemmas -----------------------------
(* Facts about sums over finite sets, which stand for the SUM(...) queries   *)
(* of the code: over payments, ledger entries, authority usage and runs.     *)
(* The sum is SumFunction of the community module Functions, a      *)
(* fold by a recursive function; it is shown here to obey its equation and   *)
(* not to depend on the order in which the fold takes the elements.          *)
EXTENDS Functions, FiniteSets, FiniteSetTheorems, WellFoundedInduction, TLAPS

\* A nonempty family of subsets of a finite set has a minimal member: the
\* induction over finite sets that every lemma below rests on, each applying
\* it to the subsets on which its claim would fail.
LEMMA MinimalSubset ==
  ASSUME NEW S, IsFiniteSet(S),
         NEW Family \in SUBSET SUBSET S, Family # {}
  PROVE  \E T \in Family : \A U \in SUBSET T : U # T => U \notin Family
<1>1. IsWellFoundedOn(StrictSubsetOrdering(S), FiniteSubsetsOf(S))
  BY FS_StrictSubsetOrderingWellFounded
<1>2. FiniteSubsetsOf(S) = SUBSET S
  BY FS_FiniteSubsetsOfFinite
<1>3. PICK T \in Family :
        \A U \in Family : ~ (<<U, T>> \in StrictSubsetOrdering(S))
  BY <1>1, <1>2, WFMin
<1>4. ASSUME NEW U \in SUBSET T, U # T
      PROVE  U \notin Family
  BY <1>3, <1>4 DEF StrictSubsetOrdering
<1> QED
  BY <1>4

-----------------------------------------------------------------------------
(* The fold is well defined                                                *)

\* The element the fold takes first.
Chosen(S) == CHOOSE x \in S : TRUE

LEMMA ChosenIsElement ==
  ASSUME NEW S, S # {}
  PROVE  Chosen(S) \in S
  BY DEF Chosen

\* The recursive function whose value at S is the sum.
IsSumTable(g, f, S) ==
  g = [T \in SUBSET S |->
         IF T = {} THEN 0 ELSE f[Chosen(T)] + g[T \ {Chosen(T)}]]

LEMMA SumIsTable ==
  ASSUME NEW f, NEW S
  PROVE  SumFunctionOnSet(f, S) = (CHOOSE g : IsSumTable(g, f, S))[S]
  BY DEF SumFunctionOnSet, FoldFunctionOnSet, MapThenFoldSet, IsSumTable, Chosen

LEMMA TableRow ==
  ASSUME NEW f, NEW S, NEW g, IsSumTable(g, f, S), NEW T \in SUBSET S
  PROVE  g[T] = IF T = {} THEN 0 ELSE f[Chosen(T)] + g[T \ {Chosen(T)}]
  BY DEF IsSumTable

\* Two tables agree on what both sum.
LEMMA TablesAgree ==
  ASSUME NEW f, NEW S, IsFiniteSet(S), NEW S2,
         NEW g, IsSumTable(g, f, S), NEW h, IsSumTable(h, f, S2),
         NEW T, T \in SUBSET S, T \in SUBSET S2
  PROVE  g[T] = h[T]
<1> DEFINE Family == {U \in SUBSET T : g[U] # h[U]}
<1>1. SUFFICES ASSUME Family # {} PROVE FALSE
  OBVIOUS
<1>2. IsFiniteSet(T)
  BY FS_Subset
<1>3. PICK U \in Family : \A V \in SUBSET U : V # U => V \notin Family
  <2>1. Family \in SUBSET SUBSET T
    OBVIOUS
  <2> HIDE DEF Family
  <2> QED
    BY <1>1, <1>2, <2>1, MinimalSubset
<1>4. /\ g[U] = IF U = {} THEN 0 ELSE f[Chosen(U)] + g[U \ {Chosen(U)}]
      /\ h[U] = IF U = {} THEN 0 ELSE f[Chosen(U)] + h[U \ {Chosen(U)}]
  <2>1. U \in SUBSET S
    OBVIOUS
  <2>4. U \in SUBSET S2
    OBVIOUS
  <2> HIDE DEF Family
  <2>2. g[U] = IF U = {} THEN 0 ELSE f[Chosen(U)] + g[U \ {Chosen(U)}]
    BY <2>1, TableRow
  <2>3. h[U] = IF U = {} THEN 0 ELSE f[Chosen(U)] + h[U \ {Chosen(U)}]
    BY <2>4 DEF IsSumTable
  <2> QED
    BY <2>2, <2>3
<1>5. U # {}
  BY <1>4
<1>6. g[U \ {Chosen(U)}] = h[U \ {Chosen(U)}]
  BY <1>3, <1>5, ChosenIsElement
<1> QED
  BY <1>4, <1>5, <1>6

\* The table exists: its row of T is built from the tables of smaller sets.
LEMMA TableExists ==
  ASSUME NEW f, NEW S, IsFiniteSet(S)
  PROVE  \E g : IsSumTable(g, f, S)
<1> DEFINE Family == {T \in SUBSET S : ~ \E g : IsSumTable(g, f, T)}
<1>1. SUFFICES ASSUME Family # {} PROVE FALSE
  OBVIOUS
<1>2. PICK T \in Family : \A U \in SUBSET T : U # T => U \notin Family
  <2>1. Family \in SUBSET SUBSET S
    OBVIOUS
  <2> HIDE DEF Family
  <2> QED
    BY <1>1, <2>1, MinimalSubset
<1>3. IsFiniteSet(T)
  BY FS_Subset
<1> DEFINE Table(U) == CHOOSE g : IsSumTable(g, f, U)
           Row(U) == IF U = {} THEN 0
                     ELSE f[Chosen(U)] + Table(U \ {Chosen(U)})[U \ {Chosen(U)}]
           g == [U \in SUBSET T |-> Row(U)]
<1>4. ASSUME NEW U \in SUBSET T, U # T
      PROVE  IsSumTable(Table(U), f, U)
  <2>1. \E h : IsSumTable(h, f, U)
    BY <1>2, <1>4
  <2> QED
    BY <2>1
<1> HIDE DEF Table
<1>5. ASSUME NEW U \in SUBSET T, U # T
      PROVE  Table(U)[U] = Row(U)
  <2>1. IsSumTable(Table(U), f, U)
    BY <1>4, <1>5
  <2>2. Table(U)[U] = IF U = {} THEN 0
                      ELSE f[Chosen(U)] + Table(U)[U \ {Chosen(U)}]
    BY <2>1, TableRow
  <2>3. CASE U = {}
    BY <2>2, <2>3
  <2>4. CASE U # {}
    <3> DEFINE V == U \ {Chosen(U)}
    <3>1. V \in SUBSET T /\ V # T /\ V \in SUBSET U /\ V \in SUBSET V
      BY <2>4, ChosenIsElement
    <3>2. IsSumTable(Table(V), f, V)
      BY <1>4, <3>1
    <3>3. IsFiniteSet(U)
      BY <1>3, FS_Subset
    <3>4. Table(U)[V] = Table(V)[V]
      BY <2>1, <3>1, <3>2, <3>3, TablesAgree
    <3> QED
      BY <2>2, <2>4, <3>4
  <2> QED
    BY <2>3, <2>4
<1> HIDE DEF Row
<1>6. ASSUME NEW U \in SUBSET T
      PROVE  g[U] = IF U = {} THEN 0 ELSE f[Chosen(U)] + g[U \ {Chosen(U)}]
  <2>1. CASE U = {}
    BY <2>1 DEF Row
  <2>2. CASE U # {}
    <3> DEFINE V == U \ {Chosen(U)}
    <3>1. V \in SUBSET T /\ V # T
      BY <2>2, ChosenIsElement
    <3>2. g[V] = Table(V)[V]
      BY <1>5, <3>1
    <3> QED
      BY <2>2, <3>2 DEF Row
  <2> QED
    BY <2>1, <2>2
<1>7. g = [U \in SUBSET T |->
             IF U = {} THEN 0 ELSE f[Chosen(U)] + g[U \ {Chosen(U)}]]
  <2> HIDE DEF g
  <2>1. DOMAIN g = SUBSET T /\ g = [U \in SUBSET T |-> g[U]]
    BY DEF g
  <2> QED
    BY <1>6, <2>1
<1> HIDE DEF g
<1>8. IsSumTable(g, f, T)
  BY <1>7 DEF IsSumTable
<1> QED
  BY <1>2, <1>8

-----------------------------------------------------------------------------
(* The equations of a sum                                                  *)

LEMMA SumEmpty ==
  ASSUME NEW f
  PROVE  SumFunctionOnSet(f, {}) = 0
<1> DEFINE g == CHOOSE h : IsSumTable(h, f, {})
<1>1. \E h : IsSumTable(h, f, {})
  BY FS_EmptySet, TableExists
<1>2. IsSumTable(g, f, {})
  BY <1>1
<1> HIDE DEF g
<1>3. g[{}] = 0
  BY <1>2, TableRow
<1> QED
  BY <1>3, SumIsTable DEF g

LEMMA SumChosen ==
  ASSUME NEW f, NEW S, IsFiniteSet(S), S # {}
  PROVE  SumFunctionOnSet(f, S)
           = f[Chosen(S)] + SumFunctionOnSet(f, S \ {Chosen(S)})
<1> DEFINE Rest == S \ {Chosen(S)}
           g == CHOOSE t : IsSumTable(t, f, S)
           h == CHOOSE t : IsSumTable(t, f, Rest)
<1>1. IsSumTable(g, f, S)
  BY TableExists
<1>2. IsFiniteSet(Rest)
  BY FS_Subset
<1>3. IsSumTable(h, f, Rest)
  <2>1. \E t : IsSumTable(t, f, Rest)
    BY <1>2, TableExists
  <2> QED
    BY <2>1
<1>4. SumFunctionOnSet(f, S) = g[S] /\ SumFunctionOnSet(f, Rest) = h[Rest]
  BY SumIsTable
<1> HIDE DEF g, h
<1>5. g[S] = f[Chosen(S)] + g[Rest]
  BY <1>1, TableRow
<1>6. g[Rest] = h[Rest]
  BY <1>1, <1>3, TablesAgree
<1> QED
  BY <1>4, <1>5, <1>6

-----------------------------------------------------------------------------
(* Sums of natural numbers                                                 *)

LEMMA SumType ==
  ASSUME NEW f, NEW S, IsFiniteSet(S), \A x \in S : f[x] \in Nat
  PROVE  SumFunctionOnSet(f, S) \in Nat
<1> DEFINE Family == {T \in SUBSET S : SumFunctionOnSet(f, T) \notin Nat}
<1>1. SUFFICES ASSUME Family # {} PROVE FALSE
  OBVIOUS
<1>2. PICK T \in Family : \A U \in SUBSET T : U # T => U \notin Family
  <2>1. Family \in SUBSET SUBSET S
    OBVIOUS
  <2> HIDE DEF Family
  <2> QED
    BY <1>1, <2>1, MinimalSubset
<1>3. T # {}
  BY SumEmpty
<1> DEFINE x == Chosen(T)
           Rest == T \ {x}
<1>4. x \in T /\ x \in S
  BY <1>3, ChosenIsElement
<1>5. SumFunctionOnSet(f, Rest) \in Nat
  BY <1>2, <1>4
<1>6. SumFunctionOnSet(f, T) = f[x] + SumFunctionOnSet(f, Rest)
  BY <1>3, FS_Subset, SumChosen
<1> QED
  BY <1>4, <1>5, <1>6

\* A sum depends on the values at its elements alone.
LEMMA SumSame ==
  ASSUME NEW f, NEW g, NEW S, IsFiniteSet(S), \A x \in S : f[x] = g[x]
  PROVE  SumFunctionOnSet(f, S) = SumFunctionOnSet(g, S)
<1> DEFINE Family ==
      {T \in SUBSET S : SumFunctionOnSet(f, T) # SumFunctionOnSet(g, T)}
<1>1. SUFFICES ASSUME Family # {} PROVE FALSE
  OBVIOUS
<1>2. PICK T \in Family : \A U \in SUBSET T : U # T => U \notin Family
  <2>1. Family \in SUBSET SUBSET S
    OBVIOUS
  <2> HIDE DEF Family
  <2> QED
    BY <1>1, <2>1, MinimalSubset
<1>3. T # {}
  BY SumEmpty
<1> DEFINE x == Chosen(T)
           Rest == T \ {x}
<1>4. x \in T /\ x \in S
  BY <1>3, ChosenIsElement
<1>5. SumFunctionOnSet(f, Rest) = SumFunctionOnSet(g, Rest)
  BY <1>2, <1>4
<1>6. IsFiniteSet(T)
  BY FS_Subset
<1>7. /\ SumFunctionOnSet(f, T) = f[x] + SumFunctionOnSet(f, Rest)
      /\ SumFunctionOnSet(g, T) = g[x] + SumFunctionOnSet(g, Rest)
  BY <1>3, <1>6, SumChosen
<1> QED
  BY <1>4, <1>5, <1>7

\* Any element may be taken first.
LEMMA SumRemove ==
  ASSUME NEW f, NEW S, IsFiniteSet(S), \A x \in S : f[x] \in Nat,
         NEW y \in S
  PROVE  SumFunctionOnSet(f, S) = f[y] + SumFunctionOnSet(f, S \ {y})
<1> DEFINE Sum(T) == SumFunctionOnSet(f, T)
           Family == {T \in SUBSET S :
                        \E x \in T : Sum(T) # f[x] + Sum(T \ {x})}
<1>1. SUFFICES ASSUME Family # {} PROVE FALSE
  OBVIOUS
<1>2. PICK T \in Family : \A U \in SUBSET T : U # T => U \notin Family
  <2>1. Family \in SUBSET SUBSET S
    OBVIOUS
  <2> HIDE DEF Family
  <2> QED
    BY <1>1, <2>1, MinimalSubset
<1>3. PICK w \in T : Sum(T) # f[w] + Sum(T \ {w})
  OBVIOUS
<1>4. T \subseteq S /\ IsFiniteSet(T)
  BY FS_Subset
<1> DEFINE x == Chosen(T)
           Rest == T \ {x}
           Others == T \ {w}
           Both == T \ {x, w}
<1>5. x \in T /\ x \in S
  BY <1>3, ChosenIsElement
<1>6. Sum(T) = f[x] + Sum(Rest)
  BY <1>3, <1>4, SumChosen
<1>7. x # w
  BY <1>3, <1>6
<1> HIDE DEF x, Sum
<1>8. Sum(Rest) = f[w] + Sum(Both)
  <2>1. Rest \in SUBSET T /\ Rest # T /\ w \in Rest /\ Rest \in SUBSET S
    BY <1>3, <1>5, <1>7
  <2>2. Rest \ {w} = Both
    OBVIOUS
  <2> QED
    BY <1>2, <2>1, <2>2
<1>9. Sum(Others) = f[x] + Sum(Both)
  <2>1. Others \in SUBSET T /\ Others # T /\ x \in Others /\ Others \in SUBSET S
    BY <1>3, <1>5, <1>7
  <2>2. Others \ {x} = Both
    OBVIOUS
  <2> QED
    BY <1>2, <2>1, <2>2
<1>10. Sum(Both) \in Nat
  <2>1. IsFiniteSet(Both) /\ \A v \in Both : f[v] \in Nat
    BY <1>4, FS_Subset
  <2> QED
    BY <2>1, SumType DEF Sum
<1>11. f[x] \in Nat /\ f[w] \in Nat
  BY <1>4, <1>5
<1> QED
  BY <1>3, <1>6, <1>8, <1>9, <1>10, <1>11

\* One more element adds its value.
LEMMA SumAdd ==
  ASSUME NEW f, NEW S, IsFiniteSet(S), NEW y, y \notin S,
         \A x \in S \cup {y} : f[x] \in Nat
  PROVE  SumFunctionOnSet(f, S \cup {y}) = SumFunctionOnSet(f, S) + f[y]
<1>1. IsFiniteSet(S \cup {y})
  BY FS_AddElement
<1>2. (S \cup {y}) \ {y} = S
  OBVIOUS
<1>3. SumFunctionOnSet(f, S) \in Nat
  BY SumType
<1>4. SumFunctionOnSet(f, S \cup {y})
        = f[y] + SumFunctionOnSet(f, (S \cup {y}) \ {y})
  BY <1>1, SumRemove
<1>5. f[y] \in Nat
  OBVIOUS
<1> QED
  BY <1>2, <1>3, <1>4, <1>5

\* Fewer elements have a smaller sum.
LEMMA SumSubset ==
  ASSUME NEW f, NEW S, IsFiniteSet(S), \A x \in S : f[x] \in Nat,
         NEW T \in SUBSET S
  PROVE  SumFunctionOnSet(f, T) <= SumFunctionOnSet(f, S)
<1> DEFINE Family == {U \in SUBSET S : /\ T \subseteq U
                                       /\ ~ (SumFunctionOnSet(f, T)
                                                <= SumFunctionOnSet(f, U))}
<1>1. SUFFICES ASSUME Family # {} PROVE FALSE
  OBVIOUS
<1>2. PICK U \in Family : \A V \in SUBSET U : V # U => V \notin Family
  <2>1. Family \in SUBSET SUBSET S
    OBVIOUS
  <2> HIDE DEF Family
  <2> QED
    BY <1>1, <2>1, MinimalSubset
<1>3. /\ U \in SUBSET S
      /\ T \subseteq U
      /\ ~ (SumFunctionOnSet(f, T) <= SumFunctionOnSet(f, U))
  OBVIOUS
<1>4. SumFunctionOnSet(f, T) \in Nat
  BY FS_Subset, SumType
<1>5. PICK y \in U : y \notin T
  BY <1>3, <1>4
<1> DEFINE Rest == U \ {y}
<1>6. SumFunctionOnSet(f, T) <= SumFunctionOnSet(f, Rest)
  BY <1>2, <1>3, <1>5
<1>7. IsFiniteSet(U) /\ IsFiniteSet(Rest) /\ Rest \subseteq S
  BY FS_Subset
<1>8. SumFunctionOnSet(f, Rest) \in Nat
  BY <1>7, SumType
<1>9. SumFunctionOnSet(f, U) = f[y] + SumFunctionOnSet(f, Rest)
  BY <1>3, <1>7, SumRemove
<1>10. f[y] \in Nat
  BY <1>3
<1> HIDE DEF Rest, Family
<1> QED
  BY <1>3, <1>4, <1>6, <1>8, <1>9, <1>10

-----------------------------------------------------------------------------
(* The same of SumFunction, which sums over the domain of a function       *)

LEMMA FunctionSumType ==
  ASSUME NEW f, IsFiniteSet(DOMAIN f), \A x \in DOMAIN f : f[x] \in Nat
  PROVE  SumFunction(f) \in Nat
  BY SumType DEF SumFunction

LEMMA FunctionSumEmpty ==
  ASSUME NEW f, DOMAIN f = {}
  PROVE  SumFunction(f) = 0
  BY SumEmpty DEF SumFunction

LEMMA FunctionSumSame ==
  ASSUME NEW f, NEW g, IsFiniteSet(DOMAIN f), DOMAIN g = DOMAIN f,
         \A x \in DOMAIN f : g[x] = f[x]
  PROVE  SumFunction(g) = SumFunction(f)
  BY SumSame DEF SumFunction

\* A function that extends another by one element adds its value.
LEMMA FunctionSumAdd ==
  ASSUME NEW f, NEW g, NEW y,
         IsFiniteSet(DOMAIN f), y \notin DOMAIN f, DOMAIN g = (DOMAIN f) \cup {y},
         \A x \in DOMAIN f : g[x] = f[x],
         \A x \in DOMAIN g : g[x] \in Nat
  PROVE  SumFunction(g) = SumFunction(f) + g[y]
<1>1. SumFunctionOnSet(g, (DOMAIN f) \cup {y}) = SumFunctionOnSet(g, DOMAIN f) + g[y]
  BY SumAdd
<1>2. SumFunctionOnSet(g, DOMAIN f) = SumFunctionOnSet(f, DOMAIN f)
  BY SumSame
<1> QED
  BY <1>1, <1>2 DEF SumFunction

\* The sum over a single element is its value.
LEMMA FunctionSumSingle ==
  ASSUME NEW f, NEW y, DOMAIN f = {y}, f[y] \in Nat
  PROVE  SumFunction(f) = f[y]
<1>1. SumFunctionOnSet(f, {} \cup {y}) = SumFunctionOnSet(f, {}) + f[y]
  BY FS_EmptySet, SumAdd
<1>2. {} \cup {y} = {y}
  OBVIOUS
<1> QED
  BY <1>1, <1>2, SumEmpty DEF SumFunction

\* A function that extends another has no smaller sum.
LEMMA FunctionSumGrows ==
  ASSUME NEW f, NEW g, IsFiniteSet(DOMAIN g), DOMAIN f \subseteq DOMAIN g,
         \A x \in DOMAIN f : g[x] = f[x],
         \A x \in DOMAIN g : g[x] \in Nat
  PROVE  SumFunction(f) <= SumFunction(g)
<1>1. SumFunctionOnSet(g, DOMAIN f) <= SumFunctionOnSet(g, DOMAIN g)
  BY SumSubset
<1>2. SumFunctionOnSet(g, DOMAIN f) = SumFunctionOnSet(f, DOMAIN f)
  BY FS_Subset, SumSame
<1> QED
  BY <1>1, <1>2 DEF SumFunction

\* When every element answers to one of its own, of the same value, on the
\* other side, the other side has no smaller sum.
LEMMA FunctionSumInjection ==
  ASSUME NEW f, NEW g, IsFiniteSet(DOMAIN f), IsFiniteSet(DOMAIN g),
         \A y \in DOMAIN g : g[y] \in Nat,
         NEW to \in [DOMAIN f -> DOMAIN g],
         \A x, z \in DOMAIN f : to[x] = to[z] => x = z,
         \A x \in DOMAIN f : f[x] = g[to[x]]
  PROVE  SumFunction(f) <= SumFunction(g)
<1> DEFINE Image(T) == {to[x] : x \in T}
           Family == {T \in SUBSET DOMAIN f :
                        SumFunctionOnSet(f, T) # SumFunctionOnSet(g, Image(T))}
<1>1. Family = {}
  <2>1. SUFFICES ASSUME Family # {} PROVE FALSE
    OBVIOUS
  <2>2. PICK T \in Family : \A U \in SUBSET T : U # T => U \notin Family
    <3>1. Family \in SUBSET SUBSET DOMAIN f
      OBVIOUS
    <3> HIDE DEF Family
    <3> QED
      BY <2>1, <3>1, MinimalSubset
  <2>3. T \in SUBSET DOMAIN f /\ SumFunctionOnSet(f, T) # SumFunctionOnSet(g, Image(T))
    OBVIOUS
  <2>4. T # {}
    <3>1. Image({}) = {}
      OBVIOUS
    <3> QED
      BY <2>3, <3>1, SumEmpty
  <2> DEFINE x == Chosen(T)
             Rest == T \ {x}
  <2>5. x \in T /\ x \in DOMAIN f
    BY <2>3, <2>4, ChosenIsElement
  <2>6. SumFunctionOnSet(f, Rest) = SumFunctionOnSet(g, Image(Rest))
    BY <2>2, <2>3, <2>5
  <2>7. IsFiniteSet(T)
    BY <2>3, FS_Subset
  <2>8. SumFunctionOnSet(f, T) = f[x] + SumFunctionOnSet(f, Rest)
    BY <2>4, <2>7, SumChosen
  <2>9. Image(T) \subseteq DOMAIN g /\ to[x] \in Image(T)
    BY <2>3, <2>5
  <2>10. Image(T) \ {to[x]} = Image(Rest)
    BY <2>3, <2>5
  <2> HIDE DEF Image
  <2>11. SumFunctionOnSet(g, Image(T)) = g[to[x]] + SumFunctionOnSet(g, Image(T) \ {to[x]})
    <3>1. IsFiniteSet(Image(T)) /\ \A y \in Image(T) : g[y] \in Nat
      BY <2>9, FS_Subset
    <3> QED
      BY <2>9, <3>1, SumRemove
  <2>12. f[x] = g[to[x]]
    BY <2>5
  <2> QED
    BY <2>3, <2>6, <2>8, <2>10, <2>11, <2>12
<1>2. SumFunctionOnSet(f, DOMAIN f) = SumFunctionOnSet(g, Image(DOMAIN f))
  BY <1>1
<1>3. Image(DOMAIN f) \subseteq DOMAIN g
  OBVIOUS
<1> HIDE DEF Image
<1>4. SumFunctionOnSet(g, Image(DOMAIN f)) <= SumFunctionOnSet(g, DOMAIN g)
  BY <1>3, SumSubset
<1> QED
  BY <1>2, <1>4 DEF SumFunction
=============================================================================
