------------------------ MODULE WriteResponseProofs ------------------------
(***************************************************************************)
(* The write path of a coordinator: proved for any batches, replicas,      *)
(* consistency level, sizes and limits, and for every order in which       *)
(* answers, ends of sends, time-outs and releases from the queue come.     *)
(***************************************************************************)
EXTENDS WriteResponse, FiniteSetTheorems, WellFoundedInduction, TLAPS

-----------------------------------------------------------------------------
(* Sums over finite sets.                                                  *)

\* A set of naturals has a smallest one.
LEMMA SmallestExists ==
  ASSUME NEW S, S \subseteq Nat, S # {}
  PROVE  \E x \in S : \A y \in S : x <= y
<1>1. PICK x \in S : \A y \in S : ~(<<y, x>> \in OpToRel(<, Nat))
  BY Zenon, NatLessThanWellFounded, WFMin
<1>2. \A y \in S : ~(y < x)
  BY Zenon, <1>1 DEF OpToRel
<1> QED
  BY <1>2

\* The sum of f over S, as the model computes sizes.
Total(f, S) == MapThenSumSet(LAMBDA x : f[x], S)

Pick(s) == CHOOSE x \in s : TRUE

\* g is the sum of f for the sets in D, as MapThenFoldSet defines it.
Sums(g, f, D) ==
    g = [s \in D |-> IF s = {} THEN 0 ELSE f[Pick(s)] + g[s \ {Pick(s)}]]

\* ... for all the subsets of S.
AllSums(g, f, S) == Sums(g, f, SUBSET S)

\* Total is defined through a recursive function that TLA+ chooses.
LEMMA TotalIsChosen ==
  ASSUME NEW f, NEW S
  PROVE  Total(f, S) = (CHOOSE g : AllSums(g, f, S))[S]
BY Zenon DEF Total, MapThenSumSet, MapThenFoldSet, AllSums, Sums, Pick

\* The element that is added next is one of the set.
LEMMA PickIn ==
  ASSUME NEW s, s # {}
  PROVE  Pick(s) \in s
BY Zenon DEF Pick

\* The recursive function exists: for the sets of n + 1 elements it is made from
\* the one for n.
LEMMA SumsExist ==
  ASSUME NEW f, NEW S, IsFiniteSet(S)
  PROVE  \E g : AllSums(g, f, S)
<1> DEFINE D(n) == {s \in SUBSET S : Cardinality(s) <= n}
           N == {n \in Nat : ~\E g : Sums(g, f, D(n))}
<1>0. \A s \in SUBSET S : IsFiniteSet(s) /\ Cardinality(s) \in Nat /\ Cardinality(s) <= Cardinality(S)
  BY Zenon, FS_Subset, FS_CardinalityType
<1>1. 0 \notin N
  <2> DEFINE g == [s \in D(0) |-> 0]
  <2>1. \A s \in D(0) : s = {}
    BY <1>0, FS_EmptySet
  <2>2. Sums(g, f, D(0))
    BY Zenon, <2>1 DEF Sums
  <2> QED
    BY Zenon, <2>2
<1>2. ASSUME NEW n \in Nat, n \notin N
      PROVE  n + 1 \notin N
  <2>1. PICK g : Sums(g, f, D(n))
    BY Zenon, <1>2
  <2> DEFINE h == [s \in D(n + 1) |-> IF s = {} THEN 0 ELSE f[Pick(s)] + g[s \ {Pick(s)}]]
  <2>2. ASSUME NEW s \in D(n + 1), s # {}
        PROVE  s \ {Pick(s)} \in D(n) /\ s \ {Pick(s)} \in D(n + 1)
    <3>1. Pick(s) \in s
      BY Zenon, <2>2, PickIn
    <3>2. Cardinality(s \ {Pick(s)}) = Cardinality(s) - 1
      BY Zenon, <1>0, <3>1, FS_RemoveElement
    <3> QED
      BY <1>0, <3>2
  <2>3. ASSUME NEW s \in D(n)
        PROVE  s \in D(n + 1) /\ h[s] = g[s]
    <3>1. s \in D(n + 1)
      BY <1>0
    <3> HIDE DEF D
    <3>2. g[s] = IF s = {} THEN 0 ELSE f[Pick(s)] + g[s \ {Pick(s)}]
      BY Zenon, <2>1, <2>3 DEF Sums
    <3> QED
      BY Zenon, <3>1, <3>2
  <2>4. Sums(h, f, D(n + 1))
    <3> HIDE DEF D
    <3>1. \A s \in D(n + 1) : s # {} => h[s \ {Pick(s)}] = g[s \ {Pick(s)}]
      BY Zenon, <2>2, <2>3
    <3>2. h = [s \in D(n + 1) |-> IF s = {} THEN 0 ELSE f[Pick(s)] + h[s \ {Pick(s)}]]
      BY Zenon, <3>1
    <3> QED
      BY Zenon, <3>2 DEF Sums
  <2> QED
    BY Zenon, <2>4
<1>3. N = {}
  <2> SUFFICES ASSUME N # {}
               PROVE  FALSE
    BY Zenon
  <2>0. N \subseteq Nat
    BY Zenon
  <2> HIDE DEF N
  <2>1. PICK m \in N : \A y \in N : m <= y
    BY Zenon, <2>0, SmallestExists
  <2>2. m - 1 \in Nat /\ m - 1 \notin N /\ m = (m - 1) + 1
    BY <1>1, <2>0, <2>1
  <2> QED
    BY Zenon, <1>2, <2>1, <2>2
<1>4. D(Cardinality(S)) = SUBSET S /\ Cardinality(S) \in Nat
  BY Zenon, <1>0
<1>5. \E g : Sums(g, f, D(Cardinality(S)))
  BY Zenon, <1>3, <1>4
<1> QED
  BY Zenon, <1>4, <1>5 DEF AllSums


\* Induction over a finite set, for a set P of subsets: if P has the empty set,
\* and with a set the sets with one element more, it has them all.
LEMMA FiniteInduction ==
  ASSUME NEW S, IsFiniteSet(S), NEW P \in SUBSET SUBSET S,
         {} \in P,
         \A T \in P : \A x \in S \ T : T \union {x} \in P
  PROVE  \A T \in SUBSET S : T \in P
<1> SUFFICES ASSUME NEW U \in SUBSET S, U \notin P
             PROVE  FALSE
  BY Zenon
<1> DEFINE N == {Cardinality(T) : T \in (SUBSET S) \ P}
<1>1. \A T \in SUBSET S : IsFiniteSet(T) /\ Cardinality(T) \in Nat
  BY Zenon, FS_Subset, FS_CardinalityType
<1>2. PICK m \in N : \A y \in N : m <= y
  <2>1. N # {} /\ N \subseteq Nat
    BY Zenon, <1>1
  <2> HIDE DEF N
  <2> QED
    BY Zenon, <2>1, SmallestExists
<1>3. PICK T \in (SUBSET S) \ P : Cardinality(T) = m
  BY Zenon, <1>2
<1>4. PICK x \in T : TRUE
  BY Zenon, <1>3
<1>5. T \ {x} \notin P
  <2>1. x \in S \ (T \ {x}) /\ (T \ {x}) \union {x} = T
    BY Zenon, <1>3, <1>4
  <2> QED
    BY Zenon, <1>3, <2>1
<1>6. Cardinality(T \ {x}) = m - 1 /\ m \in Nat
  BY Zenon, <1>1, <1>3, <1>4, FS_RemoveElement
<1>7. Cardinality(T \ {x}) \in N
  BY Zenon, <1>5
<1> HIDE DEF N
<1> QED
  BY <1>2, <1>6, <1>7

\* Two such functions agree where both are defined.
LEMMA SumsAgree ==
  ASSUME NEW f, NEW S, IsFiniteSet(S), NEW T \in SUBSET S,
         NEW g, AllSums(g, f, S), NEW h, AllSums(h, f, T)
  PROVE  g[T] = h[T]
<1> DEFINE N == {Cardinality(U) : U \in {V \in SUBSET T : g[V] # h[V]}}
<1> SUFFICES ASSUME g[T] # h[T]
             PROVE  FALSE
  BY Zenon
<1>1. \A U \in SUBSET T : IsFiniteSet(U) /\ Cardinality(U) \in Nat
  BY Zenon, FS_Subset, FS_CardinalityType
<1>2. PICK m \in N : \A y \in N : m <= y
  <2>1. N # {} /\ N \subseteq Nat
    BY Zenon, <1>1
  <2> HIDE DEF N
  <2> QED
    BY Zenon, <2>1, SmallestExists
<1>3. PICK U \in SUBSET T : Cardinality(U) = m /\ g[U] # h[U]
  BY Zenon, <1>2
<1>4. /\ g[U] = IF U = {} THEN 0 ELSE f[Pick(U)] + g[U \ {Pick(U)}]
      /\ h[U] = IF U = {} THEN 0 ELSE f[Pick(U)] + h[U \ {Pick(U)}]
  BY Zenon DEF AllSums, Sums
<1>5. U # {} /\ Pick(U) \in U
  BY Zenon, <1>3, <1>4, PickIn
<1>6. g[U \ {Pick(U)}] # h[U \ {Pick(U)}]
  BY Zenon, <1>3, <1>4, <1>5
<1>7. Cardinality(U \ {Pick(U)}) = m - 1 /\ m \in Nat
  BY Zenon, <1>1, <1>3, <1>5, FS_RemoveElement
<1>8. Cardinality(U \ {Pick(U)}) \in N
  BY Zenon, <1>5, <1>6
<1> HIDE DEF N
<1> QED
  BY <1>2, <1>7, <1>8

\* The order in which elements are added does not matter.
LEMMA SumsAdd ==
  ASSUME NEW f, NEW S, IsFiniteSet(S), \A x \in S : f[x] \in Nat,
         NEW g, AllSums(g, f, S), NEW A, A \subseteq S, NEW x \in S \ A
  PROVE  g[A] \in Nat /\ g[A \union {x}] = g[A] + f[x]
<1>0. ASSUME NEW T \in SUBSET S, T # {}
      PROVE  Pick(T) \in T /\ g[T] = f[Pick(T)] + g[T \ {Pick(T)}]
  BY Zenon, <1>0, PickIn DEF AllSums, Sums
<1> DEFINE Right(T) == g[T] \in Nat /\ \A y \in T : g[T] = g[T \ {y}] + f[y]
           N == {Cardinality(T) : T \in {V \in SUBSET S : ~Right(V)}}
<1>1. \A T \in SUBSET S : IsFiniteSet(T) /\ Cardinality(T) \in Nat
  BY Zenon, FS_Subset, FS_CardinalityType
<1>2. Right({})
  <2>1. g[{}] = 0
    BY Zenon DEF AllSums, Sums
  <2> QED
    BY <2>1
<1>3. \A T \in SUBSET S : Right(T)
  <2> SUFFICES ASSUME NEW U \in SUBSET S, ~Right(U)
               PROVE  FALSE
    BY Zenon
  <2>2. PICK m \in N : \A y \in N : m <= y
    <3>1. N # {} /\ N \subseteq Nat
      BY Zenon, <1>1
    <3> HIDE DEF N
    <3> QED
      BY Zenon, <3>1, SmallestExists
  <2>3. PICK T \in SUBSET S : Cardinality(T) = m /\ ~Right(T)
    BY Zenon, <2>2
  <2>4. ASSUME NEW V \in SUBSET T, V # T
        PROVE  Right(V)
    <3>1. Cardinality(V) <= m /\ Cardinality(V) # m
      BY Zenon, <1>1, <2>3, <2>4, FS_Subset
    <3>2. Cardinality(V) \notin N
      <4> HIDE DEF N
      <4> QED
        BY <1>1, <2>2, <2>3, <3>1
    <3> QED
      BY Zenon, <3>2
  <2>5. T # {}
    <3> HIDE DEF Right
    <3> QED
      BY Zenon, <1>2, <2>3
  <2> DEFINE z == Pick(T)
  <2>6. z \in T /\ g[T] = f[z] + g[T \ {z}] /\ Right(T \ {z}) /\ f[z] \in Nat
    BY Zenon, <1>0, <2>4, <2>5
  <2>7. g[T] \in Nat
    BY <2>6
  <2>8. ASSUME NEW y \in T
        PROVE  g[T] = g[T \ {y}] + f[y]
    <3>1. CASE y = z
      BY <2>6, <2>8, <3>1
    <3>2. CASE y # z
      <4>1. y \in T \ {z} /\ z \in T \ {y} /\ (T \ {z}) \ {y} = (T \ {y}) \ {z}
        BY Zenon, <2>6, <3>2
      <4>2. g[T \ {z}] = g[(T \ {z}) \ {y}] + f[y]
        BY Zenon, <2>6, <4>1
      <4>3. Right(T \ {y})
        BY Zenon, <2>4
      <4>4. g[T \ {y}] = g[(T \ {y}) \ {z}] + f[z]
        BY Zenon, <4>1, <4>3
      <4>5. /\ f[y] \in Nat /\ f[z] \in Nat
            /\ g[(T \ {z}) \ {y}] \in Nat
        <5>1. Right((T \ {z}) \ {y})
          BY Zenon, <2>4, <2>6
        <5> QED
          BY Zenon, <2>3, <2>6, <5>1
      <4>6. g[T \ {y}] = g[(T \ {z}) \ {y}] + f[z]
        BY Zenon, <4>1, <4>4
      <4>7. g[T] = f[z] + g[T \ {z}]
        BY Zenon, <2>6
      <4> HIDE DEF z
      <4> QED
        BY <4>2, <4>5, <4>6, <4>7
    <3> QED
      BY Zenon, <3>1, <3>2
  <2> QED
    BY Zenon, <2>3, <2>7, <2>8
<1>4. A \union {x} \in SUBSET S /\ (A \union {x}) \ {x} = A
  BY Zenon
<1>5. Right(A) /\ Right(A \union {x})
  <2> HIDE DEF Right
  <2> QED
    BY Zenon, <1>3, <1>4
<1> QED
  BY Zenon, <1>4, <1>5

\* One more element adds its value.
LEMMA TotalAdd ==
  ASSUME NEW f, NEW S, IsFiniteSet(S), NEW x, x \notin S,
         \A y \in S \union {x} : f[y] \in Nat
  PROVE  /\ Total(f, S) \in Nat
         /\ Total(f, S \union {x}) = Total(f, S) + f[x]
<1> DEFINE U == S \union {x}
           g == CHOOSE k : AllSums(k, f, S)
           h == CHOOSE k : AllSums(k, f, U)
<1>1. IsFiniteSet(U)
  BY Zenon, FS_AddElement
<1>2. AllSums(g, f, S)
  BY Zenon, SumsExist
<1>3. AllSums(h, f, U)
  <2> HIDE DEF U
  <2> QED
    BY Zenon, <1>1, SumsExist
<1>4. Total(f, S) = g[S] /\ Total(f, U) = h[U]
  BY Zenon, TotalIsChosen
<1> HIDE DEF g, h
<1>5. S \in SUBSET U /\ x \in U \ S /\ \A y \in U : f[y] \in Nat
  BY Zenon
<1> HIDE DEF U
<1>6. h[S] = g[S]
  <2>1. S \in SUBSET U
    BY Zenon, <1>5
  <2> QED
    BY <1>1, <1>2, <1>3, <2>1, SumsAgree
<1>7. h[S] \in Nat /\ h[S \union {x}] = h[S] + f[x]
  BY <1>1, <1>3, <1>5, SumsAdd
<1> QED
  BY Zenon, <1>4, <1>6, <1>7 DEF U

\* Nothing adds up to zero.
LEMMA TotalEmpty ==
  ASSUME NEW f
  PROVE  Total(f, {}) = 0
<1>1. PICK g : AllSums(g, f, {})
  BY Zenon, SumsExist, FS_EmptySet
<1>2. AllSums(CHOOSE h : AllSums(h, f, {}), f, {})
  BY Zenon, <1>1
<1> DEFINE k == CHOOSE h : AllSums(h, f, {})
<1>3. k[{}] = 0
  <2> HIDE DEF k
  <2>1. AllSums(k, f, {})
    BY Zenon, <1>2 DEF k
  <2> QED
    BY Zenon, <2>1 DEF AllSums, Sums
<1> QED
  BY Zenon, <1>3, TotalIsChosen


\* A sum of naturals is a natural.
LEMMA TotalNat ==
  ASSUME NEW f, NEW S, IsFiniteSet(S), \A y \in S : f[y] \in Nat
  PROVE  Total(f, S) \in Nat
<1>1. CASE S = {}
  BY <1>1, TotalEmpty
<1>2. CASE S # {}
  <2>1. PICK x \in S : TRUE
    BY Zenon, <1>2
  <2> DEFINE T == S \ {x}
  <2>2. IsFiniteSet(T) /\ x \notin T /\ T \union {x} = S
    BY Zenon, <2>1, FS_RemoveElement
  <2> HIDE DEF T
  <2>3. Total(f, T) \in Nat /\ Total(f, T \union {x}) = Total(f, T) + f[x]
    BY Zenon, <2>2, TotalAdd
  <2>4. f[x] \in Nat
    BY Zenon, <2>1
  <2>5. Total(f, S) = Total(f, T) + f[x]
    BY Zenon, <2>2, <2>3
  <2> QED
    BY <2>3, <2>4, <2>5
<1> QED
  BY Zenon, <1>1, <1>2

\* One element less takes its value away.
LEMMA TotalRemove ==
  ASSUME NEW f, NEW S, IsFiniteSet(S), \A y \in S : f[y] \in Nat, NEW x \in S
  PROVE  /\ Total(f, S \ {x}) \in Nat
         /\ Total(f, S) = Total(f, S \ {x}) + f[x]
<1> DEFINE T == S \ {x}
<1>1. IsFiniteSet(T) /\ x \notin T /\ T \union {x} = S
  BY Zenon, FS_RemoveElement
<1> HIDE DEF T
<1>2. Total(f, T) \in Nat /\ Total(f, T \union {x}) = Total(f, T) + f[x]
  BY Zenon, <1>1, TotalAdd
<1> QED
  BY Zenon, <1>1, <1>2 DEF T

\* The sum depends on the values of the elements only.
LEMMA TotalSame ==
  ASSUME NEW f, NEW g, NEW S, IsFiniteSet(S), \A y \in S : f[y] \in Nat /\ g[y] = f[y]
  PROVE  Total(g, S) = Total(f, S)
<1> DEFINE P == {T \in SUBSET S : Total(g, T) = Total(f, T)}
<1>1. P \in SUBSET SUBSET S
  BY Zenon
<1>2. {} \in P
  BY Zenon, TotalEmpty
<1>3. ASSUME NEW T \in P, NEW x \in S \ T
      PROVE  T \union {x} \in P
  <2>1. IsFiniteSet(T)
    BY Zenon, FS_Subset
  <2>2. Total(f, T \union {x}) = Total(f, T) + f[x]
    BY Zenon, <2>1, TotalAdd
  <2>3. Total(g, T \union {x}) = Total(g, T) + g[x]
    BY <2>1, TotalAdd
  <2> QED
    BY Zenon, <2>2, <2>3
<1>4. \A T \in P : \A x \in S \ T : T \union {x} \in P
  BY Zenon, <1>3
<1> HIDE DEF P
<1>5. S \in P
  BY Zenon, <1>1, <1>2, <1>4, FiniteInduction
<1> QED
  BY Zenon, <1>5 DEF P

\* A factor common to all the values is one of the sum.
LEMMA TotalScaled ==
  ASSUME NEW f, NEW g, NEW S, IsFiniteSet(S), NEW c \in Nat,
         \A y \in S : f[y] \in Nat /\ g[y] = c * f[y]
  PROVE  Total(g, S) = c * Total(f, S)
<1> DEFINE P == {T \in SUBSET S : Total(f, T) \in Nat /\ Total(g, T) = c * Total(f, T)}
<1>1. P \in SUBSET SUBSET S
  BY Zenon
<1>2. {} \in P
  BY TotalEmpty
<1>3. ASSUME NEW T \in P, NEW x \in S \ T
      PROVE  T \union {x} \in P
  <2>1. IsFiniteSet(T)
    BY Zenon, FS_Subset
  <2>2. \A y \in T \union {x} : f[y] \in Nat /\ g[y] \in Nat
    OBVIOUS
  <2>3. Total(f, T \union {x}) = Total(f, T) + f[x] /\ Total(f, T) \in Nat
    BY Zenon, <2>1, <2>2, TotalAdd
  <2>4. Total(g, T \union {x}) = Total(g, T) + g[x]
    BY Zenon, <2>1, <2>2, TotalAdd
  <2>5. Total(g, T) = c * Total(f, T) /\ g[x] = c * f[x] /\ f[x] \in Nat
    BY Zenon
  <2>6. \A a, b \in Nat : c * (a + b) = c * a + c * b
    OBVIOUS
  <2>7. Total(g, T \union {x}) = c * Total(f, T \union {x})
    BY Zenon, <2>3, <2>4, <2>5, <2>6
  <2>8. Total(f, T \union {x}) \in Nat
    BY <2>3, <2>5
  <2> QED
    BY Zenon, <2>7, <2>8
<1>4. \A T \in P : \A x \in S \ T : T \union {x} \in P
  BY Zenon, <1>3
<1> HIDE DEF P
<1>5. S \in P
  BY Zenon, <1>1, <1>2, <1>4, FiniteInduction
<1> QED
  BY Zenon, <1>5 DEF P

\* The sums of disjoint sets add up.
LEMMA TotalUnion ==
  ASSUME NEW f, NEW R, IsFiniteSet(R), NEW S, IsFiniteSet(S), R \intersect S = {},
         \A y \in R \union S : f[y] \in Nat
  PROVE  Total(f, R \union S) = Total(f, R) + Total(f, S)
<1> DEFINE P == {T \in SUBSET S : Total(f, R \union T) = Total(f, R) + Total(f, T)}
<1>1. P \in SUBSET SUBSET S
  BY Zenon
<1>2. {} \in P
  <2>1. Total(f, R) \in Nat /\ R \union {} = R
    BY Zenon, TotalNat
  <2> QED
    BY <2>1, TotalEmpty
<1>3. ASSUME NEW T \in P, NEW x \in S \ T
      PROVE  T \union {x} \in P
  <2>1. IsFiniteSet(T) /\ IsFiniteSet(R \union T)
    BY Zenon, FS_Subset, FS_Union
  <2>2. Total(f, T \union {x}) = Total(f, T) + f[x] /\ Total(f, T) \in Nat
    BY Zenon, <2>1, TotalAdd
  <2> DEFINE V == R \union T
  <2>3. x \notin V /\ (\A y \in V \union {x} : f[y] \in Nat) /\ V \union {x} = R \union (T \union {x})
    BY Zenon
  <2>4. IsFiniteSet(V)
    BY Zenon, <2>1
  <2>5. Total(f, V) = Total(f, R) + Total(f, T)
    BY Zenon
  <2>6. Total(f, R) \in Nat /\ f[x] \in Nat
    BY Zenon, TotalNat
  <2> HIDE DEF V
  <2>7. Total(f, V \union {x}) = Total(f, V) + f[x]
    BY Zenon, <2>3, <2>4, TotalAdd
  <2>8. Total(f, R \union (T \union {x})) = Total(f, R) + Total(f, T \union {x})
    BY <2>2, <2>3, <2>5, <2>6, <2>7
  <2> QED
    BY Zenon, <2>8
<1>4. \A T \in P : \A x \in S \ T : T \union {x} \in P
  BY Zenon, <1>3
<1> HIDE DEF P
<1>5. S \in P
  BY Zenon, <1>1, <1>2, <1>4, FiniteInduction
<1> QED
  BY Zenon, <1>5 DEF P

-----------------------------------------------------------------------------
(* The inductive invariant.                                                *)

\* What a promise may hold: never Broken.
Answers == {Pending, Failed} \union {Ok(v) : v \in AllVersions}

Handler ==
    [ registered : BOOLEAN, refs : SUBSET Replicas, targets : SUBSET Replicas,
      cl_acks : Nat, cl_achieved : BOOLEAN, timedout : BOOLEAN, throttled : BOOLEAN,
      commit_version : {0} \union AllVersions, ready : Answers ]

\* There is no handler: not yet, or not any more.
Absent(h) == h = Gone(h.ready)

\* A handler, also one that is about to be destroyed.  It has answered if its
\* level is achieved and it is not held back.  As long as it is registered the
\* targets that have not answered are enough for the level, so that it can only
\* be removed achieved or timed out.
Sound(h) ==
    /\ h.throttled => h.cl_achieved
    /\ (h.ready # Pending) = (h.cl_achieved /\ ~h.throttled)
    /\ h.ready # Failed
    /\ h.cl_achieved => h.cl_acks >= BlockFor
    /\ h.cl_acks # 0 => h.commit_version \in AllVersions
    /\ h.cl_acks <= Cardinality(Replicas)
    /\ ~h.registered /\ ~h.cl_achieved => h.timedout
    /\ h.registered =>
         /\ h.cl_acks + Cardinality(h.targets) <= Cardinality(Replicas)
         /\ ~h.cl_achieved => h.cl_acks + Cardinality(h.targets) >= BlockFor

\* A local apply that is not over has not been counted either.
Uncounted(h) == h.registered => h.refs \intersect Local \subseteq h.targets

Alive(h) == h.registered \/ h.refs # {}

\* _throttled_writes: without repetition, each with a level achieved and, if
\* still registered, held back; and no registered one that is held back missing.
Queue(hs, q) ==
    /\ q \in Seq(Writes)
    /\ \A i, j \in DOMAIN q : q[i] = q[j] => i = j
    /\ \A i \in DOMAIN q : /\ hs[q[i]].cl_achieved \/ hs[q[i]].ready # Pending
                           /\ hs[q[i]].registered => hs[q[i]].throttled
    /\ \A w \in Writes : hs[w].throttled /\ hs[w].registered =>
         \E i \in DOMAIN q : q[i] = w

\* The acknowledgements a are those the handler has counted up to its answer,
\* from different replicas, and its version is the version of one of them.
Backed(h, a) ==
    /\ a \subseteq Replicas \X AllVersions
    /\ h.ready = Pending =>
         /\ IsFiniteSet(a)
         /\ h.cl_acks = Cardinality(a)
         /\ h.cl_acks # 0 => \E x \in a : x[2] = h.commit_version
         /\ h.registered => \A x \in a : x[1] \notin h.targets
    /\ h.ready.kind = "ok" =>
         /\ Cardinality(a) >= BlockFor
         /\ \E x \in a : x[2] = h.ready.version

\* moon_parallel_for_each_state: what it has collected are answers, and the
\* largest version among them; a batch that was refused has no handlers.
Collected(hs, b, s) ==
    /\ s.todo \subseteq b
    /\ s.ex \in BOOLEAN
    /\ s.max_commit_version \in Nat
    /\ s.result = Pending => s.todo # {}
    /\ s.result # Pending /\ s.todo # {} => \A w \in b : hs[w] = NoHandler
    /\ \A w \in b \ s.todo :
         /\ hs[w].ready # Pending
         /\ ~s.ex => hs[w].ready.kind = "ok"
         /\ hs[w].ready.version <= s.max_commit_version
    /\ \/ s.max_commit_version = 0
       \/ \E w \in b \ s.todo : hs[w].ready.version = s.max_commit_version

BatchState == [ todo : SUBSET Writes, ex : BOOLEAN, max_commit_version : Nat,
                result : Answers ]

Proxy == [ handler : [Writes -> Handler], background_writes : Int,
           background_write_bytes : Int, queued_write_bytes : Int,
           throttled_writes : Seq(Writes) ]

\* The writes that have answered and are not destroyed yet.
Unfinished(p) == {w \in Writes : p.handler[w].cl_achieved /\ ~p.handler[w].throttled}

\* The counters of the background are those of the unfinished writes.
Counted(p) ==
    /\ IsFiniteSet(Unfinished(p))
    /\ p.background_writes = Cardinality(Unfinished(p))
    /\ p.background_write_bytes = Total(Size, Unfinished(p))
    /\ \/ p.background_write_bytes <= BackgroundLimit
       \/ \E w \in Writes : p.background_write_bytes <= BackgroundLimit + Size[w]

\* queued_write_bytes are the bytes of the sends that are not over.
Bytes(hs) == [w \in Writes |-> Cardinality(hs[w].refs \ Local) * Size[w]]
Referenced(hs) == {w \in Writes : hs[w].refs # {}}

Waiting(hs, n) ==
    /\ IsFiniteSet(Referenced(hs))
    /\ n = Total(Bytes(hs), Referenced(hs))

\* What every method of the proxy needs and keeps.
Orderly(p) ==
    /\ p \in Proxy
    /\ \A w \in Writes : Absent(p.handler[w]) \/ Sound(p.handler[w])
    /\ Queue(p.handler, p.throttled_writes)
    /\ Counted(p)

IndInv ==
    /\ Orderly(proxy)
    /\ Waiting(proxy.handler, proxy.queued_write_bytes)
    /\ \A w \in Writes : /\ Absent(proxy.handler[w]) \/ Alive(proxy.handler[w])
                         /\ Uncounted(proxy.handler[w])
    /\ acked \in [Writes -> SUBSET (Replicas \X AllVersions)]
    /\ \A w \in Writes : Backed(proxy.handler[w], acked[w])
    /\ batch \in [Batches -> BatchState]
    /\ \A b \in Batches : Collected(proxy.handler, b, batch[b])

\* A handler before and after the queue was gone through.
Freed(g, h) == h = g \/ (g.throttled /\ g.registered /\ h = Released(g))

-----------------------------------------------------------------------------
(* The methods of the proxy.                                               *)

\* The constants, as the provers need them.
LEMMA ConstantTypes ==
  /\ \A w \in Writes : Versions[w] \subseteq AllVersions
  /\ AllVersions \subseteq Nat
  /\ \A w \in Writes : Size[w] \in Nat /\ Size[w] > 0
  /\ BlockFor \in Nat /\ BlockFor > 0 /\ BlockFor <= Cardinality(Replicas)
  /\ Cardinality(Replicas) \in Nat
<1>1. Cardinality(Replicas) \in Nat
  BY Zenon, WriteResponseAssumption, FS_CardinalityType
<1> QED
  BY <1>1, WriteResponseAssumption DEF AllVersions

\* The answers a promise may hold are told apart by their kind.
LEMMA AnswerKinds ==
  /\ Pending \in Answers /\ Failed \in Answers
  /\ Pending # Failed /\ Pending.kind = "pending" /\ Failed.kind = "failed"
  /\ \A v : Ok(v) # Pending /\ Ok(v) # Failed /\ Ok(v).kind = "ok" /\ Ok(v).version = v
  /\ \A v \in AllVersions : Ok(v) \in Answers
  /\ Broken \notin Answers
  /\ \A a \in Answers : a = Pending \/ a = Failed \/ \E v \in AllVersions : a = Ok(v)
  /\ \A a \in Answers : a.version \in Nat
<1>1. /\ Pending \in Answers /\ Failed \in Answers
      /\ Pending # Failed /\ Pending.kind = "pending" /\ Failed.kind = "failed"
  BY Zenon DEF Answers, Pending, Failed
<1>2. \A v : Ok(v) # Pending /\ Ok(v) # Failed /\ Ok(v).kind = "ok" /\ Ok(v).version = v
  BY Zenon DEF Pending, Failed, Ok
<1>3. /\ \A v \in AllVersions : Ok(v) \in Answers
      /\ \A a \in Answers : a = Pending \/ a = Failed \/ \E v \in AllVersions : a = Ok(v)
  BY Zenon DEF Answers
<1>4. Broken \notin Answers
  BY Zenon DEF Answers, Pending, Failed, Ok, Broken
<1>5. \A a \in Answers : a.version \in Nat
  BY ConstantTypes, <1>2, <1>3 DEF Pending, Failed
<1> QED
  BY Zenon, <1>1, <1>2, <1>3, <1>4, <1>5

\* Gone(a) is a handler record of which only the answer is left.
LEMMA GoneFields ==
  ASSUME NEW a \in Answers
  PROVE  LET g == Gone(a)
         IN  /\ g \in Handler
             /\ g.ready = a /\ ~g.registered /\ g.refs = {} /\ g.targets = {}
             /\ ~g.cl_achieved /\ ~g.throttled /\ g.cl_acks = 0
             /\ Absent(g)
             /\ Gone(g.ready) = g
BY Zenon, AnswerKinds DEF Gone, NoHandler, Handler, Absent

\* A handler that is released has answered with the last version it was told.
LEMMA ReleasedFields ==
  ASSUME NEW h \in Handler, h.commit_version \in AllVersions
  PROVE  LET r == Released(h)
         IN  /\ r \in Handler
             /\ r.registered = h.registered /\ r.refs = h.refs /\ r.targets = h.targets
             /\ r.cl_achieved = h.cl_achieved /\ ~r.throttled /\ r.cl_acks = h.cl_acks
             /\ r.timedout = h.timedout
             /\ r.commit_version = h.commit_version
             /\ r.ready = Ok(h.commit_version) /\ r.ready \in Answers
<1>1. Ok(h.commit_version) \in Answers
  BY Zenon, AnswerKinds
<1> QED
  BY Zenon, <1>1 DEF Released, Handler

\* It is as good as before, and there is still a handler.
LEMMA ReleasedSound ==
  ASSUME NEW h \in Handler, Sound(h), h.cl_achieved
  PROVE  /\ h.commit_version \in AllVersions
         /\ Sound(Released(h))
         /\ ~Absent(Released(h))
<1>1. h.commit_version \in AllVersions
  BY ConstantTypes DEF Sound, Handler
<1> DEFINE r == Released(h)
<1>2. /\ r \in Handler
      /\ r.registered = h.registered /\ r.refs = h.refs /\ r.targets = h.targets
      /\ r.cl_achieved /\ ~r.throttled /\ r.cl_acks = h.cl_acks
      /\ r.timedout = h.timedout
      /\ r.commit_version = h.commit_version
      /\ r.ready = Ok(h.commit_version) /\ r.ready \in Answers
  BY Zenon, <1>1, ReleasedFields
<1> HIDE DEF r
<1>3. ~Absent(r)
  <2>1. ~Gone(r.ready).cl_achieved
    BY Zenon, <1>2, GoneFields
  <2> QED
    BY Zenon, <1>2, <2>1 DEF Absent
<1>4. Sound(r)
  BY Zenon, <1>1, <1>2, AnswerKinds DEF Sound
<1> QED
  BY Zenon, <1>1, <1>3, <1>4 DEF r

\* One handler is replaced.
LEMMA WithFields ==
  ASSUME NEW p \in Proxy, NEW w \in Writes, NEW h \in Handler
  PROVE  LET t == With(p, w, h)
         IN  /\ t \in Proxy
             /\ t.handler = [p.handler EXCEPT ![w] = h]
             /\ t.handler[w] = h
             /\ t.throttled_writes = p.throttled_writes
             /\ t.queued_write_bytes = p.queued_write_bytes
             /\ t.background_writes = p.background_writes
             /\ t.background_write_bytes = p.background_write_bytes
<1> DEFINE hs == [p.handler EXCEPT ![w] = h]
<1>1. /\ hs \in [Writes -> Handler] /\ hs[w] = h
  BY Zenon DEF Proxy
<1>2. With(p, w, h) = [p EXCEPT !.handler = hs]
  BY Zenon DEF With, Proxy
<1> HIDE DEF hs
<1>3. LET t == [p EXCEPT !.handler = hs]
      IN  /\ t \in Proxy
          /\ t.handler = hs
          /\ t.throttled_writes = p.throttled_writes
          /\ t.queued_write_bytes = p.queued_write_bytes
          /\ t.background_writes = p.background_writes
          /\ t.background_write_bytes = p.background_write_bytes
  BY Zenon, <1>1 DEF Proxy
<1> QED
  BY Zenon, <1>1, <1>2, <1>3 DEF hs

\* The other handlers stay.
LEMMA WithOthers ==
  ASSUME NEW p \in Proxy, NEW w \in Writes, NEW h, NEW x \in Writes, x # w
  PROVE  With(p, w, h).handler[x] = p.handler[x]
BY Zenon DEF With, Proxy

SetCounters(p, n, m) == [p EXCEPT !.background_writes = n, !.background_write_bytes = m]

\* The counters of the background are set.
LEMMA CountersFields ==
  ASSUME NEW p \in Proxy, NEW n \in Int, NEW m \in Int
  PROVE  LET t == SetCounters(p, n, m)
         IN  /\ t \in Proxy
             /\ t.handler = p.handler
             /\ t.throttled_writes = p.throttled_writes
             /\ t.queued_write_bytes = p.queued_write_bytes
             /\ t.background_writes = n
             /\ t.background_write_bytes = m
<1> DEFINE q == [p EXCEPT !.background_writes = n]
<1>1. /\ q \in Proxy
      /\ q.handler = p.handler
      /\ q.throttled_writes = p.throttled_writes
      /\ q.queued_write_bytes = p.queued_write_bytes
      /\ q.background_writes = n
  BY Zenon DEF Proxy
<1> HIDE DEF q
<1>2. LET t == [q EXCEPT !.background_write_bytes = m]
      IN  /\ t \in Proxy
          /\ t.handler = p.handler
          /\ t.throttled_writes = p.throttled_writes
          /\ t.queued_write_bytes = p.queued_write_bytes
          /\ t.background_writes = n
          /\ t.background_write_bytes = m
  BY Zenon, <1>1 DEF Proxy
<1> QED
  BY Zenon, <1>2 DEF q, SetCounters

SetQueue(p, q) == [p EXCEPT !.throttled_writes = q]

\* The queue of writes held back is set.
LEMMA QueueFields ==
  ASSUME NEW p \in Proxy, NEW q \in Seq(Writes)
  PROVE  LET t == SetQueue(p, q)
         IN  /\ t \in Proxy
             /\ t.handler = p.handler
             /\ t.throttled_writes = q
             /\ t.queued_write_bytes = p.queued_write_bytes
             /\ t.background_writes = p.background_writes
             /\ t.background_write_bytes = p.background_write_bytes
BY Zenon DEF Proxy, SetQueue

\* What unthrottle() does to the proxy, field by field.
LEMMA ReleaseFields ==
  ASSUME NEW p \in Proxy, NEW w \in Writes, p.handler[w].commit_version \in AllVersions
  PROVE  LET t == Release(p, w)
         IN  /\ t \in Proxy
             /\ t.handler = [p.handler EXCEPT ![w] = Released(p.handler[w])]
             /\ t.throttled_writes = p.throttled_writes
             /\ t.queued_write_bytes = p.queued_write_bytes
             /\ t.background_writes = p.background_writes + 1
             /\ t.background_write_bytes = p.background_write_bytes + Size[w]
<1> DEFINE n == p.background_writes + 1
           m == p.background_write_bytes + Size[w]
           c == SetCounters(p, n, m)
<1>1. Released(p.handler[w]) \in Handler
  BY Zenon, ReleasedFields DEF Proxy
<1>2. n \in Int /\ m \in Int
  BY ConstantTypes DEF Proxy
<1>3. Release(p, w) = With(c, w, Released(p.handler[w]))
  BY Zenon DEF Release, With, SetCounters
<1> HIDE DEF n, m
<1>4. /\ c \in Proxy
      /\ c.handler = p.handler
      /\ c.throttled_writes = p.throttled_writes
      /\ c.queued_write_bytes = p.queued_write_bytes
      /\ c.background_writes = n
      /\ c.background_write_bytes = m
  BY Zenon, <1>2, CountersFields
<1> HIDE DEF c
<1> QED
  BY <1>1, <1>3, <1>4, WithFields DEF n, m

\* A write that has answered is counted: below the limit, one more exceeds it by
\* one write at most.
LEMMA CountUp ==
  ASSUME NEW p, NEW t, Counted(p), NEW w \in Writes, w \notin Unfinished(p),
         Unfinished(t) = Unfinished(p) \union {w},
         t.background_writes = p.background_writes + 1,
         t.background_write_bytes = p.background_write_bytes + Size[w],
         p.background_write_bytes <= BackgroundLimit
  PROVE  Counted(t)
<1> DEFINE S == Unfinished(p)
<1>1. IsFiniteSet(S) /\ S \subseteq Writes
  BY Zenon DEF Counted, Unfinished
<1>2. \A x \in S \union {w} : Size[x] \in Nat
  BY Zenon, <1>1, ConstantTypes
<1>3. w \notin S
  BY Zenon
<1> HIDE DEF S
<1>4. /\ IsFiniteSet(S \union {w})
      /\ Cardinality(S \union {w}) = Cardinality(S) + 1
  BY Zenon, <1>1, <1>3, FS_AddElement
<1>5. Total(Size, S \union {w}) = Total(Size, S) + Size[w] /\ Total(Size, S) \in Nat
  BY Zenon, <1>1, <1>2, <1>3, TotalAdd
<1>6. t.background_write_bytes <= BackgroundLimit + Size[w]
  <2>1. p.background_write_bytes \in Nat
    BY Zenon, <1>5 DEF Counted, S
  <2> QED
    BY <1>2, <2>1, WriteResponseAssumption
<1> QED
  BY Zenon, <1>4, <1>5, <1>6 DEF Counted, S

\* A write that is destroyed is taken off the counters.
LEMMA CountDown ==
  ASSUME NEW p, NEW t, Counted(p), NEW w \in Unfinished(p),
         Unfinished(t) = Unfinished(p) \ {w},
         t.background_writes = p.background_writes - 1,
         t.background_write_bytes = p.background_write_bytes - Size[w]
  PROVE  Counted(t)
<1> DEFINE S == Unfinished(p)
<1>1. IsFiniteSet(S) /\ S \subseteq Writes /\ w \in S
  BY Zenon DEF Counted, Unfinished
<1>2. \A x \in S : Size[x] \in Nat
  BY Zenon, <1>1, ConstantTypes
<1> HIDE DEF S
<1>3. /\ IsFiniteSet(S \ {w}) /\ Cardinality(S) \in Nat
      /\ Cardinality(S \ {w}) = Cardinality(S) - 1
  BY Zenon, <1>1, FS_RemoveElement, FS_CardinalityType
<1>4. Total(Size, S) = Total(Size, S \ {w}) + Size[w] /\ Total(Size, S \ {w}) \in Nat
  BY Zenon, <1>1, <1>2, TotalRemove
<1>5. Size[w] \in Nat
  BY Zenon, <1>1, <1>2
<1>6. t.background_write_bytes = Total(Size, S \ {w})
  BY <1>4, <1>5 DEF Counted, S
<1>7. \/ t.background_write_bytes <= BackgroundLimit
      \/ \E x \in Writes : t.background_write_bytes <= BackgroundLimit + Size[x]
  <2>1. p.background_write_bytes = t.background_write_bytes + Size[w]
    BY Zenon, <1>4, <1>6 DEF Counted, S
  <2>2. t.background_write_bytes \in Nat
    BY Zenon, <1>4, <1>6
  <2>3. /\ t.background_write_bytes <= p.background_write_bytes
        /\ p.background_write_bytes \in Nat
    BY <1>5, <2>1, <2>2
  <2>4. \A x \in Writes : BackgroundLimit + Size[x] \in Nat
    BY ConstantTypes, WriteResponseAssumption
  <2> QED
    BY <2>2, <2>3, <2>4, WriteResponseAssumption DEF Counted
<1> QED
  BY Zenon, <1>3, <1>6, <1>7 DEF Counted, S

\* The first in the queue is taken out of it.
LEMMA QueueTail ==
  ASSUME NEW hs, NEW q, Queue(hs, q), q # <<>>, NEW gs,
         \A x \in Writes : x # q[1] => gs[x] = hs[x],
         ~(gs[q[1]].throttled /\ gs[q[1]].registered)
  PROVE  Queue(gs, Tail(q))
<1>1. /\ q \in Seq(Writes) /\ Tail(q) \in Seq(Writes)
      /\ Len(q) \in Nat /\ Len(q) > 0 /\ Len(Tail(q)) = Len(q) - 1
      /\ DOMAIN q = 1 .. Len(q) /\ DOMAIN Tail(q) = 1 .. Len(q) - 1
      /\ \A i \in 1 .. Len(q) - 1 : Tail(q)[i] = q[i + 1]
  BY DEF Queue
<1>2. ASSUME NEW i \in DOMAIN Tail(q)
      PROVE  /\ i + 1 \in DOMAIN q /\ q[i + 1] # q[1] /\ q[i + 1] \in Writes
             /\ Tail(q)[i] = q[i + 1]
             /\ gs[Tail(q)[i]] = hs[q[i + 1]]
  BY <1>1 DEF Queue
<1>3. ASSUME NEW i \in DOMAIN Tail(q), NEW j \in DOMAIN Tail(q), Tail(q)[i] = Tail(q)[j]
      PROVE  i = j
  <2>1. i + 1 = j + 1
    BY <1>2, <1>3 DEF Queue
  <2> QED
    BY <1>1, <2>1
<1>4. ASSUME NEW w \in Writes, gs[w].throttled, gs[w].registered
      PROVE  \E i \in DOMAIN Tail(q) : Tail(q)[i] = w
  <2>1. w # q[1]
    BY Zenon, <1>4
  <2>2. PICK i \in DOMAIN q : q[i] = w
    BY Zenon, <1>4, <2>1 DEF Queue
  <2>3. i - 1 \in DOMAIN Tail(q) /\ Tail(q)[i - 1] = w
    BY <1>1, <2>1, <2>2
  <2> QED
    BY Zenon, <2>3
<1>5. \A i \in DOMAIN Tail(q) :
        /\ gs[Tail(q)[i]].cl_achieved \/ gs[Tail(q)[i]].ready # Pending
        /\ gs[Tail(q)[i]].registered => gs[Tail(q)[i]].throttled
  BY <1>2 DEF Queue
<1> QED
  BY Zenon, <1>1, <1>3, <1>4, <1>5 DEF Queue

\* One turn of unthrottle()'s loop: a write that is held back is released, one
\* whose handler was removed is skipped.
LEMMA PopOrderly ==
  ASSUME NEW p, Orderly(p), p.throttled_writes # <<>>, ~need_throttle_writes(p),
         NEW w, w = p.throttled_writes[1]
  PROVE  LET t == Pop(p, w)
         IN  /\ Orderly(t)
             /\ \A x \in Writes : Freed(p.handler[x], t.handler[x])
             /\ t.throttled_writes = Tail(p.throttled_writes)
             /\ t.queued_write_bytes = p.queued_write_bytes
<1> DEFINE q == p.throttled_writes
           r == SetQueue(p, Tail(q))
           t == Pop(p, w)
<1>1. /\ p \in Proxy /\ Queue(p.handler, q) /\ Counted(p)
      /\ q \in Seq(Writes) /\ Tail(q) \in Seq(Writes) /\ 1 \in DOMAIN q /\ w \in Writes
  BY DEF Orderly, Queue
<1>2. /\ r \in Proxy /\ r.handler = p.handler /\ r.throttled_writes = Tail(q)
      /\ r.queued_write_bytes = p.queued_write_bytes
      /\ r.background_writes = p.background_writes
      /\ r.background_write_bytes = p.background_write_bytes
  <2> HIDE DEF q
  <2> QED
    BY Zenon, <1>1, QueueFields
<1>3. t = IF p.handler[w].registered THEN Release(r, w) ELSE r
  BY Zenon DEF Pop, SetQueue
<1> HIDE DEF q, r, t
<1>4. CASE p.handler[w].registered
  <2> DEFINE h == p.handler[w]
  <2>1. /\ h \in Handler /\ h.throttled /\ h.registered
    BY Zenon, <1>1, <1>4 DEF Queue, Proxy, q
  <2>2. Sound(h) /\ h.cl_achieved
    <3>1. ~Absent(h)
      BY Zenon, <1>4 DEF Absent, Gone, NoHandler
    <3>2. Sound(h)
      BY Zenon, <1>1, <3>1 DEF Orderly
    <3> QED
      BY Zenon, <2>1, <3>2 DEF Sound
  <2>3. /\ t \in Proxy
        /\ t.handler = [p.handler EXCEPT ![w] = Released(h)]
        /\ t.throttled_writes = Tail(q)
        /\ t.queued_write_bytes = p.queued_write_bytes
        /\ t.background_writes = p.background_writes + 1
        /\ t.background_write_bytes = p.background_write_bytes + Size[w]
    <3>1. h.commit_version \in AllVersions
      BY Zenon, <2>1, <2>2, ReleasedSound
    <3>2. t = Release(r, w)
      BY Zenon, <1>3, <1>4
    <3>3. r.handler[w].commit_version \in AllVersions
      BY Zenon, <1>2, <3>1
    <3>4. LET u == Release(r, w)
          IN  /\ u \in Proxy
              /\ u.handler = [r.handler EXCEPT ![w] = Released(r.handler[w])]
              /\ u.throttled_writes = r.throttled_writes
              /\ u.queued_write_bytes = r.queued_write_bytes
              /\ u.background_writes = r.background_writes + 1
              /\ u.background_write_bytes = r.background_write_bytes + Size[w]
      BY Zenon, <1>1, <1>2, <3>3, ReleaseFields
    <3> QED
      BY Zenon, <1>2, <3>2, <3>4
  <2>4. /\ t.handler[w] = Released(h)
        /\ \A x \in Writes : x # w => t.handler[x] = p.handler[x]
    BY Zenon, <1>1, <2>3 DEF Proxy
  <2>5. /\ Sound(Released(h)) /\ ~Released(h).throttled /\ Released(h).cl_achieved
        /\ Released(h).registered
    BY Zenon, <2>1, <2>2, ReleasedFields, ReleasedSound
  <2>6. Queue(t.handler, Tail(q))
    BY Zenon, <1>1, <2>4, <2>5, QueueTail DEF q
  <2>7. Counted(t)
    <3>1. w \notin Unfinished(p)
      BY Zenon, <2>1 DEF Unfinished
    <3>2. Unfinished(t) = Unfinished(p) \union {w}
      BY Zenon, <1>1, <2>4, <2>5 DEF Unfinished
    <3>3. p.background_write_bytes <= BackgroundLimit
      BY <1>1, WriteResponseAssumption DEF need_throttle_writes, Proxy
    <3> QED
      BY Zenon, <1>1, <2>3, <3>1, <3>2, <3>3, CountUp
  <2>8. \A x \in Writes : Absent(t.handler[x]) \/ Sound(t.handler[x])
    BY Zenon, <2>4, <2>5 DEF Orderly
  <2>9. \A x \in Writes : Freed(p.handler[x], t.handler[x])
    BY Zenon, <2>1, <2>4 DEF Freed
  <2> QED
    BY Zenon, <2>3, <2>6, <2>7, <2>8, <2>9 DEF Orderly, t, q
<1>5. CASE ~p.handler[w].registered
  <2>1. t = r
    BY Zenon, <1>3, <1>5
  <2>2. Queue(t.handler, Tail(q))
    BY Zenon, <1>1, <1>2, <1>5, <2>1, QueueTail DEF q
  <2>3. Counted(t)
    BY Zenon, <1>1, <1>2, <2>1 DEF Counted, Unfinished
  <2> QED
    BY Zenon, <1>2, <2>1, <2>2, <2>3 DEF Orderly, Freed, t, q
<1> QED
  BY Zenon, <1>4, <1>5

\* unthrottle() gone through the first N writes of the queue.
Turns(f, p, q, N) == f = [n \in 0 .. N |-> IF n = 0 THEN p ELSE Pop(f[n - 1], q[n])]

\* The recursive function of unthrottle()'s definition exists.
LEMMA TurnsExist ==
  ASSUME NEW p, NEW q, NEW N \in Nat
  PROVE  \E f : Turns(f, p, q, N)
<1> DEFINE Is(f, k) == f = [n \in 0 .. k |-> IF n = 0 THEN p ELSE Pop(f[n - 1], q[n])]
           Bad == {k \in Nat : ~\E f : Is(f, k)}
<1>1. 0 \notin Bad
  <2> DEFINE f == [n \in 0 .. 0 |-> p]
  <2>1. Is(f, 0)
    OBVIOUS
  <2> QED
    BY Zenon, <2>1
<1>2. ASSUME NEW k \in Nat, k \notin Bad
      PROVE  k + 1 \notin Bad
  <2>1. PICK f : Is(f, k)
    BY Zenon, <1>2
  <2> DEFINE g == [n \in 0 .. k + 1 |-> IF n = 0 THEN p ELSE Pop(f[n - 1], q[n])]
  <2>2. \A n \in 0 .. k : g[n] = f[n]
    BY <2>1
  <2>3. \A n \in 0 .. k + 1 : n # 0 => n - 1 \in 0 .. k
    OBVIOUS
  <2>4. Is(g, k + 1)
    BY Zenon, <2>2, <2>3
  <2> QED
    BY Zenon, <2>4
<1>3. Bad = {}
  <2> SUFFICES ASSUME Bad # {}
               PROVE  FALSE
    BY Zenon
  <2>1. Bad \subseteq Nat
    BY Zenon
  <2> HIDE DEF Bad
  <2>2. PICK m \in Bad : \A y \in Bad : m <= y
    BY Zenon, <2>1, SmallestExists
  <2>3. m - 1 \in Nat /\ m - 1 \notin Bad /\ m = (m - 1) + 1
    BY <1>1, <2>1, <2>2
  <2> QED
    BY Zenon, <1>2, <2>2, <2>3
<1> QED
  BY Zenon, <1>3 DEF Turns

\* A handler is released at most once.
LEMMA FreedTwice ==
  ASSUME NEW g \in Handler, NEW h, NEW i, Freed(g, h), Freed(h, i)
  PROVE  Freed(g, i)
<1>1. CASE h = g
  BY Zenon, <1>1
<1>2. CASE h # g
  <2>1. h = Released(g)
    BY Zenon, <1>2 DEF Freed
  <2>2. ~h.throttled
    BY Zenon, <2>1 DEF Released, Handler
  <2>3. i = h
    BY Zenon, <2>2 DEF Freed
  <2> QED
    BY Zenon, <2>3
<1> QED
  BY Zenon, <1>1, <1>2

\* storage_proxy::unthrottle keeps the proxy in order and does nothing to a
\* handler but release it.
LEMMA UnthrottleOrderly ==
  ASSUME NEW p, Orderly(p)
  PROVE  LET t == Unthrottle(p)
         IN  /\ Orderly(t)
             /\ \A x \in Writes : Freed(p.handler[x], t.handler[x])
             /\ t.queued_write_bytes = p.queued_write_bytes
<1> DEFINE q == p.throttled_writes
           N == Len(q)
           turn == CHOOSE f : f = [n \in 0 .. N |-> IF n = 0 THEN p ELSE Pop(f[n - 1], q[n])]
<1>1. q \in Seq(Writes) /\ N \in Nat /\ DOMAIN q = 1 .. N
  BY DEF Orderly, Queue
<1>2. Unthrottle(p) = turn[N]
  BY Zenon DEF Unthrottle
<1>3. turn = [n \in 0 .. N |-> IF n = 0 THEN p ELSE Pop(turn[n - 1], q[n])]
  <2>1. \E f : Turns(f, p, q, N)
    <3> HIDE DEF N, q
    <3> QED
      BY Zenon, <1>1, TurnsExist
  <2>2. turn = CHOOSE f : Turns(f, p, q, N)
    BY Zenon DEF Turns
  <2> HIDE DEF turn
  <2>3. Turns(turn, p, q, N)
    BY Zenon, <2>1, <2>2
  <2> QED
    BY Zenon, <2>3 DEF Turns
<1> HIDE DEF turn
<1> DEFINE In(n) ==
      /\ Orderly(turn[n])
      /\ \A x \in Writes : Freed(p.handler[x], turn[n].handler[x])
      /\ turn[n].queued_write_bytes = p.queued_write_bytes
      /\ \/ need_throttle_writes(turn[n])
         \/ /\ Len(turn[n].throttled_writes) = N - n
            /\ \A i \in 1 .. N - n : turn[n].throttled_writes[i] = q[n + i]
<1>4. In(0)
  <2>1. turn[0] = p
    BY <1>1, <1>3
  <2> QED
    BY <1>1, <2>1 DEF Freed
<1>5. ASSUME NEW n \in 0 .. N - 1, In(n)
      PROVE  In(n + 1)
  <2> DEFINE s == turn[n]
             t == turn[n + 1]
  <2>1. t = Pop(s, q[n + 1])
    BY <1>1, <1>3
  <2>2. CASE need_throttle_writes(s)
    <3>1. t = s
      BY Zenon, <2>1, <2>2 DEF Pop
    <3> HIDE DEF s, t
    <3>2. In(n + 1)
      BY Zenon, <1>5, <2>2, <3>1 DEF s, t
    <3> QED
      BY Zenon, <3>2
  <2>3. CASE ~need_throttle_writes(s)
    <3> HIDE DEF N, q
    <3>1. /\ Len(s.throttled_writes) = N - n /\ N - n > 0
          /\ \A i \in 1 .. N - n : s.throttled_writes[i] = q[n + i]
      BY <1>1, <1>5, <2>3
    <3>2. Orderly(s) /\ s.throttled_writes \in Seq(Writes)
      BY Zenon, <1>5 DEF Orderly, Queue
    <3>3. s.throttled_writes # <<>> /\ q[n + 1] = s.throttled_writes[1]
      BY <1>1, <3>1, <3>2
    <3>4. /\ Orderly(t)
          /\ \A x \in Writes : Freed(s.handler[x], t.handler[x])
          /\ t.throttled_writes = Tail(s.throttled_writes)
          /\ t.queued_write_bytes = s.queued_write_bytes
      <4> HIDE DEF s, t
      <4> QED
        BY Zenon, <2>1, <2>3, <3>2, <3>3, PopOrderly
    <3>5. \A x \in Writes : Freed(p.handler[x], t.handler[x])
      <4>1. \A x \in Writes : p.handler[x] \in Handler
        BY Zenon DEF Orderly, Proxy
      <4> QED
        BY <1>5, <3>4, <4>1, FreedTwice
    <3>6. /\ Len(t.throttled_writes) = N - (n + 1)
          /\ \A i \in 1 .. N - (n + 1) : t.throttled_writes[i] = q[(n + 1) + i]
      BY <1>1, <3>1, <3>2, <3>3, <3>4
    <3> QED
      BY Zenon, <1>5, <3>4, <3>5, <3>6
  <2> QED
    BY Zenon, <2>2, <2>3
<1> DEFINE Bad == {n \in 0 .. N : ~In(n)}
<1>6. Bad = {}
  <2> SUFFICES ASSUME Bad # {}
               PROVE  FALSE
    BY Zenon
  <2> HIDE DEF In, N
  <2>1. Bad \subseteq Nat
    BY <1>1
  <2>2. PICK m \in Bad : \A y \in Bad : m <= y
    <3> HIDE DEF Bad
    <3> QED
      BY Zenon, <2>1, SmallestExists
  <2>3. m - 1 \in 0 .. N - 1 /\ m = (m - 1) + 1
    BY <1>1, <1>4, <2>1, <2>2
  <2>4. In(m - 1)
    BY <1>1, <2>2, <2>3
  <2> QED
    BY Zenon, <1>5, <2>2, <2>3, <2>4
<1>7. In(N)
  <2> HIDE DEF In, N
  <2> QED
    BY <1>1, <1>6
<1> QED
  BY Zenon, <1>2, <1>7

\* What got_response() does to the handler, and what signal() does to the proxy:
\* nothing more, or the answer is held back, or it is given.
Responded(p, t, w, from, v) ==
    LET h == p.handler[w]
        g == t.handler[w]
    IN  /\ t \in Proxy
        /\ t.handler = [p.handler EXCEPT ![w] = g]
        /\ t.queued_write_bytes = p.queued_write_bytes
        /\ g \in Handler
        /\ g.refs = h.refs /\ g.targets = h.targets \ {from}
        /\ g.registered = (h.targets # {from})
        /\ g.cl_acks = h.cl_acks + 1 /\ g.commit_version = v
        /\ g.timedout = h.timedout
        /\ \/ /\ h.cl_achieved \/ h.cl_acks + 1 < BlockFor
              /\ g.cl_achieved = h.cl_achieved
              /\ g.throttled = h.throttled /\ g.ready = h.ready
              /\ t.throttled_writes = p.throttled_writes
              /\ t.background_writes = p.background_writes
              /\ t.background_write_bytes = p.background_write_bytes
           \/ /\ ~h.cl_achieved /\ h.cl_acks + 1 >= BlockFor
              /\ g.cl_achieved
              /\ g.throttled /\ g.ready = h.ready
              /\ t.throttled_writes = Append(p.throttled_writes, w)
              /\ t.background_writes = p.background_writes
              /\ t.background_write_bytes = p.background_write_bytes
           \/ /\ ~h.cl_achieved /\ h.cl_acks + 1 >= BlockFor
              /\ ~need_throttle_writes(p)
              /\ g.cl_achieved
              /\ ~g.throttled /\ g.ready = Ok(v)
              /\ t.throttled_writes = p.throttled_writes
              /\ t.background_writes = p.background_writes + 1
              /\ t.background_write_bytes = p.background_write_bytes + Size[w]

\* got_response() does that and nothing else.
LEMMA GotResponseFields ==
  ASSUME NEW p \in Proxy, NEW w \in Writes, NEW from, NEW v \in AllVersions
  PROVE  Responded(p, GotResponse(p, w, from, v), w, from, v)
<1> USE DEF Responded
<1> DEFINE h == p.handler[w]
           h1 == [h EXCEPT !.commit_version = v]
           n == h.cl_acks + 1
           h2 == [h1 EXCEPT !.cl_acks = n]
           p1 == With(p, w, h1)
           q == Signal(p1, w)
           k == q.handler[w]
           g == [k EXCEPT !.targets = @ \ {from}, !.registered = (h.targets # {from})]
           t == GotResponse(p, w, from, v)
<1>1. h \in Handler
  BY Zenon DEF Proxy
<1>2. /\ h1 \in Handler /\ h1.refs = h.refs /\ h1.targets = h.targets
      /\ h1.registered = h.registered /\ h1.cl_acks = h.cl_acks /\ h1.commit_version = v
      /\ h1.timedout = h.timedout /\ h1.cl_achieved = h.cl_achieved
      /\ h1.throttled = h.throttled /\ h1.ready = h.ready
  <2> HIDE DEF h
  <2> QED
    BY Zenon, <1>1 DEF Handler
<1>3. n \in Nat
  BY <1>1 DEF Handler
<1>4. t = With(q, w, g)
  BY Zenon DEF GotResponse
<1>5. /\ p1 \in Proxy /\ p1.handler = [p.handler EXCEPT ![w] = h1] /\ p1.handler[w] = h1
      /\ p1.throttled_writes = p.throttled_writes
      /\ p1.queued_write_bytes = p.queued_write_bytes
      /\ p1.background_writes = p.background_writes
      /\ p1.background_write_bytes = p.background_write_bytes
  <2> HIDE DEF h1
  <2> QED
    BY <1>2, WithFields
<1>6. need_throttle_writes(p1) = need_throttle_writes(p)
  BY Zenon, <1>5 DEF need_throttle_writes
<1>7. q = IF h2.cl_achieved \/ h2.cl_acks < BlockFor THEN With(p1, w, h2)
          ELSE IF need_throttle_writes(p1)
          THEN SetQueue(With(p1, w, [h2 EXCEPT !.cl_achieved = TRUE, !.throttled = TRUE]),
                        Append(p.throttled_writes, w))
          ELSE Release(With(p1, w, [h2 EXCEPT !.cl_achieved = TRUE]), w)
  <2>1. h2 = [p1.handler[w] EXCEPT !.cl_acks = @ + 1]
    BY Zenon, <1>2, <1>5
  <2> DEFINE a == With(p1, w, [h2 EXCEPT !.cl_achieved = TRUE, !.throttled = TRUE])
  <2>2. a.throttled_writes = p.throttled_writes
    <3> HIDE DEF h2, p1
    <3> QED
      BY Zenon, <1>5 DEF With, Proxy
  <2> HIDE DEF h2, p1, h1
  <2> QED
    BY Zenon, <2>1, <2>2 DEF Signal, SetQueue
<1>8. /\ h2 \in Handler /\ h2.refs = h.refs /\ h2.targets = h.targets
      /\ h2.registered = h.registered /\ h2.cl_acks = n /\ h2.commit_version = v
      /\ h2.timedout = h.timedout /\ h2.cl_achieved = h.cl_achieved
      /\ h2.throttled = h.throttled /\ h2.ready = h.ready
  <2> HIDE DEF h, h1, n
  <2> QED
    BY Zenon, <1>2, <1>3 DEF Handler
<1> HIDE DEF h2, p1, h1, n, q, h
<1>9. ASSUME NEW x \in Handler
      PROVE  LET u == With(p1, w, x)
             IN  /\ u \in Proxy /\ u.handler = [p.handler EXCEPT ![w] = x] /\ u.handler[w] = x
                 /\ u.throttled_writes = p.throttled_writes
                 /\ u.queued_write_bytes = p.queued_write_bytes
                 /\ u.background_writes = p.background_writes
                 /\ u.background_write_bytes = p.background_write_bytes
  <2> DEFINE u == With(p1, w, x)
  <2>1. p1 \in Proxy
    BY Zenon, <1>5
  <2>2. /\ u \in Proxy /\ u.handler = [p1.handler EXCEPT ![w] = x] /\ u.handler[w] = x
        /\ u.throttled_writes = p1.throttled_writes
        /\ u.queued_write_bytes = p1.queued_write_bytes
        /\ u.background_writes = p1.background_writes
        /\ u.background_write_bytes = p1.background_write_bytes
    BY <2>1, WithFields
  <2> HIDE DEF u
  <2>3. u.handler = [p.handler EXCEPT ![w] = x]
    BY Zenon, <1>5, <2>2 DEF Proxy
  <2> QED
    BY Zenon, <1>5, <2>2, <2>3 DEF u
<1>10. SUFFICES /\ q \in Proxy
                /\ q.handler = [p.handler EXCEPT ![w] = k]
                /\ q.queued_write_bytes = p.queued_write_bytes
                /\ k.refs = h.refs /\ k.targets = h.targets
                /\ k.cl_acks = h.cl_acks + 1 /\ k.commit_version = v
                /\ k.timedout = h.timedout
                /\ \/ /\ h.cl_achieved \/ h.cl_acks + 1 < BlockFor
                      /\ k.cl_achieved = h.cl_achieved
                      /\ k.throttled = h.throttled /\ k.ready = h.ready
                      /\ q.throttled_writes = p.throttled_writes
                      /\ q.background_writes = p.background_writes
                      /\ q.background_write_bytes = p.background_write_bytes
                   \/ /\ ~h.cl_achieved /\ h.cl_acks + 1 >= BlockFor
                      /\ k.cl_achieved
                      /\ k.throttled /\ k.ready = h.ready
                      /\ q.throttled_writes = Append(p.throttled_writes, w)
                      /\ q.background_writes = p.background_writes
                      /\ q.background_write_bytes = p.background_write_bytes
                   \/ /\ ~h.cl_achieved /\ h.cl_acks + 1 >= BlockFor
                      /\ ~need_throttle_writes(p)
                      /\ k.cl_achieved
                      /\ ~k.throttled /\ k.ready = Ok(v)
                      /\ q.throttled_writes = p.throttled_writes
                      /\ q.background_writes = p.background_writes + 1
                      /\ q.background_write_bytes = p.background_write_bytes + Size[w]
  <2>1. k \in Handler
    BY Zenon, <1>10 DEF Proxy
  <2> HIDE DEF k
  <2>2. /\ g \in Handler /\ g.refs = k.refs /\ g.targets = k.targets \ {from}
        /\ g.registered = (h.targets # {from}) /\ g.cl_acks = k.cl_acks
        /\ g.commit_version = k.commit_version /\ g.timedout = k.timedout
        /\ g.cl_achieved = k.cl_achieved /\ g.throttled = k.throttled /\ g.ready = k.ready
    BY Zenon, <2>1 DEF Handler
  <2> HIDE DEF g
  <2>3. /\ t \in Proxy
        /\ t.handler = [q.handler EXCEPT ![w] = g] /\ t.handler[w] = g
        /\ t.throttled_writes = q.throttled_writes
        /\ t.queued_write_bytes = q.queued_write_bytes
        /\ t.background_writes = q.background_writes
        /\ t.background_write_bytes = q.background_write_bytes
    BY <1>4, <1>10, <2>2, WithFields
  <2>4. t.handler = [p.handler EXCEPT ![w] = g]
    BY Zenon, <1>10, <2>3 DEF Proxy
  <2> HIDE DEF t
  <2> QED
    BY Zenon, <1>10, <2>2, <2>3, <2>4 DEF h, t
<1>11. CASE h.cl_achieved \/ n < BlockFor
  <2>1. q = With(p1, w, h2)
    BY Zenon, <1>7, <1>8, <1>11
  <2>2. h2 \in Handler
    BY Zenon, <1>8
  <2>3. /\ q \in Proxy /\ q.handler = [p.handler EXCEPT ![w] = h2] /\ k = h2
        /\ q.throttled_writes = p.throttled_writes
        /\ q.queued_write_bytes = p.queued_write_bytes
        /\ q.background_writes = p.background_writes
        /\ q.background_write_bytes = p.background_write_bytes
    BY Zenon, <1>9, <2>1, <2>2
  <2> HIDE DEF k
  <2> QED
    BY Zenon, <1>8, <1>11, <2>3 DEF n
<1>12. CASE ~h.cl_achieved /\ ~(n < BlockFor) /\ need_throttle_writes(p)
  <2> DEFINE h3 == [h2 EXCEPT !.cl_achieved = TRUE, !.throttled = TRUE]
             p2 == With(p1, w, h3)
             s == Append(p.throttled_writes, w)
  <2>1. q = SetQueue(p2, s)
    BY Zenon, <1>6, <1>7, <1>8, <1>12
  <2>2. /\ h3 \in Handler /\ h3.refs = h2.refs /\ h3.targets = h2.targets
        /\ h3.cl_acks = h2.cl_acks /\ h3.commit_version = h2.commit_version
        /\ h3.timedout = h2.timedout /\ h3.cl_achieved /\ h3.throttled
        /\ h3.ready = h2.ready
    BY Zenon, <1>8 DEF Handler
  <2> HIDE DEF h3
  <2>3. h3 \in Handler
    BY Zenon, <2>2
  <2>4. /\ p2 \in Proxy /\ p2.handler = [p.handler EXCEPT ![w] = h3] /\ p2.handler[w] = h3
        /\ p2.queued_write_bytes = p.queued_write_bytes
        /\ p2.background_writes = p.background_writes
        /\ p2.background_write_bytes = p.background_write_bytes
    BY Zenon, <1>9, <2>3
  <2>5. s \in Seq(Writes)
    BY DEF Proxy
  <2> HIDE DEF p2, s
  <2>6. /\ q \in Proxy /\ q.handler = p2.handler /\ q.throttled_writes = s
        /\ q.queued_write_bytes = p2.queued_write_bytes
        /\ q.background_writes = p2.background_writes
        /\ q.background_write_bytes = p2.background_write_bytes
    BY Zenon, <2>1, <2>4, <2>5, QueueFields
  <2>7. k = h3
    BY Zenon, <2>4, <2>6
  <2>8. n >= BlockFor
    BY <1>3, <1>12, ConstantTypes
  <2> QED
    BY Zenon, <1>8, <1>12, <2>2, <2>4, <2>6, <2>7, <2>8 DEF n, s
<1>13. CASE ~h.cl_achieved /\ ~(n < BlockFor) /\ ~need_throttle_writes(p)
  <2> DEFINE h3 == [h2 EXCEPT !.cl_achieved = TRUE]
             p2 == With(p1, w, h3)
  <2>1. q = Release(p2, w)
    BY Zenon, <1>6, <1>7, <1>8, <1>13
  <2>2. /\ h3 \in Handler /\ h3.refs = h2.refs /\ h3.targets = h2.targets
        /\ h3.cl_acks = h2.cl_acks /\ h3.commit_version = h2.commit_version
        /\ h3.timedout = h2.timedout /\ h3.cl_achieved
    BY Zenon, <1>8 DEF Handler
  <2> HIDE DEF h3
  <2>3. h3 \in Handler /\ h3.commit_version \in AllVersions
    BY Zenon, <1>8, <2>2
  <2>4. /\ p2 \in Proxy /\ p2.handler = [p.handler EXCEPT ![w] = h3] /\ p2.handler[w] = h3
        /\ p2.throttled_writes = p.throttled_writes
        /\ p2.queued_write_bytes = p.queued_write_bytes
        /\ p2.background_writes = p.background_writes
        /\ p2.background_write_bytes = p.background_write_bytes
    BY Zenon, <1>9, <2>3
  <2> HIDE DEF p2
  <2>5. /\ Released(h3).refs = h3.refs /\ Released(h3).targets = h3.targets
        /\ Released(h3).cl_acks = h3.cl_acks
        /\ Released(h3).commit_version = h3.commit_version
        /\ Released(h3).timedout = h3.timedout /\ Released(h3).cl_achieved
        /\ ~Released(h3).throttled /\ Released(h3).ready = Ok(v)
    BY Zenon, <1>8, <2>2, ReleasedFields
  <2>6. /\ q \in Proxy /\ q.handler = [p2.handler EXCEPT ![w] = Released(p2.handler[w])]
        /\ q.throttled_writes = p2.throttled_writes
        /\ q.queued_write_bytes = p2.queued_write_bytes
        /\ q.background_writes = p2.background_writes + 1
        /\ q.background_write_bytes = p2.background_write_bytes + Size[w]
    <3>1. p2 \in Proxy /\ p2.handler[w].commit_version \in AllVersions
      BY Zenon, <2>3, <2>4
    <3> QED
      BY Zenon, <2>1, <3>1, ReleaseFields
  <2>7. k = Released(h3) /\ q.handler = [p.handler EXCEPT ![w] = k]
    BY Zenon, <2>4, <2>6 DEF Proxy
  <2>8. n >= BlockFor
    BY <1>3, <1>13, ConstantTypes
  <2> QED
    BY <1>8, <1>13, <2>2, <2>4, <2>5, <2>6, <2>7, <2>8 DEF n
<1> QED
  BY Zenon, <1>11, <1>12, <1>13

InQueue(q, w) == \E i \in DOMAIN q : q[i] = w

\* One handler changes and the queue does not.
LEMMA QueueKept ==
  ASSUME NEW hs, NEW q, Queue(hs, q), NEW gs, NEW w \in Writes,
         \A x \in Writes : x # w => gs[x] = hs[x],
         InQueue(q, w) => /\ gs[w].cl_achieved \/ gs[w].ready # Pending
                          /\ gs[w].registered => gs[w].throttled,
         gs[w].throttled /\ gs[w].registered => InQueue(q, w)
  PROVE  Queue(gs, q)
<1>1. \A i \in DOMAIN q : q[i] \in Writes
  BY DEF Queue
<1>2. ASSUME NEW i \in DOMAIN q
      PROVE  /\ gs[q[i]].cl_achieved \/ gs[q[i]].ready # Pending
             /\ gs[q[i]].registered => gs[q[i]].throttled
  <2>1. CASE q[i] = w
    BY Zenon, <2>1 DEF InQueue
  <2>2. CASE q[i] # w
    <3>1. gs[q[i]] = hs[q[i]]
      BY Zenon, <1>1, <2>2
    <3> QED
      BY Zenon, <3>1 DEF Queue
  <2> QED
    BY Zenon, <2>1, <2>2
<1>3. ASSUME NEW x \in Writes, gs[x].throttled /\ gs[x].registered
      PROVE  \E i \in DOMAIN q : q[i] = x
  BY Zenon, <1>3 DEF Queue, InQueue
<1> QED
  BY Zenon, <1>2, <1>3 DEF Queue

\* A write that is held back joins the queue.
LEMMA QueueLonger ==
  ASSUME NEW hs, NEW q, Queue(hs, q), NEW gs, NEW w \in Writes, ~InQueue(q, w),
         \A x \in Writes : x # w => gs[x] = hs[x],
         gs[w].cl_achieved, gs[w].throttled
  PROVE  Queue(gs, Append(q, w))
<1> DEFINE s == Append(q, w)
<1>1. /\ q \in Seq(Writes) /\ s \in Seq(Writes) /\ Len(q) \in Nat
      /\ DOMAIN q = 1 .. Len(q) /\ DOMAIN s = 1 .. Len(q) + 1
      /\ s[Len(q) + 1] = w
      /\ \A i \in 1 .. Len(q) : s[i] = q[i] /\ q[i] \in Writes /\ q[i] # w
  BY DEF Queue, InQueue
<1> HIDE DEF s
<1>2. \A i \in DOMAIN s :
        \/ i \in DOMAIN q /\ s[i] = q[i] /\ s[i] # w /\ s[i] \in Writes
        \/ i = Len(q) + 1 /\ s[i] = w
  <2> TAKE i \in DOMAIN s
  <2>1. CASE i \in 1 .. Len(q)
    <3>1. s[i] = q[i] /\ q[i] \in Writes /\ q[i] # w
      BY Zenon, <1>1, <2>1
    <3>2. i \in DOMAIN q
      BY Zenon, <1>1, <2>1
    <3> QED
      BY Zenon, <3>1, <3>2
  <2>2. CASE i = Len(q) + 1
    BY Zenon, <1>1, <2>2
  <2> QED
    BY <1>1, <2>1, <2>2
<1>3. \A i, j \in DOMAIN s : s[i] = s[j] => i = j
  BY <1>2 DEF Queue
<1>4. ASSUME NEW i \in DOMAIN s
      PROVE  /\ gs[s[i]].cl_achieved \/ gs[s[i]].ready # Pending
             /\ gs[s[i]].registered => gs[s[i]].throttled
  <2>1. CASE s[i] = w
    BY Zenon, <2>1
  <2>2. CASE s[i] # w
    <3>1. i \in DOMAIN q /\ s[i] = q[i] /\ gs[s[i]] = hs[q[i]]
      BY Zenon, <1>2, <2>2
    <3> QED
      BY Zenon, <3>1 DEF Queue
  <2> QED
    BY Zenon, <2>1, <2>2
<1>5. ASSUME NEW x \in Writes, gs[x].throttled /\ gs[x].registered
      PROVE  \E i \in DOMAIN s : s[i] = x
  <2>1. CASE x = w
    BY <1>1, <2>1
  <2>2. CASE x # w
    <3>1. PICK i \in DOMAIN q : q[i] = x
      BY Zenon, <1>5, <2>2 DEF Queue
    <3> QED
      BY <1>1, <3>1
  <2> QED
    BY Zenon, <2>1, <2>2
<1> QED
  BY Zenon, <1>1, <1>3, <1>4, <1>5 DEF Queue, s

\* One handler is replaced by one that is counted like it.
LEMMA CountSame ==
  ASSUME NEW p, NEW t, Counted(p), NEW w \in Writes,
         \A x \in Writes : x # w => t.handler[x] = p.handler[x],
         (t.handler[w].cl_achieved /\ ~t.handler[w].throttled) =
           (p.handler[w].cl_achieved /\ ~p.handler[w].throttled),
         t.background_writes = p.background_writes,
         t.background_write_bytes = p.background_write_bytes
  PROVE  Counted(t)
<1>1. Unfinished(t) = Unfinished(p)
  BY Zenon DEF Unfinished
<1> QED
  BY Zenon, <1>1 DEF Counted

\* A replica answers: what was already answered stays, and the handler can be
\* removed with its last target because its level is then achieved.
LEMMA GotResponseOrderly ==
  ASSUME NEW p, Orderly(p), NEW w \in Writes, p.handler[w].registered,
         NEW from \in p.handler[w].targets, NEW v \in Versions[w]
  PROVE  LET t == GotResponse(p, w, from, v)
             h == p.handler[w]
             g == t.handler[w]
         IN  /\ Orderly(t)
             /\ Sound(h) /\ Sound(g)
             /\ \A x \in Writes : x # w => t.handler[x] = p.handler[x]
             /\ t.queued_write_bytes = p.queued_write_bytes
             /\ g.refs = h.refs /\ g.targets = h.targets \ {from}
             /\ g.registered = (h.targets # {from})
             /\ g.cl_acks = h.cl_acks + 1 /\ g.commit_version = v
             /\ \/ g.ready = h.ready
                \/ h.ready = Pending /\ g.ready = Ok(v) /\ g.cl_acks >= BlockFor
<1> DEFINE t == GotResponse(p, w, from, v)
           h == p.handler[w]
           g == t.handler[w]
<1>1. /\ p \in Proxy /\ Queue(p.handler, p.throttled_writes) /\ Counted(p)
      /\ h \in Handler /\ v \in AllVersions
  BY Zenon, ConstantTypes DEF Orderly, Proxy
<1>2. Sound(h) /\ ~h.cl_achieved => h.ready = Pending
  BY Zenon DEF Sound
<1>3. Sound(h)
  <2>1. ~Absent(h)
    BY Zenon DEF Absent, Gone, NoHandler
  <2> QED
    BY Zenon, <2>1 DEF Orderly
<1>4. /\ t \in Proxy
      /\ t.handler = [p.handler EXCEPT ![w] = g]
      /\ t.queued_write_bytes = p.queued_write_bytes
      /\ g \in Handler
      /\ g.refs = h.refs /\ g.targets = h.targets \ {from}
      /\ g.registered = (h.targets # {from})
      /\ g.cl_acks = h.cl_acks + 1 /\ g.commit_version = v
      /\ g.timedout = h.timedout
      /\ \/ /\ h.cl_achieved \/ h.cl_acks + 1 < BlockFor
            /\ g.cl_achieved = h.cl_achieved
            /\ g.throttled = h.throttled /\ g.ready = h.ready
            /\ t.throttled_writes = p.throttled_writes
            /\ t.background_writes = p.background_writes
            /\ t.background_write_bytes = p.background_write_bytes
         \/ /\ ~h.cl_achieved /\ h.cl_acks + 1 >= BlockFor
            /\ g.cl_achieved
            /\ g.throttled /\ g.ready = h.ready
            /\ t.throttled_writes = Append(p.throttled_writes, w)
            /\ t.background_writes = p.background_writes
            /\ t.background_write_bytes = p.background_write_bytes
         \/ /\ ~h.cl_achieved /\ h.cl_acks + 1 >= BlockFor
            /\ ~need_throttle_writes(p)
            /\ g.cl_achieved
            /\ ~g.throttled /\ g.ready = Ok(v)
            /\ t.throttled_writes = p.throttled_writes
            /\ t.background_writes = p.background_writes + 1
            /\ t.background_write_bytes = p.background_write_bytes + Size[w]
  <2>1. Responded(p, t, w, from, v)
    BY Zenon, <1>1, GotResponseFields
  <2> QED
    BY Zenon, <2>1 DEF Responded
<1> HIDE DEF t
<1>6. \A x \in Writes : x # w => t.handler[x] = p.handler[x]
  <2> HIDE DEF g
  <2> QED
    BY Zenon, <1>1, <1>4 DEF Proxy
<1>7. /\ Cardinality(h.targets) \in Nat /\ Cardinality(h.targets) > 0
      /\ Cardinality(g.targets) = Cardinality(h.targets) - 1
      /\ h.targets = {from} => Cardinality(h.targets) = 1
  <2>1. IsFiniteSet(h.targets) /\ from \in h.targets
    <3>1. h.targets \in SUBSET Replicas
      BY Zenon, <1>1 DEF Handler
    <3> QED
      BY Zenon, <3>1, FS_Subset, WriteResponseAssumption
  <2>2. /\ Cardinality(h.targets) \in Nat
        /\ Cardinality(h.targets \ {from}) = Cardinality(h.targets) - 1
        /\ Cardinality(h.targets) # 0
        /\ h.targets = {from} => Cardinality(h.targets) = 1
    BY Zenon, <2>1, FS_RemoveElement, FS_CardinalityType, FS_EmptySet, FS_Singleton
  <2> QED
    BY <1>4, <2>2
<1>8. Sound(g)
  <2>1. /\ h.cl_acks + Cardinality(h.targets) <= Cardinality(Replicas)
        /\ ~h.cl_achieved => h.cl_acks + Cardinality(h.targets) >= BlockFor
        /\ h.cl_acks \in Nat /\ g.cl_acks \in Nat
        /\ h.cl_achieved => h.cl_acks >= BlockFor
    BY Zenon, <1>1, <1>3, <1>4 DEF Sound, Handler
  <2>2. /\ g.cl_acks <= Cardinality(Replicas)
        /\ g.cl_acks + Cardinality(g.targets) <= Cardinality(Replicas)
        /\ ~g.cl_achieved => g.cl_acks + Cardinality(g.targets) >= BlockFor
        /\ g.cl_achieved => g.cl_acks >= BlockFor
        /\ ~g.registered => g.cl_achieved
    <3> HIDE DEF g, h
    <3>1. /\ g.cl_acks = h.cl_acks + 1
          /\ ~g.registered => h.targets = {from}
      BY Zenon, <1>4
    <3>2. /\ h.cl_achieved => g.cl_achieved
          /\ h.cl_acks + 1 >= BlockFor => g.cl_achieved
          /\ g.cl_achieved => h.cl_achieved \/ h.cl_acks + 1 >= BlockFor
      BY <1>4, <2>1, ConstantTypes
    <3>3. BlockFor \in Nat /\ Cardinality(Replicas) \in Nat
      BY Zenon, ConstantTypes
    <3> QED
      BY <1>7, <2>1, <3>1, <3>2, <3>3
  <2>3. /\ g.throttled => g.cl_achieved
        /\ (g.ready # Pending) = (g.cl_achieved /\ ~g.throttled)
        /\ g.ready # Failed
    <3>1. /\ (h.ready # Pending) = (h.cl_achieved /\ ~h.throttled) /\ h.ready # Failed
          /\ h.throttled => h.cl_achieved
      BY Zenon, <1>3 DEF Sound
    <3>2. Ok(v) # Pending /\ Ok(v) # Failed
      BY Zenon, AnswerKinds
    <3> HIDE DEF g, h
    <3> QED
      BY Zenon, <1>4, <3>1, <3>2
  <2> QED
    BY Zenon, <1>1, <1>4, <2>2, <2>3 DEF Sound
<1>9. Queue(t.handler, t.throttled_writes)
  <2>1. ~h.cl_achieved => ~InQueue(p.throttled_writes, w)
    BY Zenon, <1>1, <1>2, <1>3 DEF Queue, InQueue
  <2>2. h.throttled => InQueue(p.throttled_writes, w)
    BY Zenon, <1>1 DEF Queue, InQueue
  <2>3. InQueue(p.throttled_writes, w) => h.throttled
    BY Zenon, <1>1 DEF Queue, InQueue
  <2>4. CASE /\ t.throttled_writes = p.throttled_writes
             /\ g.throttled => h.throttled
             /\ \/ g.cl_achieved = h.cl_achieved /\ g.throttled = h.throttled
                \/ ~h.cl_achieved
    <3>1. InQueue(p.throttled_writes, w) => /\ g.cl_achieved \/ g.ready # Pending
                                            /\ g.registered => g.throttled
      <4>1. h.throttled => h.cl_achieved
        BY Zenon, <1>3 DEF Sound
      <4> HIDE DEF g, h
      <4> QED
        BY Zenon, <2>1, <2>3, <2>4, <4>1
    <3>2. g.throttled /\ g.registered => InQueue(p.throttled_writes, w)
      BY Zenon, <2>2, <2>4
    <3> QED
      BY Zenon, <1>1, <1>6, <2>4, <3>1, <3>2, QueueKept
  <2>5. CASE t.throttled_writes = Append(p.throttled_writes, w) /\ ~h.cl_achieved /\ g.cl_achieved /\ g.throttled
    BY Zenon, <1>1, <1>6, <2>1, <2>5, QueueLonger
  <2> QED
    BY Zenon, <1>4, <2>4, <2>5
<1>10. Counted(t)
  <2>1. CASE /\ (g.cl_achieved /\ ~g.throttled) = (h.cl_achieved /\ ~h.throttled)
             /\ t.background_writes = p.background_writes
             /\ t.background_write_bytes = p.background_write_bytes
    BY Zenon, <1>1, <1>6, <2>1, CountSame
  <2>2. CASE /\ ~h.cl_achieved /\ g.cl_achieved /\ ~g.throttled
             /\ ~need_throttle_writes(p)
             /\ t.background_writes = p.background_writes + 1
             /\ t.background_write_bytes = p.background_write_bytes + Size[w]
    <3>1. w \notin Unfinished(p) /\ Unfinished(t) = Unfinished(p) \union {w}
      BY Zenon, <1>6, <2>2 DEF Unfinished
    <3>2. p.background_write_bytes <= BackgroundLimit
      BY <1>1, <2>2, WriteResponseAssumption DEF need_throttle_writes, Proxy
    <3> QED
      BY Zenon, <1>1, <2>2, <3>1, <3>2, CountUp
  <2> QED
    BY Zenon, <1>4, <2>1, <2>2
<1>11. \A x \in Writes : Absent(t.handler[x]) \/ Sound(t.handler[x])
  BY Zenon, <1>6, <1>8 DEF Orderly
<1>12. \/ g.ready = h.ready
       \/ h.ready = Pending /\ g.ready = Ok(v) /\ g.cl_acks >= BlockFor
  BY Zenon, <1>2, <1>3, <1>4
<1> QED
  BY Zenon, <1>3, <1>4, <1>6, <1>8, <1>9, <1>10, <1>11, <1>12 DEF Orderly, t

\* The answer a promise has after its handler was destroyed.
LastAnswer(h, a) ==
    /\ a \in Answers /\ a # Pending
    /\ h.ready # Pending => a = h.ready
    /\ h.ready = Pending => a = Failed \/ (h.cl_achieved /\ a = Ok(h.commit_version))

\* A handler nothing refers to is destroyed; it has answered, or it answers now:
\* it is not destroyed below its level unless it has timed out.
LEMMA DestroyedOrderly ==
  ASSUME NEW p, Orderly(p), NEW w \in Writes, Sound(p.handler[w])
  PROVE  LET t == Destroyed(p, w)
             h == p.handler[w]
         IN  /\ Orderly(t)
             /\ t.queued_write_bytes = p.queued_write_bytes
             /\ \A x \in Writes : x # w => Freed(p.handler[x], t.handler[x])
             /\ Alive(h) => t = p
             /\ ~Alive(h) => \E a : LastAnswer(h, a) /\ t.handler[w] = Gone(a)
<1> DEFINE t == Destroyed(p, w)
           h == p.handler[w]
<1>1. /\ p \in Proxy /\ Queue(p.handler, p.throttled_writes) /\ Counted(p)
      /\ h \in Handler
  BY Zenon DEF Orderly, Proxy
<1>2. CASE Alive(h)
  <2>1. t = p
    BY Zenon, <1>2 DEF Destroyed, Alive
  <2> HIDE DEF t
  <2> QED
    BY Zenon, <1>2, <2>1 DEF Freed, t
<1>3. CASE ~Alive(h) /\ h.cl_achieved /\ ~h.throttled
  <2> DEFINE n == p.background_writes - 1
             m == p.background_write_bytes - Size[w]
             c == SetCounters(p, n, m)
             g == Gone(h.ready)
             u == With(c, w, g)
  <2>1. t = Unthrottle(u)
    BY Zenon, <1>3 DEF Destroyed, Alive, With, SetCounters
  <2>2. n \in Int /\ m \in Int
    BY <1>1, ConstantTypes DEF Proxy
  <2>3. h.ready # Pending /\ h.ready \in Answers
    BY Zenon, <1>1, <1>3 DEF Sound, Handler
  <2>4. /\ g \in Handler /\ g.ready = h.ready /\ ~g.registered /\ ~g.cl_achieved
        /\ ~g.throttled /\ Absent(g)
    BY Zenon, <2>3, GoneFields
  <2> HIDE DEF n, m, g
  <2>5. /\ c \in Proxy /\ c.handler = p.handler
        /\ c.throttled_writes = p.throttled_writes
        /\ c.queued_write_bytes = p.queued_write_bytes
        /\ c.background_writes = n
        /\ c.background_write_bytes = m
    BY <1>1, <2>2, CountersFields
  <2> HIDE DEF c
  <2>6. /\ u \in Proxy /\ u.handler[w] = g
        /\ u.throttled_writes = c.throttled_writes
        /\ u.queued_write_bytes = c.queued_write_bytes
        /\ u.background_writes = c.background_writes
        /\ u.background_write_bytes = c.background_write_bytes
    BY Zenon, <2>4, <2>5, WithFields
  <2>7. \A x \in Writes : x # w => u.handler[x] = p.handler[x]
    BY <2>5, WithOthers
  <2> HIDE DEF u, t
  <2>8. Queue(u.handler, p.throttled_writes)
    <3> DEFINE q == p.throttled_writes
               hs == p.handler
               gs == u.handler
    <3>1. Queue(hs, q) /\ \A x \in Writes : x # w => gs[x] = hs[x]
      BY Zenon, <1>1, <2>7
    <3>2. ~gs[w].registered /\ ~gs[w].throttled /\ gs[w].ready # Pending
      BY Zenon, <2>3, <2>4, <2>6
    <3> HIDE DEF q, hs, gs
    <3>3. Queue(gs, q)
      BY Zenon, <3>1, <3>2, QueueKept
    <3> QED
      BY Zenon, <3>3 DEF q, gs
  <2>9. Counted(u)
    <3>1. w \in Unfinished(p) /\ Unfinished(u) = Unfinished(p) \ {w}
      BY Zenon, <1>3, <2>4, <2>6, <2>7 DEF Unfinished
    <3> QED
      BY Zenon, <1>1, <2>5, <2>6, <3>1, CountDown DEF n, m
  <2>10. Orderly(u)
    <3>1. \A x \in Writes : Absent(u.handler[x]) \/ Sound(u.handler[x])
      BY Zenon, <2>4, <2>6, <2>7 DEF Orderly
    <3> QED
      BY Zenon, <2>5, <2>6, <2>8, <2>9, <3>1 DEF Orderly
  <2>11. /\ Orderly(t)
         /\ \A x \in Writes : Freed(u.handler[x], t.handler[x])
         /\ t.queued_write_bytes = u.queued_write_bytes
    BY Zenon, <2>1, <2>10, UnthrottleOrderly
  <2>12. t.handler[w] = g
    BY Zenon, <2>4, <2>6, <2>11 DEF Freed
  <2>13. LastAnswer(h, h.ready)
    BY Zenon, <2>3 DEF LastAnswer
  <2> QED
    BY Zenon, <1>3, <2>5, <2>6, <2>7, <2>11, <2>12, <2>13 DEF g, t
<1>4. CASE ~Alive(h) /\ ~(h.cl_achieved /\ ~h.throttled)
  <2> DEFINE a == IF h.cl_achieved THEN Ok(h.commit_version) ELSE Failed
             g == Gone(a)
  <2>1. h.ready = Pending /\ (~h.cl_achieved => h.timedout)
    BY Zenon, <1>4 DEF Sound, Alive
  <2>2. t = With(p, w, g)
    BY Zenon, <1>4, <2>1 DEF Destroyed, Alive, With
  <2>3. LastAnswer(h, a)
    <3>1. h.cl_achieved => h.commit_version \in AllVersions
      BY Zenon, <1>1, ReleasedSound
    <3> QED
      BY Zenon, <2>1, <3>1, AnswerKinds DEF LastAnswer
  <2>4. /\ g \in Handler /\ g.ready = a /\ ~g.registered /\ ~g.cl_achieved
        /\ ~g.throttled /\ Absent(g) /\ a # Pending
    <3> HIDE DEF a
    <3> QED
      BY Zenon, <2>3, GoneFields DEF LastAnswer
  <2> HIDE DEF a, g
  <2>5. /\ t \in Proxy /\ t.handler = [p.handler EXCEPT ![w] = g] /\ t.handler[w] = g
        /\ t.throttled_writes = p.throttled_writes
        /\ t.queued_write_bytes = p.queued_write_bytes
        /\ t.background_writes = p.background_writes
        /\ t.background_write_bytes = p.background_write_bytes
    BY <1>1, <2>2, <2>4, WithFields
  <2>6. \A x \in Writes : x # w => t.handler[x] = p.handler[x]
    BY <1>1, <2>2, WithOthers
  <2> HIDE DEF t
  <2>7. Queue(t.handler, p.throttled_writes)
    <3> DEFINE q == p.throttled_writes
               hs == p.handler
               gs == t.handler
    <3>1. Queue(hs, q) /\ \A x \in Writes : x # w => gs[x] = hs[x]
      BY Zenon, <1>1, <2>6
    <3>2. ~gs[w].registered /\ ~gs[w].throttled /\ gs[w].ready # Pending
      BY Zenon, <2>4, <2>5
    <3> HIDE DEF q, hs, gs
    <3>3. Queue(gs, q)
      BY Zenon, <3>1, <3>2, QueueKept
    <3> QED
      BY Zenon, <3>3 DEF q, gs
  <2>8. Counted(t)
    <3>1. Unfinished(t) = Unfinished(p)
      BY Zenon, <1>4, <2>4, <2>5, <2>6 DEF Unfinished
    <3> QED
      BY Zenon, <1>1, <2>5, <3>1 DEF Counted
  <2>9. Orderly(t)
    <3>1. \A x \in Writes : Absent(t.handler[x]) \/ Sound(t.handler[x])
      BY Zenon, <2>4, <2>5, <2>6 DEF Orderly
    <3> QED
      BY Zenon, <2>5, <2>7, <2>8, <3>1 DEF Orderly
  <2>10. \A x \in Writes : x # w => Freed(p.handler[x], t.handler[x])
    BY Zenon, <2>6 DEF Freed
  <2> QED
    BY Zenon, <1>4, <2>3, <2>5, <2>9, <2>10 DEF g, t
<1> QED
  BY Zenon, <1>2, <1>3, <1>4

\* A pointer to the handler is dropped, or it is removed by its timer: neither
\* disturbs the proxy.
LEMMA WithOrderly ==
  ASSUME NEW p, Orderly(p), NEW w \in Writes, NEW g \in Handler,
         Sound(p.handler[w]), Sound(g),
         g.cl_achieved = p.handler[w].cl_achieved, g.throttled = p.handler[w].throttled,
         g.registered => p.handler[w].registered
  PROVE  /\ Orderly(With(p, w, g))
         /\ With(p, w, g).handler[w] = g
         /\ \A x \in Writes : x # w => With(p, w, g).handler[x] = p.handler[x]
         /\ With(p, w, g).queued_write_bytes = p.queued_write_bytes
<1> DEFINE t == With(p, w, g)
           h == p.handler[w]
<1>1. /\ p \in Proxy /\ Queue(p.handler, p.throttled_writes) /\ Counted(p)
      /\ h \in Handler
  BY Zenon DEF Orderly, Proxy
<1>2. /\ t \in Proxy /\ t.handler = [p.handler EXCEPT ![w] = g] /\ t.handler[w] = g
      /\ t.throttled_writes = p.throttled_writes
      /\ t.queued_write_bytes = p.queued_write_bytes
      /\ t.background_writes = p.background_writes
      /\ t.background_write_bytes = p.background_write_bytes
  BY <1>1, WithFields
<1>3. \A x \in Writes : x # w => t.handler[x] = p.handler[x]
  BY <1>1, WithOthers
<1> HIDE DEF t
<1>4. /\ t \in Proxy /\ t.handler[w] = g
      /\ t.throttled_writes = p.throttled_writes
      /\ t.background_writes = p.background_writes
      /\ t.background_write_bytes = p.background_write_bytes
  BY Zenon, <1>2
<1>5. Queue(t.handler, p.throttled_writes)
  <2> DEFINE q == p.throttled_writes
  <2>1. InQueue(q, w) => /\ h.cl_achieved \/ h.ready # Pending
                         /\ h.registered => h.throttled
    BY Zenon, <1>1 DEF Queue, InQueue
  <2>2. h.throttled /\ h.registered => InQueue(q, w)
    BY Zenon, <1>1 DEF Queue, InQueue
  <2>3. h.ready # Pending => h.cl_achieved
    BY Zenon DEF Sound
  <2>4. /\ InQueue(q, w) => /\ g.cl_achieved \/ g.ready # Pending
                            /\ g.registered => g.throttled
        /\ g.throttled /\ g.registered => InQueue(q, w)
    BY Zenon, <2>1, <2>2, <2>3
  <2> DEFINE hs == p.handler
             gs == t.handler
  <2>5. /\ Queue(hs, q) /\ \A x \in Writes : x # w => gs[x] = hs[x]
        /\ gs[w] = g
    BY Zenon, <1>1, <1>3, <1>4
  <2> HIDE DEF q, hs, gs
  <2>6. Queue(gs, q)
    BY <2>4, <2>5, QueueKept
  <2> QED
    BY Zenon, <2>6 DEF q, gs
<1>6. Counted(t)
  <2>1. Unfinished(t) = Unfinished(p)
    BY Zenon, <1>3, <1>4 DEF Unfinished
  <2> QED
    BY Zenon, <1>1, <1>4, <2>1 DEF Counted
<1>7. \A x \in Writes : Absent(t.handler[x]) \/ Sound(t.handler[x])
  BY Zenon, <1>3, <1>4 DEF Orderly
<1> QED
  BY Zenon, <1>2, <1>3, <1>4, <1>5, <1>6, <1>7 DEF Orderly, t

-----------------------------------------------------------------------------
(* What the methods keep of the handlers, their acknowledgements, the      *)
(* batches and the bytes waiting to be sent.                               *)

\* The acknowledgements of a handler stay those it has counted as long as its
\* count, its version, its targets and its answer do.
LEMMA BackedSame ==
  ASSUME NEW h, NEW g, NEW a, Backed(h, a),
         g.ready = h.ready, g.cl_acks = h.cl_acks, g.commit_version = h.commit_version,
         g.registered => h.registered /\ g.targets = h.targets
  PROVE  Backed(g, a)
BY Zenon DEF Backed

\* One more acknowledgement, as long as the handler has not answered.
LEMMA BackedGot ==
  ASSUME NEW h, NEW g, NEW a, Backed(h, a), h.registered, h.cl_acks \in Nat,
         NEW r \in Replicas, r \in h.targets, NEW v \in AllVersions,
         g.targets = h.targets \ {r}, g.cl_acks = h.cl_acks + 1, g.commit_version = v,
         \/ g.ready = h.ready
         \/ h.ready = Pending /\ g.ready = Ok(v) /\ g.cl_acks >= BlockFor
  PROVE  Backed(g, IF h.ready = Pending THEN a \union {<<r, v>>} ELSE a)
<1>1. CASE h.ready # Pending
  BY Zenon, <1>1 DEF Backed
<1>2. CASE h.ready = Pending
  <2> DEFINE b == a \union {<<r, v>>}
  <2>1. <<r, v>> \notin a /\ IsFiniteSet(a) /\ h.cl_acks = Cardinality(a)
    BY Zenon, <1>2 DEF Backed
  <2>2. IsFiniteSet(b) /\ Cardinality(b) = g.cl_acks
    <3> DEFINE x == <<r, v>>
    <3>1. x \notin a /\ IsFiniteSet(a)
      BY Zenon, <2>1
    <3> HIDE DEF x
    <3>2. IsFiniteSet(a \union {x}) /\ Cardinality(a \union {x}) = Cardinality(a) + 1
      BY Zenon, <3>1, FS_AddElement
    <3> QED
      BY Zenon, <2>1, <3>2 DEF x
  <2>3. b \subseteq Replicas \X AllVersions /\ <<r, v>> \in b /\ <<r, v>>[2] = v
    BY DEF Backed
  <2>4. \A x \in b : x[1] \notin g.targets
    <3>1. \A x \in a : x[1] \notin h.targets
      BY Zenon, <1>2 DEF Backed
    <3> QED
      BY <3>1
  <2>5. Pending.kind # "ok" /\ Ok(v).version = v /\ Ok(v) # Pending
    BY Zenon, AnswerKinds
  <2> HIDE DEF b
  <2>6. Backed(g, b)
    BY Zenon, <1>2, <2>2, <2>3, <2>4, <2>5 DEF Backed
  <2> QED
    BY Zenon, <1>2, <2>6 DEF b
<1> QED
  BY Zenon, <1>1, <1>2

\* The answer a handler gives when it is destroyed is as well founded.
LEMMA BackedGone ==
  ASSUME NEW h \in Handler, Sound(h), NEW a, Backed(h, a), NEW b, LastAnswer(h, b)
  PROVE  Backed(Gone(b), a)
<1>1. b \in Answers /\ b # Pending /\ Gone(b).ready = b
  BY Zenon, GoneFields DEF LastAnswer
<1>2. b.kind = "ok" => Cardinality(a) >= BlockFor /\ \E x \in a : x[2] = b.version
  <2>1. CASE h.ready # Pending
    BY Zenon, <2>1 DEF Backed, LastAnswer
  <2>2. CASE h.ready = Pending /\ b = Failed
    BY Zenon, <2>2, AnswerKinds
  <2>3. CASE h.ready = Pending /\ h.cl_achieved /\ b = Ok(h.commit_version)
    <3>1. h.cl_acks >= BlockFor /\ h.cl_acks # 0
      BY <2>3, ConstantTypes DEF Sound, Handler
    <3> QED
      BY Zenon, <2>3, <3>1, AnswerKinds DEF Backed
  <2> QED
    BY Zenon, <2>1, <2>2, <2>3 DEF LastAnswer
<1> QED
  BY Zenon, <1>1, <1>2 DEF Backed

\* A handler that is released keeps its references and, if it has one, its answer.
LEMMA FreedKeeps ==
  ASSUME NEW g \in Handler, Absent(g) \/ Sound(g), NEW h, Freed(g, h), NEW a, Backed(g, a)
  PROVE  /\ h.refs = g.refs
         /\ Absent(g) \/ Alive(g) => Absent(h) \/ Alive(h)
         /\ Uncounted(g) => Uncounted(h)
         /\ g.ready # Pending => h.ready = g.ready
         /\ ~g.throttled => h = g
         /\ Backed(h, a)
<1>1. CASE h = g
  BY Zenon, <1>1
<1>2. CASE g.throttled /\ g.registered /\ h = Released(g)
  <2>1. Sound(g)
    <3>1. ~Absent(g)
      BY Zenon, <1>2 DEF Absent, Gone, NoHandler
    <3> QED
      BY Zenon, <3>1
  <2>2. g.cl_achieved /\ g.ready = Pending /\ g.cl_acks >= BlockFor
    BY Zenon, <1>2, <2>1 DEF Sound
  <2>3. g.commit_version \in AllVersions
    BY Zenon, <2>1, <2>2, ReleasedSound
  <2>4. /\ h.registered = g.registered /\ h.refs = g.refs /\ h.targets = g.targets
        /\ h.ready = Ok(g.commit_version)
    BY Zenon, <1>2, <2>3, ReleasedFields
  <2>5. Backed(h, a)
    <3>1. /\ Cardinality(a) >= BlockFor
          /\ \E x \in a : x[2] = g.commit_version
      <4>1. g.cl_acks # 0
        BY <2>2, ConstantTypes
      <4> QED
        BY Zenon, <2>2, <4>1 DEF Backed
    <3>2. a \subseteq Replicas \X AllVersions
      BY Zenon DEF Backed
    <3> QED
      BY Zenon, <2>4, <3>1, <3>2, AnswerKinds DEF Backed
  <2> QED
    BY Zenon, <1>2, <2>2, <2>4, <2>5 DEF Alive, Uncounted
<1> QED
  BY Zenon, <1>1, <1>2 DEF Freed

\* What the destruction of a handler, if it is destroyed, leaves of it.
LEMMA DestroyedKeeps ==
  ASSUME NEW p, Orderly(p), NEW w \in Writes, Sound(p.handler[w]),
         NEW a, Backed(p.handler[w], a), Uncounted(p.handler[w])
  PROVE  LET h == p.handler[w]
             g == Destroyed(p, w).handler[w]
         IN  /\ Absent(g) \/ Alive(g)
             /\ Uncounted(g)
             /\ Backed(g, a)
             /\ g.refs = h.refs
             /\ h.ready # Pending => g.ready = h.ready
<1> DEFINE h == p.handler[w]
           g == Destroyed(p, w).handler[w]
<1>1. h \in Handler
  BY Zenon DEF Orderly, Proxy
<1>2. CASE Alive(h)
  <2>1. Destroyed(p, w) = p
    BY Zenon, <1>2, DestroyedOrderly
  <2> QED
    BY Zenon, <1>2, <2>1
<1>3. CASE ~Alive(h)
  <2>1. PICK b : LastAnswer(h, b) /\ g = Gone(b)
    BY Zenon, <1>3, DestroyedOrderly
  <2> HIDE DEF g, h
  <2>2. b \in Answers
    BY Zenon, <2>1 DEF LastAnswer
  <2>3. Absent(g) /\ g.refs = {} /\ ~g.registered /\ g.ready = b
    BY Zenon, <2>1, <2>2, GoneFields
  <2>4. Backed(g, a)
    BY Zenon, <1>1, <2>1, BackedGone DEF h
  <2>5. h.refs = {}
    BY Zenon, <1>3 DEF Alive
  <2>6. h.ready # Pending => g.ready = h.ready
    BY Zenon, <2>1, <2>3 DEF LastAnswer
  <2> QED
    BY Zenon, <2>3, <2>4, <2>5, <2>6 DEF g, h, Uncounted
<1> QED
  BY Zenon, <1>2, <1>3

\* What a batch has collected stays, because answers do.
LEMMA CollectedKept ==
  ASSUME NEW hs, NEW gs, NEW b \in Batches, NEW s, Collected(hs, b, s),
         \A x \in b : hs[x].ready # Pending => gs[x].ready = hs[x].ready,
         \A x \in b : hs[x] = NoHandler => gs[x] = NoHandler \/ s.result = Pending
  PROVE  Collected(gs, b, s)
<1>1. \A x \in b \ s.todo : gs[x].ready = hs[x].ready
  BY Zenon DEF Collected
<1> QED
  BY Zenon, <1>1 DEF Collected

\* The bytes waiting to be sent are counted by the references.
LEMMA WaitingSame ==
  ASSUME NEW hs, NEW gs, NEW n, Waiting(hs, n),
         \A x \in Writes : gs[x].refs = hs[x].refs
  PROVE  Waiting(gs, n)
<1>1. Referenced(gs) = Referenced(hs)
  BY Zenon DEF Referenced
<1>2. Bytes(gs) = Bytes(hs)
  BY Zenon DEF Bytes
<1> QED
  BY Zenon, <1>1, <1>2 DEF Waiting

\* The bytes of a write that are waiting: its size for every other node that
\* holds a reference.
LEMMA BytesType ==
  ASSUME NEW hs \in [Writes -> Handler], NEW w \in Writes
  PROVE  /\ IsFiniteSet(hs[w].refs) /\ IsFiniteSet(hs[w].refs \ Local)
         /\ Cardinality(hs[w].refs \ Local) \in Nat
         /\ Bytes(hs)[w] = Cardinality(hs[w].refs \ Local) * Size[w]
         /\ Bytes(hs)[w] \in Nat
<1>1. hs[w].refs \in SUBSET Replicas
  BY Zenon DEF Handler
<1>2. IsFiniteSet(hs[w].refs)
  BY Zenon, <1>1, FS_Subset, WriteResponseAssumption
<1>3. IsFiniteSet(hs[w].refs \ Local)
  BY Zenon, <1>2, FS_Difference
<1>4. Cardinality(hs[w].refs \ Local) \in Nat
  BY Zenon, <1>3, FS_CardinalityType
<1>5. Bytes(hs)[w] = Cardinality(hs[w].refs \ Local) * Size[w]
  BY Zenon DEF Bytes
<1>6. Size[w] \in Nat
  BY Zenon, ConstantTypes
<1> DEFINE c == Cardinality(hs[w].refs \ Local)
           z == Size[w]
<1>7. c * z \in Nat
  <2> HIDE DEF c, z
  <2>1. c \in Nat /\ z \in Nat
    BY Zenon, <1>4, <1>6 DEF c, z
  <2> QED
    BY <2>1
<1> QED
  BY Zenon, <1>2, <1>3, <1>4, <1>5, <1>7

\* A reference is dropped: those of other nodes are the ones that count.
LEMMA WaitingLess ==
  ASSUME NEW hs \in [Writes -> Handler], NEW gs \in [Writes -> Handler], NEW n,
         Waiting(hs, n), NEW w \in Writes, NEW r \in hs[w].refs,
         \A x \in Writes : x # w => gs[x].refs = hs[x].refs,
         gs[w].refs = hs[w].refs \ {r}
  PROVE  /\ r \in Local => Waiting(gs, n)
         /\ r \notin Local => Waiting(gs, n - Size[w])
<1> DEFINE F == Referenced(hs)
           G == Referenced(gs)
           f == Bytes(hs)
           g == Bytes(gs)
           R == F \ {w}
<1>1. /\ IsFiniteSet(F) /\ w \in F /\ F \subseteq Writes /\ n = Total(f, F)
      /\ IsFiniteSet(R) /\ w \notin R
  <2>1. IsFiniteSet(F) /\ w \in F /\ F \subseteq Writes /\ n = Total(f, F)
    BY Zenon DEF Waiting, Referenced
  <2> QED
    BY Zenon, <2>1, FS_RemoveElement
<1>2. /\ \A x \in Writes : f[x] \in Nat /\ g[x] \in Nat
      /\ \A x \in R : g[x] = f[x]
  <2>1. \A x \in Writes : f[x] \in Nat /\ g[x] \in Nat
    BY Zenon, BytesType
  <2>2. ASSUME NEW x \in R
        PROVE  g[x] = f[x]
    <3>1. x \in Writes /\ x # w
      BY Zenon, <1>1
    <3> QED
      BY Zenon, <3>1 DEF Bytes
  <2> QED
    BY Zenon, <2>1, <2>2
<1>3. G = IF gs[w].refs = {} THEN R ELSE R \union {w}
  BY Zenon DEF Referenced
<1>4. Total(f, F) = Total(f, R) + f[w] /\ Total(f, R) \in Nat
  <2> HIDE DEF F, f
  <2> QED
    BY Zenon, <1>1, <1>2, TotalRemove
<1>5. Total(g, R) = Total(f, R)
  <2> HIDE DEF R, f, g, F
  <2>1. \A y \in R : f[y] \in Nat /\ g[y] = f[y]
    BY Zenon, <1>1, <1>2 DEF R
  <2> QED
    BY Zenon, <1>1, <2>1, TotalSame
<1>6. IsFiniteSet(G) /\ Total(g, G) = Total(f, R) + g[w]
  <2>1. CASE gs[w].refs = {}
    <3>1. gs[w].refs \ Local = {}
      BY Zenon, <2>1
    <3>2. g[w] = Cardinality(gs[w].refs \ Local) * Size[w]
      BY Zenon, BytesType
    <3>3. Cardinality(gs[w].refs \ Local) = 0
      BY Zenon, <3>1, FS_EmptySet
    <3>4. g[w] = 0
      BY <3>2, <3>3, ConstantTypes
    <3> HIDE DEF G, g, R, f
    <3> QED
      BY <1>1, <1>3, <1>4, <1>5, <2>1, <3>4
  <2>2. CASE gs[w].refs # {}
    <3> HIDE DEF G, g, R, f, F
    <3>1. \A y \in R \union {w} : g[y] \in Nat
      BY Zenon, <1>1, <1>2 DEF R
    <3>2. Total(g, R \union {w}) = Total(g, R) + g[w]
      BY Zenon, <1>1, <3>1, TotalAdd
    <3>3. IsFiniteSet(R \union {w})
      BY Zenon, <1>1, FS_AddElement
    <3> QED
      BY Zenon, <1>3, <1>5, <2>2, <3>2, <3>3
  <2> QED
    BY Zenon, <2>1, <2>2
<1> DEFINE A == hs[w].refs \ Local
           B == gs[w].refs \ Local
<1>7. f[w] = Cardinality(A) * Size[w] /\ g[w] = Cardinality(B) * Size[w] /\ IsFiniteSet(A)
  BY Zenon, BytesType
<1>8. CASE r \in Local
  <2>1. A = B
    BY Zenon, <1>8
  <2>2. g[w] = f[w]
    BY Zenon, <1>7, <2>1
  <2> HIDE DEF F, G, f, g, R
  <2>3. n = Total(g, G)
    BY Zenon, <1>1, <1>4, <1>6, <2>2
  <2> QED
    BY Zenon, <1>6, <1>8, <2>3 DEF Waiting, G, g
<1>9. CASE r \notin Local
  <2>1. B = A \ {r} /\ r \in A
    BY Zenon, <1>9
  <2> DEFINE c == Cardinality(A)
             d == Cardinality(B)
             z == Size[w]
  <2>2. d = c - 1 /\ c \in Nat /\ z \in Nat
    <3>1. Cardinality(A \ {r}) = Cardinality(A) - 1 /\ Cardinality(A) \in Nat
      BY Zenon, <1>7, <2>1, FS_RemoveElement, FS_CardinalityType
    <3> QED
      BY Zenon, <2>1, <3>1, ConstantTypes
  <2>3. d * z = c * z - z
    <3> HIDE DEF c, d, z
    <3> QED
      BY <2>2
  <2>4. g[w] = f[w] - Size[w]
    BY Zenon, <1>7, <2>3
  <2>5. f[w] \in Nat /\ g[w] \in Nat /\ Size[w] \in Nat
    BY Zenon, <1>2, ConstantTypes
  <2> HIDE DEF F, G, f, g, R
  <2>6. n - Size[w] = Total(g, G)
    BY <1>1, <1>4, <1>6, <2>4, <2>5
  <2> QED
    BY Zenon, <1>6, <1>9, <2>6 DEF Waiting, G, g
<1> QED
  BY Zenon, <1>8, <1>9

\* A batch is sent to every node that is alive.
LEMMA WaitingMore ==
  ASSUME NEW hs \in [Writes -> Handler], NEW gs \in [Writes -> Handler], NEW n,
         Waiting(hs, n), NEW b \in Batches, NEW live \in SUBSET Replicas, live # {},
         \A x \in b : hs[x].refs = {} /\ gs[x].refs = live,
         \A x \in Writes \ b : gs[x].refs = hs[x].refs
  PROVE  Waiting(gs, n + Cardinality(live \ Local) * Total(Size, b))
<1> DEFINE F == Referenced(hs)
           f == Bytes(hs)
           g == Bytes(gs)
           c == Cardinality(live \ Local)
<1>1. /\ IsFiniteSet(F) /\ F \subseteq Writes /\ n = Total(f, F)
      /\ IsFiniteSet(b) /\ b \subseteq Writes /\ F \intersect b = {}
  BY WriteResponseAssumption DEF Waiting, Referenced, Writes
<1>2. Referenced(gs) = F \union b
  BY Zenon, <1>1 DEF Referenced
<1>3. \A x \in Writes : f[x] \in Nat /\ g[x] \in Nat
  BY Zenon, BytesType
<1>4. \A x \in F : g[x] = f[x]
  BY Zenon, <1>1 DEF Bytes
<1>5. \A x \in b : g[x] = c * Size[x] /\ Size[x] \in Nat
  BY Zenon, <1>1, ConstantTypes DEF Bytes
<1>6. c \in Nat
  <2>1. IsFiniteSet(live)
    BY Zenon, FS_Subset, WriteResponseAssumption
  <2>2. IsFiniteSet(live \ Local)
    BY Zenon, <2>1, FS_Difference
  <2> QED
    BY Zenon, <2>2, FS_CardinalityType
<1> HIDE DEF F, f, g, c
<1>7. Total(g, F \union b) = Total(g, F) + Total(g, b)
  <2>1. \A y \in F \union b : g[y] \in Nat
    BY Zenon, <1>1, <1>3
  <2> QED
    BY Zenon, <1>1, <2>1, TotalUnion
<1>8. Total(g, F) = Total(f, F)
  <2>1. \A y \in F : f[y] \in Nat /\ g[y] = f[y]
    BY Zenon, <1>1, <1>3, <1>4
  <2> QED
    BY <1>1, <2>1, TotalSame
<1>9. Total(g, b) = c * Total(Size, b)
  <2>1. \A y \in b : Size[y] \in Nat /\ g[y] = c * Size[y]
    BY Zenon, <1>5
  <2> QED
    BY <1>1, <1>6, <2>1, TotalScaled
<1>10. IsFiniteSet(F \union b)
  BY Zenon, <1>1, FS_Union
<1>11. Total(g, F \union b) = n + c * Total(Size, b)
  BY Zenon, <1>1, <1>7, <1>8, <1>9
<1> QED
  BY Zenon, <1>2, <1>10, <1>11 DEF Waiting, g, c

-----------------------------------------------------------------------------
(* The invariant is inductive.                                             *)

\* Answers that are given stay: the step of AnsweredOnce.
AnswersStay ==
    \A w \in Writes : proxy.handler[w].ready # Pending =>
        proxy'.handler[w].ready = proxy.handler[w].ready

\* A step of one handler, which may release others: what is left to show is
\* about that handler.
LEMMA HandlerStep ==
  ASSUME IndInv, NEW w \in Writes, NEW a, UNCHANGED batch,
         acked' = [acked EXCEPT ![w] = a],
         Orderly(proxy'), Waiting(proxy'.handler, proxy'.queued_write_bytes),
         \A x \in Writes : x # w => Freed(proxy.handler[x], proxy'.handler[x]),
         proxy.handler[w] # NoHandler,
         Absent(proxy'.handler[w]) \/ Alive(proxy'.handler[w]),
         Uncounted(proxy'.handler[w]),
         Backed(proxy'.handler[w], a),
         proxy.handler[w].ready # Pending =>
           proxy'.handler[w].ready = proxy.handler[w].ready
  PROVE  IndInv' /\ AnswersStay
<1>1. /\ acked' \in [Writes -> SUBSET (Replicas \X AllVersions)]
      /\ acked'[w] = a /\ \A x \in Writes : x # w => acked'[x] = acked[x]
  <2>1. a \in SUBSET (Replicas \X AllVersions)
    BY Zenon DEF Backed
  <2> QED
    BY Zenon, <2>1 DEF IndInv
<1>2. ASSUME NEW x \in Writes, x # w
      PROVE  /\ Absent(proxy'.handler[x]) \/ Alive(proxy'.handler[x])
             /\ Uncounted(proxy'.handler[x])
             /\ Backed(proxy'.handler[x], acked'[x])
             /\ proxy.handler[x].ready # Pending =>
                  proxy'.handler[x].ready = proxy.handler[x].ready
             /\ ~proxy.handler[x].throttled => proxy'.handler[x] = proxy.handler[x]
  <2> DEFINE g == proxy.handler[x]
             h == proxy'.handler[x]
  <2>1. /\ g \in Handler
        /\ Absent(g) \/ Sound(g)
        /\ Absent(g) \/ Alive(g)
        /\ Uncounted(g) /\ Backed(g, acked[x])
    BY Zenon DEF IndInv, Orderly, Proxy
  <2>2. Freed(g, h)
    BY Zenon, <1>2
  <2>3. acked'[x] = acked[x]
    BY Zenon, <1>1, <1>2
  <2> HIDE DEF g, h
  <2>4. /\ Absent(h) \/ Alive(h)
        /\ Uncounted(h)
        /\ g.ready # Pending => h.ready = g.ready
        /\ ~g.throttled => h = g
        /\ Backed(h, acked[x])
    BY Zenon, <2>1, <2>2, FreedKeeps
  <2> QED
    BY Zenon, <2>3, <2>4 DEF g, h
<1>3. AnswersStay
  BY Zenon, <1>2 DEF AnswersStay
<1>4. \A x \in Writes : proxy.handler[x] = NoHandler => proxy'.handler[x] = NoHandler
  <2>1. ~NoHandler.throttled
    BY Zenon DEF NoHandler
  <2> QED
    BY Zenon, <1>2, <2>1
<1>5. ASSUME NEW b \in Batches
      PROVE  Collected(proxy'.handler, b, batch[b])
  <2>1. b \subseteq Writes
    BY Zenon DEF Writes
  <2> DEFINE hs == proxy.handler
             gs == proxy'.handler
             s == batch[b]
  <2>2. /\ Collected(hs, b, s)
        /\ \A x \in b : hs[x].ready # Pending => gs[x].ready = hs[x].ready
        /\ \A x \in b : hs[x] = NoHandler => gs[x] = NoHandler
    BY Zenon, <1>3, <1>4, <2>1 DEF IndInv, AnswersStay
  <2> HIDE DEF hs, gs, s
  <2>3. Collected(gs, b, s)
    BY Zenon, <2>2, CollectedKept
  <2> QED
    BY Zenon, <2>3 DEF gs, s
<1>6. \A x \in Writes : /\ Absent(proxy'.handler[x]) \/ Alive(proxy'.handler[x])
                        /\ Uncounted(proxy'.handler[x])
                        /\ Backed(proxy'.handler[x], acked'[x])
  BY Zenon, <1>1, <1>2
<1>7. batch' \in [Batches -> BatchState] /\ \A b \in Batches : Collected(proxy'.handler, b, batch'[b])
  BY Zenon, <1>5 DEF IndInv
<1> QED
  BY Zenon, <1>1, <1>3, <1>6, <1>7 DEF IndInv

\* The end of a step of a handler: it is destroyed if nothing refers to it.
LEMMA DestroyedStep ==
  ASSUME IndInv, NEW w \in Writes, NEW a, NEW p, UNCHANGED batch,
         acked' = [acked EXCEPT ![w] = a],
         Orderly(p), Waiting(p.handler, p.queued_write_bytes),
         proxy' = Destroyed(p, w),
         \A x \in Writes : x # w => Freed(proxy.handler[x], p.handler[x]),
         proxy.handler[w] # NoHandler,
         Sound(p.handler[w]), Uncounted(p.handler[w]), Backed(p.handler[w], a),
         proxy.handler[w].ready # Pending =>
           p.handler[w].ready = proxy.handler[w].ready
  PROVE  IndInv' /\ AnswersStay
<1> DEFINE t == Destroyed(p, w)
<1>1. /\ Orderly(t)
      /\ t.queued_write_bytes = p.queued_write_bytes
      /\ \A x \in Writes : x # w => Freed(p.handler[x], t.handler[x])
  BY Zenon, DestroyedOrderly
<1>2. /\ Absent(t.handler[w]) \/ Alive(t.handler[w])
      /\ Uncounted(t.handler[w])
      /\ Backed(t.handler[w], a)
      /\ t.handler[w].refs = p.handler[w].refs
      /\ p.handler[w].ready # Pending => t.handler[w].ready = p.handler[w].ready
  BY Zenon, DestroyedKeeps
<1> HIDE DEF t
<1>3. ASSUME NEW x \in Writes, x # w
      PROVE  /\ Freed(proxy.handler[x], t.handler[x])
             /\ t.handler[x].refs = p.handler[x].refs
  <2>1. Freed(proxy.handler[x], p.handler[x]) /\ Freed(p.handler[x], t.handler[x])
    BY Zenon, <1>1, <1>3
  <2>3. p.handler[x] \in Handler /\ proxy.handler[x] \in Handler
    BY Zenon DEF IndInv, Orderly, Proxy
  <2>2. Freed(proxy.handler[x], t.handler[x])
    BY Zenon, <2>1, <2>3, FreedTwice
  <2>4. t.handler[x].refs = p.handler[x].refs
    BY Zenon, <2>1, <2>3 DEF Freed, Released, Handler
  <2> QED
    BY Zenon, <2>2, <2>4
<1>4. Waiting(t.handler, t.queued_write_bytes)
  <2>1. \A x \in Writes : t.handler[x].refs = p.handler[x].refs
    BY Zenon, <1>2, <1>3
  <2>2. Waiting(t.handler, p.queued_write_bytes)
    BY <2>1, WaitingSame
  <2> QED
    BY Zenon, <1>1, <2>2
<1>5. proxy' = t
  BY Zenon DEF t
<1>6. proxy.handler[w].ready # Pending => t.handler[w].ready = proxy.handler[w].ready
  BY Zenon, <1>2
<1> QED
  BY Zenon, <1>1, <1>2, <1>3, <1>4, <1>5, <1>6, HandlerStep

\* A handler that something refers to is there.
LEMMA Present ==
  ASSUME IndInv, NEW w \in Writes, Alive(proxy.handler[w])
  PROVE  /\ proxy.handler[w] \in Handler
         /\ Sound(proxy.handler[w])
         /\ proxy.handler[w] # NoHandler
<1>1. ~Absent(proxy.handler[w])
  BY Zenon DEF Alive, Absent, Gone, NoHandler
<1>2. proxy.handler[w] # NoHandler
  BY SMTT(30) DEF Alive, NoHandler
<1> QED
  BY Zenon, <1>1, <1>2 DEF IndInv, Orderly, Proxy

\* MUTATION_DONE of another node.
LEMMA RemoteDoneStep ==
  ASSUME IndInv, NEW w \in Writes, NEW r \in Replicas, NEW v \in Versions[w],
         RemoteDone(w, r, v)
  PROVE  IndInv' /\ AnswersStay
<1> DEFINE h == proxy.handler[w]
           p == GotResponse(proxy, w, r, v)
           g == p.handler[w]
           a == IF h.ready = Pending THEN acked[w] \union {<<r, v>>} ELSE acked[w]
<1>1. /\ r \notin Local /\ h.registered /\ r \in h.targets
      /\ proxy' = Destroyed(p, w) /\ UNCHANGED batch
  BY Zenon DEF RemoteDone
<1>2. acked' = [acked EXCEPT ![w] = a]
  BY Zenon DEF RemoteDone, Acks, IndInv
<1>3. h \in Handler /\ h # NoHandler
  BY Zenon, <1>1, Present DEF Alive
<1>4. v \in AllVersions
  BY Zenon DEF AllVersions
<1>5. Orderly(proxy) /\ Backed(h, acked[w]) /\ Uncounted(h)
  BY Zenon DEF IndInv
<1>6. /\ Orderly(p) /\ Sound(g)
      /\ \A x \in Writes : x # w => p.handler[x] = proxy.handler[x]
      /\ p.queued_write_bytes = proxy.queued_write_bytes
      /\ g.refs = h.refs /\ g.targets = h.targets \ {r}
      /\ g.registered = (h.targets # {r})
      /\ g.cl_acks = h.cl_acks + 1 /\ g.commit_version = v
      /\ \/ g.ready = h.ready
         \/ h.ready = Pending /\ g.ready = Ok(v) /\ g.cl_acks >= BlockFor
  BY SMTT(30), <1>1, <1>5, GotResponseOrderly
<1> HIDE DEF p
<1>7. Backed(g, a)
  <2>1. h.cl_acks \in Nat
    BY Zenon, <1>3 DEF Handler
  <2> HIDE DEF h, g
  <2>2. Backed(g, IF h.ready = Pending THEN acked[w] \union {<<r, v>>} ELSE acked[w])
    <3>1. Backed(h, acked[w]) /\ h.registered /\ r \in h.targets
      BY Zenon, <1>1, <1>5
    <3>2. /\ g.targets = h.targets \ {r} /\ g.cl_acks = h.cl_acks + 1 /\ g.commit_version = v
          /\ \/ g.ready = h.ready
             \/ h.ready = Pending /\ g.ready = Ok(v) /\ g.cl_acks >= BlockFor
      BY Zenon, <1>6
    <3> QED
      BY Zenon, <1>4, <2>1, <3>1, <3>2, BackedGot
  <2> QED
    BY Zenon, <2>2
<1>8. Uncounted(g)
  BY Zenon, <1>1, <1>5, <1>6 DEF Uncounted
<1>9. Waiting(p.handler, p.queued_write_bytes)
  <2>1. \A x \in Writes : p.handler[x].refs = proxy.handler[x].refs
    BY Zenon, <1>6
  <2>2. Waiting(p.handler, proxy.queued_write_bytes)
    BY Zenon, <2>1, WaitingSame DEF IndInv
  <2> QED
    BY Zenon, <1>6, <2>2
<1>10. \A x \in Writes : x # w => Freed(proxy.handler[x], p.handler[x])
  BY Zenon, <1>6 DEF Freed
<1>11. h.ready # Pending => g.ready = h.ready
  BY Zenon, <1>6
<1> HIDE DEF a
<1> QED
  BY Zenon, <1>1, <1>2, <1>3, <1>6, <1>7, <1>8, <1>9, <1>10, <1>11, DestroyedStep

\* A pointer to the handler is dropped, and with the last one the handler.
LEMMA UnreferencedStep ==
  ASSUME IndInv, NEW w \in Writes, NEW a, NEW p, NEW n, UNCHANGED batch,
         acked' = [acked EXCEPT ![w] = a],
         Orderly(p), NEW r \in p.handler[w].refs, Waiting(p.handler, n),
         r \in Local => p.queued_write_bytes = n,
         r \notin Local => p.queued_write_bytes = n - Size[w],
         proxy' = Unreferenced(p, w, r),
         \A x \in Writes : x # w => Freed(proxy.handler[x], p.handler[x]),
         proxy.handler[w] # NoHandler,
         Sound(p.handler[w]), Backed(p.handler[w], a),
         p.handler[w].registered =>
           (p.handler[w].refs \ {r}) \intersect Local \subseteq p.handler[w].targets,
         proxy.handler[w].ready # Pending =>
           p.handler[w].ready = proxy.handler[w].ready
  PROVE  IndInv' /\ AnswersStay
<1> DEFINE h == p.handler[w]
           g == [h EXCEPT !.refs = @ \ {r}]
           q == With(p, w, g)
<1>1. h \in Handler /\ p.handler \in [Writes -> Handler]
  BY Zenon DEF Orderly, Proxy
<1>2. /\ g \in Handler
      /\ g.refs = h.refs \ {r}
      /\ g.registered = h.registered /\ g.targets = h.targets
      /\ g.cl_acks = h.cl_acks /\ g.cl_achieved = h.cl_achieved
      /\ g.timedout = h.timedout /\ g.throttled = h.throttled
      /\ g.commit_version = h.commit_version /\ g.ready = h.ready
  BY Zenon, <1>1 DEF Handler
<1>3. proxy' = Destroyed(q, w)
  BY Zenon DEF Unreferenced
<1> HIDE DEF g
<1>4. Sound(g)
  BY Zenon, <1>2 DEF Sound
<1>5. /\ Orderly(q)
      /\ q.handler[w] = g
      /\ \A x \in Writes : x # w => q.handler[x] = p.handler[x]
      /\ q.queued_write_bytes = p.queued_write_bytes
  BY SMTT(30), <1>2, <1>4, WithOrderly
<1> HIDE DEF q
<1>6. Backed(g, a)
  <2> HIDE DEF h
  <2>1. Backed(h, a)
    BY Zenon DEF h
  <2> QED
    BY Zenon, <1>2, <2>1, BackedSame
<1>7. Uncounted(g)
  BY Zenon, <1>2 DEF Uncounted
<1>8. Waiting(q.handler, q.queued_write_bytes)
  <2>1. q.handler \in [Writes -> Handler]
    BY Zenon, <1>5 DEF Orderly, Proxy
  <2>2. \A x \in Writes : x # w => q.handler[x].refs = p.handler[x].refs
    BY Zenon, <1>5
  <2>3. q.handler[w].refs = p.handler[w].refs \ {r}
    BY Zenon, <1>2, <1>5
  <2>4. /\ r \in Local => Waiting(q.handler, n)
        /\ r \notin Local => Waiting(q.handler, n - Size[w])
    BY Zenon, <1>1, <2>1, <2>2, <2>3, WaitingLess
  <2> QED
    BY Zenon, <1>5, <2>4
<1>9. \A x \in Writes : x # w => Freed(proxy.handler[x], q.handler[x])
  BY Zenon, <1>5
<1>10. proxy.handler[w].ready # Pending => q.handler[w].ready = proxy.handler[w].ready
  BY Zenon, <1>2, <1>5
<1> QED
  BY Zenon, <1>3, <1>4, <1>5, <1>6, <1>7, <1>8, <1>9, <1>10, DestroyedStep

\* mutate_locally() has failed.
LEMMA LocalFailsStep ==
  ASSUME IndInv, NEW w \in Writes, NEW r \in Replicas, r \in Local,
         r \in proxy.handler[w].refs, UNCHANGED <<batch, acked>>,
         proxy' = Unreferenced(proxy, w, r)
  PROVE  IndInv' /\ AnswersStay
<1> DEFINE h == proxy.handler[w]
<1>1. h \in Handler /\ Sound(h) /\ h # NoHandler
  BY Zenon, Present DEF Alive
<1>2. acked' = [acked EXCEPT ![w] = acked[w]]
  BY Zenon DEF IndInv
<1>3. /\ Orderly(proxy) /\ Backed(h, acked[w])
      /\ Waiting(proxy.handler, proxy.queued_write_bytes)
      /\ h.registered => (h.refs \ {r}) \intersect Local \subseteq h.targets
  BY Zenon DEF IndInv, Uncounted
<1>4. \A x \in Writes : x # w => Freed(proxy.handler[x], proxy.handler[x])
  BY Zenon DEF Freed
<1> QED
  BY Zenon, <1>1, <1>2, <1>3, <1>4, UnreferencedStep

\* mutate_locally() has applied the write.
LEMMA LocalDoneStep ==
  ASSUME IndInv, NEW w \in Writes, NEW r \in Replicas, NEW v \in Versions[w],
         LocalDone(w, r, v)
  PROVE  IndInv' /\ AnswersStay
<1> DEFINE h == proxy.handler[w]
           p == GotResponse(proxy, w, r, v)
           g == p.handler[w]
           a == IF h.ready = Pending THEN acked[w] \union {<<r, v>>} ELSE acked[w]
<1>1. r \in Local /\ r \in h.refs /\ UNCHANGED batch
  BY Zenon DEF LocalDone
<1>2. CASE ~h.registered
  BY Zenon, <1>1, <1>2, LocalFailsStep DEF LocalDone
<1>3. CASE h.registered
  <2>1. /\ proxy' = Unreferenced(p, w, r)
        /\ acked' = [acked EXCEPT ![w] = a]
    BY Zenon, <1>3 DEF LocalDone, Acks, IndInv
  <2>2. h \in Handler /\ h # NoHandler
    BY Zenon, <1>3, Present DEF Alive
  <2>3. v \in AllVersions
    BY Zenon DEF AllVersions
  <2>4. Orderly(proxy) /\ Backed(h, acked[w]) /\ h.refs \intersect Local \subseteq h.targets
    BY Zenon, <1>3 DEF IndInv, Uncounted
  <2>5. r \in h.targets
    BY Zenon, <1>1, <2>4
  <2>6. /\ Orderly(p) /\ Sound(g)
        /\ \A x \in Writes : x # w => p.handler[x] = proxy.handler[x]
        /\ p.queued_write_bytes = proxy.queued_write_bytes
        /\ g.refs = h.refs /\ g.targets = h.targets \ {r}
        /\ g.registered = (h.targets # {r})
        /\ g.cl_acks = h.cl_acks + 1 /\ g.commit_version = v
        /\ \/ g.ready = h.ready
           \/ h.ready = Pending /\ g.ready = Ok(v) /\ g.cl_acks >= BlockFor
    BY SMTT(30), <1>3, <2>4, <2>5, GotResponseOrderly
  <2> HIDE DEF p
  <2>7. Backed(g, a)
    <3>1. h.cl_acks \in Nat
      BY Zenon, <2>2 DEF Handler
    <3> HIDE DEF h, g
    <3>2. Backed(g, IF h.ready = Pending THEN acked[w] \union {<<r, v>>} ELSE acked[w])
      BY Zenon, <1>3, <2>3, <2>4, <2>5, <2>6, <3>1, BackedGot
    <3> QED
      BY Zenon, <3>2
  <2>8. (g.refs \ {r}) \intersect Local \subseteq g.targets
    BY Zenon, <2>4, <2>6
  <2>9. Waiting(p.handler, proxy.queued_write_bytes)
    <3>1. \A x \in Writes : p.handler[x].refs = proxy.handler[x].refs
      BY Zenon, <2>6
    <3> QED
      BY Zenon, <3>1, WaitingSame DEF IndInv
  <2>10. \A x \in Writes : x # w => Freed(proxy.handler[x], p.handler[x])
    BY Zenon, <2>6 DEF Freed
  <2>11. h.ready # Pending => g.ready = h.ready
    BY Zenon, <2>6
  <2>12. r \in p.handler[w].refs
    BY Zenon, <1>1, <2>6
  <2> HIDE DEF a
  <2> QED
    BY Zenon, <1>1, <2>1, <2>2, <2>6, <2>7, <2>8, <2>9, <2>10, <2>11, <2>12, UnreferencedStep
<1> QED
  BY Zenon, <1>2, <1>3

\* The expiry timer.
LEMMA ExpireStep ==
  ASSUME IndInv, NEW w \in Writes, Expire(w)
  PROVE  IndInv' /\ AnswersStay
<1> DEFINE h == proxy.handler[w]
           g == [h EXCEPT !.timedout = TRUE, !.registered = FALSE]
           q == With(proxy, w, g)
<1>1. h.registered /\ proxy' = Destroyed(q, w) /\ UNCHANGED <<batch, acked>>
  BY Zenon DEF Expire
<1>2. h \in Handler /\ Sound(h) /\ h # NoHandler
  BY Zenon, <1>1, Present DEF Alive
<1>3. acked' = [acked EXCEPT ![w] = acked[w]]
  BY Zenon, <1>1 DEF IndInv
<1>4. Orderly(proxy) /\ Backed(h, acked[w])
  BY Zenon DEF IndInv
<1>5. /\ g \in Handler /\ ~g.registered /\ g.timedout
      /\ g.refs = h.refs /\ g.targets = h.targets
      /\ g.cl_acks = h.cl_acks /\ g.cl_achieved = h.cl_achieved
      /\ g.throttled = h.throttled
      /\ g.commit_version = h.commit_version /\ g.ready = h.ready
  BY Zenon, <1>2 DEF Handler
<1> HIDE DEF g
<1>6. Sound(g)
  BY Zenon, <1>2, <1>5 DEF Sound
<1>7. /\ Orderly(q)
      /\ q.handler[w] = g
      /\ \A x \in Writes : x # w => q.handler[x] = proxy.handler[x]
      /\ q.queued_write_bytes = proxy.queued_write_bytes
  BY SMTT(30), <1>2, <1>4, <1>5, <1>6, WithOrderly
<1> HIDE DEF q
<1>8. Backed(g, acked[w])
  <2> HIDE DEF h
  <2> QED
    BY Zenon, <1>4, <1>5, BackedSame
<1>9. Uncounted(g)
  BY Zenon, <1>5 DEF Uncounted
<1>10. Waiting(q.handler, q.queued_write_bytes)
  <2>1. \A x \in Writes : q.handler[x].refs = proxy.handler[x].refs
    BY Zenon, <1>5, <1>7
  <2>2. Waiting(q.handler, proxy.queued_write_bytes)
    BY Zenon, <2>1, WaitingSame DEF IndInv
  <2> QED
    BY Zenon, <1>7, <2>2
<1>11. \A x \in Writes : x # w => Freed(proxy.handler[x], q.handler[x])
  BY Zenon, <1>7 DEF Freed
<1>12. /\ Sound(q.handler[w]) /\ Uncounted(q.handler[w])
       /\ Backed(q.handler[w], acked[w])
       /\ proxy.handler[w].ready # Pending => q.handler[w].ready = proxy.handler[w].ready
  BY Zenon, <1>5, <1>6, <1>7, <1>8, <1>9
<1>13. UNCHANGED batch /\ proxy' = Destroyed(q, w) /\ proxy.handler[w] # NoHandler
  BY Zenon, <1>1, <1>2
<1> QED
  BY Zenon, <1>3, <1>7, <1>10, <1>11, <1>12, <1>13, DestroyedStep

SetQueued(p, n) == [p EXCEPT !.queued_write_bytes = n]

\* queued_write_bytes is set: nothing else changes.
LEMMA QueuedOrderly ==
  ASSUME NEW p, Orderly(p), NEW n \in Int
  PROVE  LET t == SetQueued(p, n)
         IN  /\ Orderly(t)
             /\ t.handler = p.handler
             /\ t.queued_write_bytes = n
<1> DEFINE t == SetQueued(p, n)
<1>1. /\ t \in Proxy
      /\ t.handler = p.handler
      /\ t.throttled_writes = p.throttled_writes
      /\ t.queued_write_bytes = n
      /\ t.background_writes = p.background_writes
      /\ t.background_write_bytes = p.background_write_bytes
  BY Zenon DEF Orderly, Proxy, SetQueued
<1> HIDE DEF t
<1>2. Counted(t)
  BY Zenon, <1>1 DEF Counted, Unfinished, Orderly
<1>3. Orderly(t)
  BY Zenon, <1>1, <1>2 DEF Orderly
<1> QED
  BY Zenon, <1>1, <1>3 DEF t

\* The send to another node is over.
LEMMA SendOverStep ==
  ASSUME IndInv, NEW w \in Writes, NEW r \in Replicas, SendOver(w, r)
  PROVE  IndInv' /\ AnswersStay
<1> DEFINE n == proxy.queued_write_bytes
           h == proxy.handler[w]
           q == SetQueued(proxy, n - Size[w])
           p == Unthrottle(q)
           g == p.handler[w]
<1>1. /\ r \notin Local /\ r \in h.refs /\ UNCHANGED <<batch, acked>>
      /\ proxy' = Unreferenced(p, w, r)
  BY Zenon DEF SendOver, SetQueued
<1>2. h \in Handler /\ Sound(h) /\ h # NoHandler
  BY Zenon, <1>1, Present DEF Alive
<1>3. acked' = [acked EXCEPT ![w] = acked[w]]
  BY Zenon, <1>1 DEF IndInv
<1>4. /\ Orderly(proxy) /\ Backed(h, acked[w]) /\ Alive(h) /\ Uncounted(h)
      /\ Waiting(proxy.handler, n)
  BY Zenon, <1>1 DEF IndInv, Alive
<1>5. n - Size[w] \in Int
  BY SMTT(30), <1>4, ConstantTypes DEF Orderly, Proxy
<1>6. /\ Orderly(q)
      /\ q.handler = proxy.handler
      /\ q.queued_write_bytes = n - Size[w]
  BY Zenon, <1>4, <1>5, QueuedOrderly
<1> HIDE DEF q
<1>7. /\ Orderly(p)
      /\ \A x \in Writes : Freed(proxy.handler[x], p.handler[x])
      /\ p.queued_write_bytes = n - Size[w]
  BY Zenon, <1>6, UnthrottleOrderly
<1> HIDE DEF p
<1>8. Freed(h, g)
  BY Zenon, <1>7
<1>9. /\ g.refs = h.refs
      /\ Uncounted(g)
      /\ h.ready # Pending => g.ready = h.ready
      /\ Backed(g, acked[w])
  <2> HIDE DEF h, g
  <2> QED
    BY Zenon, <1>2, <1>4, <1>8, FreedKeeps
<1>10. Sound(g)
  <2>1. ~Absent(g)
    BY Zenon, <1>1, <1>9 DEF Absent, Gone, NoHandler
  <2> QED
    BY Zenon, <1>7, <2>1 DEF Orderly
<1>11. Waiting(p.handler, n)
  <2>1. \A x \in Writes : p.handler[x].refs = proxy.handler[x].refs
    <3>1. TAKE x \in Writes
    <3>2. proxy.handler[x] \in Handler
      BY Zenon, <1>4 DEF Orderly, Proxy
    <3> QED
      BY Zenon, <1>7, <3>2 DEF Freed, Released, Handler
  <2> HIDE DEF n
  <2> QED
    BY <1>4, <2>1, WaitingSame
<1>12. g.registered => (g.refs \ {r}) \intersect Local \subseteq g.targets
  BY Zenon, <1>9 DEF Uncounted
<1> HIDE DEF n
<1> QED
  BY Zenon, <1>1, <1>2, <1>3, <1>7, <1>9, <1>10, <1>11, <1>12, UnreferencedStep

\* A new handler waits for more than enough replicas.
LEMMA NewHandlerSound ==
  ASSUME NEW live \in SUBSET Replicas, Cardinality(live) >= BlockFor
  PROVE  LET g == NewHandler(live)
         IN  /\ g \in Handler /\ Sound(g) /\ Uncounted(g) /\ Alive(g)
             /\ g.refs = live /\ ~g.cl_achieved /\ ~g.throttled /\ g.ready = Pending
             /\ Backed(g, {})
             /\ live # {}
<1> DEFINE g == NewHandler(live)
<1>1. /\ IsFiniteSet(live)
      /\ Cardinality(live) \in Nat /\ Cardinality(live) <= Cardinality(Replicas)
  BY Zenon, FS_Subset, FS_CardinalityType, WriteResponseAssumption
<1>2. /\ g \in Handler
      /\ g.registered /\ g.refs = live /\ g.targets = live /\ g.cl_acks = 0
      /\ ~g.cl_achieved /\ ~g.timedout /\ ~g.throttled /\ g.commit_version = 0
      /\ g.ready = Pending
  BY Zenon, AnswerKinds DEF Handler, NewHandler, NoHandler
<1> HIDE DEF g
<1>3. Sound(g)
  BY <1>1, <1>2, AnswerKinds, ConstantTypes DEF Sound
<1>4. live # {}
  BY FS_EmptySet, ConstantTypes
<1>5. Backed(g, {})
  BY Zenon, <1>2, FS_EmptySet, AnswerKinds DEF Backed
<1>6. Uncounted(g) /\ Alive(g)
  BY Zenon, <1>2 DEF Uncounted, Alive
<1> QED
  BY Zenon, <1>2, <1>3, <1>4, <1>5, <1>6 DEF g

\* The handlers of a batch are made: the queue and the background are as before.
LEMMA BegunOrderly ==
  ASSUME NEW p, Orderly(p), NEW t \in Proxy, NEW b \in Batches, NEW g \in Handler,
         Sound(g), ~g.cl_achieved, ~g.throttled,
         \A x \in b : p.handler[x] = NoHandler /\ t.handler[x] = g,
         \A x \in Writes \ b : t.handler[x] = p.handler[x],
         t.throttled_writes = p.throttled_writes,
         t.background_writes = p.background_writes,
         t.background_write_bytes = p.background_write_bytes
  PROVE  Orderly(t)
<1>1. ~NoHandler.cl_achieved /\ NoHandler.ready = Pending /\ ~NoHandler.throttled
  BY Zenon DEF NoHandler
<1>2. \A x \in Writes : Absent(t.handler[x]) \/ Sound(t.handler[x])
  BY Zenon DEF Orderly
<1>3. Queue(t.handler, t.throttled_writes)
  <2> DEFINE q == p.throttled_writes
  <2>1. Queue(p.handler, q)
    BY Zenon DEF Orderly
  <2>2. \A i \in DOMAIN q : q[i] \in Writes \ b
    BY SMTT(30), <1>1, <2>1 DEF Queue
  <2>3. \A i \in DOMAIN q : /\ t.handler[q[i]].cl_achieved \/ t.handler[q[i]].ready # Pending
                            /\ t.handler[q[i]].registered => t.handler[q[i]].throttled
    BY Zenon, <2>1, <2>2 DEF Queue
  <2>4. ASSUME NEW w \in Writes, t.handler[w].throttled, t.handler[w].registered
        PROVE  \E i \in DOMAIN q : q[i] = w
    <3>1. w \notin b
      BY Zenon, <2>4
    <3> QED
      BY Zenon, <2>1, <2>4, <3>1 DEF Queue
  <2> QED
    BY SMTT(30), <2>1, <2>3, <2>4 DEF Queue
<1>4. Unfinished(t) = Unfinished(p)
  BY Zenon, <1>1 DEF Unfinished
<1>5. Counted(t)
  BY Zenon, <1>4 DEF Counted, Orderly
<1> QED
  BY Zenon, <1>2, <1>3, <1>5 DEF Orderly

\* A batch is begun.
LEMMA BeginStep ==
  ASSUME IndInv, NEW b \in Batches, NEW live \in SUBSET Replicas, Begin(b, live)
  PROVE  IndInv' /\ AnswersStay
<1> DEFINE g == NewHandler(live)
           n == proxy.queued_write_bytes
           m == n + Cardinality(live \ Local) * Total(Size, b)
           hs == proxy.handler
           gs == [x \in Writes |-> IF x \in b THEN g ELSE hs[x]]
<1>1. /\ batch[b].result = Pending /\ UNCHANGED <<batch, acked>>
      /\ \A x \in b : hs[x] = NoHandler
  BY Zenon DEF Begin, Begun
<1>2. /\ g \in Handler /\ Sound(g) /\ Uncounted(g) /\ Alive(g)
      /\ g.refs = live /\ ~g.cl_achieved /\ ~g.throttled /\ g.ready = Pending
      /\ Backed(g, {})
      /\ live # {}
  BY Zenon, NewHandlerSound DEF Begin
<1>3. Orderly(proxy) /\ proxy \in Proxy /\ hs \in [Writes -> Handler] /\ n \in Int
  BY Zenon DEF IndInv, Orderly, Proxy
<1>4. b \subseteq Writes /\ IsFiniteSet(b)
  BY Zenon, WriteResponseAssumption DEF Writes
<1>5. m \in Int
  <2>1. \A x \in b : Size[x] \in Nat
    BY Zenon, <1>4, ConstantTypes
  <2>2. Total(Size, b) \in Nat
    BY Zenon, <1>4, <2>1, TotalNat
  <2>3. IsFiniteSet(live)
    BY Zenon, FS_Subset, WriteResponseAssumption
  <2>4. IsFiniteSet(live \ Local)
    BY Zenon, <2>3, FS_Difference
  <2>5. Cardinality(live \ Local) \in Nat
    BY Zenon, <2>4, FS_CardinalityType
  <2> QED
    BY <1>3, <2>2, <2>5
<1>6. proxy' = [proxy EXCEPT !.handler = gs, !.queued_write_bytes = m]
  BY Zenon DEF Begin, Total
<1>7. gs \in [Writes -> Handler]
  BY Zenon, <1>2, <1>3
<1> HIDE DEF g, m, gs
<1>8. /\ proxy' \in Proxy
      /\ proxy'.handler = gs
      /\ proxy'.queued_write_bytes = m
      /\ proxy'.throttled_writes = proxy.throttled_writes
      /\ proxy'.background_writes = proxy.background_writes
      /\ proxy'.background_write_bytes = proxy.background_write_bytes
  BY Zenon, <1>3, <1>5, <1>6, <1>7 DEF Proxy
<1>9. /\ \A x \in b : gs[x] = g
      /\ \A x \in Writes \ b : gs[x] = hs[x]
  BY Zenon, <1>4 DEF gs
<1>10. Orderly(proxy')
  BY SMTT(30), <1>1, <1>2, <1>3, <1>8, <1>9, BegunOrderly
<1>11. Waiting(gs, m)
  <2>1. Waiting(hs, n)
    BY Zenon DEF IndInv
  <2>2. \A x \in b : hs[x].refs = {} /\ gs[x].refs = live
    BY <1>1, <1>2, <1>9 DEF NoHandler
  <2>3. \A x \in Writes \ b : gs[x].refs = hs[x].refs
    BY Zenon, <1>9
  <2> HIDE DEF hs, n
  <2> QED
    BY Zenon, <1>2, <1>3, <1>7, <2>1, <2>2, <2>3, WaitingMore DEF m
<1>12. ASSUME NEW x \in Writes
       PROVE  /\ Absent(gs[x]) \/ Alive(gs[x])
              /\ Uncounted(gs[x])
              /\ Backed(gs[x], acked[x])
              /\ hs[x].ready # Pending => gs[x].ready = hs[x].ready
  <2>1. CASE x \in b
    <3>1. Backed(NoHandler, acked[x])
      BY Zenon, <1>1, <2>1 DEF IndInv
    <3>2. acked[x] = {}
      BY Zenon, <3>1, FS_EmptySet DEF Backed, NoHandler
    <3>3. hs[x].ready = Pending
      BY <1>1, <2>1 DEF NoHandler
    <3> QED
      BY Zenon, <1>2, <1>9, <2>1, <3>2, <3>3
  <2>2. CASE x \notin b
    BY Zenon, <1>9, <2>2 DEF IndInv
  <2> QED
    BY Zenon, <2>1, <2>2
<1>13. AnswersStay
  BY Zenon, <1>8, <1>12 DEF AnswersStay
<1>14. ASSUME NEW c \in Batches
       PROVE  Collected(gs, c, batch[c])
  <2>1. c \subseteq Writes /\ (c = b \/ c \intersect b = {})
    BY Zenon, WriteResponseAssumption DEF Writes
  <2>2. Collected(hs, c, batch[c])
    BY Zenon DEF IndInv
  <2>3. \A x \in c : hs[x].ready # Pending => gs[x].ready = hs[x].ready
    BY Zenon, <1>12, <2>1
  <2>4. \A x \in c : hs[x] = NoHandler => gs[x] = NoHandler \/ batch[c].result = Pending
    BY Zenon, <1>1, <1>9, <2>1
  <2> HIDE DEF hs
  <2> QED
    BY Zenon, <2>2, <2>3, <2>4, CollectedKept
<1>15. /\ acked' \in [Writes -> SUBSET (Replicas \X AllVersions)]
       /\ batch' \in [Batches -> BatchState]
  BY Zenon, <1>1 DEF IndInv
<1>16. /\ \A x \in Writes : /\ Absent(proxy'.handler[x]) \/ Alive(proxy'.handler[x])
                            /\ Uncounted(proxy'.handler[x])
                            /\ Backed(proxy'.handler[x], acked'[x])
       /\ \A c \in Batches : Collected(proxy'.handler, c, batch'[c])
       /\ Waiting(proxy'.handler, proxy'.queued_write_bytes)
  BY Zenon, <1>1, <1>8, <1>11, <1>12, <1>14
<1> QED
  BY Zenon, <1>10, <1>13, <1>15, <1>16 DEF IndInv

\* The batch of a write.
LEMMA BatchOfWrite ==
  ASSUME NEW w \in Writes
  PROVE  BatchOf(w) \in Batches /\ w \in BatchOf(w)
BY Zenon DEF BatchOf, Writes

\* What complete() does to the state of the batch.
LEMMA CompletedFields ==
  ASSUME NEW s \in BatchState, NEW w, NEW ready \in Answers
  PROVE  LET t == Completed(s, w, ready)
         IN  /\ t.result \in Answers => t \in BatchState
             /\ t.todo = s.todo \ {w}
             /\ t.ex = (s.ex \/ ready.kind # "ok")
             /\ t.max_commit_version \in Nat
             /\ \/ /\ ready.version > s.max_commit_version
                   /\ t.max_commit_version = ready.version
                \/ /\ ready.version <= s.max_commit_version
                   /\ t.max_commit_version = s.max_commit_version
             /\ t.result = IF t.todo # {} THEN s.result
                           ELSE IF t.ex THEN Failed ELSE Ok(t.max_commit_version)
<1>1. ready.version \in Nat /\ s.max_commit_version \in Nat
  BY Zenon, AnswerKinds DEF BatchState
<1> DEFINE x == s.ex \/ ready.kind # "ok"
           m == IF ready.version > s.max_commit_version THEN ready.version
                ELSE s.max_commit_version
           d == s.todo \ {w}
           t1 == [s EXCEPT !.todo = d]
           t2 == [t1 EXCEPT !.ex = x]
           t3 == [t2 EXCEPT !.max_commit_version = m]
           y == IF t3.todo # {} THEN s.result
                ELSE IF t3.ex THEN Failed ELSE Ok(t3.max_commit_version)
           t4 == [t3 EXCEPT !.result = y]
<1>2. /\ m \in Nat
      /\ \/ ready.version > s.max_commit_version /\ m = ready.version
         \/ ready.version <= s.max_commit_version /\ m = s.max_commit_version
  BY <1>1
<1>3. x \in BOOLEAN /\ d \in SUBSET Writes
  BY Zenon DEF BatchState
<1>4. t3.result = s.result
  BY Zenon DEF BatchState
<1>5. Completed(s, w, ready) = t4
  BY <1>4 DEF Completed
<1> HIDE DEF x, m, d
<1>6. t1 \in BatchState /\ t1.todo = d
  BY Zenon, <1>3 DEF BatchState
<1> HIDE DEF t1
<1>7. t2 \in BatchState /\ t2.todo = d /\ t2.ex = x
  BY Zenon, <1>3, <1>6 DEF BatchState
<1> HIDE DEF t2
<1>8. t3 \in BatchState /\ t3.todo = d /\ t3.ex = x /\ t3.max_commit_version = m
  BY Zenon, <1>2, <1>7 DEF BatchState
<1>9. y = IF d # {} THEN s.result ELSE IF x THEN Failed ELSE Ok(m)
  BY <1>8
<1> HIDE DEF t3, y
<1>10. /\ t4.todo = d /\ t4.ex = x /\ t4.max_commit_version = m /\ t4.result = y
       /\ y \in Answers => t4 \in BatchState
  BY Zenon, <1>8 DEF BatchState
<1> HIDE DEF t4
<1>11. x = (s.ex \/ ready.kind # "ok") /\ d = s.todo \ {w}
  BY Zenon DEF x, d
<1> QED
  BY Zenon, <1>2, <1>5, <1>9, <1>10, <1>11

\* The batch collects an answer.
LEMMA CompletedCollected ==
  ASSUME NEW hs \in [Writes -> Handler], NEW b \in Batches, NEW s \in BatchState,
         Collected(hs, b, s), NEW w \in s.todo, hs[w].ready # Pending
  PROVE  LET t == Completed(s, w, hs[w].ready)
         IN  /\ s.result = Pending
             /\ t \in BatchState /\ Collected(hs, b, t)
             /\ t.todo = {} /\ ~t.ex =>
                  /\ \A x \in b : \E v \in AllVersions :
                       hs[x].ready = Ok(v) /\ v <= t.max_commit_version
                  /\ \E x \in b : hs[x].ready = Ok(t.max_commit_version)
<1> DEFINE ready == hs[w].ready
           t == Completed(s, w, ready)
<1>1. b \subseteq Writes /\ w \in b /\ b # {} /\ s.todo \subseteq b
  BY Zenon, WriteResponseAssumption DEF Writes, Collected
<1>2. \A x \in b : hs[x].ready \in Answers
  BY Zenon, <1>1 DEF Handler
<1>3. \A x \in b : hs[x].ready.version \in Nat
  BY Zenon, <1>2, AnswerKinds
<1>4. /\ t.result \in Answers => t \in BatchState
      /\ t.todo = s.todo \ {w}
      /\ t.ex = (s.ex \/ ready.kind # "ok")
      /\ t.max_commit_version \in Nat
      /\ \/ /\ ready.version > s.max_commit_version
            /\ t.max_commit_version = ready.version
         \/ /\ ready.version <= s.max_commit_version
            /\ t.max_commit_version = s.max_commit_version
      /\ t.result = IF t.todo # {} THEN s.result
                    ELSE IF t.ex THEN Failed ELSE Ok(t.max_commit_version)
  BY SMTT(30), <1>1, <1>2, CompletedFields
<1> HIDE DEF t
<1>5. s.result = Pending
  <2>1. hs[w] # NoHandler
    BY DEF NoHandler
  <2> QED
    BY Zenon, <1>1, <2>1 DEF Collected
<1>6. b \ t.todo = (b \ s.todo) \union {w}
  BY Zenon, <1>1, <1>4
<1>7. ASSUME NEW x \in b \ t.todo
      PROVE  /\ hs[x].ready # Pending
             /\ ~t.ex => hs[x].ready.kind = "ok"
             /\ hs[x].ready.version <= t.max_commit_version
  <2>1. CASE x = w
    <3>1. ready.version \in Nat /\ s.max_commit_version \in Nat
      BY Zenon, <1>1, <1>3 DEF BatchState
    <3>2. ready.version <= t.max_commit_version
      BY <1>4, <3>1
    <3> QED
      BY Zenon, <1>4, <2>1, <3>2
  <2>2. CASE x # w
    <3>1. /\ hs[x].ready # Pending
          /\ ~s.ex => hs[x].ready.kind = "ok"
          /\ hs[x].ready.version <= s.max_commit_version
      BY Zenon, <1>6, <2>2 DEF Collected
    <3>2. s.max_commit_version <= t.max_commit_version
      BY <1>1, <1>3, <1>4 DEF BatchState
    <3> QED
      BY <1>3, <1>4, <3>1, <3>2 DEF BatchState
  <2> QED
    BY Zenon, <2>1, <2>2
<1>8. \/ t.max_commit_version = 0
      \/ \E x \in b \ t.todo : hs[x].ready.version = t.max_commit_version
  BY Zenon, <1>1, <1>4, <1>6 DEF Collected
<1>9. ASSUME t.todo = {}, ~t.ex
      PROVE  /\ \A x \in b : \E v \in AllVersions :
                   hs[x].ready = Ok(v) /\ v <= t.max_commit_version
             /\ \E x \in b : hs[x].ready = Ok(t.max_commit_version)
  <2>1. ASSUME NEW x \in b
        PROVE  \E v \in AllVersions : hs[x].ready = Ok(v) /\ v <= t.max_commit_version
    <3>1. hs[x].ready.kind = "ok" /\ hs[x].ready.version <= t.max_commit_version
      BY Zenon, <1>7, <1>9
    <3>2. PICK v \in AllVersions : hs[x].ready = Ok(v)
      BY Zenon, <1>2, <3>1, AnswerKinds
    <3> QED
      BY <3>1, <3>2, AnswerKinds
  <2>2. PICK x \in b : hs[x].ready.version = t.max_commit_version
    <3>1. CASE t.max_commit_version = 0
      BY <1>1, <1>3, <1>7, <1>9, <3>1
    <3> QED
      BY Zenon, <1>8, <1>9, <3>1
  <2>3. hs[x].ready = Ok(t.max_commit_version)
    BY <2>1, <2>2, AnswerKinds
  <2> QED
    BY Zenon, <2>1, <2>3
<1>10. t.result \in Answers
  <2>1. CASE t.todo # {}
    BY Zenon, <1>4, <2>1 DEF BatchState
  <2>2. CASE t.todo = {} /\ t.ex
    BY Zenon, <1>4, <2>2, AnswerKinds
  <2>3. CASE t.todo = {} /\ ~t.ex
    BY Zenon, <1>2, <1>4, <1>9, <2>3
  <2> QED
    BY Zenon, <2>1, <2>2, <2>3
<1>11. t.ex \in BOOLEAN /\ t.todo \subseteq Writes /\ t.todo \subseteq b
  BY Zenon, <1>1, <1>4 DEF BatchState
<1>12. t \in BatchState
  BY Zenon, <1>4, <1>10
<1>13. t.result # Pending => t.todo = {}
  BY Zenon, <1>4, <1>5
<1>14. t.result = Pending => t.todo # {}
  BY Zenon, <1>4, AnswerKinds
<1>15. Collected(hs, b, t)
  BY Zenon, <1>4, <1>7, <1>8, <1>11, <1>13, <1>14 DEF Collected
<1> QED
  BY Zenon, <1>5, <1>9, <1>12, <1>15 DEF t

\* A step of one batch leaves the handlers alone.
LEMMA BatchStep ==
  ASSUME IndInv, NEW b \in Batches, NEW s \in BatchState,
         Collected(proxy.handler, b, s),
         batch' = [batch EXCEPT ![b] = s], UNCHANGED <<proxy, acked>>
  PROVE  IndInv' /\ AnswersStay
<1>1. batch' \in [Batches -> BatchState]
  BY Zenon DEF IndInv
<1>2. \A c \in Batches : Collected(proxy.handler, c, batch'[c])
  BY Zenon DEF IndInv
<1>3. AnswersStay
  BY Zenon DEF AnswersStay
<1> QED
  BY Zenon, <1>1, <1>2, <1>3 DEF IndInv

\* There are not enough nodes alive for the batch.
LEMMA RefuseStep ==
  ASSUME IndInv, NEW b \in Batches, NEW live \in SUBSET Replicas, Refuse(b, live)
  PROVE  IndInv' /\ AnswersStay
<1> DEFINE s == batch[b]
           t == [s EXCEPT !.result = Failed]
<1>1. s \in BatchState /\ Collected(proxy.handler, b, s) /\ s.result = Pending
  BY Zenon DEF IndInv, Refuse
<1>2. /\ t \in BatchState /\ t.result = Failed /\ t.todo = s.todo /\ t.ex = s.ex
      /\ t.max_commit_version = s.max_commit_version
  BY Zenon, <1>1, AnswerKinds DEF BatchState
<1>3. batch' = [batch EXCEPT ![b] = t] /\ UNCHANGED <<proxy, acked>>
  BY Zenon DEF Refuse
<1>4. \A w \in b : proxy.handler[w] = NoHandler
  BY Zenon DEF Refuse, Begun
<1> HIDE DEF t, s
<1>5. Collected(proxy.handler, b, t)
  BY Zenon, <1>1, <1>2, <1>4, AnswerKinds DEF Collected
<1> QED
  BY Zenon, <1>2, <1>3, <1>5, BatchStep

\* The batch takes the answer of a write.
LEMMA CollectStep ==
  ASSUME IndInv, NEW w \in Writes, Collect(w)
  PROVE  IndInv' /\ AnswersStay
<1> DEFINE b == BatchOf(w)
           s == batch[b]
           t == Completed(s, w, proxy.handler[w].ready)
<1>1. b \in Batches
  BY Zenon, BatchOfWrite
<1>2. /\ w \in s.todo /\ proxy.handler[w].ready # Pending
      /\ batch' = [batch EXCEPT ![b] = t] /\ UNCHANGED <<proxy, acked>>
  BY Zenon DEF Collect
<1>3. /\ s \in BatchState /\ Collected(proxy.handler, b, s)
      /\ proxy.handler \in [Writes -> Handler]
  BY Zenon, <1>1 DEF IndInv, Orderly, Proxy
<1> HIDE DEF b, s
<1>4. t \in BatchState /\ Collected(proxy.handler, b, t)
  BY Zenon, <1>1, <1>2, <1>3, CompletedCollected
<1> HIDE DEF t
<1> QED
  BY Zenon, <1>1, <1>2, <1>4, BatchStep

\* The coordinator starts without handlers and with nothing collected.
LEMMA InitIndInv == Init => IndInv
<1> SUFFICES ASSUME Init
             PROVE  IndInv
  BY Zenon
<1>1. /\ NoHandler \in Handler /\ Absent(NoHandler) /\ Uncounted(NoHandler)
      /\ NoHandler.refs = {} /\ ~NoHandler.cl_achieved /\ ~NoHandler.throttled
  BY Zenon, AnswerKinds DEF Handler, NoHandler, Absent, Gone, Uncounted
<1>2. Backed(NoHandler, {})
  BY Zenon, FS_EmptySet, AnswerKinds DEF Backed, NoHandler
<1>3. /\ proxy \in Proxy /\ proxy.handler = [w \in Writes |-> NoHandler]
      /\ proxy.background_writes = 0 /\ proxy.background_write_bytes = 0
      /\ proxy.queued_write_bytes = 0 /\ proxy.throttled_writes = <<>>
  BY <1>1 DEF Init, Proxy
<1>4. Queue(proxy.handler, proxy.throttled_writes)
  BY <1>1, <1>3 DEF Queue
<1>5. Counted(proxy)
  <2>1. Unfinished(proxy) = {}
    BY Zenon, <1>1, <1>3 DEF Unfinished
  <2>2. 0 <= BackgroundLimit
    BY WriteResponseAssumption
  <2> QED
    BY Zenon, <1>3, <2>1, <2>2, FS_EmptySet, TotalEmpty DEF Counted
<1>6. Waiting(proxy.handler, proxy.queued_write_bytes)
  <2>1. Referenced(proxy.handler) = {}
    BY Zenon, <1>1, <1>3 DEF Referenced
  <2> QED
    BY Zenon, <1>3, <2>1, FS_EmptySet, TotalEmpty DEF Waiting
<1>7. Orderly(proxy)
  BY Zenon, <1>1, <1>3, <1>4, <1>5 DEF Orderly
<1>8. \A b \in Batches : NewBatch(b) \in BatchState /\ Collected(proxy.handler, b, NewBatch(b))
  <2>1. TAKE b \in Batches
  <2>2. b # {} /\ b \subseteq Writes
    BY Zenon, WriteResponseAssumption DEF Writes
  <2>3. NewBatch(b) \in BatchState
    BY Zenon, <2>2, AnswerKinds DEF NewBatch, BatchState
  <2>4. Collected(proxy.handler, b, NewBatch(b))
    BY Zenon, <2>2, AnswerKinds DEF NewBatch, Collected
  <2> QED
    BY Zenon, <2>3, <2>4
<1>9. /\ acked = [w \in Writes |-> {}] /\ batch = [b \in Batches |-> NewBatch(b)]
  BY Zenon DEF Init
<1>10. /\ acked \in [Writes -> SUBSET (Replicas \X AllVersions)]
       /\ batch \in [Batches -> BatchState]
       /\ \A b \in Batches : Collected(proxy.handler, b, batch[b])
  BY Zenon, <1>8, <1>9
<1>11. \A w \in Writes : /\ Absent(proxy.handler[w]) \/ Alive(proxy.handler[w])
                         /\ Uncounted(proxy.handler[w])
                         /\ Backed(proxy.handler[w], acked[w])
  BY Zenon, <1>1, <1>2, <1>3, <1>9
<1> QED
  BY Zenon, <1>6, <1>7, <1>10, <1>11 DEF IndInv

\* Every step keeps the invariant and the answers that are given.
LEMMA NextIndInv == IndInv /\ [Next]_vars => IndInv' /\ AnswersStay
<1> SUFFICES ASSUME IndInv, [Next]_vars
             PROVE  IndInv' /\ AnswersStay
  BY Zenon
<1>1. ASSUME NEW b \in Batches, NEW live \in SUBSET Replicas, Begin(b, live)
      PROVE  IndInv' /\ AnswersStay
  BY Zenon, <1>1, BeginStep
<1>2. ASSUME NEW b \in Batches, NEW live \in SUBSET Replicas, Refuse(b, live)
      PROVE  IndInv' /\ AnswersStay
  BY Zenon, <1>2, RefuseStep
<1>3. ASSUME NEW w \in Writes, NEW r \in Replicas, NEW v \in Versions[w],
             RemoteDone(w, r, v)
      PROVE  IndInv' /\ AnswersStay
  BY Zenon, <1>3, RemoteDoneStep
<1>4. ASSUME NEW w \in Writes, Expire(w)
      PROVE  IndInv' /\ AnswersStay
  BY Zenon, <1>4, ExpireStep
<1>5. ASSUME NEW w \in Writes, Collect(w)
      PROVE  IndInv' /\ AnswersStay
  BY Zenon, <1>5, CollectStep
<1>6. ASSUME NEW w \in Writes, NEW r \in Replicas, SendOver(w, r)
      PROVE  IndInv' /\ AnswersStay
  BY Zenon, <1>6, SendOverStep
<1>7. ASSUME NEW w \in Writes, NEW r \in Replicas, LocalFails(w, r)
      PROVE  IndInv' /\ AnswersStay
  BY Zenon, <1>7, LocalFailsStep DEF LocalFails
<1>8. ASSUME NEW w \in Writes, NEW r \in Replicas, NEW v \in Versions[w],
             LocalDone(w, r, v)
      PROVE  IndInv' /\ AnswersStay
  BY Zenon, <1>8, LocalDoneStep
<1>9. CASE UNCHANGED vars
  BY Zenon, <1>9 DEF vars, IndInv, AnswersStay
<1> QED
  BY Zenon, <1>1, <1>2, <1>3, <1>4, <1>5, <1>6, <1>7, <1>8, <1>9 DEF Next, OwnStep

\* The strengthened invariant holds in every state the coordinator reaches.
THEOREM IndInvHolds == Spec => []IndInv
<1>1. Init => IndInv
  BY Zenon, InitIndInv
<1>2. IndInv /\ [Next]_vars => IndInv'
  BY Zenon, NextIndInv
<1> QED
  BY <1>1, <1>2, PTL DEF Spec

\* The state of the coordinator keeps its types: no handler counts more
\* acknowledgements than there are replicas, and no counter of the proxy, which
\* are unsigned in the code, ever goes below zero.
THEOREM TypeCorrect == Spec => []TypeOK
<1>1. IndInv => TypeOK
  <2> SUFFICES ASSUME IndInv
               PROVE  TypeOK
    BY Zenon
  <2>1. proxy \in Proxy /\ Counted(proxy) /\ Waiting(proxy.handler, proxy.queued_write_bytes)
    BY Zenon DEF IndInv, Orderly
  <2>2. /\ proxy.handler \in [Writes -> Handler]
        /\ proxy.throttled_writes \in Seq(Writes)
    BY Zenon, <2>1 DEF Proxy
  <2>3. ASSUME NEW w \in Writes
        PROVE  proxy.handler[w].cl_acks \in 0 .. Cardinality(Replicas)
    <3>1. proxy.handler[w].cl_acks \in Nat
      BY Zenon, <2>2 DEF Handler
    <3>2. CASE Absent(proxy.handler[w])
      BY <3>2, ConstantTypes DEF Absent, Gone, NoHandler
    <3>3. CASE Sound(proxy.handler[w])
      BY <3>1, <3>3, ConstantTypes DEF Sound
    <3> QED
      BY Zenon, <3>2, <3>3 DEF IndInv, Orderly
  <2>4. Answers \subseteq Results
    BY Zenon DEF Answers, Results
  <2>5. proxy.handler \in [Writes ->
          [ registered : BOOLEAN, refs : SUBSET Replicas, targets : SUBSET Replicas,
            cl_acks : 0 .. Cardinality(Replicas), cl_achieved : BOOLEAN,
            timedout : BOOLEAN, throttled : BOOLEAN,
            commit_version : {0} \union AllVersions, ready : Results ]]
    <3>1. ASSUME NEW w \in Writes
          PROVE  proxy.handler[w] \in
                   [ registered : BOOLEAN, refs : SUBSET Replicas, targets : SUBSET Replicas,
                     cl_acks : 0 .. Cardinality(Replicas), cl_achieved : BOOLEAN,
                     timedout : BOOLEAN, throttled : BOOLEAN,
                     commit_version : {0} \union AllVersions, ready : Results ]
      <4>1. proxy.handler[w] \in Handler
        BY Zenon, <2>2
      <4> QED
        BY Zenon, <2>3, <2>4, <4>1 DEF Handler
    <3> QED
      BY Zenon, <2>2, <3>1
  <2>6. proxy.background_writes \in Nat
    BY Zenon, <2>1, FS_CardinalityType DEF Counted
  <2>7. proxy.background_write_bytes \in Nat
    <3>1. \A w \in Unfinished(proxy) : Size[w] \in Nat
      BY Zenon, ConstantTypes DEF Unfinished
    <3> QED
      BY Zenon, <2>1, <3>1, TotalNat DEF Counted
  <2>8. proxy.queued_write_bytes \in Nat
    <3>1. \A w \in Referenced(proxy.handler) : Bytes(proxy.handler)[w] \in Nat
      BY Zenon, <2>2, BytesType DEF Referenced
    <3> QED
      BY Zenon, <2>1, <3>1, TotalNat DEF Waiting
  <2> QED
    BY Zenon, <2>2, <2>5, <2>6, <2>7, <2>8 DEF TypeOK, IndInv
<1> QED
  BY <1>1, IndInvHolds, PTL

\* No promise is dropped without an answer: a handler leaves _response_handlers
\* only with its level achieved or by its timer, since as long as it is there
\* the targets that have not answered are enough for the level.
THEOREM NoPromiseBroken == Spec => []NoBrokenPromise
<1>1. IndInv => NoBrokenPromise
  BY AnswerKinds DEF IndInv, Orderly, Proxy, Handler, NoBrokenPromise
<1> QED
  BY <1>1, IndInvHolds, PTL

\* background_writes and background_write_bytes are exact, although they are
\* counted up in unthrottle() and down in the destructor, and the limit is
\* exceeded by one write at most, although unthrottle() releases several.
THEOREM CountersAreExact == Spec => []BackgroundIsCounted
<1>1. IndInv => BackgroundIsCounted
  <2> SUFFICES ASSUME IndInv
               PROVE  BackgroundIsCounted
    BY Zenon
  <2>1. Counted(proxy)
    BY Zenon DEF IndInv, Orderly
  <2>2. Unfinished(proxy) = {w \in Writes : InBackground(w)}
    <3>1. ASSUME NEW w \in Writes
          PROVE  /\ InBackground(w) => w \in Unfinished(proxy)
                 /\ w \in Unfinished(proxy) => InBackground(w)
      <4>1. Absent(proxy.handler[w]) => ~proxy.handler[w].cl_achieved
        BY Zenon DEF Absent, Gone, NoHandler
      <4>2. Absent(proxy.handler[w]) \/ Alive(proxy.handler[w])
        BY Zenon DEF IndInv
      <4> QED
        BY Zenon, <4>1, <4>2 DEF Unfinished, InBackground, Alive
    <3> QED
      BY Zenon, <3>1 DEF Unfinished
  <2>3. Total(Size, {w \in Writes : InBackground(w)})
        = MapThenSumSet(LAMBDA w : Size[w], {w \in Writes : InBackground(w)})
    BY Zenon DEF Total
  <2> QED
    BY Zenon, <2>1, <2>2, <2>3 DEF Counted, BackgroundIsCounted
<1> QED
  BY <1>1, IndInvHolds, PTL

\* A write whose answer is held back is in _throttled_writes, whichever other
\* writes were released or expired since it was put there.
THEOREM ThrottledStayQueued == Spec => []ThrottledIsQueued
<1>1. IndInv => ThrottledIsQueued
  BY Zenon DEF IndInv, Orderly, Queue, ThrottledIsQueued
<1> QED
  BY <1>1, IndInvHolds, PTL

\* A promise is given one value: acknowledgements after the answer, the timer,
\* a late release and the destructor leave it alone.
THEOREM AnswersAreFinal == Spec => AnsweredOnce
<1>1. IndInv /\ [Next]_vars => [AnswersStay]_vars
  BY Zenon, NextIndInv
<1>2. Spec => [][AnswersStay]_vars
  BY <1>1, IndInvHolds, PTL DEF Spec
<1>3. [][AnswersStay]_vars => AnsweredOnce
  BY PTL DEF AnswersStay, AnsweredOnce
<1> QED
  BY <1>2, <1>3, PTL

-----------------------------------------------------------------------------
(* The coordinator implements WriteBatch.                                  *)

\* What the clients are told.
Told == [b \in Batches |-> batch[b].result]

\* An acknowledgement is either counted, from a replica that was not counted
\* before, or it comes after the answer.
LEMMA AcksImplement ==
  ASSUME IndInv, NEW w \in Writes, NEW r \in Replicas, NEW v \in Versions[w],
         proxy.handler[w].registered, r \in proxy.handler[w].targets,
         Acks(w, r, v), UNCHANGED batch
  PROVE  [Batch!BatchNext]_(Batch!batchVars)
<1>1. UNCHANGED Told
  BY Zenon DEF Told
<1>2. CASE proxy.handler[w].ready # Pending
  <2>1. UNCHANGED acked
    BY Zenon, <1>2 DEF Acks, IndInv
  <2> QED
    BY Zenon, <1>1, <2>1 DEF Batch!batchVars, Told
<1>3. CASE proxy.handler[w].ready = Pending
  <2>1. Backed(proxy.handler[w], acked[w])
    BY Zenon DEF IndInv
  <2>2. \A a \in acked[w] : a[1] # r
    BY Zenon, <1>3, <2>1 DEF Backed
  <2>3. acked' = [acked EXCEPT ![w] = @ \union {<<r, v>>}]
    BY Zenon, <1>3 DEF Acks
  <2>4. Batch!Acknowledge(w, r, v)
    BY Zenon, <2>2, <2>3 DEF Batch!Acknowledge
  <2>5. w \in UNION Batches /\ v \in AllVersions
    BY Zenon DEF Writes, AllVersions
  <2> QED
    BY Zenon, <1>1, <2>4, <2>5 DEF Batch!BatchNext, Told
<1> QED
  BY Zenon, <1>2, <1>3

\* The last answer of a batch settles it.
LEMMA CollectImplements ==
  ASSUME IndInv, NEW w \in Writes, Collect(w)
  PROVE  [Batch!BatchNext]_(Batch!batchVars)
<1> DEFINE b == BatchOf(w)
           s == batch[b]
           hs == proxy.handler
           t == Completed(s, w, hs[w].ready)
<1>1. b \in Batches /\ b \subseteq Writes /\ b # {}
  BY BatchOfWrite, WriteResponseAssumption DEF Writes
<1>2. /\ w \in s.todo /\ hs[w].ready # Pending
      /\ batch' = [batch EXCEPT ![b] = t] /\ UNCHANGED <<proxy, acked>>
  BY Zenon DEF Collect
<1>3. /\ s \in BatchState /\ Collected(hs, b, s) /\ hs[w].ready \in Answers
      /\ hs \in [Writes -> Handler] /\ batch \in [Batches -> BatchState]
  BY Zenon, <1>1 DEF IndInv, Orderly, Proxy, Handler
<1> HIDE DEF b, s
<1>4. /\ s.result = Pending
      /\ t.todo = {} /\ ~t.ex =>
           /\ \A x \in b : \E v \in AllVersions :
                hs[x].ready = Ok(v) /\ v <= t.max_commit_version
           /\ \E x \in b : hs[x].ready = Ok(t.max_commit_version)
  BY SMTT(30), <1>1, <1>2, <1>3, CompletedCollected
<1>5. t.result = IF t.todo # {} THEN s.result
                 ELSE IF t.ex THEN Failed ELSE Ok(t.max_commit_version)
  BY SMTT(30), <1>3, CompletedFields
<1> HIDE DEF t, hs
<1>6. Told' = [Told EXCEPT ![b] = t.result] /\ Told[b] = Pending
  BY Zenon, <1>1, <1>2, <1>3, <1>4 DEF Told, s
<1>7. CASE t.todo # {}
  <2>1. UNCHANGED Told
    BY Zenon, <1>4, <1>5, <1>6, <1>7 DEF Told
  <2> QED
    BY Zenon, <1>2, <2>1 DEF Batch!batchVars, Told
<1>8. CASE t.todo = {} /\ t.ex
  <2>1. Batch!Fail(b)
    BY Zenon, <1>5, <1>6, <1>8 DEF Batch!Fail, Batch!Pending, Batch!Failed, Pending, Failed, Told
  <2> QED
    BY Zenon, <1>1, <1>2, <2>1 DEF Batch!BatchNext
<1>9. CASE t.todo = {} /\ ~t.ex
  <2> DEFINE pick == [x \in b |-> hs[x].ready.version]
             m == t.max_commit_version
  <2>1. ASSUME NEW x \in b
        PROVE  /\ pick[x] \in AllVersions /\ pick[x] <= m
               /\ hs[x].ready.kind = "ok"
    BY <1>4, <1>9, AnswerKinds
  <2>2. PICK y \in b : pick[y] = m
    BY Zenon, <1>4, <1>9, AnswerKinds
  <2>3. \A x \in b : /\ Cardinality(acked[x]) >= BlockFor
                     /\ \E a \in acked[x] : a[2] = pick[x]
    <3>1. TAKE x \in b
    <3>2. Backed(hs[x], acked[x])
      BY Zenon, <1>1 DEF IndInv, hs
    <3> QED
      BY Zenon, <2>1, <3>2 DEF Backed
  <2>4. pick \in [b -> AllVersions]
    BY Zenon, <2>1
  <2> HIDE DEF pick, m
  <2>5. Batch!Max({pick[x] : x \in b}) = m
    <3> DEFINE M == {pick[x] : x \in b}
    <3>1. m \in M /\ \A z \in M : z \in Nat /\ z <= m
      BY Zenon, <2>1, <2>2, ConstantTypes
    <3> HIDE DEF M
    <3>2. \A u \in M : (\A z \in M : u >= z) => u = m
      BY <3>1
    <3>3. \A z \in M : m >= z
      BY Zenon, <3>1
    <3>4. (CHOOSE u \in M : \A z \in M : u >= z) = m
      BY Zenon, <3>1, <3>2, <3>3
    <3> QED
      BY Zenon, <3>4 DEF Batch!Max, M
  <2>6. t.result = Batch!Ok(Batch!Max({pick[x] : x \in b}))
    BY Zenon, <1>5, <1>9, <2>5 DEF m, Ok, Batch!Ok
  <2>7. Batch!Succeed(b)
    <3>1. Told[b] = Batch!Pending
      BY Zenon, <1>6 DEF Batch!Pending, Pending
    <3>2. Told' = [Told EXCEPT ![b] = Batch!Ok(Batch!Max({pick[x] : x \in b}))]
      BY Zenon, <1>6, <2>6
    <3>3. \A S : Batch!Cardinality(S) = Cardinality(S)
      BY Zenon DEF Batch!Cardinality, Cardinality
    <3> QED
      BY Zenon, <2>3, <2>4, <3>1, <3>2, <3>3 DEF Batch!Succeed, Told
  <2> QED
    BY Zenon, <1>1, <1>2, <2>7 DEF Batch!BatchNext
<1> QED
  BY Zenon, <1>7, <1>8, <1>9

\* Every step is a step of the abstract batch, or none of its business.
LEMMA NextImplements ==
  IndInv /\ [Next]_vars => [Batch!BatchNext]_(Batch!batchVars)
<1> SUFFICES ASSUME IndInv, [Next]_vars
             PROVE  [Batch!BatchNext]_(Batch!batchVars)
  BY Zenon
<1>1. ASSUME NEW w \in Writes, NEW r \in Replicas, NEW v \in Versions[w],
             RemoteDone(w, r, v)
      PROVE  [Batch!BatchNext]_(Batch!batchVars)
  BY Zenon, <1>1, AcksImplement DEF RemoteDone
<1>2. ASSUME NEW w \in Writes, NEW r \in Replicas, NEW v \in Versions[w],
             LocalDone(w, r, v)
      PROVE  [Batch!BatchNext]_(Batch!batchVars)
  <2>1. CASE proxy.handler[w].registered
    <3>1. r \in proxy.handler[w].targets
      BY Zenon, <1>2, <2>1 DEF LocalDone, IndInv, Uncounted
    <3> QED
      BY Zenon, <1>2, <2>1, <3>1, AcksImplement DEF LocalDone
  <2>2. CASE ~proxy.handler[w].registered
    <3>1. UNCHANGED <<batch, acked>>
      BY Zenon, <1>2, <2>2 DEF LocalDone
    <3> QED
      BY Zenon, <3>1 DEF Batch!batchVars
  <2> QED
    BY Zenon, <2>1, <2>2
<1>3. ASSUME NEW w \in Writes, Collect(w)
      PROVE  [Batch!BatchNext]_(Batch!batchVars)
  BY Zenon, <1>3, CollectImplements
<1>4. ASSUME NEW b \in Batches, NEW live \in SUBSET Replicas, Refuse(b, live)
      PROVE  [Batch!BatchNext]_(Batch!batchVars)
  <2>1. /\ batch[b].result = Pending /\ UNCHANGED acked
        /\ batch' = [batch EXCEPT ![b].result = Failed]
    BY Zenon, <1>4 DEF Refuse
  <2>2. batch \in [Batches -> BatchState]
    BY Zenon DEF IndInv
  <2>3. Told' = [Told EXCEPT ![b] = Failed] /\ Told[b] = Pending
    <3>1. \A c \in Batches : batch'[c].result = IF c = b THEN Failed ELSE batch[c].result
      BY Zenon, <2>1, <2>2 DEF BatchState
    <3> QED
      BY Zenon, <2>1, <3>1 DEF Told
  <2>4. Batch!Fail(b)
    BY Zenon, <2>3 DEF Batch!Fail, Batch!Pending, Batch!Failed, Pending, Failed, Told
  <2> QED
    BY Zenon, <2>1, <2>4 DEF Batch!BatchNext
<1>5. ASSUME UNCHANGED <<batch, acked>>
      PROVE  [Batch!BatchNext]_(Batch!batchVars)
  BY Zenon, <1>5 DEF Batch!batchVars
<1>6. ASSUME \/ \E b \in Batches, live \in SUBSET Replicas : Begin(b, live)
             \/ \E w \in Writes : Expire(w)
             \/ \E w \in Writes, r \in Replicas : SendOver(w, r) \/ LocalFails(w, r)
             \/ UNCHANGED vars
      PROVE  [Batch!BatchNext]_(Batch!batchVars)
  <2>1. UNCHANGED <<batch, acked>>
    BY Zenon, <1>6 DEF Begin, Expire, SendOver, LocalFails, vars
  <2> QED
    BY Zenon, <1>5, <2>1
<1> QED
  BY Zenon, <1>1, <1>2, <1>3, <1>4, <1>6 DEF Next, OwnStep

\* The coordinator keeps the promise of WriteBatch: a batch succeeds only once
\* every write of it has the acknowledgements of BlockFor different replicas, and
\* its version is the largest of one acknowledged version per write, whatever was
\* held back, expired or acknowledged late.
THEOREM ImplementsWriteBatch == Spec => BatchSpec
<1>1. Init => Batch!BatchInit
  <2> SUFFICES ASSUME Init
               PROVE  Batch!BatchInit
    BY Zenon
  <2>1. Told = [b \in Batches |-> Pending]
    BY Zenon DEF Init, NewBatch, Told
  <2> QED
    BY Zenon, <2>1 DEF Init, Writes, Batch!BatchInit, Batch!Pending, Pending, Told
<1>2. IndInv /\ [Next]_vars => [Batch!BatchNext]_(Batch!batchVars)
  BY Zenon, NextImplements
<1> QED
  BY <1>1, <1>2, IndInvHolds, PTL DEF Spec, BatchSpec

=============================================================================
