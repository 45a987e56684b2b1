--------------------------- MODULE NumberLemmas ---------------------------
(***************************************************************************)
(* Facts about numbers on which the proofs rest: quotient and remainder by *)
(* a positive number, least and greatest elements of sets, and sums over   *)
(* finite sets.                                                            *)
(***************************************************************************)
EXTENDS Integers, Functions, FiniteSetTheorems, WellFoundedInduction, TLAPS

\* A number is put together from its quotient and its remainder.
LEMMA DivMod ==
  ASSUME NEW C \in Nat \ {0}, NEW a \in Nat
  PROVE  (a % C) \in 0 .. C - 1 /\ (a \div C) \in Nat /\ a = (a \div C) * C + (a % C)
  BY SMT

\* Multiples of C are at least C apart.
LEMMA MultipleAtLeast ==
  ASSUME NEW C \in Nat \ {0}, NEW q \in Int, q >= 1
  PROVE  q * C >= C
  BY SMT

\* Numbers are ordered by their quotients first.
LEMMA QuotientFirst ==
  ASSUME NEW C \in Nat \ {0},
         NEW q \in Int, NEW r \in 0 .. C - 1, NEW p \in Int, NEW s \in 0 .. C - 1,
         q < p
  PROVE  q * C + r < p * C + s
  <1>1. p - q \in Int /\ p - q >= 1 BY SMT
  <1>2. (p - q) * C >= C BY <1>1, MultipleAtLeast
  <1>3. (p - q) * C = p * C - q * C BY SMT
  <1>4. q * C \in Int /\ p * C \in Int BY SMT
  <1> QED BY <1>2, <1>3, <1>4

\* There is only one way to put a number together.
LEMMA QuotientUnique ==
  ASSUME NEW C \in Nat \ {0},
         NEW q \in Int, NEW r \in 0 .. C - 1, NEW p \in Int, NEW s \in 0 .. C - 1,
         q * C + r = p * C + s
  PROVE  q = p /\ r = s
  <1>1. q * C + r \in Int /\ p * C + s \in Int BY SMT
  <1>2. ~(q < p) BY <1>1, QuotientFirst
  <1>3. ~(p < q) BY <1>1, QuotientFirst
  <1>4. q = p BY <1>2, <1>3
  <1>5. q * C \in Int BY SMT
  <1> QED BY <1>4, <1>5

LEMMA DivModOf ==
  ASSUME NEW C \in Nat \ {0}, NEW q \in Nat, NEW r \in 0 .. C - 1
  PROVE  /\ q * C + r \in Nat
         /\ (q * C + r) \div C = q
         /\ (q * C + r) % C = r
  <1> DEFINE a == q * C + r
  <1>1. a \in Nat BY SMT
  <1> HIDE DEF a
  <1>2. PICK p \in Nat : \E s \in 0 .. C - 1 : a = p * C + s /\ s = a % C /\ p = a \div C
    <2>1. /\ (a % C) \in 0 .. C - 1 /\ (a \div C) \in Nat
          /\ a = (a \div C) * C + (a % C)
      BY <1>1, DivMod
    <2> QED BY <2>1, Zenon
  <1>3. PICK s \in 0 .. C - 1 : a = p * C + s /\ s = a % C BY <1>2
  <1>4. q * C + r = p * C + s /\ q \in Int /\ p \in Int BY <1>3 DEF a
  <1>5. q = p /\ r = s BY <1>4, QuotientUnique
  <1> QED BY <1>1, <1>2, <1>3, <1>5 DEF a

LEMMA ModOf ==
  ASSUME NEW C \in Nat \ {0}, NEW q \in Nat, NEW r \in 0 .. C - 1, NEW a, a = q * C + r
  PROVE  a % C = r
  BY DivModOf

LEMMA ModWrap ==
  ASSUME NEW C \in Nat \ {0}, NEW b \in Nat
  PROVE  (b + C) % C = b % C
  <1> DEFINE q == b \div C  r == b % C
  <1>1. q \in Nat /\ r \in 0 .. C - 1 /\ b = q * C + r BY DivMod
  <1> HIDE DEF q, r
  <1>2. b + C = (q + 1) * C + r /\ q + 1 \in Nat BY <1>1, SMT
  <1>3. (b + C) % C = r BY <1>1, <1>2, ModOf
  <1> QED BY <1>3 DEF r

LEMMA ModNext ==
  ASSUME NEW C \in Nat \ {0}, NEW b \in Nat
  PROVE  ((b % C) + 1) % C = (b + 1) % C
  <1> DEFINE q == b \div C  r == b % C
  <1>1. q \in Nat /\ r \in 0 .. C - 1 /\ b = q * C + r BY DivMod
  <1> HIDE DEF q, r
  <1> SUFFICES (r + 1) % C = (b + 1) % C BY DEF r
  <1>2. CASE r + 1 = C
    <2>1. r + 1 = 1 * C + 0 /\ b + 1 = (q + 1) * C + 0 /\ q + 1 \in Nat BY <1>1, <1>2, SMT
    <2>2. (r + 1) % C = 0 BY <2>1, ModOf
    <2>3. (b + 1) % C = 0 BY <1>1, <2>1, ModOf
    <2> QED BY <2>2, <2>3
  <1>3. CASE r + 1 < C
    <2>1. r + 1 = 0 * C + (r + 1) /\ b + 1 = q * C + (r + 1) /\ r + 1 \in 0 .. C - 1
      BY <1>1, <1>3, SMT
    <2>2. (r + 1) % C = r + 1 BY <2>1, ModOf
    <2>3. (b + 1) % C = r + 1 BY <1>1, <2>1, ModOf
    <2> QED BY <2>2, <2>3
  <1> QED BY <1>1, <1>2, <1>3

\* Numbers less than C apart have different remainders.
LEMMA ModDistinct ==
  ASSUME NEW C \in Nat \ {0}, NEW a \in Nat, NEW b \in Nat, b < a, a - b < C
  PROVE  a % C # b % C
  <1> SUFFICES ASSUME a % C = b % C PROVE FALSE
    OBVIOUS
  <1> DEFINE q == a \div C  p == b \div C  r == b % C
  <1>1. q \in Nat /\ r \in 0 .. C - 1 /\ a = q * C + r BY DivMod
  <1>2. p \in Nat /\ b = p * C + r BY DivMod
  <1> HIDE DEF q, p, r
  <1>3. (q - p) * C = a - b /\ q - p \in Int BY <1>1, <1>2, SMT
  <1>4. ~(q - p >= 1) BY <1>3, MultipleAtLeast
  <1>5. q = p
    <2>1. ~(q < p) BY <1>1, <1>2, QuotientFirst
    <2> QED BY <1>1, <1>2, <1>4, <2>1
  <1> QED BY <1>1, <1>2, <1>5

-----------------------------------------------------------------------------
LEMMA Least ==
  ASSUME NEW S \in SUBSET Nat, S # {}
  PROVE  \E x \in S : \A y \in S : x <= y
  <1> DEFINE R == OpToRel(<, Nat)
  <1>1. IsWellFoundedOn(R, Nat) BY NatLessThanWellFounded
  <1>2. \A x, y \in Nat : x < y => <<x, y>> \in R BY DEF OpToRel
  <1> HIDE DEF R
  <1>3. PICK x \in S : \A y \in S : ~(<<y, x>> \in R) BY <1>1, WFMin
  <1>4. ASSUME NEW y \in S PROVE x <= y
    <2>1. x \in Nat /\ y \in Nat OBVIOUS
    <2>2. ~(y < x) BY <2>1, <1>2, <1>3, Zenon
    <2> QED BY <2>1, <2>2, SMT
  <1> QED BY <1>4, Zenon

LEMMA Greatest ==
  ASSUME NEW N \in Nat, NEW S \in SUBSET (0 .. N), S # {}
  PROVE  \E x \in S : \A y \in S : x >= y
  <1> DEFINE T == {N - y : y \in S}
  <1>1. \A y \in S : y \in Int /\ y <= N OBVIOUS
  <1>2. T \in SUBSET Nat BY <1>1
  <1>3. T # {} BY Zenon
  <1> HIDE DEF T
  <1>4. PICK t \in T : \A y \in T : t <= y BY <1>2, <1>3, Least
  <1>5. PICK x \in S : t = N - x BY <1>4 DEF T
  <1>6. ASSUME NEW y \in S PROVE x >= y
    <2>1. N - x <= N - y BY <1>4, <1>5 DEF T
    <2> QED BY <2>1, <1>1
  <1> QED BY <1>6

-----------------------------------------------------------------------------
(***************************************************************************)
(* Sums over finite sets: SumFunctionOnSet(f, S) is the sum of f[x] for x  *)
(* in S, which the library computes by choosing the elements one by one.   *)
(* An induction over the set is a search for a smallest set that refutes   *)
(* the statement.                                                          *)
(***************************************************************************)

\* Among sets of subsets of a finite set there is a smallest one.
LEMMA LeastSubset ==
  ASSUME NEW S, IsFiniteSet(S), NEW Bad, Bad \subseteq SUBSET S, Bad # {}
  PROVE  \E T \in Bad : \A U \in SUBSET T : U # T => U \notin Bad
  <1>1. SUBSET S = FiniteSubsetsOf(S) BY FS_FiniteSubsetsOfFinite, Zenon
  <1>2. IsWellFoundedOn(StrictSubsetOrdering(S), SUBSET S)
    BY <1>1, FS_StrictSubsetOrderingWellFounded, Zenon
  <1>3. PICK T \in Bad : \A U \in Bad : ~(<<U, T>> \in StrictSubsetOrdering(S))
    BY <1>2, WFMin, Zenon
  <1>4. ASSUME NEW U \in SUBSET T, U # T, U \in Bad PROVE FALSE
    BY <1>3, <1>4 DEF StrictSubsetOrdering
  <1> QED BY <1>3, <1>4, Zenon

Chosen(S) == CHOOSE x \in S : TRUE

\* g tells for every part of S what the library's recursion computes for it.
Accumulates(g, f, S) ==
  g = [s \in SUBSET S |-> IF s = {} THEN 0 ELSE f[Chosen(s)] + g[s \ {Chosen(s)}]]

Accumulated(f, S) == CHOOSE g : Accumulates(g, f, S)

LEMMA SumAccumulates ==
  ASSUME NEW f, NEW S
  PROVE  SumFunctionOnSet(f, S) = Accumulated(f, S)[S]
  BY DEF SumFunctionOnSet, FoldFunctionOnSet, MapThenFoldSet, Accumulated, Accumulates, Chosen

LEMMA ChosenIsIn == ASSUME NEW S, S # {} PROVE Chosen(S) \in S
  BY DEF Chosen

LEMMA AccumulatesUnique ==
  ASSUME NEW f, NEW S, IsFiniteSet(S), NEW T \in SUBSET S,
         NEW g, Accumulates(g, f, S), NEW h, Accumulates(h, f, T)
  PROVE  \A U \in SUBSET T : g[U] = h[U]
  <1> DEFINE Bad == {U \in SUBSET T : g[U] # h[U]}
  <1> SUFFICES ASSUME Bad # {} PROVE FALSE OBVIOUS
  <1>1. IsFiniteSet(T) BY FS_Subset
  <1>2. PICK U \in Bad : \A V \in SUBSET U : V # U => V \notin Bad
    <2>1. Bad \subseteq SUBSET T OBVIOUS
    <2> HIDE DEF Bad
    <2> QED BY <1>1, <2>1, LeastSubset, Zenon
  <1>3. U \in SUBSET T /\ U \in SUBSET S /\ g[U] # h[U] OBVIOUS
  <1>4. /\ g[U] = IF U = {} THEN 0 ELSE f[Chosen(U)] + g[U \ {Chosen(U)}]
        /\ h[U] = IF U = {} THEN 0 ELSE f[Chosen(U)] + h[U \ {Chosen(U)}]
    BY <1>3 DEF Accumulates
  <1>5. U # {} BY <1>3, <1>4
  <1>6. U \ {Chosen(U)} \in SUBSET U /\ U \ {Chosen(U)} # U BY <1>5, ChosenIsIn
  <1>7. g[U \ {Chosen(U)}] = h[U \ {Chosen(U)}] BY <1>2, <1>6
  <1> QED BY <1>3, <1>4, <1>5, <1>7

LEMMA AccumulatedExists ==
  ASSUME NEW f, NEW S, IsFiniteSet(S)
  PROVE  Accumulates(Accumulated(f, S), f, S)
  <1> DEFINE Bad == {T \in SUBSET S : ~Accumulates(Accumulated(f, T), f, T)}
  <1> SUFFICES ASSUME Bad # {} PROVE FALSE
    BY Zenon
  <1>2. PICK T \in Bad : \A V \in SUBSET T : V # T => V \notin Bad
    <2>1. Bad \subseteq SUBSET S OBVIOUS
    <2> HIDE DEF Bad
    <2> QED BY <2>1, LeastSubset, Zenon
  <1>3. \A V \in SUBSET T : V # T => Accumulates(Accumulated(f, V), f, V)
    BY <1>2
  <1>f. \A V \in SUBSET T : IsFiniteSet(V) BY FS_Subset
  <1> DEFINE Less(s) == s \ {Chosen(s)}
             g == [s \in SUBSET T |-> IF s = {} THEN 0
                     ELSE f[Chosen(s)] + Accumulated(f, Less(s))[Less(s)]]
  <1>4. ASSUME NEW s \in SUBSET T, s # {}
        PROVE  g[Less(s)] = Accumulated(f, Less(s))[Less(s)]
    <2> DEFINE u == Less(s)
    <2>1. u \in SUBSET T /\ u # T BY <1>4, ChosenIsIn
    <2>2. Accumulates(Accumulated(f, u), f, u) BY <1>3, <2>1, Zenon
    <2>3. Accumulated(f, u)[u] = IF u = {} THEN 0
             ELSE f[Chosen(u)] + Accumulated(f, u)[Less(u)]
      <3> HIDE DEF u
      <3>1. u \in SUBSET u OBVIOUS
      <3> QED BY <2>2, <3>1 DEF Accumulates
    <2>4. u # {} => Accumulated(f, u)[Less(u)] = Accumulated(f, Less(u))[Less(u)]
      <3> HIDE DEF u
      <3>1. SUFFICES ASSUME u # {} PROVE Accumulated(f, u)[Less(u)] = Accumulated(f, Less(u))[Less(u)]
        OBVIOUS
      <3>2. Less(u) \in SUBSET u /\ Less(u) \in SUBSET T /\ Less(u) # T
        BY <2>1, <3>1, ChosenIsIn
      <3>3. Accumulates(Accumulated(f, Less(u)), f, Less(u)) BY <1>3, <3>2, Zenon
      <3> HIDE DEF Less
      <3>4. Less(u) \in SUBSET Less(u) OBVIOUS
      <3>5. IsFiniteSet(u) BY <1>f, <2>1
      <3>6. \A W \in SUBSET Less(u) : Accumulated(f, u)[W] = Accumulated(f, Less(u))[W]
        BY <2>2, <3>2, <3>3, <3>5, AccumulatesUnique
      <3> QED BY <3>4, <3>6, Zenon
    <2> HIDE DEF u
    <2>5. g[u] = IF u = {} THEN 0 ELSE f[Chosen(u)] + Accumulated(f, Less(u))[Less(u)]
      BY <2>1
    <2>6. g[u] = Accumulated(f, u)[u] BY <2>3, <2>4, <2>5
    <2> QED BY <2>6 DEF u
  <1>5. Accumulates(g, f, T)
    BY <1>4 DEF Accumulates
  <1>6. Accumulates(Accumulated(f, T), f, T)
    BY <1>5, Zenon DEF Accumulated
  <1> QED BY <1>6

\* The sum of no numbers, and the sum with one number taken out.
LEMMA SumOfNone == ASSUME NEW f PROVE SumFunctionOnSet(f, {}) = 0
  <1>1. Accumulates(Accumulated(f, {}), f, {}) BY AccumulatedExists, FS_EmptySet
  <1>2. Accumulated(f, {})[{}] = 0 BY <1>1 DEF Accumulates
  <1> QED BY <1>2, SumAccumulates

LEMMA SumByChosen ==
  ASSUME NEW f, NEW S, IsFiniteSet(S), S # {}
  PROVE  SumFunctionOnSet(f, S) = f[Chosen(S)] + SumFunctionOnSet(f, S \ {Chosen(S)})
  <1> DEFINE T == S \ {Chosen(S)}
  <1>1. T \in SUBSET S /\ IsFiniteSet(T) BY FS_Subset
  <1>2. Accumulates(Accumulated(f, S), f, S) BY AccumulatedExists
  <1>3. Accumulates(Accumulated(f, T), f, T) BY <1>1, AccumulatedExists
  <1>4. Accumulated(f, S)[S] = f[Chosen(S)] + Accumulated(f, S)[T]
    <2>1. S \in SUBSET S OBVIOUS
    <2> QED BY <1>2, <2>1 DEF Accumulates
  <1> HIDE DEF T
  <1>5. \A U \in SUBSET T : Accumulated(f, S)[U] = Accumulated(f, T)[U]
    BY <1>1, <1>2, <1>3, AccumulatesUnique
  <1>6. T \in SUBSET T OBVIOUS
  <1>7. Accumulated(f, S)[T] = Accumulated(f, T)[T] BY <1>5, <1>6, Zenon
  <1> QED BY <1>4, <1>7, SumAccumulates DEF T

LEMMA SumIsNat ==
  ASSUME NEW f, NEW S, IsFiniteSet(S), \A x \in S : f[x] \in Nat
  PROVE  SumFunctionOnSet(f, S) \in Nat
  <1> DEFINE Bad == {T \in SUBSET S : SumFunctionOnSet(f, T) \notin Nat}
  <1> SUFFICES ASSUME Bad # {} PROVE FALSE
    BY Zenon
  <1>1. PICK T \in Bad : \A U \in SUBSET T : U # T => U \notin Bad
    <2>1. Bad \subseteq SUBSET S OBVIOUS
    <2> HIDE DEF Bad
    <2> QED BY <2>1, LeastSubset, Zenon
  <1>2. IsFiniteSet(T) /\ T \in SUBSET S /\ SumFunctionOnSet(f, T) \notin Nat BY FS_Subset
  <1>3. T # {} BY <1>2, SumOfNone
  <1>4. Chosen(T) \in T BY <1>3, ChosenIsIn
  <1>5. SumFunctionOnSet(f, T \ {Chosen(T)}) \in Nat BY <1>1, <1>2, <1>4
  <1>6. f[Chosen(T)] \in Nat BY <1>2, <1>4
  <1> QED BY <1>2, <1>3, <1>5, <1>6, SumByChosen

LEMMA SumTakeOut ==
  ASSUME NEW f, NEW S, IsFiniteSet(S), \A x \in S : f[x] \in Nat, NEW x \in S
  PROVE  SumFunctionOnSet(f, S) = f[x] + SumFunctionOnSet(f, S \ {x})
  <1> DEFINE Sum(T) == SumFunctionOnSet(f, T)
             Bad == {T \in SUBSET S : \E y \in T : Sum(T) # f[y] + Sum(T \ {y})}
  <1> SUFFICES ASSUME Bad # {} PROVE FALSE
    <2>1. S \in SUBSET S OBVIOUS
    <2> QED BY <2>1
  <1>1. PICK T \in Bad : \A U \in SUBSET T : U # T => U \notin Bad
    <2>1. Bad \subseteq SUBSET S OBVIOUS
    <2> HIDE DEF Bad
    <2> QED BY <2>1, LeastSubset, Zenon
  <1>2. PICK y \in T : Sum(T) # f[y] + Sum(T \ {y}) OBVIOUS
  <1> DEFINE c == Chosen(T)  V == (T \ {c}) \ {y}
  <1>3. c \in T BY ChosenIsIn
  <1>4. \A U \in SUBSET T : IsFiniteSet(U) /\ Sum(U) \in Nat
    <2>1. ASSUME NEW U \in SUBSET T PROVE IsFiniteSet(U) /\ Sum(U) \in Nat
      <3>1. U \in SUBSET S OBVIOUS
      <3> QED BY <3>1, FS_Subset, SumIsNat
    <2> QED BY <2>1
  <1>5. Sum(T) = f[c] + Sum(T \ {c})
    <2>1. T \in SUBSET T /\ T # {} OBVIOUS
    <2> QED BY <1>4, <2>1, SumByChosen
  <1>6. y # c BY <1>2, <1>5
  <1>7. Sum(T \ {c}) = f[y] + Sum(V)
    <2>1. T \ {c} \in SUBSET T /\ T \ {c} # T /\ y \in T \ {c} BY <1>3, <1>6
    <2>2. T \ {c} \in SUBSET S /\ T \ {c} \notin Bad BY <1>1, <2>1
    <2> QED BY <2>1, <2>2
  <1>8. Sum(T \ {y}) = f[c] + Sum(V)
    <2>1. T \ {y} \in SUBSET T /\ T \ {y} # T /\ c \in T \ {y} BY <1>3, <1>6
    <2>2. T \ {y} \in SUBSET S /\ T \ {y} \notin Bad BY <1>1, <2>1
    <2>3. (T \ {y}) \ {c} = V OBVIOUS
    <2> QED BY <2>1, <2>2, <2>3
  <1>9. f[c] \in Nat /\ f[y] \in Nat /\ Sum(V) \in Nat
    <2>1. V \in SUBSET T OBVIOUS
    <2>2. T \in SUBSET S OBVIOUS
    <2> HIDE DEF V, Bad, Sum
    <2> QED BY <1>3, <1>4, <2>1, <2>2
  <1> HIDE DEF V, c, Bad, Sum
  <1> QED BY <1>2, <1>5, <1>7, <1>8, <1>9

LEMMA SumAdd ==
  ASSUME NEW f, NEW S, IsFiniteSet(S), \A y \in S : f[y] \in Nat,
         NEW x, x \notin S, f[x] \in Nat
  PROVE  SumFunctionOnSet(f, S \cup {x}) = f[x] + SumFunctionOnSet(f, S)
  <1> DEFINE T == S \cup {x}
  <1>1. IsFiniteSet(T) /\ x \in T /\ \A y \in T : f[y] \in Nat BY FS_AddElement
  <1>2. T \ {x} = S OBVIOUS
  <1> HIDE DEF T
  <1>3. SumFunctionOnSet(f, T) = f[x] + SumFunctionOnSet(f, T \ {x}) BY <1>1, SumTakeOut
  <1> QED BY <1>2, <1>3 DEF T

\* A sum does not exceed another whose numbers are at least as large; a set
\* with more numbers does not have a smaller sum.
LEMMA SumAtMost ==
  ASSUME NEW f, NEW g, NEW S, IsFiniteSet(S), NEW R \in SUBSET S,
         \A x \in R : f[x] \in Nat /\ f[x] <= g[x], \A x \in S : g[x] \in Nat
  PROVE  SumFunctionOnSet(f, R) <= SumFunctionOnSet(g, S)
  <1> DEFINE F(T) == SumFunctionOnSet(f, R \cap T)
             G(T) == SumFunctionOnSet(g, T)
             Bad == {T \in SUBSET S : ~(F(T) <= G(T))}
  <1> SUFFICES ASSUME Bad # {} PROVE FALSE
    <2>1. S \in SUBSET S /\ R \cap S = R OBVIOUS
    <2> QED BY <2>1
  <1>1. PICK T \in Bad : \A U \in SUBSET T : U # T => U \notin Bad
    <2>1. Bad \subseteq SUBSET S OBVIOUS
    <2> HIDE DEF Bad
    <2> QED BY <2>1, LeastSubset, Zenon
  <1>2. T \in SUBSET S /\ ~(F(T) <= G(T)) OBVIOUS
  <1>3. T # {}
    <2> SUFFICES ASSUME T = {} PROVE FALSE OBVIOUS
    <2>1. R \cap T = {} OBVIOUS
    <2>2. F(T) = 0 /\ G(T) = 0 BY <2>1, SumOfNone
    <2> QED BY <1>2, <2>2
  <1>4. PICK c : c \in T BY <1>3
  <1> DEFINE U == T \ {c}
  <1>5. F(U) <= G(U)
    <2>1. U \in SUBSET T /\ U # T /\ U \in SUBSET S BY <1>2, <1>4
    <2> QED BY <1>1, <2>1
  <1>6. IsFiniteSet(T) /\ IsFiniteSet(U) /\ IsFiniteSet(R \cap T) /\ IsFiniteSet(R \cap U)
    <2>1. U \in SUBSET S /\ R \cap T \in SUBSET S /\ R \cap U \in SUBSET S BY <1>2
    <2> QED BY <1>2, <2>1, FS_Subset
  <1>7. G(T) = g[c] + G(U) /\ G(U) \in Nat /\ g[c] \in Nat
    <2>1. \A x \in T : g[x] \in Nat BY <1>2
    <2>2. \A x \in U : g[x] \in Nat BY <2>1
    <2> QED BY <1>4, <1>6, <2>1, <2>2, SumTakeOut, SumIsNat
  <1>8. F(U) \in Nat BY <1>6, SumIsNat
  <1>9. CASE c \in R
    <2>1. F(T) = f[c] + SumFunctionOnSet(f, (R \cap T) \ {c})
      BY <1>4, <1>6, <1>9, SumTakeOut
    <2>2. (R \cap T) \ {c} = R \cap U OBVIOUS
    <2>3. F(T) = f[c] + F(U) BY <2>1, <2>2
    <2> HIDE DEF F, G, Bad, U
    <2> QED BY <1>2, <1>5, <1>7, <1>8, <1>9, <2>3
  <1>10. CASE c \notin R
    <2>1. R \cap T = R \cap U BY <1>10
    <2>2. F(T) = F(U) BY <2>1
    <2> HIDE DEF F, G, Bad, U
    <2> QED BY <1>2, <1>5, <1>7, <1>8, <2>2
  <1> QED BY <1>9, <1>10

\* Sums agree when the numbers do, and no number that one set has more counts.
LEMMA SumAgree ==
  ASSUME NEW f, NEW g, NEW S, IsFiniteSet(S), NEW R \in SUBSET S,
         \A x \in R : f[x] = g[x], \A x \in S : g[x] \in Nat,
         \A x \in S \ R : g[x] = 0
  PROVE  SumFunctionOnSet(f, R) = SumFunctionOnSet(g, S)
  <1> DEFINE F(T) == SumFunctionOnSet(f, R \cap T)
             G(T) == SumFunctionOnSet(g, T)
             Bad == {T \in SUBSET S : F(T) # G(T)}
  <1> SUFFICES ASSUME Bad # {} PROVE FALSE
    <2>1. S \in SUBSET S /\ R \cap S = R OBVIOUS
    <2> QED BY <2>1
  <1>1. PICK T \in Bad : \A U \in SUBSET T : U # T => U \notin Bad
    <2>1. Bad \subseteq SUBSET S OBVIOUS
    <2> HIDE DEF Bad
    <2> QED BY <2>1, LeastSubset, Zenon
  <1>2. T \in SUBSET S /\ F(T) # G(T) OBVIOUS
  <1>3. T # {}
    <2> SUFFICES ASSUME T = {} PROVE FALSE OBVIOUS
    <2>1. R \cap T = {} OBVIOUS
    <2>2. F(T) = 0 /\ G(T) = 0 BY <2>1, SumOfNone
    <2> QED BY <1>2, <2>2
  <1>4. PICK c : c \in T BY <1>3
  <1> DEFINE U == T \ {c}
  <1>5. F(U) = G(U)
    <2>1. U \in SUBSET T /\ U # T /\ U \in SUBSET S BY <1>2, <1>4
    <2> QED BY <1>1, <2>1
  <1>6. IsFiniteSet(T) /\ IsFiniteSet(U) /\ IsFiniteSet(R \cap T)
    <2>1. U \in SUBSET S /\ R \cap T \in SUBSET S BY <1>2
    <2> QED BY <1>2, <2>1, FS_Subset
  <1>7. G(T) = g[c] + G(U) /\ G(U) \in Nat /\ g[c] \in Nat
    <2>1. \A x \in T : g[x] \in Nat BY <1>2
    <2>2. \A x \in U : g[x] \in Nat BY <2>1
    <2> QED BY <1>4, <1>6, <2>1, <2>2, SumTakeOut, SumIsNat
  <1>9. CASE c \in R
    <2>0. \A x \in R \cap T : f[x] \in Nat BY <1>2
    <2>1. F(T) = f[c] + SumFunctionOnSet(f, (R \cap T) \ {c})
      BY <1>4, <1>6, <1>9, <2>0, SumTakeOut
    <2>2. (R \cap T) \ {c} = R \cap U OBVIOUS
    <2>3. F(T) = f[c] + F(U) BY <2>1, <2>2
    <2> HIDE DEF F, G, Bad, U
    <2> QED BY <1>2, <1>5, <1>7, <1>9, <2>3
  <1>10. CASE c \notin R
    <2>1. R \cap T = R \cap U BY <1>10
    <2>2. F(T) = F(U) BY <2>1
    <2>3. g[c] = 0 BY <1>2, <1>4, <1>10
    <2> HIDE DEF F, G, Bad, U
    <2> QED BY <1>2, <1>5, <1>7, <2>2, <2>3
  <1> QED BY <1>9, <1>10

\* The sum of equal numbers.
LEMMA SumConstant ==
  ASSUME NEW f, NEW S, IsFiniteSet(S), NEW k \in Nat, \A x \in S : f[x] = k
  PROVE  SumFunctionOnSet(f, S) = k * Cardinality(S)
  <1> DEFINE F(T) == SumFunctionOnSet(f, T)
             Bad == {T \in SUBSET S : F(T) # k * Cardinality(T)}
  <1> SUFFICES ASSUME Bad # {} PROVE FALSE
    <2>1. S \in SUBSET S OBVIOUS
    <2> QED BY <2>1
  <1>1. PICK T \in Bad : \A U \in SUBSET T : U # T => U \notin Bad
    <2>1. Bad \subseteq SUBSET S OBVIOUS
    <2> HIDE DEF Bad
    <2> QED BY <2>1, LeastSubset, Zenon
  <1>2. T \in SUBSET S /\ F(T) # k * Cardinality(T) OBVIOUS
  <1>3. IsFiniteSet(T) BY <1>2, FS_Subset
  <1>4. PICK c : c \in T
    <2> SUFFICES ASSUME T = {} PROVE FALSE OBVIOUS
    <2>1. F({}) = 0 /\ Cardinality({}) = 0 BY SumOfNone, FS_EmptySet
    <2> QED BY <1>2, <2>1
  <1> DEFINE U == T \ {c}
  <1>5. F(U) = k * Cardinality(U)
    <2>1. U \in SUBSET T /\ U # T /\ U \in SUBSET S BY <1>2, <1>4
    <2> QED BY <1>1, <2>1
  <1>6. F(T) = k + F(U)
    <2>1. (\A x \in T : f[x] \in Nat) /\ f[c] = k BY <1>2, <1>4
    <2> QED BY <1>3, <1>4, <2>1, SumTakeOut
  <1>7. Cardinality(U) = Cardinality(T) - 1 /\ Cardinality(T) \in Nat
    BY <1>3, <1>4, FS_RemoveElement, FS_CardinalityType
  <1> HIDE DEF U, F, Bad
  <1>8. \A a \in Nat : k * (a - 1) + k = k * a OBVIOUS
  <1>9. k + k * (Cardinality(T) - 1) = k * Cardinality(T)
    <2>1. k * (Cardinality(T) - 1) \in Int BY <1>7
    <2>2. k * (Cardinality(T) - 1) + k = k * Cardinality(T) BY <1>7, <1>8
    <2> QED BY <2>1, <2>2
  <1> QED BY <1>2, <1>5, <1>6, <1>7, <1>9
=============================================================================
