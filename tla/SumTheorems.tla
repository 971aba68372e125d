----------------------------- MODULE SumTheorems -----------------------------
(***************************************************************************)
(* What FoldFunction(+, 0, f) computes for every function f from a finite  *)
(* set to integers: a sum that an added argument increases by its value.   *)
(*                                                                         *)
(* The fold takes the arguments in an order CHOOSE fixes and nobody knows. *)
(* Each lemma here looks at a smallest set for which it would fail, since  *)
(* a rule of induction cannot be instantiated.                             *)
(***************************************************************************)
EXTENDS Integers, Functions, FiniteSetTheorems, NaturalsInduction, TLAPS

Total(f) == FoldFunction(+, 0, f)

(* The fold's recursion, by name.                                          *)
Pick(s) == CHOOSE x \in s : TRUE

Turn(f, g, s) == IF s = {} THEN 0 ELSE f[Pick(s)] + g[s \ {Pick(s)}]

Sums(f) == CHOOSE g : g = [s \in SUBSET DOMAIN f |-> Turn(f, g, s)]

(* The total is the sum over the whole domain.                             *)
LEMMA TotalIs ==
  ASSUME NEW f
  PROVE  Total(f) = Sums(f)[DOMAIN f]
BY Zenon DEF Total, FoldFunction, FoldFunctionOnSet, MapThenFoldSet, Sums, Turn, Pick

(* A set of naturals without a smallest one is empty: the form in which    *)
(* induction is used below.                                                *)
LEMMA NoLeast ==
  ASSUME NEW B \in SUBSET Nat, \A n \in B : \E m \in B : m < n
  PROVE  B = {}
<1> SUFFICES ASSUME B # {}
             PROVE  FALSE
  OBVIOUS
<1>1. PICK n \in B : \A m \in B : ~(<<m, n>> \in OpToRel(<, Nat))
  BY NatLessThanWellFounded, WFMin
<1>2. \A m \in B : ~(m < n)
  BY <1>1 DEF OpToRel
<1> QED BY <1>2

(* Going up: what holds at 0 and goes on from each number to the next      *)
(* holds up to n.                                                          *)
LEMMA Upwards ==
  ASSUME NEW n \in Nat, NEW P, 0 \in P, \A i \in 1 .. n : i - 1 \in P => i \in P
  PROVE  \A i \in 0 .. n : i \in P
<1> DEFINE B == (0 .. n) \ P
<1>1. \A i \in B : i # 0 /\ i - 1 \in B /\ i - 1 < i
  OBVIOUS
<1>2. B \in SUBSET Nat
  OBVIOUS
<1> HIDE DEF B
<1>3. B = {}
  BY <1>1, <1>2, NoLeast
<1> QED BY <1>3 DEF B

(* P holds at 0 and goes on from each number up to n to the next.          *)
Climbs(P, n) == n \in Nat /\ 0 \in P /\ \A i \in 1 .. n : i - 1 \in P => i \in P

(* The same about the last one, for every set and number at once.          *)
LEMMA Top ==
  \A P, n : Climbs(P, n) => n \in P
<1> SUFFICES ASSUME NEW P, NEW n \in Nat, Climbs(P, n)
             PROVE  n \in P
  BY Zenon DEF Climbs
<1>1. 0 \in P /\ \A i \in 1 .. n : i - 1 \in P => i \in P
  BY DEF Climbs
<1> QED BY <1>1, Upwards

(* Taking an element from a finite set.                                    *)
LEMMA OneLess ==
  ASSUME NEW D, IsFiniteSet(D), NEW s \in SUBSET D
  PROVE  /\ IsFiniteSet(s) /\ Cardinality(s) \in Nat /\ Cardinality(s) <= Cardinality(D)
         /\ Cardinality(s) = 0 <=> s = {}
         /\ \A x \in s : Cardinality(s \ {x}) = Cardinality(s) - 1
         /\ s # {} => Pick(s) \in s
<1>1. IsFiniteSet(s) /\ Cardinality(s) <= Cardinality(D)
  BY FS_Subset
<1>2. Cardinality(s) \in Nat /\ (Cardinality(s) = 0 <=> s = {})
  BY <1>1, FS_CardinalityType, FS_EmptySet
<1>3. \A x \in s : Cardinality(s \ {x}) = Cardinality(s) - 1
  BY <1>1, FS_RemoveElement
<1>4. s # {} => Pick(s) \in s
  BY DEF Pick
<1> QED BY <1>1, <1>2, <1>3, <1>4

(* The recursion has a solution: on the sets of at most n elements, for    *)
(* every n.                                                                *)
LEMMA SumsExist ==
  ASSUME NEW f, IsFiniteSet(DOMAIN f)
  PROVE  Sums(f) = [s \in SUBSET DOMAIN f |-> Turn(f, Sums(f), s)]
<1> DEFINE D == DOMAIN f
           Small(n) == {s \in SUBSET D : Cardinality(s) <= n}
           Solves(g, n) == g = [s \in Small(n) |-> Turn(f, g, s)]
           B == {n \in Nat : ~ \E g : Solves(g, n)}
<1>1. \A s \in SUBSET D :
        /\ Cardinality(s) \in Nat /\ Cardinality(s) <= Cardinality(D)
        /\ Cardinality(s) = 0 <=> s = {}
        /\ s # {} => Cardinality(s \ {Pick(s)}) = Cardinality(s) - 1
  BY OneLess
<1>2. \E g : Solves(g, 0)
  <2> DEFINE g == [s \in Small(0) |-> 0]
  <2>1. ASSUME NEW s \in Small(0)
        PROVE  s = {}
    <3>1. Cardinality(s) \in Nat /\ Cardinality(s) <= 0 /\ (Cardinality(s) = 0 <=> s = {})
      BY <1>1
    <3> QED BY <3>1
  <2>2. \A s \in Small(0) : Turn(f, g, s) = 0
    BY <2>1 DEF Turn
  <2>3. Solves(g, 0)
    <3> HIDE DEF Small
    <3> QED BY <2>2
  <2> QED BY <2>3
<1>3. ASSUME NEW n \in Nat, NEW h, Solves(h, n)
      PROVE  \E g : Solves(g, n + 1)
  <2> DEFINE g == [s \in Small(n + 1) |-> Turn(f, h, s)]
  <2>1. \A s \in Small(n + 1) : s # {} => s \ {Pick(s)} \in Small(n) /\ s \ {Pick(s)} \in Small(n + 1)
    BY <1>1
  <2>2. ASSUME NEW t \in Small(n)
        PROVE  t \in Small(n + 1)
    <3>1. Cardinality(t) \in Nat /\ Cardinality(t) <= n
      BY <1>1
    <3>2. Cardinality(t) <= n + 1
      BY <3>1
    <3> QED BY <3>2
  <2> HIDE DEF Small
  <2>3. \A t \in Small(n) : g[t] = h[t]
    <3>1. \A t \in Small(n) : h[t] = Turn(f, h, t)
      BY <1>3
    <3>2. \A t \in Small(n) : g[t] = Turn(f, h, t)
      BY <2>2
    <3> QED BY <3>1, <3>2
  <2> HIDE DEF g
  <2>4. \A s \in Small(n + 1) : Turn(f, g, s) = Turn(f, h, s)
    BY <2>1, <2>3 DEF Turn
  <2>5. g = [s \in Small(n + 1) |-> Turn(f, g, s)]
    BY <2>4 DEF g
  <2> QED BY <2>5
<1>4. B = {}
  <2>1. \A n \in B : \E m \in B : m < n
    <3> SUFFICES ASSUME NEW n \in B
                 PROVE  \E m \in B : m < n
      OBVIOUS
    <3> HIDE DEF Solves
    <3>1. n # 0 /\ n \in Nat
      BY <1>2
    <3>2. n - 1 \in Nat /\ n - 1 < n /\ (n - 1) + 1 = n
      BY <3>1
    <3>3. ~ \E g : Solves(g, n - 1)
      <4> SUFFICES ASSUME NEW g, Solves(g, n - 1)
                   PROVE  FALSE
        OBVIOUS
      <4>1. \E h : Solves(h, (n - 1) + 1)
        BY <3>2, <1>3
      <4> QED BY <3>2, <4>1
    <3> QED BY <3>2, <3>3
  <2> HIDE DEF Solves
  <2> QED BY <2>1, NoLeast
<1>5. \E g : Solves(g, Cardinality(D))
  <2>1. Cardinality(D) \in Nat
    BY <1>1
  <2> HIDE DEF Solves
  <2> QED BY <1>4, <2>1
<1>6. Small(Cardinality(D)) = SUBSET D
  BY <1>1
<1>7. \E g : g = [s \in SUBSET DOMAIN f |-> Turn(f, g, s)]
  <2> HIDE DEF Small
  <2> QED BY <1>5, <1>6, Zenon
<1> QED BY <1>7, Zenon DEF Sums

(* The partial sums satisfy their recursion and are integers.              *)
LEMMA SumsTurn ==
  ASSUME NEW D, IsFiniteSet(D), NEW f \in [D -> Int]
  PROVE  \A s \in SUBSET D : Sums(f)[s] = Turn(f, Sums(f), s) /\ Sums(f)[s] \in Int
<1> DEFINE g == Sums(f)
           B == {n \in Nat : \E s \in SUBSET D : Cardinality(s) = n /\ g[s] \notin Int}
<1>1. \A s \in SUBSET D : g[s] = Turn(f, g, s)
  <2>1. DOMAIN f = D
    OBVIOUS
  <2>2. g = [s \in SUBSET D |-> Turn(f, g, s)]
    BY <2>1, SumsExist, Zenon
  <2> HIDE DEF g
  <2> QED BY <2>2
<1> HIDE DEF g
<1>2. \A n \in B : \E m \in B : m < n
  <2> SUFFICES ASSUME NEW n \in B
               PROVE  \E m \in B : m < n
    OBVIOUS
  <2>1. PICK s \in SUBSET D : Cardinality(s) = n /\ g[s] \notin Int
    OBVIOUS
  <2>2. s # {}
    <3> SUFFICES ASSUME s = {}
                 PROVE  FALSE
      OBVIOUS
    <3>1. Turn(f, g, s) = 0
      BY DEF Turn
    <3>2. g[s] = 0
      BY <1>1, <3>1
    <3> QED BY <2>1, <3>2
  <2> DEFINE t == s \ {Pick(s)}
  <2>3. Pick(s) \in D /\ t \in SUBSET D /\ Cardinality(t) = n - 1 /\ Cardinality(t) \in Nat
    BY <2>1, <2>2, OneLess
  <2>4. g[s] = f[Pick(s)] + g[t] /\ f[Pick(s)] \in Int
    BY <1>1, <2>2, <2>3 DEF Turn
  <2> HIDE DEF t
  <2>5. g[t] \notin Int
    BY <2>1, <2>4
  <2>6. n - 1 \in B /\ n - 1 < n
    BY <2>3, <2>5
  <2> QED BY <2>6
<1>3. B = {}
  BY <1>2, NoLeast
<1>4. \A s \in SUBSET D : g[s] \in Int
  <2>1. \A s \in SUBSET D : Cardinality(s) \in Nat
    BY OneLess
  <2> QED BY <1>3, <2>1
<1> QED BY <1>1, <1>4 DEF g

(* Any element may be taken first.                                         *)
LEMMA SumsAny ==
  ASSUME NEW D, IsFiniteSet(D), NEW f \in [D -> Int]
  PROVE  \A s \in SUBSET D : \A x \in s : Sums(f)[s] = f[x] + Sums(f)[s \ {x}]
<1> DEFINE g == Sums(f)
           Holds(s) == \A x \in s : g[s] = f[x] + g[s \ {x}]
           B == {n \in Nat : \E s \in SUBSET D : Cardinality(s) = n /\ ~Holds(s)}
<1>1. \A s \in SUBSET D : g[s] = Turn(f, g, s) /\ g[s] \in Int
  BY SumsTurn
<1> HIDE DEF g
<1>2. \A n \in B : \E m \in B : m < n
  <2> SUFFICES ASSUME NEW n \in B
               PROVE  \E m \in B : m < n
    OBVIOUS
  <2>1. PICK s \in SUBSET D : Cardinality(s) = n /\ ~Holds(s)
    OBVIOUS
  <2>2. PICK x \in s : g[s] # f[x] + g[s \ {x}]
    BY <2>1
  <2> DEFINE c == Pick(s)
             t == s \ {c}
             u == s \ {x}
             v == (s \ {c}) \ {x}
  <2>3. s # {} /\ c \in s /\ c \in D /\ x \in D
    BY <2>2, OneLess
  <2>4. /\ t \in SUBSET D /\ u \in SUBSET D /\ v \in SUBSET D
        /\ Cardinality(t) = n - 1 /\ Cardinality(u) = n - 1
        /\ n - 1 \in Nat
    <3>1. \A y \in s : Cardinality(s \ {y}) = Cardinality(s) - 1
      BY OneLess
    <3>2. \A r \in SUBSET D : Cardinality(r) \in Nat
      BY OneLess
    <3> QED BY <2>1, <2>3, <3>1, <3>2
  <2>5. g[s] = f[c] + g[t] /\ f[c] \in Int /\ f[x] \in Int
    BY <1>1, <2>3 DEF Turn
  <2>6. c # x
    BY <2>2, <2>5
  <2>7. x \in t /\ c \in u /\ t \ {x} = v /\ u \ {c} = v
    BY <2>3, <2>6
  <2> HIDE DEF c, t, u, v
  <2>8. ~(Holds(t) /\ Holds(u))
    <3> SUFFICES ASSUME Holds(t), Holds(u)
                 PROVE  FALSE
      OBVIOUS
    <3>1. g[t] = f[x] + g[v] /\ g[u] = f[c] + g[v]
      BY <2>7
    <3>2. g[v] \in Int /\ g[u] \in Int /\ g[t] \in Int
      BY <1>1, <2>4
    <3>3. g[s] = f[x] + g[u]
      BY <2>5, <3>1, <3>2
    <3> QED BY <2>2, <3>3 DEF u
  <2> HIDE DEF Holds
  <2>9. n - 1 \in B /\ n - 1 < n
    BY <2>4, <2>8
  <2> QED BY <2>9
<1>3. B = {}
  BY <1>2, NoLeast
<1>4. \A s \in SUBSET D : Holds(s)
  <2>1. \A s \in SUBSET D : Cardinality(s) \in Nat
    BY OneLess
  <2> HIDE DEF Holds
  <2> QED BY <1>3, <2>1
<1> QED BY <1>4 DEF g

(* Two functions have the same sums where they agree.                      *)
LEMMA SumsAgree ==
  ASSUME NEW D, IsFiniteSet(D), NEW f \in [D -> Int],
         NEW E, IsFiniteSet(E), NEW h \in [E -> Int],
         D \subseteq E, \A x \in D : h[x] = f[x]
  PROVE  \A s \in SUBSET D : Sums(h)[s] = Sums(f)[s]
<1> DEFINE g == Sums(f)
           k == Sums(h)
           B == {n \in Nat : \E s \in SUBSET D : Cardinality(s) = n /\ k[s] # g[s]}
<1>1. \A s \in SUBSET D : g[s] = Turn(f, g, s)
  BY SumsTurn
<1>2. \A s \in SUBSET D : k[s] = Turn(h, k, s)
  BY SumsTurn
<1> HIDE DEF g, k
<1>3. \A n \in B : \E m \in B : m < n
  <2> SUFFICES ASSUME NEW n \in B
               PROVE  \E m \in B : m < n
    OBVIOUS
  <2>1. PICK s \in SUBSET D : Cardinality(s) = n /\ k[s] # g[s]
    OBVIOUS
  <2>2. s # {}
    BY <1>1, <1>2, <2>1 DEF Turn
  <2> DEFINE t == s \ {Pick(s)}
  <2>3. Pick(s) \in D /\ t \in SUBSET D /\ Cardinality(t) = n - 1 /\ Cardinality(t) \in Nat
    BY <2>1, <2>2, OneLess
  <2>4. g[s] = f[Pick(s)] + g[t] /\ k[s] = f[Pick(s)] + k[t]
    BY <1>1, <1>2, <2>2, <2>3 DEF Turn
  <2> HIDE DEF t
  <2>5. g[t] # k[t]
    BY <2>1, <2>4
  <2>6. n - 1 \in B /\ n - 1 < n
    BY <2>3, <2>5
  <2> QED BY <2>6
<1>4. B = {}
  BY <1>3, NoLeast
<1>5. \A s \in SUBSET D : k[s] = g[s]
  <2>1. \A s \in SUBSET D : Cardinality(s) \in Nat
    BY OneLess
  <2> QED BY <1>4, <2>1
<1> QED BY <1>5 DEF g, k

-----------------------------------------------------------------------------
(* The sum of no values is zero.                                           *)
THEOREM TotalOfNone ==
  ASSUME NEW f, DOMAIN f = {}
  PROVE  Total(f) = 0
<1>1. IsFiniteSet(DOMAIN f)
  BY FS_EmptySet
<1>2. Sums(f) = [s \in SUBSET DOMAIN f |-> Turn(f, Sums(f), s)]
  BY <1>1, SumsExist
<1>3. Sums(f)[{}] = Turn(f, Sums(f), {})
  <2> DEFINE g == Sums(f)
  <2>1. g = [s \in SUBSET DOMAIN f |-> Turn(f, g, s)] /\ {} \in SUBSET DOMAIN f
    BY <1>2
  <2> HIDE DEF g
  <2>2. g[{}] = Turn(f, g, {})
    BY <2>1
  <2> QED BY <2>2 DEF g
<1>4. Turn(f, Sums(f), {}) = 0
  BY DEF Turn
<1> QED BY <1>3, <1>4, TotalIs

(* The sum of integers is an integer.                                      *)
THEOREM TotalIsInteger ==
  ASSUME NEW D, IsFiniteSet(D), NEW f \in [D -> Int]
  PROVE  Total(f) \in Int
<1>1. DOMAIN f = D /\ D \in SUBSET D
  OBVIOUS
<1> QED BY <1>1, SumsTurn, TotalIs

(* An argument added to those of f, which keep their values, adds its      *)
(* value.                                                                  *)
THEOREM TotalAdds ==
  ASSUME NEW D, IsFiniteSet(D), NEW f \in [D -> Int], NEW x, x \notin D,
         NEW h \in [D \cup {x} -> Int], \A y \in D : h[y] = f[y]
  PROVE  Total(h) = Total(f) + h[x]
<1> DEFINE E == D \cup {x}
<1>1. IsFiniteSet(E)
  BY FS_AddElement
<1>2. DOMAIN f = D /\ DOMAIN h = E /\ D \subseteq E /\ E \ {x} = D /\ x \in E /\ E \in SUBSET E
      /\ D \in SUBSET D /\ h \in [E -> Int]
  OBVIOUS
<1> HIDE DEF E
<1>3. Sums(h)[E] = h[x] + Sums(h)[E \ {x}]
  BY <1>1, <1>2, SumsAny
<1>4. Sums(h)[D] = Sums(f)[D]
  <2>1. \A y \in D : h[y] = f[y]
    OBVIOUS
  <2> QED BY <1>1, <1>2, <2>1, SumsAgree
<1>5. Total(h) = Sums(h)[E] /\ Total(f) = Sums(f)[D]
  BY <1>2, TotalIs
<1>6. Total(f) \in Int /\ h[x] \in Int
  BY <1>2, TotalIsInteger
<1>7. Total(h) = h[x] + Total(f)
  BY <1>2, <1>3, <1>4, <1>5, Zenon
<1> QED BY <1>6, <1>7

(* h is f with one argument more.                                          *)
Extends(h, f, D, x) ==
  /\ IsFiniteSet(D) /\ f \in [D -> Int]
  /\ x \notin D /\ h \in [D \cup {x} -> Int]
  /\ \A y \in D : h[y] = f[y]

(* The same, with the hypotheses by name.                                  *)
LEMMA ExtensionAdds ==
  \A h, f, D, x : Extends(h, f, D, x) => Total(h) = Total(f) + h[x]
<1> SUFFICES ASSUME NEW h, NEW f, NEW D, NEW x, Extends(h, f, D, x)
             PROVE  Total(h) = Total(f) + h[x]
  OBVIOUS
<1> QED BY TotalAdds DEF Extends

(* A sum whose values are the steps of a function that begins at zero is   *)
(* what that function ends at.                                             *)
THEOREM TotalOfSteps ==
  ASSUME NEW n \in Nat, NEW f, f \in [1 .. n -> Int], NEW F, F \in [0 .. n -> Int],
         F[0] = 0, \A i \in 1 .. n : F[i] = F[i - 1] + f[i]
  PROVE  Total(f) = F[n]
<1> DEFINE upto(i) == [j \in 1 .. i |-> f[j]]
           B == {i \in Nat : i <= n /\ Total(upto(i)) # F[i]}
<1>1. Total(upto(0)) = F[0]
  BY TotalOfNone
<1>2. \A i \in B : \E j \in B : j < i
  <2> SUFFICES ASSUME NEW i \in B
               PROVE  \E j \in B : j < i
    OBVIOUS
  <2>1. i # 0
    <3> HIDE DEF upto
    <3> QED BY <1>1
  <2> DEFINE j == i - 1
  <2>2. j \in Nat /\ j < i /\ j <= n /\ i \in 1 .. n /\ j \in 0 .. n /\ i = j + 1
    BY <2>1
  <2>3. /\ upto(j) \in [1 .. j -> Int] /\ upto(i) \in [(1 .. j) \cup {i} -> Int]
        /\ \A y \in 1 .. j : upto(i)[y] = upto(j)[y]
        /\ upto(i)[i] = f[i] /\ i \notin 1 .. j
    BY <2>2
  <2>4. IsFiniteSet(1 .. j)
    BY <2>2, FS_Interval
  <2> HIDE DEF upto, j
  <2>5. Total(upto(i)) = Total(upto(j)) + f[i]
    <3>1. Extends(upto(i), upto(j), 1 .. j, i)
      BY <2>3, <2>4 DEF Extends
    <3>2. Total(upto(i)) = Total(upto(j)) + upto(i)[i]
      BY <3>1, ExtensionAdds, Zenon
    <3> QED BY <2>3, <3>2, Zenon
  <2>6. F[i] = F[j] + f[i]
    BY <2>2 DEF j
  <2>7. j \in B
    BY <2>2, <2>5, <2>6
  <2> QED BY <2>2, <2>7
<1>3. B = {}
  <2> HIDE DEF upto
  <2> QED BY <1>2, NoLeast
<1>4. upto(n) = f
  OBVIOUS
<1> HIDE DEF upto
<1> QED BY <1>3, <1>4

(* The values of f are the steps of F, which begins at zero.               *)
Steps(F, f, n) ==
  /\ n \in Nat /\ f \in [1 .. n -> Int] /\ F \in [0 .. n -> Int]
  /\ F[0] = 0 /\ \A i \in 1 .. n : F[i] = F[i - 1] + f[i]

(* The same, with the hypotheses by name.                                  *)
THEOREM StepsAddUp ==
  \A F, f, n : Steps(F, f, n) => Total(f) = F[n]
<1> SUFFICES ASSUME NEW F, NEW f, NEW n \in Nat, Steps(F, f, n)
             PROVE  Total(f) = F[n]
  BY Zenon DEF Steps
<1>1. /\ f \in [1 .. n -> Int] /\ F \in [0 .. n -> Int]
      /\ F[0] = 0 /\ \A i \in 1 .. n : F[i] = F[i - 1] + f[i]
  BY Zenon DEF Steps
<1> QED BY <1>1, TotalOfSteps, Zenon

(* The values at 1 .. n.                                                   *)
Upto(f, n) == [i \in 1 .. n |-> f[i]]

(* Partial sums, all at once.                                              *)
LEMMA Totals ==
  ASSUME NEW n \in Nat, NEW f \in [1 .. n -> Int]
  PROVE  /\ Total(Upto(f, 0)) = 0 /\ Total(Upto(f, n)) = Total(f)
         /\ \A k \in 0 .. n : Total(Upto(f, k)) \in Int
         /\ \A k \in 1 .. n : Total(Upto(f, k)) = Total(Upto(f, k - 1)) + f[k]
<1>1. Upto(f, n) = f
  BY DEF Upto
<1>2. Total(Upto(f, 0)) = 0
  <2>1. DOMAIN Upto(f, 0) = {}
    BY DEF Upto
  <2> QED BY <2>1, TotalOfNone
<1>3. ASSUME NEW k \in 0 .. n PROVE Total(Upto(f, k)) \in Int
  <2>1. Upto(f, k) \in [1 .. k -> Int] /\ IsFiniteSet(1 .. k)
    BY FS_Interval DEF Upto
  <2> QED BY <2>1, TotalIsInteger
<1>4. ASSUME NEW k \in 1 .. n PROVE Total(Upto(f, k)) = Total(Upto(f, k - 1)) + f[k]
  <2>1. /\ Upto(f, k - 1) \in [1 .. k - 1 -> Int]
        /\ Upto(f, k) \in [(1 .. k - 1) \cup {k} -> Int]
        /\ k \notin 1 .. k - 1 /\ Upto(f, k)[k] = f[k]
        /\ \A i \in 1 .. k - 1 : Upto(f, k)[i] = Upto(f, k - 1)[i]
    BY DEF Upto
  <2>2. IsFiniteSet(1 .. k - 1)
    BY FS_Interval
  <2>3. Extends(Upto(f, k), Upto(f, k - 1), 1 .. k - 1, k)
    BY <2>1, <2>2 DEF Extends
  <2>4. Total(Upto(f, k)) = Total(Upto(f, k - 1)) + Upto(f, k)[k]
    BY <2>3, ExtensionAdds, Zenon
  <2> QED BY <2>1, <2>4
<1> QED BY <1>1, <1>2, <1>3, <1>4

(* The sum of values between zero and c.                                   *)
THEOREM TotalBounded ==
  ASSUME NEW n \in Nat, NEW c \in Nat, NEW f \in [1 .. n -> Int],
         \A i \in 1 .. n : 0 <= f[i] /\ f[i] <= c
  PROVE  Total(f) \in Int /\ 0 <= Total(f) /\ Total(f) <= c * n
<1> DEFINE P == {k \in 0 .. n : 0 <= Total(Upto(f, k)) /\ Total(Upto(f, k)) <= c * k}
<1>1. /\ Total(Upto(f, 0)) = 0 /\ Total(Upto(f, n)) = Total(f)
      /\ \A k \in 0 .. n : Total(Upto(f, k)) \in Int
      /\ \A k \in 1 .. n : Total(Upto(f, k)) = Total(Upto(f, k - 1)) + f[k]
  BY Totals
<1>2. 0 \in P
  BY <1>1
<1>3. ASSUME NEW k \in 1 .. n, k - 1 \in P PROVE k \in P
  <2>1. /\ f[k] \in Int /\ 0 <= f[k] /\ f[k] <= c
        /\ Total(Upto(f, k - 1)) \in Int
        /\ 0 <= Total(Upto(f, k - 1)) /\ Total(Upto(f, k - 1)) <= c * (k - 1)
    BY <1>1, <1>3
  <2>2. c * k = c * (k - 1) + c /\ c * (k - 1) \in Int
    OBVIOUS
  <2>3. 0 <= Total(Upto(f, k)) /\ Total(Upto(f, k)) <= c * k
    BY <1>1, <2>1, <2>2
  <2> QED BY <2>3
<1> HIDE DEF P
<1>4. n \in P
  BY <1>2, <1>3, Top DEF Climbs
<1> QED BY <1>1, <1>4 DEF P

(* What relates three functions at every argument relates their sums.      *)
Related(n, f, g, h, a, b) ==
  /\ n \in Nat /\ f \in [1 .. n -> Int] /\ g \in [1 .. n -> Int] /\ h \in [1 .. n -> Int]
  /\ a \in Int /\ b \in Int
  /\ \A i \in 1 .. n : a * f[i] = g[i] + b * h[i]

THEOREM TotalsRelate ==
  \A n, f, g, h, a, b : Related(n, f, g, h, a, b) => a * Total(f) = Total(g) + b * Total(h)
<1> SUFFICES ASSUME NEW n, NEW f, NEW g, NEW h, NEW a, NEW b, Related(n, f, g, h, a, b)
             PROVE  a * Total(f) = Total(g) + b * Total(h)
  OBVIOUS
<1>0. /\ n \in Nat /\ f \in [1 .. n -> Int] /\ g \in [1 .. n -> Int] /\ h \in [1 .. n -> Int]
      /\ a \in Int /\ b \in Int
      /\ \A i \in 1 .. n : a * f[i] = g[i] + b * h[i]
  BY DEF Related
<1> DEFINE P == {k \in 0 .. n : a * Total(Upto(f, k)) = Total(Upto(g, k)) + b * Total(Upto(h, k))}
<1>1. /\ Total(Upto(f, 0)) = 0 /\ Total(Upto(f, n)) = Total(f)
      /\ \A k \in 0 .. n : Total(Upto(f, k)) \in Int
      /\ \A k \in 1 .. n : Total(Upto(f, k)) = Total(Upto(f, k - 1)) + f[k]
  BY <1>0, Totals
<1>2. /\ Total(Upto(g, 0)) = 0 /\ Total(Upto(g, n)) = Total(g)
      /\ \A k \in 0 .. n : Total(Upto(g, k)) \in Int
      /\ \A k \in 1 .. n : Total(Upto(g, k)) = Total(Upto(g, k - 1)) + g[k]
  BY <1>0, Totals
<1>3. /\ Total(Upto(h, 0)) = 0 /\ Total(Upto(h, n)) = Total(h)
      /\ \A k \in 0 .. n : Total(Upto(h, k)) \in Int
      /\ \A k \in 1 .. n : Total(Upto(h, k)) = Total(Upto(h, k - 1)) + h[k]
  BY <1>0, Totals
<1>4. 0 \in P
  BY <1>0, <1>1, <1>2, <1>3
<1>5. ASSUME NEW k \in 1 .. n, k - 1 \in P PROVE k \in P
  <2>1. a * Total(Upto(f, k - 1)) = Total(Upto(g, k - 1)) + b * Total(Upto(h, k - 1))
    BY <1>5, Zenon
  <2>2. a * f[k] = g[k] + b * h[k] /\ f[k] \in Int /\ g[k] \in Int /\ h[k] \in Int
    BY <1>0
  <2>3. \A x, y, z \in Int : x * (y + z) = x * y + x * z
    OBVIOUS
  <2>4. /\ Total(Upto(f, k - 1)) \in Int /\ Total(Upto(g, k - 1)) \in Int
        /\ Total(Upto(h, k - 1)) \in Int
    <3>1. k - 1 \in 0 .. n
      BY <1>0
    <3> QED BY <1>1, <1>2, <1>3, <3>1
  <2>5. a * (Total(Upto(f, k - 1)) + f[k])
        = (Total(Upto(g, k - 1)) + g[k]) + b * (Total(Upto(h, k - 1)) + h[k])
    <3> DEFINE F == Total(Upto(f, k - 1))
               G == Total(Upto(g, k - 1))
               H == Total(Upto(h, k - 1))
    <3>1. /\ F \in Int /\ G \in Int /\ H \in Int /\ a * F = G + b * H
          /\ f[k] \in Int /\ g[k] \in Int /\ h[k] \in Int /\ a * f[k] = g[k] + b * h[k]
      BY <2>1, <2>2, <2>4
    <3> HIDE DEF F, G, H
    <3>2. a * (F + f[k]) = a * F + a * f[k] /\ b * (H + h[k]) = b * H + b * h[k]
      BY <1>0, <2>3, <3>1, Zenon
    <3>3. a * (F + f[k]) = (G + g[k]) + b * (H + h[k])
      <4> DEFINE X == a * F
                 Y == a * f[k]
                 U == b * H
                 V == b * h[k]
      <4>1. X = G + U /\ Y = g[k] + V /\ U \in Int /\ V \in Int
        BY <1>0, <3>1
      <4>2. a * (F + f[k]) = X + Y /\ b * (H + h[k]) = U + V
        BY <3>2
      <4> HIDE DEF X, Y, U, V
      <4> QED BY <3>1, <4>1, <4>2
    <3> QED BY <3>3 DEF F, G, H
  <2>6. a * Total(Upto(f, k)) = Total(Upto(g, k)) + b * Total(Upto(h, k))
    BY <1>1, <1>2, <1>3, <2>5
  <2> QED BY <2>6
<1> HIDE DEF P
<1>6. n \in P
  BY <1>0, <1>4, <1>5, Top DEF Climbs
<1> QED BY <1>1, <1>2, <1>3, <1>6 DEF P

(* A sum may be taken in two parts.                                        *)
THEOREM TotalOfParts ==
  ASSUME NEW m \in Nat, NEW n \in Nat, NEW f \in [1 .. m -> Int], NEW g \in [1 .. n -> Int],
         NEW h \in [1 .. m + n -> Int],
         \A i \in 1 .. m : h[i] = f[i], \A i \in 1 .. n : h[m + i] = g[i]
  PROVE  Total(h) = Total(f) + Total(g)
<1> DEFINE P == {k \in 0 .. n : Total(Upto(h, m + k)) = Total(f) + Total(Upto(g, k))}
<1>1. /\ Total(Upto(g, 0)) = 0 /\ Total(Upto(g, n)) = Total(g)
      /\ \A k \in 0 .. n : Total(Upto(g, k)) \in Int
      /\ \A k \in 1 .. n : Total(Upto(g, k)) = Total(Upto(g, k - 1)) + g[k]
  BY Totals
<1>2. /\ Total(Upto(h, m + n)) = Total(h)
      /\ \A k \in 1 .. m + n : Total(Upto(h, k)) = Total(Upto(h, k - 1)) + h[k]
  <2>1. m + n \in Nat
    OBVIOUS
  <2> QED BY <2>1, Totals
<1>3. Upto(h, m) = f /\ m + 0 = m
  BY DEF Upto
<1>4. Total(f) \in Int
  BY FS_Interval, TotalIsInteger
<1>5. 0 \in P
  BY <1>1, <1>3, <1>4
<1>6. ASSUME NEW k \in 1 .. n, k - 1 \in P PROVE k \in P
  <2>1. m + k \in 1 .. m + n /\ (m + k) - 1 = m + (k - 1) /\ k - 1 \in 0 .. n
    OBVIOUS
  <2>2. Total(Upto(h, m + k)) = Total(Upto(h, m + (k - 1))) + h[m + k]
    <3>1. Total(Upto(h, m + k)) = Total(Upto(h, (m + k) - 1)) + h[m + k]
      BY <1>2, <2>1
    <3> QED BY <2>1, <3>1
  <2>3. Total(Upto(h, m + (k - 1))) = Total(f) + Total(Upto(g, k - 1))
    BY <1>6
  <2>4. h[m + k] = g[k] /\ g[k] \in Int
    OBVIOUS
  <2>5. Total(Upto(h, m + k)) = Total(f) + Total(Upto(g, k))
    BY <1>1, <1>4, <2>1, <2>2, <2>3, <2>4
  <2> QED BY <2>5
<1> HIDE DEF P
<1>7. n \in P
  BY <1>5, <1>6, Top DEF Climbs
<1> QED BY <1>1, <1>2, <1>7 DEF P
=============================================================================
