------------------------------ MODULE SetLemmas ------------------------------
(***************************************************************************)
(* Induction and sums without an operator as a parameter: what the proofs  *)
(* about the loop of page_result and about the buckets of attribute()      *)
(* share.  An induction is stated over a set of numbers, or of sets, that  *)
(* contains the first one and with every one the next.                     *)
(***************************************************************************)
EXTENDS Integers, FiniteSets, FiniteSetsExt, FiniteSetTheorems, TLAPS

(* Numbers: their sets have a least member, since the library's order on   *)
(* finite sets is well-founded.                                            *)
LEMMA Least ==
    ASSUME NEW S, S \subseteq Nat, S # {}
    PROVE  \E m \in S : \A k \in S : m <= k
<1> DEFINE Below(k) == 1 .. k
           T == {Below(k) : k \in S}
<1>1. T \subseteq FiniteSubsetsOf(Nat)
  BY FS_Interval DEF FiniteSubsetsOf
<1>2. PICK x \in T : \A y \in T : <<y, x>> \notin StrictSubsetOrdering(Nat)
  <2>1. T # {}
    OBVIOUS
  <2>2. IsWellFoundedOn(StrictSubsetOrdering(Nat), FiniteSubsetsOf(Nat))
    BY FS_StrictSubsetOrderingWellFounded
  <2> QED
    BY <1>1, <2>1, <2>2, WFMin
<1>3. PICK m \in S : x = Below(m)
  OBVIOUS
<1>4. ASSUME NEW k \in S, k < m PROVE FALSE
  <2>1. Below(k) \in T /\ Below(k) \subseteq Below(m) /\ m \in Below(m) /\ m \notin Below(k)
    BY <1>4
  <2>2. <<Below(k), x>> \in StrictSubsetOrdering(Nat)
    <3>1. Below(k) \in SUBSET Nat /\ Below(m) \in SUBSET Nat /\ Below(k) # Below(m)
      BY <2>1
    <3>2. <<Below(k), Below(m)>> \in (SUBSET Nat) \X (SUBSET Nat)
      BY <3>1
    <3> QED
      BY <3>1, <3>2, <2>1, <1>3 DEF StrictSubsetOrdering
  <2> QED
    BY <2>1, <2>2, <1>2
<1> QED
  BY <1>3, <1>4

(* Induction up to a bound, over a set. *)
LEMMA UpTo ==
    ASSUME NEW N \in Nat, NEW S, 1 \in S, \A n \in S : n \in 1 .. N - 1 => n + 1 \in S
    PROVE  1 .. N \subseteq S
<1> SUFFICES ASSUME ~(1 .. N \subseteq S) PROVE FALSE
  OBVIOUS
<1> DEFINE Rest == {n \in 1 .. N : n \notin S}
<1>1. PICK m \in Rest : \A k \in Rest : m <= k
  <2>1. Rest \subseteq Nat /\ Rest # {}
    OBVIOUS
  <2> QED
    BY <2>1, Least
<1>2. m - 1 \in 1 .. N - 1 /\ m - 1 \in S
  BY <1>1
<1> QED
  BY <1>1, <1>2

(* h lists the first N results of applying g again and again to a.         *)
Iterated(h, T, g, a, N) ==
    /\ h \in [1 .. N -> T]
    /\ \A n \in 1 .. N : h[n] = IF n = 1 THEN a ELSE g[h[n - 1]]

Closed(T, g, a) == g \in [T -> T] /\ a \in T

LEMMA Iterates ==
    ASSUME NEW T, NEW g, NEW a, Closed(T, g, a), NEW N \in Nat
    PROVE  \E h : Iterated(h, T, g, a, N)
<1> DEFINE S == {n \in Nat : \E h : Iterated(h, T, g, a, n)}
<1>1. 1 \in S
  <2> DEFINE h == [k \in 1 .. 1 |-> a]
  <2>1. Iterated(h, T, g, a, 1)
    BY DEF Iterated, Closed
  <2> QED
    BY <2>1
<1>2. ASSUME NEW n \in S, n \in 1 .. N - 1 PROVE n + 1 \in S
  <2>1. PICK h : Iterated(h, T, g, a, n)
    OBVIOUS
  <2> DEFINE hh == [k \in 1 .. n + 1 |-> IF k = n + 1 THEN g[h[n]] ELSE h[k]]
  <2>2. hh \in [1 .. n + 1 -> T]
    BY <1>2, <2>1 DEF Iterated, Closed
  <2>3. \A k \in 1 .. n + 1 : hh[k] = IF k = 1 THEN a ELSE g[hh[k - 1]]
    <3> TAKE k \in 1 .. n + 1
    <3>1. CASE k = n + 1
      BY <3>1, <1>2
    <3>2. CASE k # n + 1
      <4>1. k \in 1 .. n /\ hh[k] = h[k] /\ h[k] = IF k = 1 THEN a ELSE g[h[k - 1]]
        BY <3>2, <2>1, <1>2 DEF Iterated
      <4>2. k # 1 => k - 1 \in 1 .. n + 1 /\ k - 1 # n + 1
        BY <1>2
      <4>3. k # 1 => hh[k - 1] = h[k - 1]
        BY <4>2
      <4> HIDE DEF hh
      <4> QED
        BY <4>1, <4>3
    <3> QED
      BY <3>1, <3>2
  <2>4. Iterated(hh, T, g, a, n + 1)
    <3> HIDE DEF hh
    <3> QED
      BY <2>2, <2>3 DEF Iterated
  <2> QED
    BY <2>4
<1>3. CASE N = 0
  <2> DEFINE h == [k \in 1 .. N |-> a]
  <2>1. h \in [1 .. N -> T] /\ \A k \in 1 .. N : FALSE
    BY <1>3
  <2> QED
    BY <2>1 DEF Iterated
<1>4. CASE N # 0
  <2> HIDE DEF S
  <2>1. 1 .. N \subseteq S
    BY <1>1, <1>2, UpTo
  <2> QED
    BY <2>1, <1>4 DEF S
<1> QED
  BY <1>3, <1>4

-----------------------------------------------------------------------------
(* A set of finite sets has a least member: the library's order on them is *)
(* well-founded.                                                           *)
LEMMA Smallest ==
    ASSUME NEW S, IsFiniteSet(S), NEW Q, Q \subseteq SUBSET S, Q # {}
    PROVE  \E s \in Q : \A r \in Q : r \subseteq s => r = s
<1>1. Q \subseteq FiniteSubsetsOf(S)
  BY FS_FiniteSubsetsOfFinite
<1>2. IsWellFoundedOn(StrictSubsetOrdering(S), FiniteSubsetsOf(S))
  BY FS_StrictSubsetOrderingWellFounded
<1>3. PICK s \in Q : \A r \in Q : <<r, s>> \notin StrictSubsetOrdering(S)
  BY <1>1, <1>2, WFMin
<1>4. ASSUME NEW r \in Q, r \subseteq s, r # s PROVE FALSE
  <2>1. <<r, s>> \in (SUBSET S) \X (SUBSET S)
    OBVIOUS
  <2>2. <<r, s>> \in StrictSubsetOrdering(S)
    BY <1>4, <2>1 DEF StrictSubsetOrdering
  <2> QED
    BY <2>2, <1>3
<1> QED
  BY <1>4

(* What MapThenSumSet does: the sum of a set is that of one member and of  *)
(* the rest.                                                               *)
Pick(s) == CHOOSE x \in s : TRUE
Rest(s) == s \ {Pick(s)}

Adds(F, g, D) ==
    F = [s \in D |-> IF s = {} THEN 0 ELSE g[Pick(s)] + F[Rest(s)]]

(* Every set is reached from the empty one. *)
LEMMA SetInduction ==
    ASSUME NEW S, IsFiniteSet(S), NEW Q, {} \in Q,
           \A s \in SUBSET S : s # {} /\ Rest(s) \in Q => s \in Q
    PROVE  SUBSET S \subseteq Q
<1> DEFINE Others == {s \in SUBSET S : s \notin Q}
<1>1. ASSUME Others # {} PROVE FALSE
  <2>1. PICK s \in Others : \A r \in Others : r \subseteq s => r = s
    <3> HIDE DEF Others
    <3>1. Others \subseteq SUBSET S
      BY DEF Others
    <3> QED
      BY <1>1, <3>1, Smallest
  <2>2. s # {} /\ Pick(s) \in s
    BY <2>1 DEF Pick
  <2>3. Rest(s) \in SUBSET S /\ Rest(s) \subseteq s /\ Rest(s) # s
    BY <2>1, <2>2 DEF Rest
  <2> QED
    BY <2>1, <2>2, <2>3
<1> QED
  BY <1>1

(* Such a sum exists: of the sets of subsets which have one, take a        *)
(* largest.                                                                *)
LEMMA SumExists ==
    ASSUME NEW S, IsFiniteSet(S), NEW g
    PROVE  \E F : Adds(F, g, SUBSET S)
<1> DEFINE P == SUBSET S
           Done(D) == /\ D \in SUBSET P
                      /\ \A s \in D : s # {} => Rest(s) \in D
                      /\ \E F : Adds(F, g, D)
           Todo == {P \ D : D \in {DD \in SUBSET P : Done(DD)}}
<1>1. IsFiniteSet(P)
  BY FS_SUBSET
<1>2. P \in Todo
  <2>1. Done({})
    <3>1. Adds([s \in {} |-> 0], g, {})
      BY DEF Adds
    <3> QED
      BY <3>1
  <2>2. P = P \ {}
    OBVIOUS
  <2> HIDE DEF P, Done
  <2> QED
    BY <2>1, <2>2
<1>3. Todo \subseteq SUBSET P
  OBVIOUS
<1>4. PICK T \in Todo : \A R \in Todo : R \subseteq T => R = T
  <2> HIDE DEF Todo, P
  <2> QED
    BY <1>1, <1>2, <1>3, Smallest
<1>5. PICK D \in SUBSET P : Done(D) /\ T = P \ D
  BY <1>4
<1>6. ASSUME D # P PROVE FALSE
  <2>1. PICK s \in P \ D : \A r \in P \ D : r \subseteq s => r = s
    <3>1. P \ D \subseteq SUBSET S /\ P \ D # {}
      BY <1>6
    <3> DEFINE Q == P \ D
    <3> HIDE DEF P, Q
    <3>2. Q \subseteq SUBSET S /\ Q # {}
      BY <3>1 DEF Q
    <3>3. \E s \in Q : \A r \in Q : r \subseteq s => r = s
      BY <3>2, Smallest
    <3> QED
      BY <3>3 DEF Q
  <2>2. s # {} => Rest(s) \in D
    <3>1. s # {} => Rest(s) \in P /\ Rest(s) \subseteq s /\ Rest(s) # s
      BY DEF Rest, Pick
    <3> QED
      BY <2>1, <3>1
  <2>3. PICK F : Adds(F, g, D)
    BY <1>5
  <2> DEFINE E == D \cup {s}
             G == [r \in E |-> IF r = s THEN IF s = {} THEN 0 ELSE g[Pick(s)] + F[Rest(s)]
                                        ELSE F[r]]
  <2>4. \A r \in E : r # {} => Rest(r) \in D
    BY <1>5, <2>2
  <2>5. s \notin D
    BY <2>1
  <2>6. \A r \in D : G[r] = F[r]
    BY <2>5
  <2>7. \A r \in E : G[r] = IF r = {} THEN 0 ELSE g[Pick(r)] + G[Rest(r)]
    <3> TAKE r \in E
    <3>1. CASE r = s
      BY <3>1, <2>4, <2>6
    <3>2. CASE r # s
      <4>1. r \in D /\ F[r] = IF r = {} THEN 0 ELSE g[Pick(r)] + F[Rest(r)]
        <5>1. r \in D
          BY <3>2
        <5> QED
          BY <5>1, <2>3 DEF Adds
      <4> HIDE DEF G
      <4> QED
        BY <4>1, <2>4, <2>6
    <3> QED
      BY <3>1, <3>2
  <2>8. Adds(G, g, E)
    <3>1. G = [r \in E |-> G[r]]
      OBVIOUS
    <3> HIDE DEF G
    <3> QED
      BY <3>1, <2>7 DEF Adds
  <2>9. Done(E)
    <3> HIDE DEF G
    <3>1. E \in SUBSET P
      BY <2>1
    <3>2. \A r \in E : r # {} => Rest(r) \in E
      BY <2>4
    <3> QED
      BY <2>8, <3>1, <3>2
  <2>10. P \ E \in Todo
    <3> HIDE DEF E, P
    <3>1. E \in SUBSET P
      BY <2>9 DEF Done
    <3> HIDE DEF Done
    <3> QED
      BY <2>9, <3>1
  <2>11. P \ E \subseteq T /\ P \ E # T
    <3>1. s \in T /\ s \notin P \ E
      BY <2>1, <1>5
    <3> HIDE DEF P
    <3> QED
      BY <3>1, <1>5
  <2> QED
    BY <2>10, <2>11, <1>4
<1> QED
  BY <1>5, <1>6

-----------------------------------------------------------------------------
(* Sums over a set: they are the CHOOSE of such a function.                *)
Sum(g, S) == MapThenSumSet(LAMBDA c : g[c], S)

LEMMA SumUnfolds ==
    ASSUME NEW S, IsFiniteSet(S), NEW g
    PROVE  \E G : Adds(G, g, SUBSET S) /\ Sum(g, S) = G[S]
<1> DEFINE IsFold(h) == h = [s \in SUBSET S |-> IF s = {} THEN 0 ELSE g[Pick(s)] + h[s \ {Pick(s)}]]
           G == CHOOSE h : IsFold(h)
<1>1. \E F : IsFold(F)
  <2>1. PICK F : Adds(F, g, SUBSET S)
    BY SumExists
  <2>2. IsFold(F)
    BY <2>1 DEF Adds, Rest
  <2> QED
    BY <2>2
<1>2. IsFold(G)
  BY <1>1
<1>3. Sum(g, S) = G[S]
  BY DEF Sum, MapThenSumSet, MapThenFoldSet, Pick
<1> HIDE DEF G
<1> QED
  BY <1>2, <1>3 DEF Adds, Rest

(* A sum of numbers is one, and it grows with its members.                 *)
LEMMA SumGrows ==
    ASSUME NEW S, IsFiniteSet(S), NEW g \in [S -> Nat], NEW h \in [S -> Nat],
           NEW c \in S, NEW d \in Nat, h[c] = g[c] + d, \A x \in S : x # c => h[x] = g[x]
    PROVE  Sum(g, S) \in Nat /\ Sum(h, S) = Sum(g, S) + d
<1>1. PICK G : Adds(G, g, SUBSET S) /\ Sum(g, S) = G[S]
  BY SumUnfolds
<1>2. PICK H : Adds(H, h, SUBSET S) /\ Sum(h, S) = H[S]
  BY SumUnfolds
<1> DEFINE Q == {s \in SUBSET S : G[s] \in Nat /\ H[s] = G[s] + IF c \in s THEN d ELSE 0}
<1>3. {} \in Q
  <2>1. G[{}] = 0 /\ H[{}] = 0
    BY <1>1, <1>2 DEF Adds
  <2> QED
    BY <2>1
<1>4. ASSUME NEW s \in SUBSET S, s # {}, Rest(s) \in Q PROVE s \in Q
  <2>1. Pick(s) \in s /\ Pick(s) \in S
    BY <1>4 DEF Pick
  <2>2. G[s] = g[Pick(s)] + G[Rest(s)] /\ H[s] = h[Pick(s)] + H[Rest(s)]
    BY <1>1, <1>2, <1>4 DEF Adds
  <2>3. g[Pick(s)] \in Nat /\ h[Pick(s)] = g[Pick(s)] + IF Pick(s) = c THEN d ELSE 0
    BY <2>1
  <2>4. G[Rest(s)] \in Nat /\ H[Rest(s)] = G[Rest(s)] + IF c \in Rest(s) THEN d ELSE 0
    BY <1>4
  <2>5. (c \in s) <=> (Pick(s) = c \/ c \in Rest(s))
    BY <2>1 DEF Rest
  <2>6. Pick(s) = c => c \notin Rest(s)
    BY DEF Rest
  <2> QED
    BY <2>2, <2>3, <2>4, <2>5, <2>6
<1>5. SUBSET S \subseteq Q
  <2> HIDE DEF Q
  <2> QED
    BY <1>3, <1>4, SetInduction
<1>6. S \in Q
  <2> HIDE DEF Q
  <2> QED
    BY <1>5
<1> QED
  BY <1>1, <1>2, <1>6

(* A sum of zeros. *)
LEMMA SumOfNothing ==
    ASSUME NEW S, IsFiniteSet(S), NEW g, \A c \in S : g[c] = 0
    PROVE  Sum(g, S) = 0
<1>1. PICK G : Adds(G, g, SUBSET S) /\ Sum(g, S) = G[S]
  BY SumUnfolds
<1> DEFINE Q == {s \in SUBSET S : G[s] = 0}
<1>2. {} \in Q
  BY <1>1 DEF Adds
<1>3. ASSUME NEW s \in SUBSET S, s # {}, Rest(s) \in Q PROVE s \in Q
  <2>1. g[Pick(s)] = 0
    BY <1>3 DEF Pick
  <2>2. G[s] = g[Pick(s)] + G[Rest(s)]
    BY <1>1, <1>3 DEF Adds
  <2> QED
    BY <2>1, <2>2, <1>3
<1>4. SUBSET S \subseteq Q
  <2> HIDE DEF Q
  <2> QED
    BY <1>2, <1>3, SetInduction
<1> QED
  BY <1>1, <1>4

LEMMA SumType ==
    ASSUME NEW S, IsFiniteSet(S), NEW g \in [S -> Nat]
    PROVE  Sum(g, S) \in Nat
<1>1. CASE S = {}
  <2>1. Sum(g, S) = 0
    BY <1>1, SumOfNothing
  <2> QED
    BY <2>1
<1>2. CASE S # {}
  <2>1. PICK c \in S : TRUE
    BY <1>2
  <2>2. g[c] = g[c] + 0 /\ \A x \in S : x # c => g[x] = g[x]
    BY <2>1
  <2> QED
    BY ONLY <2>1, <2>2, IsFiniteSet(S), g \in [S -> Nat], SumGrows
<1> QED
  BY <1>1, <1>2

LEMMA SumMonotone ==
    ASSUME NEW S, IsFiniteSet(S), NEW g \in [S -> Nat], NEW h \in [S -> Nat],
           \A c \in S : g[c] <= h[c]
    PROVE  Sum(g, S) <= Sum(h, S)
<1>1. PICK G : Adds(G, g, SUBSET S) /\ Sum(g, S) = G[S]
  BY SumUnfolds
<1>2. PICK H : Adds(H, h, SUBSET S) /\ Sum(h, S) = H[S]
  BY SumUnfolds
<1> DEFINE Q == {s \in SUBSET S : G[s] \in Nat /\ H[s] \in Nat /\ G[s] <= H[s]}
<1>3. {} \in Q
  <2>1. G[{}] = 0 /\ H[{}] = 0
    BY <1>1, <1>2 DEF Adds
  <2> QED
    BY <2>1
<1>4. ASSUME NEW s \in SUBSET S, s # {}, Rest(s) \in Q PROVE s \in Q
  <2>1. Pick(s) \in S
    BY <1>4 DEF Pick
  <2>2. G[s] = g[Pick(s)] + G[Rest(s)] /\ H[s] = h[Pick(s)] + H[Rest(s)]
    BY <1>1, <1>2, <1>4 DEF Adds
  <2>3. g[Pick(s)] \in Nat /\ h[Pick(s)] \in Nat /\ g[Pick(s)] <= h[Pick(s)]
    BY <2>1
  <2> QED
    BY <2>2, <2>3, <1>4
<1>5. SUBSET S \subseteq Q
  <2> HIDE DEF Q
  <2> QED
    BY <1>3, <1>4, SetInduction
<1> QED
  BY <1>1, <1>2, <1>5

(* One member that is not zero makes it one.                               *)
LEMMA SumPositive ==
    ASSUME NEW S, IsFiniteSet(S), NEW g \in [S -> Nat], NEW c \in S, g[c] # 0
    PROVE  Sum(g, S) \in Nat \ {0}
<1>1. PICK h : h = [x \in S |-> IF x = c THEN 0 ELSE g[x]]
  OBVIOUS
<1>2. h \in [S -> Nat] /\ g[c] \in Nat /\ g[c] = h[c] + g[c] /\ \A x \in S : x # c => g[x] = h[x]
  BY <1>1
<1>3. Sum(h, S) \in Nat /\ Sum(g, S) = Sum(h, S) + g[c]
  BY ONLY <1>2, IsFiniteSet(S), g \in [S -> Nat], c \in S, SumGrows
<1> QED
  BY <1>2, <1>3

LEMMA Bounded ==
    ASSUME NEW S, IsFiniteSet(S), NEW g \in [S -> Nat]
    PROVE  \E n \in Nat : \A c \in S : g[c] <= n
<1> DEFINE Q == {s \in SUBSET S : \E n \in Nat : \A c \in s : g[c] <= n}
<1>1. {} \in Q
  OBVIOUS
<1>2. ASSUME NEW s \in SUBSET S, s # {}, Rest(s) \in Q PROVE s \in Q
  <2>1. PICK n \in Nat : \A c \in Rest(s) : g[c] <= n
    BY <1>2
  <2>2. Pick(s) \in S /\ g[Pick(s)] \in Nat
    BY <1>2 DEF Pick
  <2>3. \A c \in s : g[c] <= n + g[Pick(s)]
    <3> TAKE c \in s
    <3>1. g[c] \in Nat
      OBVIOUS
    <3> QED
      BY <2>1, <2>2, <3>1 DEF Rest
  <2>4. n + g[Pick(s)] \in Nat
    BY <2>2
  <2> QED
    BY <2>3, <2>4
<1>3. SUBSET S \subseteq Q
  <2> HIDE DEF Q
  <2> QED
    BY <1>1, <1>2, SetInduction
<1> QED
  BY <1>3

LEMMA Largest ==
    ASSUME NEW S, IsFiniteSet(S), S # {}, NEW g \in [S -> Nat]
    PROVE  \E c \in S : \A d \in S : g[d] <= g[c]
<1> DEFINE U == {n \in Nat : \A c \in S : g[c] <= n}
<1>1. PICK n \in U : \A m \in U : n <= m
  <2>1. U # {} /\ U \subseteq Nat
    BY Bounded
  <2> HIDE DEF U
  <2> QED
    BY <2>1, Least
<1>2. CASE n = 0
  <2>1. PICK c \in S : TRUE
    OBVIOUS
  <2>2. \A d \in S : g[d] <= g[c]
    BY <1>1, <1>2, <2>1
  <2> QED
    BY <2>2
<1>3. CASE n # 0
  <2>1. n - 1 \in Nat /\ n - 1 \notin U
    BY <1>1, <1>3
  <2>2. PICK c \in S : ~(g[c] <= n - 1)
    BY <2>1
  <2>3. g[c] \in Nat /\ g[c] <= n
    BY <1>1
  <2>4. \A d \in S : g[d] <= g[c]
    BY <1>1, <2>2, <2>3
  <2> QED
    BY <2>4
<1> QED
  BY <1>2, <1>3
==============================================================================
