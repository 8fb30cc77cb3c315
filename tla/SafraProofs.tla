---------------------------- MODULE SafraProofs ----------------------------
(***************************************************************************)
(* For any number of processes there is one token until the initiator        *)
(* announces the termination and none afterwards (TokenInv says where it is), *)
(* the token accounts for the messages on their way, and Terminate is         *)
(* delivered only when the computation has terminated (SoundInv).             *)
(*                                                                         *)
(* The account is a sum over a set of processes. What a sum is for every      *)
(* finite set is shown by a smallest counterexample among its subsets.        *)
(***************************************************************************)
EXTENDS Safra, FiniteSetTheorems, WellFoundedInduction, TLAPS

-----------------------------------------------------------------------------
\* Among sets of finite sets there is a smallest one.
LEMMA SmallestSet ==
  ASSUME NEW S, IsFiniteSet(S), NEW U \in SUBSET SUBSET S, U # {}
  PROVE  \E u \in U : \A v \in U : v \subseteq u => v = u
<1>1. U \subseteq FiniteSubsetsOf(S)
  BY FS_FiniteSubsetsOfFinite
<1>2. PICK u \in U : \A v \in U : ~ (<<v, u>> \in StrictSubsetOrdering(S))
  BY <1>1, FS_StrictSubsetOrderingWellFounded, WFMin
<1>3. ASSUME NEW v \in U, v \subseteq u PROVE v = u
  BY <1>2, <1>3 DEF StrictSubsetOrdering
<1> QED
  BY <1>3

\* A set that holds 0 and the successors of its naturals holds every natural.
LEMMA Induction ==
  ASSUME NEW T, 0 \in T, \A n \in Nat : n \in T => n + 1 \in T
  PROVE  Nat \subseteq T
<1> DEFINE U == Nat \ T
<1>1. SUFFICES ASSUME U # {} PROVE FALSE
  OBVIOUS
<1>2. PICK n \in U : \A m \in U : ~ (<<m, n>> \in OpToRel(<, Nat))
  BY <1>1, NatLessThanWellFounded, WFMin
<1>3. \A m \in U : ~ (m < n)
  BY <1>2, Zenon DEF OpToRel
<1>4. n - 1 \in Nat /\ n - 1 \notin U
  BY <1>3
<1> QED
  BY <1>4

\* A sum takes the elements of a set one by one, in the order of CHOOSE.
chosen(s) == CHOOSE x \in s : TRUE

Iter(S, f, g) ==
  g = [s \in SUBSET S |-> IF s = {} THEN 0 ELSE f[chosen(s)] + g[s \ {chosen(s)}]]

LEMMA SumIsIter ==
  ASSUME NEW S, NEW f
  PROVE  SumOver(S, f) = (CHOOSE g : Iter(S, f, g))[S]
  BY DEF SumOver, MapThenSumSet, MapThenFoldSet, Iter, chosen

LEMMA Chosen == ASSUME NEW s, s # {} PROVE chosen(s) \in s
  BY DEF chosen

Small(S, n) == {s \in SUBSET S : Cardinality(s) <= n}

\* The recursion over the subsets of a finite set has a solution, ...
LEMMA IterExists ==
  ASSUME NEW S, IsFiniteSet(S), NEW f, \A x \in S : f[x] \in Int
  PROVE  \E g \in [SUBSET S -> Int] : Iter(S, f, g)
<1> DEFINE D(n) == Small(S, n)
           T == {n \in Nat : \E g \in [Small(S, n) -> Int] : \A s \in Small(S, n) :
                  g[s] = IF s = {} THEN 0 ELSE f[chosen(s)] + g[s \ {chosen(s)}]}
<1>1. \A s \in SUBSET S : IsFiniteSet(s) /\ Cardinality(s) \in Nat /\ (Cardinality(s) = 0 <=> s = {})
  BY FS_Subset, FS_CardinalityType, FS_EmptySet
<1>2. 0 \in T
  <2>1. \A s \in Small(S, 0) : s = {}
    BY <1>1 DEF Small
  <2>2. [s \in Small(S, 0) |-> 0] \in [Small(S, 0) -> Int]
    OBVIOUS
  <2> QED
    BY <2>1, <2>2
<1>3. ASSUME NEW n \in Nat, n \in T PROVE n + 1 \in T
  <2>1. PICK g \in [Small(S, n) -> Int] : \A s \in Small(S, n) :
                  g[s] = IF s = {} THEN 0 ELSE f[chosen(s)] + g[s \ {chosen(s)}]
    BY <1>3
  <2> DEFINE h == [s \in Small(S, n + 1) |->
                     IF s = {} THEN 0 ELSE f[chosen(s)] + g[s \ {chosen(s)}]]
  <2>2. ASSUME NEW s \in Small(S, n + 1), s # {}
        PROVE  s \ {chosen(s)} \in Small(S, n) /\ f[chosen(s)] \in Int
    <3>1. chosen(s) \in s /\ s \in SUBSET S /\ Cardinality(s) <= n + 1
      BY <2>2, Chosen DEF Small
    <3>2. Cardinality(s \ {chosen(s)}) = Cardinality(s) - 1
      BY <3>1, <1>1, FS_RemoveElement
    <3> QED
      BY <3>1, <3>2, <1>1 DEF Small
  <2>3. h \in [Small(S, n + 1) -> Int]
    BY <2>2
  <2>4. \A s \in Small(S, n) : s \in Small(S, n + 1) /\ h[s] = g[s]
    <3>1. \A s \in Small(S, n) : s \in Small(S, n + 1)
      BY <1>1 DEF Small
    <3> QED
      BY <3>1, <2>1
  <2>5. \A s \in Small(S, n + 1) :
          h[s] = IF s = {} THEN 0 ELSE f[chosen(s)] + h[s \ {chosen(s)}]
    BY <2>2, <2>4
  <2> HIDE DEF h
  <2> QED
    BY <2>3, <2>5
<1>4. Cardinality(S) \in T
  <2> HIDE DEF T
  <2> QED
    BY <1>1, <1>2, <1>3, Induction
<1>5. Small(S, Cardinality(S)) = SUBSET S
  BY FS_Subset DEF Small
<1>6. PICK g \in [SUBSET S -> Int] : \A s \in SUBSET S :
        g[s] = IF s = {} THEN 0 ELSE f[chosen(s)] + g[s \ {chosen(s)}]
  BY <1>4, <1>5
<1> QED
  BY <1>6 DEF Iter

\* ... and only one, which depends on the terms summed only.
LEMMA IterUnique ==
  ASSUME NEW S, IsFiniteSet(S), NEW R \in SUBSET S, NEW f, NEW e, \A x \in R : f[x] = e[x],
         NEW g, Iter(S, f, g), NEW h, Iter(R, e, h)
  PROVE  g[R] = h[R]
<1> DEFINE U == {s \in SUBSET R : g[s] # h[s]}
<1>1. SUFFICES ASSUME U # {} PROVE FALSE
  OBVIOUS
<1>2. PICK u \in U : \A v \in U : v \subseteq u => v = u
  <2>1. U \in SUBSET SUBSET R /\ IsFiniteSet(R)
    BY FS_Subset
  <2> HIDE DEF U
  <2> QED
    BY <1>1, <2>1, SmallestSet
<1>3. g[u] = (IF u = {} THEN 0 ELSE f[chosen(u)] + g[u \ {chosen(u)}])
  BY DEF Iter
<1>4. h[u] = (IF u = {} THEN 0 ELSE e[chosen(u)] + h[u \ {chosen(u)}])
  BY DEF Iter
<1>5. chosen(u) \in u
  BY <1>3, <1>4, Chosen
<1>6. u \ {chosen(u)} \notin U
  BY <1>2, <1>5
<1> QED
  BY <1>3, <1>4, <1>5, <1>6

LEMMA SumDef ==
  ASSUME NEW S, IsFiniteSet(S), NEW f, \A x \in S : f[x] \in Int
  PROVE  /\ SumOver(S, f) \in Int
         /\ Iter(S, f, CHOOSE g : Iter(S, f, g))
<1>1. PICK g \in [SUBSET S -> Int] : Iter(S, f, g)
  BY IterExists
<1>2. Iter(S, f, CHOOSE h : Iter(S, f, h))
  BY <1>1
<1>3. g[S] = (CHOOSE h : Iter(S, f, h))[S]
  BY <1>1, <1>2, IterUnique
<1> QED
  BY <1>1, <1>2, <1>3, SumIsIter

LEMMA SumAgrees ==
  ASSUME NEW S, IsFiniteSet(S), NEW f, NEW e, \A x \in S : f[x] \in Int /\ e[x] = f[x]
  PROVE  SumOver(S, f) = SumOver(S, e)
  BY SumDef, IterUnique, SumIsIter

LEMMA SumEmpty == \A f : SumOver({}, f) = 0
<1> TAKE f
<1>1. Iter({}, f, CHOOSE g : Iter({}, f, g))
  BY SumDef, FS_EmptySet
<1> QED
  BY <1>1, SumIsIter DEF Iter

\* SumOver as it computes,
LEMMA SumChosen ==
  ASSUME NEW S, IsFiniteSet(S), NEW f, \A x \in S : f[x] \in Int, S # {}
  PROVE  SumOver(S, f) = f[chosen(S)] + SumOver(S \ {chosen(S)}, f)
<1> DEFINE R == S \ {chosen(S)}
           g == CHOOSE e : Iter(S, f, e)
           h == CHOOSE e : Iter(R, f, e)
<1>1. Iter(S, f, g)
  BY SumDef
<1>2. Iter(R, f, h)
  BY SumDef, FS_Subset
<1> HIDE DEF g, h
<1>3. g[R] = h[R]
  BY <1>1, <1>2, IterUnique
<1>4. g[S] = f[chosen(S)] + g[R]
  BY <1>1 DEF Iter
<1>5. SumOver(S, f) = g[S] /\ SumOver(R, f) = h[R]
  BY SumIsIter DEF g, h
<1> QED
  BY <1>3, <1>4, <1>5

\* and in any order.
LEMMA SumSplit ==
  ASSUME NEW S, IsFiniteSet(S), NEW f, \A x \in S : f[x] \in Int, NEW x \in S
  PROVE  SumOver(S, f) = f[x] + SumOver(S \ {x}, f)
<1> DEFINE U == {s \in SUBSET S : \E y \in s : SumOver(s, f) # f[y] + SumOver(s \ {y}, f)}
<1>1. SUFFICES ASSUME U # {} PROVE FALSE
  OBVIOUS
<1>2. PICK u \in U : \A v \in U : v \subseteq u => v = u
  <2>1. U \in SUBSET SUBSET S
    OBVIOUS
  <2> HIDE DEF U
  <2> QED
    BY <1>1, <2>1, SmallestSet
<1>3. PICK y \in u : SumOver(u, f) # f[y] + SumOver(u \ {y}, f)
  OBVIOUS
<1> DEFINE c == chosen(u)
<1>4. c \in u /\ u \subseteq S
  BY Chosen
<1>5. \A s \in SUBSET S : IsFiniteSet(s) /\ SumOver(s, f) \in Int
  BY SumDef, FS_Subset
<1>6. SumOver(u, f) = f[c] + SumOver(u \ {c}, f)
  BY <1>4, <1>5, SumChosen
<1> HIDE DEF c
<1>7. y # c
  BY <1>3, <1>6
<1>8. u \ {c} \notin U /\ u \ {y} \notin U
  BY <1>2, <1>4
<1>9. SumOver(u \ {c}, f) = f[y] + SumOver((u \ {c}) \ {y}, f)
  BY <1>8, <1>7, <1>4
<1>10. SumOver(u \ {y}, f) = f[c] + SumOver((u \ {y}) \ {c}, f)
  BY <1>8, <1>7, <1>4
<1>11. (u \ {y}) \ {c} = (u \ {c}) \ {y}
  OBVIOUS
<1>13. SumOver((u \ {y}) \ {c}, f) = SumOver((u \ {c}) \ {y}, f)
  BY <1>11
<1>12. /\ f[c] \in Int /\ f[y] \in Int /\ SumOver((u \ {y}) \ {c}, f) \in Int
       /\ SumOver(u \ {c}, f) \in Int /\ SumOver(u \ {y}, f) \in Int
  BY <1>4, <1>5
<1> QED
  BY <1>3, <1>6, <1>9, <1>10, <1>12, <1>13

\* One term changes.
LEMMA SumChange ==
  ASSUME NEW S, IsFiniteSet(S), NEW f, NEW e, NEW p \in S, NEW k \in Int, e[p] = f[p] + k,
         \A x \in S : f[x] \in Int /\ e[x] \in Int /\ (x # p => e[x] = f[x])
  PROVE  SumOver(S, e) = SumOver(S, f) + k
<1>1. SumOver(S \ {p}, e) = SumOver(S \ {p}, f)
  BY SumAgrees, FS_Subset
<1>2. SumOver(S, f) = f[p] + SumOver(S \ {p}, f)
  BY SumSplit
<1>3. SumOver(S, e) = e[p] + SumOver(S \ {p}, e)
  BY SumSplit
<1>4. SumOver(S \ {p}, f) \in Int /\ f[p] \in Int
  BY SumDef, FS_Subset
<1> QED
  BY <1>1, <1>2, <1>3, <1>4

\* One is added to the terms of D.
LEMMA SumIncrement ==
  ASSUME NEW S, IsFiniteSet(S), NEW D \in SUBSET S, NEW f, NEW e,
         \A x \in S : f[x] \in Int /\ e[x] = IF x \in D THEN f[x] + 1 ELSE f[x]
  PROVE  SumOver(S, e) = SumOver(S, f) + Cardinality(D)
<1> DEFINE U == {s \in SUBSET S : SumOver(s, e) # SumOver(s, f) + Cardinality(s \cap D)}
<1>1. SUFFICES ASSUME U # {} PROVE FALSE
  <2>1. S \cap D = D
    OBVIOUS
  <2> QED
    BY <1>1, <2>1
<1>2. PICK u \in U : \A v \in U : v \subseteq u => v = u
  <2>1. U \in SUBSET SUBSET S
    OBVIOUS
  <2> HIDE DEF U
  <2> QED
    BY <1>1, <2>1, SmallestSet
<1>3. \A s \in SUBSET S : /\ IsFiniteSet(s) /\ IsFiniteSet(s \cap D) /\ Cardinality(s \cap D) \in Nat
                          /\ SumOver(s, f) \in Int /\ SumOver(s, e) \in Int
  <2> SUFFICES ASSUME NEW s \in SUBSET S
               PROVE  /\ IsFiniteSet(s) /\ IsFiniteSet(s \cap D) /\ Cardinality(s \cap D) \in Nat
                      /\ SumOver(s, f) \in Int /\ SumOver(s, e) \in Int
    OBVIOUS
  <2>1. IsFiniteSet(s) /\ IsFiniteSet(s \cap D)
    BY FS_Subset
  <2>2. \A x \in s : f[x] \in Int /\ e[x] \in Int
    OBVIOUS
  <2> QED
    BY <2>1, <2>2, FS_CardinalityType, SumDef
<1>4. u # {}
  <2>1. SumOver({}, e) = 0 /\ SumOver({}, f) = 0 /\ Cardinality({} \cap D) = 0
    BY SumEmpty, FS_EmptySet
  <2>2. SumOver(u, e) # SumOver(u, f) + Cardinality(u \cap D)
    OBVIOUS
  <2> SUFFICES ASSUME u = {} PROVE FALSE
    OBVIOUS
  <2> QED
    BY <2>1, <2>2
<1>5. PICK x \in u : TRUE
  BY <1>4
<1> DEFINE v == u \ {x}
<1>6. SumOver(v, e) = SumOver(v, f) + Cardinality(v \cap D)
  BY <1>2, <1>5
<1>7. SumOver(u, e) = e[x] + SumOver(v, e) /\ SumOver(u, f) = f[x] + SumOver(v, f)
  <2>1. u \in SUBSET S /\ IsFiniteSet(u)
    BY <1>3
  <2>2. \A y \in u : f[y] \in Int /\ e[y] \in Int
    BY <2>1
  <2> QED
    BY <1>5, <2>1, <2>2, SumSplit
<1>8. Cardinality(u \cap D) = Cardinality(v \cap D) + (IF x \in D THEN 1 ELSE 0)
  <2>1. CASE x \in D
    <3>1. u \cap D = (v \cap D) \cup {x} /\ x \notin v \cap D
      BY <1>5, <2>1
    <3> QED
      BY <3>1, <2>1, <1>3, FS_AddElement
  <2>2. CASE x \notin D
    <3>1. u \cap D = v \cap D
      BY <1>5, <2>2
    <3> QED
      BY <3>1, <2>2, <1>3
  <2> QED
    BY <2>1, <2>2
<1>9. /\ f[x] \in Int /\ e[x] = f[x] + (IF x \in D THEN 1 ELSE 0)
      /\ SumOver(v, e) \in Int /\ SumOver(v, f) \in Int /\ Cardinality(v \cap D) \in Nat
  BY <1>3, <1>5
<1>10. SumOver(u, e) # SumOver(u, f) + Cardinality(u \cap D)
  OBVIOUS
<1> HIDE DEF v
<1> QED
  BY <1>6, <1>7, <1>8, <1>9, <1>10

\* A sum of natural numbers bounds each of them.
LEMMA SumOfNats ==
  ASSUME NEW S, IsFiniteSet(S), NEW f, \A x \in S : f[x] \in Nat
  PROVE  SumOver(S, f) \in Nat /\ \A x \in S : f[x] <= SumOver(S, f)
<1> DEFINE U == {s \in SUBSET S : SumOver(s, f) \notin Nat}
<1>0. \A s \in SUBSET S : IsFiniteSet(s) /\ \A x \in s : SumOver(s, f) = f[x] + SumOver(s \ {x}, f)
  <2> SUFFICES ASSUME NEW s \in SUBSET S
               PROVE  IsFiniteSet(s) /\ \A x \in s : SumOver(s, f) = f[x] + SumOver(s \ {x}, f)
    OBVIOUS
  <2>1. IsFiniteSet(s) /\ \A x \in s : f[x] \in Int
    BY FS_Subset
  <2> QED
    BY <2>1, SumSplit
<1>1. U = {}
  <2> SUFFICES ASSUME U # {} PROVE FALSE
    OBVIOUS
  <2>1. PICK u \in U : \A v \in U : v \subseteq u => v = u
    <3>1. U \in SUBSET SUBSET S
      OBVIOUS
    <3> HIDE DEF U
    <3> QED
      BY <3>1, SmallestSet
  <2>2. u # {}
    BY SumEmpty
  <2>3. PICK x \in u : TRUE
    BY <2>2
  <2>4. SumOver(u \ {x}, f) \in Nat
    BY <2>1, <2>3
  <2> QED
    BY <1>0, <2>3, <2>4
<1>2. SumOver(S, f) \in Nat /\ \A x \in S : SumOver(S \ {x}, f) \in Nat
  BY <1>1
<1>3. \A x \in S : SumOver(S, f) = f[x] + SumOver(S \ {x}, f)
  BY <1>0
<1>4. ASSUME NEW x \in S PROVE f[x] <= SumOver(S, f)
  <2>1. f[x] \in Nat /\ SumOver(S \ {x}, f) \in Nat /\ SumOver(S, f) = f[x] + SumOver(S \ {x}, f)
    BY <1>2, <1>3
  <2> QED
    BY <2>1
<1> QED
  BY <1>2, <1>4

\* The processes before and behind the token.
LEMMA SumOfBoth ==
  ASSUME NEW f, \A x \in Process : f[x] \in Int, NEW at \in Process
  PROVE  SumOver(Process, f) = SumOver(0 .. at, f) + SumOver(at + 1 .. N - 1, f)
<1> DEFINE T == {n \in Nat : n \in Process => SumOver(Process, f) = SumOver(0 .. n, f) + SumOver(n + 1 .. N - 1, f)}
<1>0. N \in Nat \ {0}
  BY SafraAssumption
<1>1. ASSUME NEW n \in Nat, n < N
      PROVE  /\ IsFiniteSet(0 .. n) /\ IsFiniteSet(n .. N - 1)
             /\ SumOver(0 .. n, f) = f[n] + SumOver(0 .. n - 1, f)
             /\ SumOver(n .. N - 1, f) = f[n] + SumOver(n + 1 .. N - 1, f)
             /\ SumOver(0 .. n - 1, f) \in Int /\ SumOver(n + 1 .. N - 1, f) \in Int
  <2>1. /\ IsFiniteSet(0 .. n) /\ IsFiniteSet(n .. N - 1)
        /\ IsFiniteSet(0 .. n - 1) /\ IsFiniteSet(n + 1 .. N - 1)
    BY <1>0, FS_Interval
  <2>2. (0 .. n) \ {n} = 0 .. n - 1 /\ (n .. N - 1) \ {n} = n + 1 .. N - 1
    BY <1>0, <1>1
  <2>3. \A x \in 0 .. n : f[x] \in Int
    BY <1>0, <1>1 DEF Process
  <2>4. \A x \in n .. N - 1 : f[x] \in Int
    BY <1>0, <1>1 DEF Process
  <2>5. n \in 0 .. n /\ n \in n .. N - 1
    BY <1>0, <1>1
  <2>6. SumOver(0 .. n, f) = f[n] + SumOver((0 .. n) \ {n}, f)
    BY <2>1, <2>3, <2>5, SumSplit
  <2>7. SumOver(n .. N - 1, f) = f[n] + SumOver((n .. N - 1) \ {n}, f)
    BY <2>1, <2>4, <2>5, SumSplit
  <2>8. SumOver(0 .. n - 1, f) \in Int /\ SumOver(n + 1 .. N - 1, f) \in Int
    <3>1. \A x \in 0 .. n - 1 : f[x] \in Int
      BY <1>0, <1>1 DEF Process
    <3>2. \A x \in n + 1 .. N - 1 : f[x] \in Int
      BY <1>0, <1>1 DEF Process
    <3> QED
      BY <2>1, <3>1, <3>2, SumDef
  <2> QED
    BY <2>1, <2>2, <2>6, <2>7, <2>8
<1>2. 0 \in T
  <2>1. SumOver(0 .. 0 - 1, f) = 0
    <3>1. 0 .. 0 - 1 = {}
      OBVIOUS
    <3> QED
      BY <3>1, SumEmpty
  <2>2. 0 \in Nat /\ 0 < N /\ 0 \in Process
    BY <1>0 DEF Process
  <2>3. /\ SumOver(0 .. 0, f) = f[0] + SumOver(0 .. 0 - 1, f)
        /\ SumOver(0 .. N - 1, f) = f[0] + SumOver(0 + 1 .. N - 1, f)
        /\ SumOver(0 + 1 .. N - 1, f) \in Int
    BY <1>1, <2>2
  <2>4. f[0] \in Int
    BY <2>2
  <2> QED
    BY <2>1, <2>2, <2>3, <2>4 DEF Process
<1>3. ASSUME NEW n \in Nat, n \in T PROVE n + 1 \in T
  <2>1. CASE n + 1 \in Process
    <3>1. n < N /\ n + 1 < N /\ n \in Process /\ n + 1 \in Nat
      BY <1>0, <2>1 DEF Process
    <3>2. SumOver(Process, f) = SumOver(0 .. n, f) + SumOver(n + 1 .. N - 1, f)
      BY <1>3, <3>1
    <3>3. /\ SumOver(0 .. n + 1, f) = f[n + 1] + SumOver(0 .. (n + 1) - 1, f)
          /\ SumOver(n + 1 .. N - 1, f) = f[n + 1] + SumOver((n + 1) + 1 .. N - 1, f)
          /\ SumOver(0 .. (n + 1) - 1, f) \in Int /\ SumOver((n + 1) + 1 .. N - 1, f) \in Int
      BY <1>1, <3>1
    <3>4. (n + 1) - 1 = n /\ f[n + 1] \in Int
      BY <2>1
    <3> QED
      BY <3>2, <3>3, <3>4
  <2>2. CASE n + 1 \notin Process
    BY <2>2
  <2> QED
    BY <2>1, <2>2
<1>4. Nat \subseteq T
  <2> HIDE DEF T
  <2> QED
    BY <1>2, <1>3, Induction
<1> QED
  BY <1>4 DEF Process

-----------------------------------------------------------------------------
\* Where the token is.
Announced == announces \cup terminated # {}
NobodyHolds == \A q \in Process : token[q] = None

Held == /\ ~ Announced
        /\ holders = {}
        /\ \E p \in Process : /\ token[p] # None
                              /\ \A q \in Process \ {p} : token[q] = None
OnItsWay == /\ ~ Announced
            /\ \E h \in holders : holders = {h}
            /\ NobodyHolds
Gone == /\ Announced
        /\ holders = {}
        /\ NobodyHolds

Whereabouts == Held \/ OnItsWay \/ Gone

TokenInv == TypeOK /\ Whereabouts

LEMMA ProcessFacts ==
  /\ initiator \in Process
  /\ \A p \in Process : nextProcess(p) \in Process
  /\ \A D \in SUBSET Process : Cardinality(D) \in Nat
<1>1. initiator \in Process /\ \A p \in Process : nextProcess(p) \in Process
  BY SafraAssumption DEF initiator, Process, nextProcess
<1>2. IsFiniteSet(Process)
  BY SafraAssumption, FS_Interval DEF Process
<1>3. \A D \in SUBSET Process : Cardinality(D) \in Nat
  BY <1>2, FS_Subset, FS_CardinalityType
<1> QED
  BY <1>1, <1>3

LEMMA NoneIsNoToken == None \notin Token
  BY DEF None, Token, StateColor

LEMMA PassedType ==
  ASSUME TypeOK, NEW p \in Process, NEW tok \in Token
  PROVE  Passed(p, tok) \in Token
<1>1. tok.color \in StateColor /\ tok.count \in Int
  BY DEF Token
<1>2. color[p] \in StateColor /\ msgCount[p] \in Int
  BY DEF TypeOK
<1> QED
  BY <1>1, <1>2 DEF Passed, NewToken, Token, StateColor

\* What transmitToken does to the types, wherever the token comes from.
LEMMA TransmitType ==
  ASSUME TypeOK, NEW p \in Process, NEW tok \in Token \cup {None},
         NEW inFlight \in SUBSET holders, TransmitToken(p, tok, inFlight)
  PROVE  /\ holders' \subseteq [to : Process, token : Token]
         /\ color' \in [Process -> StateColor]
         /\ token' \in [Process -> Token \cup {None}]
<1>1. token' \in [Process -> Token \cup {None}]
  BY DEF TransmitToken, TypeOK
<1>2. CASE tok = None
  BY <1>1, <1>2 DEF TransmitToken, TypeOK
<1>3. CASE tok # None
  <2>1. [to |-> nextProcess(p), token |-> Passed(p, tok)] \in [to : Process, token : Token]
    BY <1>3, PassedType, ProcessFacts
  <2>2. holders' \subseteq [to : Process, token : Token]
    BY <1>3, <2>1 DEF TransmitToken, TypeOK
  <2>3. color' \in [Process -> StateColor]
    BY <1>3 DEF TransmitToken, TypeOK, StateColor
  <2> QED
    BY <1>1, <2>2, <2>3
<1> QED
  BY <1>2, <1>3

LEMMA InitTokenInv == Init => TokenInv
<1> SUFFICES ASSUME Init PROVE TokenInv
  OBVIOUS
<1>1. NewToken \in Token /\ NewToken # None
  BY NoneIsNoToken DEF NewToken, Token, StateColor
<1>2. TypeOK
  BY <1>1 DEF Init, TypeOK, State, StateColor
<1>3. Held
  BY <1>1, ProcessFacts DEF Init, Held, Announced
<1> QED
  BY <1>2, <1>3 DEF TokenInv, Whereabouts

LEMMA BecomePassiveKeeps ==
  ASSUME TokenInv, NEW p \in Process, BecomePassive(p) PROVE TokenInv'
<1>1. TypeOK /\ token[p] \in Token \cup {None} /\ TransmitToken(p, token[p], holders)
  BY DEF TokenInv, TypeOK, BecomePassive
<1>2. TypeOK'
  <2>1. /\ holders' \subseteq [to : Process, token : Token]
        /\ color' \in [Process -> StateColor]
        /\ token' \in [Process -> Token \cup {None}]
    BY <1>1, TransmitType
  <2>2. state' \in [Process -> State]
    BY <1>1 DEF BecomePassive, TypeOK, State
  <2> QED
    BY <1>1, <2>1, <2>2 DEF BecomePassive, TypeOK
<1>3. Announced' <=> Announced
  BY DEF BecomePassive, Announced
<1>4. \A q \in Process : token'[q] = IF q = p THEN None ELSE token[q]
  BY <1>1 DEF TransmitToken, TypeOK
<1>5. CASE token[p] = None
  <2>1. holders' = holders /\ \A q \in Process : token'[q] = token[q]
    BY <1>1, <1>4, <1>5 DEF TransmitToken
  <2>2. (Held' <=> Held) /\ (OnItsWay' <=> OnItsWay) /\ (Gone' <=> Gone)
    BY <1>3, <2>1 DEF Held, OnItsWay, Gone, NobodyHolds
  <2> QED
    BY <1>2, <2>2 DEF TokenInv, Whereabouts
<1>6. CASE token[p] # None
  <2>1. Held
    BY <1>6 DEF TokenInv, Whereabouts, OnItsWay, Gone, NobodyHolds
  <2>2. \A q \in Process \ {p} : token[q] = None
    BY <1>6, <2>1 DEF Held
  <2>3. holders' = {[to |-> nextProcess(p), token |-> Passed(p, token[p])]}
    BY <1>1, <1>6, <2>1 DEF TransmitToken, Held
  <2>4. OnItsWay'
    BY <1>3, <1>4, <2>1, <2>2, <2>3 DEF OnItsWay, Held, NobodyHolds
  <2> QED
    BY <1>2, <2>4 DEF TokenInv, Whereabouts
<1> QED
  BY <1>5, <1>6

LEMMA ReceiveTokenKeeps ==
  ASSUME TokenInv, NEW h \in holders, ReceiveToken(h) PROVE TokenInv'
<1> DEFINE p == h.to
           inFlight == holders \ {h}
<1>1. TypeOK /\ p \in Process /\ h.token \in Token /\ h.token # None
  BY NoneIsNoToken DEF TokenInv, TypeOK
<1>2. /\ ~ Announced
      /\ inFlight = {}
      /\ NobodyHolds
  BY DEF TokenInv, Whereabouts, Held, OnItsWay, Gone
<1>3. CASE p = initiator /\ Detects(h.token) /\ announces' = Process /\ holders' = inFlight
             /\ UNCHANGED <<token, color>>
  <2>1. TypeOK'
    BY <1>1, <1>3 DEF ReceiveToken, TypeOK
  <2>2. Gone'
    BY <1>2, <1>3, ProcessFacts DEF Gone, Announced, NobodyHolds
  <2> QED
    BY <2>1, <2>2 DEF TokenInv, Whereabouts
<1>4. CASE token' = [token EXCEPT ![p] = h.token] /\ holders' = inFlight
             /\ UNCHANGED <<announces, color>>
  <2>1. TypeOK'
    BY <1>1, <1>4 DEF ReceiveToken, TypeOK
  <2>2. token'[p] # None /\ \A q \in Process \ {p} : token'[q] = None
    BY <1>1, <1>2, <1>4 DEF TypeOK, NobodyHolds
  <2>3. Held'
    BY <1>1, <1>2, <1>4, <2>2 DEF ReceiveToken, Held, Announced
  <2> QED
    BY <2>1, <2>3 DEF TokenInv, Whereabouts
<1>5. CASE TransmitToken(p, h.token, inFlight) /\ UNCHANGED announces
  <2>1. TypeOK'
    <3>1. /\ holders' \subseteq [to : Process, token : Token]
          /\ color' \in [Process -> StateColor]
          /\ token' \in [Process -> Token \cup {None}]
      BY <1>1, <1>5, TransmitType
    <3> QED
      BY <1>1, <1>5, <3>1 DEF ReceiveToken, TypeOK
  <2>2. NobodyHolds'
    BY <1>1, <1>2, <1>5 DEF TransmitToken, NobodyHolds, TypeOK
  <2>3. holders' = {[to |-> nextProcess(p), token |-> Passed(p, h.token)]}
    BY <1>1, <1>2, <1>5 DEF TransmitToken
  <2>4. OnItsWay'
    BY <1>2, <1>5, <2>2, <2>3 DEF ReceiveToken, OnItsWay, Announced
  <2> QED
    BY <2>1, <2>4 DEF TokenInv, Whereabouts
<1> QED
  BY <1>3, <1>4, <1>5 DEF ReceiveToken

\* The other steps leave the token where it is.
LEMMA OthersKeep ==
  ASSUME TokenInv, UNCHANGED <<token, holders>>,
         msgCount' \in [Process -> Int], state' \in [Process -> State],
         color' \in [Process -> StateColor], payloads' \in [Process -> Nat],
         announces' \subseteq Process, terminated' \subseteq Process, sent' \in Nat,
         Announced' <=> Announced
  PROVE  TokenInv'
  BY DEF TokenInv, TypeOK, Whereabouts, Held, OnItsWay, Gone, NobodyHolds

LEMMA NextTokenInv == TokenInv /\ [Next]_vars => TokenInv'
<1> SUFFICES ASSUME TokenInv, [Next]_vars PROVE TokenInv'
  OBVIOUS
<1>0. TypeOK
  BY DEF TokenInv
<1>1. ASSUME NEW p \in Process, BecomePassive(p) PROVE TokenInv'
  BY <1>1, BecomePassiveKeeps
<1>2. ASSUME NEW p \in Process, ReceivePayload(p) PROVE TokenInv'
  <2>1. payloads' \in [Process -> Nat]
    BY <1>0, <1>2 DEF ReceivePayload, TypeOK
  <2>2. /\ msgCount' \in [Process -> Int]
        /\ state' \in [Process -> State]
        /\ color' \in [Process -> StateColor]
    BY <1>0, <1>2 DEF ReceivePayload, TypeOK, State, StateColor
  <2> QED
    BY <1>0, <1>2, <2>1, <2>2, OthersKeep DEF ReceivePayload, TypeOK, Announced
<1>3. ASSUME NEW p \in Process, ReceiveAnnounce(p) PROVE TokenInv'
  <2>1. Announced /\ Announced'
    BY <1>3 DEF ReceiveAnnounce, Announced
  <2> QED
    BY <1>0, <1>3, <2>1, OthersKeep DEF ReceiveAnnounce, TypeOK
<1>4. ASSUME NEW p \in Process, NEW D \in SUBSET Process, SendMessage(p, D) PROVE TokenInv'
  <2>1. Cardinality(D) \in Nat
    BY ProcessFacts
  <2>2. msgCount' \in [Process -> Int] /\ payloads' \in [Process -> Nat] /\ sent' \in Nat
    BY <1>0, <1>4, <2>1 DEF SendMessage, TypeOK
  <2> QED
    BY <1>0, <1>4, <2>2, OthersKeep DEF SendMessage, TypeOK, Announced
<1>5. ASSUME NEW h \in holders, ReceiveToken(h) PROVE TokenInv'
  BY <1>5, ReceiveTokenKeeps
<1>6. CASE UNCHANGED vars
  BY <1>0, <1>6, OthersKeep DEF vars, TypeOK, Announced
<1> QED
  BY <1>1, <1>2, <1>3, <1>4, <1>5, <1>6 DEF Next

\* The variables of the protocol keep their types, for any number of processes and
\* messages: in particular the token that is passed on is one, never None.
THEOREM TypeCorrect == Spec => []TypeOK
<1>1. TokenInv => TypeOK
  BY DEF TokenInv
<1> QED
  BY <1>1, InitTokenInv, NextTokenInv, PTL DEF Spec

\* transmitToken and its callers neither lose the token nor double it (OneToken), for any
\* number of processes, in any order of messages, activity and visits of the token.
THEOREM OneTokenHolds == Spec => []OneToken
<1>1. TokenInv => OneToken
  <2> SUFFICES ASSUME TokenInv PROVE OneToken
    OBVIOUS
  <2> DEFINE at == {p \in Process : token[p] # None}
  <2>1. CASE Held
    <3>1. PICK p \in Process : at = {p}
      BY <2>1 DEF Held
    <3>2. Cardinality(at) = 1 /\ Cardinality(holders) = 0
      BY <2>1, <3>1, FS_Singleton, FS_EmptySet DEF Held
    <3> QED
      BY <2>1, <3>2 DEF OneToken, Held, Announced
  <2>2. CASE OnItsWay
    <3>1. at = {} /\ \E h : holders = {h}
      BY <2>2 DEF OnItsWay, NobodyHolds
    <3>2. Cardinality(at) = 0 /\ Cardinality(holders) = 1
      BY <3>1, FS_Singleton, FS_EmptySet
    <3> QED
      BY <2>2, <3>2 DEF OneToken, OnItsWay, Announced
  <2>3. CASE Gone
    <3>1. at = {} /\ holders = {}
      BY <2>3 DEF Gone, NobodyHolds
    <3>2. Cardinality(at) = 0 /\ Cardinality(holders) = 0
      BY <3>1, FS_EmptySet
    <3> QED
      BY <2>3, <3>2 DEF OneToken, Gone, Announced
  <2> QED
    BY <2>1, <2>2, <2>3 DEF TokenInv, Whereabouts
<1> QED
  BY <1>1, InitTokenInv, NextTokenInv, PTL DEF Spec

-----------------------------------------------------------------------------
\* What the detection is sound for.
SoundInv == TokenInv /\ TokenAccountsForMessages /\ (Announced => TD!Terminated)

LEMMA FiniteProcess ==
  /\ IsFiniteSet(Process)
  /\ \A p \in Process : IsFiniteSet(0 .. p) /\ IsFiniteSet(p + 1 .. N - 1)
  /\ \A p \in Process : 0 .. p \subseteq Process /\ p + 1 .. N - 1 \subseteq Process
  /\ \A p, q \in Process : q \in 0 .. p <=> q \notin p + 1 .. N - 1
<1>1. N \in Nat \ {0}
  BY SafraAssumption
<1>2. IsFiniteSet(Process) /\ \A p \in Process : IsFiniteSet(0 .. p) /\ IsFiniteSet(p + 1 .. N - 1)
  BY <1>1, FS_Interval DEF Process
<1> QED
  BY <1>1, <1>2 DEF Process

\* The counters before and behind the token.
LEMMA Counters ==
  ASSUME TypeOK, NEW at \in Process
  PROVE  /\ SumOver(0 .. at, msgCount) \in Int
         /\ SumOver(at + 1 .. N - 1, msgCount) \in Int
         /\ SumOver(Process, msgCount) =
              SumOver(0 .. at, msgCount) + SumOver(at + 1 .. N - 1, msgCount)
<1>1. \A x \in Process : msgCount[x] \in Int
  BY DEF TypeOK
<1> QED
  BY <1>1, SumOfBoth, SumDef, FiniteProcess

\* A process that receives a message is before the token, or leaves the token accounted for
\* by what the processes before it have received.
LEMMA ReceiveAccounted ==
  ASSUME TypeOK, SumOver(Process, msgCount) = SumOver(Process, payloads),
         NEW p \in Process, ReceivePayload(p),
         NEW t \in Token, NEW at \in Process, Accounted(t, at)
  PROVE  Accounted(t, at)'
<1> DEFINE behind == at + 1 .. N - 1
           ahead  == 0 .. at
<1>1. /\ color' = [color EXCEPT ![p] = "Black"]
      /\ msgCount' = [msgCount EXCEPT ![p] = @ - 1]
      /\ payloads[p] > 0
  BY DEF ReceivePayload
<1>2. CASE p \in ahead
  BY <1>1, <1>2 DEF Accounted, TypeOK
<1>3. CASE p \in behind
  <2>1. \A x \in ahead : x \in Process /\ msgCount[x] \in Int /\ msgCount'[x] = msgCount[x]
    BY <1>1, <1>3, FiniteProcess DEF TypeOK
  <2>2. SumOver(ahead, msgCount') = SumOver(ahead, msgCount)
    BY <2>1, SumAgrees, FiniteProcess
  <2>3. ASSUME SumOver(behind, msgCount) = t.count
        PROVE  SumOver(ahead, msgCount) + t.count > 0
    <3>1. SumOver(Process, payloads) >= payloads[p]
      BY SumOfNats, FiniteProcess DEF TypeOK
    <3>2. SumOver(Process, payloads) \in Nat /\ payloads[p] \in Nat
      BY SumOfNats, FiniteProcess DEF TypeOK
    <3> QED
      BY <1>1, <2>3, <3>1, <3>2, Counters
  <2>4. \/ SumOver(ahead, msgCount) + t.count > 0
        \/ \E q \in ahead : color[q] = "Black"
        \/ t.color = "Black"
    BY <2>3 DEF Accounted
  <2>5. \A q \in ahead : color'[q] = color[q]
    BY <1>1, <1>3, <2>1, FiniteProcess DEF TypeOK
  <2> QED
    BY <2>2, <2>4, <2>5 DEF Accounted
<1> QED
  BY <1>2, <1>3, FiniteProcess

\* A process that sends is active.
LEMMA SendAccounted ==
  ASSUME TypeOK, NEW p \in Process, NEW D \in SUBSET Process, SendMessage(p, D),
         NEW t \in Token, NEW at \in Process, Accounted(t, at)
  PROVE  Accounted(t, at)'
<1> DEFINE behind == at + 1 .. N - 1
           ahead  == 0 .. at
           n      == Cardinality(D)
<1>1. /\ state[p] = "Active"
      /\ UNCHANGED <<state, color>>
      /\ msgCount' = [msgCount EXCEPT ![p] = @ + n]
  BY DEF SendMessage
<1>2. n \in Nat
  BY FiniteProcess, FS_Subset, FS_CardinalityType
<1> HIDE DEF n
<1>3. \A x \in Process : /\ msgCount[x] \in Int /\ msgCount'[x] \in Int
                         /\ msgCount'[x] = IF x = p THEN msgCount[x] + n ELSE msgCount[x]
  BY <1>1, <1>2 DEF TypeOK
<1>4. ASSUME \A q \in behind : state[q] = "Passive", SumOver(behind, msgCount) = t.count
      PROVE  SumOver(behind, msgCount') = t.count
  <2>1. \A x \in behind : msgCount[x] \in Int /\ msgCount'[x] = msgCount[x]
    BY <1>1, <1>3, <1>4, FiniteProcess
  <2> QED
    BY <1>4, <2>1, SumAgrees, FiniteProcess
<1>5. SumOver(ahead, msgCount') \in Int /\ SumOver(ahead, msgCount') >= SumOver(ahead, msgCount)
  <2>1. SumOver(ahead, msgCount) \in Int
    BY Counters
  <2>2. CASE p \in ahead
    <3>1. IsFiniteSet(ahead) /\ ahead \subseteq Process
      BY FiniteProcess
    <3> HIDE DEF ahead
    <3>2. \A x \in ahead : msgCount[x] \in Int /\ msgCount'[x] \in Int
                            /\ (x # p => msgCount'[x] = msgCount[x])
      BY <1>3, <3>1
    <3>3. msgCount'[p] = msgCount[p] + n /\ n \in Int
      BY <1>2, <1>3
    <3>4. SumOver(ahead, msgCount') = SumOver(ahead, msgCount) + n
      BY <2>2, <3>1, <3>2, <3>3, SumChange
    <3> QED
      BY <1>2, <2>1, <3>4
  <2>3. CASE p \notin ahead
    <3>1. \A x \in ahead : msgCount[x] \in Int /\ msgCount'[x] = msgCount[x]
      BY <1>3, <2>3, FiniteProcess
    <3>2. SumOver(ahead, msgCount') = SumOver(ahead, msgCount)
      BY <3>1, SumAgrees, FiniteProcess
    <3> QED
      BY <2>1, <3>2
  <2> QED
    BY <2>2, <2>3
<1>6. t.count \in Int /\ SumOver(ahead, msgCount) \in Int
  BY Counters DEF Token
<1>7. SumOver(ahead, msgCount) + t.count > 0 => SumOver(ahead, msgCount') + t.count > 0
  BY <1>5, <1>6
<1> QED
  BY <1>1, <1>4, <1>7 DEF Accounted

\* A passive process that passes the token on accounts for itself.
LEMMA PassAccounted ==
  ASSUME TypeOK, NEW p \in Process, NEW t \in Token, NEW inFlight,
         NEW tok, tok = Passed(p, t), p # initiator => Accounted(t, p),
         state'[p] = "Passive", \A q \in Process \ {p} : state'[q] = state[q],
         UNCHANGED msgCount, TransmitToken(p, t, inFlight)
  PROVE  /\ holders' = inFlight \cup {[to |-> nextProcess(p), token |-> tok]}
         /\ Accounted(tok, nextProcess(p))'
<1>1. t # None
  BY NoneIsNoToken
<1>2. /\ holders' = inFlight \cup {[to |-> nextProcess(p), token |-> tok]}
      /\ color' = [color EXCEPT ![p] = "White"]
  BY <1>1 DEF TransmitToken
<1>3. N \in Nat \ {0} /\ p \in 0 .. N - 1
  BY SafraAssumption DEF Process
<1>4. CASE p = initiator
  <2>1. nextProcess(p) = N - 1
    BY <1>3, <1>4 DEF initiator, nextProcess
  <2>2. (N - 1) + 1 .. N - 1 = {}
    BY <1>3
  <2>3. SumOver((N - 1) + 1 .. N - 1, msgCount') = 0
    BY <2>2, SumEmpty
  <2>4. Accounted(NewToken, N - 1)'
    BY <2>2, <2>3 DEF Accounted, NewToken
  <2>5. tok = NewToken
    BY <1>4 DEF Passed
  <2> QED
    BY <1>2, <2>1, <2>4, <2>5
<1>5. CASE p # initiator
  <2>1. nextProcess(p) = p - 1 /\ p - 1 \in Process /\ (p - 1) + 1 = p
    BY <1>3, <1>5 DEF initiator, nextProcess, Process
  <2>2. /\ tok.color = (IF color[p] = "Black" THEN "Black" ELSE t.color)
        /\ tok.count = msgCount[p] + t.count
    BY <1>5 DEF Passed
  <2>3. /\ SumOver(p .. N - 1, msgCount) = msgCount[p] + SumOver(p + 1 .. N - 1, msgCount)
        /\ SumOver(0 .. p, msgCount) = msgCount[p] + SumOver(0 .. p - 1, msgCount)
    <3>1. (p .. N - 1) \ {p} = p + 1 .. N - 1 /\ (0 .. p) \ {p} = 0 .. p - 1
          /\ p \in p .. N - 1 /\ p \in 0 .. p
      BY <1>3
    <3>2. IsFiniteSet(p .. N - 1) /\ IsFiniteSet(0 .. p)
      BY <1>3, FS_Interval
    <3>3. (\A x \in p .. N - 1 : msgCount[x] \in Int) /\ (\A x \in 0 .. p : msgCount[x] \in Int)
      BY <1>3 DEF TypeOK, Process
    <3>4. SumOver(p .. N - 1, msgCount) = msgCount[p] + SumOver((p .. N - 1) \ {p}, msgCount)
      BY <3>1, <3>2, <3>3, SumSplit
    <3>5. SumOver(0 .. p, msgCount) = msgCount[p] + SumOver((0 .. p) \ {p}, msgCount)
      BY <3>1, <3>2, <3>3, SumSplit
    <3> QED
      BY <3>1, <3>4, <3>5
  <2>4. /\ msgCount[p] \in Int /\ t.count \in Int
        /\ SumOver(p + 1 .. N - 1, msgCount) \in Int
        /\ SumOver(0 .. p - 1, msgCount) \in Int
    <3>1. SumOver(0 .. p - 1, msgCount) \in Int
      BY <2>1, Counters
    <3> QED
      BY <3>1, Counters DEF Token, TypeOK
  <2>5. \/ /\ \A q \in p + 1 .. N - 1 : state[q] = "Passive"
           /\ SumOver(p + 1 .. N - 1, msgCount) = t.count
        \/ SumOver(0 .. p, msgCount) + t.count > 0
        \/ \E q \in 0 .. p : color[q] = "Black"
        \/ t.color = "Black"
    BY <1>5 DEF Accounted
  <2>6. Accounted(tok, p - 1)'
    <3>1. CASE /\ \A q \in p + 1 .. N - 1 : state[q] = "Passive"
               /\ SumOver(p + 1 .. N - 1, msgCount) = t.count
      <4>1. \A q \in p .. N - 1 : state'[q] = "Passive"
        BY <1>3, <3>1 DEF Process
      <4>2. SumOver(p .. N - 1, msgCount') = tok.count
        BY <2>2, <2>3, <3>1
      <4> QED
        BY <2>1, <4>1, <4>2 DEF Accounted
    <3>2. CASE SumOver(0 .. p, msgCount) + t.count > 0
      <4>1. SumOver(0 .. p - 1, msgCount') + tok.count > 0
        BY <2>2, <2>3, <2>4, <3>2
      <4> QED
        BY <4>1 DEF Accounted
    <3>3. CASE \E q \in 0 .. p : color[q] = "Black"
      <4>1. PICK q \in 0 .. p : color[q] = "Black"
        BY <3>3
      <4>2. CASE q = p
        BY <2>2, <4>1, <4>2 DEF Accounted
      <4>3. CASE q # p
        <5>1. q \in 0 .. p - 1 /\ q \in Process
          BY <1>3, <4>3 DEF Process
        <5>2. color'[q] = "Black"
          BY <1>2, <4>1, <4>3, <5>1 DEF TypeOK
        <5> QED
          BY <5>1, <5>2 DEF Accounted
      <4> QED
        BY <4>2, <4>3
    <3>4. CASE t.color = "Black"
      BY <2>2, <3>4 DEF Accounted
    <3> QED
      BY <2>5, <3>1, <3>2, <3>3, <3>4
  <2> QED
    BY <1>2, <2>1, <2>6
<1> QED
  BY <1>4, <1>5
\* Whoever is passive stays so, and neither colors nor counters change.
LEMMA QuietAccounted ==
  ASSUME UNCHANGED <<msgCount, color>>,
         \A q \in Process : state[q] = "Passive" => state'[q] = "Passive",
         NEW t, NEW at \in Process, Accounted(t, at)
  PROVE  Accounted(t, at)'
  BY FiniteProcess DEF Accounted

\* The announcement comes when no process computes and no message is on its way.
LEMMA DetectionSound ==
  ASSUME SoundInv, NEW h \in holders, h.to = initiator, Detects(h.token)
  PROVE  TD!Terminated
<1>1. /\ TypeOK
      /\ Accounted(h.token, initiator)
      /\ SumOver(Process, msgCount) = SumOver(Process, payloads)
  BY DEF SoundInv, TokenInv, TokenAccountsForMessages
<1>2. /\ h.token.color = "White" /\ color[initiator] = "White"
      /\ msgCount[initiator] + h.token.count = 0
      /\ state[initiator] = "Passive"
  BY DEF Detects
<1>3. N \in Nat \ {0} /\ initiator \in Process /\ 0 .. initiator = {0} /\ 0 \in Process /\ initiator = 0
  BY SafraAssumption DEF initiator, Process
<1>4. SumOver(0 .. initiator, msgCount) = msgCount[initiator] /\ msgCount[initiator] \in Int
  <2>1. msgCount[0] \in Int /\ IsFiniteSet({0}) /\ {0} \ {0} = {}
    BY <1>1, <1>3, FS_Singleton DEF TypeOK
  <2>2. SumOver({0}, msgCount) = msgCount[0] + SumOver({0} \ {0}, msgCount)
    BY <2>1, SumSplit
  <2>3. SumOver({0} \ {0}, msgCount) = 0
    BY <2>1, SumEmpty
  <2> QED
    BY <1>3, <2>1, <2>2, <2>3
<1>5. ~ (SumOver(0 .. initiator, msgCount) + h.token.count > 0)
  BY <1>2, <1>4
<1>6. ~ \E q \in 0 .. initiator : color[q] = "Black"
  BY <1>2, <1>3
<1>7. /\ \A q \in initiator + 1 .. N - 1 : state[q] = "Passive"
      /\ SumOver(initiator + 1 .. N - 1, msgCount) = h.token.count
  BY <1>1, <1>2, <1>5, <1>6 DEF Accounted
<1>8. \A q \in Process : state[q] = "Passive"
  BY <1>2, <1>3, <1>7 DEF Process
<1>9. SumOver(Process, payloads) = 0
  BY <1>1, <1>2, <1>3, <1>4, <1>7, Counters
<1>10. \A q \in Process : payloads[q] = 0
  <2>1. \A q \in Process : payloads[q] \in Nat /\ payloads[q] <= 0
    BY <1>1, <1>9, SumOfNats, FiniteProcess DEF TypeOK
  <2> QED
    BY <2>1
<1> QED
  BY <1>8, <1>10 DEF TD!Terminated

LEMMA InitSound == Init => SoundInv
<1> SUFFICES ASSUME Init PROVE SoundInv
  OBVIOUS
<1>1. TokenInv
  BY InitTokenInv
<1>2. SumOver(Process, msgCount) = SumOver(Process, payloads)
  BY SumAgrees, FiniteProcess DEF Init
<1>3. holders = {} /\ \A p \in Process \ {initiator} : token[p] = None
  BY DEF Init
<1>4. ~ Announced
  BY DEF Init, Announced
<1> QED
  BY <1>1, <1>2, <1>3, <1>4 DEF SoundInv, TokenAccountsForMessages

\* The token is passed on by p, which is passive from now on: t is the token that comes.
LEMMA PassSound ==
  ASSUME SoundInv, TokenInv', NEW p \in Process, NEW t \in Token, NEW inFlight, inFlight = {},
         p # initiator => Accounted(t, p), token'[p] = None, \A q \in Process \ {p} : token'[q] = None,
         state'[p] = "Passive", \A q \in Process \ {p} : state'[q] = state[q],
         UNCHANGED <<msgCount, payloads>>, TransmitToken(p, t, inFlight)
  PROVE  TokenAccountsForMessages'
<1>1. TypeOK /\ TypeOK'
  BY DEF SoundInv, TokenInv
<1>2. PICK tok : tok = Passed(p, t)
  OBVIOUS
<1>3. /\ holders' = inFlight \cup {[to |-> nextProcess(p), token |-> tok]}
      /\ Accounted(tok, nextProcess(p))'
  BY <1>1, <1>2, PassAccounted
<1>4. \A h \in holders' : h.token = tok /\ h.to = nextProcess(p)
  BY <1>3
<1>5. \A h \in holders' : Accounted(h.token, h.to)'
  BY <1>3, <1>4
<1>6. \A q \in Process : token'[q] = None
  OBVIOUS
<1> QED
  BY <1>5, <1>6 DEF SoundInv, TokenAccountsForMessages

\* The token stays where it is, and accounted for.
LEMMA TokenStays ==
  ASSUME TypeOK, TokenAccountsForMessages,
         holders' = holders, \A q \in Process : token'[q] = token[q],
         SumOver(Process, msgCount') = SumOver(Process, payloads'),
         \A t \in Token, at \in Process : Accounted(t, at) => Accounted(t, at)'
  PROVE  TokenAccountsForMessages'
<1>1. \A h \in holders' : Accounted(h.token, h.to)'
  <2> SUFFICES ASSUME NEW h \in holders PROVE Accounted(h.token, h.to)'
    OBVIOUS
  <2>1. h.token \in Token /\ h.to \in Process /\ Accounted(h.token, h.to)
    BY DEF TypeOK, TokenAccountsForMessages
  <2> QED
    BY <2>1
<1>2. ASSUME NEW q \in Process \ {initiator}, token'[q] # None PROVE Accounted(token[q], q)'
  <2>1. PICK t : t = token[q]
    OBVIOUS
  <2>2. t \in Token /\ Accounted(t, q)
    BY <1>2, <2>1 DEF TypeOK, TokenAccountsForMessages
  <2>3. Accounted(t, q)'
    BY <2>2
  <2>4. token'[q] = t
    BY <2>1
  <2> QED
    BY <2>3, <2>4
<1> QED
  BY <1>1, <1>2 DEF TokenAccountsForMessages

\* A step of the computation can only come before the announcement.
LEMMA NotYetAnnounced ==
  ASSUME SoundInv, NEW p \in Process, state[p] = "Active" \/ payloads[p] > 0
  PROVE  ~ Announced
<1>1. ~ TD!Terminated
  BY DEF TD!Terminated
<1> QED
  BY <1>1 DEF SoundInv

LEMMA BecomePassiveSound ==
  ASSUME SoundInv, TokenInv', NEW p \in Process, BecomePassive(p) PROVE SoundInv'
<1>1. /\ TypeOK /\ TokenAccountsForMessages
      /\ state[p] = "Active"
      /\ TransmitToken(p, token[p], holders)
      /\ UNCHANGED <<msgCount, payloads, announces, terminated>>
      /\ state' = [state EXCEPT ![p] = "Passive"]
  BY DEF SoundInv, TokenInv, BecomePassive
<1>2. state'[p] = "Passive" /\ \A q \in Process \ {p} : state'[q] = state[q]
  BY <1>1 DEF TypeOK
<1>3. ~ Announced /\ ~ Announced'
  BY <1>1, NotYetAnnounced DEF Announced
<1>4. TokenAccountsForMessages'
  <2>1. CASE token[p] = None
    <3>1. UNCHANGED <<holders, color>> /\ \A q \in Process : token'[q] = token[q]
      BY <1>1, <2>1 DEF TransmitToken, TypeOK
    <3>2. \A t \in Token, at \in Process : Accounted(t, at) => Accounted(t, at)'
      BY <1>1, <1>2, <3>1, QuietAccounted
    <3> QED
      BY <1>1, <3>1, <3>2, TokenStays DEF TokenAccountsForMessages
  <2>2. CASE token[p] # None
    <3>1. PICK t : t = token[p]
      OBVIOUS
    <3>2. t \in Token
      BY <1>1, <2>2, <3>1 DEF TypeOK
    <3>3. holders = {} /\ \A q \in Process \ {p} : token[q] = None
      BY <2>2 DEF SoundInv, TokenInv, Whereabouts, Held, OnItsWay, Gone, NobodyHolds
    <3>4. token'[p] = None /\ \A q \in Process \ {p} : token'[q] = None
      BY <1>1, <3>3 DEF TransmitToken, TypeOK
    <3>5. p # initiator => Accounted(t, p)
      BY <1>1, <2>2, <3>1 DEF TokenAccountsForMessages
    <3>6. PICK inFlight : inFlight = holders
      OBVIOUS
    <3>7. inFlight = {} /\ TransmitToken(p, t, inFlight)
      BY <1>1, <3>1, <3>3, <3>6
    <3> QED
      BY <1>1, <1>2, <3>2, <3>4, <3>5, <3>7, PassSound
  <2> QED
    BY <2>1, <2>2
<1> QED
  BY <1>3, <1>4 DEF SoundInv

LEMMA ReceivePayloadSound ==
  ASSUME SoundInv, TokenInv', NEW p \in Process, ReceivePayload(p) PROVE SoundInv'
<1>0. PICK k \in Int : k = -1
  OBVIOUS
<1>1. /\ TypeOK /\ TypeOK' /\ TokenAccountsForMessages
      /\ payloads[p] > 0
      /\ payloads' = [payloads EXCEPT ![p] = @ - 1]
      /\ msgCount' = [msgCount EXCEPT ![p] = @ - 1]
      /\ UNCHANGED <<token, holders, announces, terminated>>
  BY DEF SoundInv, TokenInv, ReceivePayload
<1>2. ~ Announced /\ ~ Announced'
  BY <1>1, NotYetAnnounced DEF Announced
<1>3. SumOver(Process, msgCount) = SumOver(Process, payloads)
  BY <1>1 DEF TokenAccountsForMessages
<1>4. SumOver(Process, msgCount') = SumOver(Process, msgCount) + k
  <2>1. /\ msgCount'[p] = msgCount[p] + k
        /\ \A x \in Process : msgCount[x] \in Int /\ msgCount'[x] \in Int
                              /\ (x # p => msgCount'[x] = msgCount[x])
    BY <1>0, <1>1 DEF TypeOK
  <2> QED
    BY <2>1, SumChange, FiniteProcess
<1>5. SumOver(Process, payloads') = SumOver(Process, payloads) + k
  <2>1. /\ payloads'[p] = payloads[p] + k
        /\ \A x \in Process : payloads[x] \in Int /\ payloads'[x] \in Int
                              /\ (x # p => payloads'[x] = payloads[x])
    BY <1>0, <1>1 DEF TypeOK
  <2> QED
    BY <2>1, SumChange, FiniteProcess
<1>6. \A t \in Token, at \in Process : Accounted(t, at) => Accounted(t, at)'
  BY <1>1, <1>3, ReceiveAccounted
<1>7. TokenAccountsForMessages'
  BY <1>1, <1>3, <1>4, <1>5, <1>6, TokenStays
<1> QED
  BY <1>2, <1>7 DEF SoundInv

LEMMA SendSound ==
  ASSUME SoundInv, TokenInv', NEW p \in Process, NEW D \in SUBSET Process, SendMessage(p, D)
  PROVE  SoundInv'
<1>1. /\ TypeOK /\ TypeOK' /\ TokenAccountsForMessages
      /\ state[p] = "Active"
      /\ payloads' = [q \in Process |-> IF q \in D THEN payloads[q] + 1 ELSE payloads[q]]
      /\ msgCount' = [msgCount EXCEPT ![p] = @ + Cardinality(D)]
      /\ UNCHANGED <<token, holders, announces, terminated>>
  BY DEF SoundInv, TokenInv, SendMessage
<1>2. ~ Announced /\ ~ Announced'
  BY <1>1, NotYetAnnounced DEF Announced
<1>3. SumOver(Process, msgCount) = SumOver(Process, payloads)
  BY <1>1 DEF TokenAccountsForMessages
<1>4. SumOver(Process, msgCount') = SumOver(Process, msgCount) + Cardinality(D)
  <2>1. Cardinality(D) \in Int
    BY ProcessFacts
  <2>2. /\ msgCount'[p] = msgCount[p] + Cardinality(D)
        /\ \A x \in Process : msgCount[x] \in Int /\ msgCount'[x] \in Int
                              /\ (x # p => msgCount'[x] = msgCount[x])
    BY <1>1, <2>1 DEF TypeOK
  <2> QED
    BY <2>1, <2>2, SumChange, FiniteProcess
<1>5. SumOver(Process, payloads') = SumOver(Process, payloads) + Cardinality(D)
  <2>1. \A x \in Process : payloads[x] \in Int
                           /\ payloads'[x] = IF x \in D THEN payloads[x] + 1 ELSE payloads[x]
    BY <1>1 DEF TypeOK
  <2> QED
    BY <2>1, SumIncrement, FiniteProcess
<1>6. \A t \in Token, at \in Process : Accounted(t, at) => Accounted(t, at)'
  BY <1>1, SendAccounted DEF SoundInv
<1>7. TokenAccountsForMessages'
  BY <1>1, <1>3, <1>4, <1>5, <1>6, TokenStays
<1> QED
  BY <1>2, <1>7 DEF SoundInv

LEMMA ReceiveTokenSound ==
  ASSUME SoundInv, TokenInv', NEW h \in holders, ReceiveToken(h) PROVE SoundInv'
<1> DEFINE p == h.to
           inFlight == holders \ {h}
<1>1. /\ TypeOK /\ TokenAccountsForMessages
      /\ p \in Process /\ h.token \in Token /\ Accounted(h.token, p)
      /\ UNCHANGED <<msgCount, state, payloads, terminated>>
  BY DEF SoundInv, TokenInv, TypeOK, TokenAccountsForMessages, ReceiveToken
<1>2. /\ ~ Announced
      /\ inFlight = {}
      /\ \A q \in Process : token[q] = None
  BY DEF SoundInv, TokenInv, Whereabouts, Held, OnItsWay, Gone, NobodyHolds
<1>3. CASE /\ p = initiator /\ Detects(h.token)
           /\ holders' = inFlight
           /\ UNCHANGED <<token, color>>
  <2>1. TD!Terminated
    BY <1>3, DetectionSound
  <2>2. TD!Terminated'
    BY <1>1, <2>1 DEF TD!Terminated
  <2>3. TokenAccountsForMessages'
    BY <1>1, <1>2, <1>3 DEF TokenAccountsForMessages
  <2> QED
    BY <2>2, <2>3 DEF SoundInv
<1>4. CASE /\ token' = [token EXCEPT ![p] = h.token]
           /\ holders' = inFlight
           /\ UNCHANGED <<announces, color>>
  <2>1. Accounted(h.token, p)'
    BY <1>1, <1>4, QuietAccounted
  <2>2. \A q \in Process : token'[q] = IF q = p THEN h.token ELSE None
    BY <1>1, <1>2, <1>4 DEF TypeOK
  <2>3. ASSUME NEW q \in Process, token'[q] # None PROVE Accounted(token[q], q)'
    <3>1. q = p /\ token'[q] = h.token
      BY <2>2, <2>3
    <3> QED
      BY <2>1, <3>1
  <2>4. TokenAccountsForMessages'
    BY <1>1, <1>2, <1>4, <2>3 DEF TokenAccountsForMessages
  <2> QED
    BY <1>1, <1>2, <1>4, <2>4 DEF SoundInv, Announced
<1>5. CASE /\ state[p] = "Passive"
           /\ TransmitToken(p, h.token, inFlight)
           /\ UNCHANGED announces
  <2>1. \A q \in Process : token'[q] = None
    BY <1>1, <1>2, <1>5 DEF TransmitToken, TypeOK
  <2>2. PICK none : none = inFlight
    OBVIOUS
  <2>3. none = {} /\ TransmitToken(p, h.token, none)
    BY <1>2, <1>5, <2>2
  <2>4. TokenAccountsForMessages'
    BY <1>1, <1>5, <2>1, <2>3, PassSound
  <2> QED
    BY <1>1, <1>2, <1>5, <2>4 DEF SoundInv, Announced
<1> QED
  BY <1>3, <1>4, <1>5 DEF ReceiveToken

\* Nothing changes but who is told.
LEMMA OthersSound ==
  ASSUME SoundInv, TokenInv', UNCHANGED <<msgCount, state, color, token, payloads, holders>>,
         Announced' => Announced
  PROVE  SoundInv'
  BY DEF SoundInv, TokenAccountsForMessages, Accounted, TD!Terminated

LEMMA NextSound == SoundInv /\ [Next]_vars => SoundInv'
<1> SUFFICES ASSUME SoundInv, [Next]_vars PROVE SoundInv'
  OBVIOUS
<1>1. TokenInv'
  BY NextTokenInv DEF SoundInv
<1>2. ASSUME NEW p \in Process, BecomePassive(p) PROVE SoundInv'
  BY <1>1, <1>2, BecomePassiveSound
<1>3. ASSUME NEW p \in Process, ReceivePayload(p) PROVE SoundInv'
  BY <1>1, <1>3, ReceivePayloadSound
<1>4. ASSUME NEW p \in Process, ReceiveAnnounce(p) PROVE SoundInv'
  BY <1>1, <1>4, OthersSound DEF ReceiveAnnounce, Announced
<1>5. ASSUME NEW p \in Process, NEW D \in SUBSET Process, SendMessage(p, D) PROVE SoundInv'
  BY <1>1, <1>5, SendSound
<1>6. ASSUME NEW h \in holders, ReceiveToken(h) PROVE SoundInv'
  BY <1>1, <1>6, ReceiveTokenSound
<1>7. CASE UNCHANGED vars
  BY <1>1, <1>7, OthersSound DEF vars, Announced
<1> QED
  BY <1>2, <1>3, <1>4, <1>5, <1>6, <1>7 DEF Next

\* The counters, the colors and the count of the token account at every moment for the
\* messages on their way and for the processes that the token has left behind
\* (onReceive and transmitToken), for any number of processes and messages.
THEOREM TokenAccountsHolds == Spec => []TokenAccountsForMessages
<1>1. SoundInv => TokenAccountsForMessages
  BY DEF SoundInv
<1> QED
  BY <1>1, InitSound, NextSound, PTL DEF Spec

\* A step of the protocol is a step of the computation, the delivery of Terminate, or nothing
\* that clients see.
LEMMA NextDetects == SoundInv /\ [Next]_vars => [TD!Next]_TD!vars
<1> SUFFICES ASSUME SoundInv, [Next]_vars PROVE [TD!Next]_TD!vars
  OBVIOUS
<1> DEFINE active == {p \in Process : state[p] = "Active"}
<1>0. TypeOK
  BY DEF SoundInv, TokenInv
<1>1. ASSUME NEW p \in Process, BecomePassive(p) PROVE TD!Next
  <2>1. p \in active /\ active' = active \ {p}
    BY <1>0, <1>1 DEF BecomePassive, TypeOK
  <2>2. TD!BecomePassive(p)
    BY <1>1, <2>1 DEF BecomePassive, TD!BecomePassive
  <2> QED
    BY <2>2 DEF TD!Next
<1>2. ASSUME NEW p \in Process, ReceivePayload(p) PROVE TD!Next
  <2>1. active' = active \cup {p}
    BY <1>0, <1>2 DEF ReceivePayload, TypeOK
  <2>2. TD!Receive(p)
    BY <1>2, <2>1 DEF ReceivePayload, TD!Receive
  <2> QED
    BY <2>2 DEF TD!Next
<1>3. ASSUME NEW p \in Process, ReceiveAnnounce(p) PROVE TD!Next
  <2>1. TD!Terminated
    BY <1>3 DEF ReceiveAnnounce, SoundInv, Announced
  <2>2. TD!Tell(p)
    BY <1>3, <2>1 DEF ReceiveAnnounce, TD!Tell
  <2> QED
    BY <2>2 DEF TD!Next
<1>4. ASSUME NEW p \in Process, NEW D \in SUBSET Process, SendMessage(p, D) PROVE TD!Next
  <2>1. TD!Send(p, D)
    BY <1>4 DEF SendMessage, TD!Send
  <2> QED
    BY <2>1 DEF TD!Next
<1>5. ASSUME NEW h \in holders, ReceiveToken(h) PROVE UNCHANGED TD!vars
  BY <1>5 DEF ReceiveToken, TD!vars
<1>6. CASE UNCHANGED vars
  BY <1>6 DEF vars, TD!vars
<1> QED
  BY <1>1, <1>2, <1>3, <1>4, <1>5, <1>6 DEF Next

\* Terminate is delivered only after termination (ImplementsDetection): every behaviour of the
\* protocol is one of abstract termination detection, for any number of processes and
\* messages and any order of arrival.
THEOREM ImplementsDetectionHolds == Spec => ImplementsDetection
<1>1. Init => TD!Init
  BY DEF Init, TD!Init, State
<1> QED
  BY <1>1, InitSound, NextSound, NextDetects, PTL DEF Spec, ImplementsDetection, TD!Spec

=============================================================================
