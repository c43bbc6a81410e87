-------------------------- MODULE CollectionLemmas --------------------------
(* What the proofs of several models need to know of the operators they are *)
(* built from: positions in a list, sequences that list a set, and sums.    *)
EXTENDS Collections, Functions, FiniteSetTheorems, TLAPS

-----------------------------------------------------------------------------
(* Positions in a list.                                                     *)

(* The elements before another are finitely many.                           *)
LEMMA BeforeIsNat ==
  ASSUME NEW S \in SUBSET Nat, IsFiniteSet(S), NEW e
  PROVE  Before(e, S) \in Nat
<1>1. {x \in S : x < e} \subseteq S
  OBVIOUS
<1>2. IsFiniteSet({x \in S : x < e})
  BY <1>1, FS_Subset
<1> QED BY <1>2, FS_CardinalityType DEF Before

(* The number of a member is below the size of its set.                     *)
LEMMA BeforeIsBelow ==
  ASSUME NEW S \in SUBSET Nat, IsFiniteSet(S), NEW e \in S
  PROVE  Before(e, S) < Cardinality(S) /\ Cardinality(S) \in Nat
<1> DEFINE B == {x \in S : x < e}
<1>1. B \subseteq S /\ e \in S \ B
  OBVIOUS
<1>2. IsFiniteSet(B) /\ Cardinality(B) <= Cardinality(S)
      /\ (Cardinality(B) = Cardinality(S) => B = S)
  BY <1>1, FS_Subset
<1>3. Cardinality(B) \in Nat /\ Cardinality(S) \in Nat
  BY <1>2, FS_CardinalityType
<1> QED BY <1>1, <1>2, <1>3 DEF Before

(* Two members of a set have different numbers.                             *)
LEMMA BeforeIsStrict ==
  ASSUME NEW S \in SUBSET Nat, IsFiniteSet(S), NEW d \in S, NEW e \in S, d < e
  PROVE  Before(d, S) # Before(e, S)
<1> DEFINE B == {x \in S : x < d}
           C == {x \in S : x < e}
<1>1. B \subseteq C /\ d \in C \ B /\ C \subseteq S
  <2>1. \A x \in S : x < d => x < e
    OBVIOUS
  <2>2. d \in C /\ d \notin B /\ C \subseteq S
    OBVIOUS
  <2> QED BY <2>1, <2>2
<1>2. IsFiniteSet(C)
  BY <1>1, FS_Subset
<1>3. Cardinality(B) = Cardinality(C) => B = C
  BY <1>1, <1>2, FS_Subset
<1> HIDE DEF B, C
<1>4. Cardinality(B) # Cardinality(C)
  BY <1>1, <1>3
<1> QED BY <1>4 DEF Before, B, C

(* The numbers of the members of a set are all those below its size: there  *)
(* are as many of them, and no two are the same.                            *)
LEMMA EveryNumberTaken ==
  ASSUME NEW S \in SUBSET Nat, IsFiniteSet(S), NEW k \in Nat, k < Cardinality(S)
  PROVE  \E e \in S : Before(e, S) = k
<1> DEFINE n == Cardinality(S)
           number == [e \in S |-> Before(e, S)]
<1>1. n \in Nat
  BY FS_CardinalityType
<1>2. \A e \in S : Before(e, S) \in 0 .. n - 1
  BY BeforeIsNat, BeforeIsBelow
<1>3. \A d, e \in S : Before(d, S) = Before(e, S) => d = e
  <2> SUFFICES ASSUME NEW d \in S, NEW e \in S, d # e PROVE Before(d, S) # Before(e, S)
    OBVIOUS
  <2>1. CASE d < e
    BY <2>1, BeforeIsStrict
  <2>2. CASE e < d
    BY <2>2, BeforeIsStrict
  <2> QED BY <2>1, <2>2
<1>4. number \in Injection(S, 0 .. n - 1)
  <2> HIDE DEF n
  <2> QED BY <1>2, <1>3 DEF Injection, IsInjective
<1>5. IsFiniteSet(0 .. n - 1) /\ Cardinality(0 .. n - 1) = n
  <2>1. 0 \in Int /\ n - 1 \in Int
    BY <1>1
  <2> HIDE DEF n
  <2> QED BY <1>1, <2>1, FS_Interval
<1>6. number \in Surjection(S, 0 .. n - 1)
  <2> HIDE DEF number
  <2> QED BY <1>4, <1>5, FS_Injection
<1>7. k \in 0 .. n - 1
  BY <1>1
<1> QED BY <1>6, <1>7 DEF Surjection

-----------------------------------------------------------------------------
(* Pages.                                                                   *)

(* A page that somebody of the list comes after is full.                    *)
LEMMA FullPage ==
  ASSUME NEW S \in SUBSET Nat, IsFiniteSet(S), NEW o \in Nat, NEW k \in Nat,
         NEW e \in S, o + k <= Before(e, S)
  PROVE  Cardinality({x \in S : Before(x, S) >= o /\ Before(x, S) < o + k}) = k
<1> DEFINE P == {x \in S : Before(x, S) >= o /\ Before(x, S) < o + k}
           number == [x \in P |-> Before(x, S)]
<1>1. \A x \in S : Before(x, S) \in Nat
  BY BeforeIsNat
<1>2. \A x, y \in S : Before(x, S) = Before(y, S) => x = y
  <2> SUFFICES ASSUME NEW x \in S, NEW y \in S, x # y PROVE Before(x, S) # Before(y, S)
    OBVIOUS
  <2>1. CASE x < y
    BY <2>1, BeforeIsStrict
  <2>2. CASE y < x
    BY <2>2, BeforeIsStrict
  <2> QED BY <2>1, <2>2
<1>3. number \in Injection(P, o .. o + k - 1)
  <2>1. number \in [P -> o .. o + k - 1]
    <3>1. \A x \in P : Before(x, S) \in o .. o + k - 1
      BY <1>1
    <3> HIDE DEF P
    <3> QED BY <3>1
  <2>2. \A x, y \in DOMAIN number : number[x] = number[y] => x = y
    BY <1>2
  <2> HIDE DEF number, P
  <2> QED BY <2>1, <2>2 DEF Injection, IsInjective
<1>4. ASSUME NEW m \in o .. o + k - 1 PROVE \E x \in P : number[x] = m
  <2>1. m \in Nat /\ m < Cardinality(S)
    BY <1>1, BeforeIsBelow
  <2>2. PICK x \in S : Before(x, S) = m
    BY <2>1, EveryNumberTaken
  <2> QED BY <2>2
<1>5. number \in Surjection(P, o .. o + k - 1)
  BY <1>3, <1>4 DEF Injection, Surjection
<1>6. IsFiniteSet(o .. o + k - 1) /\ Cardinality(o .. o + k - 1) = k
  <2>1. o \in Int /\ o + k - 1 \in Int
    OBVIOUS
  <2> QED BY <2>1, FS_Interval
<1> HIDE DEF P, number
<1>7. Cardinality(P) = Cardinality(o .. o + k - 1)
  BY <1>3, <1>5, <1>6, FS_Injection
<1> QED BY <1>6, <1>7 DEF P

-----------------------------------------------------------------------------
(* Sequences that list a set.                                               *)

(* Appending what is not in the set yet adds one new last element.          *)
LEMMA AppendLists ==
  ASSUME NEW E, NEW q \in Seq(E), NEW S, Lists(q, S), NEW e \in E, e \notin S
  PROVE  Append(q, e) \in Seq(E) /\ Lists(Append(q, e), S \cup {e})
<1> DEFINE r == Append(q, e)
<1>1. /\ r \in Seq(E)
      /\ Len(r) = Len(q) + 1 /\ Len(q) \in Nat
      /\ r[Len(q) + 1] = e
      /\ \A i \in 1 .. Len(q) : r[i] = q[i]
  OBVIOUS
<1>2. \A i \in 1 .. Len(q) : q[i] # e
  BY DEF Lists
<1> HIDE DEF r
<1>3. S \cup {e} = {r[i] : i \in 1 .. Len(r)}
  BY <1>1 DEF Lists
<1>4. \A i, j \in 1 .. Len(r) : r[i] = r[j] => i = j
  BY <1>1, <1>2 DEF Lists
<1> QED BY <1>1, <1>3, <1>4 DEF Lists, r

(* Popping takes the only occurrence of the first element out of the list.  *)
LEMMA TailLists ==
  ASSUME NEW E, NEW q \in Seq(E), NEW S, Lists(q, S), q # <<>>
  PROVE  Tail(q) \in Seq(E) /\ Lists(Tail(q), S \ {Head(q)})
<1> DEFINE r == Tail(q)
<1>1. /\ r \in Seq(E)
      /\ Len(q) \in Nat /\ Len(q) >= 1 /\ Len(r) = Len(q) - 1
      /\ \A i \in 1 .. Len(r) : r[i] = q[i + 1]
      /\ Head(q) = q[1]
  OBVIOUS
<1> HIDE DEF r
<1>2. S = {q[i] : i \in 1 .. Len(q)} /\ \A i, j \in 1 .. Len(q) : q[i] = q[j] => i = j
  BY DEF Lists
<1>3. S \ {Head(q)} = {r[i] : i \in 1 .. Len(r)}
  <2>1. ASSUME NEW x \in S, x # Head(q) PROVE x \in {r[i] : i \in 1 .. Len(r)}
    <3>1. PICK i \in 1 .. Len(q) : x = q[i]
      BY <1>2
    <3>2. i # 1
      BY <3>1, <2>1, <1>1
    <3>3. i - 1 \in 1 .. Len(r) /\ r[i - 1] = x
      BY <3>1, <3>2, <1>1
    <3> QED BY <3>3
  <2>2. ASSUME NEW i \in 1 .. Len(r) PROVE r[i] \in S \ {Head(q)}
    <3>1. i + 1 \in 1 .. Len(q) /\ i + 1 # 1 /\ 1 \in 1 .. Len(q)
      BY <1>1
    <3> QED BY <3>1, <1>1, <1>2
  <2> QED BY <2>1, <2>2
<1>4. \A i, j \in 1 .. Len(r) : r[i] = r[j] => i = j
  <2> SUFFICES ASSUME NEW i \in 1 .. Len(r), NEW j \in 1 .. Len(r), r[i] = r[j]
               PROVE  i = j
    OBVIOUS
  <2>1. i + 1 \in 1 .. Len(q) /\ j + 1 \in 1 .. Len(q)
    BY <1>1
  <2>2. i + 1 = j + 1
    BY <2>1, <1>1, <1>2
  <2> QED BY <2>2
<1> QED BY <1>1, <1>3, <1>4 DEF Lists, r

(* A queue that is pushed only what it does not hold, popped, lost or left  *)
(* alone still lists the set beside it.                                     *)
LEMMA QueueStepLists ==
  ASSUME NEW E, NEW q \in Seq(E), NEW S, Lists(q, S), NEW r, NEW T,
         \/ \E e \in E \ S : r = Append(q, e) /\ T = S \cup {e}
         \/ q # <<>> /\ r = Tail(q) /\ T = S \ {Head(q)}
         \/ r = <<>> /\ T = {}
         \/ r = q /\ T = S
  PROVE  r \in Seq(E) /\ Lists(r, T)
<1>1. <<>> \in Seq(E) /\ Lists(<<>>, {})
  BY DEF Lists
<1>2. ASSUME NEW e \in E \ S, r = Append(q, e), T = S \cup {e}
      PROVE  r \in Seq(E) /\ Lists(r, T)
  BY <1>2, AppendLists
<1>3. CASE q # <<>> /\ r = Tail(q) /\ T = S \ {Head(q)}
  BY <1>3, TailLists
<1> QED BY <1>1, <1>2, <1>3

-----------------------------------------------------------------------------
(* Sums. What SumFunctionOnSet chooses is a function that sums f on every   *)
(* subset of S: there is one, and all of them agree. Each lemma looks at a  *)
(* smallest set for which it would not hold.                                *)

Term(f, g, s) ==
  IF s = {} THEN 0 ELSE LET x == CHOOSE x \in s : TRUE IN f[x] + g[s \ {x}]

(* g sums f on every subset of S. *)
Sums(f, g, S) == g = [s \in SUBSET S |-> Term(f, g, s)]

LEMMA SumUnfolds ==
  ASSUME NEW f, NEW S
  PROVE  SumFunctionOnSet(f, S) = (CHOOSE g : Sums(f, g, S))[S]
BY DEF SumFunctionOnSet, FoldFunctionOnSet, MapThenFoldSet, Sums, Term

(* Among finite sets with a property ... smallest. *)
LEMMA SmallestSet ==
  ASSUME NEW S, IsFiniteSet(S), NEW C, C \subseteq SUBSET S, C # {}
  PROVE  \E s \in C : IsFiniteSet(s) /\ \A t \in C : t \subseteq s => t = s
<1>1. C \subseteq FiniteSubsetsOf(S)
  BY FS_FiniteSubsetsOfFinite
<1>2. IsWellFoundedOn(StrictSubsetOrdering(S), FiniteSubsetsOf(S))
  BY FS_StrictSubsetOrderingWellFounded
<1>3. PICK s \in C : \A t \in C : <<t, s>> \notin StrictSubsetOrdering(S)
  BY <1>1, <1>2, WFMin
<1> QED BY <1>1, <1>3 DEF StrictSubsetOrdering, FiniteSubsetsOf

LEMMA SumsAgree ==
  ASSUME NEW f, NEW S, IsFiniteSet(S), NEW T, NEW U, NEW g, NEW h,
         Sums(f, g, T), Sums(f, h, U), S \subseteq T, S \subseteq U
  PROVE  g[S] = h[S]
<1> DEFINE C == {s \in SUBSET S : g[s] # h[s]}
<1> SUFFICES ASSUME C # {} PROVE FALSE
  OBVIOUS
<1>1. PICK s \in C : \A t \in C : t \subseteq s => t = s
  <2>1. C \subseteq SUBSET S
    OBVIOUS
  <2> HIDE DEF C
  <2> QED BY <2>1, SmallestSet
<1>2. g[s] = Term(f, g, s) /\ h[s] = Term(f, h, s)
  BY DEF Sums
<1>3. s # {}
  BY <1>2 DEF Term
<1> DEFINE x == CHOOSE x \in s : TRUE
<1>4. x \in s
  BY <1>3
<1>5. g[s \ {x}] = h[s \ {x}]
  BY <1>1, <1>4
<1> QED BY <1>2, <1>3, <1>5 DEF Term

LEMMA SumsExist ==
  ASSUME NEW f, NEW S, IsFiniteSet(S) PROVE \E g : Sums(f, g, S)
<1> DEFINE C == {s \in SUBSET S : ~ \E g : Sums(f, g, s)}
<1> SUFFICES ASSUME C # {} PROVE FALSE
  OBVIOUS
<1>1. PICK s \in C : IsFiniteSet(s) /\ \A t \in C : t \subseteq s => t = s
  <2>1. C \subseteq SUBSET S
    OBVIOUS
  <2> HIDE DEF C
  <2> QED BY <2>1, SmallestSet
<1> DEFINE G(t) == CHOOSE g : Sums(f, g, t)
           H == [t \in SUBSET s |-> G(t)[t]]
           J == [t \in SUBSET s |-> Term(f, H, t)]
           
<1>2. ASSUME NEW t \in SUBSET s, t # s PROVE Sums(f, G(t), t)
  BY <1>1, <1>2
<1>3. ASSUME NEW t \in SUBSET s, t # s PROVE J[t] = H[t]
  <2>1. H[t] = Term(f, G(t), t)
    <3>1. Sums(f, G(t), t) /\ H[t] = G(t)[t] /\ t \in SUBSET t
      BY <1>3, <1>2
    <3> HIDE DEF G, H
    <3> QED BY <3>1 DEF Sums
  <2>2. J[t] = Term(f, H, t)
    OBVIOUS
  <2> DEFINE x == CHOOSE x \in t : TRUE
  <2>3. ASSUME t # {} PROVE H[t \ {x}] = G(t)[t \ {x}]
    <3>1. x \in t
      BY <2>3
    <3>2. t \ {x} \in SUBSET s /\ t \ {x} # s /\ IsFiniteSet(t \ {x})
      BY <1>1, <1>3, FS_Subset
    <3>3. Sums(f, G(t), t) /\ Sums(f, G(t \ {x}), t \ {x})
      BY <1>2, <1>3, <3>2
    <3>4. G(t \ {x})[t \ {x}] = G(t)[t \ {x}]
      <4> HIDE DEF G, x
      <4> QED BY <3>2, <3>3, SumsAgree
    <3> QED BY <3>2, <3>4
  <2> QED BY <2>1, <2>2, <2>3 DEF Term
<1>4. ASSUME NEW t \in SUBSET s PROVE Term(f, H, t) = Term(f, J, t)
  <2> HIDE DEF J, H
  <2> DEFINE x == CHOOSE x \in t : TRUE
  <2>1. ASSUME t # {} PROVE J[t \ {x}] = H[t \ {x}]
    <3>1. x \in t
      BY <2>1
    <3> QED BY <3>1, <1>3
  <2> QED BY <2>1 DEF Term
<1>5. Sums(f, J, s)
  <2>1. J = [t \in SUBSET s |-> Term(f, J, t)]
    <3> HIDE DEF H
    <3> QED BY <1>4
  <2> QED BY <2>1 DEF Sums
<1> QED BY <1>1, <1>5

LEMMA SumEmpty == ASSUME NEW f PROVE SumFunctionOnSet(f, {}) = 0
<1> DEFINE g == CHOOSE g : Sums(f, g, {})
<1>1. Sums(f, g, {})
  BY SumsExist, FS_EmptySet
<1>2. g[{}] = Term(f, g, {})
  BY <1>1 DEF Sums
<1> QED BY <1>2, SumUnfolds DEF Term

LEMMA SumStep ==
  ASSUME NEW f, NEW S, IsFiniteSet(S), S # {}
  PROVE  \E x \in S :
           SumFunctionOnSet(f, S) = f[x] + SumFunctionOnSet(f, S \ {x})
<1> DEFINE x == CHOOSE x \in S : TRUE
           R == S \ {x}
           g == CHOOSE g : Sums(f, g, S)
           h == CHOOSE h : Sums(f, h, R)
<1>1. x \in S
  OBVIOUS
<1>2. IsFiniteSet(R)
  BY FS_Subset
<1>3. Sums(f, g, S) /\ Sums(f, h, R)
  BY <1>2, SumsExist
<1>4. g[R] = h[R]
  <2> HIDE DEF g, h
  <2> QED BY <1>2, <1>3, SumsAgree
<1>5. g[S] = f[x] + g[R]
  <2>1. g[S] = Term(f, g, S)
    BY <1>3 DEF Sums
  <2> HIDE DEF g
  <2> QED BY <2>1 DEF Term
<1>6. SumFunctionOnSet(f, S) = g[S] /\ SumFunctionOnSet(f, R) = h[R]
  BY SumUnfolds
<1> QED BY <1>1, <1>4, <1>5, <1>6

LEMMA SumIsNat ==
  ASSUME NEW S, IsFiniteSet(S), NEW f, \A x \in S : f[x] \in Nat
  PROVE  SumFunctionOnSet(f, S) \in Nat
<1> DEFINE C == {s \in SUBSET S : SumFunctionOnSet(f, s) \notin Nat}
<1> SUFFICES ASSUME C # {} PROVE FALSE
  OBVIOUS
<1>1. PICK s \in C : IsFiniteSet(s) /\ \A t \in C : t \subseteq s => t = s
  <2>1. C \subseteq SUBSET S
    OBVIOUS
  <2> HIDE DEF C
  <2> QED BY <2>1, SmallestSet
<1>2. s # {}
  BY SumEmpty
<1>3. PICK x \in s : SumFunctionOnSet(f, s) = f[x] + SumFunctionOnSet(f, s \ {x})
  BY <1>1, <1>2, SumStep
<1>4. s \ {x} \notin C
  BY <1>1
<1> QED BY <1>3, <1>4

(* Any member can be taken out first. *)
LEMMA SumTakeOut ==
  ASSUME NEW S, IsFiniteSet(S), NEW f, \A x \in S : f[x] \in Nat, NEW x \in S
  PROVE  SumFunctionOnSet(f, S) = f[x] + SumFunctionOnSet(f, S \ {x})
<1> DEFINE Sum(s) == SumFunctionOnSet(f, s)
           C == {s \in SUBSET S : \E v \in s : Sum(s) # f[v] + Sum(s \ {v})}
<1> SUFFICES ASSUME C # {} PROVE FALSE
  OBVIOUS
<1>1. PICK s \in C : IsFiniteSet(s) /\ \A t \in C : t \subseteq s => t = s
  <2>1. C \subseteq SUBSET S
    OBVIOUS
  <2> HIDE DEF C
  <2> QED BY <2>1, SmallestSet
<1>2. PICK v \in s : Sum(s) # f[v] + Sum(s \ {v})
  OBVIOUS
<1>3. PICK y \in s : Sum(s) = f[y] + Sum(s \ {y})
  BY <1>1, <1>2, SumStep
<1>4. y # v
  BY <1>2, <1>3
<1>5. Sum(s \ {y}) = f[v] + Sum((s \ {y}) \ {v})
  <2>1. s \ {y} \notin C /\ v \in s \ {y}
    BY <1>1, <1>4
  <2> QED BY <2>1
<1>6. Sum(s \ {v}) = f[y] + Sum((s \ {v}) \ {y})
  <2>1. s \ {v} \notin C /\ y \in s \ {v}
    BY <1>1, <1>4
  <2> QED BY <2>1
<1>7. (s \ {v}) \ {y} = (s \ {y}) \ {v}
  OBVIOUS
<1>8. Sum((s \ {y}) \ {v}) \in Nat
  <2>1. IsFiniteSet((s \ {y}) \ {v}) /\ \A u \in (s \ {y}) \ {v} : f[u] \in Nat
    BY <1>1, FS_Subset
  <2> QED BY <2>1, SumIsNat
<1> HIDE DEF Sum
<1>9. f[v] \in Nat /\ f[y] \in Nat
  OBVIOUS
<1> QED BY <1>2, <1>3, <1>5, <1>6, <1>7, <1>8, <1>9

(* A new member adds its value. *)
LEMMA SumAdd ==
  ASSUME NEW S, IsFiniteSet(S), NEW x, x \notin S, NEW f,
         \A y \in S \cup {x} : f[y] \in Nat
  PROVE  SumFunctionOnSet(f, S \cup {x}) = f[x] + SumFunctionOnSet(f, S)
<1>1. IsFiniteSet(S \cup {x}) /\ (S \cup {x}) \ {x} = S
  BY FS_AddElement
<1> QED BY <1>1, SumTakeOut

(* Only the values of the members count. *)
LEMMA SumSame ==
  ASSUME NEW S, IsFiniteSet(S), NEW f, NEW g,
         \A x \in S : f[x] \in Nat /\ f[x] = g[x]
  PROVE  SumFunctionOnSet(f, S) = SumFunctionOnSet(g, S)
<1> DEFINE C == {s \in SUBSET S : SumFunctionOnSet(f, s) # SumFunctionOnSet(g, s)}
<1> SUFFICES ASSUME C # {} PROVE FALSE
  OBVIOUS
<1>1. PICK s \in C : IsFiniteSet(s) /\ \A t \in C : t \subseteq s => t = s
  <2>1. C \subseteq SUBSET S
    OBVIOUS
  <2> HIDE DEF C
  <2> QED BY <2>1, SmallestSet
<1>2. s # {}
  BY SumEmpty
<1>3. PICK x \in s : SumFunctionOnSet(f, s) = f[x] + SumFunctionOnSet(f, s \ {x})
  BY <1>1, <1>2, SumStep
<1>4. SumFunctionOnSet(g, s) = g[x] + SumFunctionOnSet(g, s \ {x})
  <2>1. \A y \in s : g[y] \in Nat
    OBVIOUS
  <2> QED BY <1>1, <2>1, SumTakeOut
<1>5. s \ {x} \notin C
  BY <1>1
<1> QED BY <1>3, <1>4, <1>5

(* Changing the value of one member changes the sum by as much. *)
LEMMA SumChange ==
  ASSUME NEW S, IsFiniteSet(S), NEW x \in S, NEW f, NEW g,
         \A y \in S : f[y] \in Nat /\ g[y] \in Nat /\ (y # x => f[y] = g[y])
  PROVE  SumFunctionOnSet(g, S) + f[x] = SumFunctionOnSet(f, S) + g[x]
<1> DEFINE R == S \ {x}
<1>1. IsFiniteSet(R) /\ \A y \in R : f[y] \in Nat /\ f[y] = g[y]
  BY FS_Subset
<1> HIDE DEF R
<1>2. SumFunctionOnSet(f, R) = SumFunctionOnSet(g, R) /\ SumFunctionOnSet(f, R) \in Nat
  BY <1>1, SumSame, SumIsNat
<1>3. SumFunctionOnSet(f, S) = f[x] + SumFunctionOnSet(f, R)
  BY SumTakeOut DEF R
<1>4. SumFunctionOnSet(g, S) = g[x] + SumFunctionOnSet(g, R)
  BY SumTakeOut DEF R
<1> QED BY <1>2, <1>3, <1>4

(* A larger set of larger values has a larger sum. *)
LEMMA SumMonotone ==
  ASSUME NEW T, IsFiniteSet(T), NEW S, S \subseteq T, NEW f, NEW g,
         \A x \in S : f[x] \in Nat /\ f[x] <= g[x],
         \A x \in T : g[x] \in Nat
  PROVE  SumFunctionOnSet(f, S) <= SumFunctionOnSet(g, T)
<1> DEFINE C == {t \in SUBSET T : ~ SumFunctionOnSet(f, S \cap t) <= SumFunctionOnSet(g, t)}
<1> SUFFICES ASSUME C # {} PROVE FALSE
  <2>1. S \cap T = S
    OBVIOUS
  <2> QED BY <2>1
<1>1. PICK t \in C : IsFiniteSet(t) /\ \A u \in C : u \subseteq t => u = t
  <2>1. C \subseteq SUBSET T
    OBVIOUS
  <2> HIDE DEF C
  <2> QED BY <2>1, SmallestSet
<1>2. t # {}
  <2>1. S \cap {} = {}
    OBVIOUS
  <2> QED BY <2>1, SumEmpty
<1>3. PICK x \in t : SumFunctionOnSet(g, t) = g[x] + SumFunctionOnSet(g, t \ {x})
  BY <1>1, <1>2, SumStep
<1> DEFINE a == SumFunctionOnSet(f, S \cap t)
           b == SumFunctionOnSet(f, S \cap (t \ {x}))
           c == SumFunctionOnSet(g, t \ {x})
<1>4. b <= c
  <2>1. t \ {x} \notin C
    BY <1>1
  <2> QED BY <2>1
<1>5. IsFiniteSet(S \cap t) /\ IsFiniteSet(S \cap (t \ {x})) /\ IsFiniteSet(t \ {x})
  BY <1>1, FS_Subset
<1>6. b \in Nat /\ c \in Nat
  <2>1. \A y \in S \cap (t \ {x}) : f[y] \in Nat
    OBVIOUS
  <2>2. \A y \in t \ {x} : g[y] \in Nat
    OBVIOUS
  <2> QED BY <2>1, <2>2, <1>5, SumIsNat
<1>7. a = IF x \in S THEN f[x] + b ELSE b
  <2>1. CASE x \in S
    <3>1. (S \cap t) \ {x} = S \cap (t \ {x}) /\ x \in S \cap t
          /\ \A y \in S \cap t : f[y] \in Nat
      BY <2>1
    <3>2. a = f[x] + SumFunctionOnSet(f, (S \cap t) \ {x})
      BY <3>1, <1>5, SumTakeOut
    <3> QED BY <2>1, <3>1, <3>2
  <2>2. CASE x \notin S
    <3>1. S \cap t = S \cap (t \ {x})
      BY <2>2
    <3> QED BY <2>2, <3>1
  <2> QED BY <2>1, <2>2
<1>8. ~ a <= g[x] + c
  BY <1>3
<1>9. g[x] \in Nat /\ (x \in S => f[x] \in Nat /\ f[x] <= g[x])
  OBVIOUS
<1> HIDE DEF a, b, c
<1> QED BY <1>4, <1>6, <1>7, <1>8, <1>9

(* Members of value 0 need not be counted. *)
LEMMA SumOnly ==
  ASSUME NEW T, IsFiniteSet(T), NEW S, S \subseteq T, NEW f, NEW g,
         \A x \in T : g[x] \in Nat /\ g[x] = IF x \in S THEN f[x] ELSE 0
  PROVE  SumFunctionOnSet(g, T) = SumFunctionOnSet(f, S)
<1> DEFINE C == {t \in SUBSET T : SumFunctionOnSet(g, t) # SumFunctionOnSet(g, S \cap t)}
<1>1. C = {}
  <2> SUFFICES ASSUME C # {} PROVE FALSE
    OBVIOUS
  <2>1. PICK t \in C : IsFiniteSet(t) /\ \A u \in C : u \subseteq t => u = t
    <3>1. C \subseteq SUBSET T
      OBVIOUS
    <3> HIDE DEF C
    <3> QED BY <3>1, SmallestSet
  <2>2. PICK x \in t : x \notin S
    <3>1. S \cap t # t
      BY <2>1
    <3> QED BY <3>1
  <2>3. g[x] = 0 /\ \A y \in t : g[y] \in Nat
    BY <2>1, <2>2
  <2>4. SumFunctionOnSet(g, t) = g[x] + SumFunctionOnSet(g, t \ {x})
    BY <2>1, <2>3, SumTakeOut
  <2>5. SumFunctionOnSet(g, t \ {x}) \in Nat
    <3>1. IsFiniteSet(t \ {x}) /\ \A y \in t \ {x} : g[y] \in Nat
      BY <2>1, <2>3, FS_Subset
    <3> QED BY <3>1, SumIsNat
  <2>6. SumFunctionOnSet(g, t \ {x}) = SumFunctionOnSet(g, S \cap t)
    <3>1. t \ {x} \notin C /\ S \cap (t \ {x}) = S \cap t
      BY <2>1, <2>2
    <3> QED BY <3>1
  <2> QED BY <2>1, <2>3, <2>4, <2>5, <2>6
<1>2. SumFunctionOnSet(g, T) = SumFunctionOnSet(g, S)
  <2>1. T \notin C /\ S \cap T = S
    BY <1>1
  <2> QED BY <2>1
<1>3. IsFiniteSet(S) /\ \A x \in S : g[x] \in Nat /\ g[x] = f[x]
  BY FS_Subset
<1> QED BY <1>2, <1>3, SumSame

(* Summing over the values of a one-to-one function is summing over what it *)
(* maps.                                                                    *)
LEMMA SumReindex ==
  ASSUME NEW T, IsFiniteSet(T), NEW f, NEW g, NEW h,
         \A x, y \in T : h[x] = h[y] => x = y,
         \A x \in T : f[h[x]] \in Nat /\ g[x] = f[h[x]]
  PROVE  SumFunctionOnSet(f, {h[x] : x \in T}) = SumFunctionOnSet(g, T)
<1> DEFINE Image(t) == {h[x] : x \in t}
           P(t) == /\ IsFiniteSet(Image(t))
                   /\ SumFunctionOnSet(f, Image(t)) = SumFunctionOnSet(g, t)
           C == {t \in SUBSET T : ~ P(t)}
<1> SUFFICES ASSUME C # {} PROVE FALSE
  OBVIOUS
<1>1. PICK t \in C : IsFiniteSet(t) /\ \A u \in C : u \subseteq t => u = t
  <2>1. C \subseteq SUBSET T
    OBVIOUS
  <2> HIDE DEF C
  <2> QED BY <2>1, SmallestSet
<1>2. t # {}
  <2>1. Image({}) = {}
    OBVIOUS
  <2> QED BY <2>1, SumEmpty, FS_EmptySet
<1>3. PICK x \in t : SumFunctionOnSet(g, t) = g[x] + SumFunctionOnSet(g, t \ {x})
  BY <1>1, <1>2, SumStep
<1> DEFINE u == t \ {x}
<1>4. P(u)
  <2>1. u \notin C /\ u \in SUBSET T
    BY <1>1
  <2> QED BY <2>1
<1>5. Image(t) = Image(u) \cup {h[x]} /\ h[x] \notin Image(u)
  OBVIOUS
<1>6. \A y \in Image(u) \cup {h[x]} : f[y] \in Nat
  OBVIOUS
<1>7. ~ P(t) /\ g[x] = f[h[x]]
  OBVIOUS
<1> HIDE DEF Image, C
<1> DEFINE I == Image(u)
           e == h[x]
<1>8. IsFiniteSet(I \cup {e})
  <2>1. IsFiniteSet(I)
    BY <1>4
  <2> HIDE DEF I, e
  <2> QED BY <2>1, FS_AddElement
<1>9. SumFunctionOnSet(f, I \cup {e}) = f[e] + SumFunctionOnSet(f, I)
  <2>1. IsFiniteSet(I) /\ e \notin I /\ \A y \in I \cup {e} : f[y] \in Nat
    BY <1>4, <1>5, <1>6
  <2> HIDE DEF I, e
  <2> QED BY <2>1, SumAdd
<1> QED BY <1>3, <1>4, <1>5, <1>7, <1>8, <1>9

=============================================================================
