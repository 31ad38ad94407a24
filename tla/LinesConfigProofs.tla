-------------------------- MODULE LinesConfigProofs --------------------------
(***************************************************************************)
(* What the tables of lines keep, however requests interleave, what a      *)
(* call's plan and the dial plan make of them; then what the files         *)
(* rendered for Asterisk, and Asterisk, keep of the rows they render.      *)
(***************************************************************************)
EXTENDS Lines, DialPlan, ConfigSync, FiniteSetTheorems, SequenceTheorems, WellFoundedInduction, TLAPS

----------------------------------------------------------------------------
(* Sets of numbers, and sequences picked from others.                      *)

LEMMA Least ==
    ASSUME NEW S, S \subseteq Nat, S # {}
    PROVE  \E n \in S : \A m \in S : n <= m
  <1> DEFINE R == OpToRel(<, Nat)
  <1>1. IsWellFoundedOn(R, Nat)
    BY NatLessThanWellFounded
  <1>2. \A x, y \in Nat : y < x => <<y, x>> \in R
    BY DEF OpToRel
  <1> HIDE DEF R
  <1>3. PICK x \in S : \A y \in S : <<y, x>> \notin R
    BY <1>1, WFMin
  <1>4. ASSUME NEW y \in S PROVE x <= y
    <2>1. ~ (y < x)
      BY <1>2, <1>3
    <2> QED
      BY <2>1
  <1> QED
    BY <1>4

LEMMA MinIn ==
    ASSUME NEW S, S \subseteq Nat, S # {}
    PROVE  Min(S) \in S /\ \A m \in S : Min(S) <= m
  BY Least DEF Min

\* Ranks in a set whose members have different ones are its places.
LEMMA RankTaken ==
    ASSUME NEW S, IsFiniteSet(S), NEW rank \in [S -> 0..Cardinality(S) - 1],
           \A k, l \in S : rank[k] = rank[l] => k = l
    PROVE  \A x \in 1..Cardinality(S) : \E k \in S : rank[k] = x - 1
  <1> DEFINE n == Cardinality(S)
  <1>1. n \in Nat
    BY FS_CardinalityType
  <1>2. IsFiniteSet(0..n - 1) /\ Cardinality(0..n - 1) = n
    BY <1>1, FS_Interval
  <1>3. rank \in Injection(S, 0..n - 1)
    BY DEF Injection, IsInjective
  <1>4. rank \in Surjection(S, 0..n - 1)
    BY <1>2, <1>3, FS_Injection
  <1> QED
    BY <1>1, <1>4 DEF Surjection

LEMMA RankOfPlaces ==
    ASSUME NEW places, places \subseteq Nat, IsFiniteSet(places), NEW x \in 1..Cardinality(places)
    PROVE  \E p \in places : Cardinality({q \in places : q < p}) = x - 1
  <1> DEFINE below(p) == {q \in places : q < p}
             n == Cardinality(places)
             rank == [p \in places |-> Cardinality(below(p))]
  <1>1. \A p \in places : IsFiniteSet(below(p)) /\ Cardinality(below(p)) \in Nat /\ Cardinality(below(p)) < n
    <2> TAKE p \in places
    <2>1. below(p) \subseteq places \ {p}
      OBVIOUS
    <2>2. IsFiniteSet(places \ {p}) /\ Cardinality(places \ {p}) = n - 1 /\ n \in Nat
      BY FS_RemoveElement, FS_CardinalityType
    <2> QED
      BY <2>1, <2>2, FS_Subset, FS_CardinalityType
  <1>2. \A p, q \in places : p < q => Cardinality(below(p)) < Cardinality(below(q))
    <2> SUFFICES ASSUME NEW p \in places, NEW q \in places, p < q
                 PROVE  Cardinality(below(p)) < Cardinality(below(q))
      OBVIOUS
    <2>1. p \in Nat /\ q \in Nat
      OBVIOUS
    <2>2. below(p) \subseteq below(q)
      <3>1. \A r \in places : r < p => r < q
        BY <2>1
      <3> QED
        BY <3>1
    <2>3. p \in below(q) /\ p \notin below(p)
      BY <2>1
    <2>4. Cardinality(below(p)) <= Cardinality(below(q)) /\ Cardinality(below(p)) # Cardinality(below(q))
      <3> HIDE DEF below
      <3> QED
        BY <1>1, <2>2, <2>3, FS_Subset
    <2> QED
      BY <1>1, <2>4
  <1>3. rank \in [places -> 0..n - 1]
    BY <1>1, FS_CardinalityType
  <1>4. \A p, q \in places : rank[p] = rank[q] => p = q
    BY <1>1, <1>2
  <1>5. \E p \in places : rank[p] = x - 1
    <2> HIDE DEF rank
    <2> QED
      BY <1>3, <1>4, RankTaken
  <1> QED
    BY <1>5

\* The recursive function that joins sequences is defined.
LEMMA JoinDefined ==
    ASSUME NEW ss, NEW c \in Nat
    PROVE  \E f : f = [i \in 1 .. c |-> IF i = 1 THEN ss[i] ELSE f[i - 1] \o ss[i]]
  <1> DEFINE Is(f, n) == f = [i \in 1 .. n |-> IF i = 1 THEN ss[i] ELSE f[i - 1] \o ss[i]]
             Missing  == {n \in Nat : ~ \E f : Is(f, n)}
  <1>1. SUFFICES ASSUME Missing # {} PROVE FALSE
    OBVIOUS
  <1>2. PICK n \in Missing : \A m \in Missing : n <= m
    <2> HIDE DEF Is
    <2> QED
      BY <1>1, Least
  <1>3. CASE n = 0
    <2> DEFINE f == [i \in 1 .. 0 |-> ss[i]]
    <2>1. Is(f, 0)
      <3>1. 1 .. 0 = {}
        OBVIOUS
      <3> QED
        BY <3>1
    <2> QED
      BY <1>3, <2>1
  <1>4. CASE n # 0
    <2>1. n \in Nat /\ n - 1 \in Nat /\ n - 1 \notin Missing
      <3>1. n \in Nat
        BY <1>2
      <3>2. n - 1 \in Nat /\ ~ (n <= n - 1)
        BY <1>4, <3>1
      <3> HIDE DEF Missing
      <3> QED
        BY <1>2, <3>1, <3>2
    <2>2. PICK f : Is(f, n - 1)
      BY <2>1
    <2>3. \A i \in 1 .. n - 1 : f[i] = IF i = 1 THEN ss[i] ELSE f[i - 1] \o ss[i]
      BY <2>2
    <2> DEFINE g == [i \in 1 .. n |-> IF i = 1 THEN ss[i] ELSE IF i = n THEN f[n - 1] \o ss[n] ELSE f[i]]
    <2>4. ASSUME NEW i \in 1 .. n PROVE g[i] = IF i = 1 THEN ss[i] ELSE g[i - 1] \o ss[i]
      <3>1. CASE i # 1
        <4>1. g[i - 1] = f[i - 1]
          <5>1. i - 1 \in 1 .. n - 1 /\ i - 1 \in 1 .. n /\ i - 1 # n
            BY <2>1, <3>1
          <5>2. i - 1 = 1 => f[i - 1] = ss[i - 1]
            BY <2>3, <5>1
          <5> QED
            BY <5>1, <5>2
        <4>2. i # n => i \in 1 .. n - 1
          BY <2>1
        <4>3. i # n => g[i] = f[i] /\ f[i] = f[i - 1] \o ss[i]
          BY <2>3, <3>1, <4>2
        <4>4. i = n => g[i] = f[i - 1] \o ss[i]
          BY <3>1
        <4> QED
          BY <3>1, <4>1, <4>3, <4>4
      <3> QED
        BY <3>1
    <2>5. Is(g, n)
      BY <2>4
    <2> QED
      BY <1>2, <2>5
  <1> QED
    BY <1>3, <1>4

\* Two sequences, one after the other, hold what each holds.
LEMMA BothParts ==
    ASSUME NEW X, NEW s \in Seq(X), NEW t \in Seq(X)
    PROVE  ToSet(s \o t) = ToSet(s) \cup ToSet(t)
  <1>1. /\ DOMAIN s = 1..Len(s) /\ DOMAIN t = 1..Len(t) /\ Len(s) \in Nat /\ Len(t) \in Nat
        /\ s \o t \in Seq(X) /\ Len(s \o t) = Len(s) + Len(t)
        /\ \A x \in 1..Len(s) + Len(t) : (s \o t)[x] = IF x <= Len(s) THEN s[x] ELSE t[x - Len(s)]
    BY LenProperties, ConcatProperties
  <1>2. DOMAIN (s \o t) = 1..Len(s) + Len(t)
    BY <1>1, LenProperties
  <1>3. ToSet(s \o t) \subseteq ToSet(s) \cup ToSet(t)
    <2> SUFFICES ASSUME NEW x \in 1..Len(s) + Len(t) PROVE (s \o t)[x] \in ToSet(s) \cup ToSet(t)
      BY <1>2 DEF ToSet
    <2>1. x <= Len(s) => x \in DOMAIN s
      BY <1>1
    <2>2. ~(x <= Len(s)) => x - Len(s) \in DOMAIN t
      BY <1>1
    <2> QED
      BY <1>1, <2>1, <2>2 DEF ToSet
  <1>4. ToSet(s) \subseteq ToSet(s \o t)
    <2> SUFFICES ASSUME NEW x \in DOMAIN s PROVE s[x] \in ToSet(s \o t)
      BY DEF ToSet
    <2>1. x \in DOMAIN (s \o t) /\ x <= Len(s)
      BY <1>1, <1>2
    <2> QED
      BY <1>1, <1>2, <2>1 DEF ToSet
  <1>5. ToSet(t) \subseteq ToSet(s \o t)
    <2> SUFFICES ASSUME NEW x \in DOMAIN t PROVE t[x] \in ToSet(s \o t)
      BY DEF ToSet
    <2>1. x + Len(s) \in DOMAIN (s \o t) /\ ~(x + Len(s) <= Len(s)) /\ x + Len(s) - Len(s) = x
      BY <1>1, <1>2
    <2> QED
      BY <1>1, <1>2, <2>1 DEF ToSet
  <1> QED
    BY <1>3, <1>4, <1>5

\* Sequences joined hold what each of them holds.
LEMMA FlattenIs ==
    ASSUME NEW X, NEW ss \in Seq(Seq(X))
    PROVE  FlattenSeq(ss) \in Seq(X) /\ ToSet(FlattenSeq(ss)) = UNION {ToSet(ss[i]) : i \in DOMAIN ss}
  <1> DEFINE c == Len(ss)
             Is(f) == f = [i \in 1 .. c |-> IF i = 1 THEN ss[i] ELSE f[i - 1] \o ss[i]]
             join == CHOOSE f : Is(f)
             upto(m) == UNION {ToSet(ss[i]) : i \in 1 .. m}
  <1>1. c \in Nat /\ DOMAIN ss = 1 .. c /\ \A i \in 1 .. c : ss[i] \in Seq(X)
    BY LenProperties, ElementOfSeq
  <1>2. FlattenSeq(ss) = IF c = 0 THEN ss ELSE join[c]
    BY DEF FlattenSeq
  <1>3. Is(join)
    <2>1. \E f : Is(f)
      BY <1>1, JoinDefined
    <2> SUFFICES Is(CHOOSE f : Is(f))
      OBVIOUS
    <2> HIDE DEF Is
    <2> QED
      BY <2>1
  <1> HIDE DEF join
  <1>4. \A i \in 1 .. c : join[i] = IF i = 1 THEN ss[i] ELSE join[i - 1] \o ss[i]
    BY <1>3
  <1> HIDE DEF Is
  <1> DEFINE Wrong == {i \in 1 .. c : ~(join[i] \in Seq(X) /\ ToSet(join[i]) = upto(i))}
  <1>5. Wrong = {}
    <2>1. SUFFICES ASSUME Wrong # {} PROVE FALSE
      OBVIOUS
    <2>2. PICK i \in Wrong : \A m \in Wrong : i <= m
      <3>1. Wrong \subseteq Nat
        BY <1>1
      <3> HIDE DEF Wrong
      <3> QED
        BY <2>1, <3>1, Least
    <2>3. i \in 1 .. c /\ i \in Nat /\ ss[i] \in Seq(X)
      BY <1>1, <2>2
    <2>4. i # 1
      <3>1. 1 .. 1 = {1}
        OBVIOUS
      <3>2. upto(1) = ToSet(ss[1])
        BY <3>1
      <3> QED
        BY <1>4, <2>2, <2>3, <3>2
    <2>5. i - 1 \in 1 .. c /\ ~ (i <= i - 1) /\ 1 .. i = 1 .. (i - 1) \cup {i}
      BY <1>1, <2>3, <2>4
    <2>6. join[i - 1] \in Seq(X) /\ ToSet(join[i - 1]) = upto(i - 1)
      BY <2>2, <2>5
    <2>7. join[i] = join[i - 1] \o ss[i]
      BY <1>4, <2>3, <2>4
    <2>8. join[i] \in Seq(X) /\ ToSet(join[i]) = ToSet(join[i - 1]) \cup ToSet(ss[i])
      BY <2>3, <2>6, <2>7, ConcatProperties, BothParts
    <2>9. upto(i) = upto(i - 1) \cup ToSet(ss[i])
      BY <2>5
    <2> HIDE DEF upto
    <2> QED
      BY <2>2, <2>6, <2>8, <2>9
  <1>6. CASE c = 0
    <2>1. ss = <<>> /\ DOMAIN ss = {}
      BY <1>1, <1>6, EmptySeq
    <2> QED
      BY <1>2, <1>6, <2>1, EmptySeq DEF ToSet
  <1>7. CASE c # 0
    <2>1. c \in 1 .. c
      BY <1>1, <1>7
    <2>2. join[c] \in Seq(X) /\ ToSet(join[c]) = upto(c)
      <3> HIDE DEF c, upto
      <3> QED
        BY <1>5, <2>1
    <2> QED
      BY <1>1, <1>2, <1>7, <2>2
  <1> QED
    BY <1>6, <1>7

LEMMA PickedIs ==
    ASSUME NEW X, NEW s \in Seq(X), NEW places \in SUBSET DOMAIN s
    PROVE  Picked(s, places) \in Seq(X) /\ ToSet(Picked(s, places)) = {s[p] : p \in places}
  <1> DEFINE ss == [x \in DOMAIN s |-> IF x \in places THEN <<s[x]>> ELSE <<>>]
  <1>1. \A x \in DOMAIN s : s[x] \in X
    BY LenProperties, ElementOfSeq
  <1>2. \A e \in X : <<e>> \in Seq(X) /\ ToSet(<<e>>) = {e}
    BY DEF ToSet
  <1>3. <<>> \in Seq(X) /\ ToSet(<<>>) = {}
    BY EmptySeq DEF ToSet
  <1>4. \A x \in DOMAIN s : ss[x] \in Seq(X) /\ ToSet(ss[x]) = IF x \in places THEN {s[x]} ELSE {}
    BY <1>1, <1>2, <1>3
  <1>5. ss \in Seq(Seq(X)) /\ DOMAIN ss = DOMAIN s
    <2>1. DOMAIN s = 1..Len(s) /\ Len(s) \in Nat
      BY LenProperties
    <2>2. ss \in [1..Len(s) -> Seq(X)]
      BY <1>4, <2>1
    <2> QED
      BY <2>1, <2>2, SeqDef
  <1>6. Picked(s, places) = FlattenSeq(ss)
    BY DEF Picked
  <1> HIDE DEF ss
  <1>7. FlattenSeq(ss) \in Seq(X) /\ ToSet(FlattenSeq(ss)) = UNION {ToSet(ss[x]) : x \in DOMAIN ss}
    BY <1>5, FlattenIs
  <1>8. UNION {ToSet(ss[x]) : x \in DOMAIN ss} = {s[p] : p \in places}
    BY <1>4, <1>5
  <1> QED
    BY <1>6, <1>7, <1>8

LEMMA AmongIs ==
    ASSUME NEW X, NEW s \in Seq(X), NEW S
    PROVE  /\ Among(s, S) \in Seq(X)
           /\ ToSet(Among(s, S)) = ToSet(s) \cap S
           /\ ToSet(s) \cap S # {} => Among(s, S) # <<>>
  <1> DEFINE places == {x \in DOMAIN s : s[x] \in S}
  <1>1. places \in SUBSET DOMAIN s
    OBVIOUS
  <1>2. Among(s, S) = Picked(s, places)
    BY DEF Among
  <1>3. {s[p] : p \in places} = ToSet(s) \cap S
    BY DEF ToSet
  <1> HIDE DEF places
  <1>4. Among(s, S) \in Seq(X) /\ ToSet(Among(s, S)) = ToSet(s) \cap S
    BY <1>1, <1>2, <1>3, PickedIs
  <1>5. ToSet(<<>>) = {}
    BY DEF ToSet
  <1> QED
    BY <1>4, <1>5

LEMMA WithoutIs ==
    ASSUME NEW X, NEW s \in Seq(X), NEW e
    PROVE  Without(s, e) \in Seq(X) /\ ToSet(Without(s, e)) = ToSet(s) \ {e}
  <1> DEFINE places == {x \in DOMAIN s : s[x] # e}
  <1>1. places \in SUBSET DOMAIN s /\ Without(s, e) = Picked(s, places)
    BY DEF Without
  <1>2. {s[p] : p \in places} = ToSet(s) \ {e}
    BY DEF ToSet
  <1> HIDE DEF places
  <1> QED
    BY <1>1, <1>2, PickedIs

\* Each key once, and no key less: a key is first mentioned somewhere.
LEMMA UniqueIs ==
    ASSUME NEW X, NEW s \in Seq(X)
    PROVE  Unique(s) \in Seq(X) /\ ToSet(Unique(s)) = ToSet(s)
  <1> DEFINE places == {x \in DOMAIN s : \A y \in 1..x - 1 : s[y] # s[x]}
  <1>1. places \in SUBSET DOMAIN s /\ Unique(s) = Picked(s, places)
    BY DEF Unique
  <1>2. Unique(s) \in Seq(X) /\ ToSet(Unique(s)) = {s[p] : p \in places}
    BY <1>1, PickedIs
  <1>3. DOMAIN s = 1..Len(s) /\ Len(s) \in Nat
    BY LenProperties
  <1>4. ASSUME NEW e \in ToSet(s) PROVE \E p \in places : s[p] = e
    <2> DEFINE S == {x \in DOMAIN s : s[x] = e}
    <2>1. S \subseteq Nat /\ S # {}
      BY <1>3 DEF ToSet
    <2>2. PICK x \in S : \A y \in S : x <= y
      <3> HIDE DEF S
      <3> QED
        BY <2>1, Least
    <2>3. ASSUME NEW y \in 1..x - 1 PROVE s[y] # e
      <3>1. y \in DOMAIN s /\ ~(x <= y)
        BY <1>3, <2>2
      <3> QED
        BY <2>2, <3>1
    <2>4. x \in DOMAIN s /\ s[x] = e
      BY <2>2
    <2> HIDE DEF S
    <2>5. x \in places
      BY <2>3, <2>4
    <2> QED
      BY <2>4, <2>5
  <1> HIDE DEF places
  <1>5. ToSet(s) \subseteq {s[p] : p \in places} /\ {s[p] : p \in places} \subseteq ToSet(s)
    BY <1>1, <1>4 DEF ToSet
  <1> QED
    BY <1>2, <1>5

\* A finite set of numbers has a greatest one.
LEMMA MaxIn ==
    ASSUME NEW S, S \subseteq Nat, S # {}, IsFiniteSet(S)
    PROVE  Max(S) \in S /\ \A m \in S : m <= Max(S)
  <1>1. \E n \in S : \A m \in S : n >= m
    <2> DEFINE below(p) == {q \in S : q < p}
    <2>1. PICK p \in S : Cardinality(below(p)) = Cardinality(S) - 1
      <3>1. Cardinality(S) \in Nat /\ Cardinality(S) # 0
        BY FS_CardinalityType, FS_EmptySet
      <3>2. Cardinality(S) \in 1 .. Cardinality(S)
        BY <3>1
      <3> QED
        BY <3>2, RankOfPlaces
    <2>2. below(p) \subseteq S \ {p}
      OBVIOUS
    <2>3. IsFiniteSet(S \ {p}) /\ Cardinality(S \ {p}) = Cardinality(S) - 1
      BY FS_RemoveElement
    <2>4. below(p) = S \ {p}
      BY <2>1, <2>2, <2>3, FS_Subset
    <2>5. \A m \in S : m = p \/ m < p
      BY <2>4
    <2> QED
      BY <2>5
  <1> QED
    BY <1>1 DEF Max

\* Keys are ordered by their numbers, and on a number by their digits.
LEMMA BeforeOrders ==
    ASSUME NEW k \in Key, NEW l \in Key
    PROVE  /\ ~ Before(k, k)
           /\ k = l \/ Before(k, l) \/ Before(l, k)
           /\ \A m \in Key : Before(k, l) /\ Before(l, m) => Before(k, m)
  <1>1. \A m \in Key : m.digits \in Nat /\ m.line \in Nat
    BY TablesAssumption DEF TablesAssumption, Key
  <1>2. k.digits = l.digits /\ k.line = l.line => k = l
    BY DEF Key
  <1> QED
    BY <1>1, <1>2 DEF Before

\* Keys of a set are ranked by how many come before them.
LEMMA KeysRank ==
    ASSUME NEW S \in SUBSET Key, IsFiniteSet(S)
    PROVE  /\ \A k \in S : /\ Cardinality({m \in S : Before(m, k)}) \in Nat
                          /\ Cardinality({m \in S : Before(m, k)}) < Cardinality(S)
           /\ \A k, l \in S :
                Before(k, l) => Cardinality({m \in S : Before(m, k)}) < Cardinality({m \in S : Before(m, l)})
  <1> DEFINE below(k) == {l \in S : Before(l, k)}
             n == Cardinality(S)
  <1>0. n \in Nat
    BY FS_CardinalityType
  <1>1. \A k \in S : IsFiniteSet(below(k)) /\ Cardinality(below(k)) \in Nat /\ Cardinality(below(k)) < n
    <2> TAKE k \in S
    <2>1. below(k) \subseteq S \ {k}
      BY BeforeOrders
    <2>2. IsFiniteSet(S \ {k}) /\ Cardinality(S \ {k}) = n - 1
      BY FS_RemoveElement
    <2> QED
      BY <1>0, <2>1, <2>2, FS_Subset, FS_CardinalityType
  <1>2. \A k, l \in S : Before(k, l) => Cardinality(below(k)) < Cardinality(below(l))
    <2> SUFFICES ASSUME NEW k \in S, NEW l \in S, Before(k, l)
                 PROVE  Cardinality(below(k)) < Cardinality(below(l))
      OBVIOUS
    <2>1. below(k) \subseteq below(l) /\ k \in below(l) /\ k \notin below(k)
      BY BeforeOrders
    <2>2. Cardinality(below(k)) <= Cardinality(below(l)) /\ Cardinality(below(k)) # Cardinality(below(l))
      <3> HIDE DEF below
      <3> QED
        BY <1>1, <2>1, FS_Subset
    <2>3. Cardinality(below(k)) \in Nat /\ Cardinality(below(l)) \in Nat
      BY <1>1
    <2> HIDE DEF below
    <2> QED
      BY <2>2, <2>3
  <1> QED
    BY <1>1, <1>2

LEMMA RankOfKeys ==
    ASSUME NEW S \in SUBSET Key, IsFiniteSet(S)
    PROVE  \A x \in 1 .. Cardinality(S) : \E k \in S : Cardinality({l \in S : Before(l, k)}) = x - 1
  <1> DEFINE below(k) == {l \in S : Before(l, k)}
             n == Cardinality(S)
             rank == [k \in S |-> Cardinality(below(k))]
  <1>0. n \in Nat
    BY FS_CardinalityType
  <1>1. \A k \in S : Cardinality(below(k)) \in Nat /\ Cardinality(below(k)) < n
    BY KeysRank
  <1>2. \A k, l \in S : Before(k, l) => Cardinality(below(k)) < Cardinality(below(l))
    BY KeysRank
  <1>3. rank \in [S -> 0 .. n - 1]
    <2> HIDE DEF below
    <2>1. \A k \in S : Cardinality(below(k)) \in 0 .. n - 1
      BY <1>0, <1>1
    <2> QED
      BY <2>1
  <1>4. \A k, l \in S : rank[k] = rank[l] => k = l
    <2> SUFFICES ASSUME NEW k \in S, NEW l \in S, rank[k] = rank[l], k # l PROVE FALSE
      OBVIOUS
    <2>1. Before(k, l) \/ Before(l, k)
      BY BeforeOrders
    <2> HIDE DEF below
    <2> QED
      BY <1>1, <1>2, <2>1
  <1>5. \A x \in 1 .. n : \E k \in S : rank[k] = x - 1
    <2> HIDE DEF rank
    <2> QED
      BY <1>3, <1>4, RankTaken
  <1> QED
    BY <1>5

LEMMA SortedIs ==
    ASSUME NEW S \in SUBSET Key, IsFiniteSet(S)
    PROVE  Sorted(S) \in Seq(Key) /\ ToSet(Sorted(S)) = S
  <1> DEFINE n == Cardinality(S)
             rank(k) == Cardinality({l \in S : Before(l, k)})
  <1>1. n \in Nat
    BY FS_CardinalityType
  <1>2. \A x \in 1 .. n : \E k \in S : rank(k) = x - 1
    BY RankOfKeys
  <1>3. Sorted(S) = [x \in 1 .. n |-> CHOOSE k \in S : rank(k) = x - 1]
    BY DEF Sorted
  <1>4. \A k \in S : rank(k) \in Nat /\ rank(k) < n
    BY KeysRank
  <1>5. \A k, l \in S : Before(k, l) => rank(k) < rank(l)
    BY KeysRank
  <1> HIDE DEF n, rank
  <1>6. \A x \in 1 .. n : Sorted(S)[x] \in S
    BY <1>2, <1>3
  <1>7. \A k, l \in S : rank(k) = rank(l) => k = l
    <2> SUFFICES ASSUME NEW k \in S, NEW l \in S, rank(k) = rank(l) PROVE k = l
      OBVIOUS
    <2>1. k = l \/ Before(k, l) \/ Before(l, k)
      BY BeforeOrders
    <2>2. rank(k) \in Nat /\ rank(l) \in Nat
      BY <1>4
    <2> QED
      BY <1>5, <2>1, <2>2
  <1>8. ASSUME NEW k \in S PROVE k \in ToSet(Sorted(S))
    <2> DEFINE x == rank(k) + 1
    <2>1. x \in 1 .. n /\ x - 1 = rank(k)
      BY <1>1, <1>4
    <2> HIDE DEF x
    <2>2. \A l \in S : rank(l) = x - 1 => l = k
      BY <1>7, <2>1
    <2>3. (CHOOSE l \in S : rank(l) = x - 1) = k
      BY <2>1, <2>2
    <2>4. Sorted(S)[x] = k /\ DOMAIN Sorted(S) = 1 .. n
      BY <1>3, <2>1, <2>3
    <2> QED
      BY <2>1, <2>4 DEF ToSet
  <1>9. Sorted(S) \in Seq(S)
    <2>1. Sorted(S) \in [1 .. n -> S]
      BY <1>3, <1>6
    <2> QED
      BY <1>1, <2>1, SeqDef
  <1>10. ToSet(Sorted(S)) \subseteq S
    BY <1>3, <1>6 DEF ToSet
  <1> QED
    BY <1>8, <1>9, <1>10, SeqMonotonic

\* A finite set of keys has a first one.
LEMMA LeastKey ==
    ASSUME NEW S \in SUBSET Key, IsFiniteSet(S), S # {}
    PROVE  \E k \in S : \A l \in S : k = l \/ Before(k, l)
  <1> DEFINE below(k) == {l \in S : Before(l, k)}
  <1>1. 1 \in 1..Cardinality(S)
    BY FS_CardinalityType, FS_EmptySet
  <1>2. PICK k \in S : Cardinality(below(k)) = 1 - 1
    BY <1>1, RankOfKeys
  <1>3. IsFiniteSet(below(k))
    BY FS_Subset
  <1>4. below(k) = {}
    BY <1>2, <1>3, FS_EmptySet
  <1>5. \A l \in S : ~ Before(l, k)
    BY <1>4
  <1> QED
    BY <1>5, BeforeOrders

----------------------------------------------------------------------------
(* The views of the tables, of rows of the right types.                    *)

Row      == [digits : Digits, line : 0..made.lines, owner : Owner, active : BOOLEAN, mail : BOOLEAN]
Line     == [id : 1..made.lines, owner : Owner, link : Key, dflt : BOOLEAN, active : BOOLEAN]
RowsTyped ==
    /\ made \in [exts : 0..MaxRows, lines : 0..MaxLines]
    /\ DOMAIN numbers \subseteq Numbers /\ numbers \in [DOMAIN numbers -> Line]
    /\ DOMAIN exts \subseteq 1..made.exts /\ exts \in [DOMAIN exts -> Row]

LEMMA SmallNumbers ==
    /\ Accounts \subseteq Nat \ {0} /\ IsFiniteSet(Accounts) /\ Accounts # {}
    /\ Numbers \subseteq Nat \ {0} /\ IsFiniteSet(Numbers) /\ Numbers # {}
    /\ Digits \subseteq Nat \ {0} /\ IsFiniteSet(Digits) /\ Digits # {}
    /\ MaxRows \in Nat /\ MaxLines \in Nat
  BY TablesAssumption DEF TablesAssumption

LEMMA KeyParts ==
    ASSUME NEW k \in Key
    PROVE  k.digits \in Digits \cup {0} /\ k.line \in Numbers \cup {0} /\ k = [digits |-> k.digits, line |-> k.line]
  BY DEF Key

\* A row's number is one that has its line; no number has it only if none does.
LEMMA LineOfIs ==
    RowsTyped => \A i \in DOMAIN exts :
        /\ LineOf(i) \in DOMAIN numbers \cup {0}
        /\ LineOf(i) # 0 => numbers[LineOf(i)].id = exts[i].line
        /\ LineOf(i) = 0 => \A n \in DOMAIN numbers : numbers[n].id # exts[i].line
  <1> SUFFICES ASSUME RowsTyped, NEW i \in DOMAIN exts
               PROVE  /\ LineOf(i) \in DOMAIN numbers \cup {0}
                      /\ LineOf(i) # 0 => numbers[LineOf(i)].id = exts[i].line
                      /\ LineOf(i) = 0 => \A n \in DOMAIN numbers : numbers[n].id # exts[i].line
    OBVIOUS
  <1>1. 0 \notin DOMAIN numbers
    BY SmallNumbers DEF RowsTyped
  <1>2. CASE \A n \in DOMAIN numbers : numbers[n].id # exts[i].line
    BY <1>2 DEF LineOf
  <1>3. CASE \E n \in DOMAIN numbers : numbers[n].id = exts[i].line
    <2>1. LineOf(i) = CHOOSE n \in DOMAIN numbers : numbers[n].id = exts[i].line
      BY <1>3 DEF LineOf
    <2> QED
      BY <1>1, <1>3, <2>1
  <1> QED
    BY <1>2, <1>3

LEMMA KeyOfIs ==
    RowsTyped => \A i \in DOMAIN exts :
        KeyOf(i) \in Key /\ KeyOf(i) # NoKey /\ KeyOf(i).digits = exts[i].digits /\ KeyOf(i).line = LineOf(i)
  <1> SUFFICES ASSUME RowsTyped, NEW i \in DOMAIN exts
               PROVE  KeyOf(i) \in Key /\ KeyOf(i) # NoKey /\ KeyOf(i).digits = exts[i].digits
                      /\ KeyOf(i).line = LineOf(i)
    OBVIOUS
  <1>1. exts[i].digits \in Digits /\ LineOf(i) \in Numbers \cup {0}
    BY LineOfIs DEF RowsTyped, Row
  <1>2. exts[i].digits # 0
    BY <1>1, SmallNumbers
  <1> QED
    BY <1>1, <1>2 DEF KeyOf, Key, NoKey

LEMMA KeysOfAre ==
    RowsTyped => \A o :
        /\ KeysOf(o) \subseteq Key \ {NoKey} /\ ActiveKeys(o) \subseteq KeysOf(o)
        /\ IsFiniteSet(KeysOf(o)) /\ IsFiniteSet(DOMAIN exts)
  <1> SUFFICES ASSUME RowsTyped, NEW o
               PROVE  /\ KeysOf(o) \subseteq Key \ {NoKey} /\ ActiveKeys(o) \subseteq KeysOf(o)
                      /\ IsFiniteSet(KeysOf(o)) /\ IsFiniteSet(DOMAIN exts)
    OBVIOUS
  <1>1. IsFiniteSet(DOMAIN exts)
    <2>0. made.exts \in Nat
      BY SmallNumbers DEF RowsTyped
    <2>1. IsFiniteSet(1..made.exts)
      BY <2>0, FS_Interval
    <2> QED
      BY <2>1, FS_Subset DEF RowsTyped
  <1>2. Listed(o) \subseteq DOMAIN exts
    BY DEF Listed
  <1>3. IsFiniteSet(Listed(o))
    BY <1>1, <1>2, FS_Subset
  <1>4. IsFiniteSet(KeysOf(o))
    <2> DEFINE keyOf == [i \in Listed(o) |-> KeyOf(i)]
    <2>1. keyOf \in Surjection(Listed(o), KeysOf(o))
      BY DEF Surjection, KeysOf
    <2> QED
      BY <1>3, <2>1, FS_Surjection
  <1> QED
    BY <1>1, <1>2, <1>4, KeyOfIs DEF KeysOf, ActiveKeys

LEMMA OnlyIs ==
    ASSUME NEW S
    PROVE  Only(S) = 0 \/ Only(S) \in S
  <1>1. CASE Cardinality(S) = 1
    <2>1. S # {}
      BY <1>1, FS_EmptySet
    <2> QED
      BY <1>1, <2>1 DEF Only
  <1> QED
    BY <1>1 DEF Only

LEMMA ResolvesTo ==
    RowsTyped => \A n, d, o :
        /\ ResolveExtension(n, d, o) = 0 \/ ResolveExtension(n, d, o) \in {i \in OnNumber(o, n) : exts[i].digits = d}
        /\ ResolveExtension(n, d, o) = 0 => d = 0 \/ n = 0 \/ \A i \in OnNumber(o, n) : exts[i].digits # d
  <1> SUFFICES ASSUME RowsTyped, NEW n, NEW d, NEW o
               PROVE  /\ ResolveExtension(n, d, o) = 0 \/ ResolveExtension(n, d, o) \in {i \in OnNumber(o, n) : exts[i].digits = d}
                      /\ ResolveExtension(n, d, o) = 0 => d = 0 \/ n = 0 \/ \A i \in OnNumber(o, n) : exts[i].digits # d
    OBVIOUS
  <1> DEFINE found == {i \in OnNumber(o, n) : exts[i].digits = d}
  <1>1. found \subseteq Nat \ {0}
    BY DEF OnNumber, Listed, RowsTyped
  <1>2. found # {} => Min(found) \in found
    BY <1>1, MinIn
  <1>3. ResolveExtension(n, d, o) = IF d = 0 \/ n = 0 \/ found = {} THEN 0 ELSE Min(found)
    BY DEF ResolveExtension
  <1> QED
    BY <1>1, <1>2, <1>3

LEMMA KeyForIs ==
    RowsTyped => \A n, d, o :
        /\ ExtensionKeyFor(n, d, o) \in KeysOf(o) \cup {NoKey}
        /\ ExtensionKeyFor(n, d, o) # NoKey =>
             ExtensionKeyFor(n, d, o).digits = d /\ ExtensionKeyFor(n, d, o).line = n
        /\ ExtensionKeyForDigits(d, o) \in KeysOf(o) \cup {NoKey}
  <1> SUFFICES ASSUME RowsTyped, NEW n, NEW d, NEW o
               PROVE  /\ ExtensionKeyFor(n, d, o) \in KeysOf(o) \cup {NoKey}
                      /\ ExtensionKeyFor(n, d, o) # NoKey =>
                           ExtensionKeyFor(n, d, o).digits = d /\ ExtensionKeyFor(n, d, o).line = n
                      /\ ExtensionKeyForDigits(d, o) \in KeysOf(o) \cup {NoKey}
    OBVIOUS
  <1>1. \A i \in OnNumber(o, n) \cup WithDigits(d, o) : i \in Listed(o) /\ i \in DOMAIN exts
    BY DEF OnNumber, WithDigits, Listed
  <1>2. ExtensionKeyFor(n, d, o) \in KeysOf(o) \cup {NoKey}
    BY <1>1, ResolvesTo DEF ExtensionKeyFor, KeysOf
  <1>3. ExtensionKeyFor(n, d, o) # NoKey =>
             ExtensionKeyFor(n, d, o).digits = d /\ ExtensionKeyFor(n, d, o).line = n
    BY <1>1, ResolvesTo, KeyOfIs DEF ExtensionKeyFor, OnNumber
  <1>4. ExtensionKeyForDigits(d, o) \in KeysOf(o) \cup {NoKey}
    <2>1. Only(WithDigits(d, o)) = 0 \/ Only(WithDigits(d, o)) \in WithDigits(d, o)
      BY OnlyIs
    <2> QED
      BY <1>1, <2>1 DEF ExtensionKeyForDigits, KeysOf
  <1> QED
    BY <1>2, <1>3, <1>4

LEMMA RowOfKey ==
    RowsTyped => \A k :
        ExtensionRow(k) = 0 \/ (ExtensionRow(k) \in DOMAIN exts /\ (k.line # 0 => LineOf(ExtensionRow(k)) = k.line))
  <1> SUFFICES ASSUME RowsTyped, NEW k
               PROVE  \/ ExtensionRow(k) = 0
                      \/ ExtensionRow(k) \in DOMAIN exts /\ (k.line # 0 => LineOf(ExtensionRow(k)) = k.line)
    OBVIOUS
  <1> DEFINE bare == {i \in WithDigits(k.digits, 0) : exts[i].line = 0}
             on   == {i \in WithDigits(k.digits, 0) : LineOf(i) = k.line}
  <1>1. WithDigits(k.digits, 0) \subseteq DOMAIN exts
    BY DEF WithDigits, Listed
  <1>2. ExtensionRow(k) = IF k.line # 0 THEN Only(on)
                          ELSE IF bare # {} THEN Only(bare) ELSE Only(WithDigits(k.digits, 0))
    BY DEF ExtensionRow
  <1>3. Only(on) = 0 \/ Only(on) \in on
    BY OnlyIs
  <1>4. Only(bare) = 0 \/ Only(bare) \in bare
    BY OnlyIs
  <1>5. Only(WithDigits(k.digits, 0)) = 0 \/ Only(WithDigits(k.digits, 0)) \in WithDigits(k.digits, 0)
    BY OnlyIs
  <1>6. Only(on) = 0 \/ (Only(on) \in DOMAIN exts /\ LineOf(Only(on)) = k.line)
    BY <1>1, <1>3
  <1>7. Only(bare) = 0 \/ Only(bare) \in DOMAIN exts
    BY <1>1, <1>4
  <1> HIDE DEF bare, on
  <1> QED
    BY <1>1, <1>2, <1>5, <1>6, <1>7

LEMMA RequestedIs ==
    RowsTyped => \A k, o : ResolveRequested(k, o) \in KeysOf(o) \cup {NoKey}
  <1> SUFFICES ASSUME RowsTyped, NEW k, NEW o PROVE ResolveRequested(k, o) \in KeysOf(o) \cup {NoKey}
    OBVIOUS
  <1> DEFINE i == ExtensionRow(k)
  <1>1. i # 0 /\ (o = 0 \/ exts[i].owner = o) => KeyOf(i) \in KeysOf(o)
    BY RowOfKey DEF KeysOf, Listed
  <1>2. (\E j \in WithDigits(k.digits, o) : KeyOf(j) = k) => k \in KeysOf(o)
    BY DEF KeysOf, WithDigits
  <1>3. ExtensionKeyForDigits(k.digits, o) \in KeysOf(o) \cup {NoKey}
    BY KeyForIs
  <1> QED
    BY <1>1, <1>2, <1>3 DEF ResolveRequested

LEMMA MeansKey ==
    RowsTyped => \A k \in Key : \A o, n : Remapped(k, o, n) \in Key /\ FlowKey(k, o, n) \in Key
  <1> SUFFICES ASSUME RowsTyped, NEW k \in Key, NEW o, NEW n
               PROVE  Remapped(k, o, n) \in Key /\ FlowKey(k, o, n) \in Key
    OBVIOUS
  <1>1. ExtensionKeyFor(n, k.digits, o) \in KeysOf(o) \cup {NoKey} /\ ExtensionKeyForDigits(k.digits, o) \in KeysOf(o) \cup {NoKey}
    BY KeyForIs
  <1>2. KeysOf(o) \subseteq Key
    BY KeysOfAre
  <1>3. FlowKey(k, o, n) \in Key
    BY <1>1, <1>2 DEF FlowKey
  <1>4. Reference(k, o, n) \in KeysOf(o) \cup {NoKey}
    BY <1>1 DEF Reference
  <1> QED
    BY <1>2, <1>3, <1>4 DEF Remapped

----------------------------------------------------------------------------
(* Flows of the right types.                                               *)

LEMMA SeqOver ==
    ASSUME NEW X, NEW Y, NEW s \in Seq(X), NEW t \in [DOMAIN s -> Y]
    PROVE  t \in Seq(Y)
  <1>1. DOMAIN s = 1..Len(s) /\ Len(s) \in Nat
    BY LenProperties
  <1> QED
    BY <1>1, SeqDef

LEMMA SeqPart ==
    ASSUME NEW X, NEW s \in Seq(X), NEW a \in Nat, NEW b \in Int, a >= 1, b <= Len(s)
    PROVE  SubSeq(s, a, b) \in Seq(X)
  BY SubSeqProperties

LEMMA SetOfSeq ==
    ASSUME NEW X, NEW s \in Seq(X)
    PROVE  ToSet(s) \subseteq X /\ (s # <<>> => s[1] \in ToSet(s))
  <1>1. DOMAIN s = 1..Len(s) /\ Len(s) \in Nat /\ \A x \in 1..Len(s) : s[x] \in X
    BY LenProperties, ElementOfSeq
  <1>2. s # <<>> => 1 \in 1..Len(s)
    BY <1>1, EmptySeq
  <1> QED
    BY <1>1, <1>2 DEF ToSet

LEMMA StepIs ==
    ASSUME NEW t \in {"ring", "extension", "voicemail", "forward", "hours", "ivr"}, NEW ks \in Seq(Key)
    PROVE  Step(t, ks) \in Node
  BY DEF Step, Node

LEMMA NodeParts ==
    ASSUME NEW x \in Node
    PROVE  /\ x.exts \in Seq(Key)
           /\ \A ks \in Seq(Key) : [x EXCEPT !.exts = ks] \in Node
  BY DEF Node

LEMMA NodesPicked ==
    ASSUME NEW nodes \in Seq(Node), NEW types
    PROVE  /\ OfType(nodes, types) \in Seq(Node)
           /\ ToSet(OfType(nodes, types)) = {x \in ToSet(nodes) : x.type \in types}
           /\ SwitchedOn(nodes) \in Seq(Node) /\ ToSet(SwitchedOn(nodes)) = {x \in ToSet(nodes) : x.on}
  <1> DEFINE typed == {x \in DOMAIN nodes : nodes[x].type \in types}
             on    == {x \in DOMAIN nodes : nodes[x].on}
  <1>1. typed \in SUBSET DOMAIN nodes /\ on \in SUBSET DOMAIN nodes
    OBVIOUS
  <1>2. OfType(nodes, types) = Picked(nodes, typed) /\ SwitchedOn(nodes) = Picked(nodes, on)
    BY DEF OfType, SwitchedOn
  <1>3. {nodes[p] : p \in typed} = {x \in ToSet(nodes) : x.type \in types} /\ {nodes[p] : p \in on} = {x \in ToSet(nodes) : x.on}
    BY DEF ToSet
  <1> HIDE DEF typed, on
  <1> QED
    BY <1>1, <1>2, <1>3, PickedIs

LEMMA NamedIs ==
    ASSUME NEW nodes \in Seq(Node)
    PROVE  Named(nodes) \in Seq(Key) /\ \A x \in ToSet(nodes) : ToSet(x.exts) \subseteq ToSet(Named(nodes))
  <1> DEFINE ss == [x \in DOMAIN nodes |-> nodes[x].exts]
  <1>1. \A x \in DOMAIN nodes : nodes[x].exts \in Seq(Key)
    BY ElementOfSeq, LenProperties, NodeParts
  <1>2. ss \in Seq(Seq(Key))
    BY <1>1, SeqOver
  <1>3. \A x \in ToSet(nodes) : \E y \in DOMAIN ss : ss[y] = x.exts
    BY DEF ToSet
  <1>4. Named(nodes) = FlattenSeq(ss)
    BY DEF Named
  <1> HIDE DEF ss
  <1> QED
    BY <1>2, <1>3, <1>4, FlattenIs

LEMMA DefaultRoutes ==
    ASSUME NEW ks \in Seq(Key), NEW box \in Seq(Key), NEW k \in Key, NEW mail \in BOOLEAN
    PROVE  DefaultNumberRoute(ks, box) \in Seq(Node) /\ DefaultExtensionRoute(k, mail) \in Seq(Node)
  <1>1. <<k>> \in Seq(Key)
    OBVIOUS
  <1>2. /\ Step("ring", ks) \in Node /\ Step("voicemail", box) \in Node
        /\ Step("extension", <<k>>) \in Node /\ Step("voicemail", <<k>>) \in Node
    BY <1>1, StepIs
  <1>3. \A x \in Node : <<x>> \in Seq(Node)
    OBVIOUS
  <1>4. <<>> \in Seq(Node)
    BY EmptySeq
  <1>5. \A s, t \in Seq(Node) : s \o t \in Seq(Node)
    BY ConcatProperties
  <1> QED
    BY <1>2, <1>3, <1>4, <1>5 DEF DefaultNumberRoute, DefaultExtensionRoute

LEMMA FlowNodesAre ==
    RowsTyped => \A nodes \in Seq(Node) : \A o, n :
        FlowNodes(nodes, o, n) \in Seq(Node) /\ RemapNodes(nodes, o, n) \in Seq(Node)
  <1> SUFFICES ASSUME RowsTyped, NEW nodes \in Seq(Node), NEW o, NEW n
               PROVE  FlowNodes(nodes, o, n) \in Seq(Node) /\ RemapNodes(nodes, o, n) \in Seq(Node)
    OBVIOUS
  <1> DEFINE flow(x) == [y \in DOMAIN nodes[x].exts |-> FlowKey(nodes[x].exts[y], o, n)]
             remap(x) == [y \in DOMAIN nodes[x].exts |->
                            IF nodes[x].type = "ivr" /\ y > 1 THEN nodes[x].exts[y]
                            ELSE Remapped(nodes[x].exts[y], o, n)]
  <1>1. ASSUME NEW x \in DOMAIN nodes
        PROVE  nodes[x] \in Node /\ flow(x) \in Seq(Key) /\ remap(x) \in Seq(Key)
    <2>1. nodes[x] \in Node
      BY <1>1, ElementOfSeq, LenProperties
    <2>2. nodes[x].exts \in Seq(Key)
      BY <2>1, NodeParts
    <2>3. \A y \in DOMAIN nodes[x].exts : nodes[x].exts[y] \in Key
      BY <2>2, ElementOfSeq, LenProperties
    <2>4. flow(x) \in [DOMAIN nodes[x].exts -> Key] /\ remap(x) \in [DOMAIN nodes[x].exts -> Key]
      BY <2>3, MeansKey
    <2> HIDE DEF flow, remap
    <2> QED
      BY <2>1, <2>2, <2>4, SeqOver
  <1>2. FlowNodes(nodes, o, n) = [x \in DOMAIN nodes |-> [nodes[x] EXCEPT !.exts = flow(x)]]
    BY DEF FlowNodes
  <1>3. RemapNodes(nodes, o, n) = [x \in DOMAIN nodes |-> [nodes[x] EXCEPT !.exts = remap(x)]]
    BY DEF RemapNodes
  <1> HIDE DEF flow, remap
  <1>4. FlowNodes(nodes, o, n) \in [DOMAIN nodes -> Node] /\ RemapNodes(nodes, o, n) \in [DOMAIN nodes -> Node]
    BY <1>1, <1>2, <1>3, NodeParts
  <1> QED
    BY <1>4, SeqOver

----------------------------------------------------------------------------
(* The edits a request makes of flows.                                     *)

RouteRow == [owner : Accounts, nodes : Seq(Node)]
FlowRow  == [owner : Accounts, target : Key, nodes : Seq(Node)]
RoutesTyped(rs) == DOMAIN rs \subseteq Numbers /\ rs \in [DOMAIN rs -> RouteRow]
FlowsTyped(fs)  == \A f \in fs : f \in FlowRow
EditsTyped(es)  == DOMAIN es \subseteq Numbers /\ \A n \in DOMAIN es : es[n] \in Seq(Node)

LEMMA RoutesStored ==
    ASSUME NEW rs, RoutesTyped(rs), NEW o \in Accounts, NEW es, EditsTyped(es), NEW S \in SUBSET DOMAIN es,
           NEW n \in Numbers, NEW nodes \in Seq(Node)
    PROVE  RoutesTyped(StoredRoutes(rs, o, es, S)) /\ RoutesTyped(StoredRoute(rs, o, n, nodes))
  <1>1. \A x \in Seq(Node) : [owner |-> o, nodes |-> x] \in RouteRow
    BY DEF RouteRow
  <1>2. \A m \in DOMAIN rs : rs[m] \in RouteRow
    BY DEF RoutesTyped
  <1>3. RoutesTyped(StoredRoutes(rs, o, es, S))
    BY <1>1, <1>2 DEF RoutesTyped, EditsTyped, StoredRoutes
  <1>4. RoutesTyped(StoredRoute(rs, o, n, nodes))
    BY <1>1, <1>2 DEF RoutesTyped, StoredRoute, Put
  <1> QED
    BY <1>3, <1>4

LEMMA FlowsStored ==
    ASSUME NEW fs, FlowsTyped(fs), NEW o \in Accounts, NEW k \in Key, NEW nodes \in Seq(Node), NEW mail \in BOOLEAN
    PROVE  FlowsTyped(StoredFlow(fs, o, k, nodes)) /\ FlowsTyped(EnsureFlow(fs, o, k, mail))
  <1>1. \A x \in Seq(Node) : [owner |-> o, target |-> k, nodes |-> x] \in FlowRow
    BY DEF FlowRow
  <1>2. DefaultExtensionRoute(k, mail) \in Seq(Node)
    BY EmptySeq, DefaultRoutes
  <1>3. \A x \in Seq(Node) : FlowsTyped(StoredFlow(fs, o, k, x))
    BY <1>1 DEF FlowsTyped, StoredFlow
  <1> QED
    BY <1>2, <1>3 DEF EnsureFlow

LEMMA DevicesAre ==
    ASSUME RowsTyped, NEW o, NEW n
    PROVE  LineDevices(o, n) \in Seq(Key)
  <1> DEFINE S == {KeyOf(i) : i \in {j \in OnNumber(o, n) : exts[j].active}}
  <1>1. S \subseteq KeysOf(o)
    BY DEF OnNumber, KeysOf
  <1>2. S \subseteq Key /\ IsFiniteSet(S)
    BY <1>1, KeysOfAre, FS_Subset
  <1>3. LineDevices(o, n) = Sorted(S)
    BY DEF LineDevices
  <1> HIDE DEF S
  <1> QED
    BY <1>2, <1>3, SortedIs

LEMMA SyncIs ==
    ASSUME RowsTyped, NEW rs, RoutesTyped(rs), NEW o \in Accounts, NEW k \in Key
    PROVE  EditsTyped(SyncPrimary(rs, o, k))
  <1> DEFINE line    == IF k.line # 0 THEN k.line ELSE PrimaryNumber(o)
             ks      == LineDevices(o, line)
             extends == {n \in {line} \cap DOMAIN rs : /\ rs[n].owner = o
                                                       /\ Len(ks) >= 2 /\ Contains(ks, k)
                                                       /\ Generated(rs[n].nodes, ks)}
             mailbox == OfType(rs[line].nodes, {"voicemail"})
             box     == IF mailbox = <<>> THEN <<>> ELSE mailbox[1].exts
             nodes   == DefaultNumberRoute(ks, box)
  <1>1. SyncPrimary(rs, o, k) = [n \in extends |-> FlowNodes(nodes, o, n)]
    BY DEF SyncPrimary
  <1>2. extends \subseteq DOMAIN rs /\ DOMAIN rs \subseteq Numbers /\ (extends # {} => line \in DOMAIN rs)
    BY DEF RoutesTyped
  <1>3. ASSUME line \in DOMAIN rs PROVE \A n : FlowNodes(nodes, o, n) \in Seq(Node)
    <2>1. rs[line].nodes \in Seq(Node)
      BY <1>3 DEF RoutesTyped, RouteRow
    <2>2. mailbox \in Seq(Node)
      BY <2>1, NodesPicked
    <2>3. mailbox # <<>> => mailbox[1] \in Node
      BY <2>2, SetOfSeq
    <2>4. box \in Seq(Key)
      BY <2>3, NodeParts, EmptySeq
    <2>5. ks \in Seq(Key)
      BY DevicesAre
    <2> HIDE DEF box, ks
    <2>6. nodes \in Seq(Node)
      BY <2>4, <2>5, DefaultRoutes
    <2> HIDE DEF nodes
    <2> QED
      BY <2>6, FlowNodesAre
  <1> HIDE DEF extends, nodes, line
  <1> QED
    BY <1>1, <1>2, <1>3 DEF EditsTyped

LEMMA AutoIvrIs ==
    ASSUME RowsTyped, NEW rs, RoutesTyped(rs), NEW o, NEW above
    PROVE  EditsTyped(AutoIvr(rs, o, above))
  <1> DEFINE many == Cardinality({i \in Listed(o) : exts[i].active}) > above
             bare == {n \in DOMAIN rs : many /\ rs[n].owner = o /\ OfType(rs[n].nodes, {"ivr"}) = <<>>}
             nodes(n) == OfType(rs[n].nodes, {"hours"}) \o <<Step("ivr", <<NoKey>>)>>
                      \o OfType(rs[n].nodes, Ringing \cup {"voicemail", "forward"})
  <1>1. AutoIvr(rs, o, above) = [n \in bare |-> FlowNodes(nodes(n), o, n)]
    BY DEF AutoIvr
  <1>2. bare \subseteq DOMAIN rs /\ DOMAIN rs \subseteq Numbers
    BY DEF RoutesTyped
  <1>3. ASSUME NEW n \in DOMAIN rs PROVE FlowNodes(nodes(n), o, n) \in Seq(Node)
    <2>1. rs[n].nodes \in Seq(Node)
      BY <1>3 DEF RoutesTyped, RouteRow
    <2>2. OfType(rs[n].nodes, {"hours"}) \in Seq(Node) /\ OfType(rs[n].nodes, Ringing \cup {"voicemail", "forward"}) \in Seq(Node)
      BY <2>1, NodesPicked
    <2>3. <<NoKey>> \in Seq(Key)
      BY DEF NoKey, Key
    <2>4. <<Step("ivr", <<NoKey>>)>> \in Seq(Node)
      <3>1. Step("ivr", <<NoKey>>) \in Node
        BY <2>3, StepIs, Zenon
      <3> QED
        BY <3>1
    <2>5. nodes(n) \in Seq(Node)
      BY <2>2, <2>4, ConcatProperties
    <2> HIDE DEF nodes
    <2> QED
      BY <2>5, FlowNodesAre
  <1> HIDE DEF bare, nodes
  <1> QED
    BY <1>1, <1>2, <1>3 DEF EditsTyped

LEMMA RingSourcesIs ==
    ASSUME RowsTyped, NEW rs, RoutesTyped(rs), NEW o, NEW k \in Key, NEW chosen
    PROVE  EditsTyped(RingSources(rs, o, k, chosen))
  <1> DEFINE mine    == {n \in ListedNumbers(o) : numbers[n].active}
             Old(n)  == IF n \in DOMAIN rs /\ rs[n].owner = o THEN rs[n].nodes
                        ELSE DefaultNumberRoute(IF numbers[n].link = NoKey THEN <<>> ELSE <<numbers[n].link>>, <<>>)
             RingsIt(x)   == x.type \in Ringing /\ Contains(x.exts, k)
             Spared(x)  == IF ~RingsIt(x) THEN x
                           ELSE [x EXCEPT !.type = "ring", !.exts = Without(@, k),
                                          !.on = @ /\ Without(x.exts, k) # <<>>]
             Ending(s)  == {x \in DOMAIN s : s[x].type \in {"voicemail", "forward"}}
             End(s)  == IF Ending(s) = {} THEN Len(s) + 1 ELSE Min(Ending(s))
             New(n)  == IF n \notin chosen THEN [x \in DOMAIN Old(n) |-> Spared(Old(n)[x])]
                        ELSE IF \E x \in DOMAIN Old(n) : RingsIt(Old(n)[x]) /\ Old(n)[x].on THEN Old(n)
                        ELSE InsertAt(Old(n), End(Old(n)), Step("ring", <<k>>))
             changed == {n \in mine : New(n) # Old(n)}
  <1>1. RingSources(rs, o, k, chosen) = [n \in changed |-> New(n)]
    BY DEF RingSources
  <1>2. changed \subseteq mine /\ mine \subseteq DOMAIN numbers /\ DOMAIN numbers \subseteq Numbers
    BY DEF ListedNumbers, RowsTyped
  <1>3. ASSUME NEW n \in DOMAIN numbers PROVE Old(n) \in Seq(Node)
    <2>1. n \in DOMAIN rs => rs[n].nodes \in Seq(Node)
      BY DEF RoutesTyped, RouteRow
    <2>2. numbers[n].link \in Key
      BY <1>3 DEF RowsTyped, Line
    <2>3. (IF numbers[n].link = NoKey THEN <<>> ELSE <<numbers[n].link>>) \in Seq(Key) /\ <<>> \in Seq(Key)
      BY <2>2
    <2> QED
      BY <2>1, <2>3, DefaultRoutes
  <1>4. ASSUME NEW x \in Node PROVE Spared(x) \in Node
    <2>1. Without(x.exts, k) \in Seq(Key)
      BY WithoutIs, NodeParts
    <2> QED
      BY <2>1 DEF Node
  <1>5. ASSUME NEW s \in Seq(Node) PROVE InsertAt(s, End(s), Step("ring", <<k>>)) \in Seq(Node)
    <2>1. DOMAIN s = 1..Len(s) /\ Len(s) \in Nat
      BY LenProperties
    <2>2. Ending(s) \subseteq Nat /\ Ending(s) \subseteq 1..Len(s)
      BY <2>1
    <2>3. End(s) \in 1..Len(s) + 1
      <3>1. Ending(s) # {} => Min(Ending(s)) \in Ending(s)
        BY <2>2, MinIn
      <3> HIDE DEF Ending
      <3> QED
        BY <2>1, <2>2, <3>1
    <2>4. Step("ring", <<k>>) \in Node
      <3>1. <<k>> \in Seq(Key)
        OBVIOUS
      <3> QED
        BY <3>1, StepIs, Zenon
    <2> HIDE DEF End
    <2>5. SubSeq(s, 1, End(s) - 1) \in Seq(Node) /\ SubSeq(s, End(s), Len(s)) \in Seq(Node)
      BY <2>1, <2>3, SeqPart
    <2> QED
      BY <2>4, <2>5, ConcatProperties DEF InsertAt
  <1>6. ASSUME NEW n \in DOMAIN numbers PROVE New(n) \in Seq(Node)
    <2>1. Old(n) \in Seq(Node)
      BY <1>3
    <2> HIDE DEF Old, Spared, End
    <2>2. \A x \in DOMAIN Old(n) : Old(n)[x] \in Node
      BY <2>1, ElementOfSeq, LenProperties
    <2>3. [x \in DOMAIN Old(n) |-> Spared(Old(n)[x])] \in [DOMAIN Old(n) -> Node]
      BY <1>4, <2>2
    <2>4. [x \in DOMAIN Old(n) |-> Spared(Old(n)[x])] \in Seq(Node)
      BY <2>1, <2>3, SeqOver
    <2>5. InsertAt(Old(n), End(Old(n)), Step("ring", <<k>>)) \in Seq(Node)
      BY <1>5, <2>1
    <2> QED
      BY <2>1, <2>4, <2>5
  <1> HIDE DEF New, mine
  <1> QED
    BY <1>1, <1>2, <1>6 DEF EditsTyped

----------------------------------------------------------------------------
(* What is in the tables and in the threads' hands.                        *)

DeviceRow == [owner : Accounts, number : Numbers \cup {0}, ext : Key]
Document  == [Accounts -> [outbound : Key, fallback : Key]]
TablesTyped ==
    /\ RowsTyped /\ OneDeviceEach
    /\ RoutesTyped(routes) /\ FlowsTyped(flows)
    /\ groups \in [Accounts -> Seq(Key)]
    /\ devices \subseteq DeviceRow
    /\ defaults \in Document

\* What is left to do of a request, while top numbers have been inserted.
WriteExtensionJob(top) ==
    [op : {"write extension"}, o : Owner, d : Digits, n : Numbers \cup {0}, re : BOOLEAN,
     sw : [active : BOOLEAN, mail : BOOLEAN], id : Nat, line : 0..top, prov : BOOLEAN]
ExtensionFlowsJob ==
    [op : {"extension flows"}, key : [digits : Digits, line : Numbers \cup {0}], o : Owner,
     joins : BOOLEAN, mail : BOOLEAN, next : {"link", "menus", "end"}]
WriteNumberJob ==
    [op : {"write number"}, n : Numbers, o : Owner, d : Digits \cup {0}, dflt : BOOLEAN, active : BOOLEAN,
     prov : {"no", "auto", "link"}, link : Key, claim : Nat]
MoveJob ==
    [op : {"claim", "adopt"}, n : Numbers, o : Owner, d : Digits \cup {0}, claim : Nat, prov : {"no", "auto", "link"}]
ProvisionJob ==
    [op : {"provision default", "provision route", "provision desk"}, n : Numbers, o : Accounts, d : Digits]
TakeDownJob == [op : {"take down"}, n : Numbers, left : SUBSET Nat, key : UNION {[S -> Key] : S \in SUBSET Nat}]
\* Whoever is to be provisioned for is a customer, by known digits.
ForCustomer(j) == (j.prov # "no" => j.o \in Accounts) /\ (j.prov = "link" => j.d \in Digits)
JobTyped(j, top) ==
    /\ j.op \in Job
    /\ j.op = "write extension" => j \in WriteExtensionJob(top) /\ (j.prov => j.o \in Accounts /\ j.n \in Numbers)
    /\ j.op = "extension flows" => /\ j \in ExtensionFlowsJob
                                   /\ j.joins \/ j.next # "end" => j.o \in Accounts
                                   /\ j.next = "link" => j.key.line \in Numbers
    /\ j.op = "write number" => j \in WriteNumberJob /\ ForCustomer(j)
    /\ j.op \in {"claim", "adopt"} => j \in MoveJob /\ ForCustomer(j)
    /\ j.op = "take down" => j \in TakeDownJob /\ \A i \in j.left : j.key[i] \in Key
    /\ j.op = "drop extension" => j.key \in Key
    /\ j.op = "menus" => j.o \in Accounts
    /\ j.op = "link" => j.n \in Numbers /\ j.o \in Accounts /\ j.d \in Digits
    /\ j.op = "provision" => j.n \in Numbers /\ j.o \in Accounts
    /\ j.op \in {"provision default", "provision route", "provision desk"} => j \in ProvisionJob
    /\ j.op = "write defaults" => j.doc \in Document
JobsTyped   == DOMAIN jobs = Threads /\ \A w \in Threads : JobTyped(jobs[w], made.lines)
ServedTyped == asked \in 0..MaxRequests /\ answer.ok \in BOOLEAN /\ crossed \in BOOLEAN
LinesTyped  == TablesTyped /\ JobsTyped /\ ServedTyped

LEMMA TypedIsTypeOK == LinesTyped => TypeOK
  BY DEF LinesTyped, TablesTyped, JobsTyped, ServedTyped, JobTyped, RowsTyped, RoutesTyped, FlowsTyped, Row, Line,
         RouteRow, FlowRow, DeviceRow, Document, TypeOK

LEMMA LongerTable ==
    ASSUME NEW j, NEW a \in Nat, NEW b \in Nat, a <= b, JobTyped(j, a)
    PROVE  JobTyped(j, b)
  <1>1. \A x \in 0..a : x \in 0..b
    OBVIOUS
  <1>2. WriteExtensionJob(a) \subseteq WriteExtensionJob(b)
    BY <1>1 DEF WriteExtensionJob
  <1> QED
    BY <1>2 DEF JobTyped

LEMMA JobGoes ==
    ASSUME JobsTyped, NEW w \in Threads, NEW j, Goes(w, j),
           made.lines \in Nat, made'.lines \in Nat, made.lines <= made'.lines, JobTyped(j, made'.lines)
    PROVE  JobsTyped'
  <1>1. DOMAIN jobs = Threads /\ jobs' = [jobs EXCEPT ![w] = j]
    BY DEF JobsTyped, Goes
  <1>2. \A v \in Threads : JobTyped(jobs[v], made'.lines)
    BY LongerTable DEF JobsTyped
  <1>3. \A v \in Threads : jobs'[v] = j \/ jobs'[v] = jobs[v]
    BY <1>1
  <1>4. \A v \in Threads : JobTyped(jobs'[v], made'.lines)
    BY <1>2, <1>3
  <1> QED
    BY <1>1, <1>4 DEF JobsTyped

LEMMA AskedTypes ==
    ASSUME ServedTyped, NEW w \in Threads, NEW r, Ask(w, r)
    PROVE  ServedTyped'
  <1>1. MaxRequests \in Nat /\ MaxCrossing \in 0..MaxRequests
    BY LinesAssumption DEF LinesAssumption
  <1>2. crossed' \in BOOLEAN
    BY DEF Ask, ServedTyped
  <1>3. asked < MaxCrossing \/ asked < MaxRequests
    BY DEF Ask
  <1> QED
    BY <1>1, <1>2, <1>3 DEF Ask, ServedTyped, Silent

LEMMA Answered ==
    ASSUME ServedTyped, NEW w \in Threads, NEW j, NEW ok \in BOOLEAN, NEW n,
           Then(w, j) \/ Provides(w, j, n) \/ Ends(w, ok)
    PROVE  ServedTyped'
  <1>1. asked' = asked /\ crossed' = crossed
    BY DEF Then, Provides, Ends
  <1>2. \E b \in BOOLEAN : \E x : answer' = [ok |-> b, line |-> x]
    <2>1. CASE Then(w, j)
      BY <2>1 DEF Then, Silent
    <2>2. CASE Provides(w, j, n)
      BY <2>2 DEF Provides
    <2>3. CASE Ends(w, ok)
      BY <2>3 DEF Ends
    <2> QED
      BY <2>1, <2>2, <2>3
  <1> QED
    BY <1>1, <1>2 DEF ServedTyped

LEMMA TablesStay ==
    ASSUME TablesTyped, UNCHANGED tables
    PROVE  TablesTyped' /\ made' = made
  BY DEF TablesTyped, RowsTyped, OneDeviceEach, RoutesTyped, FlowsTyped, Row, Line, tables

----------------------------------------------------------------------------
(* Requests that only decide what is to be done.                           *)

LEMMA TypedParts ==
    ASSUME LinesTyped
    PROVE  /\ TablesTyped /\ RowsTyped /\ RoutesTyped(routes) /\ FlowsTyped(flows) /\ JobsTyped /\ ServedTyped
           /\ made.lines \in Nat /\ made.exts \in Nat
           /\ \A w \in Threads : JobTyped(jobs[w], made.lines)
           /\ \A n \in DOMAIN numbers : n \in Numbers /\ numbers[n] \in Line
           /\ \A i \in DOMAIN exts : i \in Nat /\ i \in 1..made.exts /\ exts[i] \in Row
  <1>1. TablesTyped /\ RowsTyped /\ RoutesTyped(routes) /\ FlowsTyped(flows) /\ JobsTyped /\ ServedTyped
    BY DEF LinesTyped, TablesTyped
  <1>2. made.lines \in Nat /\ made.exts \in Nat
    BY <1>1, SmallNumbers DEF RowsTyped
  <1> QED
    BY <1>1, <1>2 DEF JobsTyped, RowsTyped

\* A step that leaves the tables as they are, and goes on with a typed job.
LEMMA OnlyDecides ==
    ASSUME LinesTyped, UNCHANGED tables, NEW w \in Threads, NEW j, Goes(w, j), JobTyped(j, made.lines), ServedTyped'
    PROVE  LinesTyped'
  <1>1. TablesTyped' /\ made' = made
    BY TypedParts, TablesStay
  <1>2. JobsTyped'
    BY <1>1, TypedParts, JobGoes
  <1> QED
    BY <1>1, <1>2 DEF LinesTyped

LEMMA IdleTyped == \A top : JobTyped(Idle, top)
  BY DEF JobTyped, Idle, Job

LEMMA SwitchesAre == \A sw \in Switches : sw \in [active : BOOLEAN, mail : BOOLEAN]
  <1> SUFFICES ASSUME NEW sw \in Switches PROVE sw \in [active : BOOLEAN, mail : BOOLEAN]
    OBVIOUS
  <1>1. CASE sw = [active |-> TRUE, mail |-> TRUE]
    BY <1>1
  <1>2. CASE sw = [active |-> FALSE, mail |-> FALSE]
    BY <1>2
  <1> QED
    BY <1>1, <1>2 DEF Switches

LEMMA ExistingIs ==
    ASSUME LinesTyped
    PROVE  \A o, d, n, re : Existing(o, d, n, re) \in Nat
  <1> SUFFICES ASSUME NEW o, NEW d, NEW n, NEW re PROVE Existing(o, d, n, re) \in Nat
    OBVIOUS
  <1> DEFINE held == {i \in WithDigits(d, 0) : LineOf(i) = 0 /\ exts[i].owner # o}
  <1>1. \A i \in DOMAIN exts : i \in Nat
    BY TypedParts
  <1>2. WithDigits(d, o) \subseteq DOMAIN exts /\ held \subseteq DOMAIN exts /\ OnNumber(o, n) \subseteq DOMAIN exts
    BY DEF WithDigits, OnNumber, Listed
  <1>3. held \subseteq Nat
    BY <1>1, <1>2
  <1>4. held # {} => Min(held) \in Nat
    BY <1>3, MinIn
  <1>5. ResolveExtension(n, d, o) \in Nat
    BY <1>1, <1>2, TypedParts, ResolvesTo
  <1>6. Only(WithDigits(d, o)) \in Nat
    BY <1>1, <1>2, OnlyIs
  <1> QED
    BY <1>4, <1>5, <1>6 DEF Existing

LEMMA WriteJobTyped ==
    ASSUME LinesTyped, NEW o \in Owner, NEW d \in Digits, NEW n \in Numbers \cup {0}, NEW re \in BOOLEAN,
           NEW sw \in [active : BOOLEAN, mail : BOOLEAN], NEW prov \in BOOLEAN,
           n = 0 \/ n \in DOMAIN numbers, prov => o \in Accounts /\ n \in Numbers
    PROVE  JobTyped(WriteJob(o, d, n, re, sw, prov), made.lines)
  <1>1. (IF n = 0 THEN 0 ELSE numbers[n].id) \in 0..made.lines
    BY TypedParts DEF Line
  <1>2. Existing(o, d, n, re) \in Nat
    BY ExistingIs
  <1>3. WriteJob(o, d, n, re, sw, prov) \in WriteExtensionJob(made.lines)
    BY <1>1, <1>2 DEF WriteJob, WriteExtensionJob
  <1>4. /\ WriteJob(o, d, n, re, sw, prov).op = "write extension"
        /\ WriteJob(o, d, n, re, sw, prov).prov = prov
        /\ WriteJob(o, d, n, re, sw, prov).o = o /\ WriteJob(o, d, n, re, sw, prov).n = n
    BY DEF WriteJob
  <1> HIDE DEF WriteJob
  <1> QED
    BY <1>3, <1>4 DEF JobTyped, Job

LEMMA SaveExtensionTypes ==
    ASSUME LinesTyped, NEW w \in Threads, SaveExtension(w)
    PROVE  LinesTyped'
  <1>1. PICK o \in Owner, d \in Digits, n \in Numbers \cup {0}, re \in BOOLEAN, sw \in Switches :
          LET known == ExtensionKeyForDigits(d, o).line
              m     == IF n = 0 THEN known ELSE n
          IN  /\ MayName(o, d, m, re)
              /\ Goes(w, WriteJob(o, d, m, re, sw, FALSE)) /\ UNCHANGED tables
    BY DEF SaveExtension
  <1> DEFINE m == IF n = 0 THEN ExtensionKeyForDigits(d, o).line ELSE n
  <1>2. MayName(o, d, m, re) /\ Goes(w, WriteJob(o, d, m, re, sw, FALSE)) /\ UNCHANGED tables
    BY <1>1
  <1>3. ExtensionKeyForDigits(d, o) \in Key
    <2>1. NoKey \in Key
      BY DEF NoKey, Key
    <2> QED
      BY <2>1, TypedParts, KeyForIs, KeysOfAre
  <1>4. m \in Numbers \cup {0}
    BY <1>3, KeyParts
  <1> HIDE DEF m
  <1>5. m = 0 \/ m \in DOMAIN numbers
    BY <1>2 DEF MayName
  <1>6. JobTyped(WriteJob(o, d, m, re, sw, FALSE), made.lines)
    BY <1>4, <1>5, SwitchesAre, WriteJobTyped
  <1>7. ServedTyped'
    BY TypedParts, AskedTypes DEF SaveExtension
  <1> QED
    BY <1>2, <1>6, <1>7, OnlyDecides

LEMMA AddExtensionTypes ==
    ASSUME LinesTyped, NEW w \in Threads, AddExtension(w)
    PROVE  LinesTyped'
  <1> DEFINE sw == [active |-> TRUE, mail |-> FALSE]
  <1>1. PICK n \in DOMAIN numbers, d \in Digits :
          Goes(w, WriteJob(numbers[n].owner, d, n, FALSE, sw, FALSE)) /\ UNCHANGED tables
    BY DEF AddExtension
  <1>2. n \in Numbers /\ numbers[n].owner \in Owner
    BY TypedParts DEF Line
  <1>3. sw \in [active : BOOLEAN, mail : BOOLEAN]
    OBVIOUS
  <1> HIDE DEF sw
  <1>4. JobTyped(WriteJob(numbers[n].owner, d, n, FALSE, sw, FALSE), made.lines)
    BY <1>2, <1>3, WriteJobTyped
  <1>5. ServedTyped'
    BY TypedParts, AskedTypes DEF AddExtension
  <1> QED
    BY <1>1, <1>4, <1>5, OnlyDecides

LEMMA DeleteExtensionTypes ==
    ASSUME LinesTyped, NEW w \in Threads, DeleteExtension(w)
    PROVE  LinesTyped'
  <1>1. PICK o \in Owner, d \in Digits, n \in Numbers \cup {0} :
          LET k == ResolveRequested([digits |-> d, line |-> n], o)
          IN  k # NoKey /\ Goes(w, [op |-> "drop extension", id |-> ExtensionRow(k), key |-> k]) /\ UNCHANGED tables
    BY DEF DeleteExtension
  <1> DEFINE k == ResolveRequested([digits |-> d, line |-> n], o)
             j == [op |-> "drop extension", id |-> ExtensionRow(k), key |-> k]
  <1>2. k \in Key
    BY <1>1, TypedParts, RequestedIs, KeysOfAre
  <1>3. JobTyped(j, made.lines)
    <2> HIDE DEF k
    <2> QED
      BY <1>2 DEF JobTyped, Job
  <1>4. Goes(w, j) /\ UNCHANGED tables
    BY <1>1
  <1>5. ServedTyped'
    BY TypedParts, AskedTypes DEF DeleteExtension
  <1> QED
    BY <1>3, <1>4, <1>5, OnlyDecides

LEMMA LinkedIs ==
    ASSUME LinesTyped
    PROVE  \A n, o, d : Linked(n, o, d) = 0 \/ Linked(n, o, d) \in DOMAIN exts
  <1> SUFFICES ASSUME NEW n, NEW o, NEW d PROVE Linked(n, o, d) = 0 \/ Linked(n, o, d) \in DOMAIN exts
    OBVIOUS
  <1> DEFINE bare == {i \in WithDigits(d, o) : LineOf(i) = 0 /\ exts[i].active /\ (o # 0 \/ exts[i].owner = 0)}
  <1>1. bare \subseteq DOMAIN exts /\ OnNumber(o, n) \subseteq DOMAIN exts
    BY DEF WithDigits, OnNumber, Listed
  <1>2. Only(bare) = 0 \/ Only(bare) \in bare
    BY OnlyIs
  <1>3. ResolveExtension(n, d, o) = 0 \/ ResolveExtension(n, d, o) \in DOMAIN exts
    BY <1>1, TypedParts, ResolvesTo
  <1>4. Linked(n, o, d) = IF ResolveExtension(n, d, o) # 0 THEN ResolveExtension(n, d, o) ELSE Only(bare)
    BY DEF Linked
  <1> HIDE DEF bare
  <1> QED
    BY <1>1, <1>2, <1>3, <1>4

LEMMA NumberJobTyped ==
    ASSUME LinesTyped, NEW n \in Numbers, NEW o \in Owner, NEW d \in Digits \cup {0}, NEW dflt \in BOOLEAN,
           NEW active \in BOOLEAN, NEW prov \in {"no", "auto", "link"}, prov # "no" => o \in Accounts,
           prov = "link" => d \in Digits
    PROVE  JobTyped(NumberJob(n, o, d, dflt, active, prov), made.lines)
  <1> DEFINE i    == Linked(n, o, d)
             link == CASE d = 0 -> NoKey [] d # 0 /\ i # 0 -> KeyOf(i) [] OTHER -> [digits |-> d, line |-> n]
             claim == IF d # 0 /\ i # 0 /\ LineOf(i) = 0 THEN i ELSE 0
  <1>1. i = 0 \/ (i \in DOMAIN exts /\ KeyOf(i) \in Key)
    BY LinkedIs, TypedParts, KeyOfIs
  <1>2. link \in Key
    <2>1. NoKey \in Key /\ [digits |-> d, line |-> n] \in Key
      BY DEF NoKey, Key
    <2> HIDE DEF i
    <2> QED
      BY <1>1, <2>1
  <1>3. claim \in Nat
    BY <1>1, TypedParts
  <1>4. NumberJob(n, o, d, dflt, active, prov) =
          [op |-> "write number", n |-> n, o |-> o, d |-> d, dflt |-> dflt, active |-> active, prov |-> prov,
           link |-> link, claim |-> claim]
    BY DEF NumberJob
  <1> HIDE DEF link, claim
  <1>5. SUFFICES ASSUME NEW lk \in Key, NEW c \in Nat
                 PROVE  JobTyped([op |-> "write number", n |-> n, o |-> o, d |-> d, dflt |-> dflt, active |-> active,
                                  prov |-> prov, link |-> lk, claim |-> c], made.lines)
    BY <1>2, <1>3, <1>4
  <1> DEFINE j == [op |-> "write number", n |-> n, o |-> o, d |-> d, dflt |-> dflt, active |-> active,
                   prov |-> prov, link |-> lk, claim |-> c]
  <1>6. j \in WriteNumberJob
    BY DEF WriteNumberJob
  <1>7. j.op = "write number" /\ j.prov = prov /\ j.o = o /\ j.d = d
    OBVIOUS
  <1> HIDE DEF j
  <1>8. JobTyped(j, made.lines)
    BY <1>6, <1>7 DEF JobTyped, Job, ForCustomer
  <1> QED
    BY <1>8 DEF j

LEMMA SaveNumberTypes ==
    ASSUME LinesTyped, NEW w \in Threads, SaveNumber(w)
    PROVE  LinesTyped'
  <1>1. PICK n \in Numbers, o \in Owner, d \in Digits \cup {0}, dflt \in BOOLEAN, prov \in {"no", "auto"} :
          /\ prov = "auto" => o # 0 /\ d = 0
          /\ Goes(w, NumberJob(n, o, d, dflt, TRUE, prov)) /\ UNCHANGED tables
    BY DEF SaveNumber
  <1>2. prov \in {"no", "auto", "link"} /\ (prov # "no" => o \in Accounts) /\ prov # "link"
    BY <1>1 DEF Owner
  <1>3. JobTyped(NumberJob(n, o, d, dflt, TRUE, prov), made.lines)
    BY <1>2, NumberJobTyped
  <1>4. ServedTyped'
    BY TypedParts, AskedTypes DEF SaveNumber
  <1> QED
    BY <1>1, <1>3, <1>4, OnlyDecides

LEMMA SetDefaultsTypes ==
    ASSUME LinesTyped, NEW w \in Threads, SetDefaults(w)
    PROVE  LinesTyped'
  <1>0. PICK o \in Accounts : \E out, fall \in ActiveKeys(o) \cup {NoKey} :
          /\ Goes(w, [op |-> "write defaults", o |-> o,
                      doc |-> [defaults EXCEPT ![o] = [outbound |-> out, fallback |-> fall]]])
          /\ UNCHANGED tables
    BY DEF SetDefaults
  <1>1. PICK out \in ActiveKeys(o) \cup {NoKey}, fall \in ActiveKeys(o) \cup {NoKey} :
          /\ Goes(w, [op |-> "write defaults", o |-> o,
                      doc |-> [defaults EXCEPT ![o] = [outbound |-> out, fallback |-> fall]]])
          /\ UNCHANGED tables
    BY <1>0
  <1>2. out \in Key /\ fall \in Key
    <2>1. NoKey \in Key
      BY DEF NoKey, Key
    <2> QED
      BY <2>1, TypedParts, KeysOfAre
  <1>3. [defaults EXCEPT ![o] = [outbound |-> out, fallback |-> fall]] \in Document
    BY <1>2, TypedParts DEF TablesTyped, Document
  <1>4. JobTyped([op |-> "write defaults", o |-> o,
                  doc |-> [defaults EXCEPT ![o] = [outbound |-> out, fallback |-> fall]]], made.lines)
    BY <1>3 DEF JobTyped, Job
  <1>5. ServedTyped'
    BY TypedParts, AskedTypes DEF SetDefaults
  <1> QED
    BY <1>1, <1>4, <1>5, OnlyDecides

LEMMA FreeDigitsIs ==
    ASSUME NEW n, FreeDigits(n) # 0
    PROVE  FreeDigits(n) \in Digits /\ \A i \in OnNumber(0, n) : exts[i].digits # FreeDigits(n)
  <1> DEFINE taken == {exts[i].digits : i \in OnNumber(0, n)}
  <1>1. ~(Digits \subseteq taken) /\ FreeDigits(n) = Min(Digits \ taken)
    BY DEF FreeDigits
  <1>2. Digits \ taken # {} /\ Digits \ taken \subseteq Nat
    BY <1>1, SmallNumbers
  <1>3. Min(Digits \ taken) \in Digits \ taken
    BY <1>2, MinIn
  <1> QED
    BY <1>1, <1>3

LEMMA ProvisionTypes ==
    ASSUME LinesTyped, NEW w \in Threads, Provision(w)
    PROVE  LinesTyped'
  <1> DEFINE j  == jobs[w]
             sw == [active |-> TRUE, mail |-> FALSE]
             go == j.n \in ListedNumbers(j.o) /\ numbers[j.n].link = NoKey /\ FreeDigits(j.n) # 0
  <1>0. sw \in [active : BOOLEAN, mail : BOOLEAN] /\ UNCHANGED tables
    BY DEF Provision
  <1>1. j.n \in Numbers /\ j.o \in Accounts /\ j.o \in Owner
    BY TypedParts DEF Provision, JobTyped, Owner
  <1>2. CASE go
    <2>1. Then(w, WriteJob(j.o, FreeDigits(j.n), j.n, FALSE, sw, TRUE))
      BY <1>2 DEF Provision
    <2>2. FreeDigits(j.n) \in Digits /\ j.n \in DOMAIN numbers
      BY <1>2, FreeDigitsIs DEF ListedNumbers
    <2> HIDE DEF sw
    <2>3. JobTyped(WriteJob(j.o, FreeDigits(j.n), j.n, FALSE, sw, TRUE), made.lines)
      BY <1>0, <1>1, <2>2, WriteJobTyped
    <2>4. ServedTyped'
      BY <2>1, TypedParts, Answered
    <2>5. Goes(w, WriteJob(j.o, FreeDigits(j.n), j.n, FALSE, sw, TRUE))
      BY <2>1 DEF Then
    <2> QED
      BY <1>0, <2>3, <2>4, <2>5, OnlyDecides
  <1>3. CASE ~go
    <2>1. Ends(w, FALSE)
      BY <1>3 DEF Provision
    <2>2. ServedTyped'
      BY <2>1, TypedParts, Answered
    <2>3. Goes(w, Idle)
      BY <2>1 DEF Ends
    <2> QED
      BY <1>0, <2>2, <2>3, IdleTyped, OnlyDecides
  <1> QED
    BY <1>2, <1>3

LEMMA ProvisionLinkTypes ==
    ASSUME LinesTyped, NEW w \in Threads, ProvisionLink(w)
    PROVE  LinesTyped'
  <1> DEFINE j    == jobs[w]
             next == NumberJob(j.n, j.o, j.d, FALSE, TRUE, "link")
  <1>0. UNCHANGED tables
    BY DEF ProvisionLink
  <1>1. j.n \in Numbers /\ j.o \in Accounts /\ j.o \in Owner /\ j.d \in Digits /\ j.d \in Digits \cup {0}
    BY TypedParts DEF ProvisionLink, JobTyped, Owner
  <1>2. JobTyped(next, made.lines)
    BY <1>1, NumberJobTyped
  <1>3. Then(w, next) \/ Ends(w, FALSE)
    BY DEF ProvisionLink
  <1> HIDE DEF next
  <1>4. ServedTyped'
    BY <1>3, TypedParts, Answered
  <1>5. Goes(w, next) \/ Goes(w, Idle)
    BY <1>3 DEF Then, Ends
  <1> QED
    BY <1>0, <1>2, <1>4, <1>5, IdleTyped, OnlyDecides

----------------------------------------------------------------------------
(* Rows written, moved and released.                                       *)

\* Numbers stay as they are, and extensions are of their type still.
LEMMA RowsNext ==
    ASSUME RowsTyped, numbers' = numbers, made' \in [exts : 0..MaxRows, lines : {made.lines}],
           DOMAIN exts' \subseteq 1..made'.exts, exts' \in [DOMAIN exts' -> Row]
    PROVE  RowsTyped'
  <1>1. made'.lines = made.lines /\ made' \in [exts : 0..MaxRows, lines : 0..MaxLines]
    BY DEF RowsTyped
  <1>2. Row' = Row /\ Line' = Line
    BY <1>1 DEF Row, Line
  <1> QED
    BY <1>1, <1>2 DEF RowsTyped

\* What of the tables a step leaves alone stays typed.
LEMMA RestStays ==
    ASSUME TablesTyped
    PROVE  /\ routes' = routes => RoutesTyped(routes)'
           /\ flows' = flows => FlowsTyped(flows)'
           /\ groups' = groups => groups' \in [Accounts -> Seq(Key)]
           /\ devices' = devices => devices' \subseteq DeviceRow
           /\ defaults' = defaults => defaults' \in Document
           /\ exts' = exts => OneDeviceEach'
           /\ exts' = exts /\ numbers' = numbers /\ made' = made => RowsTyped'
  BY DEF TablesTyped, RoutesTyped, FlowsTyped, OneDeviceEach, RowsTyped, Row, Line, RouteRow, FlowRow, DeviceRow

LEMMA WriteExtensionTypes ==
    ASSUME LinesTyped, NEW w \in Threads, WriteExtension(w)
    PROVE  LinesTyped'
  <1> DEFINE j       == jobs[w]
             created == j.id \notin DOMAIN exts
             i       == IF created THEN made.exts + 1 ELSE j.id
             owner   == IF j.o # 0 \/ created \/ j.re THEN j.o ELSE exts[i].owner
             row     == [digits |-> j.d, line |-> j.line, owner |-> owner,
                         active |-> j.sw.active, mail |-> j.sw.mail]
             next    == CASE j.prov -> "link" [] ~j.prov /\ j.id = 0 /\ owner # 0 -> "menus" [] OTHER -> "end"
             then    == [op |-> "extension flows", key |-> [digits |-> j.d, line |-> j.n], o |-> owner,
                         joins |-> created /\ owner # 0 /\ row.active, mail |-> row.mail, next |-> next]
  <1>1. /\ j \in WriteExtensionJob(made.lines) /\ (j.prov => j.o \in Accounts /\ j.n \in Numbers)
        /\ made \in [exts : 0..MaxRows, lines : 0..MaxLines]
    BY TypedParts DEF WriteExtension, JobTyped, RowsTyped
  <1>2. CASE UNCHANGED tables /\ Ends(w, FALSE)
    <2>1. Goes(w, Idle) /\ ServedTyped'
      BY <1>2, TypedParts, Answered DEF Ends
    <2> QED
      BY <1>2, <2>1, IdleTyped, OnlyDecides
  <1>3. CASE /\ UniqueRow(i, j.d, j.line, owner)
             /\ i <= MaxRows
             /\ exts' = Put(exts, i, row)
             /\ made' = [made EXCEPT !.exts = IF created THEN i ELSE @]
             /\ Then(w, then)
             /\ UNCHANGED <<numbers, routes, flows, groups, devices, defaults>>
    <2>1. i \in Nat \ {0} /\ i <= MaxRows /\ (i \in DOMAIN exts \/ i = made.exts + 1)
      <3>1. made.exts \in Nat /\ \A k \in DOMAIN exts : k \in Nat \ {0}
        BY TypedParts
      <3>2. created => i = made.exts + 1
        OBVIOUS
      <3>3. ~created => i \in DOMAIN exts
        OBVIOUS
      <3>4. i <= MaxRows
        BY <1>3
      <3> HIDE DEF created, i
      <3>5. i = made.exts + 1 => i \in Nat \ {0}
        BY <3>1
      <3> QED
        BY <3>1, <3>2, <3>3, <3>4, <3>5
    <2>2. owner \in Owner
      BY <1>1, TypedParts DEF WriteExtensionJob, Row
    <2>3. row \in Row
      BY <1>1, <2>2 DEF WriteExtensionJob, Row
    <2>4. made' = [exts |-> IF created THEN i ELSE made.exts, lines |-> made.lines]
      BY <1>1, <1>3
    <2>5. made' \in [exts : 0..MaxRows, lines : {made.lines}] /\ made'.lines = made.lines
          /\ made'.exts \in Nat /\ made'.exts >= made.exts /\ i \in 1..made'.exts
      <3>1. ~created => i \in 1..made.exts
        BY TypedParts
      <3>2. made.exts \in 0..MaxRows /\ MaxRows \in Nat
        BY <1>1, SmallNumbers
      <3> HIDE DEF created, i
      <3>3. made'.exts = (IF created THEN i ELSE made.exts) /\ made'.lines = made.lines
        BY <2>4
      <3>4. made'.exts \in 0..MaxRows /\ made'.exts >= made.exts /\ i \in 1..made'.exts
        <4>1. created => i = made.exts + 1
          BY DEF i
        <4> QED
          BY <2>1, <3>1, <3>2, <3>3, <4>1
      <3> QED
        BY <2>4, <3>2, <3>3, <3>4
    <2> HIDE DEF i, row, created
    <2>6. DOMAIN exts' = DOMAIN exts \cup {i} /\ exts' \in [DOMAIN exts \cup {i} -> Row]
      BY <1>3, <2>3, TypedParts DEF Put
    <2>7. DOMAIN exts' \subseteq 1..made'.exts
      <3>1. DOMAIN exts \subseteq 1..made.exts
        BY TypedParts
      <3>2. 1..made.exts \subseteq 1..made'.exts
        BY <2>5, TypedParts
      <3> QED
        BY <2>5, <2>6, <3>1, <3>2
    <2>8. RowsTyped'
      BY <1>3, <2>5, <2>6, <2>7, RowsNext, TypedParts
    <2>9. OneDeviceEach'
      <3>1. exts'[i] = row /\ \A k \in DOMAIN exts \ {i} : exts'[k] = exts[k]
        BY <1>3 DEF Put
      <3>2. row.digits = j.d /\ row.line = j.line
        BY DEF row
      <3>3. \A k \in DOMAIN exts \ {i} : exts[k].digits = j.d /\ exts[k].line = j.line => j.line = 0
        BY <1>3 DEF UniqueRow
      <3>4. OneDeviceEach
        BY TypedParts DEF TablesTyped
      <3> QED
        BY <2>6, <3>1, <3>2, <3>3, <3>4 DEF OneDeviceEach
    <2>10. TablesTyped'
      BY <1>3, <2>8, <2>9, TypedParts, RestStays DEF TablesTyped
    <2>11. JobTyped(then, made'.lines)
      <3>1. row.active \in BOOLEAN /\ row.mail \in BOOLEAN
        BY <2>3 DEF Row
      <3>2. /\ next \in {"link", "menus", "end"} /\ (next = "link" => j.prov)
            /\ (next = "menus" => owner # 0)
        BY <1>1 DEF WriteExtensionJob
      <3>3. j.prov => owner \in Accounts
        BY <1>1, SmallNumbers DEF WriteExtensionJob
      <3>4. owner # 0 => owner \in Accounts
        BY <2>2 DEF Owner
      <3> HIDE DEF next, owner
      <3>5. then \in ExtensionFlowsJob
        BY <1>1, <2>2, <3>1, <3>2 DEF ExtensionFlowsJob, WriteExtensionJob
      <3>6. /\ then.op = "extension flows" /\ then.next = next /\ then.o = owner
            /\ then.joins => owner # 0
            /\ then.key.line = j.n
        OBVIOUS
      <3> HIDE DEF then
      <3> QED
        BY <1>1, <3>2, <3>3, <3>4, <3>5, <3>6 DEF JobTyped, Job
    <2> HIDE DEF then
    <2>12. Goes(w, then) /\ ServedTyped'
      BY <1>3, TypedParts, Answered DEF Then
    <2>13. JobsTyped'
      BY <2>5, <2>11, <2>12, JobGoes, TypedParts
    <2> QED
      BY <2>10, <2>12, <2>13 DEF LinesTyped
  <1> QED
    BY <1>2, <1>3 DEF WriteExtension

\* Extensions stay as they are, and numbers are of their type still.
LEMMA NumbersNext ==
    ASSUME RowsTyped, exts' = exts, made' = made,
           DOMAIN numbers' \subseteq Numbers, numbers' \in [DOMAIN numbers' -> Line]
    PROVE  RowsTyped'
  <1>1. Row' = Row /\ Line' = Line
    BY DEF Row, Line
  <1> QED
    BY <1>1 DEF RowsTyped

\* A step that leaves the counts of rows alone.
LEMMA TablesNext ==
    ASSUME LinesTyped, made' = made, TablesTyped', NEW w \in Threads, NEW j, Goes(w, j), JobTyped(j, made.lines),
           ServedTyped'
    PROVE  LinesTyped'
  <1>1. JobsTyped'
    BY TypedParts, JobGoes
  <1> QED
    BY <1>1 DEF LinesTyped

LEMMA ExtensionFlowsTypes ==
    ASSUME LinesTyped, NEW w \in Threads, ExtensionFlows(w)
    PROVE  LinesTyped'
  <1> DEFINE j       == jobs[w]
             edits   == IF j.joins THEN SyncPrimary(routes, j.o, j.key) ELSE <<>>
             gone    == j.joins /\ ~HasFlow(j.o, j.key) /\ j.key \notin KeysOf(j.o)
             refused == gone \/ \E n \in DOMAIN edits : ~MayStoreRoute(j.o, n, edits[n])
             next    == [op |-> j.next, o |-> j.o, n |-> j.key.line, d |-> j.key.digits]
  <1>1. /\ j \in ExtensionFlowsJob
        /\ j.joins \/ j.next # "end" => j.o \in Accounts
        /\ j.next = "link" => j.key.line \in Numbers
    BY TypedParts DEF ExtensionFlows, JobTyped
  <1>2. /\ flows' = IF j.joins /\ ~gone THEN EnsureFlow(flows, j.o, j.key, j.mail) ELSE flows
        /\ routes' = IF refused THEN routes ELSE StoredRoutes(routes, j.o, edits, DOMAIN edits)
        /\ IF refused \/ j.next = "end" THEN Ends(w, ~refused) ELSE Then(w, next)
        /\ UNCHANGED <<numbers, exts, groups, devices, defaults, made>>
    BY DEF ExtensionFlows
  <1>3. j.key \in Key /\ j.mail \in BOOLEAN /\ j.key.digits \in Digits /\ j.next \in {"link", "menus", "end"}
    BY <1>1 DEF ExtensionFlowsJob, Key
  <1>4. FlowsTyped(flows)'
    <2>1. j.joins => FlowsTyped(EnsureFlow(flows, j.o, j.key, j.mail))
      BY <1>1, <1>3, TypedParts, FlowsStored, EmptySeq
    <2> HIDE DEF gone, j
    <2>2. FlowsTyped(flows')
      BY <1>2, <2>1, TypedParts
    <2> QED
      BY <2>2 DEF FlowsTyped, FlowRow
  <1>5. RoutesTyped(routes)'
    <2>1. CASE j.joins
      <3>1. EditsTyped(SyncPrimary(routes, j.o, j.key))
        BY <1>1, <1>3, <2>1, TypedParts, SyncIs
      <3>2. \A n \in Numbers : RoutesTyped(StoredRoutes(routes, j.o, edits, DOMAIN edits))
        BY <1>1, <2>1, <3>1, TypedParts, RoutesStored, EmptySeq
      <3> HIDE DEF refused, edits, j
      <3>3. RoutesTyped(routes')
        BY <1>2, <3>2, TypedParts, SmallNumbers
      <3> QED
        BY <3>3 DEF RoutesTyped, RouteRow
    <2>2. CASE ~j.joins
      <3>1. StoredRoutes(routes, j.o, <<>>, DOMAIN <<>>) = [n \in DOMAIN routes |-> routes[n]]
        BY DEF StoredRoutes
      <3>2. RoutesTyped(StoredRoutes(routes, j.o, <<>>, DOMAIN <<>>))
        BY <3>1, TypedParts DEF RoutesTyped
      <3>3. edits = <<>>
        BY <2>2
      <3> HIDE DEF refused, edits, j
      <3>4. RoutesTyped(routes')
        BY <1>2, <3>2, <3>3, TypedParts
      <3> QED
        BY <3>4 DEF RoutesTyped, RouteRow
    <2> QED
      BY <2>1, <2>2
  <1>6. TablesTyped'
    BY <1>2, <1>4, <1>5, TypedParts, RestStays DEF TablesTyped
  <1>7. ~(refused \/ j.next = "end") => JobTyped(next, made.lines)
    <2>1. j.next \in {"link", "menus"} => JobTyped(next, made.lines)
      BY <1>1, <1>3 DEF JobTyped, Job
    <2> QED
      BY <1>3, <2>1
  <1> HIDE DEF next, j
  <1>8. ServedTyped'
    <2>1. refused \in BOOLEAN
      OBVIOUS
    <2> HIDE DEF refused
    <2> QED
      BY <1>2, <2>1, TypedParts, Answered
  <1>9. \E x : Goes(w, x) /\ JobTyped(x, made.lines)
    <2> HIDE DEF refused
    <2> QED
      BY <1>2, <1>7, IdleTyped DEF Ends, Then
  <1> QED
    BY <1>2, <1>6, <1>8, <1>9, TablesNext

LEMMA MenusTypes ==
    ASSUME LinesTyped, NEW w \in Threads, Menus(w)
    PROVE  LinesTyped'
  <1> DEFINE j       == jobs[w]
             edits   == AutoIvr(routes, j.o, AutoIvrAbove)
             refused == {n \in DOMAIN edits : ~MayStoreRoute(j.o, n, edits[n])}
  <1>1. j.o \in Accounts
    BY TypedParts DEF Menus, JobTyped
  <1>2. /\ \E S \in SUBSET DOMAIN edits : routes' = StoredRoutes(routes, j.o, edits, S)
        /\ Ends(w, refused = {})
        /\ UNCHANGED <<numbers, exts, flows, groups, devices, defaults, made>>
    BY DEF Menus
  <1>3. RoutesTyped(routes)'
    <2>1. EditsTyped(edits)
      BY TypedParts, AutoIvrIs
    <2> HIDE DEF edits, j
    <2>2. PICK S \in SUBSET DOMAIN edits : routes' = StoredRoutes(routes, j.o, edits, S)
      BY <1>2
    <2>3. \A n \in Numbers : RoutesTyped(StoredRoutes(routes, j.o, edits, S))
      BY <1>1, <2>1, TypedParts, RoutesStored, EmptySeq
    <2>4. RoutesTyped(routes')
      BY <2>2, <2>3, SmallNumbers
    <2> QED
      BY <2>4 DEF RoutesTyped, RouteRow
  <1>4. TablesTyped'
    BY <1>2, <1>3, TypedParts, RestStays DEF TablesTyped
  <1>5. ServedTyped'
    BY <1>2, TypedParts, Answered
  <1>6. Goes(w, Idle) /\ made' = made
    BY <1>2 DEF Ends
  <1> QED
    BY <1>4, <1>5, <1>6, IdleTyped, TablesNext

LEMMA ForgetTypes ==
    ASSUME LinesTyped, NEW k, Forget(k)
    PROVE  FlowsTyped(flows)' /\ groups' \in [Accounts -> Seq(Key)]
  <1>1. \A a \in Accounts : Without(groups[a], k) \in Seq(Key)
    BY TypedParts, WithoutIs DEF TablesTyped
  <1>2. FlowsTyped(flows')
    BY TypedParts DEF Forget, FlowsTyped
  <1> QED
    BY <1>1, <1>2 DEF Forget, FlowsTyped, FlowRow

LEMMA RowsDropped ==
    ASSUME LinesTyped, NEW i, exts' = Restrict(exts, DOMAIN exts \ {i}), numbers' = numbers, made' = made
    PROVE  RowsTyped' /\ OneDeviceEach'
  <1>1. DOMAIN exts' = DOMAIN exts \ {i} /\ \A k \in DOMAIN exts \ {i} : exts'[k] = exts[k]
    BY DEF Restrict
  <1>2. exts' \in [DOMAIN exts' -> Row] /\ DOMAIN exts' \subseteq 1..made'.exts
    BY <1>1, TypedParts DEF Restrict
  <1>3. made' \in [exts : 0..MaxRows, lines : {made.lines}]
    BY TypedParts DEF RowsTyped
  <1>4. RowsTyped'
    BY <1>2, <1>3, RowsNext, TypedParts
  <1>5. OneDeviceEach'
    BY <1>1, TypedParts DEF OneDeviceEach, TablesTyped
  <1> QED
    BY <1>4, <1>5

LEMMA DropExtensionTypes ==
    ASSUME LinesTyped, NEW w \in Threads, DropExtension(w)
    PROVE  LinesTyped'
  <1> DEFINE j == jobs[w]
  <1>1. /\ exts' = Restrict(exts, DOMAIN exts \ {j.id})
        /\ devices' = {IF v.ext = [digits |-> j.key.digits, line |-> 0] THEN [v EXCEPT !.ext = NoKey] ELSE v
                         : v \in devices}
        /\ Forget(j.key)
        /\ Ends(w, TRUE)
        /\ UNCHANGED <<numbers, routes, defaults, made>>
    BY DEF DropExtension
  <1> HIDE DEF j
  <1>2. RowsTyped' /\ OneDeviceEach'
    BY <1>1, RowsDropped
  <1>3. devices' \subseteq DeviceRow
    <2>1. \A v \in DeviceRow : [v EXCEPT !.ext = NoKey] \in DeviceRow
      BY DEF DeviceRow, NoKey, Key
    <2>2. devices \subseteq DeviceRow
      BY TypedParts DEF TablesTyped
    <2> QED
      BY <1>1, <2>1, <2>2
  <1>4. TablesTyped'
    BY <1>1, <1>2, <1>3, TypedParts, RestStays, ForgetTypes DEF TablesTyped
  <1>5. ServedTyped'
    BY <1>1, TypedParts, Answered
  <1>6. Goes(w, Idle) /\ made' = made
    BY <1>1 DEF Ends
  <1> QED
    BY <1>4, <1>5, <1>6, IdleTyped, TablesNext

LEMMA WriteNumberTypes ==
    ASSUME LinesTyped, NEW w \in Threads, WriteNumber(w)
    PROVE  LinesTyped'
  <1> DEFINE j       == jobs[w]
             cleared == [m \in DOMAIN numbers |->
                           [numbers[m] EXCEPT !.dflt = @ /\ ~(j.dflt /\ numbers[m].link = j.link)]]
             fresh   == j.n \notin DOMAIN numbers
             id      == IF fresh THEN made.lines + 1 ELSE numbers[j.n].id
             row     == [id |-> id, owner |-> j.o, link |-> j.link, dflt |-> j.dflt, active |-> j.active]
             next    == [op |-> IF j.claim = 0 THEN "adopt" ELSE "claim",
                         n |-> j.n, o |-> j.o, d |-> j.d, claim |-> j.claim, prov |-> j.prov]
  <1>1. /\ id <= MaxLines
        /\ numbers' = Put(cleared, j.n, row)
        /\ made' = [made EXCEPT !.lines = IF fresh THEN id ELSE @]
        /\ Then(w, next)
        /\ UNCHANGED <<exts, routes, flows, groups, devices, defaults>>
    BY DEF WriteNumber
  <1>2. j \in WriteNumberJob /\ ForCustomer(j)
    BY TypedParts DEF WriteNumber, JobTyped
  <1>3. made \in [exts : 0..MaxRows, lines : 0..MaxLines] /\ MaxLines \in Nat
    BY TypedParts, SmallNumbers DEF RowsTyped
  <1>4. /\ made' = [exts |-> made.exts, lines |-> IF fresh THEN id ELSE made.lines]
        /\ made'.exts = made.exts /\ made'.lines = (IF fresh THEN id ELSE made.lines)
    BY <1>1, <1>3
  <1>5. made.lines \in Nat /\ (fresh => id = made.lines + 1) /\ (~fresh => id \in 1..made.lines)
    BY TypedParts DEF Line
  <1>6. ASSUME NEW m \in DOMAIN numbers PROVE cleared[m] \in Line
    BY <1>6, TypedParts DEF Line
  <1>7. DOMAIN cleared = DOMAIN numbers
    OBVIOUS
  <1> HIDE DEF cleared, id, fresh
  <1>8. made'.lines \in 0..MaxLines /\ made.lines <= made'.lines /\ id \in 1..made'.lines
    BY <1>1, <1>3, <1>4, <1>5
  <1>9. made' \in [exts : 0..MaxRows, lines : 0..MaxLines]
    BY <1>3, <1>4, <1>8
  <1>10. \A x \in Line : x \in Line'
    <2>1. \A x \in 1..made.lines : x \in 1..made'.lines
      BY <1>3, <1>8
    <2> QED
      BY <2>1 DEF Line
  <1>11. \A x \in Row : x \in Row'
    <2>1. \A x \in 0..made.lines : x \in 0..made'.lines
      BY <1>3, <1>8
    <2> QED
      BY <2>1 DEF Row
  <1>12. row \in Line'
    BY <1>2, <1>8 DEF Line, WriteNumberJob
  <1> HIDE DEF row
  <1>13. DOMAIN numbers' \subseteq Numbers /\ numbers' \in [DOMAIN numbers' -> Line']
    <2>1. j.n \in Numbers /\ DOMAIN numbers \subseteq Numbers
      BY <1>2, TypedParts DEF WriteNumberJob
    <2>2. DOMAIN numbers' = DOMAIN numbers \cup {j.n}
      BY <1>1, <1>7 DEF Put
    <2>3. \A m \in DOMAIN numbers \cup {j.n} : numbers'[m] \in Line'
      BY <1>1, <1>6, <1>7, <1>10, <1>12 DEF Put
    <2>4. numbers' = [m \in DOMAIN numbers' |-> numbers'[m]]
      BY <1>1 DEF Put
    <2> QED
      BY <2>1, <2>2, <2>3, <2>4
  <1>14. DOMAIN exts' \subseteq 1..made'.exts /\ exts' \in [DOMAIN exts' -> Row']
    BY <1>1, <1>4, <1>11, TypedParts DEF RowsTyped
  <1>15. RowsTyped'
    BY <1>9, <1>13, <1>14 DEF RowsTyped
  <1>16. TablesTyped'
    BY <1>1, <1>15, TypedParts, RestStays DEF TablesTyped
  <1>17. JobTyped(next, made'.lines)
    <2>1. next \in MoveJob
      BY <1>2 DEF WriteNumberJob, MoveJob
    <2>2. next.op \in {"claim", "adopt"} /\ next.prov = j.prov /\ next.o = j.o /\ next.d = j.d
      OBVIOUS
    <2> HIDE DEF next
    <2> QED
      BY <1>2, <2>1, <2>2 DEF JobTyped, Job, ForCustomer
  <1> HIDE DEF next
  <1>18. ServedTyped' /\ Goes(w, next)
    BY <1>1, TypedParts, Answered DEF Then
  <1>19. JobsTyped'
    BY <1>3, <1>8, <1>17, <1>18, TypedParts, JobGoes
  <1> QED
    BY <1>16, <1>18, <1>19 DEF LinesTyped

LEMMA DeleteNumberTypes ==
    ASSUME LinesTyped, NEW w \in Threads, DeleteNumber(w)
    PROVE  LinesTyped'
  <1>1. PICK n \in DOMAIN numbers :
          /\ numbers' = Restrict(numbers, DOMAIN numbers \ {n})
          /\ routes'  = Restrict(routes, DOMAIN routes \ {n})
          /\ Goes(w, [op |-> "take down", n |-> n, left |-> OnNumber(0, n),
                      key |-> [i \in OnNumber(0, n) |-> KeyOf(i)]])
          /\ UNCHANGED <<exts, flows, groups, devices, defaults, made>>
    BY DEF DeleteNumber
  <1> DEFINE j == [op |-> "take down", n |-> n, left |-> OnNumber(0, n),
                   key |-> [i \in OnNumber(0, n) |-> KeyOf(i)]]
  <1>2. RowsTyped'
    <2>1. DOMAIN numbers' \subseteq Numbers /\ numbers' \in [DOMAIN numbers' -> Line]
      BY <1>1, TypedParts DEF Restrict
    <2> QED
      BY <1>1, <2>1, TypedParts, NumbersNext
  <1>3. RoutesTyped(routes)'
    BY <1>1, TypedParts DEF RoutesTyped, Restrict, RouteRow
  <1>4. TablesTyped'
    BY <1>1, <1>2, <1>3, TypedParts, RestStays DEF TablesTyped
  <1>5. JobTyped(j, made.lines)
    <2>1. OnNumber(0, n) \subseteq Nat /\ \A i \in OnNumber(0, n) : KeyOf(i) \in Key
      BY TypedParts, KeyOfIs DEF OnNumber, Listed
    <2>2. \A i \in OnNumber(0, n) : j.key[i] \in Key
      BY <2>1
    <2>3. [i \in OnNumber(0, n) |-> KeyOf(i)] \in UNION {[S -> Key] : S \in SUBSET Nat}
      <3>1. [i \in OnNumber(0, n) |-> KeyOf(i)] \in [OnNumber(0, n) -> Key]
        BY <2>1
      <3> QED
        BY <2>1, <3>1
    <2>4. n \in Numbers
      BY TypedParts
    <2>5. j \in TakeDownJob /\ j.op = "take down" /\ j.left = OnNumber(0, n)
      BY <2>1, <2>3, <2>4 DEF TakeDownJob
    <2> HIDE DEF j
    <2> QED
      BY <2>2, <2>5 DEF JobTyped, Job
  <1>6. ServedTyped'
    BY TypedParts, AskedTypes DEF DeleteNumber
  <1> QED
    BY <1>1, <1>4, <1>5, <1>6, TablesNext

LEMMA TakeDownTypes ==
    ASSUME LinesTyped, NEW w \in Threads, TakeDown(w)
    PROVE  LinesTyped'
  <1> DEFINE j       == jobs[w]
             i       == Min(j.left)
             k       == j.key[i]
             dropped == DropFromDefaults(defaults, k)
             next    == [j EXCEPT !.left = @ \ {i}]
  <1>1. /\ j.left # {} /\ j.op = "take down"
        /\ Then(w, next)
        /\ devices' \subseteq devices
        /\ defaults' \in {defaults, dropped}
        /\ \/ UNCHANGED <<exts, groups, flows>>
           \/ exts' = Restrict(exts, DOMAIN exts \ {i}) /\ Forget(k)
        /\ UNCHANGED <<numbers, routes, made>>
    BY DEF TakeDown
  <1>2. j \in TakeDownJob /\ j.left \subseteq Nat /\ \A x \in j.left : j.key[x] \in Key
    <2>1. j \in TakeDownJob /\ \A x \in j.left : j.key[x] \in Key
      BY <1>1, TypedParts DEF JobTyped
    <2> QED
      BY <2>1 DEF TakeDownJob
  <1>3. i \in j.left /\ k \in Key
    BY <1>1, <1>2, MinIn
  <1>4. dropped \in Document
    <2>1. defaults \in Document /\ NoKey \in Key
      BY TypedParts DEF TablesTyped, NoKey, Key
    <2> HIDE DEF k
    <2> QED
      BY <2>1 DEF Document, DropFromDefaults
  <1>5. JobTyped(next, made.lines)
    <2> HIDE DEF i
    <2>1. next \in TakeDownJob /\ next.left = j.left \ {i} /\ next.key = j.key /\ next.op = "take down"
      BY <1>2 DEF TakeDownJob
    <2> HIDE DEF next
    <2> QED
      BY <1>2, <2>1 DEF JobTyped, Job
  <1> HIDE DEF next, dropped, k, i
  <1>6. RowsTyped' /\ OneDeviceEach' /\ FlowsTyped(flows)' /\ groups' \in [Accounts -> Seq(Key)]
    BY <1>1, TypedParts, RestStays, RowsDropped, ForgetTypes DEF TablesTyped
  <1>7. TablesTyped'
    BY <1>1, <1>4, <1>6, TypedParts, RestStays DEF TablesTyped
  <1>8. ServedTyped' /\ Goes(w, next)
    BY <1>1, TypedParts, Answered DEF Then
  <1> QED
    BY <1>1, <1>5, <1>7, <1>8, TablesNext

LEMMA ReleaseTypes ==
    ASSUME LinesTyped, NEW w \in Threads, Release(w)
    PROVE  LinesTyped'
  <1>1. /\ exts' = [i \in DOMAIN exts |-> IF LineOf(i) = 0 THEN [exts[i] EXCEPT !.line = 0] ELSE exts[i]]
        /\ Ends(w, TRUE)
        /\ UNCHANGED <<numbers, routes, flows, groups, devices, defaults, made>>
    BY DEF Release
  <1>2. \A i \in DOMAIN exts : exts'[i] \in Row /\ exts'[i].digits = exts[i].digits /\ exts'[i].line \in {0, exts[i].line}
    BY <1>1, TypedParts DEF Row
  <1>3. DOMAIN exts' = DOMAIN exts /\ exts' \in [DOMAIN exts' -> Row]
    BY <1>1, <1>2
  <1>4. RowsTyped'
    <2>1. made' \in [exts : 0..MaxRows, lines : {made.lines}]
      BY <1>1, TypedParts DEF RowsTyped
    <2> QED
      BY <1>1, <1>3, <2>1, RowsNext, TypedParts
  <1>5. OneDeviceEach'
    BY <1>2, <1>3, TypedParts DEF OneDeviceEach, TablesTyped
  <1>6. TablesTyped'
    BY <1>1, <1>4, <1>5, TypedParts, RestStays DEF TablesTyped
  <1>7. ServedTyped'
    BY <1>1, TypedParts, Answered
  <1>8. Goes(w, Idle) /\ made' = made
    BY <1>1 DEF Ends
  <1> QED
    BY <1>6, <1>7, <1>8, IdleTyped, TablesNext

----------------------------------------------------------------------------
(* What customers save.                                                    *)

\* A step of one transaction, which leaves no job behind.
LEMMA SimpleNext ==
    ASSUME LinesTyped, NEW w \in Threads, NEW r, Simple(w, r), made' = made, TablesTyped'
    PROVE  LinesTyped'
  <1>1. ServedTyped'
    BY TypedParts, AskedTypes DEF Simple
  <1>2. JobsTyped'
    BY TypedParts DEF Simple, JobsTyped
  <1> QED
    BY <1>1, <1>2 DEF LinesTyped

LEMMA DiscontinueTypes ==
    ASSUME LinesTyped, NEW w \in Threads, Discontinue(w)
    PROVE  LinesTyped'
  <1>1. PICK n \in DOMAIN numbers :
          /\ numbers' = [numbers EXCEPT ![n].active = FALSE]
          /\ UNCHANGED <<exts, routes, flows, groups, devices, defaults, made>>
    BY DEF Discontinue
  <1>2. numbers' \in [DOMAIN numbers' -> Line] /\ DOMAIN numbers' \subseteq Numbers
    <2>1. \A x \in Line : [x EXCEPT !.active = FALSE] \in Line
      BY DEF Line
    <2> QED
      BY <1>1, <2>1, TypedParts
  <1>3. TablesTyped'
    BY <1>1, <1>2, NumbersNext, TypedParts, RestStays DEF TablesTyped
  <1> QED
    BY <1>1, <1>3, SimpleNext DEF Discontinue

\* Which number an account's calls present is the one column that changes.
LEMMA PresentingKeeps ==
    ASSUME LinesTyped, NEW k, NEW n, numbers' = Presenting(k, n)
    PROVE  /\ numbers' \in [DOMAIN numbers' -> Line] /\ DOMAIN numbers' \subseteq Numbers
           /\ DOMAIN numbers' = DOMAIN numbers
           /\ \A m \in DOMAIN numbers : /\ numbers'[m].id = numbers[m].id /\ numbers'[m].owner = numbers[m].owner
                                        /\ numbers'[m].link = numbers[m].link
           /\ n \in DOMAIN numbers => numbers'[n].dflt
  <1> DEFINE b(m) == m = n \/ (numbers[m].dflt /\ numbers[m].owner # exts[ExtensionRow(k)].owner)
  <1>1. DOMAIN numbers' = DOMAIN numbers /\ \A m \in DOMAIN numbers : numbers'[m] = [numbers[m] EXCEPT !.dflt = b(m)]
    BY DEF Presenting
  <1>2. numbers' = [m \in DOMAIN numbers' |-> numbers'[m]]
    BY DEF Presenting
  <1>3. \A m : b(m) \in BOOLEAN
    OBVIOUS
  <1>4. b(n)
    OBVIOUS
  <1>5. \A x \in Line : \A c \in BOOLEAN :
          LET y == [x EXCEPT !.dflt = c] IN y \in Line /\ y.id = x.id /\ y.owner = x.owner /\ y.link = x.link /\ y.dflt = c
    BY DEF Line
  <1> HIDE DEF b
  <1>6. \A m \in DOMAIN numbers : numbers[m] \in Line
    BY TypedParts
  <1>7. \A m \in DOMAIN numbers :
          /\ numbers'[m] \in Line /\ numbers'[m].dflt = b(m)
          /\ numbers'[m].id = numbers[m].id /\ numbers'[m].owner = numbers[m].owner
          /\ numbers'[m].link = numbers[m].link
    <2> SUFFICES ASSUME NEW m \in DOMAIN numbers
                 PROVE  /\ numbers'[m] \in Line /\ numbers'[m].dflt = b(m)
                        /\ numbers'[m].id = numbers[m].id /\ numbers'[m].owner = numbers[m].owner
                        /\ numbers'[m].link = numbers[m].link
      OBVIOUS
    <2>1. numbers'[m] = [numbers[m] EXCEPT !.dflt = b(m)]
      BY <1>1
    <2>2. PICK c \in BOOLEAN : c = b(m)
      BY <1>3
    <2>3. numbers'[m] = [numbers[m] EXCEPT !.dflt = c]
      BY <2>1, <2>2
    <2> QED
      BY <1>5, <1>6, <2>2, <2>3
  <1>8. numbers' \in [DOMAIN numbers' -> Line]
    BY <1>1, <1>2, <1>7
  <1>9. DOMAIN numbers' \subseteq Numbers
    BY <1>1, TypedParts
  <1> QED
    BY <1>1, <1>4, <1>7, <1>8, <1>9

LEMMA SetDefaultOutboundTypes ==
    ASSUME LinesTyped, NEW w \in Threads, SetDefaultOutbound(w)
    PROVE  LinesTyped'
  <1>1. PICK k, n : numbers' = Presenting(k, n)
    BY DEF SetDefaultOutbound
  <1>2. UNCHANGED <<exts, routes, flows, groups, devices, defaults, made>>
    BY DEF SetDefaultOutbound
  <1>3. TablesTyped'
    BY <1>1, <1>2, PresentingKeeps, NumbersNext, TypedParts, RestStays DEF TablesTyped
  <1> QED
    BY <1>2, <1>3, SimpleNext DEF SetDefaultOutbound

LEMMA ProvisionDefaultTypes ==
    ASSUME LinesTyped, NEW w \in Threads, ProvisionDefault(w)
    PROVE  LinesTyped'
  <1> DEFINE j    == jobs[w]
             k    == [digits |-> j.d, line |-> j.n]
             next == [j EXCEPT !.op = "provision route"]
  <1>1. j \in ProvisionJob
    BY TypedParts DEF ProvisionDefault, JobTyped
  <1>2. /\ Then(w, next) \/ Ends(w, FALSE)
        /\ numbers' = numbers \/ numbers' = Presenting(k, j.n)
        /\ UNCHANGED <<exts, routes, flows, groups, devices, defaults, made>>
    BY DEF ProvisionDefault
  <1>3. JobTyped(next, made.lines)
    <2>1. next \in ProvisionJob /\ next.op = "provision route"
      BY <1>1 DEF ProvisionJob
    <2> HIDE DEF next
    <2> QED
      BY <2>1 DEF JobTyped, Job
  <1> HIDE DEF next, k
  <1>4. TablesTyped'
    <2>1. CASE numbers' = numbers
      BY <1>2, <2>1, TypedParts, TablesStay DEF tables
    <2>2. CASE numbers' = Presenting(k, j.n)
      BY <1>2, <2>2, PresentingKeeps, NumbersNext, TypedParts, RestStays DEF TablesTyped
    <2> QED
      BY <1>2, <2>1, <2>2
  <1>5. ServedTyped'
    BY <1>2, TypedParts, Answered
  <1>6. \E x : Goes(w, x) /\ JobTyped(x, made.lines)
    BY <1>2, <1>3, IdleTyped DEF Then, Ends
  <1> QED
    BY <1>2, <1>4, <1>5, <1>6, TablesNext

LEMMA ProvisionRouteTypes ==
    ASSUME LinesTyped, NEW w \in Threads, ProvisionRoute(w)
    PROVE  LinesTyped'
  <1> DEFINE j     == jobs[w]
             k     == [digits |-> j.d, line |-> j.n]
             ks    == IF LineDevices(j.o, j.n) = <<>> THEN <<k>> ELSE LineDevices(j.o, j.n)
             nodes == DefaultNumberRoute(ks, <<>>)
             next  == [j EXCEPT !.op = "provision desk"]
  <1>1. j \in ProvisionJob
    BY TypedParts DEF ProvisionRoute, JobTyped
  <1>2. /\ \/ routes' = StoredRoute(routes, j.o, j.n, nodes) /\ Then(w, next)
           \/ routes' = routes /\ Ends(w, FALSE)
        /\ UNCHANGED <<numbers, exts, flows, groups, devices, defaults, made>>
    BY DEF ProvisionRoute
  <1>3. JobTyped(next, made.lines)
    <2>1. next \in ProvisionJob /\ next.op = "provision desk"
      BY <1>1 DEF ProvisionJob
    <2> HIDE DEF next
    <2> QED
      BY <2>1 DEF JobTyped, Job
  <1>4. j.n \in Numbers /\ j.o \in Accounts /\ k \in Key
    BY <1>1 DEF ProvisionJob, Key
  <1> HIDE DEF next, k
  <1>5. RoutesTyped(routes)'
    <2>1. ks \in Seq(Key)
      <3>1. <<k>> \in Seq(Key) /\ LineDevices(j.o, j.n) \in Seq(Key)
        BY <1>4, DevicesAre, TypedParts
      <3> QED
        BY <3>1
    <2> HIDE DEF ks
    <2>2. nodes \in Seq(Node)
      BY <1>4, <2>1, DefaultRoutes, EmptySeq
    <2> HIDE DEF nodes, j
    <2>3. EditsTyped(<<>>) /\ {} \in SUBSET DOMAIN <<>>
      BY DEF EditsTyped
    <2>4. RoutesTyped(StoredRoute(routes, j.o, j.n, nodes))
      BY <1>4, <2>2, <2>3, TypedParts, RoutesStored
    <2>5. RoutesTyped(routes')
      BY <1>2, <2>4, TypedParts
    <2> QED
      BY <2>5 DEF RoutesTyped, RouteRow
  <1> HIDE DEF nodes
  <1>6. TablesTyped'
    BY <1>2, <1>5, TypedParts, RestStays DEF TablesTyped
  <1>7. ServedTyped'
    BY <1>2, TypedParts, Answered
  <1>8. \E x : Goes(w, x) /\ JobTyped(x, made.lines)
    BY <1>2, <1>3, IdleTyped DEF Then, Ends
  <1> QED
    BY <1>2, <1>6, <1>7, <1>8, TablesNext

LEMMA ProvisionDeskTypes ==
    ASSUME LinesTyped, NEW w \in Threads, ProvisionDesk(w)
    PROVE  LinesTyped'
  <1> DEFINE j    == jobs[w]
             k    == [digits |-> j.d, line |-> j.n]
             mail == \E i \in DOMAIN exts : i = ExtensionRow(k) /\ exts[i].mail
             next == [op |-> "menus", o |-> j.o]
  <1>1. j \in ProvisionJob
    BY TypedParts DEF ProvisionDesk, JobTyped
  <1>2. /\ \/ flows' = EnsureFlow(flows, j.o, k, mail) /\ Provides(w, next, j.n)
           \/ flows' = flows /\ Ends(w, FALSE)
        /\ UNCHANGED <<numbers, exts, routes, groups, devices, defaults, made>>
    BY DEF ProvisionDesk
  <1>3. j.o \in Accounts /\ k \in Key
    BY <1>1 DEF ProvisionJob, Key
  <1>4. mail \in BOOLEAN
    OBVIOUS
  <1>5. JobTyped(next, made.lines)
    BY <1>3 DEF JobTyped, Job
  <1> HIDE DEF next, k, mail
  <1>6. FlowsTyped(flows)'
    <2>1. <<>> \in Seq(Node)
      BY EmptySeq
    <2>2. FlowsTyped(EnsureFlow(flows, j.o, k, mail))
      BY <1>3, <1>4, <2>1, TypedParts, FlowsStored
    <2>3. FlowsTyped(flows')
      BY <1>2, <2>2, TypedParts
    <2> QED
      BY <2>3 DEF FlowsTyped, FlowRow
  <1>7. TablesTyped'
    BY <1>2, <1>6, TypedParts, RestStays DEF TablesTyped
  <1>8. ServedTyped'
    BY <1>2, TypedParts, Answered
  <1>9. \E x : Goes(w, x) /\ JobTyped(x, made.lines)
    BY <1>2, <1>5, IdleTyped DEF Provides, Ends
  <1> QED
    BY <1>2, <1>7, <1>8, <1>9, TablesNext

\* The flows customers draw are flows.
LEMMA DesignsAre ==
    ASSUME NEW k \in Key, NEW l \in Key
    PROVE  Designs(k, l) \subseteq Seq(Node) /\ DeskDesigns(k, l) \subseteq Seq(Node)
  BY LinesAssumption DEF LinesAssumption

LEMMA SaveCallRouteTypes ==
    ASSUME LinesTyped, NEW w \in Threads, SaveCallRoute(w)
    PROVE  LinesTyped'
  <1>1. PICK o \in Accounts, n \in Numbers : \E k, l \in KeysOf(o) : \E drawn \in Designs(k, l) :
          /\ Goes(w, [op |-> "menus", o |-> o])
          /\ routes' = StoredRoute(routes, o, n, FlowNodes(drawn, o, n))
          /\ UNCHANGED <<numbers, exts, flows, groups, devices, defaults, made>>
    BY DEF SaveCallRoute
  <1>2. PICK k \in KeysOf(o), l \in KeysOf(o) : \E drawn \in Designs(k, l) :
          /\ Goes(w, [op |-> "menus", o |-> o])
          /\ routes' = StoredRoute(routes, o, n, FlowNodes(drawn, o, n))
          /\ UNCHANGED <<numbers, exts, flows, groups, devices, defaults, made>>
    BY <1>1
  <1>3. PICK drawn \in Designs(k, l) :
          /\ Goes(w, [op |-> "menus", o |-> o])
          /\ routes' = StoredRoute(routes, o, n, FlowNodes(drawn, o, n))
          /\ UNCHANGED <<numbers, exts, flows, groups, devices, defaults, made>>
    BY <1>2
  <1>4. drawn \in Seq(Node)
    BY TypedParts, KeysOfAre, DesignsAre
  <1>5. FlowNodes(drawn, o, n) \in Seq(Node)
    BY <1>4, TypedParts, FlowNodesAre
  <1>6. RoutesTyped(routes)'
    <2>1. EditsTyped(<<>>) /\ {} \in SUBSET DOMAIN <<>>
      BY DEF EditsTyped
    <2>2. RoutesTyped(routes')
      BY <1>3, <1>5, <2>1, TypedParts, RoutesStored
    <2> QED
      BY <2>2 DEF RoutesTyped, RouteRow
  <1>7. TablesTyped'
    BY <1>3, <1>6, TypedParts, RestStays DEF TablesTyped
  <1>8. JobTyped([op |-> "menus", o |-> o], made.lines)
    BY DEF JobTyped, Job
  <1>9. ServedTyped'
    BY TypedParts, AskedTypes DEF SaveCallRoute
  <1> QED
    BY <1>3, <1>7, <1>8, <1>9, TablesNext

LEMMA SaveRoutingFlowTypes ==
    ASSUME LinesTyped, NEW w \in Threads, SaveRoutingFlow(w)
    PROVE  LinesTyped'
  <1> DEFINE Saved(o, k, drawn, chosen) ==
               /\ Goes(w, [op |-> "menus", o |-> o])
               /\ flows'  = StoredFlow(flows, o, k, FlowNodes(drawn, o, 0))
               /\ routes' = StoredRoutes(routes, o, RingSources(routes, o, k, chosen), DOMAIN RingSources(routes, o, k, chosen))
               /\ UNCHANGED <<numbers, exts, groups, devices, defaults, made>>
  <1>1. PICK o \in Accounts : \E k, l \in KeysOf(o) : \E drawn \in DeskDesigns(k, l), chosen \in SUBSET ListedNumbers(o) :
          Saved(o, k, drawn, chosen)
    BY DEF SaveRoutingFlow
  <1> HIDE DEF Saved
  <1>2. PICK k \in KeysOf(o), l \in KeysOf(o) : \E drawn \in DeskDesigns(k, l), chosen \in SUBSET ListedNumbers(o) :
          Saved(o, k, drawn, chosen)
    BY <1>1
  <1>3. PICK drawn \in DeskDesigns(k, l), chosen \in SUBSET ListedNumbers(o) : Saved(o, k, drawn, chosen)
    BY <1>2
  <1> DEFINE edits == RingSources(routes, o, k, chosen)
             nodes == FlowNodes(drawn, o, 0)
  <1>4. /\ Goes(w, [op |-> "menus", o |-> o])
        /\ flows'  = StoredFlow(flows, o, k, nodes)
        /\ routes' = StoredRoutes(routes, o, edits, DOMAIN edits)
        /\ UNCHANGED <<numbers, exts, groups, devices, defaults, made>>
    BY <1>3 DEF Saved
  <1>5. k \in Key /\ nodes \in Seq(Node)
    <2>1. k \in Key /\ drawn \in Seq(Node)
      BY TypedParts, KeysOfAre, DesignsAre
    <2> QED
      BY <2>1, TypedParts, FlowNodesAre
  <1>6. EditsTyped(edits)
    BY <1>5, TypedParts, RingSourcesIs
  <1> HIDE DEF edits, nodes
  <1>7. FlowsTyped(flows') /\ RoutesTyped(routes')
    BY <1>4, <1>5, <1>6, TypedParts, FlowsStored, RoutesStored, SmallNumbers
  <1>8. FlowsTyped(flows)' /\ RoutesTyped(routes)'
    BY <1>7 DEF RoutesTyped, FlowsTyped, RouteRow, FlowRow
  <1>9. TablesTyped'
    BY <1>4, <1>8, TypedParts, RestStays DEF TablesTyped
  <1>10. JobTyped([op |-> "menus", o |-> o], made.lines)
    BY DEF JobTyped, Job
  <1>11. ServedTyped'
    BY TypedParts, AskedTypes DEF SaveRoutingFlow
  <1> QED
    BY <1>4, <1>9, <1>10, <1>11, TablesNext

LEMMA DeleteRoutingFlowTypes ==
    ASSUME LinesTyped, NEW w \in Threads, DeleteRoutingFlow(w)
    PROVE  LinesTyped'
  <1>1. flows' \subseteq flows /\ UNCHANGED <<numbers, exts, routes, groups, devices, defaults, made>>
    BY DEF DeleteRoutingFlow
  <1>2. FlowsTyped(flows)'
    BY <1>1, TypedParts DEF FlowsTyped, FlowRow
  <1>3. TablesTyped'
    BY <1>1, <1>2, TypedParts, RestStays DEF TablesTyped
  <1> QED
    BY <1>1, <1>3, SimpleNext DEF DeleteRoutingFlow

LEMMA SaveGroupTypes ==
    ASSUME LinesTyped, NEW w \in Threads, SaveGroup(w)
    PROVE  LinesTyped'
  <1>1. PICK o \in Accounts : \E ks \in SUBSET KeysOf(o) : groups' = [groups EXCEPT ![o] = Sorted(ks)]
    BY DEF SaveGroup
  <1>2. PICK ks \in SUBSET KeysOf(o) : groups' = [groups EXCEPT ![o] = Sorted(ks)]
    BY <1>1
  <1>3. ks \in SUBSET Key /\ IsFiniteSet(ks)
    BY TypedParts, KeysOfAre, FS_Subset
  <1>4. Sorted(ks) \in Seq(Key)
    BY <1>3, SortedIs
  <1>5. groups' \in [Accounts -> Seq(Key)]
    BY <1>2, <1>4, TypedParts DEF TablesTyped
  <1>6. UNCHANGED <<numbers, exts, routes, flows, devices, defaults, made>>
    BY DEF SaveGroup
  <1>7. TablesTyped'
    BY <1>5, <1>6, TypedParts, RestStays DEF TablesTyped
  <1> QED
    BY <1>6, <1>7, SimpleNext DEF SaveGroup

LEMMA SaveDeviceTypes ==
    ASSUME LinesTyped, NEW w \in Threads, SaveDevice(w)
    PROVE  LinesTyped'
  <1>1. PICK o \in Accounts : \E k \in KeysOf(o) : \E n \in ListedNumbers(o) \cup {0} :
          devices' = devices \cup {[owner |-> o, number |-> n, ext |-> k]}
    BY DEF SaveDevice
  <1>2. PICK k \in KeysOf(o) : \E n \in ListedNumbers(o) \cup {0} :
          devices' = devices \cup {[owner |-> o, number |-> n, ext |-> k]}
    BY <1>1
  <1>3. PICK n \in ListedNumbers(o) \cup {0} :
          devices' = devices \cup {[owner |-> o, number |-> n, ext |-> k]}
    BY <1>2
  <1>4. k \in Key /\ n \in Numbers \cup {0}
    BY TypedParts, KeysOfAre DEF ListedNumbers
  <1>5. devices' \subseteq DeviceRow
    BY <1>3, <1>4, TypedParts DEF TablesTyped, DeviceRow
  <1>6. UNCHANGED <<numbers, exts, routes, flows, groups, defaults, made>>
    BY DEF SaveDevice
  <1>7. TablesTyped'
    BY <1>5, <1>6, TypedParts, RestStays DEF TablesTyped
  <1> QED
    BY <1>6, <1>7, SimpleNext DEF SaveDevice

LEMMA WriteDefaultsTypes ==
    ASSUME LinesTyped, NEW w \in Threads, WriteDefaults(w)
    PROVE  LinesTyped'
  <1>1. /\ defaults' = jobs[w].doc /\ Ends(w, TRUE)
        /\ UNCHANGED <<numbers, exts, routes, flows, groups, devices, made>>
    BY DEF WriteDefaults
  <1>2. jobs[w].doc \in Document
    BY TypedParts DEF WriteDefaults, JobTyped
  <1>3. TablesTyped'
    BY <1>1, <1>2, TypedParts, RestStays DEF TablesTyped
  <1>4. ServedTyped'
    BY <1>1, TypedParts, Answered
  <1>5. Goes(w, Idle) /\ made' = made
    BY <1>1 DEF Ends
  <1> QED
    BY <1>3, <1>4, <1>5, IdleTyped, TablesNext

----------------------------------------------------------------------------
(* Extensions that come to their number, and what names them.              *)

LEMMA RemapTypes ==
    ASSUME LinesTyped, RowsTyped', NEW ok, Remap(ok)
    PROVE  RoutesTyped(routes)' /\ FlowsTyped(flows)' /\ groups' \in [Accounts -> Seq(Key)]
  <1>1. (RowsTyped => \A nodes \in Seq(Node) : \A o, n :
            FlowNodes(nodes, o, n) \in Seq(Node) /\ RemapNodes(nodes, o, n) \in Seq(Node))'
    BY FlowNodesAre, PTL
  <1>2. (RowsTyped => \A k \in Key : \A o, n : Remapped(k, o, n) \in Key /\ FlowKey(k, o, n) \in Key)'
    BY MeansKey, PTL
  <1>3. \A nodes \in Seq(Node) : \A o, n : RemapNodes(nodes, o, n)' \in Seq(Node)
    BY <1>1
  <1>4. \A k \in Key : \A o, n : Remapped(k, o, n)' \in Key /\ FlowKey(k, o, n)' \in Key
    BY <1>2
  <1>5. PICK rs \in {routes} : \E S : routes' = [n \in DOMAIN rs |->
               IF n \in S THEN [rs[n] EXCEPT !.nodes = RemapNodes(rs[n].nodes, rs[n].owner, n)'] ELSE rs[n]]
    BY Zenon DEF Remap
  <1>7. PICK gs \in {groups} :
          groups' = IF ~ok THEN gs ELSE [a \in Accounts |-> [x \in DOMAIN gs[a] |-> Remapped(gs[a][x], a, 0)']]
    BY Zenon DEF Remap
  <1> DEFINE Desk(f)  == [owner |-> f.owner, target |-> FlowKey(f.target, f.owner, 0),
                          nodes |-> RemapNodes(f.nodes, f.owner, 0)]
             Same(f, g) == f.owner = g.owner /\ f.target = g.target
             Changed(fs) == {f \in fs : Desk(f).nodes' # f.nodes}
  <1>6. PICK fs \in {flows} : \E F \in SUBSET Changed(fs) :
               flows' = {f \in fs : \A g \in F : ~Same(f, Desk(g)')}
                          \cup {Desk(g)' : g \in {x \in F : \A h \in F \ {x} : ~Same(h, Desk(x)')}}
    BY Zenon DEF Remap
  <1>8. \A f \in FlowRow : Desk(f)' \in FlowRow
    BY <1>3, <1>4 DEF FlowRow
  <1>9. FlowsTyped(flows')
    <2>1. PICK F \in SUBSET Changed(fs) :
               flows' = {f \in fs : \A g \in F : ~Same(f, Desk(g)')}
                          \cup {Desk(g)' : g \in {x \in F : \A h \in F \ {x} : ~Same(h, Desk(x)')}}
      BY <1>6
    <2>2. F \subseteq fs /\ \A f \in fs : f \in FlowRow
      BY TypedParts DEF FlowsTyped
    <2> HIDE DEF Desk, Same, Changed
    <2> QED
      BY <1>8, <2>1, <2>2 DEF FlowsTyped
  <1>10. RoutesTyped(routes')
    <2>1. \A n \in DOMAIN rs : rs[n] \in RouteRow /\ n \in Numbers
      BY TypedParts DEF RoutesTyped
    <2>2. \A r \in RouteRow : r.nodes \in Seq(Node) /\ \A nodes \in Seq(Node) : [r EXCEPT !.nodes = nodes] \in RouteRow
      BY DEF RouteRow
    <2>3. \A n \in DOMAIN rs : [rs[n] EXCEPT !.nodes = RemapNodes(rs[n].nodes, rs[n].owner, n)'] \in RouteRow
      <3> TAKE n \in DOMAIN rs
      <3>1. rs[n] \in RouteRow /\ rs[n].nodes \in Seq(Node)
        BY <2>1, <2>2
      <3>2. RemapNodes(rs[n].nodes, rs[n].owner, n)' \in Seq(Node)
        BY <1>3, <3>1
      <3> QED
        BY <2>2, <3>1, <3>2
    <2> QED
      BY <1>5, <2>1, <2>3 DEF RoutesTyped
  <1>11. groups' \in [Accounts -> Seq(Key)]
    <2>1. gs \in [Accounts -> Seq(Key)]
      BY TypedParts DEF TablesTyped
    <2>2. ASSUME NEW a \in Accounts PROVE [x \in DOMAIN gs[a] |-> Remapped(gs[a][x], a, 0)'] \in Seq(Key)
      <3>1. gs[a] \in Seq(Key)
        BY <2>1
      <3>2. \A x \in DOMAIN gs[a] : gs[a][x] \in Key
        BY <3>1, ElementOfSeq, LenProperties
      <3>3. [x \in DOMAIN gs[a] |-> Remapped(gs[a][x], a, 0)'] \in [DOMAIN gs[a] -> Key]
        BY <1>4, <3>2
      <3> QED
        BY <3>1, <3>3, SeqOver
    <2> QED
      BY <1>7, <2>1, <2>2
  <1> QED
    BY <1>9, <1>10, <1>11 DEF RoutesTyped, FlowsTyped, RouteRow, FlowRow

\* Rows that come to a number whose digits nobody there has, each digits once.
LEMMA MovedRows ==
    ASSUME LinesTyped, NEW line \in 1..made.lines, NEW moving, numbers' = numbers, made' = made,
           exts' = [i \in DOMAIN exts |-> IF i \in moving THEN [exts[i] EXCEPT !.line = line] ELSE exts[i]],
           \A i \in moving \cap DOMAIN exts : ~ Taken(exts[i].digits, line),
           \A i, k \in moving \cap DOMAIN exts : exts[i].digits = exts[k].digits => i = k
    PROVE  RowsTyped' /\ OneDeviceEach'
  <1>1. \A x \in Row : [x EXCEPT !.line = line] \in Row /\ [x EXCEPT !.line = line].digits = x.digits
                       /\ [x EXCEPT !.line = line].line = line
    BY TypedParts DEF Row
  <1>2. \A i \in DOMAIN exts : /\ exts'[i] \in Row /\ exts'[i].digits = exts[i].digits
                               /\ exts'[i].line = IF i \in moving THEN line ELSE exts[i].line
    BY <1>1, TypedParts
  <1>3. DOMAIN exts' = DOMAIN exts /\ exts' \in [DOMAIN exts' -> Row]
    BY <1>2
  <1>4. RowsTyped'
    <2>1. made' \in [exts : 0..MaxRows, lines : {made.lines}]
      BY TypedParts DEF RowsTyped
    <2> QED
      BY <1>3, <2>1, RowsNext, TypedParts
  <1>5. OneDeviceEach'
    <2> SUFFICES ASSUME NEW i \in DOMAIN exts, NEW k \in DOMAIN exts, exts[i].digits = exts[k].digits,
                        exts'[i].line = exts'[k].line, exts'[i].line # 0
                 PROVE  i = k
      BY <1>2, <1>3 DEF OneDeviceEach
    <2>1. CASE i \in moving /\ k \in moving
      BY <2>1
    <2>2. CASE i \in moving /\ k \notin moving
      <3>1. exts[k].digits = exts[i].digits /\ exts[k].line = line
        BY <1>2, <2>2
      <3>2. Taken(exts[i].digits, line)
        BY <3>1 DEF Taken
      <3> QED
        BY <2>2, <3>2
    <2>3. CASE i \notin moving /\ k \in moving
      BY <1>2, <2>3 DEF Taken
    <2>4. CASE i \notin moving /\ k \notin moving
      BY <1>2, <2>4, TypedParts DEF OneDeviceEach, TablesTyped
    <2> QED
      BY <2>1, <2>2, <2>3, <2>4
  <1> QED
    BY <1>4, <1>5

LEMMA MovedTypes ==
    ASSUME LinesTyped, NEW line \in 1..made.lines, NEW moving, NEW ok, Remap(ok),
           UNCHANGED <<numbers, devices, defaults, made>>,
           exts' = [i \in DOMAIN exts |-> IF i \in moving THEN [exts[i] EXCEPT !.line = line] ELSE exts[i]],
           \A i \in moving \cap DOMAIN exts : ~ Taken(exts[i].digits, line),
           \A i, k \in moving \cap DOMAIN exts : exts[i].digits = exts[k].digits => i = k
    PROVE  TablesTyped'
  <1>1. RowsTyped' /\ OneDeviceEach'
    BY MovedRows
  <1>2. RoutesTyped(routes)' /\ FlowsTyped(flows)' /\ groups' \in [Accounts -> Seq(Key)]
    BY <1>1, RemapTypes
  <1> QED
    BY <1>1, <1>2, TypedParts, RestStays DEF TablesTyped

LEMMA ClaimTypes ==
    ASSUME LinesTyped, NEW w \in Threads, Claim(w)
    PROVE  LinesTyped'
  <1> DEFINE j    == jobs[w]
             then == [j EXCEPT !.op = "adopt"]
             next == Then(w, then)
  <1>1. j \in MoveJob /\ ForCustomer(j)
    BY TypedParts DEF Claim, JobTyped
  <1>2. JobTyped(then, made.lines)
    <2>1. then \in MoveJob /\ then.op = "adopt" /\ then.prov = j.prov /\ then.o = j.o /\ then.d = j.d
      BY <1>1 DEF MoveJob
    <2> HIDE DEF then
    <2> QED
      BY <1>1, <2>1 DEF JobTyped, Job, ForCustomer
  <1>3. Here(j.n) # 0 => Here(j.n) \in 1..made.lines
    BY TypedParts DEF Here, Line
  <1>4. TablesTyped' /\ (next \/ Ends(w, FALSE))
    <2>1. UNCHANGED <<numbers, devices, defaults, made>>
      BY DEF Claim
    <2>2. CASE (next \/ Ends(w, FALSE)) /\ UNCHANGED <<exts, routes, flows, groups>>
      BY <2>1, <2>2, TypedParts, TablesStay DEF tables
    <2>3. CASE /\ j.claim \in DOMAIN exts /\ Here(j.n) # 0
               /\ ~ Taken(exts[j.claim].digits, Here(j.n))
               /\ Move(w, {j.claim}, Here(j.n), next)
      <3> HIDE DEF j, next
      <3>1. exts' = [i \in DOMAIN exts |->
                       IF i \in {j.claim} THEN [exts[i] EXCEPT !.line = Here(j.n)] ELSE exts[i]]
        BY <2>3 DEF Move
      <3>2. PICK ok \in BOOLEAN : Remap(ok) /\ IF ok THEN next ELSE Ends(w, FALSE)
        BY <2>3 DEF Move
      <3>4. /\ \A i \in {j.claim} \cap DOMAIN exts : ~ Taken(exts[i].digits, Here(j.n))
            /\ \A i, k \in {j.claim} \cap DOMAIN exts : exts[i].digits = exts[k].digits => i = k
        BY <2>3
      <3>5. Here(j.n) \in 1..made.lines
        BY <1>3, <2>3
      <3>3. TablesTyped'
        BY <2>1, <3>1, <3>2, <3>4, <3>5, MovedTypes
      <3> QED
        BY <3>2, <3>3
    <2> QED
      BY <2>2, <2>3 DEF Claim
  <1> HIDE DEF then
  <1>5. ServedTyped' /\ (Goes(w, then) \/ Goes(w, Idle))
    BY <1>4, TypedParts, Answered DEF Then, Ends
  <1>6. made' = made
    BY DEF Claim
  <1> QED
    BY <1>2, <1>4, <1>5, <1>6, IdleTyped, TablesNext

LEMMA AdoptTypes ==
    ASSUME LinesTyped, NEW w \in Threads, Adopt(w)
    PROVE  LinesTyped'
  <1> DEFINE j     == jobs[w]
             lines == {numbers[m].id : m \in {m \in DOMAIN numbers : numbers[m].owner = j.o}}
             loose == {i \in DOMAIN exts : exts[i].line = 0 /\ exts[i].owner = j.o}
             moving  == IF j.o = 0 \/ lines = {} \/ Here(j.n) # Min(lines) THEN {}
                      ELSE {i \in loose : /\ ~Taken(exts[i].digits, Here(j.n))
                                          /\ \A k \in loose : exts[k].digits = exts[i].digits => k >= i}
             one   == [op |-> "provision", n |-> j.n, o |-> j.o]
             two   == [op |-> "provision default", n |-> j.n, o |-> j.o, d |-> j.d]
             next  == CASE j.prov = "no"   -> Ends(w, TRUE)
                        [] j.prov = "auto" -> Then(w, one)
                        [] j.prov = "link" -> Then(w, two)
  <1>1. j \in MoveJob /\ ForCustomer(j)
    BY TypedParts DEF Adopt, JobTyped
  <1>2. j.n \in Numbers /\ j.prov \in {"no", "auto", "link"}
    BY <1>1 DEF MoveJob
  <1>3. /\ UNCHANGED <<numbers, devices, defaults, made>>
        /\ IF moving = {} THEN next /\ UNCHANGED <<exts, routes, flows, groups>>
           ELSE Move(w, moving, Here(j.n), next)
    BY DEF Adopt
  <1>4. moving # {} => Here(j.n) \in 1..made.lines
    <2>1. SUFFICES ASSUME moving # {} PROVE Here(j.n) \in 1..made.lines
      OBVIOUS
    <2>2. lines # {} /\ Here(j.n) = Min(lines)
      BY <2>1
    <2>3. lines \subseteq 1..made.lines
      BY TypedParts DEF Line
    <2>4. lines \subseteq Nat
      BY <2>3, TypedParts
    <2> HIDE DEF lines
    <2> QED
      BY <2>2, <2>3, <2>4, MinIn
  <1>5. /\ \A i \in moving \cap DOMAIN exts : ~ Taken(exts[i].digits, Here(j.n))
        /\ \A i, k \in moving \cap DOMAIN exts : exts[i].digits = exts[k].digits => i = k
    <2>1. \A i \in moving : i \in loose /\ ~Taken(exts[i].digits, Here(j.n))
      OBVIOUS
    <2>2. \A i, k \in moving : exts[i].digits = exts[k].digits => k >= i
      OBVIOUS
    <2>3. \A i, k \in moving : exts[i].digits = exts[k].digits => i = k
      <3>1. \A i \in loose : i \in Nat
        BY TypedParts
      <3> HIDE DEF moving
      <3> QED
        BY <2>1, <2>2, <3>1
    <2> HIDE DEF moving
    <2> QED
      BY <2>1, <2>3
  <1> HIDE DEF moving, j
  <1>6. next => \/ j.prov = "auto" /\ Then(w, one)
                \/ j.prov = "link" /\ Then(w, two)
                \/ Ends(w, TRUE)
    BY <1>2
  <1> HIDE DEF next
  <1>7. TablesTyped' /\ (next \/ Ends(w, FALSE))
    <2>1. CASE moving = {}
      <3>1. UNCHANGED tables
        BY <1>3, <2>1 DEF tables
      <3> QED
        BY <1>3, <2>1, <3>1, TypedParts, TablesStay
    <2>2. CASE moving # {}
      <3>1. exts' = [i \in DOMAIN exts |->
                       IF i \in moving THEN [exts[i] EXCEPT !.line = Here(j.n)] ELSE exts[i]]
        BY <1>3, <2>2 DEF Move
      <3>2. PICK ok \in BOOLEAN : Remap(ok) /\ IF ok THEN next ELSE Ends(w, FALSE)
        BY <1>3, <2>2 DEF Move
      <3>3. TablesTyped'
        BY <1>3, <1>4, <1>5, <2>2, <3>1, <3>2, MovedTypes
      <3> QED
        BY <3>2, <3>3
    <2> QED
      BY <2>1, <2>2
  <1>8. /\ j.prov = "auto" => JobTyped(one, made.lines)
        /\ j.prov = "link" => JobTyped(two, made.lines)
    <2>1. j.prov # "no" => j.o \in Accounts
      BY <1>1 DEF ForCustomer
    <2>2. one.op = "provision" /\ one.n = j.n /\ one.o = j.o
      OBVIOUS
    <2>3. j.prov = "link" => j.d \in Digits
      BY <1>1 DEF ForCustomer
    <2>4. j.prov = "link" => two \in ProvisionJob
      BY <1>2, <2>1, <2>3 DEF ProvisionJob
    <2>5. two.op = "provision default"
      OBVIOUS
    <2> HIDE DEF one, two
    <2> QED
      BY <1>2, <2>1, <2>2, <2>4, <2>5 DEF JobTyped, Job
  <1> HIDE DEF one, two
  <1>9. ServedTyped'
    BY <1>6, <1>7, TypedParts, Answered
  <1>10. \E x : Goes(w, x) /\ JobTyped(x, made.lines)
    BY <1>6, <1>7, <1>8, IdleTyped DEF Then, Ends
  <1> QED
    BY <1>3, <1>7, <1>9, <1>10, TablesNext

----------------------------------------------------------------------------
(* The invariant of types.                                                 *)

LEMMA LinesStart == Init => LinesTyped
  <1> SUFFICES ASSUME Init PROVE LinesTyped
    OBVIOUS
  <1> DEFINE a     == Min(Accounts)
             b     == Max(Accounts)
             first == [digits |-> Min(Digits), line |-> Min(Numbers)]
             next  == [first EXCEPT !.digits = Max(Digits)]
             bare  == [first EXCEPT !.line = 0]
             desk  == [next EXCEPT !.line = 0]
             new(k, o) == [digits |-> k.digits, line |-> IF k.line = 0 THEN 0 ELSE 1, owner |-> o,
                           active |-> TRUE, mail |-> FALSE]
  <1>1. /\ numbers = [n \in {Min(Numbers)} |-> [id |-> 1, owner |-> a, link |-> first, dflt |-> TRUE, active |-> TRUE]]
        /\ exts = <<new(first, a), new(next, a), new(bare, b), new(desk, 0)>>
        /\ routes = [n \in {Min(Numbers)} |-> [owner |-> a, nodes |-> DefaultNumberRoute(<<first, next>>, <<>>)]]
        /\ flows = {[owner |-> f[1], target |-> f[2], nodes |-> DefaultExtensionRoute(f[2], FALSE)] :
                      f \in {<<a, first>>, <<a, next>>, <<b, bare>>}}
        /\ groups = [o \in Accounts |-> IF o = b THEN <<bare>> ELSE <<>>]
        /\ devices = {}
        /\ defaults = [o \in Accounts |-> [outbound |-> NoKey, fallback |-> NoKey]]
        /\ made = [exts |-> 4, lines |-> 1]
        /\ jobs = [w \in Threads |-> Idle] /\ asked = 0 /\ crossed = FALSE /\ answer = Silent
    BY DEF Init
  <1>2. /\ a \in Accounts /\ b \in Accounts /\ Min(Numbers) \in Numbers
        /\ Min(Digits) \in Digits /\ Max(Digits) \in Digits
    BY SmallNumbers, MinIn, MaxIn
  <1>3. Min(Digits) # Max(Digits)
    <2>1. SUFFICES ASSUME Min(Digits) = Max(Digits) PROVE FALSE
      OBVIOUS
    <2>2. \A d \in Digits : Min(Digits) <= d /\ d <= Max(Digits)
      BY SmallNumbers, MinIn, MaxIn
    <2>3. Digits = {Min(Digits)}
      <3>1. \A d \in Digits : d \in Nat
        BY SmallNumbers
      <3>2. \A d \in Digits : d = Min(Digits)
        BY <1>2, <2>1, <2>2, <3>1
      <3> QED
        BY <1>2, <3>2
    <2>4. Cardinality(Digits) = 1
      BY <2>3, FS_Singleton
    <2> QED
      BY <2>4, LinesAssumption DEF LinesAssumption
  <1>4. /\ first = [digits |-> Min(Digits), line |-> Min(Numbers)]
        /\ next = [digits |-> Max(Digits), line |-> Min(Numbers)]
        /\ bare = [digits |-> Min(Digits), line |-> 0] /\ desk = [digits |-> Max(Digits), line |-> 0]
    <2>1. \A d, e, n : /\ [[digits |-> d, line |-> n] EXCEPT !.digits = e] = [digits |-> e, line |-> n]
                       /\ [[digits |-> d, line |-> n] EXCEPT !.line = 0] = [digits |-> d, line |-> 0]
      OBVIOUS
    <2>2. next = [digits |-> Max(Digits), line |-> Min(Numbers)] /\ bare = [digits |-> Min(Digits), line |-> 0]
      BY <2>1
    <2> HIDE DEF next
    <2>3. desk = [digits |-> Max(Digits), line |-> 0]
      BY <2>1, <2>2
    <2> QED
      BY <2>2, <2>3
  <1> HIDE DEF first, next, bare, desk, a, b
  <1>5. first \in Key /\ next \in Key /\ bare \in Key /\ desk \in Key /\ NoKey \in Key
    BY <1>2, <1>4 DEF Key, NoKey
  <1>6. RowsTyped /\ OneDeviceEach
    <2>1. made \in [exts : 0..MaxRows, lines : 0..MaxLines] /\ made.lines = 1 /\ made.exts = 4
      BY <1>1, SmallNumbers, LinesAssumption DEF LinesAssumption
    <2>2. Min(Numbers) # 0
      BY <1>2, SmallNumbers
    <2>3. /\ new(first, a) \in Row /\ new(next, a) \in Row /\ new(bare, b) \in Row /\ new(desk, 0) \in Row
      BY <1>2, <1>4, <2>1 DEF Row, Owner
    <2>4. /\ new(first, a).line = 1 /\ new(next, a).line = 1 /\ new(bare, b).line = 0 /\ new(desk, 0).line = 0
          /\ new(first, a).digits = Min(Digits) /\ new(next, a).digits = Max(Digits)
      BY <1>4, <2>2
    <2> HIDE DEF new
    <2>5. /\ DOMAIN exts = 1..4 /\ exts[1] = new(first, a) /\ exts[2] = new(next, a)
          /\ exts[3] = new(bare, b) /\ exts[4] = new(desk, 0) /\ exts = [i \in 1..4 |-> exts[i]]
      BY <1>1
    <2>6. DOMAIN exts \subseteq 1..made.exts /\ exts \in [DOMAIN exts -> Row]
      BY <2>1, <2>3, <2>5
    <2>7. OneDeviceEach
      BY <1>3, <2>4, <2>5 DEF OneDeviceEach
    <2>8. DOMAIN numbers \subseteq Numbers /\ numbers \in [DOMAIN numbers -> Line]
      BY <1>1, <1>2, <1>5, <2>1 DEF Line, Owner
    <2> QED
      BY <2>1, <2>6, <2>7, <2>8 DEF RowsTyped
  <1>7. RoutesTyped(routes)
    <2>1. <<first, next>> \in Seq(Key)
      BY <1>5
    <2>2. DefaultNumberRoute(<<first, next>>, <<>>) \in Seq(Node)
      BY <1>5, <2>1, DefaultRoutes, EmptySeq
    <2> QED
      BY <1>1, <1>2, <2>2 DEF RoutesTyped, RouteRow
  <1>8. FlowsTyped(flows)
    <2>1. \A k \in Key : DefaultExtensionRoute(k, FALSE) \in Seq(Node)
      BY DefaultRoutes, EmptySeq
    <2>2. \A o \in Accounts, k \in Key : [owner |-> o, target |-> k, nodes |-> DefaultExtensionRoute(k, FALSE)] \in FlowRow
      BY <2>1 DEF FlowRow
    <2>3. \A f \in {<<a, first>>, <<a, next>>, <<b, bare>>} : f[1] \in Accounts /\ f[2] \in Key
      BY <1>2, <1>5
    <2> QED
      BY <1>1, <2>2, <2>3 DEF FlowsTyped
  <1>9. groups \in [Accounts -> Seq(Key)] /\ devices \subseteq DeviceRow /\ defaults \in Document
    BY <1>1, <1>5 DEF Document
  <1>10. JobsTyped /\ ServedTyped
    <2>1. JobsTyped
      BY <1>1, IdleTyped DEF JobsTyped
    <2>2. MaxRequests \in Nat
      BY LinesAssumption DEF LinesAssumption
    <2>3. answer.ok = TRUE /\ asked = 0 /\ crossed = FALSE
      BY <1>1 DEF Silent
    <2>4. asked \in 0..MaxRequests
      BY <2>2, <2>3
    <2>5. answer.ok \in BOOLEAN /\ crossed \in BOOLEAN
      BY <2>3, Zenon
    <2> QED
      BY <2>1, <2>4, <2>5 DEF ServedTyped
  <1> QED
    BY <1>6, <1>7, <1>8, <1>9, <1>10 DEF LinesTyped, TablesTyped

LEMMA LinesGoOn == LinesTyped /\ [Next]_vars => LinesTyped'
  <1> SUFFICES ASSUME LinesTyped, [Next]_vars PROVE LinesTyped'
    OBVIOUS
  <1>1. CASE UNCHANGED vars
    <2>1. UNCHANGED tables /\ UNCHANGED <<jobs, asked, crossed, answer>>
      BY <1>1 DEF vars
    <2>2. TablesTyped' /\ made' = made
      BY <2>1, TypedParts, TablesStay
    <2>3. JobsTyped' /\ ServedTyped'
      BY <2>1, <2>2, TypedParts DEF JobsTyped, ServedTyped
    <2> QED
      BY <2>2, <2>3 DEF LinesTyped
  <1>2. CASE Next
    <2>1. PICK w \in Threads :
         \/ SaveExtension(w) \/ AddExtension(w) \/ WriteExtension(w) \/ ExtensionFlows(w) \/ Menus(w)
         \/ DeleteExtension(w) \/ DropExtension(w)
         \/ Discontinue(w) \/ SaveNumber(w) \/ WriteNumber(w) \/ Claim(w) \/ Adopt(w)
         \/ DeleteNumber(w) \/ TakeDown(w) \/ Release(w)
         \/ Provision(w) \/ ProvisionLink(w)
         \/ ProvisionDefault(w) \/ ProvisionRoute(w) \/ ProvisionDesk(w)
         \/ SaveCallRoute(w) \/ SaveRoutingFlow(w) \/ DeleteRoutingFlow(w) \/ SaveGroup(w)
         \/ SaveDevice(w) \/ SetDefaults(w) \/ WriteDefaults(w) \/ SetDefaultOutbound(w)
      BY <1>2 DEF Next
    <2> QED
      BY <2>1, SaveExtensionTypes, AddExtensionTypes, WriteExtensionTypes, ExtensionFlowsTypes, MenusTypes,
         DeleteExtensionTypes, DropExtensionTypes, DiscontinueTypes, SaveNumberTypes, WriteNumberTypes, ClaimTypes,
         AdoptTypes, DeleteNumberTypes, TakeDownTypes, ReleaseTypes, ProvisionTypes, ProvisionLinkTypes,
         ProvisionDefaultTypes, ProvisionRouteTypes, ProvisionDeskTypes, SaveCallRouteTypes, SaveRoutingFlowTypes, DeleteRoutingFlowTypes, SaveGroupTypes,
         SaveDeviceTypes, SetDefaultsTypes, WriteDefaultsTypes, SetDefaultOutboundTypes
  <1> QED
    BY <1>1, <1>2

LEMMA LinesAreTyped == Spec => []LinesTyped
  BY LinesStart, LinesGoOn, PTL DEF Spec

\* The tables hold rows of their columns' types and digits on a number mean one
\* device, however requests interleave; adopting an account's extensions in
\* bulk never relies on the table's own index for it (save_extension,
\* _adopt_unassigned_extensions, _assign_extension_to_number).
THEOREM LinesTypes == Spec => []TypeOK
  BY LinesAreTyped, TypedIsTypeOK, PTL

----------------------------------------------------------------------------
(* Whom a call rings.                                                      *)

PlanWith(mailbox, forward, closed) ==
    [kind : {"ring", "ivr"}, dests : Seq(Key), mailbox : {mailbox}, forward : {forward}, closed : {closed},
     menu : SUBSET Key, fallbacks : Seq(Key)]

LEMMA DeskFlowIs ==
    ASSUME TablesTyped, NEW k, NEW o
    PROVE  DeskFlow(k, o) \in Seq(Node)
  <1> DEFINE found == {f \in flows : f.target = k /\ (o = 0 \/ f.owner = o)}
             chosen == CHOOSE f \in found : TRUE
  <1>1. found # {} => chosen \in flows
    OBVIOUS
  <1>2. \A f \in flows : f.nodes \in Seq(Node)
    BY DEF TablesTyped, FlowsTyped, FlowRow
  <1>3. DeskFlow(k, o) = IF found = {} THEN <<>> ELSE chosen.nodes
    BY DEF DeskFlow
  <1> HIDE DEF found, chosen
  <1> QED
    BY <1>1, <1>2, <1>3, EmptySeq

LEMMA FallbacksAre ==
    ASSUME TablesTyped, NEW k, NEW o
    PROVE  Fallbacks(k, o) \in Seq(Key) /\ ToSet(Fallbacks(k, o)) \subseteq ActiveKeys(o)
  <1> DEFINE named == Unique(Named(OfType(DeskFlow(k, o), {"extension"})))
             may   == IF o = 0 THEN {} ELSE ActiveKeys(o) \ {k}
  <1>1. named \in Seq(Key)
    BY DeskFlowIs, NodesPicked, NamedIs, UniqueIs
  <1>2. Fallbacks(k, o) = Among(named, may) /\ may \subseteq ActiveKeys(o)
    BY DEF Fallbacks
  <1> HIDE DEF named, may
  <1> QED
    BY <1>1, <1>2, AmongIs

LEMMA PlanNodesRings ==
    ASSUME TablesTyped, NEW nodes \in Seq(Node), NEW o, NEW link, NEW n, NEW open \in BOOLEAN
    PROVE  /\ \E box, f, c : PlanNodes(nodes, o, link, n, open) \in PlanWith(box, f, c)
           /\ ToSet(PlanNodes(nodes, o, link, n, open).dests) \subseteq ActiveKeys(o)
           /\ PlanNodes(nodes, o, link, n, open).menu = {}
           /\ PlanNodes(nodes, o, link, n, open).fallbacks = <<>>
  <1> DEFINE allowed == IF o = 0 THEN {} ELSE ActiveKeys(o)
             live    == SwitchedOn(nodes)
             hours   == {x \in DOMAIN live : live[x].type = "hours"}
             closed  == hours # {} /\ ~open
             awake   == IF closed THEN SubSeq(live, 1, Min(hours)) ELSE live
             rung    == Among(Unique(Named(OfType(awake, Ringing))), allowed)
             boxes   == OfType(live, {"voicemail"})
             mailbox == IF boxes = <<>> THEN NoKey ELSE VoicemailKey(n, boxes[1].exts[1], o)
             forward == OfType(live, {"forward"}) # <<>>
             bare    == rung = <<>> /\ mailbox = NoKey /\ ~forward /\ ~closed
                        /\ OfType(nodes, Ringing) = <<>> /\ link \in allowed
             dests   == IF bare THEN <<link>> ELSE rung
             ringing    == PlanNodes(nodes, o, link, n, open)
  <1>1. live \in Seq(Node)
    BY NodesPicked
  <1>2. awake \in Seq(Node)
    <2> HIDE DEF live
    <2>1. DOMAIN live = 1..Len(live) /\ Len(live) \in Nat
      BY <1>1, LenProperties
    <2>2. hours \subseteq Nat /\ hours \subseteq 1..Len(live)
      BY <2>1
    <2>3. hours # {} => Min(hours) \in 1..Len(live)
      BY <2>2, MinIn
    <2>4. hours # {} => SubSeq(live, 1, Min(hours)) \in Seq(Node)
      <3> HIDE DEF hours
      <3>1. hours # {} => Min(hours) \in Int /\ Min(hours) <= Len(live)
        BY <2>1, <2>3
      <3> QED
        BY <1>1, <3>1, SeqPart
    <2> QED
      BY <1>1, <2>4
  <1>3. rung \in Seq(Key) /\ ToSet(rung) \subseteq allowed
    <2> HIDE DEF awake, allowed
    <2>1. Unique(Named(OfType(awake, Ringing))) \in Seq(Key)
      BY <1>2, NodesPicked, NamedIs, UniqueIs
    <2> QED
      BY <2>1, AmongIs
  <1>4. allowed \subseteq ActiveKeys(o) /\ allowed \subseteq Key
    BY KeysOfAre DEF TablesTyped
  <1>5. PlanNodes(nodes, o, link, n, open) =
          [kind |-> "ring", dests |-> dests, mailbox |-> mailbox, forward |-> forward, closed |-> closed,
           menu |-> {}, fallbacks |-> <<>>]
    BY DEF PlanNodes
  <1>6. bare => link \in allowed
    OBVIOUS
  <1> HIDE DEF rung, bare, allowed, forward, closed, mailbox
  <1>7. dests \in Seq(Key) /\ ToSet(dests) \subseteq ActiveKeys(o)
    <2>1. bare => <<link>> \in Seq(Key) /\ ToSet(<<link>>) \subseteq ActiveKeys(o)
      BY <1>4, <1>6 DEF ToSet
    <2> QED
      BY <1>3, <1>4, <2>1
  <1> HIDE DEF dests
  <1> DEFINE made2(d, box, f, c) == [kind |-> "ring", dests |-> d, mailbox |-> box, forward |-> f, closed |-> c,
                                     menu |-> {}, fallbacks |-> <<>>]
  <1>8. ASSUME NEW d \in Seq(Key), NEW box, NEW f, NEW c
        PROVE  /\ made2(d, box, f, c) \in PlanWith(box, f, c)
               /\ made2(d, box, f, c).dests = d /\ made2(d, box, f, c).menu = {} /\ made2(d, box, f, c).fallbacks = <<>>
    <2>1. <<>> \in Seq(Key)
      BY EmptySeq
    <2> QED
      BY <2>1 DEF PlanWith
  <1>9. PlanNodes(nodes, o, link, n, open) = made2(dests, mailbox, forward, closed)
    BY <1>5
  <1> HIDE DEF made2
  <1>10. /\ made2(dests, mailbox, forward, closed) \in PlanWith(mailbox, forward, closed)
         /\ made2(dests, mailbox, forward, closed).dests = dests
         /\ made2(dests, mailbox, forward, closed).menu = {}
         /\ made2(dests, mailbox, forward, closed).fallbacks = <<>>
    BY <1>7, <1>8
  <1> QED
    BY <1>7, <1>9, <1>10, Zenon

\* The handling of desks takes destinations away, and adds what the first
\* desk's flow falls back on.
LEMMA DeskHandlingRings ==
    ASSUME TablesTyped, NEW box, NEW f, NEW c, NEW ringing \in PlanWith(box, f, c), NEW keys, NEW n, NEW o
    PROVE  /\ ToSet(ApplyDeskHandling(ringing, keys, n, o).dests) \subseteq ToSet(ringing.dests)
           /\ ApplyDeskHandling(ringing, keys, n, o).menu = ringing.menu
           /\ ToSet(ApplyDeskHandling(ringing, keys, n, o).fallbacks) \subseteq ActiveKeys(o)
  <1> DEFINE first  == IF keys = <<>> THEN NoKey ELSE keys[1]
             silent == ringing.mailbox = NoKey /\ ~ringing.forward
             box2   == IF silent /\ first # NoKey THEN DeskVoicemail(n, first, o) ELSE ringing.mailbox
             dests  == Among(ringing.dests, ToSet(ringing.dests) \ Disabled(keys, o))
             forward == ringing.forward \/ (silent /\ box2 = NoKey /\ OfType(DeskFlow(first, o), {"forward"}) # <<>>)
             fall   == Fallbacks(first, o)
  <1>1. ApplyDeskHandling(ringing, keys, n, o) =
          [ringing EXCEPT !.dests = dests, !.mailbox = box2, !.forward = forward, !.fallbacks = fall]
    BY DEF ApplyDeskHandling
  <1>2. ringing.dests \in Seq(Key)
    BY DEF PlanWith
  <1>3. ToSet(dests) \subseteq ToSet(ringing.dests)
    BY <1>2, AmongIs
  <1>4. ToSet(fall) \subseteq ActiveKeys(o)
    BY FallbacksAre
  <1> HIDE DEF dests, box2, forward, fall
  <1>5. /\ [ringing EXCEPT !.dests = dests, !.mailbox = box2, !.forward = forward, !.fallbacks = fall].dests = dests
        /\ [ringing EXCEPT !.dests = dests, !.mailbox = box2, !.forward = forward, !.fallbacks = fall].fallbacks = fall
        /\ [ringing EXCEPT !.dests = dests, !.mailbox = box2, !.forward = forward, !.fallbacks = fall].menu = ringing.menu
    BY DEF PlanWith
  <1> QED
    BY <1>1, <1>3, <1>4, <1>5

LEMMA IvrRings ==
    ASSUME TablesTyped, NEW ivr, NEW nodes \in Seq(Node), NEW o, NEW link, NEW n, NEW open \in BOOLEAN
    PROVE  Rings(IvrPlan(ivr, nodes, o, link, n, open)) \subseteq KeysOf(o)
  <1> DEFINE rest  == Without(nodes, ivr)
             menu  == {KeyOf(i) : i \in {j \in OnNumber(o, n) : exts[j].active}}
             keyed == {k \in ToSet(Tail(ivr.exts)) : k \in ActiveKeys(o)}
             all   == menu \cup keyed
             last  == Among(<<ivr.exts[1]>>, ActiveKeys(o))
             ringing  == PlanNodes(rest, o, link, n, open)
             made2 == [ringing EXCEPT !.kind = "ivr", !.menu = all, !.fallbacks = last]
  <1>1. IvrPlan(ivr, nodes, o, link, n, open) = made2
    BY DEF IvrPlan
  <1>2. ActiveKeys(o) \subseteq KeysOf(o)
    BY KeysOfAre DEF TablesTyped
  <1>3. all \subseteq KeysOf(o)
    BY <1>2 DEF KeysOf, OnNumber
  <1>4. ToSet(last) \subseteq KeysOf(o)
    <2> DEFINE one == <<ivr.exts[1]>>
    <2>1. one \in Seq({ivr.exts[1]}) /\ last = Among(one, ActiveKeys(o))
      OBVIOUS
    <2> HIDE DEF one, last
    <2>2. ToSet(Among(one, ActiveKeys(o))) = ToSet(one) \cap ActiveKeys(o)
      BY <2>1, AmongIs
    <2> QED
      BY <1>2, <2>1, <2>2
  <1>5. rest \in Seq(Node)
    BY WithoutIs
  <1> HIDE DEF rest, all, last
  <1>6. PICK box, f, c : ringing \in PlanWith(box, f, c)
    BY <1>5, PlanNodesRings
  <1>7. ToSet(ringing.dests) \subseteq ActiveKeys(o)
    BY <1>5, PlanNodesRings
  <1> HIDE DEF ringing
  <1>8. made2.dests = ringing.dests /\ made2.menu = all /\ made2.fallbacks = last
    BY <1>6 DEF PlanWith
  <1> QED
    BY <1>1, <1>2, <1>3, <1>4, <1>7, <1>8 DEF Rings

LEMMA InboundRings ==
    ASSUME LinesTyped, NEW n \in DOMAIN numbers, NEW open \in BOOLEAN
    PROVE  LET o == numbers[n].owner
           IN  /\ Rings(InboundPlan(n, open)) \subseteq KeysOf(o)
               /\ ~(n \in DOMAIN routes /\ o # 0 /\ routes[n].owner = o) =>
                    /\ InboundPlan(n, open).menu = {}
                    /\ ToSet(InboundPlan(n, open).dests) \subseteq {ExtensionKeyFor(n, numbers[n].link.digits, o)} \ {NoKey}
  <1> DEFINE row    == numbers[n]
             o      == row.owner
             stored == n \in DOMAIN routes /\ o # 0 /\ routes[n].owner = o
             linked == IF row.link = NoKey THEN NoKey ELSE ExtensionKeyFor(n, row.link.digits, o)
             keys   == IF linked = NoKey THEN <<>> ELSE <<linked>>
             own    == routes[n].nodes
             desk   == DeskFlow(row.link, o)
             nodes  == IF OfType(own, Journey) = <<>> /\ OfType(desk, {"ivr", "hours"}) # <<>>
                       THEN OfType(desk, Journey) \o own ELSE own
             menus  == OfType(nodes, {"ivr"})
             ringing   == PlanNodes(nodes, o, row.link, n, open)
             bare   == [kind |-> "ring", dests |-> keys, mailbox |-> NoKey, forward |-> FALSE, closed |-> FALSE,
                        menu |-> {}, fallbacks |-> <<>>]
             found  == InboundPlan(n, open)
  <1>1. TablesTyped /\ RowsTyped
    BY TypedParts
  <1>2. found = CASE ~stored -> ApplyDeskHandling(bare, keys, n, o)
                  [] stored /\ menus # <<>> /\ ~ringing.closed -> IvrPlan(menus[1], nodes, o, row.link, n, open)
                  [] OTHER -> ApplyDeskHandling(ringing, ringing.dests, n, o)
    BY DEF InboundPlan
  <1>3. ActiveKeys(o) \subseteq KeysOf(o)
    BY <1>1, KeysOfAre
  <1>4. ASSUME ~stored
        PROVE  Rings(found) \subseteq KeysOf(o) /\ found.menu = {}
               /\ ToSet(found.dests) \subseteq {ExtensionKeyFor(n, numbers[n].link.digits, o)} \ {NoKey}
    <2>1. found = ApplyDeskHandling(bare, keys, n, o)
      BY <1>2, <1>4
    <2>2. linked # NoKey => linked \in KeysOf(o) /\ linked \in Key /\ linked = ExtensionKeyFor(n, numbers[n].link.digits, o)
      BY <1>1, KeyForIs, KeysOfAre
    <2> HIDE DEF linked
    <2>3. keys \in Seq(Key) /\ ToSet(keys) \subseteq {linked} \ {NoKey}
      BY <2>2, EmptySeq DEF ToSet
    <2> HIDE DEF keys
    <2>4. (\E box, f, c : bare \in PlanWith(box, f, c)) /\ bare.dests = keys /\ bare.menu = {}
      <3>1. bare \in PlanWith(NoKey, FALSE, FALSE) /\ bare.dests = keys /\ bare.menu = {}
        BY <2>3, EmptySeq DEF PlanWith
      <3> QED
        BY <3>1
    <2> HIDE DEF bare, found, stored
    <2>5. ToSet(found.dests) \subseteq ToSet(keys) /\ found.menu = {} /\ ToSet(found.fallbacks) \subseteq ActiveKeys(o)
      <3>1. PICK box, f, c : bare \in PlanWith(box, f, c)
        BY <2>4
      <3>2. /\ ToSet(ApplyDeskHandling(bare, keys, n, o).dests) \subseteq ToSet(bare.dests)
            /\ ApplyDeskHandling(bare, keys, n, o).menu = bare.menu
            /\ ToSet(ApplyDeskHandling(bare, keys, n, o).fallbacks) \subseteq ActiveKeys(o)
        BY <1>1, <3>1, DeskHandlingRings
      <3> QED
        BY <2>1, <2>4, <3>2
    <2> QED
      BY <1>3, <2>2, <2>3, <2>5 DEF Rings
  <1>5. ASSUME stored
        PROVE  Rings(found) \subseteq KeysOf(o)
    <2>1. own \in Seq(Node) /\ desk \in Seq(Node)
      BY <1>1, <1>5, DeskFlowIs DEF TablesTyped, RoutesTyped, RouteRow
    <2> HIDE DEF own, desk
    <2>2. nodes \in Seq(Node)
      BY <2>1, NodesPicked, ConcatProperties
    <2> HIDE DEF nodes
    <2>3. PICK box, f, c : ringing \in PlanWith(box, f, c)
      BY <1>1, <2>2, PlanNodesRings
    <2>4. ToSet(ringing.dests) \subseteq ActiveKeys(o) /\ ringing.menu = {}
      BY <1>1, <2>2, PlanNodesRings
    <2>5. Rings(IvrPlan(menus[1], nodes, o, row.link, n, open)) \subseteq KeysOf(o)
      BY <1>1, <2>2, IvrRings
    <2> HIDE DEF ringing, menus, found, stored
    <2>6. Rings(ApplyDeskHandling(ringing, ringing.dests, n, o)) \subseteq KeysOf(o)
      BY <1>1, <1>3, <2>3, <2>4, DeskHandlingRings DEF Rings
    <2> QED
      BY <1>2, <1>5, <2>5, <2>6
  <1> HIDE DEF found
  <1> QED
    BY <1>4, <1>5 DEF found

LEMMA PlansRingOwn == LinesTyped => PlanRingsOwn
  BY InboundRings DEF PlanRingsOwn

\* A call to a customer's number rings that customer's extensions and no
\* other's, whatever flows, menus and desks' flows name, and whoever has owned
\* the rows since they were saved (inbound_plan).
THEOREM CallsRingOwn == Spec => []PlanRingsOwn
  BY LinesAreTyped, PlansRingOwn, PTL

----------------------------------------------------------------------------
(* What the dial plan answers for a number.                                *)

\* Digits dialled on a number reach an extension when an active one has them.
LEMMA KeyForFound ==
    ASSUME RowsTyped, NEW n, NEW i \in Dialable(n)
    PROVE  KeyFor(n, exts[i].digits) # NoKey
  <1> DEFINE found == {x \in Dialable(n) : exts[x].digits = exts[i].digits}
  <1>1. found # {} /\ found \subseteq DOMAIN exts
    BY DEF Dialable, OnNumber, Listed
  <1>2. found \subseteq Nat
    BY <1>1 DEF RowsTyped
  <1>3. Min(found) \in DOMAIN exts
    BY <1>1, <1>2, MinIn
  <1>4. KeyFor(n, exts[i].digits) = IF found = {} THEN NoKey ELSE KeyOf(Min(found))
    BY DEF KeyFor
  <1> HIDE DEF found
  <1> QED
    BY <1>1, <1>3, <1>4, KeyOfIs

LEMMA KeyForTyped ==
    ASSUME RowsTyped, NEW n, NEW d
    PROVE  KeyFor(n, d) \in Key
  <1> DEFINE found == {x \in Dialable(n) : exts[x].digits = d}
  <1>1. found \subseteq DOMAIN exts /\ found \subseteq Nat
    BY DEF Dialable, OnNumber, Listed, RowsTyped
  <1>2. found # {} => Min(found) \in DOMAIN exts
    BY <1>1, MinIn
  <1>3. KeyFor(n, d) = IF found = {} THEN NoKey ELSE KeyOf(Min(found))
    BY DEF KeyFor
  <1>4. NoKey \in Key
    BY DEF NoKey, Key
  <1> HIDE DEF found
  <1> QED
    BY <1>2, <1>3, <1>4, KeyOfIs

\* An account with an active extension has one that stands for its flow.
LEMMA AnchorFound ==
    ASSUME LinesTyped, NEW n \in DOMAIN numbers
    PROVE  LET o == numbers[n].owner
           IN  /\ NumberFlowAnchor(n) \in Key
               /\ o # 0 /\ n \in DOMAIN routes /\ routes[n].owner = o /\ ActiveKeys(o) # {} =>
                    NumberFlowAnchor(n) # NoKey
  <1> DEFINE o       == numbers[n].owner
             allowed == ActiveKeys(o)
             none    == o = 0 \/ n \notin DOMAIN routes \/ allowed = {} \/ routes[n].owner # o
             named   == Among(Named(routes[n].nodes), allowed)
             least   == CHOOSE k \in allowed : \A l \in allowed : k = l \/ Before(k, l)
  <1>1. TablesTyped /\ RowsTyped
    BY TypedParts
  <1>2. allowed \subseteq Key \ {NoKey} /\ IsFiniteSet(allowed)
    BY <1>1, KeysOfAre, FS_Subset
  <1>3. NumberFlowAnchor(n) = IF none THEN NoKey ELSE IF named # <<>> THEN named[1] ELSE least
    BY DEF NumberFlowAnchor
  <1>4. ~none /\ named # <<>> => named[1] \in allowed
    <2> SUFFICES ASSUME ~none, named # <<>>
                 PROVE  named[1] \in allowed
      OBVIOUS
    <2>1. routes[n].nodes \in Seq(Node)
      BY <1>1 DEF TablesTyped, RoutesTyped, RouteRow
    <2>2. Named(routes[n].nodes) \in Seq(Key)
      BY <2>1, NamedIs
    <2>3. named \in Seq(Key) /\ ToSet(named) \subseteq allowed
      BY <2>2, AmongIs
    <2> QED
      BY <2>3, SetOfSeq
  <1>5. allowed # {} => \E k \in allowed : \A l \in allowed : k = l \/ Before(k, l)
    BY <1>2, LeastKey
  <1>6. allowed # {} => least \in allowed
    BY <1>5
  <1>7. NoKey \in Key
    BY DEF NoKey, Key
  <1>8. none \/ allowed # {}
    OBVIOUS
  <1>9. ~none => NumberFlowAnchor(n) \in allowed
    <2> HIDE DEF named, least, allowed, none
    <2> QED
      BY <1>3, <1>4, <1>6, <1>8
  <1> QED
    BY <1>2, <1>3, <1>7, <1>9

LEMMA FirstTried ==
    ASSUME NEW a \in Key, NEW b \in Key, NEW c \in Key, a # NoKey \/ b # NoKey \/ c # NoKey
    PROVE  Without(<<a, b, c>>, NoKey) # <<>> /\ Without(<<a, b, c>>, NoKey)[1] # NoKey
  <1> DEFINE tried == <<a, b, c>>
             found == Without(tried, NoKey)
  <1>1. tried \in Seq(Key) /\ ToSet(tried) = {a, b, c}
    <2>1. tried \in Seq(Key)
      OBVIOUS
    <2>2. DOMAIN tried = 1..3 /\ tried[1] = a /\ tried[2] = b /\ tried[3] = c
      OBVIOUS
    <2>3. 1..3 = {1, 2, 3}
      OBVIOUS
    <2> HIDE DEF tried
    <2> QED
      BY <2>1, <2>2, <2>3 DEF ToSet
  <1> HIDE DEF tried
  <1>2. found \in Seq(Key) /\ ToSet(found) = ToSet(tried) \ {NoKey} /\ found # <<>>
    <2>1. found \in Seq(Key) /\ ToSet(found) = ToSet(tried) \ {NoKey}
      BY <1>1, WithoutIs
    <2>2. ToSet(<<>>) = {}
      BY DEF ToSet
    <2> QED
      BY <1>1, <2>1, <2>2
  <1>3. found[1] \in ToSet(found)
    BY <1>2, SetOfSeq
  <1> QED
    BY <1>2, <1>3 DEF tried

LEMMA Served ==
    ASSUME LinesTyped, NEW n \in DOMAIN numbers, NEW open \in BOOLEAN, numbers[n].owner # 0,
           (ToSet(InboundPlan(n, open).dests) \cup InboundPlan(n, open).menu) \cap ActiveKeys(numbers[n].owner) # {}
    PROVE  NumberExtension(n) # NoKey
  <1> DEFINE o        == numbers[n].owner
             stored   == n \in DOMAIN routes /\ o # 0 /\ routes[n].owner = o
             fallback == IF o = 0 THEN NoKey ELSE EffectiveDefault(defaults[o].fallback, o)
             linked   == KeyFor(n, numbers[n].link.digits)
             second   == KeyFor(n, fallback.digits)
             found    == Without(<<linked, second, NumberFlowAnchor(n)>>, NoKey)
  <1>1. TablesTyped /\ RowsTyped
    BY TypedParts
  <1>2. linked \in Key /\ second \in Key /\ NumberFlowAnchor(n) \in Key
    BY <1>1, KeyForTyped, AnchorFound
  <1>3. NumberExtension(n) = IF found = <<>> THEN NoKey ELSE found[1]
    BY DEF NumberExtension
  <1>4. stored => NumberFlowAnchor(n) # NoKey
    BY AnchorFound
  <1>5. ~stored => linked # NoKey
    <2> SUFFICES ASSUME ~stored
                 PROVE  linked # NoKey
      OBVIOUS
    <2> DEFINE k == ExtensionKeyFor(n, numbers[n].link.digits, o)
    <2>1. InboundPlan(n, open).menu = {} /\ ToSet(InboundPlan(n, open).dests) \subseteq {k} \ {NoKey}
      BY InboundRings
    <2>2. k \in ActiveKeys(o) /\ k # NoKey
      BY <2>1
    <2>3. k.digits = numbers[n].link.digits /\ k.line = n
      BY <1>1, <2>2, KeyForIs
    <2>4. PICK i \in Listed(o) : exts[i].active /\ KeyOf(i) = k
      BY <2>2 DEF ActiveKeys
    <2>5. i \in DOMAIN exts
      BY <2>4 DEF Listed
    <2>6. exts[i].digits = numbers[n].link.digits /\ LineOf(i) = n
      BY <1>1, <2>3, <2>4, <2>5, KeyOfIs
    <2>7. i \in Dialable(n)
      BY <2>4, <2>5, <2>6 DEF Dialable, OnNumber, Listed
    <2> QED
      BY <1>1, <2>6, <2>7, KeyForFound
  <1> HIDE DEF linked, second, stored
  <1>6. found # <<>> /\ found[1] # NoKey
    BY <1>2, <1>4, <1>5, FirstTried
  <1> HIDE DEF found
  <1> QED
    BY <1>3, <1>6

LEMMA PlansAreServed == LinesTyped => CarrierServed
  BY Served DEF CarrierServed, Live

\* A carrier's call to a number whose flow or menu would ring an active
\* extension is never turned away by the dial plan as not in service, whatever
\* was saved, moved or switched off before (number_flow_anchor, inbound_plan).
THEOREM CarriersServed == Spec => []CarrierServed
  BY LinesAreTyped, PlansAreServed, PTL

----------------------------------------------------------------------------
(* No extension is left on a number that is gone.                          *)

Ids     == {0} \cup {numbers[n].id : n \in DOMAIN numbers}
OnLines == \A i \in DOMAIN exts : exts[i].line \in Ids
Busy(w) == jobs[w].op # "idle"

\* Until two requests are under way at once, only the request that takes a
\* number down sees rows of a number that is gone, and a row about to be
\* written goes on a number there is.
LinesHeld ==
    ~crossed =>
        /\ \A v, w \in Threads : Busy(v) /\ Busy(w) => v = w
        /\ OnLines \/ \E w \in Threads : jobs[w].op = "take down"
        /\ \A w \in Threads : jobs[w].op = "write extension" => jobs[w].line \in Ids

\* A thread takes a request, or a step of the one it has.
Serves(w) == (\E r : Ask(w, r)) \/ (crossed' = crossed /\ Busy(w))

\* A thread that takes a step before two requests were under way is the only
\* one at work, and finds every row on a number unless it takes one down.
LEMMA AtWorkAlone ==
    ASSUME LinesHeld, NEW w \in Threads, Serves(w), ~crossed'
    PROVE  /\ ~crossed /\ \A v \in Threads \ {w} : ~Busy(v)
           /\ jobs[w].op # "take down" => OnLines
  <1>1. ~crossed
    BY DEF Serves, Ask
  <1>2. Idle.op = "idle"
    BY DEF Idle
  <1>3. \A v \in Threads \ {w} : ~Busy(v)
    <2>1. CASE \E r : Ask(w, r)
      <3>1. \A v \in Threads : jobs[v] = Idle
        BY <2>1 DEF Ask
      <3> QED
        BY <1>2, <3>1 DEF Busy
    <2>2. CASE Busy(w)
      BY <1>1, <2>2 DEF LinesHeld
    <2> QED
      BY <2>1, <2>2 DEF Serves
  <1>4. jobs[w].op # "take down" => \A v \in Threads : jobs[v].op # "take down"
    BY <1>3 DEF Busy
  <1> QED
    BY <1>1, <1>3, <1>4 DEF LinesHeld

LEMMA HeldOn ==
    ASSUME LinesHeld, NEW w \in Threads, Serves(w), \A v \in Threads \ {w} : jobs'[v] = jobs[v],
           ~crossed' => OnLines' \/ jobs'[w].op = "take down",
           ~crossed' /\ jobs'[w].op = "write extension" => jobs'[w].line \in Ids'
    PROVE  LinesHeld'
  <1> SUFFICES ASSUME ~crossed'
               PROVE  /\ \A u, v \in Threads : Busy(u)' /\ Busy(v)' => u = v
                      /\ OnLines' \/ \E v \in Threads : jobs'[v].op = "take down"
                      /\ \A v \in Threads : jobs'[v].op = "write extension" => jobs'[v].line \in Ids'
    BY DEF LinesHeld
  <1>1. \A v \in Threads \ {w} : jobs'[v].op = "idle"
    BY AtWorkAlone DEF Busy
  <1> QED
    BY <1>1 DEF Busy

LEMMA OneGoes ==
    ASSUME JobsTyped, NEW w \in Threads, NEW j, Goes(w, j)
    PROVE  jobs'[w] = j /\ \A v \in Threads \ {w} : jobs'[v] = jobs[v]
  BY DEF JobsTyped, Goes

\* Rows stay on their numbers when no number goes, and rows move to numbers.
LEMMA RowsHeld ==
    ASSUME LinesTyped, LinesHeld, NEW w \in Threads, Serves(w), jobs[w].op # "take down",
           \A v \in Threads \ {w} : jobs'[v] = jobs[v],
           Ids \subseteq Ids',
           ~crossed' => \A i \in DOMAIN exts' : exts'[i].line \in Ids' \/ (i \in DOMAIN exts /\ exts'[i].line = exts[i].line),
           ~crossed' /\ jobs'[w].op = "write extension" => jobs'[w].line \in Ids'
    PROVE  LinesHeld'
  <1>1. ~crossed' => OnLines'
    <2>1. ~crossed' => OnLines
      BY AtWorkAlone
    <2> QED
      BY <2>1 DEF OnLines
  <1> QED
    BY <1>1, HeldOn

\* A step that leaves numbers and extensions as they are.
LEMMA NothingMoves ==
    ASSUME LinesTyped, LinesHeld, NEW w \in Threads, Serves(w), jobs[w].op # "take down", NEW j, Goes(w, j),
           UNCHANGED <<numbers, exts>>,
           j.op = "write extension" => j.line \in Ids
    PROVE  LinesHeld'
  <1>1. jobs'[w] = j /\ \A v \in Threads \ {w} : jobs'[v] = jobs[v]
    BY TypedParts, OneGoes
  <1>2. Ids' = Ids
    BY DEF Ids
  <1> QED
    BY <1>1, <1>2, RowsHeld

LEMMA AskedFor ==
    ASSUME NEW w \in Threads, NEW r, Ask(w, r)
    PROVE  Serves(w) /\ jobs[w].op # "take down"
  BY DEF Ask, Serves, Idle

LEMMA GoingOn ==
    ASSUME NEW w \in Threads, NEW j, NEW n, NEW ok, jobs[w].op # "idle",
           Then(w, j) \/ Ends(w, ok) \/ Provides(w, j, n)
    PROVE  Serves(w)
  BY DEF Then, Ends, Provides, Serves, Busy

LEMMA WriteJobHeld ==
    ASSUME NEW o, NEW d, NEW n, NEW re, NEW sw, NEW prov, n = 0 \/ n \in DOMAIN numbers
    PROVE  WriteJob(o, d, n, re, sw, prov).line \in Ids
  <1> DEFINE id == Existing(o, d, n, re)
             line == IF n = 0 THEN 0 ELSE numbers[n].id
  <1>1. line \in Ids
    BY DEF Ids
  <1>2. WriteJob(o, d, n, re, sw, prov) \in
          [op : {"write extension"}, o : {o}, d : {d}, n : {n}, re : {re}, sw : {sw}, id : {id}, line : {line},
           prov : {prov}]
    BY DEF WriteJob
  <1> HIDE DEF id, line, WriteJob
  <1> QED
    BY <1>1, <1>2

LEMMA SaveExtensionHeld ==
    ASSUME LinesTyped, LinesHeld, NEW w \in Threads, SaveExtension(w)
    PROVE  LinesHeld'
  <1>1. PICK o \in Owner, d \in Digits, n \in Numbers \cup {0}, re \in BOOLEAN, sw \in Switches :
          LET known == ExtensionKeyForDigits(d, o).line
              m     == IF n = 0 THEN known ELSE n
          IN  /\ MayName(o, d, m, re)
              /\ Goes(w, WriteJob(o, d, m, re, sw, FALSE)) /\ UNCHANGED tables
    BY DEF SaveExtension
  <1> DEFINE m == IF n = 0 THEN ExtensionKeyForDigits(d, o).line ELSE n
  <1>2. MayName(o, d, m, re) /\ Goes(w, WriteJob(o, d, m, re, sw, FALSE)) /\ UNCHANGED <<numbers, exts>>
    BY <1>1 DEF tables
  <1> HIDE DEF m
  <1>3. m = 0 \/ m \in DOMAIN numbers
    BY <1>2 DEF MayName
  <1>4. WriteJob(o, d, m, re, sw, FALSE).line \in Ids
    BY <1>3, WriteJobHeld
  <1>5. Serves(w) /\ jobs[w].op # "take down"
    BY AskedFor DEF SaveExtension
  <1> QED
    BY <1>2, <1>4, <1>5, NothingMoves

LEMMA AddExtensionHeld ==
    ASSUME LinesTyped, LinesHeld, NEW w \in Threads, AddExtension(w)
    PROVE  LinesHeld'
  <1> DEFINE sw == [active |-> TRUE, mail |-> FALSE]
  <1>1. PICK n \in DOMAIN numbers, d \in Digits :
          Goes(w, WriteJob(numbers[n].owner, d, n, FALSE, sw, FALSE)) /\ UNCHANGED tables
    BY DEF AddExtension
  <1> HIDE DEF sw
  <1>2. WriteJob(numbers[n].owner, d, n, FALSE, sw, FALSE).line \in Ids
    BY WriteJobHeld
  <1>3. UNCHANGED <<numbers, exts>>
    BY <1>1 DEF tables
  <1>4. Serves(w) /\ jobs[w].op # "take down"
    BY AskedFor DEF AddExtension
  <1> QED
    BY <1>1, <1>2, <1>3, <1>4, NothingMoves

LEMMA ProvisionHeld ==
    ASSUME LinesTyped, LinesHeld, NEW w \in Threads, Provision(w)
    PROVE  LinesHeld'
  <1> DEFINE j    == jobs[w]
             sw   == [active |-> TRUE, mail |-> FALSE]
             next == WriteJob(j.o, FreeDigits(j.n), j.n, FALSE, sw, TRUE)
  <1>1. UNCHANGED <<numbers, exts>> /\ jobs[w].op = "provision"
    BY DEF Provision, tables
  <1>2. (Then(w, next) /\ j.n \in DOMAIN numbers) \/ Ends(w, FALSE)
    BY DEF Provision, ListedNumbers
  <1>3. j.n \in DOMAIN numbers => next.line \in Ids
    <2> HIDE DEF j, sw
    <2> QED
      BY WriteJobHeld
  <1> HIDE DEF next
  <1>4. Serves(w)
    BY <1>1, <1>2, GoingOn
  <1>5. (Goes(w, next) /\ next.line \in Ids) \/ Goes(w, Idle)
    BY <1>2, <1>3 DEF Then, Ends
  <1>6. Idle.op # "write extension"
    BY DEF Idle
  <1> QED
    BY <1>1, <1>4, <1>5, <1>6, NothingMoves

LEMMA ExtensionFlowsHeld ==
    ASSUME LinesTyped, LinesHeld, NEW w \in Threads, ExtensionFlows(w)
    PROVE  LinesHeld'
  <1> DEFINE j    == jobs[w]
             next == [op |-> j.next, o |-> j.o, n |-> j.key.line, d |-> j.key.digits]
  <1>1. UNCHANGED <<numbers, exts>> /\ jobs[w].op = "extension flows" /\ (Then(w, next) \/ \E ok : Ends(w, ok))
    BY DEF ExtensionFlows
  <1>2. j.next \in {"link", "menus", "end"}
    BY <1>1, TypedParts DEF JobTyped, ExtensionFlowsJob
  <1>3. next \in [op : {"link", "menus", "end"}, o : {j.o}, n : {j.key.line}, d : {j.key.digits}]
    BY <1>2
  <1>4. next.op # "write extension" /\ Idle.op # "write extension"
    BY <1>3 DEF Idle
  <1> HIDE DEF next
  <1>5. Serves(w)
    BY <1>1, GoingOn
  <1>6. Goes(w, next) \/ Goes(w, Idle)
    BY <1>1 DEF Then, Ends
  <1> QED
    BY <1>1, <1>4, <1>5, <1>6, NothingMoves

LEMMA MenusHeld ==
    ASSUME LinesTyped, LinesHeld, NEW w \in Threads, Menus(w)
    PROVE  LinesHeld'
  <1>1. UNCHANGED <<numbers, exts>> /\ jobs[w].op = "menus" /\ \E ok : Ends(w, ok)
    BY DEF Menus
  <1>2. Serves(w) /\ Goes(w, Idle) /\ Idle.op # "write extension"
    BY <1>1, GoingOn DEF Ends, Idle
  <1> QED
    BY <1>1, <1>2, NothingMoves

LEMMA WriteDefaultsHeld ==
    ASSUME LinesTyped, LinesHeld, NEW w \in Threads, WriteDefaults(w)
    PROVE  LinesHeld'
  <1>1. UNCHANGED <<numbers, exts>> /\ jobs[w].op = "write defaults" /\ \E ok : Ends(w, ok)
    BY DEF WriteDefaults
  <1>2. Serves(w) /\ Goes(w, Idle) /\ Idle.op # "write extension"
    BY <1>1, GoingOn DEF Ends, Idle
  <1> QED
    BY <1>1, <1>2, NothingMoves

LEMMA DeleteExtensionHeld ==
    ASSUME LinesTyped, LinesHeld, NEW w \in Threads, DeleteExtension(w)
    PROVE  LinesHeld'
  <1>1. PICK i, k : Goes(w, [op |-> "drop extension", id |-> i, key |-> k]) /\ UNCHANGED tables
    BY DEF DeleteExtension
  <1> DEFINE j == [op |-> "drop extension", id |-> i, key |-> k]
  <1>2. j \in [op : {"drop extension"}, id : {i}, key : {k}]
    OBVIOUS
  <1>3. Goes(w, j) /\ UNCHANGED <<numbers, exts>>
    BY <1>1 DEF tables
  <1> HIDE DEF j
  <1>4. Serves(w) /\ jobs[w].op # "take down"
    BY AskedFor DEF DeleteExtension
  <1> QED
    BY <1>2, <1>3, <1>4, NothingMoves

LEMMA NumberJobHeld ==
    ASSUME NEW n, NEW o, NEW d, NEW dflt, NEW active, NEW prov
    PROVE  NumberJob(n, o, d, dflt, active, prov).op # "write extension"
  <1> DEFINE link  == CASE d = 0 -> NoKey [] d # 0 /\ Linked(n, o, d) # 0 -> KeyOf(Linked(n, o, d))
                        [] OTHER -> [digits |-> d, line |-> n]
             claim == IF d # 0 /\ Linked(n, o, d) # 0 /\ LineOf(Linked(n, o, d)) = 0 THEN Linked(n, o, d) ELSE 0
  <1>1. NumberJob(n, o, d, dflt, active, prov) \in
          [op : {"write number"}, n : {n}, o : {o}, d : {d}, dflt : {dflt}, active : {active}, prov : {prov},
           link : {link}, claim : {claim}]
    BY DEF NumberJob
  <1> HIDE DEF link, claim, NumberJob
  <1> QED
    BY <1>1

LEMMA SaveNumberHeld ==
    ASSUME LinesTyped, LinesHeld, NEW w \in Threads, SaveNumber(w)
    PROVE  LinesHeld'
  <1>1. PICK n, o, d, dflt, prov : Goes(w, NumberJob(n, o, d, dflt, TRUE, prov)) /\ UNCHANGED tables
    BY DEF SaveNumber
  <1>2. UNCHANGED <<numbers, exts>> /\ Serves(w) /\ jobs[w].op # "take down"
    BY <1>1, AskedFor DEF SaveNumber, tables
  <1> QED
    BY <1>1, <1>2, NumberJobHeld, NothingMoves

LEMMA ProvisionLinkHeld ==
    ASSUME LinesTyped, LinesHeld, NEW w \in Threads, ProvisionLink(w)
    PROVE  LinesHeld'
  <1> DEFINE j    == jobs[w]
             next == NumberJob(j.n, j.o, j.d, FALSE, TRUE, "link")
  <1>1. UNCHANGED <<numbers, exts>> /\ jobs[w].op = "link" /\ (Then(w, next) \/ Ends(w, FALSE))
    BY DEF ProvisionLink, tables
  <1>2. next.op # "write extension" /\ Idle.op # "write extension"
    BY NumberJobHeld DEF Idle
  <1> HIDE DEF next
  <1>3. Serves(w) /\ (Goes(w, next) \/ Goes(w, Idle))
    BY <1>1, GoingOn DEF Then, Ends
  <1> QED
    BY <1>1, <1>2, <1>3, NothingMoves

LEMMA SaveCallRouteHeld ==
    ASSUME LinesTyped, LinesHeld, NEW w \in Threads, SaveCallRoute(w)
    PROVE  LinesHeld'
  <1>1. PICK o : Goes(w, [op |-> "menus", o |-> o]) /\ UNCHANGED <<numbers, exts>>
    BY DEF SaveCallRoute
  <1>2. [op |-> "menus", o |-> o].op = "menus"
    OBVIOUS
  <1>3. Serves(w) /\ jobs[w].op # "take down"
    BY AskedFor DEF SaveCallRoute
  <1> QED
    BY <1>1, <1>2, <1>3, NothingMoves

LEMMA SaveRoutingFlowHeld ==
    ASSUME LinesTyped, LinesHeld, NEW w \in Threads, SaveRoutingFlow(w)
    PROVE  LinesHeld'
  <1>1. PICK o : Goes(w, [op |-> "menus", o |-> o]) /\ UNCHANGED <<numbers, exts>>
    BY DEF SaveRoutingFlow
  <1>2. [op |-> "menus", o |-> o].op = "menus"
    OBVIOUS
  <1>3. Serves(w) /\ jobs[w].op # "take down"
    BY AskedFor DEF SaveRoutingFlow
  <1> QED
    BY <1>1, <1>2, <1>3, NothingMoves

LEMMA SetDefaultsHeld ==
    ASSUME LinesTyped, LinesHeld, NEW w \in Threads, SetDefaults(w)
    PROVE  LinesHeld'
  <1>1. PICK o, doc : Goes(w, [op |-> "write defaults", o |-> o, doc |-> doc]) /\ UNCHANGED tables
    BY DEF SetDefaults
  <1> DEFINE j == [op |-> "write defaults", o |-> o, doc |-> doc]
  <1>2. j \in [op : {"write defaults"}, o : {o}, doc : {doc}]
    OBVIOUS
  <1>3. Goes(w, j) /\ UNCHANGED <<numbers, exts>>
    BY <1>1 DEF tables
  <1> HIDE DEF j
  <1>4. Serves(w) /\ jobs[w].op # "take down"
    BY AskedFor DEF SetDefaults
  <1> QED
    BY <1>2, <1>3, <1>4, NothingMoves

\* A request of one step leaves the numbers their ids and the rows theirs.
LEMMA SimpleHeld ==
    ASSUME LinesTyped, LinesHeld, NEW w \in Threads, NEW r, Simple(w, r), Ids \subseteq Ids', exts' = exts
    PROVE  LinesHeld'
  <1>1. Ask(w, r) /\ jobs' = jobs /\ jobs[w] = Idle
    BY DEF Simple, Ask
  <1>2. jobs[w].op = "idle"
    BY <1>1 DEF Idle
  <1>3. Serves(w)
    BY <1>1, AskedFor
  <1> QED
    BY <1>1, <1>2, <1>3, RowsHeld

LEMMA CustomersHeld ==
    ASSUME LinesTyped, LinesHeld, NEW w \in Threads, DeleteRoutingFlow(w) \/ SaveGroup(w) \/ SaveDevice(w)
    PROVE  LinesHeld'
  <1>1. UNCHANGED <<numbers, exts>> /\ \E r : Simple(w, r)
    BY DEF DeleteRoutingFlow, SaveGroup, SaveDevice
  <1> QED
    BY <1>1, SimpleHeld DEF Ids

LEMMA IdsKept ==
    ASSUME DOMAIN numbers \subseteq DOMAIN numbers', \A n \in DOMAIN numbers : numbers'[n].id = numbers[n].id
    PROVE  Ids \subseteq Ids'
  <1> SUFFICES ASSUME NEW x \in Ids PROVE x \in Ids'
    OBVIOUS
  <1>1. CASE x = 0
    BY <1>1 DEF Ids
  <1>2. CASE \E n \in DOMAIN numbers : x = numbers[n].id
    BY <1>2 DEF Ids
  <1> QED
    BY <1>1, <1>2 DEF Ids

LEMMA DiscontinueHeld ==
    ASSUME LinesTyped, LinesHeld, NEW w \in Threads, Discontinue(w)
    PROVE  LinesHeld'
  <1>1. PICK n \in DOMAIN numbers :
          numbers' = [numbers EXCEPT ![n].active = FALSE] /\ exts' = exts /\ Simple(w, "number")
    BY DEF Discontinue
  <1>2. \A x \in Line : [x EXCEPT !.active = FALSE].id = x.id
    BY DEF Line
  <1>3. \A m \in DOMAIN numbers : numbers'[m].id = numbers[m].id
    BY <1>1, <1>2, TypedParts
  <1>4. Ids \subseteq Ids'
    BY <1>1, <1>3, IdsKept
  <1> QED
    BY <1>1, <1>4, SimpleHeld

LEMMA SetDefaultOutboundHeld ==
    ASSUME LinesTyped, LinesHeld, NEW w \in Threads, SetDefaultOutbound(w)
    PROVE  LinesHeld'
  <1>1. PICK k, n : numbers' = Presenting(k, n)
    BY DEF SetDefaultOutbound
  <1>2. exts' = exts /\ Simple(w, "defaults")
    BY DEF SetDefaultOutbound
  <1>3. Ids \subseteq Ids'
    BY <1>1, PresentingKeeps, IdsKept
  <1> QED
    BY <1>2, <1>3, SimpleHeld

LEMMA ProvisionDefaultHeld ==
    ASSUME LinesTyped, LinesHeld, NEW w \in Threads, ProvisionDefault(w)
    PROVE  LinesHeld'
  <1> DEFINE j    == jobs[w]
             k    == [digits |-> j.d, line |-> j.n]
             next == [j EXCEPT !.op = "provision route"]
  <1>1. /\ j.op = "provision default" /\ exts' = exts
        /\ Then(w, next) \/ Ends(w, FALSE)
        /\ numbers' = numbers \/ numbers' = Presenting(k, j.n)
    BY DEF ProvisionDefault
  <1>2. next.op # "write extension" /\ Idle.op # "write extension"
    <2>1. j \in ProvisionJob
      BY <1>1, TypedParts DEF JobTyped
    <2> QED
      BY <2>1 DEF ProvisionJob, Idle
  <1> HIDE DEF next, k
  <1>3. Ids \subseteq Ids'
    <2>1. CASE numbers' = numbers
      BY <2>1 DEF Ids
    <2>2. CASE numbers' = Presenting(k, j.n)
      BY <2>2, PresentingKeeps, IdsKept
    <2> QED
      BY <1>1, <2>1, <2>2
  <1>4. Serves(w)
    BY <1>1, GoingOn
  <1>5. jobs'[w].op # "write extension" /\ \A v \in Threads \ {w} : jobs'[v] = jobs[v]
    BY <1>1, <1>2, TypedParts, OneGoes DEF Then, Ends
  <1> QED
    BY <1>1, <1>3, <1>4, <1>5, RowsHeld

\* Flows say nothing of where rows are.
LEMMA ProvisionRestHeld ==
    ASSUME LinesTyped, LinesHeld, NEW w \in Threads, ProvisionRoute(w) \/ ProvisionDesk(w)
    PROVE  LinesHeld'
  <1> DEFINE j   == jobs[w]
             one == [j EXCEPT !.op = "provision desk"]
             two == [op |-> "menus", o |-> j.o]
  <1>1. /\ j.op \in {"provision route", "provision desk"} /\ UNCHANGED <<numbers, exts>>
        /\ Then(w, one) \/ Provides(w, two, j.n) \/ Ends(w, FALSE)
    BY DEF ProvisionRoute, ProvisionDesk
  <1>2. one.op # "write extension" /\ two.op # "write extension" /\ Idle.op # "write extension"
    <2>1. j \in ProvisionJob
      BY <1>1, TypedParts DEF JobTyped
    <2> QED
      BY <2>1 DEF ProvisionJob, Idle
  <1> HIDE DEF one, two
  <1>3. Serves(w) /\ j.op # "take down"
    BY <1>1, GoingOn
  <1>4. Goes(w, one) \/ Goes(w, two) \/ Goes(w, Idle)
    BY <1>1 DEF Then, Provides, Ends
  <1> QED
    BY <1>1, <1>2, <1>3, <1>4, NothingMoves

LEMMA WriteNumberHeld ==
    ASSUME LinesTyped, LinesHeld, NEW w \in Threads, WriteNumber(w)
    PROVE  LinesHeld'
  <1> DEFINE j       == jobs[w]
             cleared == [m \in DOMAIN numbers |->
                           [numbers[m] EXCEPT !.dflt = @ /\ ~(j.dflt /\ numbers[m].link = j.link)]]
             fresh   == j.n \notin DOMAIN numbers
             id      == IF fresh THEN made.lines + 1 ELSE numbers[j.n].id
             row     == [id |-> id, owner |-> j.o, link |-> j.link, dflt |-> j.dflt, active |-> j.active]
             op      == IF j.claim = 0 THEN "adopt" ELSE "claim"
             next    == [op |-> op, n |-> j.n, o |-> j.o, d |-> j.d, claim |-> j.claim, prov |-> j.prov]
  <1>1. /\ j.op = "write number" /\ exts' = exts
        /\ numbers' = Put(cleared, j.n, row)
        /\ Then(w, next)
    BY DEF WriteNumber
  <1>2. next.op # "write extension"
    <2>1. next \in [op : {"adopt", "claim"}, n : {j.n}, o : {j.o}, d : {j.d}, claim : {j.claim}, prov : {j.prov}]
      OBVIOUS
    <2> HIDE DEF next
    <2> QED
      BY <2>1
  <1>3. \A m \in DOMAIN numbers : cleared[m].id = numbers[m].id
    <2>1. \A x \in Line : \A b : [x EXCEPT !.dflt = b].id = x.id
      BY DEF Line
    <2> QED
      BY <2>1, TypedParts
  <1>4. row.id = id
    <2>1. row \in [id : {id}, owner : {j.o}, link : {j.link}, dflt : {j.dflt}, active : {j.active}]
      OBVIOUS
    <2> HIDE DEF row
    <2> QED
      BY <2>1
  <1>5. DOMAIN cleared = DOMAIN numbers
    OBVIOUS
  <1> HIDE DEF cleared, row, next
  <1>6. DOMAIN numbers' = DOMAIN numbers \cup {j.n} /\ \A m \in DOMAIN numbers : numbers'[m].id = numbers[m].id
    BY <1>1, <1>3, <1>4, <1>5 DEF Put
  <1>7. Ids \subseteq Ids'
    BY <1>6, IdsKept
  <1>8. Serves(w)
    BY <1>1, GoingOn
  <1>9. jobs'[w] = next /\ \A v \in Threads \ {w} : jobs'[v] = jobs[v]
    BY <1>1, TypedParts, OneGoes DEF Then
  <1> QED
    BY <1>1, <1>2, <1>7, <1>8, <1>9, RowsHeld

LEMMA WriteExtensionHeld ==
    ASSUME LinesTyped, LinesHeld, NEW w \in Threads, WriteExtension(w)
    PROVE  LinesHeld'
  <1> DEFINE j       == jobs[w]
             created == j.id \notin DOMAIN exts
             i       == IF created THEN made.exts + 1 ELSE j.id
             owner   == IF j.o # 0 \/ created \/ j.re THEN j.o ELSE exts[i].owner
             row     == [digits |-> j.d, line |-> j.line, owner |-> owner,
                         active |-> j.sw.active, mail |-> j.sw.mail]
             key     == [digits |-> j.d, line |-> j.n]
             joins   == created /\ owner # 0 /\ row.active
             after   == CASE j.prov -> "link" [] ~j.prov /\ j.id = 0 /\ owner # 0 -> "menus" [] OTHER -> "end"
             next    == [op |-> "extension flows", key |-> key, o |-> owner, joins |-> joins, mail |-> row.mail,
                         next |-> after]
  <1>1. /\ j.op = "write extension" /\ numbers' = numbers
        /\ (Ends(w, FALSE) /\ exts' = exts) \/ (Then(w, next) /\ exts' = Put(exts, i, row))
    BY DEF WriteExtension, tables
  <1>2. next.op # "write extension" /\ Idle.op # "write extension"
    <2>1. next \in [op : {"extension flows"}, key : {key}, o : {owner}, joins : {joins}, mail : {row.mail},
                    next : {after}]
      OBVIOUS
    <2> HIDE DEF next
    <2> QED
      BY <2>1 DEF Idle
  <1>3. row.line = j.line
    OBVIOUS
  <1> HIDE DEF next, row, i
  <1>4. Ids' = Ids
    BY <1>1 DEF Ids
  <1>5. Serves(w)
    BY <1>1, GoingOn
  <1>6. ~crossed' => j.line \in Ids
    BY <1>1, <1>5, AtWorkAlone DEF LinesHeld
  <1>7. ~crossed' => \A x \in DOMAIN exts' : exts'[x].line \in Ids' \/ (x \in DOMAIN exts /\ exts'[x].line = exts[x].line)
    BY <1>1, <1>3, <1>4, <1>6 DEF Put
  <1>8. jobs'[w].op # "write extension" /\ \A v \in Threads \ {w} : jobs'[v] = jobs[v]
    BY <1>1, <1>2, TypedParts, OneGoes DEF Then, Ends
  <1> QED
    BY <1>1, <1>4, <1>5, <1>7, <1>8, RowsHeld

LEMMA DropExtensionHeld ==
    ASSUME LinesTyped, LinesHeld, NEW w \in Threads, DropExtension(w)
    PROVE  LinesHeld'
  <1>1. /\ jobs[w].op = "drop extension" /\ numbers' = numbers /\ Ends(w, TRUE)
        /\ exts' = Restrict(exts, DOMAIN exts \ {jobs[w].id})
    BY DEF DropExtension
  <1>2. \A x \in DOMAIN exts' : x \in DOMAIN exts /\ exts'[x].line = exts[x].line
    BY <1>1 DEF Restrict
  <1>3. Ids' = Ids
    BY <1>1 DEF Ids
  <1>4. Serves(w)
    BY <1>1, GoingOn
  <1>5. jobs'[w] = Idle /\ \A v \in Threads \ {w} : jobs'[v] = jobs[v]
    BY <1>1, TypedParts, OneGoes DEF Ends
  <1>6. Idle.op # "write extension"
    BY DEF Idle
  <1> QED
    BY <1>1, <1>2, <1>3, <1>4, <1>5, <1>6, RowsHeld

\* Rows that move come to a number there is.
LEMMA RowsMoved ==
    ASSUME LinesTyped, NEW x \in DOMAIN exts, NEW line
    PROVE  [exts[x] EXCEPT !.line = line].line = line
  BY TypedParts DEF Row

LEMMA MoveHeld ==
    ASSUME LinesTyped, LinesHeld, NEW w \in Threads, Serves(w), jobs[w].op # "take down", numbers' = numbers,
           \A v \in Threads \ {w} : jobs'[v] = jobs[v], jobs'[w].op # "write extension", NEW n,
           \A x \in DOMAIN exts' : x \in DOMAIN exts /\ exts'[x].line \in {exts[x].line, Here(n)}
    PROVE  LinesHeld'
  <1>1. Here(n) \in Ids /\ Ids' = Ids
    BY DEF Here, Ids
  <1> QED
    BY <1>1, RowsHeld

LEMMA ClaimHeld ==
    ASSUME LinesTyped, LinesHeld, NEW w \in Threads, Claim(w)
    PROVE  LinesHeld'
  <1> DEFINE j     == jobs[w]
             adopt == [j EXCEPT !.op = "adopt"]
             next  == Then(w, adopt)
  <1>1. j.op = "claim" /\ numbers' = numbers
    BY DEF Claim
  <1>2. adopt.op # "write extension" /\ Idle.op # "write extension"
    <2>1. j \in MoveJob
      BY <1>1, TypedParts DEF JobTyped
    <2> QED
      BY <2>1 DEF MoveJob, Idle
  <1>3. /\ next \/ \E ok : Ends(w, ok)
        /\ \/ exts' = exts
           \/ exts' = [i \in DOMAIN exts |-> IF i \in {j.claim} THEN [exts[i] EXCEPT !.line = Here(j.n)] ELSE exts[i]]
    BY DEF Claim, Move
  <1> HIDE DEF adopt
  <1>4. Serves(w)
    BY <1>1, <1>3, GoingOn
  <1>5. jobs'[w].op # "write extension" /\ \A v \in Threads \ {w} : jobs'[v] = jobs[v]
    BY <1>2, <1>3, TypedParts, OneGoes DEF Then, Ends
  <1> HIDE DEF j
  <1>6. jobs[w].op # "take down" /\ numbers' = numbers
    BY <1>1 DEF j
  <1>7. \A x \in DOMAIN exts' : x \in DOMAIN exts /\ exts'[x].line \in {exts[x].line, Here(j.n)}
    <2> TAKE x \in DOMAIN exts'
    <2>1. x \in DOMAIN exts
      BY <1>3
    <2>2. exts'[x] = exts[x] \/ exts'[x] = IF x \in {j.claim} THEN [exts[x] EXCEPT !.line = Here(j.n)] ELSE exts[x]
      BY <1>3, <2>1
    <2>3. [exts[x] EXCEPT !.line = Here(j.n)].line = Here(j.n)
      BY <2>1, RowsMoved
    <2> QED
      BY <2>1, <2>2, <2>3
  <1> QED
    BY <1>4, <1>5, <1>6, <1>7, MoveHeld

LEMMA AdoptHeld ==
    ASSUME LinesTyped, LinesHeld, NEW w \in Threads, Adopt(w)
    PROVE  LinesHeld'
  <1> DEFINE j     == jobs[w]
             lines == {numbers[m].id : m \in {m \in DOMAIN numbers : numbers[m].owner = j.o}}
             loose == {i \in DOMAIN exts : exts[i].line = 0 /\ exts[i].owner = j.o}
             moving  == IF j.o = 0 \/ lines = {} \/ Here(j.n) # Min(lines) THEN {}
                      ELSE {i \in loose : /\ ~Taken(exts[i].digits, Here(j.n))
                                          /\ \A k \in loose : exts[k].digits = exts[i].digits => k >= i}
             one   == [op |-> "provision", n |-> j.n, o |-> j.o]
             two   == [op |-> "provision default", n |-> j.n, o |-> j.o, d |-> j.d]
             next  == CASE j.prov = "no"   -> Ends(w, TRUE)
                        [] j.prov = "auto" -> Then(w, one)
                        [] j.prov = "link" -> Then(w, two)
  <1>1. /\ j.op = "adopt" /\ numbers' = numbers
        /\ IF moving = {} THEN next /\ exts' = exts ELSE Move(w, moving, Here(j.n), next)
    BY DEF Adopt
  <1>2. j.prov \in {"no", "auto", "link"}
    BY <1>1, TypedParts DEF JobTyped, MoveJob
  <1>3. one.op # "write extension" /\ two.op # "write extension" /\ Idle.op # "write extension"
    <2>1. one \in [op : {"provision"}, n : {j.n}, o : {j.o}]
         /\ two \in [op : {"provision default"}, n : {j.n}, o : {j.o}, d : {j.d}]
      OBVIOUS
    <2> HIDE DEF one, two
    <2> QED
      BY <2>1 DEF Idle
  <1> HIDE DEF one, two, moving
  <1>4. next => Then(w, one) \/ Then(w, two) \/ \E ok : Ends(w, ok)
    BY <1>2
  <1> HIDE DEF next
  <1>5. /\ Then(w, one) \/ Then(w, two) \/ \E ok : Ends(w, ok)
        /\ \/ exts' = exts
           \/ exts' = [i \in DOMAIN exts |-> IF i \in moving THEN [exts[i] EXCEPT !.line = Here(j.n)] ELSE exts[i]]
    BY <1>1, <1>4 DEF Move
  <1>6. Serves(w)
    BY <1>1, <1>5, GoingOn
  <1>7. jobs'[w].op # "write extension" /\ \A v \in Threads \ {w} : jobs'[v] = jobs[v]
    BY <1>3, <1>5, TypedParts, OneGoes DEF Then, Ends
  <1>8. jobs[w].op # "take down" /\ numbers' = numbers
    BY <1>1
  <1> HIDE DEF j
  <1>9. \A x \in DOMAIN exts' : x \in DOMAIN exts /\ exts'[x].line \in {exts[x].line, Here(j.n)}
    <2> TAKE x \in DOMAIN exts'
    <2>1. x \in DOMAIN exts
      BY <1>5
    <2>2. exts'[x] = exts[x] \/ exts'[x] = IF x \in moving THEN [exts[x] EXCEPT !.line = Here(j.n)] ELSE exts[x]
      BY <1>5, <2>1
    <2>3. [exts[x] EXCEPT !.line = Here(j.n)].line = Here(j.n)
      BY <2>1, RowsMoved
    <2> QED
      BY <2>1, <2>2, <2>3
  <1> QED
    BY <1>6, <1>7, <1>8, <1>9, MoveHeld

\* The rows of the number that goes are the request's own to take down.
LEMMA DeleteNumberHeld ==
    ASSUME LinesTyped, LinesHeld, NEW w \in Threads, DeleteNumber(w)
    PROVE  LinesHeld'
  <1>1. PICK n, left, key : Goes(w, [op |-> "take down", n |-> n, left |-> left, key |-> key])
    BY DEF DeleteNumber
  <1> DEFINE j == [op |-> "take down", n |-> n, left |-> left, key |-> key]
  <1>2. j.op = "take down"
    <2>1. j \in [op : {"take down"}, n : {n}, left : {left}, key : {key}]
      OBVIOUS
    <2> HIDE DEF j
    <2> QED
      BY <2>1
  <1> HIDE DEF j
  <1>3. Goes(w, j)
    BY <1>1 DEF j
  <1>4. jobs'[w].op = "take down" /\ \A v \in Threads \ {w} : jobs'[v] = jobs[v]
    BY <1>2, <1>3, TypedParts, OneGoes
  <1>5. Serves(w)
    BY AskedFor DEF DeleteNumber
  <1> QED
    BY <1>4, <1>5, HeldOn

LEMMA TakeDownHeld ==
    ASSUME LinesTyped, LinesHeld, NEW w \in Threads, TakeDown(w)
    PROVE  LinesHeld'
  <1> DEFINE j    == jobs[w]
             next == [j EXCEPT !.left = @ \ {Min(j.left)}]
  <1>1. j.op = "take down" /\ Then(w, next)
    BY DEF TakeDown
  <1>2. next.op = "take down"
    <2>1. j \in TakeDownJob
      BY <1>1, TypedParts DEF JobTyped
    <2> QED
      BY <2>1 DEF TakeDownJob
  <1> HIDE DEF next
  <1>3. jobs'[w].op = "take down" /\ \A v \in Threads \ {w} : jobs'[v] = jobs[v]
    BY <1>1, <1>2, TypedParts, OneGoes DEF Then
  <1>4. Serves(w)
    BY <1>1, GoingOn
  <1> QED
    BY <1>3, <1>4, HeldOn

LEMMA ReleaseHeld ==
    ASSUME LinesTyped, LinesHeld, NEW w \in Threads, Release(w)
    PROVE  LinesHeld'
  <1>1. /\ exts' = [i \in DOMAIN exts |-> IF LineOf(i) = 0 THEN [exts[i] EXCEPT !.line = 0] ELSE exts[i]]
        /\ Ends(w, TRUE) /\ numbers' = numbers /\ jobs[w].op = "take down"
    BY DEF Release
  <1>2. \A x \in Row : [x EXCEPT !.line = 0].line = 0
    BY DEF Row
  <1>3. OnLines'
    <2> SUFFICES ASSUME NEW i \in DOMAIN exts PROVE exts'[i].line \in Ids
      BY <1>1 DEF OnLines, Ids
    <2>1. CASE LineOf(i) = 0
      <3>1. exts'[i].line = 0
        BY <1>1, <1>2, <2>1, TypedParts
      <3> QED
        BY <3>1 DEF Ids
    <2>2. CASE LineOf(i) # 0
      <3>1. LineOf(i) \in DOMAIN numbers /\ numbers[LineOf(i)].id = exts[i].line
        BY <2>2, TypedParts, LineOfIs
      <3> QED
        BY <1>1, <2>2, <3>1 DEF Ids
    <2> QED
      BY <2>1, <2>2
  <1>4. jobs'[w] = Idle /\ \A v \in Threads \ {w} : jobs'[v] = jobs[v]
    BY <1>1, TypedParts, OneGoes DEF Ends
  <1>5. Serves(w)
    BY <1>1, GoingOn
  <1>6. Idle.op # "write extension"
    BY DEF Idle
  <1> QED
    BY <1>3, <1>4, <1>5, <1>6, HeldOn

LEMMA HeldAtFirst == Init => LinesHeld
  <1> SUFFICES ASSUME Init PROVE LinesHeld
    OBVIOUS
  <1> DEFINE first == [digits |-> Min(Digits), line |-> Min(Numbers)]
             next  == [first EXCEPT !.digits = Max(Digits)]
             bare  == [first EXCEPT !.line = 0]
             desk  == [next EXCEPT !.line = 0]
             new(k, o) == [digits |-> k.digits, line |-> IF k.line = 0 THEN 0 ELSE 1, owner |-> o,
                           active |-> TRUE, mail |-> FALSE]
  <1>1. /\ numbers = [n \in {Min(Numbers)} |->
                        [id |-> 1, owner |-> Min(Accounts), link |-> first, dflt |-> TRUE, active |-> TRUE]]
        /\ exts = <<new(first, Min(Accounts)), new(next, Min(Accounts)), new(bare, Max(Accounts)), new(desk, 0)>>
        /\ jobs = [w \in Threads |-> Idle]
    BY DEF Init
  <1>2. \A k, o : new(k, o).line \in {0, 1}
    OBVIOUS
  <1>3. 1 \in Ids /\ 0 \in Ids
    <2>1. Min(Numbers) \in DOMAIN numbers /\ numbers[Min(Numbers)].id = 1
      BY <1>1
    <2> QED
      BY <2>1 DEF Ids
  <1> HIDE DEF new, first, next, bare, desk
  <1>4. \A i \in DOMAIN exts : i \in 1..4 /\ exts[i].line \in {0, 1}
    BY <1>1, <1>2
  <1>5. \A w \in Threads : jobs[w].op = "idle"
    BY <1>1 DEF Idle
  <1> QED
    BY <1>3, <1>4, <1>5 DEF LinesHeld, OnLines, Busy

LEMMA HeldGoesOn == LinesTyped /\ LinesHeld /\ [Next]_vars => LinesHeld'
  <1> SUFFICES ASSUME LinesTyped, LinesHeld, [Next]_vars PROVE LinesHeld'
    OBVIOUS
  <1>1. CASE UNCHANGED vars
    BY <1>1 DEF vars, tables, LinesHeld, OnLines, Ids, Busy
  <1>2. CASE Next
    <2>1. PICK w \in Threads :
         \/ SaveExtension(w) \/ AddExtension(w) \/ WriteExtension(w) \/ ExtensionFlows(w) \/ Menus(w)
         \/ DeleteExtension(w) \/ DropExtension(w)
         \/ Discontinue(w) \/ SaveNumber(w) \/ WriteNumber(w) \/ Claim(w) \/ Adopt(w)
         \/ DeleteNumber(w) \/ TakeDown(w) \/ Release(w)
         \/ Provision(w) \/ ProvisionLink(w)
         \/ ProvisionDefault(w) \/ ProvisionRoute(w) \/ ProvisionDesk(w)
         \/ SaveCallRoute(w) \/ SaveRoutingFlow(w) \/ DeleteRoutingFlow(w) \/ SaveGroup(w)
         \/ SaveDevice(w) \/ SetDefaults(w) \/ WriteDefaults(w) \/ SetDefaultOutbound(w)
      BY <1>2 DEF Next
    <2> QED
      BY <2>1, SaveExtensionHeld, AddExtensionHeld, WriteExtensionHeld, ExtensionFlowsHeld, MenusHeld,
         DeleteExtensionHeld, DropExtensionHeld, DiscontinueHeld, SaveNumberHeld, WriteNumberHeld, ClaimHeld,
         AdoptHeld, DeleteNumberHeld, TakeDownHeld, ReleaseHeld, ProvisionHeld, ProvisionLinkHeld,
         ProvisionDefaultHeld, ProvisionRestHeld, SaveCallRouteHeld, SaveRoutingFlowHeld, CustomersHeld, SetDefaultsHeld,
         WriteDefaultsHeld, SetDefaultOutboundHeld
  <1> QED
    BY <1>1, <1>2

LEMMA HeldIsNoDangling == LinesHeld => NoDangling
  <1>1. Idle.op # "take down"
    BY DEF Idle
  <1> QED
    BY <1>1 DEF LinesHeld, NoDangling, OnLines, Ids, Quiet

\* Between requests no extension is on a number that is gone, so no number
\* inserted later can inherit one, whatever requests came before it one after
\* the other (delete_number, _release_dangling_extensions).
THEOREM NothingDangles == Spec => []NoDangling
  BY LinesAreTyped, HeldAtFirst, HeldGoesOn, HeldIsNoDangling, PTL DEF Spec

----------------------------------------------------------------------------
(* A provisioned number works.                                             *)

OwnIds(nums) == \A m, n \in DOMAIN nums : nums[m].id = nums[n].id => m = n

\* The customer o has an active extension d on the number n; and n's link
\* names it.
Desk(nums, held, n, d, o) ==
    /\ o \in Accounts /\ n \in DOMAIN nums /\ nums[n].owner = o
    /\ \E i \in DOMAIN held :
         held[i].digits = d /\ held[i].line = nums[n].id /\ held[i].owner = o /\ held[i].active
Ready(nums, held, n, o) == Desk(nums, held, n, nums[n].link.digits, o) /\ nums[n].link.line = n

\* The account has a number to call out on.
Presented(nums, o) == \E m \in DOMAIN nums : nums[m].owner = o /\ nums[m].dflt

\* A number whose flow rings its link.
Working(nums, held, rs, n) ==
    /\ Ready(nums, held, n, nums[n].owner)
    /\ n \in DOMAIN rs /\ rs[n].owner = nums[n].owner
    /\ \E x \in ToSet(rs[n].nodes) : x.type = "ring" /\ x.on /\ nums[n].link \in ToSet(x.exts)
    /\ Presented(nums, nums[n].owner)

ReadyFor(nums, held, j) == Ready(nums, held, j.n, j.o) /\ nums[j.n].link.digits = j.d

\* What a request that provisions a number has done so far.
Halfway(nums, held, rs, j) ==
    /\ j.op = "write extension" => (j.prov =>
         /\ j.o \in Accounts /\ j.n \in DOMAIN nums /\ nums[j.n].owner = j.o
         /\ j.line = nums[j.n].id /\ j.sw.active)
    /\ j.op = "extension flows" => (j.next = "link" => Desk(nums, held, j.key.line, j.key.digits, j.o))
    /\ j.op = "link" => Desk(nums, held, j.n, j.d, j.o)
    /\ j.op = "write number" => (j.prov = "link" =>
         j.claim = 0 /\ j.link.line = j.n /\ j.link.digits = j.d /\ Desk(nums, held, j.n, j.d, j.o))
    /\ j.op = "claim" => j.prov # "link"
    /\ j.op = "adopt" => (j.prov = "link" => ReadyFor(nums, held, j))
    /\ j.op = "provision default" => ReadyFor(nums, held, j)
    /\ j.op = "provision route" => ReadyFor(nums, held, j) /\ Presented(nums, j.o)
    /\ j.op = "provision desk" => Working(nums, held, rs, j.n)

\* Until two requests are under way at once, one that provisions a number
\* finds what its earlier transactions wrote; rows name numbers by ids of
\* their own.
LinesWhole ==
    /\ OwnIds(numbers)
    /\ ~crossed => /\ \A w \in Threads : Halfway(numbers, exts, routes, jobs[w])
                   /\ answer.line # 0 => Working(numbers, exts, routes, answer.line)

\* A row is on the one number that has its line.
LEMMA LineOfOwn ==
    ASSUME LinesTyped, OwnIds(numbers), NEW n \in DOMAIN numbers, NEW i \in DOMAIN exts, exts[i].line = numbers[n].id
    PROVE  LineOf(i) = n
  <1>1. LineOf(i) # 0
    BY TypedParts, LineOfIs
  <1>2. LineOf(i) \in DOMAIN numbers /\ numbers[LineOf(i)].id = numbers[n].id
    BY <1>1, TypedParts, LineOfIs
  <1> QED
    BY <1>2 DEF OwnIds

LEMMA DeskRow ==
    ASSUME LinesTyped, OwnIds(numbers), NEW n, NEW d, NEW o, Desk(numbers, exts, n, d, o)
    PROVE  /\ n # 0 /\ o # 0 /\ d # 0
           /\ \E i \in OnNumber(o, n) : exts[i].digits = d /\ exts[i].active /\ KeyOf(i) = [digits |-> d, line |-> n]
  <1>1. PICK i \in DOMAIN exts : exts[i].digits = d /\ exts[i].line = numbers[n].id /\ exts[i].owner = o /\ exts[i].active
    BY DEF Desk
  <1>2. n \in Numbers /\ o \in Accounts /\ d \in Digits
    BY <1>1, TypedParts DEF Desk, Row
  <1>3. LineOf(i) = n
    BY <1>1, LineOfOwn DEF Desk
  <1>4. i \in OnNumber(o, n) /\ KeyOf(i) = [digits |-> d, line |-> n]
    BY <1>1, <1>3 DEF OnNumber, Listed, KeyOf
  <1> QED
    BY <1>1, <1>2, <1>4, SmallNumbers

\* While the clock is inside business hours a plan rings the active keys of
\* every ring step that is on.
LEMMA PlanReaches ==
    ASSUME TablesTyped, NEW nodes \in Seq(Node), NEW o, o # 0, NEW link, NEW n, NEW k \in ActiveKeys(o),
           NEW x \in ToSet(nodes), x.type = "ring", x.on, k \in ToSet(x.exts)
    PROVE  k \in ToSet(PlanNodes(nodes, o, link, n, TRUE).dests)
  <1> DEFINE allowed == IF o = 0 THEN {} ELSE ActiveKeys(o)
             live    == SwitchedOn(nodes)
             hours   == {y \in DOMAIN live : live[y].type = "hours"}
             closed  == hours # {} /\ ~TRUE
             awake   == IF closed THEN SubSeq(live, 1, Min(hours)) ELSE live
             named   == Named(OfType(awake, Ringing))
             rung    == Among(Unique(named), allowed)
             boxes   == OfType(live, {"voicemail"})
             mailbox == IF boxes = <<>> THEN NoKey ELSE VoicemailKey(n, boxes[1].exts[1], o)
             forward == OfType(live, {"forward"}) # <<>>
             bare    == rung = <<>> /\ mailbox = NoKey /\ ~forward /\ ~closed
                        /\ OfType(nodes, Ringing) = <<>> /\ link \in allowed
             dests   == IF bare THEN <<link>> ELSE rung
  <1>0. PlanNodes(nodes, o, link, n, TRUE) =
          [kind |-> "ring", dests |-> dests, mailbox |-> mailbox, forward |-> forward, closed |-> closed,
           menu |-> {}, fallbacks |-> <<>>]
    BY DEF PlanNodes
  <1>1. live \in Seq(Node) /\ x \in ToSet(live)
    BY NodesPicked
  <1>2. awake = live
    OBVIOUS
  <1>3. "ring" \in Ringing
    BY DEF Ringing
  <1> HIDE DEF live, awake
  <1>4. OfType(awake, Ringing) \in Seq(Node) /\ x \in ToSet(OfType(awake, Ringing))
    BY <1>1, <1>2, <1>3, NodesPicked
  <1>5. named \in Seq(Key) /\ k \in ToSet(named)
    BY <1>4, NamedIs
  <1> HIDE DEF named
  <1>6. Unique(named) \in Seq(Key) /\ k \in ToSet(Unique(named))
    BY <1>5, UniqueIs
  <1>7. k \in ToSet(rung)
    BY <1>6, AmongIs
  <1>8. rung # <<>>
    <2>1. ToSet(<<>>) = {}
      BY DEF ToSet
    <2> QED
      BY <1>7, <2>1
  <1>9. dests = rung
    BY <1>8
  <1> DEFINE made2(d, box, f, c) == [kind |-> "ring", dests |-> d, mailbox |-> box, forward |-> f, closed |-> c,
                                     menu |-> {}, fallbacks |-> <<>>]
  <1> HIDE DEF dests, mailbox, forward, closed
  <1>10. PlanNodes(nodes, o, link, n, TRUE) = made2(dests, mailbox, forward, closed)
    BY <1>0
  <1>11. ASSUME NEW d, NEW box, NEW f, NEW c PROVE made2(d, box, f, c).dests = d
    OBVIOUS
  <1>12. made2(dests, mailbox, forward, closed).dests = dests
    BY <1>11
  <1> HIDE DEF made2
  <1>13. PlanNodes(nodes, o, link, n, TRUE).dests = dests
    BY <1>10, <1>12, Zenon
  <1> QED
    BY <1>7, <1>9, <1>13

LEMMA DeskHandlingKeeps ==
    ASSUME TablesTyped, NEW box, NEW f, NEW c, NEW ringing \in PlanWith(box, f, c), NEW keys, NEW n, NEW o,
           NEW k \in ToSet(ringing.dests), k \notin Disabled(<<k>>, o)
    PROVE  k \in ToSet(ApplyDeskHandling(ringing, keys, n, o).dests)
  <1> DEFINE first  == IF keys = <<>> THEN NoKey ELSE keys[1]
             silent == ringing.mailbox = NoKey /\ ~ringing.forward
             box2   == IF silent /\ first # NoKey THEN DeskVoicemail(n, first, o) ELSE ringing.mailbox
             dests  == Among(ringing.dests, ToSet(ringing.dests) \ Disabled(keys, o))
             forward == ringing.forward \/ (silent /\ box2 = NoKey /\ OfType(DeskFlow(first, o), {"forward"}) # <<>>)
             fall   == Fallbacks(first, o)
  <1>1. ApplyDeskHandling(ringing, keys, n, o) =
          [ringing EXCEPT !.dests = dests, !.mailbox = box2, !.forward = forward, !.fallbacks = fall]
    BY DEF ApplyDeskHandling
  <1>2. ringing.dests \in Seq(Key)
    BY DEF PlanWith
  <1>3. k \notin Disabled(keys, o)
    <2>1. k \in ToSet(<<k>>)
      BY DEF ToSet
    <2> QED
      BY <2>1 DEF Disabled
  <1>4. k \in ToSet(dests)
    BY <1>2, <1>3, AmongIs
  <1> HIDE DEF dests, box2, forward, fall
  <1>5. [ringing EXCEPT !.dests = dests, !.mailbox = box2, !.forward = forward, !.fallbacks = fall].dests = dests
    BY DEF PlanWith
  <1> QED
    BY <1>1, <1>4, <1>5

\* A menu offers every active extension on the number.
LEMMA MenuOffers ==
    ASSUME TablesTyped, NEW ivr, NEW nodes \in Seq(Node), NEW o, NEW link, NEW n, NEW open \in BOOLEAN,
           NEW i \in OnNumber(o, n), exts[i].active
    PROVE  KeyOf(i) \in Rings(IvrPlan(ivr, nodes, o, link, n, open))
  <1> DEFINE rest  == Without(nodes, ivr)
             menu  == {KeyOf(m) : m \in {j \in OnNumber(o, n) : exts[j].active}}
             keyed == {k \in ToSet(Tail(ivr.exts)) : k \in ActiveKeys(o)}
             all   == menu \cup keyed
             last  == Among(<<ivr.exts[1]>>, ActiveKeys(o))
             ringing  == PlanNodes(rest, o, link, n, open)
             made2 == [ringing EXCEPT !.kind = "ivr", !.menu = all, !.fallbacks = last]
  <1>1. IvrPlan(ivr, nodes, o, link, n, open) = made2
    BY DEF IvrPlan
  <1>2. KeyOf(i) \in all
    OBVIOUS
  <1>3. rest \in Seq(Node)
    BY WithoutIs
  <1> HIDE DEF rest, all, last
  <1>4. PICK box, f, c : ringing \in PlanWith(box, f, c)
    BY <1>3, PlanNodesRings
  <1> HIDE DEF ringing
  <1>5. made2.menu = all
    BY <1>4 DEF PlanWith
  <1> QED
    BY <1>1, <1>2, <1>5 DEF Rings

LEMMA InboundReaches ==
    ASSUME LinesTyped, OwnIds(numbers), NEW n, Working(numbers, exts, routes, n)
    PROVE  LET k == numbers[n].link
               o == numbers[n].owner
           IN  /\ k.line = n /\ k \in ActiveKeys(o)
               /\ k \in Rings(InboundPlan(n, TRUE)) \cup Disabled(<<k>>, o)
  <1> DEFINE row    == numbers[n]
             o      == row.owner
             k      == row.link
             stored == n \in DOMAIN routes /\ o # 0 /\ routes[n].owner = o
             linked == IF row.link = NoKey THEN NoKey ELSE ExtensionKeyFor(n, row.link.digits, o)
             keys   == IF linked = NoKey THEN <<>> ELSE <<linked>>
             own    == routes[n].nodes
             desk   == DeskFlow(row.link, o)
             nodes  == IF OfType(own, Journey) = <<>> /\ OfType(desk, {"ivr", "hours"}) # <<>>
                       THEN OfType(desk, Journey) \o own ELSE own
             menus  == OfType(nodes, {"ivr"})
             ringing   == PlanNodes(nodes, o, row.link, n, TRUE)
             bare   == [kind |-> "ring", dests |-> keys, mailbox |-> NoKey, forward |-> FALSE, closed |-> FALSE,
                        menu |-> {}, fallbacks |-> <<>>]
             found  == InboundPlan(n, TRUE)
  <1>1. TablesTyped /\ n \in DOMAIN numbers /\ Desk(numbers, exts, n, k.digits, o) /\ k.line = n
    BY TypedParts DEF Working, Ready, Desk
  <1>2. k \in Key /\ o # 0
    BY <1>1, TypedParts, DeskRow DEF Line
  <1>3. PICK i \in OnNumber(o, n) : exts[i].active /\ KeyOf(i) = k
    <2>1. k = [digits |-> k.digits, line |-> n]
      BY <1>1, <1>2, KeyParts
    <2> HIDE DEF k, o
    <2> QED
      BY <1>1, <2>1, DeskRow
  <1>4. k \in ActiveKeys(o)
    BY <1>3 DEF ActiveKeys, OnNumber
  <1>5. stored
    BY <1>2 DEF Working
  <1>6. PICK x \in ToSet(own) : x.type = "ring" /\ x.on /\ k \in ToSet(x.exts)
    BY DEF Working
  <1>7. found = CASE ~stored -> ApplyDeskHandling(bare, keys, n, o)
                  [] stored /\ menus # <<>> /\ ~ringing.closed -> IvrPlan(menus[1], nodes, o, row.link, n, TRUE)
                  [] OTHER -> ApplyDeskHandling(ringing, ringing.dests, n, o)
    BY DEF InboundPlan
  <1>8. own \in Seq(Node) /\ desk \in Seq(Node)
    BY <1>1, <1>5, DeskFlowIs DEF TablesTyped, RoutesTyped, RouteRow
  <1> HIDE DEF own, desk
  <1>9. nodes \in Seq(Node) /\ x \in ToSet(nodes)
    <2>1. OfType(desk, Journey) \in Seq(Node)
      BY <1>8, NodesPicked
    <2> QED
      BY <1>6, <1>8, <2>1, ConcatProperties, BothParts
  <1> HIDE DEF nodes, found, stored, row, k, o
  <1>10. k \in Rings(IvrPlan(menus[1], nodes, o, row.link, n, TRUE))
    BY <1>1, <1>3, <1>9, MenuOffers
  <1>11. PICK box, f, c : ringing \in PlanWith(box, f, c)
    BY <1>1, <1>9, PlanNodesRings
  <1>12. k \in ToSet(ringing.dests)
    BY <1>1, <1>2, <1>4, <1>6, <1>9, PlanReaches
  <1> HIDE DEF ringing, menus
  <1>13. k \notin Disabled(<<k>>, o) => k \in Rings(ApplyDeskHandling(ringing, ringing.dests, n, o))
    BY <1>1, <1>11, <1>12, DeskHandlingKeeps DEF Rings
  <1>14. k \in Rings(found) \cup Disabled(<<k>>, o)
    BY <1>5, <1>7, <1>10, <1>13
  <1> QED
    BY <1>1, <1>4, <1>14 DEF found, k, o, row

LEMMA WholeIsProvisioned == LinesTyped /\ LinesWhole => ProvisionWhole
  <1> DEFINE n == answer.line
             o == numbers[n].owner
  <1> SUFFICES ASSUME LinesTyped, LinesWhole, n # 0, ~crossed
               PROVE  /\ numbers[n].link.line = n /\ numbers[n].link \in ActiveKeys(o)
                      /\ numbers[n].link \in Rings(InboundPlan(n, TRUE)) \cup Disabled(<<numbers[n].link>>, o)
                      /\ \E m \in ListedNumbers(o) : numbers[m].dflt
    BY DEF ProvisionWhole
  <1>1. OwnIds(numbers) /\ Working(numbers, exts, routes, n)
    BY DEF LinesWhole
  <1>2. \E m \in ListedNumbers(o) : numbers[m].dflt
    BY <1>1 DEF Working, Presented, ListedNumbers
  <1> HIDE DEF n
  <1> QED
    BY <1>1, <1>2, InboundReaches

\* A job that provisions nothing, or has not written its extension yet.
Apart(j) ==
    /\ j.op \notin {"link", "provision default", "provision route", "provision desk"}
    /\ j.op = "write extension" => ~j.prov
    /\ j.op = "extension flows" => j.next # "link"
    /\ j.op \in {"write number", "claim", "adopt"} => j.prov # "link"

LEMMA ApartWaits == \A j, nums, held, rs : Apart(j) => Halfway(nums, held, rs, j)
  <1> SUFFICES ASSUME NEW j, NEW nums, NEW held, NEW rs, Apart(j) PROVE Halfway(nums, held, rs, j)
    OBVIOUS
  <1>1. j.op \notin {"link", "provision default", "provision route", "provision desk"}
    BY DEF Apart
  <1>2. j.op = "write extension" => ~j.prov
    BY Zenon DEF Apart
  <1>3. j.op = "extension flows" => j.next # "link"
    BY DEF Apart
  <1>4. j.op = "write number" \/ j.op = "claim" \/ j.op = "adopt" => j.prov # "link"
    BY DEF Apart
  <1> QED
    BY <1>1, <1>2, <1>3, <1>4, Zenon DEF Halfway

LEMMA WholeOn ==
    ASSUME LinesTyped, LinesHeld, LinesWhole, NEW w \in Threads, Serves(w),
           \A v \in Threads \ {w} : jobs'[v] = jobs[v],
           OwnIds(numbers'), ~crossed' => Halfway(numbers', exts', routes', jobs'[w]),
           ~crossed' /\ answer'.line # 0 => Working(numbers', exts', routes', answer'.line)
    PROVE  LinesWhole'
  <1>1. ~crossed' => \A v \in Threads \ {w} : jobs'[v].op = "idle"
    BY AtWorkAlone DEF Busy
  <1>2. ~crossed' => \A v \in Threads \ {w} : Apart(jobs'[v])
    BY <1>1 DEF Apart
  <1>3. ~crossed' => \A v \in Threads : Halfway(numbers', exts', routes', jobs'[v])
    BY <1>2, ApartWaits
  <1> QED
    BY <1>3 DEF LinesWhole

LEMMA SameIds ==
    ASSUME OwnIds(numbers), DOMAIN numbers' \subseteq DOMAIN numbers,
           \A n \in DOMAIN numbers' : numbers'[n].id = numbers[n].id
    PROVE  OwnIds(numbers')
  BY DEF OwnIds

\* Steps that provision nothing.
LEMMA GoesAside ==
    ASSUME LinesTyped, LinesHeld, LinesWhole, NEW w \in Threads, Serves(w), NEW j, Goes(w, j), ~crossed' => Apart(j),
           OwnIds(numbers'), answer'.line = 0
    PROVE  LinesWhole'
  <1>1. jobs'[w] = j /\ \A v \in Threads \ {w} : jobs'[v] = jobs[v]
    BY TypedParts, OneGoes
  <1>2. ~crossed' => Halfway(numbers', exts', routes', jobs'[w])
    BY <1>1, ApartWaits
  <1> QED
    BY <1>1, <1>2, WholeOn

LEMMA AsksAside ==
    ASSUME LinesTyped, LinesHeld, LinesWhole, NEW w \in Threads, NEW r, Ask(w, r), NEW j, Goes(w, j), Apart(j),
           OwnIds(numbers')
    PROVE  LinesWhole'
  <1>1. answer'.line = 0
    BY DEF Ask, Silent
  <1> QED
    BY <1>1, AskedFor, GoesAside

LEMMA SimpleAside ==
    ASSUME LinesTyped, LinesHeld, LinesWhole, NEW w \in Threads, NEW r, Simple(w, r), OwnIds(numbers')
    PROVE  LinesWhole'
  <1>1. Ask(w, r) /\ jobs' = jobs /\ jobs[w].op = "idle" /\ answer'.line = 0
    BY DEF Simple, Ask, Idle, Silent
  <1>2. Apart(jobs'[w])
    BY <1>1 DEF Apart
  <1> QED
    BY <1>1, <1>2, ApartWaits, AskedFor, WholeOn

LEMMA GoesOnAside ==
    ASSUME LinesTyped, LinesHeld, LinesWhole, NEW w \in Threads, jobs[w].op # "idle", NEW j, Then(w, j),
           ~crossed' => Apart(j), OwnIds(numbers')
    PROVE  LinesWhole'
  <1>1. Goes(w, j) /\ answer'.line = 0
    BY DEF Then, Silent
  <1> QED
    BY <1>1, GoingOn, GoesAside

LEMMA EndsWhole ==
    ASSUME LinesTyped, LinesHeld, LinesWhole, NEW w \in Threads, jobs[w].op # "idle", NEW ok, Ends(w, ok),
           OwnIds(numbers')
    PROVE  LinesWhole'
  <1>1. Goes(w, Idle) /\ answer'.line = 0
    BY DEF Ends
  <1>2. Apart(Idle)
    BY DEF Apart, Idle
  <1> QED
    BY <1>1, <1>2, GoingOn, GoesAside

LEMMA StillOwn == LinesWhole /\ numbers' = numbers => OwnIds(numbers')
  BY DEF LinesWhole

\* Requests that ask for something else.
LEMMA AskedWhole ==
    ASSUME LinesTyped, LinesHeld, LinesWhole, NEW w \in Threads,
           SaveExtension(w) \/ AddExtension(w) \/ SaveNumber(w) \/ DeleteExtension(w) \/ SetDefaults(w)
             \/ SaveCallRoute(w) \/ SaveRoutingFlow(w)
    PROVE  LinesWhole'
  <1>1. ASSUME NEW o, NEW d, NEW n, NEW re, NEW sw PROVE Apart(WriteJob(o, d, n, re, sw, FALSE))
    <2>1. WriteJob(o, d, n, re, sw, FALSE).op = "write extension" /\ ~WriteJob(o, d, n, re, sw, FALSE).prov
      BY DEF WriteJob
    <2> QED
      BY <2>1 DEF Apart
  <1>2. ASSUME NEW n, NEW o, NEW d, NEW dflt, NEW prov, prov \in {"no", "auto"}
        PROVE  Apart(NumberJob(n, o, d, dflt, TRUE, prov))
    <2> DEFINE i     == Linked(n, o, d)
               link  == CASE d = 0 -> NoKey [] d # 0 /\ i # 0 -> KeyOf(i) [] OTHER -> [digits |-> d, line |-> n]
               claim == IF d # 0 /\ i # 0 /\ LineOf(i) = 0 THEN i ELSE 0
    <2>1. NumberJob(n, o, d, dflt, TRUE, prov) \in
            [op : {"write number"}, n : {n}, o : {o}, d : {d}, dflt : {dflt}, active : {TRUE}, prov : {prov},
             link : {link}, claim : {claim}]
      BY DEF NumberJob
    <2> HIDE DEF link, claim, NumberJob
    <2>2. NumberJob(n, o, d, dflt, TRUE, prov).op = "write number" /\ NumberJob(n, o, d, dflt, TRUE, prov).prov = prov
      BY <2>1
    <2> QED
      BY <1>2, <2>2 DEF Apart
  <1>3. CASE SaveExtension(w)
    <2>1. PICK o, d, n, re, sw : Goes(w, WriteJob(o, d, n, re, sw, FALSE)) /\ numbers' = numbers
      BY <1>3 DEF SaveExtension, tables
    <2> QED
      BY <1>1, <1>3, <2>1, StillOwn, AsksAside DEF SaveExtension
  <1>4. CASE AddExtension(w)
    <2>1. PICK o, d, n, re, sw : Goes(w, WriteJob(o, d, n, re, sw, FALSE)) /\ numbers' = numbers
      BY <1>4 DEF AddExtension, tables
    <2> QED
      BY <1>1, <1>4, <2>1, StillOwn, AsksAside DEF AddExtension
  <1>5. CASE SaveNumber(w)
    <2>1. PICK n, o, d, dflt, prov :
            prov \in {"no", "auto"} /\ Goes(w, NumberJob(n, o, d, dflt, TRUE, prov)) /\ numbers' = numbers
      BY <1>5 DEF SaveNumber, tables
    <2> QED
      BY <1>2, <1>5, <2>1, StillOwn, AsksAside DEF SaveNumber
  <1>6. CASE DeleteExtension(w)
    <2>1. PICK i, k : Goes(w, [op |-> "drop extension", id |-> i, key |-> k]) /\ numbers' = numbers
      BY <1>6 DEF DeleteExtension, tables
    <2>2. Apart([op |-> "drop extension", id |-> i, key |-> k])
      BY DEF Apart
    <2> QED
      BY <1>6, <2>1, <2>2, StillOwn, AsksAside DEF DeleteExtension
  <1>7. CASE SetDefaults(w)
    <2>1. PICK o, doc : Goes(w, [op |-> "write defaults", o |-> o, doc |-> doc]) /\ numbers' = numbers
      BY <1>7 DEF SetDefaults, tables
    <2>2. Apart([op |-> "write defaults", o |-> o, doc |-> doc])
      BY DEF Apart
    <2> QED
      BY <1>7, <2>1, <2>2, StillOwn, AsksAside DEF SetDefaults
  <1>8. CASE SaveCallRoute(w) \/ SaveRoutingFlow(w)
    <2>1. PICK o : Goes(w, [op |-> "menus", o |-> o]) /\ numbers' = numbers
      BY <1>8 DEF SaveCallRoute, SaveRoutingFlow
    <2>2. Apart([op |-> "menus", o |-> o])
      BY DEF Apart
    <2>3. \E r : Ask(w, r)
      BY <1>8 DEF SaveCallRoute, SaveRoutingFlow
    <2> QED
      BY <2>1, <2>2, <2>3, StillOwn, AsksAside
  <1> QED
    BY <1>3, <1>4, <1>5, <1>6, <1>7, <1>8

LEMMA DeleteNumberWhole ==
    ASSUME LinesTyped, LinesHeld, LinesWhole, NEW w \in Threads, DeleteNumber(w)
    PROVE  LinesWhole'
  <1>1. PICK n, left, key : /\ Goes(w, [op |-> "take down", n |-> n, left |-> left, key |-> key])
                            /\ numbers' = Restrict(numbers, DOMAIN numbers \ {n})
    BY DEF DeleteNumber
  <1>2. Apart([op |-> "take down", n |-> n, left |-> left, key |-> key])
    BY DEF Apart
  <1>3. OwnIds(numbers')
    BY <1>1, SameIds DEF LinesWhole, Restrict
  <1> QED
    BY <1>1, <1>2, <1>3, AsksAside DEF DeleteNumber

\* Requests of one step.
LEMMA SimpleWhole ==
    ASSUME LinesTyped, LinesHeld, LinesWhole, NEW w \in Threads,
           Discontinue(w) \/ SetDefaultOutbound(w) \/ DeleteRoutingFlow(w) \/ SaveGroup(w) \/ SaveDevice(w)
    PROVE  LinesWhole'
  <1>1. CASE Discontinue(w)
    <2>1. PICK n \in DOMAIN numbers : numbers' = [numbers EXCEPT ![n].active = FALSE] /\ Simple(w, "number")
      BY <1>1 DEF Discontinue
    <2>2. \A x \in Line : [x EXCEPT !.active = FALSE].id = x.id
      BY DEF Line
    <2>3. DOMAIN numbers' = DOMAIN numbers /\ \A m \in DOMAIN numbers : numbers'[m].id = numbers[m].id
      BY <2>1, <2>2, TypedParts
    <2> QED
      BY <2>1, <2>3, SameIds, SimpleAside DEF LinesWhole
  <1>2. CASE SetDefaultOutbound(w)
    <2>1. PICK k, n : numbers' = Presenting(k, n)
      BY <1>2 DEF SetDefaultOutbound
    <2>2. Simple(w, "defaults")
      BY <1>2 DEF SetDefaultOutbound
    <2> QED
      BY <2>1, <2>2, PresentingKeeps, SameIds, SimpleAside DEF LinesWhole
  <1>3. CASE DeleteRoutingFlow(w) \/ SaveGroup(w) \/ SaveDevice(w)
    <2>1. numbers' = numbers /\ \E r : Simple(w, r)
      BY <1>3 DEF DeleteRoutingFlow, SaveGroup, SaveDevice
    <2> QED
      BY <2>1, StillOwn, SimpleAside
  <1> QED
    BY <1>1, <1>2, <1>3

\* Last steps of requests, and the ones that take a number down.
LEMMA LastWhole ==
    ASSUME LinesTyped, LinesHeld, LinesWhole, NEW w \in Threads,
           Menus(w) \/ WriteDefaults(w) \/ DropExtension(w) \/ Release(w)
    PROVE  LinesWhole'
  <1>1. numbers' = numbers /\ jobs[w].op # "idle" /\ \E ok : Ends(w, ok)
    BY DEF Menus, WriteDefaults, DropExtension, Release
  <1> QED
    BY <1>1, StillOwn, EndsWhole

LEMMA TakeDownWhole ==
    ASSUME LinesTyped, LinesHeld, LinesWhole, NEW w \in Threads, TakeDown(w)
    PROVE  LinesWhole'
  <1> DEFINE j    == jobs[w]
             next == [j EXCEPT !.left = @ \ {Min(j.left)}]
  <1>1. j.op = "take down" /\ Then(w, next) /\ numbers' = numbers
    BY DEF TakeDown
  <1>2. next.op = "take down"
    <2>1. j \in TakeDownJob
      BY <1>1, TypedParts DEF JobTyped
    <2> QED
      BY <2>1 DEF TakeDownJob
  <1>3. Apart(next)
    BY <1>2 DEF Apart
  <1> HIDE DEF next
  <1> QED
    BY <1>1, <1>3, StillOwn, GoesOnAside

\* What a request that is alone has done so far, its next step finds.
LEMMA FindsHalf ==
    ASSUME LinesHeld, LinesWhole, NEW w \in Threads, Serves(w)
    PROVE  ~crossed' => Halfway(numbers, exts, routes, jobs[w])
  BY AtWorkAlone DEF LinesWhole

LEMMA ProvisionHalf ==
    ASSUME LinesTyped, LinesHeld, LinesWhole, NEW w \in Threads, Provision(w)
    PROVE  LinesWhole'
  <1> DEFINE j    == jobs[w]
             sw   == [active |-> TRUE, mail |-> FALSE]
             next == WriteJob(j.o, FreeDigits(j.n), j.n, FALSE, sw, TRUE)
  <1>1. UNCHANGED <<numbers, exts>> /\ jobs[w].op = "provision"
    BY DEF Provision, tables
  <1>2. (Then(w, next) /\ j.n \in ListedNumbers(j.o)) \/ Ends(w, FALSE)
    BY DEF Provision
  <1>3. j.n \in Numbers /\ j.o \in Accounts /\ j.n # 0 /\ j.o # 0
    BY <1>1, TypedParts, SmallNumbers DEF JobTyped
  <1>4. CASE Ends(w, FALSE)
    BY <1>1, <1>4, StillOwn, EndsWhole
  <1>5. CASE Then(w, next) /\ j.n \in ListedNumbers(j.o)
    <2>1. j.n \in DOMAIN numbers /\ numbers[j.n].owner = j.o
      BY <1>3, <1>5 DEF ListedNumbers
    <2>2. sw.active
      OBVIOUS
    <2> HIDE DEF j, sw
    <2>3. /\ next.op = "write extension" /\ next.o = j.o /\ next.n = j.n /\ next.sw = sw
          /\ next.line = numbers[j.n].id
      BY <1>3 DEF WriteJob, j
    <2> HIDE DEF next
    <2>4. Halfway(numbers', exts', routes', next)
      BY <1>1, <1>3, <2>1, <2>2, <2>3 DEF Halfway
    <2>5. Goes(w, next) /\ answer'.line = 0 /\ Serves(w)
      BY <1>1, <1>5, GoingOn DEF Then, Silent
    <2>6. jobs'[w] = next /\ \A v \in Threads \ {w} : jobs'[v] = jobs[v]
      BY <2>5, TypedParts, OneGoes
    <2> QED
      BY <1>1, <2>4, <2>5, <2>6, StillOwn, WholeOn
  <1> QED
    BY <1>2, <1>4, <1>5

LEMMA WriteExtensionHalf ==
    ASSUME LinesTyped, LinesHeld, LinesWhole, NEW w \in Threads, WriteExtension(w)
    PROVE  LinesWhole'
  <1> DEFINE j       == jobs[w]
             created == j.id \notin DOMAIN exts
             i       == IF created THEN made.exts + 1 ELSE j.id
             owner   == IF j.o # 0 \/ created \/ j.re THEN j.o ELSE exts[i].owner
             row     == [digits |-> j.d, line |-> j.line, owner |-> owner,
                         active |-> j.sw.active, mail |-> j.sw.mail]
             key     == [digits |-> j.d, line |-> j.n]
             joins   == created /\ owner # 0 /\ row.active
             after   == CASE j.prov -> "link" [] ~j.prov /\ j.id = 0 /\ owner # 0 -> "menus" [] OTHER -> "end"
             next    == [op |-> "extension flows", key |-> key, o |-> owner, joins |-> joins, mail |-> row.mail,
                         next |-> after]
  <1>1. /\ j.op = "write extension" /\ numbers' = numbers
        /\ Ends(w, FALSE) \/ (Then(w, next) /\ exts' = Put(exts, i, row))
    BY DEF WriteExtension, tables
  <1>2. CASE Ends(w, FALSE)
    BY <1>1, <1>2, StillOwn, EndsWhole
  <1>3. CASE Then(w, next) /\ exts' = Put(exts, i, row)
    <2>1. row.digits = j.d /\ row.line = j.line /\ row.owner = owner /\ row.active = j.sw.active
      OBVIOUS
    <2>2. key.digits = j.d /\ key.line = j.n
      OBVIOUS
    <2>3. j.prov \in BOOLEAN
      BY <1>1, TypedParts DEF JobTyped, WriteExtensionJob
    <2>4. after = "link" => j.prov
      BY <2>3
    <2>5. j.o \in Accounts => owner = j.o
      BY SmallNumbers
    <2>6. next.op = "extension flows" /\ next.key = key /\ next.o = owner /\ next.next = after
      <3>1. next \in [op : {"extension flows"}, key : {key}, o : {owner}, joins : {joins}, mail : {row.mail},
                      next : {after}]
        OBVIOUS
      <3> HIDE DEF next, key, owner, joins, after
      <3> QED
        BY <3>1
    <2>7. Serves(w) /\ Goes(w, next) /\ answer'.line = 0
      BY <1>1, <1>3, GoingOn DEF Then, Silent
    <2>8. ~crossed' => Halfway(numbers, exts, routes, j)
      BY <2>7, FindsHalf
    <2> HIDE DEF row, key, owner, after, next, joins, i, j
    <2>9. ASSUME ~crossed', after = "link" PROVE Desk(numbers', exts', j.n, j.d, owner)
      <3>1. j.o \in Accounts /\ j.n \in DOMAIN numbers /\ numbers[j.n].owner = j.o /\ j.line = numbers[j.n].id /\ j.sw.active
        BY <1>1, <2>4, <2>8, <2>9 DEF Halfway
      <3>2. i \in DOMAIN exts' /\ exts'[i] = row
        BY <1>3 DEF Put
      <3> QED
        BY <1>1, <2>1, <2>5, <3>1, <3>2 DEF Desk
    <2>10. ~crossed' => Halfway(numbers', exts', routes', next)
      BY <2>2, <2>6, <2>9 DEF Halfway
    <2>11. jobs'[w] = next /\ \A v \in Threads \ {w} : jobs'[v] = jobs[v]
      BY <2>7, TypedParts, OneGoes
    <2> QED
      BY <1>1, <2>7, <2>10, <2>11, StillOwn, WholeOn
  <1> QED
    BY <1>1, <1>2, <1>3

LEMMA ExtensionFlowsHalf ==
    ASSUME LinesTyped, LinesHeld, LinesWhole, NEW w \in Threads, ExtensionFlows(w)
    PROVE  LinesWhole'
  <1> DEFINE j    == jobs[w]
             next == [op |-> j.next, o |-> j.o, n |-> j.key.line, d |-> j.key.digits]
  <1>1. /\ UNCHANGED <<numbers, exts>> /\ j.op = "extension flows"
        /\ (j.next # "end" /\ Then(w, next)) \/ \E ok : Ends(w, ok)
    BY DEF ExtensionFlows
  <1>2. CASE \E ok : Ends(w, ok)
    BY <1>1, <1>2, StillOwn, EndsWhole
  <1>3. CASE j.next # "end" /\ Then(w, next)
    <2>1. j.next \in {"link", "menus"}
      BY <1>1, <1>3, TypedParts DEF JobTyped, ExtensionFlowsJob
    <2>2. next.op = j.next /\ next.o = j.o /\ next.n = j.key.line /\ next.d = j.key.digits
      OBVIOUS
    <2> HIDE DEF next, j
    <2>3. Serves(w) /\ Goes(w, next) /\ answer'.line = 0
      BY <1>1, <1>3, GoingOn DEF Then, Silent, j
    <2>4. ~crossed' => Halfway(numbers, exts, routes, j)
      BY <2>3, FindsHalf DEF j
    <2>5. ~crossed' => Halfway(numbers', exts', routes', next)
      BY <1>1, <2>1, <2>2, <2>4 DEF Halfway
    <2>6. jobs'[w] = next /\ \A v \in Threads \ {w} : jobs'[v] = jobs[v]
      BY <2>3, TypedParts, OneGoes
    <2> QED
      BY <1>1, <2>3, <2>5, <2>6, StillOwn, WholeOn
  <1> QED
    BY <1>1, <1>2, <1>3

\* The link of the extension just written is resolved to its row.
LEMMA LinkFound ==
    ASSUME LinesTyped, OwnIds(numbers), NEW n, NEW d, NEW o, Desk(numbers, exts, n, d, o)
    PROVE  /\ d # 0 /\ Linked(n, o, d) # 0 /\ LineOf(Linked(n, o, d)) # 0
           /\ KeyOf(Linked(n, o, d)) = [digits |-> d, line |-> n]
  <1>1. n # 0 /\ o # 0 /\ d # 0 /\ \E i \in OnNumber(o, n) : exts[i].digits = d
    BY DeskRow
  <1>2. ResolveExtension(n, d, o) # 0
    BY <1>1, TypedParts, ResolvesTo
  <1>3. Linked(n, o, d) \in {i \in OnNumber(o, n) : exts[i].digits = d}
    BY <1>2, TypedParts, ResolvesTo DEF Linked
  <1> QED
    BY <1>1, <1>2, <1>3 DEF OnNumber, KeyOf, Linked

LEMMA ProvisionLinkHalf ==
    ASSUME LinesTyped, LinesHeld, LinesWhole, NEW w \in Threads, ProvisionLink(w)
    PROVE  LinesWhole'
  <1> DEFINE j    == jobs[w]
             next == NumberJob(j.n, j.o, j.d, FALSE, TRUE, "link")
             i    == Linked(j.n, j.o, j.d)
             link  == CASE j.d = 0 -> NoKey [] j.d # 0 /\ i # 0 -> KeyOf(i) [] OTHER -> [digits |-> j.d, line |-> j.n]
             claim == IF j.d # 0 /\ i # 0 /\ LineOf(i) = 0 THEN i ELSE 0
  <1>1. UNCHANGED <<numbers, exts>> /\ j.op = "link" /\ (Then(w, next) \/ Ends(w, FALSE))
    BY DEF ProvisionLink, tables
  <1>2. CASE Ends(w, FALSE)
    BY <1>1, <1>2, StillOwn, EndsWhole
  <1>3. CASE Then(w, next)
    <2>1. Serves(w) /\ Goes(w, next) /\ answer'.line = 0
      BY <1>1, <1>3, GoingOn DEF Then, Silent
    <2>2. ~crossed' => Desk(numbers, exts, j.n, j.d, j.o)
      BY <1>1, <2>1, FindsHalf DEF Halfway
    <2> HIDE DEF j
    <2>3. next \in [op : {"write number"}, n : {j.n}, o : {j.o}, d : {j.d}, dflt : {FALSE}, active : {TRUE}, prov : {"link"},
                    link : {link}, claim : {claim}]
      BY DEF NumberJob
    <2> HIDE DEF next
    <2>4. ASSUME ~crossed' PROVE j.d # 0 /\ i # 0 /\ LineOf(i) # 0 /\ KeyOf(i) = [digits |-> j.d, line |-> j.n]
      <3>1. OwnIds(numbers)
        BY DEF LinesWhole
      <3> QED
        BY <2>2, <2>4, <3>1, LinkFound
    <2> HIDE DEF i
    <2>5. ~crossed' => next.claim = 0 /\ next.link.digits = j.d /\ next.link.line = j.n
      <3>1. ~crossed' => claim = 0 /\ link = [digits |-> j.d, line |-> j.n]
        BY <2>4
      <3> HIDE DEF claim, link
      <3>2. next.claim = claim /\ next.link = link
        BY <2>3
      <3> QED
        BY <3>1, <3>2
    <2> HIDE DEF claim, link
    <2>6. next.op = "write number" /\ next.n = j.n /\ next.o = j.o /\ next.d = j.d /\ next.prov = "link"
      BY <2>3
    <2>7. ~crossed' => Halfway(numbers', exts', routes', next)
      BY <1>1, <2>2, <2>5, <2>6 DEF Halfway
    <2>8. jobs'[w] = next /\ \A v \in Threads \ {w} : jobs'[v] = jobs[v]
      BY <2>1, TypedParts, OneGoes
    <2> QED
      BY <1>1, <2>1, <2>7, <2>8, StillOwn, WholeOn
  <1> QED
    BY <1>1, <1>2, <1>3

LEMMA WriteNumberHalf ==
    ASSUME LinesTyped, LinesHeld, LinesWhole, NEW w \in Threads, WriteNumber(w)
    PROVE  LinesWhole'
  <1> DEFINE j       == jobs[w]
             cleared == [m \in DOMAIN numbers |->
                           [numbers[m] EXCEPT !.dflt = @ /\ ~(j.dflt /\ numbers[m].link = j.link)]]
             fresh   == j.n \notin DOMAIN numbers
             id      == IF fresh THEN made.lines + 1 ELSE numbers[j.n].id
             row     == [id |-> id, owner |-> j.o, link |-> j.link, dflt |-> j.dflt, active |-> j.active]
             op      == IF j.claim = 0 THEN "adopt" ELSE "claim"
             next    == [op |-> op, n |-> j.n, o |-> j.o, d |-> j.d, claim |-> j.claim, prov |-> j.prov]
  <1>1. /\ j.op = "write number" /\ exts' = exts
        /\ numbers' = Put(cleared, j.n, row)
        /\ Then(w, next)
    BY DEF WriteNumber
  <1>2. next.op = op /\ next.n = j.n /\ next.o = j.o /\ next.d = j.d /\ next.prov = j.prov
    <2>1. next \in [op : {op}, n : {j.n}, o : {j.o}, d : {j.d}, claim : {j.claim}, prov : {j.prov}]
      OBVIOUS
    <2> HIDE DEF next, op
    <2> QED
      BY <2>1
  <1>3. \A m \in DOMAIN numbers : cleared[m].id = numbers[m].id
    <2>1. \A x \in Line : \A b : [x EXCEPT !.dflt = b].id = x.id
      BY DEF Line
    <2> QED
      BY <2>1, TypedParts
  <1>4. row.id = id /\ row.owner = j.o /\ row.link = j.link
    <2>1. row \in [id : {id}, owner : {j.o}, link : {j.link}, dflt : {j.dflt}, active : {j.active}]
      OBVIOUS
    <2> HIDE DEF row
    <2> QED
      BY <2>1
  <1>5. DOMAIN cleared = DOMAIN numbers
    OBVIOUS
  <1>6. \A m \in DOMAIN numbers : numbers[m].id \in Nat /\ numbers[m].id <= made.lines
    BY TypedParts DEF Line
  <1>7. made.lines \in Nat
    BY TypedParts
  <1>8. Serves(w) /\ Goes(w, next) /\ answer'.line = 0
    BY <1>1, GoingOn DEF Then, Silent
  <1>9. ~crossed' => Halfway(numbers, exts, routes, j)
    BY <1>8, FindsHalf
  <1> HIDE DEF cleared, row, next, j
  <1>10. /\ DOMAIN numbers' = DOMAIN numbers \cup {j.n} /\ numbers'[j.n] = row
         /\ \A m \in DOMAIN numbers : numbers'[m].id = numbers[m].id
         /\ fresh => numbers'[j.n].id = made.lines + 1
    BY <1>1, <1>3, <1>4, <1>5 DEF Put
  <1>11. OwnIds(numbers')
    <2>1. \A m \in DOMAIN numbers : numbers[m].id # made.lines + 1
      BY <1>6, <1>7
    <2> QED
      BY <1>10, <2>1 DEF LinesWhole, OwnIds
  <1>12. ASSUME ~crossed', j.prov = "link" PROVE op = "adopt" /\ ReadyFor(numbers', exts', next)
    <2>1. j.claim = 0 /\ j.link.line = j.n /\ j.link.digits = j.d /\ Desk(numbers, exts, j.n, j.d, j.o)
      BY <1>1, <1>9, <1>12 DEF Halfway
    <2>2. j.n \in DOMAIN numbers /\ numbers'[j.n].id = numbers[j.n].id
      BY <1>10, <2>1 DEF Desk
    <2>3. numbers'[j.n].owner = j.o /\ numbers'[j.n].link = j.link
      BY <1>4, <1>10
    <2>4. Desk(numbers', exts', j.n, j.d, j.o)
      BY <1>1, <1>10, <2>1, <2>2, <2>3 DEF Desk
    <2> QED
      BY <1>2, <2>1, <2>3, <2>4 DEF ReadyFor, Ready
  <1>13. op \in {"adopt", "claim"}
    OBVIOUS
  <1> HIDE DEF op
  <1>14. ~crossed' => Halfway(numbers', exts', routes', next)
    BY <1>2, <1>12, <1>13 DEF Halfway
  <1>15. jobs'[w] = next /\ \A v \in Threads \ {w} : jobs'[v] = jobs[v]
    BY <1>8, TypedParts, OneGoes
  <1> QED
    BY <1>8, <1>11, <1>14, <1>15, WholeOn

LEMMA ClaimHalf ==
    ASSUME LinesTyped, LinesHeld, LinesWhole, NEW w \in Threads, Claim(w)
    PROVE  LinesWhole'
  <1> DEFINE j     == jobs[w]
             adopt == [j EXCEPT !.op = "adopt"]
             next  == Then(w, adopt)
  <1>1. j.op = "claim" /\ numbers' = numbers
    BY DEF Claim
  <1>2. next \/ \E ok : Ends(w, ok)
    BY DEF Claim, Move
  <1>3. adopt.op = "adopt" /\ adopt.prov = j.prov
    <2>1. j \in MoveJob
      BY <1>1, TypedParts DEF JobTyped
    <2> QED
      BY <2>1 DEF MoveJob
  <1> HIDE DEF adopt
  <1>4. CASE \E ok : Ends(w, ok)
    BY <1>1, <1>4, StillOwn, EndsWhole
  <1>5. CASE next
    <2>1. Serves(w)
      BY <1>1, <1>5, GoingOn
    <2>2. ~crossed' => j.prov # "link"
      BY <1>1, <2>1, FindsHalf DEF Halfway
    <2>3. ~crossed' => Apart(adopt)
      BY <1>3, <2>2 DEF Apart
    <2> QED
      BY <1>1, <1>5, <2>3, StillOwn, GoesOnAside
  <1> QED
    BY <1>2, <1>4, <1>5

\* The rows an adoption moves are on no number.
LEMMA AdoptHalf ==
    ASSUME LinesTyped, LinesHeld, LinesWhole, NEW w \in Threads, Adopt(w)
    PROVE  LinesWhole'
  <1> DEFINE j     == jobs[w]
             lines == {numbers[m].id : m \in {m \in DOMAIN numbers : numbers[m].owner = j.o}}
             loose == {i \in DOMAIN exts : exts[i].line = 0 /\ exts[i].owner = j.o}
             moving  == IF j.o = 0 \/ lines = {} \/ Here(j.n) # Min(lines) THEN {}
                      ELSE {i \in loose : /\ ~Taken(exts[i].digits, Here(j.n))
                                          /\ \A k \in loose : exts[k].digits = exts[i].digits => k >= i}
             one   == [op |-> "provision", n |-> j.n, o |-> j.o]
             two   == [op |-> "provision default", n |-> j.n, o |-> j.o, d |-> j.d]
             next  == CASE j.prov = "no"   -> Ends(w, TRUE)
                        [] j.prov = "auto" -> Then(w, one)
                        [] j.prov = "link" -> Then(w, two)
  <1>1. /\ j.op = "adopt" /\ numbers' = numbers
        /\ IF moving = {} THEN next /\ exts' = exts ELSE Move(w, moving, Here(j.n), next)
    BY DEF Adopt
  <1>2. j.prov \in {"no", "auto", "link"}
    BY <1>1, TypedParts DEF JobTyped, MoveJob
  <1>3. one.op = "provision" /\ two.op = "provision default" /\ two.n = j.n /\ two.o = j.o /\ two.d = j.d
    <2>1. one \in [op : {"provision"}, n : {j.n}, o : {j.o}]
         /\ two \in [op : {"provision default"}, n : {j.n}, o : {j.o}, d : {j.d}]
      OBVIOUS
    <2> HIDE DEF one, two
    <2> QED
      BY <2>1
  <1>4. \A i \in moving : exts[i].line = 0
    OBVIOUS
  <1> HIDE DEF one, two, moving
  <1>5. next => Then(w, one) \/ (j.prov = "link" /\ Then(w, two)) \/ \E ok : Ends(w, ok)
    BY <1>2
  <1> HIDE DEF next
  <1>6. /\ Then(w, one) \/ (j.prov = "link" /\ Then(w, two)) \/ \E ok : Ends(w, ok)
        /\ \/ exts' = exts
           \/ exts' = [i \in DOMAIN exts |-> IF i \in moving THEN [exts[i] EXCEPT !.line = Here(j.n)] ELSE exts[i]]
    BY <1>1, <1>5 DEF Move
  <1>7. CASE \E ok : Ends(w, ok)
    BY <1>1, <1>7, StillOwn, EndsWhole
  <1>8. CASE Then(w, one)
    <2>1. Apart(one)
      BY <1>3 DEF Apart
    <2> QED
      BY <1>1, <1>8, <2>1, StillOwn, GoesOnAside
  <1>9. CASE j.prov = "link" /\ Then(w, two)
    <2>1. Serves(w) /\ Goes(w, two) /\ answer'.line = 0
      BY <1>1, <1>9, GoingOn DEF Then, Silent
    <2>2. ~crossed' => ReadyFor(numbers, exts, j)
      BY <1>1, <1>9, <2>1, FindsHalf DEF Halfway
    <2> HIDE DEF j
    <2>3. ASSUME ~crossed' PROVE ReadyFor(numbers', exts', two)
      <3>1. PICK i \in DOMAIN exts : /\ exts[i].digits = numbers[j.n].link.digits /\ exts[i].line = numbers[j.n].id
                                     /\ exts[i].owner = j.o /\ exts[i].active
        BY <2>2, <2>3 DEF ReadyFor, Ready, Desk
      <3>2. numbers[j.n] \in Line
        BY <2>2, <2>3, TypedParts DEF ReadyFor, Ready, Desk
      <3>3. exts[i].line # 0
        BY <3>1, <3>2, TypedParts DEF Line
      <3>4. DOMAIN exts' = DOMAIN exts /\ exts'[i] = exts[i]
        BY <1>4, <1>6, <3>3
      <3> QED
        BY <1>1, <1>3, <2>2, <2>3, <3>1, <3>4 DEF ReadyFor, Ready, Desk
    <2>4. ~crossed' => Halfway(numbers', exts', routes', two)
      BY <1>3, <2>3 DEF Halfway
    <2>5. jobs'[w] = two /\ \A v \in Threads \ {w} : jobs'[v] = jobs[v]
      BY <2>1, TypedParts, OneGoes
    <2> QED
      BY <1>1, <2>1, <2>4, <2>5, StillOwn, WholeOn
  <1> QED
    BY <1>6, <1>7, <1>8, <1>9

\* The devices of a number are its active extensions.
LEMMA DeviceListed ==
    ASSUME RowsTyped, NEW o, NEW n, NEW i \in OnNumber(o, n), exts[i].active
    PROVE  KeyOf(i) \in ToSet(LineDevices(o, n))
  <1> DEFINE S == {KeyOf(x) : x \in {y \in OnNumber(o, n) : exts[y].active}}
  <1>1. S \subseteq KeysOf(o)
    BY DEF OnNumber, KeysOf
  <1>2. S \subseteq Key /\ IsFiniteSet(S)
    BY <1>1, KeysOfAre, FS_Subset
  <1>3. LineDevices(o, n) = Sorted(S)
    BY DEF LineDevices
  <1>4. KeyOf(i) \in S
    OBVIOUS
  <1> HIDE DEF S
  <1> QED
    BY <1>2, <1>3, <1>4, SortedIs

\* The flow the platform writes for a number rings every key it is given.
LEMMA DefaultRings ==
    ASSUME NEW ks \in Seq(Key), NEW k \in ToSet(ks)
    PROVE  \E x \in ToSet(DefaultNumberRoute(ks, <<>>)) : x.type = "ring" /\ x.on /\ k \in ToSet(x.exts)
  <1> DEFINE x == Step("ring", ks)
  <1>1. ToSet(<<>>) = {}
    BY DEF ToSet
  <1>2. ks # <<>>
    BY <1>1
  <1>3. x.type = "ring" /\ x.on /\ x.exts = ks
    BY DEF Step
  <1> HIDE DEF x
  <1>4. DefaultNumberRoute(ks, <<>>) = <<x>> \o <<>>
    BY <1>2 DEF DefaultNumberRoute, x
  <1>5. <<x>> \in Seq({x}) /\ <<>> \in Seq({x})
    OBVIOUS
  <1>6. x \in ToSet(<<x>>)
    BY DEF ToSet
  <1>7. x \in ToSet(<<x>> \o <<>>)
    BY <1>5, <1>6, BothParts
  <1> QED
    BY <1>3, <1>4, <1>7

LEMMA ProvisionDefaultHalf ==
    ASSUME LinesTyped, LinesHeld, LinesWhole, NEW w \in Threads, ProvisionDefault(w)
    PROVE  LinesWhole'
  <1> DEFINE j    == jobs[w]
             k    == [digits |-> j.d, line |-> j.n]
             next == [j EXCEPT !.op = "provision route"]
             dflt == \E m \in ListedNumbers(j.o) : numbers[m].dflt
  <1>1. /\ j.op = "provision default" /\ exts' = exts
        /\ \/ Then(w, next) /\ dflt /\ numbers' = numbers
           \/ Then(w, next) /\ numbers' = Presenting(k, j.n)
           \/ Ends(w, FALSE) /\ numbers' = numbers
    BY DEF ProvisionDefault
  <1>2. next.op = "provision route" /\ next.n = j.n /\ next.o = j.o /\ next.d = j.d /\ j.o \in Accounts
    <2>1. j \in ProvisionJob
      BY <1>1, TypedParts DEF JobTyped
    <2> QED
      BY <2>1 DEF ProvisionJob
  <1> HIDE DEF next, k
  <1>3. /\ DOMAIN numbers' = DOMAIN numbers
        /\ \A m \in DOMAIN numbers : /\ numbers'[m].id = numbers[m].id /\ numbers'[m].owner = numbers[m].owner
                                     /\ numbers'[m].link = numbers[m].link
    BY <1>1, PresentingKeeps
  <1>4. OwnIds(numbers')
    BY <1>3, SameIds DEF LinesWhole
  <1>5. CASE Ends(w, FALSE)
    BY <1>1, <1>4, <1>5, EndsWhole
  <1>6. CASE Then(w, next) /\ ((dflt /\ numbers' = numbers) \/ numbers' = Presenting(k, j.n))
    <2>1. Serves(w) /\ Goes(w, next) /\ answer'.line = 0
      BY <1>1, <1>6, GoingOn DEF Then, Silent
    <2>2. ~crossed' => ReadyFor(numbers, exts, j)
      BY <1>1, <2>1, FindsHalf DEF Halfway
    <2> HIDE DEF j
    <2>3. ~crossed' => ReadyFor(numbers', exts', next)
      BY <1>1, <1>2, <1>3, <2>2 DEF ReadyFor, Ready, Desk
    <2>4. ~crossed' => Presented(numbers', j.o)
      <3>1. CASE dflt /\ numbers' = numbers
        <4>1. j.o # 0
          BY <1>2, SmallNumbers
        <4> QED
          BY <3>1, <4>1 DEF ListedNumbers, Presented
      <3>2. CASE numbers' = Presenting(k, j.n)
        <4>1. ~crossed' => j.n \in DOMAIN numbers /\ numbers[j.n].owner = j.o
          BY <2>2 DEF ReadyFor, Ready, Desk
        <4>2. ~crossed' => numbers'[j.n].dflt
          BY <3>2, <4>1, PresentingKeeps
        <4> QED
          BY <1>3, <4>1, <4>2 DEF Presented
      <3> QED
        BY <1>6, <3>1, <3>2
    <2>5. ~crossed' => Halfway(numbers', exts', routes', next)
      BY <1>2, <2>3, <2>4 DEF Halfway
    <2>6. jobs'[w] = next /\ \A v \in Threads \ {w} : jobs'[v] = jobs[v]
      BY <2>1, TypedParts, OneGoes
    <2> QED
      BY <1>4, <2>1, <2>5, <2>6, WholeOn
  <1> QED
    BY <1>1, <1>5, <1>6

LEMMA ProvisionRouteHalf ==
    ASSUME LinesTyped, LinesHeld, LinesWhole, NEW w \in Threads, ProvisionRoute(w)
    PROVE  LinesWhole'
  <1> DEFINE j     == jobs[w]
             n     == j.n
             typed == [digits |-> j.d, line |-> j.n]
             ks    == IF LineDevices(j.o, n) = <<>> THEN <<typed>> ELSE LineDevices(j.o, n)
             nodes == DefaultNumberRoute(ks, <<>>)
             next  == [j EXCEPT !.op = "provision desk"]
             k     == numbers[n].link
  <1>1. /\ j.op = "provision route" /\ UNCHANGED <<numbers, exts>>
        /\ \/ routes' = StoredRoute(routes, j.o, n, nodes) /\ Then(w, next)
           \/ Ends(w, FALSE)
    BY DEF ProvisionRoute
  <1>2. next.op = "provision desk" /\ next.n = n
    <2>1. j \in ProvisionJob
      BY <1>1, TypedParts DEF JobTyped
    <2> QED
      BY <2>1 DEF ProvisionJob
  <1> HIDE DEF next, typed
  <1>3. CASE Ends(w, FALSE)
    BY <1>1, <1>3, StillOwn, EndsWhole
  <1>4. CASE routes' = StoredRoute(routes, j.o, n, nodes) /\ Then(w, next)
    <2>1. Serves(w) /\ Goes(w, next) /\ answer'.line = 0
      BY <1>1, <1>4, GoingOn DEF Then, Silent
    <2>2. ~crossed' => ReadyFor(numbers, exts, j) /\ Presented(numbers, j.o)
      BY <1>1, <2>1, FindsHalf DEF Halfway
    <2>3. jobs'[w] = next /\ \A v \in Threads \ {w} : jobs'[v] = jobs[v]
      BY <2>1, TypedParts, OneGoes
    <2>4. ASSUME ~crossed' PROVE Working(numbers', exts', routes', n)
      <3>1. Ready(numbers, exts, n, j.o)
        BY <2>2, <2>4 DEF ReadyFor
      <3> HIDE DEF j, n
      <3>2. Desk(numbers, exts, n, k.digits, j.o) /\ k.line = n
        BY <3>1 DEF Ready
      <3>3. n \in DOMAIN numbers /\ numbers[n].owner = j.o
        BY <3>2 DEF Desk
      <3>4. k \in Key
        BY <3>3, TypedParts DEF Line
      <3>5. k \in ToSet(LineDevices(j.o, n))
        <4>1. k = [digits |-> k.digits, line |-> n]
          BY <3>2, <3>4, KeyParts
        <4> HIDE DEF k
        <4>2. PICK i \in OnNumber(j.o, n) : exts[i].active /\ KeyOf(i) = k
          BY <3>2, <4>1, DeskRow DEF LinesWhole
        <4> QED
          BY <4>2, TypedParts, DeviceListed
      <3>6. ks = LineDevices(j.o, n)
        <4>1. ToSet(<<>>) = {}
          BY DEF ToSet
        <4> QED
          BY <3>5, <4>1
      <3>7. ks \in Seq(Key) /\ k \in ToSet(ks)
        BY <3>5, <3>6, TypedParts, DevicesAre
      <3> HIDE DEF ks, k
      <3>8. \E x \in ToSet(nodes) : x.type = "ring" /\ x.on /\ k \in ToSet(x.exts)
        BY <3>7, DefaultRings
      <3> HIDE DEF nodes
      <3>9. n \in DOMAIN routes' /\ routes'[n] = [owner |-> j.o, nodes |-> nodes]
        BY <1>4 DEF StoredRoute, Put
      <3>10. routes'[n].owner = j.o /\ routes'[n].nodes = nodes
        BY <3>9
      <3>11. numbers' = numbers /\ exts' = exts /\ numbers'[n].link = k
        BY <1>1 DEF k
      <3> QED
        BY <2>2, <2>4, <3>1, <3>3, <3>8, <3>9, <3>10, <3>11 DEF Working
    <2> HIDE DEF n
    <2>5. ~crossed' => Halfway(numbers', exts', routes', next)
      BY <1>2, <2>4 DEF Halfway
    <2> QED
      BY <1>1, <2>1, <2>3, <2>5, StillOwn, WholeOn
  <1> QED
    BY <1>1, <1>3, <1>4

LEMMA ProvisionDeskHalf ==
    ASSUME LinesTyped, LinesHeld, LinesWhole, NEW w \in Threads, ProvisionDesk(w)
    PROVE  LinesWhole'
  <1> DEFINE j    == jobs[w]
             next == [op |-> "menus", o |-> j.o]
  <1>1. /\ j.op = "provision desk" /\ UNCHANGED <<numbers, exts, routes>>
        /\ Provides(w, next, j.n) \/ Ends(w, FALSE)
    BY DEF ProvisionDesk
  <1>2. Apart(next)
    BY DEF Apart
  <1> HIDE DEF next
  <1>3. CASE Ends(w, FALSE)
    BY <1>1, <1>3, StillOwn, EndsWhole
  <1>4. CASE Provides(w, next, j.n)
    <2>1. Serves(w) /\ Goes(w, next) /\ answer'.line = j.n
      BY <1>1, <1>4, GoingOn DEF Provides
    <2>2. ~crossed' => Working(numbers', exts', routes', j.n)
      BY <1>1, <2>1, FindsHalf DEF Halfway
    <2>3. jobs'[w] = next /\ \A v \in Threads \ {w} : jobs'[v] = jobs[v]
      BY <2>1, TypedParts, OneGoes
    <2> QED
      BY <1>1, <1>2, <2>1, <2>2, <2>3, StillOwn, ApartWaits, WholeOn
  <1> QED
    BY <1>1, <1>3, <1>4

LEMMA WholeAtFirst == Init => LinesWhole
  <1> SUFFICES ASSUME Init PROVE LinesWhole
    OBVIOUS
  <1>1. DOMAIN numbers = {Min(Numbers)} /\ jobs = [w \in Threads |-> Idle] /\ answer.line = 0
    BY DEF Init, Silent
  <1>2. OwnIds(numbers)
    BY <1>1 DEF OwnIds
  <1>3. Apart(Idle)
    BY DEF Apart, Idle
  <1> QED
    BY <1>1, <1>2, <1>3, ApartWaits DEF LinesWhole

LEMMA WholeGoesOn == LinesTyped /\ LinesHeld /\ LinesWhole /\ [Next]_vars => LinesWhole'
  <1> SUFFICES ASSUME LinesTyped, LinesHeld, LinesWhole, [Next]_vars PROVE LinesWhole'
    OBVIOUS
  <1>1. CASE UNCHANGED vars
    BY <1>1 DEF vars, tables, LinesWhole
  <1>2. CASE Next
    <2>1. PICK w \in Threads :
         \/ SaveExtension(w) \/ AddExtension(w) \/ WriteExtension(w) \/ ExtensionFlows(w) \/ Menus(w)
         \/ DeleteExtension(w) \/ DropExtension(w)
         \/ Discontinue(w) \/ SaveNumber(w) \/ WriteNumber(w) \/ Claim(w) \/ Adopt(w)
         \/ DeleteNumber(w) \/ TakeDown(w) \/ Release(w)
         \/ Provision(w) \/ ProvisionLink(w)
         \/ ProvisionDefault(w) \/ ProvisionRoute(w) \/ ProvisionDesk(w)
         \/ SaveCallRoute(w) \/ SaveRoutingFlow(w) \/ DeleteRoutingFlow(w) \/ SaveGroup(w)
         \/ SaveDevice(w) \/ SetDefaults(w) \/ WriteDefaults(w) \/ SetDefaultOutbound(w)
      BY <1>2 DEF Next
    <2> QED
      BY <2>1, AskedWhole, WriteExtensionHalf, ExtensionFlowsHalf, LastWhole, SimpleWhole, WriteNumberHalf, ClaimHalf,
         AdoptHalf, DeleteNumberWhole, TakeDownWhole, ProvisionHalf, ProvisionLinkHalf,
         ProvisionDefaultHalf, ProvisionRouteHalf, ProvisionDeskHalf
  <1> QED
    BY <1>1, <1>2

\* A number provisioned while no other request was under way works: its link
\* is an active extension of its owner on that very number, a call to it rings
\* that extension unless a flow saved for its key has switched it off, and the
\* account has a number to call out on (provision_number and the requests it
\* is made of).
THEOREM ProvisionedNumbersWork == Spec => []ProvisionWhole
  BY LinesAreTyped, HeldAtFirst, HeldGoesOn, WholeAtFirst, WholeGoesOn, WholeIsProvisioned, PTL DEF Spec

-----------------------------------------------------------------------------
(* ConfigSync: the inductive invariants.                                   *)

\* How far the synchronisation that holds the lock has come.
Stage == IF lock = nobody THEN "free" ELSE job[lock].step

\* The include files that are written when it has come so far.
Written == [s \in Steps |->
    CASE s \in {"mark", "ice"} -> {"public"}
      [] s = "transports"      -> {"public", "ice"}
      [] s = "pjsip"           -> {"public", "ice", "transports"}
      [] s = "dialplan"        -> {"public", "ice", "transports", "pjsip"}
      [] s = "voicemail"       -> {"public", "ice", "transports", "pjsip", "dialplan"}
      [] s \in {"idle", "lock", "render", "public"} -> {}
      [] OTHER -> {"public", "ice", "transports", "pjsip", "dialplan", "voicemail"}]

\* Asterisk answers for no transport and no section but those of the files.
Synced == loaded.transports = file.transports /\ loaded.pjsip \subseteq file.pjsip

\* Whatever the synchronisation is going to change is on record before, and
\* taken off the record only when Asterisk knows of it.
OnRecord ==
    /\ Stage \notin {"free", "render"} /\ plan.restart => "restart" \in markers
    /\ Stage \in {"public", "mark", "ice", "transports"} =>
         plan.restart \/ plan.content.transports = file.transports
    /\ Stage \in {"public", "mark", "ice", "transports", "pjsip"} =>
         plan.restart \/ file.pjsip \subseteq plan.content.pjsip
    /\ Stage = "ice" => "rtp" \in markers
    /\ Stage = "unmark rtp" => loaded.ice = file.ice
    /\ Stage \in {"verify", "unmark restart"} => pbx.state # "up" \/ pbx.waiting \/ Synced

OwedInv == OnRecord /\ OwedKept

\* A request whose change has not been rendered yet.
Stale == \E w \in Api : job[w].step \in {"lock", "render"}

\* What the holder of the lock has rendered is what the rows say, unless one
\* of them was changed since, by a request that waits for its turn.
FollowInv ==
    ~missed /\ ~Stale =>
        /\ Stage \in {"free", "render"} => file = Rendered(rows, local)
        /\ Stage \notin {"free", "render"} =>
             /\ plan.content = Rendered(rows, local)
             /\ \A f \in Written[Stage] : file[f] = plan.content[f]

-----------------------------------------------------------------------------
(* Types.                                                                  *)

\* Who holds the lock and how far each job is.
JobTypes ==
    /\ lock \in Process \cup {nobody}
    /\ job \in [Process -> [step : Steps, pending : BOOLEAN]]
    /\ \A w \in Process :
         /\ lock = w <=> job[w].step \notin {"idle", "lock"}
         /\ job[w].step \notin {"idle", "lock", "render"} => plan \in Plans
         /\ job[w].pending => w = ari

\* The rest.
DataTypes ==
    /\ rows \in Rows /\ file \in Files /\ local \in 0..MaxFaults
    /\ DOMAIN loaded = {"ice", "transports", "pjsip", "dialplan", "voicemail"}
    /\ markers \subseteq {"restart", "rtp"}
    /\ {booted, missed} \subseteq BOOLEAN
    /\ pbx \in [state : {"up", "down", "starting"}, waiting : BOOLEAN]
    /\ spent \in [edits : 0..MaxEdits, faults : 0..MaxFaults]

LEMMA TypesSplit == SyncTypeOK <=> JobTypes /\ DataTypes
  BY DEF SyncTypeOK, JobTypes, DataTypes

LEMMA FieldTypes ==
    ASSUME NEW r \in Rows, NEW l \in 0..MaxFaults
    PROVE  /\ Pjsip(r) \in SUBSET (Extensions \X {"phone", "browser"})
           /\ Dialplan(r) \in [rings : SUBSET Extensions, boxes : SUBSET Extensions, browsers : SUBSET Extensions]
           /\ Voicemail(r) \in SUBSET Extensions
  BY DEF Rows, Pjsip, Dialplan, Voicemail, ConfiguredVoicemail, Active

LEMMA RenderedType ==
    ASSUME NEW r \in Rows, NEW l \in 0..MaxFaults, Renderable(r)
    PROVE  Rendered(r, l) \in Files
  <1>1. r.address \in Addresses
    BY DEF Rows, Renderable
  <1>2. QED
    BY <1>1, FieldTypes DEF Rendered, Files, Ice, Transports

\* Writing one of the files.
LEMMA FileTypes ==
    ASSUME NEW f \in Files
    PROVE  /\ \A x \in Addresses : [f EXCEPT !.public = x] \in Files /\ [f EXCEPT !["transports"] = x] \in Files
           /\ \A x \in (0..MaxFaults) \X Addresses : [f EXCEPT !["ice"] = x] \in Files
           /\ \A x \in SUBSET (Extensions \X {"phone", "browser"}) : [f EXCEPT !["pjsip"] = x] \in Files
           /\ \A x \in SUBSET Extensions : [f EXCEPT !["voicemail"] = x] \in Files
           /\ \A x \in [rings : SUBSET Extensions, boxes : SUBSET Extensions, browsers : SUBSET Extensions] :
                [f EXCEPT !["dialplan"] = x] \in Files
  BY DEF Files

LEMMA SpendsType ==
    ASSUME DataTypes, NEW b \in {"edits", "faults"}, Spends(b, IF b = "edits" THEN MaxEdits ELSE MaxFaults)
    PROVE  spent' \in [edits : 0..MaxEdits, faults : 0..MaxFaults]
  BY ConfigAssumption DEF ConfigAssumption, DataTypes, Spends

\* The synchronisation that holds the lock goes on to its next step.
LEMMA GoesOn ==
    ASSUME JobTypes, NEW w \in Process, NEW s \in Steps \ {"idle", "lock", "render"}, lock = w, lock' = lock,
           job' = [job EXCEPT ![w].step = s], plan' \in Plans
    PROVE  /\ JobTypes' /\ Stage' = s /\ \A k \in Process \ {w} : job'[k] = job[k]
           /\ job[w].step # "render" => (Stale' <=> Stale)
  <1>1. job'[w].step = s /\ job'[w].pending = job[w].pending /\ \A k \in Process \ {w} : job'[k] = job[k]
    BY DEF JobTypes
  <1>2. job' \in [Process -> [step : Steps, pending : BOOLEAN]]
    BY DEF JobTypes
  <1>3. lock # nobody
    BY ConfigAssumption DEF ConfigAssumption, Process
  <1>4. job[w].step # "render" => (Stale' <=> Stale)
    BY <1>1 DEF JobTypes, Stale, Process
  <1>5. QED
    BY <1>1, <1>2, <1>3, <1>4 DEF JobTypes, Stage

\* A synchronisation ends, or whoever waits for the lock is gone.
LEMMA LeavesIt ==
    ASSUME JobTypes, NEW w \in Process, NEW next \in {AtRest, Asked}, Leaves(w, next)
    PROVE  /\ JobTypes' /\ \A k \in Process \ {w} : job'[k] = job[k]
           /\ lock = w => Stage' = "free" /\ lock' = nobody
           /\ lock # w => Stage' = Stage /\ lock' = lock /\ plan' = plan
  <1>1. next \in [step : Steps, pending : BOOLEAN] /\ next.step \in {"idle", "lock"} /\ ~next.pending
    <2>1. CASE next = AtRest
      BY <2>1 DEF AtRest, Steps
    <2>2. CASE next = Asked
      BY <2>2 DEF Asked, Steps
    <2>3. QED
      BY <2>1, <2>2
  <1>2. job' \in [Process -> [step : Steps, pending : BOOLEAN]]
    BY <1>1 DEF JobTypes, Leaves
  <1>3. job'[w] = next /\ \A k \in Process \ {w} : job'[k] = job[k]
    BY DEF JobTypes, Leaves
  <1>4. nobody \notin Process
    BY ConfigAssumption DEF ConfigAssumption, Process
  <1>5. CASE lock = w
    <2>1. lock' = nobody /\ \A k \in Process \ {w} : job[k].step \in {"idle", "lock"}
      BY <1>4, <1>5 DEF Leaves, JobTypes
    <2>2. QED
      BY <1>1, <1>2, <1>3, <1>4, <1>5, <2>1 DEF JobTypes, Stage
  <1>6. CASE lock # w
    <2>1. lock' = lock /\ plan' = plan
      BY <1>6 DEF Leaves
    <2>2. QED
      BY <1>1, <1>2, <1>3, <1>4, <1>6, <2>1 DEF JobTypes, Stage
  <1>7. QED
    BY <1>5, <1>6

\* Whoever is past the lock holds it.
LEMMA Holder ==
    ASSUME JobTypes, NEW w \in Process, job[w].step \notin {"idle", "lock"}
    PROVE  /\ lock = w /\ Stage = job[w].step
           /\ Stage # "render" => plan \in Plans
  BY ConfigAssumption DEF ConfigAssumption, JobTypes, Stage, Process

\* A request or the worker asks for a synchronisation; others are not touched.
LEMMA AskStep ==
    ASSUME JobTypes, NEW w \in Process, Edit(w) \/ (w = ari /\ RetryPending)
    PROVE  /\ JobTypes' /\ Stage' = Stage /\ UNCHANGED <<lock, plan, disk, loaded, pbx, missed>>
           /\ \A k \in Process \ {w} : job'[k] = job[k]
           /\ job[w].step = "idle" /\ job'[w].step = "lock"
  <1>1. nobody \notin Process
    BY ConfigAssumption DEF ConfigAssumption, Process
  <1>2. PICK p \in BOOLEAN : (p => w = ari) /\ job' = [job EXCEPT ![w] = [step |-> "lock", pending |-> p]]
    BY DEF Edit, RetryPending, Asked
  <1>3. job[w].step = "idle" /\ UNCHANGED <<lock, plan, disk, loaded, pbx, missed>>
    BY DEF Edit, RetryPending, AtRest, asterisk
  <1>4. job' \in [Process -> [step : Steps, pending : BOOLEAN]]
    BY <1>2 DEF JobTypes, Steps
  <1>5. job'[w] = [step |-> "lock", pending |-> p] /\ \A k \in Process \ {w} : job'[k] = job[k]
    BY <1>2 DEF JobTypes
  <1>6. lock # w
    BY <1>3 DEF JobTypes
  <1>7. QED
    BY <1>1, <1>2, <1>3, <1>4, <1>5, <1>6 DEF JobTypes, Stage

LEMMA TakeLockStep ==
    ASSUME JobTypes, NEW w \in Process, TakeLock(w)
    PROVE  /\ JobTypes' /\ UNCHANGED <<plan, disk, loaded, pbx, missed, rows, spent>>
           /\ \A k \in Process \ {w} : job'[k] = job[k]
           /\ job[w].step = "lock" /\ Stage = "free" /\ Stage' \in {"free", "render"}
           /\ w \in Api => job'[w].step = "render"
           /\ (booted \in BOOLEAN => booted' \in BOOLEAN)
  <1>1. lock = nobody /\ w # nobody /\ nobody \notin Process /\ job[w].step = "lock"
        /\ UNCHANGED <<disk, loaded, pbx, missed, rows, spent>>
    BY ConfigAssumption DEF ConfigAssumption, Process, TakeLock, Done, StepsTo, asterisk
  <1>2. CASE job[w].pending /\ markers = {}
    <2>1. Leaves(w, AtRest) /\ (booted \in BOOLEAN => booted' \in BOOLEAN)
      BY <1>2 DEF TakeLock, Done, JobTypes
    <2>2. w \notin Api
      BY <1>2, ConfigAssumption DEF ConfigAssumption, JobTypes
    <2>3. QED
      BY <1>1, <2>1, <2>2, LeavesIt DEF Stage
  <1>3. CASE ~(job[w].pending /\ markers = {})
    <2>1. lock' = w /\ job' = [job EXCEPT ![w].step = "render"] /\ plan' = plan /\ booted' = booted
      BY <1>3 DEF TakeLock, StepsTo
    <2>2. job' \in [Process -> [step : Steps, pending : BOOLEAN]]
      BY <2>1 DEF JobTypes, Steps
    <2>3. /\ job'[w].step = "render" /\ job'[w].pending = job[w].pending
          /\ \A k \in Process \ {w} : job'[k] = job[k]
      BY <2>1 DEF JobTypes
    <2>4. \A k \in Process : job[k].step \in {"idle", "lock"}
      BY <1>1 DEF JobTypes
    <2>5. QED
      BY <1>1, <2>1, <2>2, <2>3, <2>4 DEF JobTypes, Stage
  <1>4. QED
    BY <1>2, <1>3

\* Whatever ends a synchronisation early counts as missed.
LEMMA EarlyEnd ==
    ASSUME JobTypes, NEW w \in Process, Raises(w) \/ Crash(w)
    PROVE  /\ JobTypes' /\ missed' = TRUE /\ (booted \in BOOLEAN => booted' \in BOOLEAN)
           /\ \/ Stage' = "free" \/ (Stage' = Stage /\ plan' = plan)
  <1>1. PICK next \in {AtRest, Asked} : Leaves(w, next)
    BY DEF Raises, Crash
  <1>2. (booted \in BOOLEAN => booted' \in BOOLEAN) /\ missed' = TRUE
    BY DEF Raises, Crash, Leaves
  <1>3. QED
    BY <1>1, <1>2, LeavesIt

LEMMA DoneStep ==
    ASSUME JobTypes, NEW w \in Process, Done(w), lock = w
    PROVE  /\ JobTypes' /\ Stage' = "free" /\ missed' = missed /\ (booted \in BOOLEAN => booted' \in BOOLEAN)
           /\ job[w].step # "render" => (Stale' <=> Stale)
  <1>1. Leaves(w, AtRest) /\ missed' = missed /\ (booted \in BOOLEAN => booted' \in BOOLEAN)
    BY DEF Done
  <1>2. job'[w] = AtRest
    BY <1>1 DEF Leaves, JobTypes
  <1>3. job'[w].step = "idle" /\ job[w].step # "lock" /\ \A k \in Process \ {w} : job'[k] = job[k]
    BY <1>1, <1>2, LeavesIt DEF AtRest, JobTypes
  <1>4. QED
    BY <1>1, <1>3, LeavesIt DEF Stale, Process

-----------------------------------------------------------------------------
(* What the files hold at each stage.                                      *)

Every == {"public", "ice", "transports", "pjsip", "dialplan", "voicemail"}

\* The stages at which every file is written.
Late == {"reload rtp", "unmark rtp", "apply", "verify", "unmark restart", "reload voicemail", "reload dialplan"}

LEMMA WrittenAt ==
    /\ Written["public"] = {} /\ Written["mark"] = {"public"} /\ Written["ice"] = {"public"}
    /\ Written["transports"] = {"public", "ice"}
    /\ Written["pjsip"] = {"public", "ice", "transports"}
    /\ Written["dialplan"] = {"public", "ice", "transports", "pjsip"}
    /\ Written["voicemail"] = {"public", "ice", "transports", "pjsip", "dialplan"}
    /\ \A s \in Late : Written[s] = Every
  BY DEF Written, Steps, Late, Every

LEMMA SameFiles ==
    ASSUME NEW f \in Files, NEW g \in Files, \A x \in Every : f[x] = g[x]
    PROVE  f = g
  BY DEF Files, Every

\* The whole invariant.
SyncInv == JobTypes /\ DataTypes /\ OwedInv /\ FollowInv

\* Nothing Asterisk or the files hold has changed.
LEMMA QuietOwed ==
    ASSUME OwedInv, UNCHANGED <<file, loaded, markers, pbx>>,
           Stage' \in {"free", "render"} \/ (Stage' = Stage /\ plan' = plan)
    PROVE  OwedInv'
  BY DEF OwedInv, OnRecord, OwedKept, Synced

\* A stage of the reloads follows another, or the synchronisation ends.
LEMMA LateFollow ==
    ASSUME SyncInv, Stage \in Late, Stale' <=> Stale, UNCHANGED <<rows, file, local, missed>>,
           Stage' = "free" \/ (Stage' \in Late /\ plan' = plan), plan \in Plans
    PROVE  FollowInv'
  <1> SUFFICES ASSUME ~missed, ~Stale
               PROVE  FollowInv'
    BY DEF FollowInv
  <1>1. plan.content = Rendered(rows, local) /\ \A f \in Every : file[f] = plan.content[f]
    BY WrittenAt DEF SyncInv, FollowInv, Late
  <1>2. file = Rendered(rows, local)
    BY <1>1, SameFiles DEF SyncInv, DataTypes, Plans
  <1>3. CASE Stage' = "free"
    BY <1>2, <1>3 DEF FollowInv, Rendered
  <1>4. CASE Stage' \in Late /\ plan' = plan
    BY <1>1, <1>4, WrittenAt DEF FollowInv, Late
  <1>5. QED
    BY <1>3, <1>4

-----------------------------------------------------------------------------
(* The steps outside a synchronisation.                                    *)

LEMMA AskInv ==
    ASSUME SyncInv, NEW w \in Process, Edit(w) \/ (w = ari /\ RetryPending)
    PROVE  SyncInv'
  <1>1. JobTypes /\ DataTypes
    BY DEF SyncInv
  <1>2. /\ JobTypes' /\ Stage' = Stage /\ UNCHANGED <<lock, plan, disk, loaded, pbx, missed>>
        /\ \A k \in Process \ {w} : job'[k] = job[k]
        /\ job[w].step = "idle" /\ job'[w].step = "lock"
    BY <1>1, AskStep
  <1>3. CASE Edit(w)
    <2>1. DataTypes'
      <3>1. spent' \in [edits : 0..MaxEdits, faults : 0..MaxFaults]
        BY <1>1, <1>3, SpendsType DEF Edit
      <3>2. QED
        BY <1>1, <1>3, <3>1 DEF Edit, DataTypes, disk, asterisk
    <2>2. Stale'
      BY <1>2, <1>3 DEF Edit, Stale
    <2>3. QED
      BY <1>2, <2>1, <2>2, QuietOwed DEF SyncInv, FollowInv, disk
  <1>4. CASE w = ari /\ RetryPending
    <2>1. DataTypes' /\ rows' = rows
      BY <1>1, <1>4 DEF RetryPending, DataTypes, disk, asterisk
    <2>2. Stale' <=> Stale
      BY <1>2, <1>4, ConfigAssumption DEF ConfigAssumption, Stale, Process
    <2>3. FollowInv'
      BY <1>2, <2>1, <2>2 DEF SyncInv, FollowInv, Rendered, disk
    <2>4. QED
      BY <1>2, <2>1, <2>3, QuietOwed DEF SyncInv, disk
  <1>5. QED
    BY <1>3, <1>4

LEMMA TakeLockInv ==
    ASSUME SyncInv, NEW w \in Process, TakeLock(w)
    PROVE  SyncInv'
  <1>1. JobTypes /\ DataTypes
    BY DEF SyncInv
  <1>2. /\ JobTypes' /\ UNCHANGED <<plan, disk, loaded, pbx, missed, rows, spent>>
        /\ \A k \in Process \ {w} : job'[k] = job[k]
        /\ job[w].step = "lock" /\ Stage = "free" /\ Stage' \in {"free", "render"}
        /\ w \in Api => job'[w].step = "render"
        /\ booted' \in BOOLEAN
    BY <1>1, TakeLockStep DEF DataTypes
  <1>3. DataTypes'
    BY <1>1, <1>2 DEF DataTypes, disk
  <1>4. Stale' <=> Stale
    BY <1>2 DEF Stale, Process
  <1>5. FollowInv'
    BY <1>2, <1>4 DEF SyncInv, FollowInv, disk
  <1>6. QED
    BY <1>2, <1>3, <1>5, QuietOwed DEF SyncInv, disk

\* What fails leaves everything on record as it was.
LEMMA EarlyEndInv ==
    ASSUME SyncInv, NEW w \in Process, Raises(w) \/ Crash(w), UNCHANGED <<rows, disk, pbx, loaded>>,
           spent' \in [edits : 0..MaxEdits, faults : 0..MaxFaults]
    PROVE  SyncInv'
  <1>1. JobTypes /\ DataTypes
    BY DEF SyncInv
  <1>2. /\ JobTypes' /\ missed' = TRUE /\ booted' \in BOOLEAN
        /\ Stage' = "free" \/ (Stage' = Stage /\ plan' = plan)
    BY <1>1, EarlyEnd DEF DataTypes
  <1>3. DataTypes'
    BY <1>1, <1>2 DEF DataTypes, disk
  <1>4. QED
    BY <1>2, <1>3, QuietOwed DEF SyncInv, FollowInv, disk

LEMMA AsteriskInv ==
    ASSUME SyncInv, CallsEnd \/ Recreate \/ Starts
    PROVE  SyncInv'
  <1>1. JobTypes /\ DataTypes
    BY DEF SyncInv
  <1>2. UNCHANGED <<rows, disk, lock, job, plan, booted, missed>>
    BY DEF CallsEnd, Recreate, Starts
  <1>3. JobTypes' /\ Stage' = Stage /\ (Stale' <=> Stale)
    BY <1>1, <1>2 DEF JobTypes, Stage, Stale
  <1>4. FollowInv'
    BY <1>2, <1>3 DEF SyncInv, FollowInv, disk
  <1>5. CASE CallsEnd \/ Recreate
    <2>1. spent' \in [edits : 0..MaxEdits, faults : 0..MaxFaults]
      BY <1>1, <1>5, SpendsType DEF CallsEnd, Recreate, DataTypes
    <2>2. pbx'.state # "up" /\ pbx' \in [state : {"up", "down", "starting"}, waiting : BOOLEAN] /\ loaded' = loaded
      <3>1. CASE CallsEnd
        BY <3>1 DEF CallsEnd, Stops
      <3>2. CASE Recreate
        BY <3>2 DEF Recreate, Stops
      <3>3. QED
        BY <1>5, <3>1, <3>2
    <2>3. DataTypes'
      BY <1>1, <1>2, <2>1, <2>2 DEF DataTypes, disk
    <2>4. OwedInv'
      BY <1>2, <1>3, <2>2 DEF SyncInv, OwedInv, OnRecord, OwedKept, disk
    <2>5. QED
      BY <1>3, <1>4, <2>3, <2>4 DEF SyncInv
  <1>6. CASE Starts
    <2>1. /\ DOMAIN loaded' = {"ice", "transports", "pjsip", "dialplan", "voicemail"}
          /\ loaded'.transports = file.transports /\ loaded'.pjsip = file.pjsip /\ loaded'.ice = file.ice
      <3>1. DOMAIN file = {"public", "ice", "transports", "pjsip", "dialplan", "voicemail"}
        BY <1>1 DEF DataTypes, Files
      <3>2. QED
        BY <1>6, <3>1 DEF Starts, Loads
    <2>2. DataTypes'
      BY <1>1, <1>2, <1>6, <2>1 DEF Starts, DataTypes, disk
    <2>3. OwedInv'
      BY <1>2, <1>3, <2>1 DEF SyncInv, OwedInv, OnRecord, OwedKept, Synced, disk
    <2>4. QED
      BY <1>3, <1>4, <2>2, <2>3 DEF SyncInv
  <1>7. QED
    BY <1>5, <1>6

\* The container maps its address while nobody synchronises.
LEMMA ConfigureIceInv ==
    ASSUME SyncInv, ConfigureIce
    PROVE  SyncInv'
  <1>1. JobTypes /\ DataTypes
    BY DEF SyncInv
  <1>2. /\ UNCHANGED <<rows, markers, lock, job, plan, booted, loaded, missed, spent>> /\ Stage = "free"
        /\ pbx'.state # "up" /\ pbx' \in [state : {"up", "down", "starting"}, waiting : BOOLEAN]
    BY DEF ConfigureIce, Stops, Stage
  <1>3. JobTypes' /\ Stage' = "free" /\ (Stale' <=> Stale)
    BY <1>1, <1>2 DEF JobTypes, Stage, Stale, ConfigureIce
  <1>4. local' \in 0..MaxFaults /\ file' = [file EXCEPT !["ice"] = <<local', file.public>>]
    BY <1>1, ConfigAssumption DEF ConfigAssumption, ConfigureIce, DataTypes, Ice
  <1>5. file' \in Files
    <2>1. <<local', file.public>> \in (0..MaxFaults) \X Addresses
      BY <1>1, <1>4 DEF DataTypes, Files
    <2>2. QED
      BY <1>1, <1>4, <2>1, FileTypes DEF DataTypes
  <1>6. DataTypes'
    BY <1>1, <1>2, <1>4, <1>5 DEF DataTypes
  <1>7. OwedInv'
    BY <1>2, <1>3 DEF OwedInv, OnRecord, OwedKept
  <1>8. FollowInv'
    <2>1. file = Rendered(rows, local) => file' = Rendered(rows, local')
      <3> SUFFICES ASSUME file = Rendered(rows, local)
                   PROVE  file' = Rendered(rows, local')
        OBVIOUS
      <3>1. /\ file.public = rows.address /\ file.transports = rows.address /\ file.pjsip = Pjsip(rows)
            /\ file.dialplan = Dialplan(rows) /\ file.voicemail = Voicemail(rows)
        BY DEF Rendered, Transports
      <3>2. /\ file'["public"] = rows.address /\ file'["ice"] = <<local', rows.address>>
            /\ file'["transports"] = rows.address /\ file'["pjsip"] = Pjsip(rows)
            /\ file'["dialplan"] = Dialplan(rows) /\ file'["voicemail"] = Voicemail(rows)
        BY <1>1, <1>4, <3>1 DEF DataTypes, Files
      <3>3. Rendered(rows, local') \in Files
        <4>1. rows.address \in Addresses
          BY <1>1, <3>1 DEF DataTypes, Files
        <4>2. Renderable(rows)
          BY <4>1, ConfigAssumption DEF ConfigAssumption, Renderable
        <4>3. QED
          BY <1>1, <1>4, <4>2, RenderedType DEF DataTypes
      <3>4. \A x \in Every : file'[x] = Rendered(rows, local')[x]
        BY <3>2 DEF Every, Rendered, Transports, Ice
      <3>5. QED
        BY <1>5, <3>3, <3>4, SameFiles
    <2>2. QED
      BY <1>2, <1>3, <2>1 DEF SyncInv, FollowInv, Rendered
  <1>9. QED
    BY <1>3, <1>6, <1>7, <1>8 DEF SyncInv

-----------------------------------------------------------------------------
(* The steps of a synchronisation.                                         *)

LEMMA RenderInv ==
    ASSUME SyncInv, NEW w \in Process, Render(w)
    PROVE  SyncInv'
  <1>1. JobTypes /\ DataTypes /\ lock = w /\ Stage = "render" /\ job[w].step = "render"
    BY Holder DEF SyncInv, Render
  <1>2. CASE ~Renderable(rows)
    <2>1. Raises(w) /\ UNCHANGED <<rows, disk, pbx, loaded, spent>>
      BY <1>2 DEF Render, disk, asterisk
    <2>2. QED
      BY <1>1, <2>1, EarlyEndInv DEF DataTypes
  <1>3. CASE Renderable(rows)
    <2>1. /\ UNCHANGED <<rows, file, local, lock, booted, loaded, pbx, spent>> /\ missed' = FALSE
          /\ markers' = markers \cup (IF Owes(rows) THEN {"restart"} ELSE {})
          /\ plan' = [content |-> Rendered(rows, local), restart |-> Owes(rows)]
          /\ job' = [job EXCEPT ![w].step = "public"]
      BY <1>3 DEF Render, asterisk
    <2>2. plan' \in Plans /\ plan'.content = Rendered(rows, local) /\ (plan'.restart <=> Owes(rows))
      <3>1. Rendered(rows, local) \in Files
        BY <1>1, <1>3, RenderedType DEF DataTypes
      <3>2. Owes(rows) \in BOOLEAN
        BY DEF Owes
      <3>3. QED
        BY <2>1, <3>1, <3>2 DEF Plans
    <2>3. JobTypes' /\ Stage' = "public"
      BY <1>1, <2>1, <2>2, GoesOn DEF Steps
    <2>4. DataTypes'
      BY <1>1, <2>1 DEF DataTypes
    <2>5. OwedInv'
      <3>1. plan'.restart => "restart" \in markers'
        BY <2>1, <2>2
      <3>2. \/ plan'.restart
            \/ plan'.content.transports = file.transports /\ file.pjsip \subseteq plan'.content.pjsip
        BY <2>2 DEF Owes, Rendered
      <3>3. OwedKept'
        BY <2>1 DEF SyncInv, OwedInv, OwedKept
      <3>4. QED
        BY <2>1, <2>3, <3>1, <3>2, <3>3 DEF OwedInv, OnRecord
    <2>6. FollowInv'
      BY <2>1, <2>2, <2>3, WrittenAt DEF FollowInv, Rendered
    <2>7. QED
      BY <2>3, <2>4, <2>5, <2>6 DEF SyncInv
  <1>4. QED
    BY <1>2, <1>3

\* Until the files are written the plan stands, and so does what Asterisk has
\* loaded.
LEMMA WritingInv ==
    ASSUME SyncInv, NEW w \in Process, lock = w, Stage = job[w].step,
           NEW s \in Steps \ {"idle", "lock", "render"}, Stage \notin {"free", "render", "idle", "lock"},
           StepsTo(w, s), UNCHANGED <<rows, local, lock, plan, loaded, pbx, spent>>,
           file' \in Files, markers' \subseteq {"restart", "rtp"}, plan \in Plans,
           ~missed /\ ~Stale => \A f \in Written[s] : file'[f] = plan.content[f]
    PROVE  /\ JobTypes' /\ DataTypes' /\ FollowInv' /\ Stage' = s
  <1>1. job' = [job EXCEPT ![w].step = s] /\ UNCHANGED <<booted, missed>>
    BY DEF StepsTo
  <1>2. JobTypes' /\ Stage' = s /\ (Stale' <=> Stale)
    BY <1>1, GoesOn DEF SyncInv
  <1>3. DataTypes'
    BY <1>1 DEF SyncInv, DataTypes
  <1>4. FollowInv'
    <2>1. ~missed /\ ~Stale => plan.content = Rendered(rows, local)
      BY DEF SyncInv, FollowInv
    <2>2. s # "free"
      BY DEF Steps
    <2>3. QED
      BY <1>1, <1>2, <2>1, <2>2 DEF FollowInv, Rendered
  <1>5. QED
    BY <1>2, <1>3, <1>4

\* What is written so far is what was rendered.
LEMMA SoFar ==
    ASSUME SyncInv, Stage \notin {"free", "render"}, ~missed, ~Stale
    PROVE  /\ plan.content = Rendered(rows, local)
           /\ \A f \in Written[Stage] : file[f] = plan.content[f]
  BY DEF SyncInv, FollowInv

LEMMA WritePublicInv ==
    ASSUME SyncInv, NEW w \in Process, WritePublic(w)
    PROVE  SyncInv'
  <1>1. JobTypes /\ DataTypes /\ lock = w /\ Stage = "public" /\ job[w].step = "public" /\ plan \in Plans
    BY Holder DEF SyncInv, WritePublic
  <1>2. PICK s \in {"transports", "mark"} :
          StepsTo(w, s) /\ (s = "transports" => file.ice = plan.content.ice)
    BY DEF WritePublic
  <1>3. /\ UNCHANGED <<rows, local, markers, lock, plan, loaded, pbx, spent>>
        /\ file' = [file EXCEPT !.public = plan.content.public]
    BY DEF WritePublic, asterisk
  <1>4. file' \in Files
    <2>1. plan.content.public \in Addresses
      BY <1>1 DEF Plans, Files
    <2>2. QED
      BY <1>1, <1>3, <2>1, FileTypes DEF DataTypes
  <1>5. /\ file'["public"] = plan.content["public"] /\ file'.ice = file.ice
        /\ file'.transports = file.transports /\ file'.pjsip = file.pjsip
    BY <1>1, <1>3 DEF DataTypes, Files
  <1>6. \A f \in Written[s] : file'[f] = plan.content[f]
    BY <1>2, <1>5, WrittenAt
  <1>7. JobTypes' /\ DataTypes' /\ FollowInv' /\ Stage' = s
    BY <1>1, <1>2, <1>3, <1>4, <1>6, WritingInv DEF Steps, DataTypes
  <1>8. OwedInv'
    BY <1>1, <1>2, <1>3, <1>5, <1>7 DEF SyncInv, OwedInv, OnRecord, OwedKept, Synced
  <1>9. QED
    BY <1>7, <1>8 DEF SyncInv

LEMMA MarkRtpInv ==
    ASSUME SyncInv, NEW w \in Process, MarkRtp(w)
    PROVE  SyncInv'
  <1>1. JobTypes /\ DataTypes /\ lock = w /\ Stage = "mark" /\ job[w].step = "mark" /\ plan \in Plans
    BY Holder DEF SyncInv, MarkRtp
  <1>2. /\ StepsTo(w, "ice") /\ markers' = markers \cup {"rtp"}
        /\ UNCHANGED <<rows, file, local, lock, plan, loaded, pbx, spent>>
    BY DEF MarkRtp, asterisk
  <1>3. ~missed /\ ~Stale => \A f \in Written["ice"] : file'[f] = plan.content[f]
    BY <1>1, <1>2, SoFar, WrittenAt
  <1>4. JobTypes' /\ DataTypes' /\ FollowInv' /\ Stage' = "ice"
    BY <1>1, <1>2, <1>3, WritingInv DEF Steps, DataTypes
  <1>5. OwedInv'
    BY <1>1, <1>2, <1>4 DEF SyncInv, OwedInv, OnRecord, OwedKept, Synced
  <1>6. QED
    BY <1>4, <1>5 DEF SyncInv

LEMMA WriteInv ==
    ASSUME SyncInv, NEW w \in Process,
           NEW f \in {"ice", "transports", "pjsip", "dialplan", "voicemail"}, Write(w, f)
    PROVE  SyncInv'
  <1>1. JobTypes /\ DataTypes /\ lock = w /\ Stage = f /\ job[w].step = f /\ plan \in Plans
    BY Holder DEF SyncInv, Write
  <1>2. PICK s \in Steps \ {"idle", "lock", "render"} :
          /\ StepsTo(w, s)
          /\ f = "ice" => s = "transports"
          /\ f = "transports" => s = "pjsip"
          /\ f = "pjsip" => s = "dialplan"
          /\ f = "dialplan" => s = "voicemail"
          /\ f = "voicemail" => s \in {"reload rtp", "apply"}
    BY DEF Write, Steps
  <1>3. UNCHANGED <<rows, local, markers, lock, plan, loaded, pbx, spent>>
    BY DEF Write, asterisk
  <1> DEFINE c == IF f \in {"dialplan", "voicemail"} THEN Rendered(rows, local)[f] ELSE plan.content[f]
  <1>4. file' = [file EXCEPT ![f] = c]
    BY DEF Write
  <1>5. file' \in Files
    <2>1. CASE f \in {"dialplan", "voicemail"}
      <3>1. c = IF f = "dialplan" THEN Dialplan(rows) ELSE Voicemail(rows)
        BY <2>1 DEF Rendered
      <3>2. QED
        BY <1>1, <1>4, <2>1, <3>1, FieldTypes, FileTypes DEF DataTypes
    <2>2. CASE f \in {"ice", "transports", "pjsip"}
      <3>1. c = plan.content[f] /\ plan.content \in Files
        BY <1>1, <2>2 DEF Plans
      <3>2. QED
        <4>1. file \in Files
          BY <1>1 DEF DataTypes
        <4>2. CASE f = "ice"
          <5>1. c \in (0..MaxFaults) \X Addresses
            BY <3>1, <4>2 DEF Files
          <5>2. QED
            BY <1>4, <4>1, <4>2, <5>1, FileTypes
        <4>3. CASE f = "transports"
          <5>1. c \in Addresses
            BY <3>1, <4>3 DEF Files
          <5>2. QED
            BY <1>4, <4>1, <4>3, <5>1, FileTypes
        <4>4. CASE f = "pjsip"
          <5>1. c \in SUBSET (Extensions \X {"phone", "browser"})
            BY <3>1, <4>4 DEF Files
          <5>2. QED
            BY <1>4, <4>1, <4>4, <5>1, FileTypes
        <4>5. QED
          BY <2>2, <4>2, <4>3, <4>4
    <2>3. QED
      BY <2>1, <2>2
  <1>6. file'[f] = c /\ \A x \in Every \ {f} : file'[x] = file[x]
    BY <1>1, <1>4 DEF DataTypes, Files, Every
  <1>7. ~missed /\ ~Stale => \A x \in Written[s] : file'[x] = plan.content[x]
    <2> SUFFICES ASSUME ~missed, ~Stale
                 PROVE  \A x \in Written[s] : file'[x] = plan.content[x]
      OBVIOUS
    <2>1. plan.content = Rendered(rows, local) /\ \A x \in Written[f] : file[x] = plan.content[x]
      BY <1>1, SoFar
    <2>2. c = plan.content[f]
      BY <2>1
    <2>3. Written[s] = Written[f] \cup {f} /\ Written[f] \subseteq Every \ {f}
      <3>1. CASE f = "ice"
        BY <1>2, <3>1, WrittenAt DEF Every
      <3>2. CASE f = "transports"
        BY <1>2, <3>2, WrittenAt DEF Every
      <3>3. CASE f = "pjsip"
        BY <1>2, <3>3, WrittenAt DEF Every
      <3>4. CASE f = "dialplan"
        BY <1>2, <3>4, WrittenAt DEF Every
      <3>5. CASE f = "voicemail"
        BY <1>2, <3>5, WrittenAt DEF Every, Late
      <3>6. QED
        BY <3>1, <3>2, <3>3, <3>4, <3>5
    <2>4. QED
      BY <1>6, <2>1, <2>2, <2>3
  <1>8. JobTypes' /\ DataTypes' /\ FollowInv' /\ Stage' = s
    BY <1>1, <1>2, <1>3, <1>5, <1>7, WritingInv DEF DataTypes
  <1>9. OwedInv'
    <2>1. CASE f = "ice"
      <3>1. s = "transports" /\ file'.transports = file.transports /\ file'.pjsip = file.pjsip /\ "rtp" \in markers
        BY <1>1, <1>2, <1>6, <2>1 DEF Every, SyncInv, OwedInv, OnRecord
      <3>2. QED
        BY <1>1, <1>3, <1>8, <2>1, <3>1 DEF SyncInv, OwedInv, OnRecord, OwedKept, Synced
    <2>2. CASE f = "transports"
      <3>1. /\ s = "pjsip" /\ file'.transports = plan.content.transports
            /\ file'.pjsip = file.pjsip /\ file'.ice = file.ice
        BY <1>2, <1>6, <2>2 DEF Every
      <3>2. (plan.restart /\ "restart" \in markers) \/ plan.content.transports = file.transports
        BY <1>1, <2>2 DEF SyncInv, OwedInv, OnRecord
      <3>3. QED
        BY <1>1, <1>3, <1>8, <2>2, <3>1, <3>2 DEF SyncInv, OwedInv, OnRecord, OwedKept, Synced
    <2>3. CASE f = "pjsip"
      <3>1. /\ s = "dialplan" /\ file'.pjsip = plan.content.pjsip
            /\ file'.transports = file.transports /\ file'.ice = file.ice
        BY <1>2, <1>6, <2>3 DEF Every
      <3>2. (plan.restart /\ "restart" \in markers) \/ file.pjsip \subseteq plan.content.pjsip
        BY <1>1, <2>3 DEF SyncInv, OwedInv, OnRecord
      <3>3. QED
        BY <1>1, <1>3, <1>8, <2>3, <3>1, <3>2 DEF SyncInv, OwedInv, OnRecord, OwedKept, Synced
    <2>4. CASE f \in {"dialplan", "voicemail"}
      <3>1. file'.pjsip = file.pjsip /\ file'.transports = file.transports /\ file'.ice = file.ice
        BY <1>6, <2>4 DEF Every
      <3>2. s \in {"voicemail", "reload rtp", "apply"}
        BY <1>2, <2>4
      <3>3. QED
        BY <1>1, <1>3, <1>8, <2>4, <3>1, <3>2 DEF SyncInv, OwedInv, OnRecord, OwedKept, Synced
    <2>5. QED
      BY <2>1, <2>2, <2>3, <2>4
  <1>10. QED
    BY <1>8, <1>9 DEF SyncInv

\* Once every file is written they stay; the synchronisation goes on to the
\* next stage, or is done.
LEMMA LateTypes ==
    ASSUME SyncInv, NEW w \in Process, lock = w, Stage = job[w].step, Stage \in Late, plan \in Plans,
           NEW s \in Late \cup {"free"},
           \/ s # "free" /\ StepsTo(w, s) /\ UNCHANGED <<lock, plan>>
           \/ s = "free" /\ Done(w),
           UNCHANGED <<rows, file, local, spent>>,
           DOMAIN loaded' = DOMAIN loaded, markers' \subseteq markers,
           pbx' \in [state : {"up", "down", "starting"}, waiting : BOOLEAN]
    PROVE  JobTypes' /\ DataTypes' /\ FollowInv' /\ Stage' = s
  <1>1. /\ JobTypes' /\ Stage' = s /\ (Stale' <=> Stale) /\ missed' = missed /\ booted' \in BOOLEAN
        /\ s # "free" => plan' = plan
    <2>1. job[w].step # "render"
      BY DEF Late
    <2>2. CASE s # "free"
      <3>1. s \in Steps \ {"idle", "lock", "render"}
        BY <2>2 DEF Late, Steps
      <3>2. QED
        BY <2>1, <2>2, <3>1, GoesOn DEF SyncInv, StepsTo, DataTypes
    <2>3. CASE s = "free"
      BY <2>1, <2>3, DoneStep DEF SyncInv, DataTypes
    <2>4. QED
      BY <2>2, <2>3
  <1>2. DataTypes'
    BY <1>1 DEF SyncInv, DataTypes
  <1>3. FollowInv'
    BY <1>1, LateFollow
  <1>4. QED
    BY <1>1, <1>2, <1>3

\* An action Asterisk refuses ends the synchronisation.
LEMMA Refused ==
    ASSUME SyncInv, NEW w \in Process, pbx.state # "up", UNCHANGED pbx,
           NEW effect, NEW next, Reaches(w, effect, next)
    PROVE  SyncInv'
  <1>1. Raises(w) /\ UNCHANGED <<rows, disk, pbx, loaded, spent>>
    BY DEF Reaches
  <1>2. QED
    BY <1>1, EarlyEndInv DEF SyncInv, DataTypes

LEMMA ReloadInv ==
    ASSUME SyncInv, NEW w \in Process,
           ReloadRtp(w) \/ ReloadPjsip(w) \/ ReloadVoicemail(w) \/ ReloadDialplan(w)
    PROVE  SyncInv'
  <1>1. CASE pbx.state # "up"
    BY <1>1, Refused DEF ReloadRtp, ReloadPjsip, ReloadVoicemail, ReloadDialplan
  <1>2. CASE pbx.state = "up"
    <2>1. JobTypes /\ DataTypes /\ lock = w /\ Stage = job[w].step /\ plan \in Plans
          /\ Stage \in {"reload rtp", "apply", "reload voicemail", "reload dialplan"}
      BY Holder DEF SyncInv, ReloadRtp, ReloadPjsip, ReloadVoicemail, ReloadDialplan
    <2>2. PICK s \in {"unmark rtp", "reload voicemail", "reload dialplan", "free"} :
            \/ s # "free" /\ StepsTo(w, s) /\ UNCHANGED <<lock, plan>>
            \/ s = "free" /\ Done(w)
      BY <1>2 DEF ReloadRtp, ReloadPjsip, ReloadVoicemail, ReloadDialplan, Reaches
    <2>3. UNCHANGED <<rows, file, local, markers, pbx, spent>>
      BY DEF ReloadRtp, ReloadPjsip, ReloadVoicemail, ReloadDialplan, Reaches, disk
    <2>4. /\ DOMAIN loaded' = DOMAIN loaded
          /\ loaded'.transports = loaded.transports
          /\ loaded'.pjsip = loaded.pjsip \/ loaded'.pjsip = loaded.pjsip \cup file.pjsip
          /\ loaded'.ice = loaded.ice \/ loaded'.ice = file.ice
      BY <1>2, <2>1 DEF ReloadRtp, ReloadPjsip, ReloadVoicemail, ReloadDialplan, Reaches, DataTypes
    <2>5. JobTypes' /\ DataTypes' /\ FollowInv' /\ Stage' = s
      BY <2>1, <2>2, <2>3, <2>4, LateTypes DEF Late, DataTypes
    <2>6. OwedKept'
      BY <2>3, <2>4 DEF SyncInv, OwedInv, OwedKept
    <2>7. OnRecord'
      <3>1. s # "free" => plan' = plan
        BY <2>2
      <3>2. s = "unmark rtp" => loaded'.ice = file.ice
        <4>1. CASE ReloadRtp(w)
          BY <1>2, <2>1, <4>1 DEF ReloadRtp, Reaches, DataTypes
        <4>2. CASE ~ReloadRtp(w)
          <5>1. job'[w].step # "unmark rtp"
            <6>1. CASE ReloadPjsip(w)
              BY <1>2, <2>1, <6>1 DEF ReloadPjsip, Reaches, StepsTo, JobTypes
            <6>2. CASE ReloadVoicemail(w)
              BY <1>2, <2>1, <6>2 DEF ReloadVoicemail, Reaches, StepsTo, JobTypes
            <6>3. CASE ReloadDialplan(w)
              <7>1. job' = [job EXCEPT ![w] = AtRest]
                BY <1>2, <6>3 DEF ReloadDialplan, Reaches, Done, Leaves
              <7>2. QED
                BY <2>1, <7>1 DEF JobTypes, AtRest
            <6>4. QED
              BY <4>2, <6>1, <6>2, <6>3
          <5>2. s # "free" => Stage' = job'[w].step
            BY <2>1, <2>2, ConfigAssumption DEF ConfigAssumption, Stage, Process
          <5>3. QED
            BY <2>5, <5>1, <5>2
        <4>3. QED
          BY <4>1, <4>2
      <3>3. QED
        BY <2>1, <2>3, <2>5, <3>1, <3>2 DEF SyncInv, OwedInv, OnRecord
    <2>8. QED
      BY <2>5, <2>6, <2>7 DEF SyncInv, OwedInv
  <1>3. QED
    BY <1>1, <1>2

LEMMA UnmarkRtpInv ==
    ASSUME SyncInv, NEW w \in Process, UnmarkRtp(w)
    PROVE  SyncInv'
  <1>1. JobTypes /\ DataTypes /\ lock = w /\ Stage = "unmark rtp" /\ job[w].step = "unmark rtp" /\ plan \in Plans
    BY Holder DEF SyncInv, UnmarkRtp
  <1>2. /\ StepsTo(w, "apply") /\ UNCHANGED <<rows, file, local, lock, plan, loaded, pbx, spent>>
        /\ markers' = markers \ {"rtp"}
    BY DEF UnmarkRtp, asterisk
  <1>3. JobTypes' /\ DataTypes' /\ FollowInv' /\ Stage' = "apply"
    BY <1>1, <1>2, LateTypes DEF Late, DataTypes
  <1>4. OwedInv'
    BY <1>1, <1>2, <1>3 DEF SyncInv, OwedInv, OnRecord, OwedKept, Synced
  <1>5. QED
    BY <1>3, <1>4 DEF SyncInv

LEMMA AskRestartInv ==
    ASSUME SyncInv, NEW w \in Process, AskRestart(w)
    PROVE  SyncInv'
  <1>1. JobTypes /\ DataTypes /\ lock = w /\ Stage = "apply" /\ job[w].step = "apply" /\ plan \in Plans
    BY Holder DEF SyncInv, AskRestart
  <1>2. CASE pbx.state # "up"
    <2>1. pbx' = pbx
      BY <1>1, <1>2 DEF AskRestart, DataTypes
    <2>2. QED
      BY <1>2, <2>1, Refused DEF AskRestart
  <1>3. CASE pbx.state = "up"
    <2>1. /\ StepsTo(w, "verify") /\ UNCHANGED <<rows, file, local, markers, lock, plan, loaded, spent>>
          /\ pbx' = [state |-> "up", waiting |-> TRUE]
      BY <1>1, <1>3 DEF AskRestart, Reaches, DataTypes, disk
    <2>2. JobTypes' /\ DataTypes' /\ FollowInv' /\ Stage' = "verify"
      BY <1>1, <2>1, LateTypes DEF Late, DataTypes
    <2>3. OwedInv'
      BY <1>1, <1>3, <2>1, <2>2 DEF SyncInv, OwedInv, OnRecord, OwedKept, Synced
    <2>4. QED
      BY <2>2, <2>3 DEF SyncInv
  <1>4. QED
    BY <1>2, <1>3

LEMMA VerifyInv ==
    ASSUME SyncInv, NEW w \in Process, Verify(w)
    PROVE  SyncInv'
  <1>1. JobTypes /\ DataTypes /\ lock = w /\ Stage = "verify" /\ job[w].step = "verify" /\ plan \in Plans
    BY Holder DEF SyncInv, Verify
  <1>2. UNCHANGED <<rows, disk, pbx, loaded, spent, file, local, markers>>
    BY DEF Verify, disk, asterisk
  <1>3. CASE Raises(w)
    BY <1>1, <1>2, <1>3, EarlyEndInv DEF DataTypes
  <1>4. CASE StepsTo(w, "unmark restart") /\ UNCHANGED <<lock, plan>>
    <2>1. JobTypes' /\ DataTypes' /\ FollowInv' /\ Stage' = "unmark restart"
      BY <1>1, <1>2, <1>4, LateTypes DEF Late, DataTypes
    <2>2. OwedInv'
      BY <1>1, <1>2, <1>4, <2>1 DEF SyncInv, OwedInv, OnRecord, OwedKept, Synced
    <2>3. QED
      BY <2>1, <2>2 DEF SyncInv
  <1>5. QED
    BY <1>3, <1>4 DEF Verify

LEMMA UnmarkRestartInv ==
    ASSUME SyncInv, NEW w \in Process, UnmarkRestart(w)
    PROVE  SyncInv'
  <1>1. /\ JobTypes /\ DataTypes /\ lock = w /\ Stage = "unmark restart" /\ job[w].step = "unmark restart"
        /\ plan \in Plans
    BY Holder DEF SyncInv, UnmarkRestart
  <1>2. /\ Done(w) /\ UNCHANGED <<rows, file, local, loaded, pbx, spent>>
        /\ markers' = markers \ {"restart"}
    BY DEF UnmarkRestart, asterisk
  <1>3. JobTypes' /\ DataTypes' /\ FollowInv' /\ Stage' = "free"
    BY <1>1, <1>2, LateTypes DEF Late, DataTypes
  <1>4. OwedInv'
    BY <1>1, <1>2, <1>3 DEF SyncInv, OwedInv, OnRecord, OwedKept, Synced
  <1>5. QED
    BY <1>3, <1>4 DEF SyncInv

-----------------------------------------------------------------------------
(* The theorems.                                                           *)

LEMMA SyncInvHolds == SyncSpec => []SyncInv
  <1>1. SyncInit => SyncInv
    <2> SUFFICES ASSUME SyncInit
                 PROVE  SyncInv
      OBVIOUS
    <2>1. rows.address \in Addresses /\ rows \in Rows /\ local \in 0..MaxFaults
      BY ConfigAssumption DEF ConfigAssumption, SyncInit, Rows
    <2>2. file \in Files
      <3>1. Renderable(rows)
        BY <2>1, ConfigAssumption DEF ConfigAssumption, Renderable
      <3>2. QED
        BY <2>1, <3>1, RenderedType DEF SyncInit
    <2>3. /\ DOMAIN loaded = {"ice", "transports", "pjsip", "dialplan", "voicemail"}
          /\ loaded.transports = file.transports /\ loaded.pjsip = file.pjsip /\ loaded.ice = file.ice
      <3>1. DOMAIN file = {"public", "ice", "transports", "pjsip", "dialplan", "voicemail"}
        BY <2>2 DEF Files
      <3>2. QED
        BY <3>1 DEF SyncInit, Loads
    <2>4. spent \in [edits : 0..MaxEdits, faults : 0..MaxFaults]
      BY ConfigAssumption DEF ConfigAssumption, SyncInit
    <2>5. DataTypes
      BY <2>1, <2>2, <2>3, <2>4 DEF SyncInit, DataTypes
    <2>6. JobTypes /\ Stage = "free"
      BY ConfigAssumption DEF ConfigAssumption, SyncInit, JobTypes, Stage, AtRest, Steps, Process
    <2>7. OwedInv /\ FollowInv
      BY <2>3, <2>6 DEF SyncInit, OwedInv, OnRecord, OwedKept, FollowInv
    <2>8. QED
      BY <2>5, <2>6, <2>7 DEF SyncInv
  <1>2. SyncInv /\ [SyncNext]_syncVars => SyncInv'
    <2> SUFFICES ASSUME SyncInv, [SyncNext]_syncVars
                 PROVE  SyncInv'
      OBVIOUS
    <2>1. CASE RetryPending
      BY <2>1, AskInv DEF Process
    <2>2. CASE CallsEnd \/ Recreate \/ Starts
      BY <2>2, AsteriskInv
    <2>3. CASE ConfigureIce
      BY <2>3, ConfigureIceInv
    <2>4. ASSUME NEW w \in Process, Edit(w) \/ TakeLock(w)
          PROVE  SyncInv'
      BY <2>4, AskInv, TakeLockInv
    <2>5. ASSUME NEW w \in Process, Sync(w)
          PROVE  SyncInv'
      BY <2>5, RenderInv, WritePublicInv, MarkRtpInv, WriteInv, ReloadInv, UnmarkRtpInv, AskRestartInv,
         VerifyInv, UnmarkRestartInv DEF Sync
    <2>6. ASSUME NEW w \in Process, Fail(w) \/ Crash(w)
          PROVE  SyncInv'
      <3>1. UNCHANGED <<rows, disk, pbx, loaded>> /\ (Raises(w) \/ Crash(w))
        BY <2>6 DEF Fail, Crash, asterisk
      <3>2. spent' \in [edits : 0..MaxEdits, faults : 0..MaxFaults]
        BY <2>6, SpendsType DEF SyncInv, Fail, Crash
      <3>3. QED
        BY <3>1, <3>2, EarlyEndInv
    <2>7. CASE UNCHANGED syncVars
      <3>1. UNCHANGED <<rows, file, local, markers, lock, job, plan, booted, pbx, loaded, missed, spent>>
        BY <2>7 DEF syncVars
      <3>2. JobTypes' /\ DataTypes'
        BY <3>1 DEF SyncInv, JobTypes, DataTypes
      <3>3. Stage' = Stage /\ (Stale' <=> Stale)
        BY <3>1 DEF Stage, Stale
      <3>4. FollowInv'
        BY <3>1, <3>3 DEF SyncInv, FollowInv, Rendered
      <3>5. QED
        BY <3>1, <3>2, <3>3, <3>4, QuietOwed DEF SyncInv
    <2>8. QED
      BY <2>1, <2>2, <2>3, <2>4, <2>5, <2>6, <2>7 DEF SyncNext
  <1>3. QED
    BY <1>1, <1>2, PTL DEF SyncSpec

\* The types of files, markers and jobs, and who holds the lock.
THEOREM SyncTypes == SyncSpec => []SyncTypeOK
  <1>1. SyncInv => SyncTypeOK
    BY TypesSplit DEF SyncInv
  <1>2. QED
    BY <1>1, SyncInvHolds, PTL

\* Nothing Asterisk still answers for, against the files, is ever off the
\* record: it is owed a restart or a reload, or is about to restart.
THEOREM RestartNeverForgotten == SyncSpec => []OwedKept
  <1>1. SyncInv => OwedKept
    BY DEF SyncInv, OwedInv
  <1>2. QED
    BY <1>1, SyncInvHolds, PTL

\* When nobody waits or works and no synchronisation was cut short, the files
\* say what the rows say.
THEOREM FilesFollowRows == SyncSpec => []FilesFollow
  <1>1. SyncInv => FilesFollow
    <2> SUFFICES ASSUME SyncInv, \A w \in Api : job[w] = AtRest, lock = nobody, ~missed
                 PROVE  file = Rendered(rows, local)
      BY DEF FilesFollow
    <2>1. ~Stale /\ Stage = "free"
      BY DEF Stale, Stage, AtRest
    <2>2. QED
      BY <2>1 DEF SyncInv, FollowInv
  <1>2. QED
    BY <1>1, SyncInvHolds, PTL
=============================================================================
