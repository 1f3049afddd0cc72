------------------------ MODULE AgileWorkspace_proofs ------------------------
(***************************************************************************)
(* Proofs about the agile pages: what the lists of the backlog and the     *)
(* cards of the board show, and where a drop lands.                        *)
(***************************************************************************)
EXTENDS AgileWorkspace, FiniteSetTheorems, SequenceTheorems, WellFoundedInduction, TLAPS

(* A set of numbers that is not empty has a least one.                     *)
LEMMA Least ==
  ASSUME NEW S \in SUBSET Nat, S # {}
  PROVE  \E x \in S : \A y \in S : x <= y
  <1>1. PICK R : R = OpToRel(<, Nat)
    OBVIOUS
  <1>2. IsWellFoundedOn(R, Nat)
    BY <1>1, NatLessThanWellFounded
  <1>3. \A x, y \in Nat : y < x => <<y, x>> \in R
    BY <1>1 DEF OpToRel
  <1>4. PICK x \in S : \A y \in S : ~(<<y, x>> \in R)
    BY <1>2, WFMin
  <1>5. \A y \in S : x \in Nat /\ y \in Nat /\ ~(y < x)
    BY <1>3, <1>4
  <1> QED BY <1>4, <1>5

-----------------------------------------------------------------------------
(* The operators on sequences.                                             *)

\* What Only counts up, for the first k elements.
Gathers(s, X, k, g) ==
    g = [n \in 0..k |-> IF n = 0 THEN <<>> ELSE IF s[n] \in X THEN Append(g[n - 1], s[n]) ELSE g[n - 1]]

LEMMA Gathered ==
  ASSUME NEW s, NEW X, NEW k \in Nat
  PROVE  \E g : Gathers(s, X, k, g)
  <1> DEFINE Bad == {n \in Nat : ~\E g : Gathers(s, X, n, g)}
  <1>1. SUFFICES ASSUME Bad # {} PROVE FALSE
    OBVIOUS
  <1>2. PICK n \in Bad : \A m \in Bad : n <= m
    BY <1>1, Least
  <1>3. CASE n = 0
    <2>1. PICK g : g = [i \in 0..0 |-> <<>>]
      OBVIOUS
    <2>2. Gathers(s, X, 0, g)
      BY <2>1 DEF Gathers
    <2> QED BY <1>3, <2>2
  <1>4. CASE n # 0
    <2>1. n - 1 \in Nat /\ n - 1 \notin Bad
      BY <1>2, <1>4
    <2>2. PICK g : Gathers(s, X, n - 1, g)
      BY <2>1
    <2>3. PICK h : h = [i \in 0..n |-> IF i < n THEN g[i] ELSE IF s[n] \in X THEN Append(g[n - 1], s[n]) ELSE g[n - 1]]
      OBVIOUS
    <2>4. \A i \in 0..(n - 1) : g[i] = IF i = 0 THEN <<>> ELSE IF s[i] \in X THEN Append(g[i - 1], s[i]) ELSE g[i - 1]
      BY <2>2 DEF Gathers
    <2>5. \A i \in 0..n : h[i] = IF i = 0 THEN <<>> ELSE IF s[i] \in X THEN Append(h[i - 1], s[i]) ELSE h[i - 1]
      <3>1. TAKE i \in 0..n
      <3>2. CASE i = n
        BY <1>4, <2>3, <3>2
      <3>3. CASE i # n
        <4>1. i \in 0..(n - 1) /\ h[i] = g[i] /\ (i # 0 => h[i - 1] = g[i - 1])
          BY <2>3, <3>3
        <4> QED BY <2>4, <4>1
      <3> QED BY <3>2, <3>3
    <2>6. Gathers(s, X, n, h)
      BY <2>3, <2>5 DEF Gathers
    <2> QED BY <1>2, <2>6
  <1> QED BY <1>3, <1>4

LEMMA OnlyGathers ==
  ASSUME NEW s, NEW X, Len(s) \in Nat
  PROVE  \E g : Gathers(s, X, Len(s), g) /\ Only(s, X) = g[Len(s)]
  <1>1. PICK g : g = CHOOSE h : Gathers(s, X, Len(s), h)
    OBVIOUS
  <1>2. Gathers(s, X, Len(s), g)
    BY <1>1, Gathered
  <1>3. Only(s, X) = (CHOOSE h : Gathers(s, X, Len(s), h))[Len(s)]
    BY Zenon DEF Only, Gathers
  <1> QED BY <1>1, <1>2, <1>3

(* Only is computed from the front.                                        *)
LEMMA OnlyEmpty ==
  ASSUME NEW X
  PROVE  Only(<<>>, X) = <<>>
  <1>1. Len(<<>>) = 0
    OBVIOUS
  <1>2. PICK g : Gathers(<<>>, X, 0, g) /\ Only(<<>>, X) = g[0]
    BY <1>1, OnlyGathers
  <1> QED BY <1>2 DEF Gathers

LEMMA OnlyAppend ==
  ASSUME NEW E, NEW s \in Seq(E), NEW x \in E, NEW X
  PROVE  Only(Append(s, x), X) = IF x \in X THEN Append(Only(s, X), x) ELSE Only(s, X)
  <1> DEFINE t == Append(s, x)
             n == Len(s)
  <1>1. /\ n \in Nat /\ Len(t) = n + 1 /\ t[n + 1] = x
        /\ \A i \in 1..n : t[i] = s[i]
    BY LenProperties, AppendProperties
  <1> HIDE DEF t, n
  <1>2. PICK g : Gathers(s, X, n, g) /\ Only(s, X) = g[n]
    BY <1>1, OnlyGathers DEF n
  <1>3. PICK h : Gathers(t, X, n + 1, h) /\ Only(t, X) = h[n + 1]
    BY <1>1, OnlyGathers
  <1>4. \A i \in 0..n : g[i] = IF i = 0 THEN <<>> ELSE IF s[i] \in X THEN Append(g[i - 1], s[i]) ELSE g[i - 1]
    BY <1>1, <1>2 DEF Gathers
  <1>5. \A i \in 0..(n + 1) : h[i] = IF i = 0 THEN <<>> ELSE IF t[i] \in X THEN Append(h[i - 1], t[i]) ELSE h[i - 1]
    BY <1>1, <1>3 DEF Gathers
  <1>6. \A i \in 0..n : g[i] = h[i]
    <2> DEFINE Bad == {i \in 0..n : g[i] # h[i]}
    <2>1. SUFFICES ASSUME Bad # {} PROVE FALSE
      OBVIOUS
    <2>0. Bad \in SUBSET Nat
      BY <1>1
    <2>2. PICK i \in Bad : \A j \in Bad : i <= j
      BY <2>0, <2>1, Least
    <2>3. i # 0
      BY <1>1, <1>4, <1>5, <2>2
    <2>4. i - 1 \in 0..n /\ i - 1 \notin Bad /\ s[i] = t[i]
      BY <1>1, <2>2, <2>3
    <2> QED BY <1>1, <1>4, <1>5, <2>2, <2>3, <2>4
  <1>7. h[n + 1] = IF x \in X THEN Append(h[n], x) ELSE h[n]
    BY <1>1, <1>5
  <1>8. n \in 0..n
    BY <1>1
  <1> QED BY <1>2, <1>3, <1>6, <1>7, <1>8 DEF t

(* Among some sequences there is a shortest.                               *)
LEMMA Shortest ==
  ASSUME NEW E, NEW S \in SUBSET Seq(E), S # {}
  PROVE  \E s \in S : \A t \in S : Len(s) <= Len(t)
  <1> DEFINE Lengths == {Len(s) : s \in S}
  <1>1. Lengths \in SUBSET Nat /\ Lengths # {}
    BY LenProperties
  <1>2. PICK n \in Lengths : \A m \in Lengths : n <= m
    BY <1>1, Least
  <1> QED BY <1>2

(* So what fails for some sequence fails for one of which it holds without *)
(* the last element.                                                       *)
LEMMA ShortestBut ==
  ASSUME NEW E, NEW S \in SUBSET Seq(E), <<>> \notin S, S # {}
  PROVE  \E s \in Seq(E), x \in E : Append(s, x) \in S /\ s \notin S
  <1>1. PICK t \in S : \A u \in S : Len(t) <= Len(u)
    BY Shortest
  <1>2. PICK s \in Seq(E), x \in E : t = Append(s, x)
    BY SequenceEmptyOrAppend
  <1>3. Len(t) = Len(s) + 1 /\ Len(s) \in Nat
    BY <1>2, AppendProperties, LenProperties
  <1> QED BY <1>1, <1>2, <1>3

LEMMA OnlyType ==
  ASSUME NEW E, NEW s \in Seq(E), NEW X
  PROVE  Only(s, X) \in Seq(E)
  <1> DEFINE Bad == {t \in Seq(E) : Only(t, X) \notin Seq(E)}
  <1>1. SUFFICES ASSUME Bad # {} PROVE FALSE
    OBVIOUS
  <1>2. <<>> \notin Bad
    BY OnlyEmpty, EmptySeq
  <1>3. PICK t \in Seq(E), x \in E : Append(t, x) \in Bad /\ t \notin Bad
    BY <1>1, <1>2, ShortestBut
  <1>4. Only(t, X) \in Seq(E)
    BY <1>3
  <1>5. Only(Append(t, x), X) = IF x \in X THEN Append(Only(t, X), x) ELSE Only(t, X)
    BY <1>3, OnlyAppend
  <1>6. Append(Only(t, X), x) \in Seq(E)
    BY <1>3, <1>4, AppendProperties
  <1> QED BY <1>3, <1>4, <1>5, <1>6

LEMMA RangeAppend ==
  ASSUME NEW E, NEW s \in Seq(E), NEW x \in E
  PROVE  Range(Append(s, x)) = Range(s) \cup {x}
  <1>1. <<x>> \in Seq(E) /\ Append(s, x) = s \o <<x>>
    BY AppendIsConcat
  <1>2. Range(<<x>>) = {x}
    <2>1. Len(<<x>>) = 1 /\ <<x>>[1] = x
      OBVIOUS
    <2>2. Range(<<x>>) = {<<x>>[i] : i \in 1..Len(<<x>>)}
      BY <1>1, RangeEquality
    <2>3. 1..Len(<<x>>) = {1}
      BY <2>1
    <2> QED BY <2>1, <2>2, <2>3
  <1>3. Range(s \o <<x>>) = Range(s) \cup Range(<<x>>)
    BY <1>1, RangeConcatenation
  <1> QED BY <1>1, <1>2, <1>3

LEMMA RangeEmpty == Range(<<>>) = {}
  BY DEF Range

LEMMA OnlyRange ==
  ASSUME NEW E, NEW s \in Seq(E), NEW X
  PROVE  Range(Only(s, X)) = Range(s) \cap X
  <1> DEFINE Bad == {t \in Seq(E) : Range(Only(t, X)) # Range(t) \cap X}
  <1>1. SUFFICES ASSUME Bad # {} PROVE FALSE
    OBVIOUS
  <1>2. <<>> \notin Bad
    BY OnlyEmpty, RangeEmpty
  <1>3. PICK t \in Seq(E), x \in E : Append(t, x) \in Bad /\ t \notin Bad
    BY <1>1, <1>2, ShortestBut
  <1>4. Range(Only(t, X)) = Range(t) \cap X /\ Only(t, X) \in Seq(E)
    BY <1>3, OnlyType
  <1>5. Range(Append(t, x)) = Range(t) \cup {x} /\ Range(Append(Only(t, X), x)) = Range(Only(t, X)) \cup {x}
    BY <1>3, <1>4, RangeAppend
  <1>6. Only(Append(t, x), X) = IF x \in X THEN Append(Only(t, X), x) ELSE Only(t, X)
    BY <1>3, OnlyAppend
  <1>7. Range(Only(Append(t, x), X)) = Range(Append(t, x)) \cap X
    BY <1>4, <1>5, <1>6
  <1> QED BY <1>3, <1>7

(* Two selections one after the other are one.                             *)
LEMMA OnlyTwice ==
  ASSUME NEW E, NEW s \in Seq(E), NEW X, NEW Y
  PROVE  Only(Only(s, X), Y) = Only(s, X \cap Y)
  <1> DEFINE Bad == {t \in Seq(E) : Only(Only(t, X), Y) # Only(t, X \cap Y)}
  <1>1. SUFFICES ASSUME Bad # {} PROVE FALSE
    OBVIOUS
  <1>2. <<>> \notin Bad
    BY OnlyEmpty
  <1>3. PICK t \in Seq(E), x \in E : Append(t, x) \in Bad /\ t \notin Bad
    BY <1>1, <1>2, ShortestBut
  <1>4. Only(Only(t, X), Y) = Only(t, X \cap Y) /\ Only(t, X) \in Seq(E)
    BY <1>3, OnlyType
  <1>5. Only(Append(t, x), X) = IF x \in X THEN Append(Only(t, X), x) ELSE Only(t, X)
    BY <1>3, OnlyAppend
  <1>6. Only(Append(t, x), X \cap Y) = IF x \in X \cap Y THEN Append(Only(t, X \cap Y), x) ELSE Only(t, X \cap Y)
    BY <1>3, OnlyAppend
  <1>7. PICK u \in Seq(E) : u = Only(t, X)
    BY <1>4
  <1>8. Only(Append(u, x), Y) = IF x \in Y THEN Append(Only(u, Y), x) ELSE Only(u, Y)
    BY <1>3, <1>7, OnlyAppend
  <1>9. Only(Only(Append(t, x), X), Y) = Only(Append(t, x), X \cap Y)
    <2>1. CASE x \in X
      BY <1>4, <1>5, <1>6, <1>7, <1>8, <2>1
    <2>2. CASE x \notin X
      BY <1>4, <1>5, <1>6, <2>2
    <2> QED BY <2>1, <2>2
  <1> QED BY <1>3, <1>9

(* Concatenation by its properties only.                                   *)
Joined(u, v) == u \o v

LEMMA JoinedAppend ==
  ASSUME NEW E, NEW u \in Seq(E), NEW v \in Seq(E), NEW x \in E
  PROVE  Joined(u, v) \in Seq(E) /\ Joined(u, Append(v, x)) = Append(Joined(u, v), x)
  <1>1. <<x>> \in Seq(E) /\ Append(v, x) = v \o <<x>> /\ u \o v \in Seq(E)
    BY AppendIsConcat, ConcatProperties
  <1>2. Append(u \o v, x) = (u \o v) \o <<x>>
    BY <1>1, AppendIsConcat
  <1>3. (u \o v) \o <<x>> = u \o (v \o <<x>>)
    BY <1>1, ConcatAssociative
  <1> QED BY <1>1, <1>2, <1>3 DEF Joined

LEMMA OnlyJoined ==
  ASSUME NEW E, NEW s \in Seq(E), NEW u \in Seq(E), NEW X
  PROVE  Only(Joined(s, u), X) = Joined(Only(s, X), Only(u, X))
  <1> DEFINE Bad == {t \in Seq(E) : Only(Joined(s, t), X) # Joined(Only(s, X), Only(t, X))}
  <1>1. SUFFICES ASSUME Bad # {} PROVE FALSE
    OBVIOUS
  <1>2. <<>> \notin Bad
    BY OnlyEmpty, ConcatEmptySeq, OnlyType DEF Joined
  <1>3. PICK t \in Seq(E), x \in E : Append(t, x) \in Bad /\ t \notin Bad
    BY <1>1, <1>2, ShortestBut
  <1>4. Only(t, X) \in Seq(E) /\ Only(s, X) \in Seq(E)
    BY <1>3, OnlyType
  <1>5. Joined(s, t) \in Seq(E) /\ Joined(s, Append(t, x)) = Append(Joined(s, t), x)
    BY <1>3, JoinedAppend
  <1>6. \A v \in Seq(E) : Only(Append(v, x), X) = IF x \in X THEN Append(Only(v, X), x) ELSE Only(v, X)
    BY <1>3, OnlyAppend
  <1>7. Joined(Only(s, X), Append(Only(t, X), x)) = Append(Joined(Only(s, X), Only(t, X)), x)
    BY <1>3, <1>4, JoinedAppend
  <1>8. Only(Joined(s, Append(t, x)), X) = Joined(Only(s, X), Only(Append(t, x), X))
    BY <1>3, <1>5, <1>6, <1>7
  <1> QED BY <1>3, <1>8

LEMMA OnlyNone ==
  ASSUME NEW E, NEW x \in E, NEW X, x \notin X
  PROVE  Only(<<x>>, X) = <<>>
  <1>1. <<>> \in Seq(E) /\ <<x>> = Append(<<>>, x)
    OBVIOUS
  <1>2. Only(Append(<<>>, x), X) = Only(<<>>, X)
    BY <1>1, OnlyAppend
  <1> QED BY <1>1, <1>2, OnlyEmpty

(* A selection of a sequence without repetitions has none.                 *)
LEMMA OnlyInjective ==
  ASSUME NEW E, NEW s \in Seq(E), NEW X, IsInjective(s)
  PROVE  IsInjective(Only(s, X))
  <1> DEFINE Bad == {t \in Seq(E) : IsInjective(t) /\ ~IsInjective(Only(t, X))}
  <1>1. SUFFICES ASSUME Bad # {} PROVE FALSE
    OBVIOUS
  <1>2. <<>> \notin Bad
    BY OnlyEmpty
  <1>3. PICK t \in Seq(E), x \in E : Append(t, x) \in Bad /\ t \notin Bad
    BY <1>1, <1>2, ShortestBut
  <1>4. /\ Len(t) \in Nat /\ DOMAIN t = 1..Len(t) /\ DOMAIN Append(t, x) = 1..(Len(t) + 1)
        /\ \A i \in 1..Len(t) : Append(t, x)[i] = t[i]
        /\ Append(t, x)[Len(t) + 1] = x
    BY <1>3, AppendProperties, LenProperties
  <1>5. IsInjective(t) /\ x \notin Range(t)
    <2>1. \A i, j \in 1..(Len(t) + 1) : Append(t, x)[i] = Append(t, x)[j] => i = j
      BY <1>3, <1>4 DEF IsInjective
    <2>2. \A i \in 1..Len(t) : i \in 1..(Len(t) + 1) /\ i # Len(t) + 1 /\ Len(t) + 1 \in 1..(Len(t) + 1)
      BY <1>4
    <2> QED BY <1>4, <2>1, <2>2 DEF IsInjective, Range
  <1>6. IsInjective(Only(t, X)) /\ Only(t, X) \in Seq(E) /\ x \notin Range(Only(t, X))
    BY <1>3, <1>5, OnlyType, OnlyRange
  <1>7. PICK u : u = Only(t, X)
    OBVIOUS
  <1>8. /\ Len(u) \in Nat /\ DOMAIN u = 1..Len(u) /\ DOMAIN Append(u, x) = 1..(Len(u) + 1)
        /\ \A i \in 1..Len(u) : Append(u, x)[i] = u[i]
        /\ Append(u, x)[Len(u) + 1] = x
    BY <1>3, <1>6, <1>7, AppendProperties, LenProperties
  <1>9. IsInjective(Append(u, x))
    BY <1>6, <1>7, <1>8 DEF IsInjective, Range
  <1> QED BY <1>3, <1>6, <1>7, <1>9, OnlyAppend

LEMMA RangeNone ==
  ASSUME NEW E, NEW s \in Seq(E), Range(s) = {}
  PROVE  s = <<>>
  <1>1. Len(s) \in Nat /\ DOMAIN s = 1..Len(s)
    BY LenProperties
  <1>2. \A i \in 1..Len(s) : s[i] \in Range(s)
    BY <1>1 DEF Range
  <1>3. ~(1 \in 1..Len(s))
    BY <1>2
  <1>4. Len(s) = 0
    BY <1>1, <1>3
  <1> QED BY <1>4, EmptySeq

LEMMA RangeOne ==
  ASSUME NEW E, NEW x \in E
  PROVE  <<x>> \in Seq(E) /\ Range(<<x>>) = {x} /\ IsInjective(<<x>>)
  <1>1. <<x>> \in Seq(E) /\ Len(<<x>>) = 1 /\ <<x>>[1] = x
    OBVIOUS
  <1>2. DOMAIN <<x>> = {1}
    BY <1>1, LenProperties
  <1> QED BY <1>1, <1>2 DEF Range, IsInjective

LEMMA ConcatInjective ==
  ASSUME NEW E, NEW u \in Seq(E), NEW v \in Seq(E)
  PROVE  IsInjective(u \o v) <=> IsInjective(u) /\ IsInjective(v) /\ Range(u) \cap Range(v) = {}
  <1> DEFINE w == u \o v
             m == Len(u)
             n == Len(v)
  <1>1. /\ m \in Nat /\ n \in Nat /\ DOMAIN u = 1..m /\ DOMAIN v = 1..n /\ DOMAIN w = 1..(m + n)
    BY ConcatProperties, LenProperties
  <1>2. \A i \in 1..(m + n) : w[i] = IF i <= m THEN u[i] ELSE v[i - m]
    BY ConcatProperties
  <1> HIDE DEF w, m, n
  <1>3. \A i \in 1..m : i \in 1..(m + n) /\ w[i] = u[i]
    BY <1>1, <1>2
  <1>4. \A i \in 1..n : m + i \in 1..(m + n) /\ w[m + i] = v[i]
    <2>1. TAKE i \in 1..n
    <2>2. m + i \in 1..(m + n) /\ ~(m + i <= m) /\ m + i - m = i
      BY <1>1
    <2>3. PICK j \in 1..(m + n) : j = m + i
      BY <2>2
    <2>4. w[j] = IF j <= m THEN u[j] ELSE v[j - m]
      BY <1>2
    <2> QED BY <1>1, <2>2, <2>3, <2>4
  <1>5. ASSUME IsInjective(w)
        PROVE  IsInjective(u) /\ IsInjective(v) /\ Range(u) \cap Range(v) = {}
    <2>1. \A i, j \in 1..(m + n) : w[i] = w[j] => i = j
      BY <1>1, <1>5 DEF IsInjective
    <2>2. IsInjective(u)
      BY <1>1, <1>3, <2>1 DEF IsInjective
    <2>3. IsInjective(v)
      <3>1. \A i, j \in 1..n : v[i] = v[j] => m + i = m + j
        BY <1>4, <2>1
      <3> QED BY <1>1, <3>1 DEF IsInjective
    <2>4. \A i \in 1..m, j \in 1..n : u[i] # v[j]
      <3>1. \A i \in 1..m, j \in 1..n : u[i] = v[j] => i = m + j
        BY <1>3, <1>4, <2>1
      <3> QED BY <1>1, <3>1
    <2> QED BY <1>1, <2>2, <2>3, <2>4 DEF Range
  <1>6. ASSUME IsInjective(u), IsInjective(v), Range(u) \cap Range(v) = {}
        PROVE  IsInjective(w)
    <2>1. \A i \in 1..m, j \in 1..n : u[i] # v[j]
      BY <1>1, <1>6 DEF Range
    <2>2. \A i, j \in 1..m : u[i] = u[j] => i = j
      BY <1>1, <1>6 DEF IsInjective
    <2>3. \A i, j \in 1..n : v[i] = v[j] => i = j
      BY <1>1, <1>6 DEF IsInjective
    <2>4. SUFFICES ASSUME NEW i \in 1..(m + n), NEW j \in 1..(m + n), w[i] = w[j]
                   PROVE  i = j
      BY <1>1 DEF IsInjective
    <2>5. (i <= m => i \in 1..m) /\ (~(i <= m) => i - m \in 1..n) /\ (j <= m => j \in 1..m) /\ (~(j <= m) => j - m \in 1..n)
      BY <1>1
    <2>6. CASE i <= m /\ j <= m
      BY <1>2, <2>2, <2>4, <2>5, <2>6
    <2>7. CASE ~(i <= m) /\ ~(j <= m)
      <3>1. i - m = j - m
        BY <1>2, <2>3, <2>4, <2>5, <2>7
      <3> QED BY <1>1, <3>1
    <2>8. CASE i <= m /\ ~(j <= m)
      BY <1>2, <2>1, <2>4, <2>5, <2>8
    <2>9. CASE ~(i <= m) /\ j <= m
      BY <1>2, <2>1, <2>4, <2>5, <2>9
    <2> QED BY <2>6, <2>7, <2>8, <2>9
  <1> QED BY <1>5, <1>6 DEF w

LEMMA JoinedIs ==
  ASSUME NEW E, NEW u \in Seq(E), NEW v \in Seq(E)
  PROVE  /\ Joined(u, v) \in Seq(E)
         /\ Range(Joined(u, v)) = Range(u) \cup Range(v)
         /\ IsInjective(Joined(u, v)) <=> IsInjective(u) /\ IsInjective(v) /\ Range(u) \cap Range(v) = {}
         /\ \A X : Only(Joined(u, v), X) = Joined(Only(u, X), Only(v, X))
         /\ Joined(u, <<>>) = u
  <1>1. Joined(u, v) \in Seq(E)
    BY ConcatProperties DEF Joined
  <1>2. Range(Joined(u, v)) = Range(u) \cup Range(v)
    BY RangeConcatenation, Zenon DEF Joined
  <1>3. IsInjective(Joined(u, v)) <=> IsInjective(u) /\ IsInjective(v) /\ Range(u) \cap Range(v) = {}
    BY ConcatInjective, Zenon DEF Joined
  <1>4. \A X : Only(Joined(u, v), X) = Joined(Only(u, X), Only(v, X))
    BY OnlyJoined
  <1>5. Joined(u, <<>>) = u
    BY ConcatEmptySeq DEF Joined
  <1> QED BY <1>1, <1>2, <1>3, <1>4, <1>5

(* What is put into a sequence.                                            *)
LEMMA IntoParts ==
  ASSUME NEW E, NEW s \in Seq(E), NEW at \in 0..Len(s), NEW ids \in Seq(E)
  PROVE  \E a, b \in Seq(E) : Joined(a, b) = s /\ Into(s, at, ids) = Joined(Joined(a, ids), b) /\ Len(a) = at
  <1> DEFINE a == SubSeq(s, 1, at)
             b == SubSeq(s, at + 1, Len(s))
  <1>1. Len(s) \in Nat /\ \A i \in 1..Len(s) : s[i] \in E
    BY LenProperties, ElementOfSeq
  <1>2. a \in Seq(E) /\ Len(a) = at
    <2>1. \A i \in 1..at : s[i] \in E
      BY <1>1
    <2>2. Len(a) = IF 1 <= at THEN at - 1 + 1 ELSE 0
      BY <2>1, SubSeqProperties
    <2>3. a \in Seq(E)
      BY <2>1, SubSeqProperties
    <2> QED BY <2>2, <2>3
  <1>3. b \in Seq(E)
    <2>1. \A i \in (at + 1)..Len(s) : s[i] \in E
      BY <1>1
    <2> QED BY <1>1, <2>1, SubSeqProperties
  <1>4. Joined(a, b) = s
    <2>1. 1 \in 1..(Len(s) + 1) /\ at \in (1 - 1)..Len(s) /\ Len(s) \in at..Len(s)
      BY <1>1
    <2>2. a \o b = SubSeq(s, 1, Len(s))
      BY <2>1, ConcatAdjacentSubSeq
    <2> QED BY <2>2, SubSeqFull DEF Joined
  <1>5. Into(s, at, ids) = Joined(Joined(a, ids), b)
    BY Zenon DEF Into, Joined
  <1> QED BY <1>2, <1>3, <1>4, <1>5

LEMMA IntoIs ==
  ASSUME NEW E, NEW s \in Seq(E), NEW at \in 0..Len(s), NEW ids \in Seq(E)
  PROVE  /\ Into(s, at, ids) \in Seq(E)
         /\ Range(Into(s, at, ids)) = Range(s) \cup Range(ids)
         /\ IsInjective(s) /\ IsInjective(ids) /\ Range(s) \cap Range(ids) = {} => IsInjective(Into(s, at, ids))
         /\ \A X : X \cap Range(ids) = {} => Only(Into(s, at, ids), X) = Only(s, X)
  <1>1. PICK a \in Seq(E), b \in Seq(E) : Joined(a, b) = s /\ Into(s, at, ids) = Joined(Joined(a, ids), b)
    BY IntoParts
  <1>2. Joined(a, ids) \in Seq(E)
    BY <1>1, JoinedIs
  <1>3. /\ Range(s) = Range(a) \cup Range(b)
        /\ IsInjective(s) <=> IsInjective(a) /\ IsInjective(b) /\ Range(a) \cap Range(b) = {}
        /\ \A X : Only(s, X) = Joined(Only(a, X), Only(b, X))
    BY <1>1, JoinedIs
  <1>4. /\ Range(Joined(a, ids)) = Range(a) \cup Range(ids)
        /\ IsInjective(Joined(a, ids)) <=> IsInjective(a) /\ IsInjective(ids) /\ Range(a) \cap Range(ids) = {}
        /\ \A X : Only(Joined(a, ids), X) = Joined(Only(a, X), Only(ids, X))
    BY <1>1, JoinedIs
  <1>5. PICK t \in Seq(E) : t = Joined(a, ids)
    BY <1>2
  <1>6. /\ Joined(t, b) \in Seq(E)
        /\ Range(Joined(t, b)) = Range(t) \cup Range(b)
        /\ IsInjective(Joined(t, b)) <=> IsInjective(t) /\ IsInjective(b) /\ Range(t) \cap Range(b) = {}
        /\ \A X : Only(Joined(t, b), X) = Joined(Only(t, X), Only(b, X))
    BY <1>1, <1>5, JoinedIs
  <1>7. ASSUME NEW X, X \cap Range(ids) = {}
        PROVE  Only(Into(s, at, ids), X) = Only(s, X)
    <2>1. Only(ids, X) = <<>>
      <3>1. Range(Only(ids, X)) = {} /\ Only(ids, X) \in Seq(E)
        BY <1>7, OnlyRange, OnlyType
      <3> QED BY <3>1, RangeNone
    <2>2. Only(a, X) \in Seq(E)
      BY <1>1, OnlyType
    <2>3. Joined(Only(a, X), <<>>) = Only(a, X)
      BY <2>2, JoinedIs
    <2> QED BY <1>1, <1>3, <1>4, <1>5, <1>6, <2>1, <2>3
  <1>8. IsInjective(s) /\ IsInjective(ids) /\ Range(s) \cap Range(ids) = {} => IsInjective(Into(s, at, ids))
    BY <1>1, <1>3, <1>4, <1>5, <1>6
  <1>9. Into(s, at, ids) \in Seq(E) /\ Range(Into(s, at, ids)) = Range(s) \cup Range(ids)
    BY <1>1, <1>3, <1>4, <1>5, <1>6
  <1> QED BY <1>7, <1>8, <1>9

-----------------------------------------------------------------------------
(* Lists of issues.                                                        *)
AllLists == [List -> Seq(Issue)]

LEMMA OnceIs ==
  ASSUME NEW ls
  PROVE  EachOnce(ls) <=> /\ \A k \in List : IsInjective(ls[k])
                          /\ \A k, l \in List : k # l => Range(ls[k]) \cap Range(ls[l]) = {}
  BY DEF EachOnce, IsInjective, Range

LEMMA WithoutIs ==
  ASSUME NEW s \in Seq(Issue), NEW X
  PROVE  /\ Without(s, X) \in Seq(Issue)
         /\ Range(Without(s, X)) = Range(s) \ X
         /\ IsInjective(s) => IsInjective(Without(s, X))
  <1>1. Without(s, X) \in Seq(Issue)
    BY OnlyType DEF Without
  <1>2. Range(Only(s, Range(s) \ X)) = Range(s) \cap (Range(s) \ X)
    BY OnlyRange
  <1>3. IsInjective(s) => IsInjective(Without(s, X))
    BY OnlyInjective DEF Without
  <1> QED BY <1>1, <1>2, <1>3 DEF Without

LEMMA WithoutTwice ==
  ASSUME NEW s \in Seq(Issue), NEW X, NEW Y
  PROVE  Without(Without(s, X), Y) = Without(s, X \cup Y)
  <1>1. Range(Without(s, X)) = Range(s) \ X
    BY WithoutIs
  <1>2. Without(Without(s, X), Y) = Only(Only(s, Range(s) \ X), (Range(s) \ X) \ Y)
    BY <1>1 DEF Without
  <1>3. PICK Z : Z = (Range(s) \ X) \ Y
    OBVIOUS
  <1>4. Only(Only(s, Range(s) \ X), Z) = Only(s, (Range(s) \ X) \cap Z)
    BY OnlyTwice
  <1>5. (Range(s) \ X) \cap Z = Range(s) \ (X \cup Y)
    BY <1>3
  <1> QED BY <1>2, <1>3, <1>4, <1>5 DEF Without

(* An issue that is taken out again may have been anywhere.                *)
LEMMA WithoutInto ==
  ASSUME NEW s \in Seq(Issue), NEW at \in 0..Len(s), NEW a \in Issue
  PROVE  Without(Into(s, at, <<a>>), {a}) = Without(s, {a})
  <1>1. <<a>> \in Seq(Issue) /\ Range(<<a>>) = {a}
    BY RangeOne
  <1>2. PICK t : t = Into(s, at, <<a>>)
    OBVIOUS
  <1>3. PICK X : X = Range(s) \ {a}
    OBVIOUS
  <1>4. Range(t) = Range(s) \cup {a} /\ \A Y : Y \cap {a} = {} => Only(t, Y) = Only(s, Y)
    <2>1. \A ids \in Seq(Issue) :
              /\ Range(Into(s, at, ids)) = Range(s) \cup Range(ids)
              /\ \A Y : Y \cap Range(ids) = {} => Only(Into(s, at, ids), Y) = Only(s, Y)
      BY IntoIs
    <2> QED BY <1>1, <1>2, <2>1
  <1>5. Range(t) \ {a} = X
    BY <1>3, <1>4
  <1>6. Only(t, X) = Only(s, X)
    BY <1>3, <1>4
  <1> QED BY <1>2, <1>3, <1>5, <1>6 DEF Without

\* The lists ls with ids taken out and put after the first at of the others in k.
Inserted(ls, ids, k, at) ==
    [l \in List |-> IF l = k THEN Into(Without(ls[k], Range(ids)), at, ids) ELSE Without(ls[l], Range(ids))]

LEMMA InsertedIs ==
  ASSUME NEW ls \in AllLists, NEW ids \in Seq(Issue), NEW k \in List,
         NEW at \in 0..Len(Without(ls[k], Range(ids)))
  PROVE  /\ Inserted(ls, ids, k, at) \in AllLists
         /\ Range(Inserted(ls, ids, k, at)[k]) = Range(ls[k]) \cup Range(ids)
         /\ \A l \in List \ {k} : Range(Inserted(ls, ids, k, at)[l]) = Range(ls[l]) \ Range(ids)
         /\ EachOnce(ls) /\ IsInjective(ids) => EachOnce(Inserted(ls, ids, k, at))
  <1> DEFINE new == Inserted(ls, ids, k, at)
             rest == Without(ls[k], Range(ids))
  <1>1. \A l \in List : ls[l] \in Seq(Issue)
    BY DEF AllLists
  <1>2. /\ rest \in Seq(Issue) /\ Range(rest) = Range(ls[k]) \ Range(ids)
        /\ IsInjective(ls[k]) => IsInjective(rest)
    BY <1>1, WithoutIs
  <1>3. /\ Into(rest, at, ids) \in Seq(Issue) /\ Range(Into(rest, at, ids)) = Range(rest) \cup Range(ids)
        /\ IsInjective(rest) /\ IsInjective(ids) /\ Range(rest) \cap Range(ids) = {} => IsInjective(Into(rest, at, ids))
    BY <1>2, IntoIs
  <1>4. \A l \in List : /\ Without(ls[l], Range(ids)) \in Seq(Issue)
                        /\ Range(Without(ls[l], Range(ids))) = Range(ls[l]) \ Range(ids)
                        /\ IsInjective(ls[l]) => IsInjective(Without(ls[l], Range(ids)))
    BY <1>1, WithoutIs
  <1>5. new[k] = Into(rest, at, ids) /\ \A l \in List \ {k} : new[l] = Without(ls[l], Range(ids))
    BY DEF Inserted
  <1> HIDE DEF rest
  <1>6. new \in AllLists
    BY <1>3, <1>4 DEF AllLists, Inserted, rest
  <1> HIDE DEF new
  <1>7. Range(new[k]) = Range(ls[k]) \cup Range(ids) /\ \A l \in List \ {k} : Range(new[l]) = Range(ls[l]) \ Range(ids)
    BY <1>2, <1>3, <1>4, <1>5
  <1>8. ASSUME EachOnce(ls), IsInjective(ids)
        PROVE  EachOnce(new)
    <2>1. /\ \A l \in List : IsInjective(ls[l])
          /\ \A l, m \in List : l # m => Range(ls[l]) \cap Range(ls[m]) = {}
      BY <1>8, OnceIs
    <2>2. \A l \in List : IsInjective(new[l])
      BY <1>2, <1>3, <1>4, <1>5, <1>8, <2>1
    <2>3. \A l, m \in List : l # m => Range(new[l]) \cap Range(new[m]) = {}
      <3>1. TAKE l, m \in List
      <3>2. HAVE l # m
      <3>3. Range(ls[l]) \cap Range(ls[m]) = {}
        BY <2>1, <3>2
      <3>4. CASE l = k
        <4>1. Range(new[m]) = Range(ls[m]) \ Range(ids)
          BY <1>7, <3>2, <3>4
        <4> QED BY <1>7, <3>3, <3>4, <4>1
      <3>5. CASE l # k
        <4>1. Range(new[l]) = Range(ls[l]) \ Range(ids)
          BY <1>7, <3>5
        <4>2. Range(new[m]) \subseteq Range(ls[m]) \cup Range(ids)
          BY <1>7
        <4> QED BY <3>3, <4>1, <4>2
      <3> QED BY <3>4, <3>5
    <2> QED BY <2>2, <2>3, OnceIs
  <1> QED BY <1>6, <1>7, <1>8 DEF new

LEMMA PositionIn ==
  ASSUME NEW E, NEW s \in Seq(E), NEW x \in Range(s)
  PROVE  Position(s, x) \in 1..Len(s) /\ s[Position(s, x)] = x
  <1> DEFINE I == {i \in 1..Len(s) : s[i] = x}
  <1>1. Len(s) \in Nat /\ DOMAIN s = 1..Len(s)
    BY LenProperties
  <1>2. I # {} /\ I \in SUBSET Nat
    BY <1>1 DEF Range
  <1>3. PICK i \in I : \A j \in I : i <= j
    BY <1>2, Least
  <1>4. Position(s, x) = CHOOSE y \in I : \A j \in I : y <= j
    BY <1>2 DEF Position, SelectInSeq, Min
  <1>5. Position(s, x) \in I
    BY <1>3, <1>4
  <1> QED BY <1>5

LEMMA PositionOf ==
  ASSUME NEW E, NEW s \in Seq(E), IsInjective(s), NEW n \in 1..Len(s)
  PROVE  Position(s, s[n]) = n
  <1>1. DOMAIN s = 1..Len(s) /\ s[n] \in Range(s)
    BY LenProperties DEF Range
  <1>2. Position(s, s[n]) \in 1..Len(s) /\ s[Position(s, s[n])] = s[n]
    BY <1>1, PositionIn
  <1> QED BY <1>1, <1>2 DEF IsInjective

LEMMA LocalIs ==
  ASSUME NEW ls \in AllLists, NEW ids \in Seq(Issue), NEW k \in List, NEW at \in Nat
  PROVE  \E n \in 0..Len(Without(ls[k], Range(ids))) :
            /\ n = IF at < Len(Without(ls[k], Range(ids))) THEN at ELSE Len(Without(ls[k], Range(ids)))
            /\ MoveLocally(ls, ids, k, at) = Inserted(ls, ids, k, n)
  <1> DEFINE rest == Without(ls[k], Range(ids))
             end == IF at < Len(rest) THEN at ELSE Len(rest)
  <1>1. Len(rest) \in Nat
    <2>1. rest \in Seq(Issue)
      BY WithoutIs DEF AllLists
    <2> QED BY <2>1, LenProperties
  <1>2. end \in 0..Len(rest)
    BY <1>1
  <1>3. MoveLocally(ls, ids, k, at) = Inserted(ls, ids, k, end)
    BY Zenon DEF MoveLocally, Inserted
  <1> QED BY <1>2, <1>3

\* Where the server puts what is to go after before, or before after.
PlaceAt(rest, k, before, after) ==
    IF before # None THEN Position(rest, before)
    ELSE IF after # None THEN Position(rest, after) - 1
    ELSE IF k = Backlog THEN 0 ELSE Len(rest)

LEMMA PlacedIs ==
  ASSUME NEW ls \in AllLists, NEW ids \in Seq(Issue), NEW k \in List, NEW before, NEW after,
         before \in {None} \cup Range(Without(ls[k], Range(ids))),
         after \in {None} \cup Range(Without(ls[k], Range(ids)))
  PROVE  /\ PlaceAt(Without(ls[k], Range(ids)), k, before, after) \in 0..Len(Without(ls[k], Range(ids)))
         /\ Placed(ls, ids, k, before, after) =
                Inserted(ls, ids, k, PlaceAt(Without(ls[k], Range(ids)), k, before, after))
  <1>1. PICK rest \in Seq(Issue) : rest = Without(ls[k], Range(ids))
    BY WithoutIs DEF AllLists
  <1>2. Len(rest) \in Nat
    BY LenProperties, <1>1
  <1>3. \A x \in Range(rest) : Position(rest, x) \in 1..Len(rest)
    BY <1>1, PositionIn
  <1>4. PlaceAt(rest, k, before, after) \in 0..Len(rest)
    BY <1>1, <1>2, <1>3 DEF PlaceAt
  <1>5. Placed(ls, ids, k, before, after) = Inserted(ls, ids, k, PlaceAt(rest, k, before, after))
    BY <1>1, Zenon DEF Placed, Inserted, PlaceAt
  <1> QED BY <1>1, <1>4, <1>5

\* What Flat counts up, for the first k lists of the page.
Joins(ls, k, g) == g = [n \in 0..k |-> IF n = 0 THEN <<>> ELSE Joined(g[n - 1], ls[ListOrder[n]])]

LEMMA JoinsExist ==
  ASSUME NEW ls, NEW k \in Nat
  PROVE  \E g : Joins(ls, k, g)
  <1> DEFINE Bad == {n \in Nat : ~\E g : Joins(ls, n, g)}
  <1>1. SUFFICES ASSUME Bad # {} PROVE FALSE
    OBVIOUS
  <1>2. PICK n \in Bad : \A m \in Bad : n <= m
    BY <1>1, Least
  <1>3. CASE n = 0
    <2>1. PICK g : g = [i \in 0..0 |-> <<>>]
      OBVIOUS
    <2>2. Joins(ls, 0, g)
      BY <2>1 DEF Joins
    <2> QED BY <1>3, <2>2
  <1>4. CASE n # 0
    <2>1. n - 1 \in Nat /\ n - 1 \notin Bad
      BY <1>2, <1>4
    <2>2. PICK g : Joins(ls, n - 1, g)
      BY <2>1
    <2>3. PICK h : h = [i \in 0..n |-> IF i < n THEN g[i] ELSE Joined(g[n - 1], ls[ListOrder[n]])]
      OBVIOUS
    <2>4. \A i \in 0..(n - 1) : g[i] = IF i = 0 THEN <<>> ELSE Joined(g[i - 1], ls[ListOrder[i]])
      BY <2>2 DEF Joins
    <2>5. \A i \in 0..n : h[i] = IF i = 0 THEN <<>> ELSE Joined(h[i - 1], ls[ListOrder[i]])
      <3>1. TAKE i \in 0..n
      <3>2. CASE i = n
        BY <1>4, <2>3, <3>2
      <3>3. CASE i # n
        <4>1. i \in 0..(n - 1) /\ h[i] = g[i] /\ (i # 0 => h[i - 1] = g[i - 1])
          BY <2>3, <3>3
        <4> QED BY <2>4, <4>1
      <3> QED BY <3>2, <3>3
    <2>6. Joins(ls, n, h)
      BY <2>3, <2>5 DEF Joins
    <2> QED BY <1>2, <2>6
  <1> QED BY <1>3, <1>4

(* All the issues of the page, one after the other: none comes twice.      *)
LEMMA FlatIs ==
  ASSUME NEW ls \in AllLists
  PROVE  /\ Flat(ls) \in Seq(Issue) /\ (EachOnce(ls) => IsInjective(Flat(ls)))
         /\ \A k \in List : Range(ls[k]) \subseteq Range(Flat(ls))
  <1>1. PICK n \in Nat : n = Len(ListOrder)
    BY ServerAssumption, LenProperties
  <1>2. /\ \A i \in 1..n : ListOrder[i] \in List
        /\ \A i, j \in 1..n : ListOrder[i] = ListOrder[j] => i = j
        /\ \A k \in List : \E i \in 1..n : ListOrder[i] = k
    <2>1. ListOrder \in Seq(List) /\ IsInjective(ListOrder) /\ Range(ListOrder) = List
      BY ServerAssumption
    <2>2. DOMAIN ListOrder = 1..n
      BY <1>1, <2>1, LenProperties
    <2>3. \A i \in 1..n : ListOrder[i] \in List
      BY <1>1, <2>1, ElementOfSeq
    <2> QED BY <2>1, <2>2, <2>3 DEF IsInjective, Range
  <1>3. PICK g : Joins(ls, n, g) /\ Flat(ls) = g[n]
    <2>1. PICK g : g = CHOOSE h : Joins(ls, n, h)
      OBVIOUS
    <2>2. Joins(ls, n, g)
      BY <2>1, JoinsExist
    <2>3. Flat(ls) = (CHOOSE h : Joins(ls, n, h))[n]
      BY <1>1, Zenon DEF Flat, Joins, Joined
    <2> QED BY <2>1, <2>2, <2>3
  <1>4. \A i \in 0..n : g[i] = IF i = 0 THEN <<>> ELSE Joined(g[i - 1], ls[ListOrder[i]])
    BY <1>3 DEF Joins
  <1> DEFINE Good(i) == /\ g[i] \in Seq(Issue)
                        /\ Range(g[i]) = UNION {Range(ls[ListOrder[j]]) : j \in 1..i}
                        /\ EachOnce(ls) => IsInjective(g[i])
             Bad == {i \in 0..n : ~Good(i)}
  <1>5. Bad = {}
    <2>1. SUFFICES ASSUME Bad # {} PROVE FALSE
      OBVIOUS
    <2>2. Bad \in SUBSET Nat
      BY <1>1
    <2>3. PICK i \in Bad : \A j \in Bad : i <= j
      BY <2>1, <2>2, Least
    <2>4. i # 0
      <3>1. g[0] = <<>> /\ IsInjective(<<>>) /\ <<>> \in Seq(Issue) /\ Range(<<>>) = {}
        BY <1>1, <1>4, RangeEmpty DEF IsInjective
      <3>2. UNION {Range(ls[ListOrder[j]]) : j \in 1..0} = {}
        OBVIOUS
      <3>3. Good(0)
        BY <3>1, <3>2
      <3> QED BY <2>3, <3>3
    <2>5. i - 1 \in 0..n /\ i \in 1..n /\ Good(i - 1)
      BY <1>1, <2>3, <2>4
    <2>6. PICK u \in Seq(Issue) : u = g[i - 1]
      BY <2>5
    <2>7. PICK v \in Seq(Issue) : v = ls[ListOrder[i]]
      BY <1>2, <2>5 DEF AllLists
    <2>8. g[i] = Joined(u, v)
      BY <1>4, <2>4, <2>5, <2>6, <2>7
    <2>9. /\ Joined(u, v) \in Seq(Issue) /\ Range(Joined(u, v)) = Range(u) \cup Range(v)
          /\ IsInjective(Joined(u, v)) <=> IsInjective(u) /\ IsInjective(v) /\ Range(u) \cap Range(v) = {}
      BY <2>6, <2>7, JoinedIs
    <2>10. 1..i = 1..(i - 1) \cup {i}
      BY <2>5
    <2>11. Range(g[i]) = UNION {Range(ls[ListOrder[j]]) : j \in 1..i}
      BY <2>5, <2>6, <2>7, <2>8, <2>9, <2>10
    <2>12. ASSUME EachOnce(ls) PROVE IsInjective(g[i])
      <3>1. /\ \A k \in List : IsInjective(ls[k])
            /\ \A k, l \in List : k # l => Range(ls[k]) \cap Range(ls[l]) = {}
        BY <2>12, OnceIs
      <3>2. IsInjective(u) /\ IsInjective(v)
        BY <1>2, <2>5, <2>6, <2>7, <2>12, <3>1
      <3>3. \A j \in 1..(i - 1) : Range(ls[ListOrder[j]]) \cap Range(v) = {}
        <4>1. TAKE j \in 1..(i - 1)
        <4>2. j \in 1..n /\ j # i
          BY <1>1, <2>5
        <4> QED BY <1>2, <2>5, <2>7, <3>1, <4>2
      <3>4. Range(u) \cap Range(v) = {}
        BY <2>5, <2>6, <3>3
      <3> QED BY <2>8, <2>9, <3>2, <3>4
    <2>13. Good(i)
      BY <2>8, <2>9, <2>11, <2>12
    <2> QED BY <2>3, <2>13
  <1>6. n \in 0..n
    BY <1>1
  <1>7. \A k \in List : Range(ls[k]) \subseteq Range(g[n])
    BY <1>2, <1>5, <1>6
  <1> QED BY <1>3, <1>5, <1>6, <1>7
-----------------------------------------------------------------------------
(* The server.                                                             *)
Card == [is : Status, ver : Nat]
SprintsOK == [Sprint -> [state : {"future", "active"} \cup Closed, ver : Nat]]

ServerOK ==
    /\ order \in AllLists /\ EachOnce(order)
    /\ status \in [Issue -> Card]
    /\ sprints \in SprintsOK

LEMMA OnTopIs ==
  ASSUME NEW ls \in AllLists, EachOnce(ls), NEW k \in List, NEW from \in List, k # from,
         NEW ids \in Seq(Issue), IsInjective(ids), Range(ids) \subseteq Range(ls[from])
  PROVE  OnTop(ls, ids, k, from) \in AllLists /\ EachOnce(OnTop(ls, ids, k, from))
  <1> DEFINE new == OnTop(ls, ids, k, from)
  <1>1. \A l \in List : ls[l] \in Seq(Issue)
    BY DEF AllLists
  <1>2. /\ \A l \in List : IsInjective(ls[l])
        /\ \A l, m \in List : l # m => Range(ls[l]) \cap Range(ls[m]) = {}
    BY OnceIs
  <1>3. PICK v \in Seq(Issue) : v = ls[k]
    BY <1>1
  <1>4. /\ Without(ls[from], Range(ids)) \in Seq(Issue)
        /\ Range(Without(ls[from], Range(ids))) = Range(ls[from]) \ Range(ids)
        /\ IsInjective(Without(ls[from], Range(ids)))
    BY <1>1, <1>2, WithoutIs
  <1>5. /\ new[k] = Joined(ids, v) /\ new[from] = Without(ls[from], Range(ids))
        /\ \A l \in List \ {k, from} : new[l] = ls[l]
    BY <1>3 DEF OnTop, Joined
  <1>6. Range(ids) \cap Range(v) = {} /\ IsInjective(v)
    BY <1>2, <1>3
  <1>7. Joined(ids, v) \in Seq(Issue) /\ Range(Joined(ids, v)) = Range(ids) \cup Range(v) /\ IsInjective(Joined(ids, v))
    BY <1>6, JoinedIs
  <1>8. \A l \in List : new[l] \in Seq(Issue)
    BY <1>1, <1>4, <1>5, <1>7
  <1>9. new \in AllLists
    BY <1>8 DEF AllLists, OnTop
  <1> HIDE DEF new
  <1>10. \A l \in List : IsInjective(new[l])
    BY <1>2, <1>4, <1>5, <1>7
  <1>11. /\ Range(new[k]) = Range(ids) \cup Range(ls[k])
         /\ Range(new[from]) = Range(ls[from]) \ Range(ids)
         /\ \A l \in List \ {k, from} : Range(new[l]) = Range(ls[l])
    BY <1>3, <1>4, <1>5, <1>7
  <1>12. \A l \in List \ {k} : Range(new[l]) \subseteq Range(ls[l])
    BY <1>11
  <1>13. \A l \in List \ {k} : Range(new[l]) \cap Range(new[k]) = {}
    <2>1. TAKE l \in List \ {k}
    <2>2. CASE l = from
      BY <1>2, <1>11, <2>2
    <2>3. CASE l # from
      <3>1. Range(ls[l]) \cap Range(ls[from]) = {} /\ Range(ls[l]) \cap Range(ls[k]) = {}
        BY <1>2, <2>3
      <3> QED BY <1>11, <2>3, <3>1
    <2> QED BY <2>2, <2>3
  <1>14. \A l, m \in List : l # m => Range(new[l]) \cap Range(new[m]) = {}
    <2>1. TAKE l, m \in List
    <2>2. HAVE l # m
    <2>3. CASE l = k \/ m = k
      BY <1>13, <2>2, <2>3
    <2>4. CASE l # k /\ m # k
      BY <1>2, <1>12, <2>2, <2>4
    <2> QED BY <2>3, <2>4
  <1> QED BY <1>9, <1>10, <1>14, OnceIs DEF new

LEMMA OpenIs ==
  ASSUME ServerOK, NEW s \in List
  PROVE  Open(s) \in Seq(Issue) /\ IsInjective(Open(s)) /\ Range(Open(s)) \subseteq Range(order[s])
  <1>1. order[s] \in Seq(Issue) /\ IsInjective(order[s])
    BY OnceIs DEF ServerOK, AllLists
  <1>2. PICK X : Open(s) = Only(order[s], X)
    BY DEF Open
  <1> QED BY <1>1, <1>2, OnlyType, OnlyInjective, OnlyRange

LEMMA ServeMoveKeeps ==
  ASSUME ServerOK, NEW ids \in Seq(Issue), IsInjective(ids), NEW k \in List,
         NEW before, NEW after, ServeMove(ids, k, before, after)
  PROVE  ServerOK'
  <1>1. order \in AllLists /\ EachOnce(order) /\ order[k] \in Seq(Issue)
    BY DEF ServerOK, AllLists
  <1>2. Range(Without(order[k], Range(ids))) = Range(order[k]) \ Range(ids)
    BY <1>1, WithoutIs
  <1>3. /\ before \in {None} \cup Range(Without(order[k], Range(ids)))
        /\ after \in {None} \cup Range(Without(order[k], Range(ids)))
    BY <1>2 DEF ServeMove, Movable
  <1>4. PICK n \in 0..Len(Without(order[k], Range(ids))) : Placed(order, ids, k, before, after) = Inserted(order, ids, k, n)
    BY <1>1, <1>3, PlacedIs
  <1>5. Inserted(order, ids, k, n) \in AllLists /\ EachOnce(Inserted(order, ids, k, n))
    BY <1>1, InsertedIs
  <1> QED BY <1>4, <1>5 DEF ServeMove, ServerOK

LEMMA BottomedIs ==
  ASSUME order \in AllLists, EachOnce(order), NEW i \in Issue
  PROVE  Bottomed(i) \in AllLists /\ EachOnce(Bottomed(i))
  <1> DEFINE new == Bottomed(i)
  <1>1. \A l \in List : order[l] \in Seq(Issue)
    BY DEF AllLists
  <1>2. /\ \A l \in List : IsInjective(order[l])
        /\ \A l, m \in List : l # m => Range(order[l]) \cap Range(order[m]) = {}
    BY OnceIs
  <1>3. \A l \in List : /\ Without(order[l], {i}) \in Seq(Issue)
                         /\ Range(Without(order[l], {i})) = Range(order[l]) \ {i}
                         /\ IsInjective(Without(order[l], {i}))
    BY <1>1, <1>2, WithoutIs
  <1>4. Backlog \in List
    BY DEF List
  <1>5. PICK v \in Seq(Issue) : v = Without(order[Backlog], {i})
    BY <1>3, <1>4
  <1>6. Append(v, i) \in Seq(Issue) /\ Range(Append(v, i)) = Range(v) \cup {i} /\ IsInjective(Append(v, i))
    <2>1. PICK one \in Seq(Issue) : one = <<i>> /\ Range(one) = {i} /\ IsInjective(one)
      BY RangeOne
    <2>2. Append(v, i) = Joined(v, one)
      BY <2>1 DEF Joined
    <2>3. Range(v) \cap Range(one) = {} /\ IsInjective(v)
      BY <1>3, <1>4, <1>5, <2>1
    <2>4. /\ Joined(v, one) \in Seq(Issue)
          /\ Range(Joined(v, one)) = Range(v) \cup Range(one)
          /\ IsInjective(Joined(v, one)) <=> IsInjective(v) /\ IsInjective(one) /\ Range(v) \cap Range(one) = {}
      BY JoinedIs
    <2> QED BY <2>1, <2>2, <2>3, <2>4
  <1>7. new[Backlog] = Append(v, i) /\ \A l \in List \ {Backlog} : new[l] = Without(order[l], {i})
    BY <1>4, <1>5 DEF Bottomed
  <1>8. \A l \in List : new[l] \in Seq(Issue) /\ IsInjective(new[l])
    BY <1>3, <1>6, <1>7
  <1>9. new \in AllLists
    BY <1>8 DEF AllLists, Bottomed
  <1>10. /\ Range(new[Backlog]) = (Range(order[Backlog]) \ {i}) \cup {i}
         /\ \A l \in List \ {Backlog} : Range(new[l]) = Range(order[l]) \ {i}
    BY <1>3, <1>4, <1>5, <1>6, <1>7
  <1> HIDE DEF new
  <1>11. \A l \in List : Range(new[l]) \ {i} \subseteq Range(order[l])
    BY <1>10
  <1>12. ASSUME NEW l \in List, NEW m \in List, l # m PROVE Range(new[l]) \cap Range(new[m]) = {}
    <2>1. Range(order[l]) \cap Range(order[m]) = {}
      BY <1>2, <1>12
    <2>2. i \notin Range(new[l]) \/ i \notin Range(new[m])
      BY <1>10, <1>12
    <2> QED BY <1>11, <2>1, <2>2
  <1> QED BY <1>8, <1>9, <1>12, OnceIs DEF new

LEMMA ServeIssueKeeps ==
  ASSUME ServerOK, NEW i \in Issue, NEW ver \in Nat, NEW to \in Status, ServeIssue(i, ver, to)
  PROVE  ServerOK'
  <1>1. status' \in [Issue -> Card]
    BY DEF ServerOK, ServeIssue, Card
  <1>2. Bottomed(i) \in AllLists /\ EachOnce(Bottomed(i))
    BY BottomedIs DEF ServerOK
  <1> QED BY <1>1, <1>2 DEF ServerOK, ServeIssue


LEMMA ServeSprintKeeps ==
  ASSUME ServerOK, NEW kind, NEW s \in Sprint, NEW ver \in Nat, NEW to \in List, ServeSprint(kind, s, ver, to)
  PROVE  ServerOK'
  <1>1. s \in List /\ Backlog \in List /\ s # Backlog
    BY ServerAssumption DEF List
  <1>2. order \in AllLists /\ EachOnce(order) /\ order[s] \in Seq(Issue) /\ IsInjective(order[s])
    BY <1>1, OnceIs DEF ServerOK, AllLists
  <1>3. UNCHANGED status
    BY DEF ServeSprint
  <1>4. PICK state \in {"active", "closed", "cancelled", sprints[s].state} : SprintBecomes(s, state)
    BY DEF ServeSprint
  <1>5. state \in {"future", "active"} \cup Closed
    BY <1>4 DEF ServerOK, SprintsOK, Closed
  <1>6. sprints' \in SprintsOK
    BY <1>4, <1>5 DEF ServerOK, SprintsOK, SprintBecomes
  <1>7. order' \in AllLists /\ EachOnce(order')
    <2>1. CASE UNCHANGED order
      BY <1>2, <2>1
    <2>2. CASE to \in Live(sprints) \ {s} /\ order' = OnTop(order, Open(s), to, s)
      BY <1>1, <1>2, <2>2, OpenIs, OnTopIs
    <2>3. CASE order' = OnTop(order, order[s], Backlog, s)
      BY <1>1, <1>2, <2>3, OnTopIs
    <2> QED BY <2>1, <2>2, <2>3 DEF ServeSprint
  <1> QED BY <1>3, <1>6, <1>7 DEF ServerOK
-----------------------------------------------------------------------------
(* Loads.                                                                  *)
Keys == {<<"backlog", None>>} \cup {<<"board", s>> : s \in Sprint \cup {None}}

IsCards(c) == \E S \in SUBSET Issue : c \in [S -> Card]

Plans == [read : {"sprints", "issues", "all"}, sprints : SprintsOK, lists : AllLists, torn : BOOLEAN]
PlanOK(d) == d \in Plans /\ (~d.torn => EachOnce(d.lists)) /\ (d.read # "all" => d.torn)

ShownOK(s, d) == IsCards(d.cards) /\ (s # None => d.sprint = s) /\ (d.sprint = None => DOMAIN d.cards = {})

\* What a load with a key may bring.
GotOK(key, d) ==
    d # NoData => IF key[1] = "backlog" THEN PlanOK(d) ELSE ShownOK(key[2], d)

IsLoad(v) ==
    \E g, m \in Nat, k, f \in Keys :
        /\ v = [gen |-> g, mount |-> m, key |-> k, for |-> f, data |-> v.data]
        /\ m <= g /\ f[1] = k[1] /\ GotOK(f, v.data)

IsFetch(q) == \E g \in Nat, f \in Keys : q = [gen |-> g, for |-> f, got |-> q.got] /\ GotOK(f, q.got)

LEMMA LoadIs ==
  ASSUME NEW v, IsLoad(v)
  PROVE  /\ v.gen \in Nat /\ v.mount \in Nat /\ v.mount <= v.gen
         /\ v.key \in Keys /\ v.for \in Keys /\ v.for[1] = v.key[1] /\ GotOK(v.for, v.data)
  BY DEF IsLoad

LEMMA FetchIs ==
  ASSUME NEW q, IsFetch(q)
  PROVE  q.gen \in Nat /\ q.for \in Keys /\ GotOK(q.for, q.got)
  BY DEF IsFetch

LEMMA NewLoad ==
  ASSUME NEW k \in Keys, NEW g \in Nat, NEW v, v = LoadOf(k, g)
  PROVE  IsLoad(v) /\ v.gen = g /\ v.mount = g /\ v.key = k /\ v.for = k /\ v.data = NoData
  <1>1. v = [gen |-> g, mount |-> g, key |-> k, for |-> k, data |-> NoData] /\ g <= g
    BY DEF LoadOf
  <1>2. GotOK(k, NoData)
    BY DEF GotOK
  <1> QED BY <1>1, <1>2 DEF IsLoad

LEMMA AsksIs ==
  ASSUME NEW v, IsLoad(v), NEW w, w = Asks(v)
  PROVE  /\ IsLoad(w) /\ w.gen = v.gen + 1 /\ w.mount = v.mount /\ w.key = v.key
         /\ w.for = v.for /\ w.data = v.data
  <1>1. PICK g \in Nat, m \in Nat, k \in Keys, f \in Keys :
            /\ v = [gen |-> g, mount |-> m, key |-> k, for |-> f, data |-> v.data]
            /\ m <= g /\ f[1] = k[1] /\ GotOK(f, v.data)
    BY DEF IsLoad
  <1>2. w = [gen |-> g + 1, mount |-> m, key |-> k, for |-> f, data |-> v.data] /\ g + 1 \in Nat /\ m <= g + 1
    BY <1>1 DEF Asks
  <1> QED BY <1>1, <1>2 DEF IsLoad

LEMMA RekeyIs ==
  ASSUME NEW v, IsLoad(v), NEW k \in Keys, k[1] = v.key[1], NEW w, w = [v EXCEPT !.key = k]
  PROVE  IsLoad(w) /\ w.gen = v.gen /\ w.mount = v.mount /\ w.key = k /\ w.for = v.for /\ w.data = v.data
  <1>1. PICK g \in Nat, m \in Nat, k1 \in Keys, f \in Keys :
            /\ v = [gen |-> g, mount |-> m, key |-> k1, for |-> f, data |-> v.data]
            /\ m <= g /\ f[1] = k1[1] /\ GotOK(f, v.data)
    BY DEF IsLoad
  <1>2. w = [gen |-> g, mount |-> m, key |-> k, for |-> f, data |-> v.data] /\ f[1] = k[1]
    BY <1>1
  <1> QED BY <1>1, <1>2 DEF IsLoad

LEMMA RequestIs ==
  ASSUME NEW v, IsLoad(v), NEW q, q = Request(v)
  PROVE  IsFetch(q) /\ q.gen = v.gen /\ q.for = v.key /\ q.got = NoData
  <1>1. v.gen \in Nat /\ v.key \in Keys
    BY LoadIs
  <1>2. q = [gen |-> v.gen, for |-> v.key, got |-> NoData]
    BY DEF Request
  <1>3. GotOK(v.key, NoData)
    BY DEF GotOK
  <1> QED BY <1>1, <1>2, <1>3 DEF IsFetch

LEMMA ServedIs ==
  ASSUME NEW q, IsFetch(q), NEW d, GotOK(q.for, d), NEW r, r = [q EXCEPT !.got = d]
  PROVE  IsFetch(r) /\ r.gen = q.gen /\ r.for = q.for /\ r.got = d
  <1>1. PICK g \in Nat, f \in Keys : q = [gen |-> g, for |-> f, got |-> q.got]
    BY DEF IsFetch
  <1>2. r = [gen |-> g, for |-> f, got |-> d] /\ GotOK(f, d)
    BY <1>1
  <1> QED BY <1>1, <1>2 DEF IsFetch

LEMMA ArrivedIs ==
  ASSUME NEW v, IsLoad(v), NEW q, IsFetch(q), Latest(v, q), q.for = v.key, NEW w, w = Arrived(v, q)
  PROVE  IsLoad(w) /\ w.gen = v.gen /\ w.mount = v.mount /\ w.key = v.key /\ w.for = q.for /\ w.data = q.got
  <1>1. PICK g \in Nat, m \in Nat, k \in Keys, f \in Keys :
            /\ v = [gen |-> g, mount |-> m, key |-> k, for |-> f, data |-> v.data]
            /\ m <= g /\ f[1] = k[1] /\ GotOK(f, v.data)
    BY DEF IsLoad
  <1>2. q.for \in Keys /\ GotOK(q.for, q.got)
    BY FetchIs
  <1>3. PICK f2 \in Keys : f2 = q.for
    BY <1>2
  <1>4. PICK d : d = q.got
    OBVIOUS
  <1>5. w = [v EXCEPT !.for = f2, !.data = d]
    BY <1>3, <1>4 DEF Arrived
  <1>6. w = [gen |-> g, mount |-> m, key |-> k, for |-> f2, data |-> d]
    <2>1. PICK e : e = v.data
      OBVIOUS
    <2>2. v = [gen |-> g, mount |-> m, key |-> k, for |-> f, data |-> e]
      BY <1>1, <2>1
    <2> QED BY <1>5, <2>2
  <1>7. k = v.key /\ f2[1] = k[1] /\ GotOK(f2, d) /\ w.data = d
    BY <1>1, <1>2, <1>3, <1>4, <1>6
  <1>8. IsLoad(w)
    BY <1>1, <1>6, <1>7 DEF IsLoad
  <1> QED BY <1>1, <1>3, <1>4, <1>6, <1>7, <1>8

(* What the server hands out has the issues of its lists, each once, and   *)
(* the cards of the sprint that is asked for.                              *)
LEMMA PlanningIs ==
  ASSUME ServerOK
  PROVE  PlanningView \in AllLists /\ EachOnce(PlanningView)
  <1>1. Backlog \in List
    BY DEF List
  <1>2. PICK o \in Seq(Issue) : o = Open(Backlog)
    BY <1>1, OpenIs
  <1>3. IsInjective(o) /\ Range(o) \subseteq Range(order[Backlog])
    BY <1>1, <1>2, OpenIs
  <1>4. /\ \A l \in List : order[l] \in Seq(Issue) /\ IsInjective(order[l])
        /\ \A l, m \in List : l # m => Range(order[l]) \cap Range(order[m]) = {}
    BY OnceIs DEF ServerOK, AllLists
  <1>5. PICK e \in Seq(Issue) : e = <<>> /\ IsInjective(e) /\ Range(e) = {}
    <2>1. <<>> \in Seq(Issue) /\ IsInjective(<<>>)
      BY DEF IsInjective
    <2> QED BY <2>1, RangeEmpty
  <1> DEFINE new == [k \in List |-> IF k = Backlog THEN o ELSE IF k \in Live(sprints) THEN order[k] ELSE e]
  <1>6. PlanningView = new
    BY <1>2, <1>5 DEF PlanningView
  <1>7. \A l \in List : new[l] \in Seq(Issue) /\ IsInjective(new[l]) /\ Range(new[l]) \subseteq Range(order[l])
    BY <1>3, <1>4, <1>5
  <1>8. new \in AllLists
    BY <1>7 DEF AllLists
  <1> HIDE DEF new
  <1>9. \A l, m \in List : l # m => Range(new[l]) \cap Range(new[m]) = {}
    BY <1>4, <1>7
  <1>10. EachOnce(new)
    BY <1>7, <1>9, OnceIs
  <1> QED BY <1>6, <1>8, <1>10

LEMMA ActiveIs == Active \in Seq(List) /\ Range(Active) \subseteq Sprint
  <1>1. ListOrder \in Seq(List)
    BY ServerAssumption
  <1>2. PICK X : X = {k \in Sprint : sprints[k].state = "active"}
    OBVIOUS
  <1>3. Active = Only(ListOrder, X) /\ X \subseteq Sprint
    BY <1>2 DEF Active
  <1> QED BY <1>1, <1>3, OnlyType, OnlyRange

LEMMA BoardViewIs ==
  ASSUME ServerOK, NEW s \in Sprint \cup {None}
  PROVE  /\ ShownOK(s, BoardView(s))
         /\ \A i \in DOMAIN BoardView(s).cards : BoardView(s).cards[i] = status[i]
  <1> DEFINE k == IF s # None THEN s ELSE IF Active = <<>> THEN None ELSE Active[1]
             on == IF k = None THEN {} ELSE {i \in Range(order[k]) : ColumnOf(status[i].is) # {}}
  <1>1. Active # <<>> => Active[1] \in Sprint
    <2>1. HAVE Active # <<>>
    <2>2. Len(Active) \in Nat /\ DOMAIN Active = 1..Len(Active) /\ Len(Active) # 0
      BY <2>1, ActiveIs, LenProperties, EmptySeq
    <2>3. 1 \in DOMAIN Active
      BY <2>2
    <2> QED BY <2>3, ActiveIs DEF Range
  <1>2. k \in Sprint \cup {None} /\ (s # None => k = s)
    BY <1>1
  <1>3. k # None => order[k] \in Seq(Issue)
    BY <1>2 DEF ServerOK, AllLists, List
  <1>4. BoardView(s) = [sprint |-> k, active |-> Range(Active), cards |-> [i \in on |-> status[i]]]
    BY Zenon DEF BoardView
  <1> HIDE DEF k
  <1>5. on \in SUBSET Issue
    <2>1. k # None => Range(order[k]) \subseteq Issue
      <3>1. HAVE k # None
      <3>2. order[k] \in Seq(Issue)
        BY <1>3, <3>1
      <3> QED BY <3>2, LenProperties, ElementOfSeq DEF Range
    <2> QED BY <2>1
  <1>6. k = None => on = {}
    OBVIOUS
  <1> HIDE DEF on
  <1>7. PICK c : c = [i \in on |-> status[i]]
    OBVIOUS
  <1>8. c \in [on -> Card] /\ DOMAIN c = on /\ \A i \in on : c[i] = status[i]
    BY <1>5, <1>7 DEF ServerOK
  <1>9. BoardView(s).cards = c /\ BoardView(s).sprint = k
    BY <1>4, <1>7
  <1>10. IsCards(c)
    BY <1>5, <1>8 DEF IsCards
  <1> QED BY <1>2, <1>6, <1>8, <1>9, <1>10 DEF ShownOK

LEMMA OpenedIs ==
  ASSUME ServerOK
  PROVE  PlanOK(Opened)
  <1>1. PICK e \in AllLists : e = [k \in List |-> <<>>]
    <2>1. <<>> \in Seq(Issue)
      OBVIOUS
    <2>2. [k \in List |-> <<>>] \in [List -> Seq(Issue)]
      BY <2>1
    <2> QED BY <2>2 DEF AllLists
  <1>2. Opened = [read |-> "sprints", sprints |-> sprints, lists |-> e, torn |-> TRUE]
    BY <1>1 DEF Opened
  <1> QED BY <1>2 DEF PlanOK, Plans, ServerOK

LEMMA FilledIs ==
  ASSUME ServerOK, NEW d, PlanOK(d), d.torn
  PROVE  PlanOK(Filled(d))
  <1>1. \A k \in List : order[k] \in Seq(Issue)
    BY DEF ServerOK, AllLists
  <1>2. PICK e \in AllLists : e = [k \in List |-> IF k \in Live(d.sprints) \ {Backlog} THEN order[k] ELSE <<>>]
    <2>1. <<>> \in Seq(Issue)
      OBVIOUS
    <2>2. [k \in List |-> IF k \in Live(d.sprints) \ {Backlog} THEN order[k] ELSE <<>>] \in [List -> Seq(Issue)]
      BY <1>1, <2>1
    <2> QED BY <2>2 DEF AllLists
  <1>3. Filled(d) = [d EXCEPT !.read = "issues", !.lists = e]
    BY <1>2 DEF Filled
  <1>4. Filled(d) \in Plans /\ Filled(d).torn
    BY <1>3 DEF PlanOK, Plans
  <1> QED BY <1>4 DEF PlanOK

LEMMA WholeIs ==
  ASSUME ServerOK, NEW d, PlanOK(d)
  PROVE  PlanOK(Whole(d)) /\ (~Whole(d).torn => Whole(d).lists = PlanningView)
  <1>1. Backlog \in List /\ Open(Backlog) \in Seq(Issue)
    BY OpenIs DEF List
  <1>2. PICK e \in AllLists : e = [d.lists EXCEPT ![Backlog] = Open(Backlog)]
    BY <1>1 DEF AllLists, PlanOK, Plans
  <1>3. PICK b \in BOOLEAN : b = (e # PlanningView)
    OBVIOUS
  <1>4. Whole(d) = [d EXCEPT !.read = "all", !.lists = e, !.torn = b]
    BY <1>2, <1>3, Zenon DEF Whole
  <1>5. Whole(d) \in Plans /\ Whole(d).lists = e /\ Whole(d).torn = b /\ Whole(d).read = "all"
    BY <1>4 DEF PlanOK, Plans
  <1>6. ~b => e = PlanningView /\ EachOnce(e)
    BY <1>3, PlanningIs
  <1>7. PICK w : w = Whole(d)
    OBVIOUS
  <1>8. w \in Plans /\ w.read = "all" /\ (~w.torn => w.lists = PlanningView /\ EachOnce(w.lists))
    BY <1>5, <1>6, <1>7
  <1> QED BY <1>7, <1>8 DEF PlanOK

LEMMA ReadOnIs ==
  ASSUME ServerOK, NEW q, IsFetch(q), ~Served(q)
  PROVE  GotOK(q.for, ReadOn(q))
  <1>1. q.for \in Keys /\ GotOK(q.for, q.got)
    BY FetchIs
  <1>2. CASE q.for[1] = "board"
    <2>1. q.for[2] \in Sprint \cup {None}
      BY <1>1, <1>2 DEF Keys
    <2>2. ReadOn(q) = BoardView(q.for[2])
      BY <1>2 DEF ReadOn
    <2> QED BY <1>2, <2>1, <2>2, BoardViewIs DEF GotOK
  <1>3. CASE q.for[1] # "board"
    <2>1. q.for[1] = "backlog"
      BY <1>1, <1>3 DEF Keys
    <2>2. CASE q.got = NoData
      BY <1>3, <2>1, <2>2, OpenedIs DEF ReadOn, GotOK
    <2>3. CASE q.got # NoData
      <3>1. PlanOK(q.got) /\ q.got.read # "all"
        BY <1>1, <2>1, <2>3 DEF GotOK, Served
      <3>2. CASE q.got.read = "sprints"
        <4>1. q.got.torn
          BY <3>1, <3>2 DEF PlanOK
        <4> QED BY <1>3, <2>1, <2>3, <3>1, <3>2, <4>1, FilledIs DEF ReadOn, GotOK
      <3>3. CASE q.got.read # "sprints"
        BY <1>3, <2>1, <2>3, <3>1, <3>3, WholeIs DEF ReadOn, GotOK
      <3> QED BY <3>2, <3>3
    <2> QED BY <2>2, <2>3
  <1> QED BY <1>2, <1>3
-----------------------------------------------------------------------------
(* The load of the panel.                                                  *)
LoadsOK ==
    /\ tab \in Tabs /\ missed \in BOOLEAN
    /\ IsLoad(view) /\ view.key[1] = tab
    /\ \A q \in fetches : IsFetch(q) /\ q.gen <= view.gen /\ (Latest(view, q) => q.for = view.key)
    /\ \A p, q \in fetches : Latest(view, p) /\ Latest(view, q) => p = q

\* Requests of panels.
MoveSend == [kind : {"move"}, ids : Seq(Issue), to : List, before : Issue \cup {None}, after : Issue \cup {None},
             gen : Nat, answer : {"none", "ok", "lost", "failed"}, agrees : {TRUE}]
FormSend == [kind : Kinds, sprint : Sprint, ver : Nat, to : List,
             gen : Nat, answer : {"none", "ok", "lost", "failed"}, agrees : {TRUE}]
CardSend == [kind : {"move", "flag"}, card : Issue, from : Status, to : Status, ver : Nat, ack : BOOLEAN,
             answer : {"none", "ok", "lost", "failed", "asked"}, gen : Nat]

SendsOK ==
    /\ \A m \in sends : (m \in MoveSend /\ IsInjective(m.ids)) \/ m \in FormSend
    /\ \A m \in sends : m.gen <= view.gen

CardSendsOK ==
    /\ moves \subseteq CardSend
    /\ \A m \in moves : m.gen <= view.gen

\* A panel is mounted, by the user or when the start of a sprint was answered.
Opens(t) == Mounts(t) /\ sends' \subseteq sends

(* The steps, by the panel they are of.                                    *)
LEMMA Parts ==
  ASSUME Next
  PROVE  \/ (BacklogGestures \/ BacklogRequests \/ BacklogAnswers) /\ UNCHANGED board
         \/ (BoardReplies \/ BoardRequests \/ BoardAnswers) /\ UNCHANGED backlog
         \/ \E t \in Tabs : Opens(t)
         \/ \E q \in fetches : FetchServed(q) \/ FetchArrives(q) \/ FetchFails(q)
  <1>1. ASSUME NEW m \in sends, Started(m) PROVE \E t \in Tabs : Opens(t)
    BY <1>1 DEF Started, Opens, Tabs
  <1>2. ASSUME NEW t \in Tabs, OpenTab(t) PROVE Opens(t)
    BY <1>2 DEF OpenTab, Opens
  <1> QED BY <1>1, <1>2 DEF Next, Gestures, BoardOrTab, Answers

(* A gesture, and a request of the backlog, is the page's own business.    *)
LEMMA GesturesAre ==
  ASSUME BacklogGestures
  PROVE  UNCHANGED <<server, page, sends>>
  <1>1. CASE \E X \in Filters : X # hides.filter /\ Filter(X)
    BY <1>1 DEF Filter
  <1>2. CASE \E s \in Sprint : Collapse(s) \/ \E kind \in Kinds : OpenDialog(kind, s)
    BY <1>2 DEF Collapse, OpenDialog
  <1>3. CASE \E i \in Issue : Tick(i) \/ DragStart(i)
    BY <1>3 DEF Tick, DragStart
  <1>4. CASE \E k \in List, i \in Issue \cup {None} : DragOver(k, i)
    BY <1>4 DEF DragOver
  <1>5. CASE ClearTicks \/ DragCancel \/ CloseDialog
    BY <1>5 DEF ClearTicks, DragCancel, CloseDialog
  <1> QED BY <1>1, <1>2, <1>3, <1>4, <1>5 DEF BacklogGestures

LEMMA RequestsAre ==
  ASSUME BacklogRequests
  PROVE  UNCHANGED <<server, page>>
  <1>1. CASE \E i \in Issue, k \in List, w \in {"top", "bottom"} : Held(i) /\ MoveTo(i, k, w)
    BY <1>1 DEF MoveTo
  <1>2. CASE \E i \in Issue : Drop(i)
    BY <1>2 DEF Drop
  <1>3. CASE \E k \in List : SubmitDialog(k)
    BY <1>3 DEF SubmitDialog
  <1> QED BY <1>1, <1>2, <1>3 DEF BacklogRequests

\* What a step does to the load.
PageStep ==
    \/ UNCHANGED <<tab, view, fetches>>
    \/ Reload(view) /\ UNCHANGED tab
    \/ \E s \in Sprint : OnBoard /\ Reload([view EXCEPT !.key = <<"board", s>>]) /\ UNCHANGED tab
    \/ \E t \in Tabs : Mounts(t)
    \/ \E q \in fetches : FetchServed(q) \/ FetchArrives(q) \/ FetchFails(q)

LEMMA PageSteps ==
  ASSUME Next
  PROVE  PageStep
  <1>1. ASSUME BacklogGestures \/ BacklogRequests PROVE PageStep
    BY <1>1, GesturesAre, RequestsAre DEF page, PageStep
  <1>2. ASSUME BacklogAnswers PROVE PageStep
    <2>1. PICK m \in sends : SendServed(m) \/ SendRefused(m) \/ SendOk(m) \/ SendFails(m)
      BY <1>2 DEF BacklogAnswers
    <2>2. CASE SendServed(m)
      BY <2>2 DEF SendServed, PageStep, page
    <2>3. CASE SendRefused(m)
      BY <2>3 DEF SendRefused, PageStep, page
    <2>4. CASE SendOk(m)
      BY <2>4 DEF SendOk, PageStep
    <2>5. CASE SendFails(m)
      BY <2>5 DEF SendFails, PageStep
    <2> QED BY <2>1, <2>2, <2>3, <2>4, <2>5
  <1>3. ASSUME BoardReplies PROVE PageStep
    BY <1>3 DEF BoardReplies, MoveAnyway, NotAnyway, OthersMove, PageStep, page
  <1>4. ASSUME BoardRequests PROVE PageStep
    <2>1. CASE \E s \in Sprint : ChooseSprint(s)
      BY <2>1 DEF ChooseSprint, PageStep
    <2>2. CASE \E i \in Issue : Flag(i) \/ \E to \in Status : MoveCard(i, to)
      BY <2>2 DEF Flag, MoveCard, PageStep, page
    <2> QED BY <1>4, <2>1, <2>2 DEF BoardRequests
  <1>5. ASSUME BoardAnswers PROVE PageStep
    <2>1. PICK m \in moves : MoveServed(m) \/ MoveRefused(m) \/ MoveOverLimit(m) \/ MoveOk(m) \/ MoveFails(m)
      BY <1>5 DEF BoardAnswers
    <2>2. CASE MoveServed(m) \/ MoveRefused(m) \/ MoveOverLimit(m)
      BY <2>2 DEF MoveServed, MoveRefused, MoveOverLimit, PageStep, page
    <2>3. CASE MoveOk(m)
      BY <2>3 DEF MoveOk, PageStep
    <2>4. CASE MoveFails(m)
      BY <2>4 DEF MoveFails, PageStep
    <2> QED BY <2>1, <2>2, <2>3, <2>4
  <1> QED BY <1>1, <1>2, <1>3, <1>4, <1>5, Parts DEF PageStep, Opens

(* A new request is the latest.                                            *)
LEMMA NewRequest ==
  ASSUME LoadsOK, NEW w, IsLoad(w), w.gen \in Nat, w.gen > view.gen, view' = w, fetches' = fetches \cup {Request(w)}
  PROVE  /\ \A q \in fetches' : IsFetch(q) /\ q.gen <= view'.gen /\ (Latest(view', q) => q.for = view'.key)
         /\ \A p, q \in fetches' : Latest(view', p) /\ Latest(view', q) => p = q
         /\ \E q \in fetches' : Latest(view', q) /\ q.got = NoData
  <1>1. PICK r : r = Request(w)
    OBVIOUS
  <1>2. IsFetch(r) /\ r.gen = w.gen /\ r.for = w.key /\ r.got = NoData
    BY <1>1, RequestIs
  <1>3. \A q \in fetches : q.gen \in Nat /\ q.gen <= view.gen /\ view.gen \in Nat
    BY FetchIs, LoadIs DEF LoadsOK
  <1>4. \A q \in fetches : IsFetch(q) /\ q.gen <= w.gen /\ q.gen # w.gen
    BY <1>3 DEF LoadsOK
  <1>5. fetches' = fetches \cup {r}
    BY <1>1
  <1> QED BY <1>2, <1>4, <1>5 DEF Latest

LEMMA BoardKey ==
  ASSUME NEW s \in Sprint \cup {None}
  PROVE  <<"board", s>> \in Keys /\ <<"board", s>>[1] = "board" /\ <<"board", s>>[2] = s
  BY DEF Keys

LEMMA TabKey ==
  ASSUME NEW t \in Tabs
  PROVE  <<t, None>> \in Keys /\ <<t, None>>[1] = t /\ <<t, None>>[2] = None
  BY DEF Keys, Tabs

LEMMA LoadsKeep ==
  ASSUME ServerOK, LoadsOK, PageStep, missed' \in BOOLEAN
  PROVE  /\ LoadsOK' /\ view'.gen >= view.gen /\ view.gen \in Nat /\ view'.gen \in Nat
  <1>0. view.gen \in Nat /\ view.gen + 1 > view.gen /\ IsLoad(view) /\ view.key[1] = tab /\ tab \in Tabs
    BY LoadIs DEF LoadsOK
  <1>1. CASE UNCHANGED <<tab, view, fetches>>
    BY <1>0, <1>1 DEF LoadsOK
  <1>2. ASSUME NEW w, IsLoad(w), w.gen = view.gen, w.key[1] = tab, Reload(w), UNCHANGED tab
        PROVE  LoadsOK' /\ view'.gen >= view.gen /\ view'.gen \in Nat
    <2>1. PICK v : v = Asks(w)
      OBVIOUS
    <2>2. IsLoad(v) /\ v.gen = view.gen + 1 /\ v.key = w.key
      BY <1>2, <2>1, AsksIs
    <2>3. view' = v /\ fetches' = fetches \cup {Request(v)}
      BY <1>2, <2>1 DEF Reload
    <2> QED BY <1>0, <1>2, <2>2, <2>3, NewRequest DEF LoadsOK
  <1>3. CASE Reload(view) /\ UNCHANGED tab
    BY <1>0, <1>2, <1>3
  <1>4. CASE \E s \in Sprint : OnBoard /\ Reload([view EXCEPT !.key = <<"board", s>>]) /\ UNCHANGED tab
    <2>1. PICK s \in Sprint : OnBoard /\ Reload([view EXCEPT !.key = <<"board", s>>]) /\ UNCHANGED tab
      BY <1>4
    <2>2. PICK k \in Keys : k = <<"board", s>> /\ k[1] = "board"
      BY BoardKey
    <2>3. PICK w : w = [view EXCEPT !.key = k]
      OBVIOUS
    <2>4. tab = "board"
      BY <2>1 DEF OnBoard
    <2>5. IsLoad(w) /\ w.gen = view.gen /\ w.key = k
      BY <1>0, <2>2, <2>3, <2>4, RekeyIs
    <2> QED BY <1>0, <1>2, <2>1, <2>2, <2>3, <2>4, <2>5
  <1>5. CASE \E t \in Tabs : Mounts(t)
    <2>1. PICK t \in Tabs : Mounts(t)
      BY <1>5
    <2>2. PICK k \in Keys : k = <<t, None>> /\ k[1] = t
      BY TabKey
    <2>3. PICK g \in Nat : g = view.gen + 1
      BY <1>0
    <2>4. PICK w : w = LoadOf(k, g)
      OBVIOUS
    <2>5. IsLoad(w) /\ w.gen = g /\ w.key = k
      BY <2>4, NewLoad
    <2>6. tab' = t /\ view' = w /\ fetches' = fetches \cup {Request(w)}
      BY <2>1, <2>2, <2>3, <2>4 DEF Mounts
    <2> QED BY <1>0, <2>2, <2>3, <2>5, <2>6, NewRequest DEF LoadsOK
  <1>6. CASE \E q \in fetches : FetchServed(q)
    <2>1. PICK q \in fetches : FetchServed(q)
      BY <1>6
    <2>2. PICK d : d = ReadOn(q)
      OBVIOUS
    <2>3. PICK r : r = [q EXCEPT !.got = d]
      OBVIOUS
    <2>4. IsFetch(r) /\ r.gen = q.gen /\ r.for = q.for
      <3>1. IsFetch(q) /\ ~Served(q)
        BY <2>1 DEF LoadsOK, FetchServed
      <3>2. GotOK(q.for, d)
        BY <2>2, <3>1, ReadOnIs
      <3> QED BY <2>3, <3>1, <3>2, ServedIs
    <2>5. fetches' = (fetches \ {q}) \cup {r} /\ UNCHANGED <<tab, view>>
      BY <2>1, <2>2, <2>3 DEF FetchServed
    <2> QED BY <1>0, <2>4, <2>5 DEF LoadsOK, Latest
  <1>7. CASE \E q \in fetches : FetchArrives(q)
    <2>1. PICK q \in fetches : FetchArrives(q)
      BY <1>7
    <2>2. fetches' = fetches \ {q} /\ UNCHANGED tab /\ view' = Arrived(view, q)
      BY <2>1 DEF FetchArrives
    <2>3. IsLoad(view') /\ view'.gen = view.gen /\ view'.key = view.key
      <3>1. CASE Latest(view, q)
        BY <2>2, <3>1, ArrivedIs DEF LoadsOK
      <3>2. CASE ~Latest(view, q)
        BY <1>0, <2>2, <3>2 DEF Arrived
      <3> QED BY <3>1, <3>2
    <2> QED BY <1>0, <2>2, <2>3 DEF LoadsOK, Latest
  <1>8. CASE \E q \in fetches : FetchFails(q)
    BY <1>0, <1>8 DEF FetchFails, LoadsOK
  <1> QED BY <1>0, <1>1, <1>3, <1>4, <1>5, <1>6, <1>7, <1>8 DEF PageStep
-----------------------------------------------------------------------------
(* Where issues land.                                                      *)

LEMMA OnlyLen ==
  ASSUME NEW E, NEW s \in Seq(E), IsInjective(s), NEW a, NEW X, Range(s) \subseteq X \cup {a}
  PROVE  Len(Only(s, X)) >= Len(s) - 1 /\ (a \notin Range(s) => Len(Only(s, X)) >= Len(s))
  <1> DEFINE Low(t) == Len(Only(t, X)) >= Len(t) - 1 /\ (a \notin Range(t) => Len(Only(t, X)) >= Len(t))
             Bad == {t \in Seq(E) : IsInjective(t) /\ Range(t) \subseteq X \cup {a} /\ ~Low(t)}
  <1>1. SUFFICES ASSUME Bad # {} PROVE FALSE
    OBVIOUS
  <1>2. <<>> \notin Bad
    BY OnlyEmpty
  <1>3. PICK t \in Seq(E), x \in E : Append(t, x) \in Bad /\ t \notin Bad
    BY <1>1, <1>2, ShortestBut
  <1>4. Range(Append(t, x)) = Range(t) \cup {x}
    BY RangeAppend
  <1>5. IsInjective(t) /\ x \notin Range(t)
    <2>1. <<x>> \in Seq(E) /\ Range(<<x>>) = {x} /\ Append(t, x) = t \o <<x>>
      BY RangeOne, AppendIsConcat
    <2>2. PICK v \in Seq(E) : v = <<x>>
      BY <2>1
    <2>3. IsInjective(t \o v)
      BY <1>3, <2>1, <2>2
    <2> QED BY <2>1, <2>2, <2>3, ConcatInjective
  <1>6. Low(t)
    BY <1>3, <1>4, <1>5
  <1>7. PICK u \in Seq(E) : u = Only(t, X)
    BY OnlyType
  <1>8. Len(t) \in Nat /\ Len(u) \in Nat /\ Len(Append(t, x)) = Len(t) + 1 /\ Len(Append(u, x)) = Len(u) + 1
    BY LenProperties, AppendProperties
  <1>9. Only(Append(t, x), X) = IF x \in X THEN Append(u, x) ELSE u
    BY <1>7, OnlyAppend
  <1>10. x \notin X => x = a
    BY <1>3, <1>4
  <1>11. Low(Append(t, x))
    <2>1. Len(u) >= Len(t) - 1 /\ (a \notin Range(t) => Len(u) >= Len(t))
      BY <1>6, <1>7
    <2>2. CASE x \in X
      BY <1>4, <1>8, <1>9, <2>1, <2>2
    <2>3. CASE x \notin X
      BY <1>4, <1>5, <1>8, <1>9, <1>10, <2>1, <2>3
    <2> QED BY <2>2, <2>3
  <1> QED BY <1>3, <1>11

LEMMA WithoutLen ==
  ASSUME NEW s \in Seq(Issue), IsInjective(s), NEW a
  PROVE  Len(Without(s, {a})) >= Len(s) - 1
  <1>1. PICK X : X = Range(s) \ {a}
    OBVIOUS
  <1>2. Range(s) \subseteq X \cup {a}
    BY <1>1
  <1>3. Len(Only(s, X)) >= Len(s) - 1
    BY <1>2, OnlyLen
  <1> QED BY <1>1, <1>3 DEF Without

(* The list in which the dragged issue is put over another one has the     *)
(* same issues, the others in the same order.                              *)
LEMMA ReorderedIs ==
  ASSUME NEW s \in Seq(Issue), IsInjective(s), NEW a \in Range(s), NEW over
  PROVE  /\ Reordered(s, a, over) \in Seq(Issue) /\ IsInjective(Reordered(s, a, over))
         /\ Range(Reordered(s, a, over)) = Range(s)
         /\ Without(Reordered(s, a, over), {a}) = Without(s, {a})
  <1>1. CASE over \notin Range(s) \/ over = a
    BY <1>1 DEF Reordered
  <1>2. CASE over \in Range(s) /\ over # a
    <2>1. a \in Issue
      BY LenProperties, ElementOfSeq DEF Range
    <2>2. PICK v \in Seq(Issue) : v = <<a>> /\ Range(v) = {a} /\ IsInjective(v)
      BY <2>1, RangeOne
    <2>3. PICK w \in Seq(Issue) : w = Without(s, {a}) /\ Range(w) = Range(s) \ {a} /\ IsInjective(w)
      BY WithoutIs
    <2>4. PICK at \in 0..Len(w) : at = Position(s, over) - 1
      <3>1. Position(s, over) \in 1..Len(s)
        BY <1>2, PositionIn
      <3>2. Len(w) >= Len(s) - 1 /\ Len(w) \in Nat /\ Len(s) \in Nat
        BY <2>3, WithoutLen, LenProperties
      <3> QED BY <3>1, <3>2
    <2>5. Reordered(s, a, over) = Into(w, at, v)
      BY <1>2, <2>2, <2>3, <2>4 DEF Reordered
    <2>6. /\ Into(w, at, v) \in Seq(Issue) /\ Range(Into(w, at, v)) = Range(w) \cup Range(v)
          /\ IsInjective(Into(w, at, v))
      <3>1. Range(w) \cap Range(v) = {}
        BY <2>2, <2>3
      <3>2. /\ Into(w, at, v) \in Seq(Issue) /\ Range(Into(w, at, v)) = Range(w) \cup Range(v)
            /\ IsInjective(w) /\ IsInjective(v) /\ Range(w) \cap Range(v) = {} => IsInjective(Into(w, at, v))
        BY IntoIs
      <3> QED BY <2>2, <2>3, <3>1, <3>2
    <2>7. Without(Into(w, at, <<a>>), {a}) = Without(w, {a})
      BY <2>1, WithoutInto
    <2>8. Without(Without(s, {a}), {a}) = Without(s, {a} \cup {a})
      BY WithoutTwice
    <2>9. Without(w, {a}) = Without(s, {a})
      BY <2>3, <2>8
    <2> QED BY <2>2, <2>3, <2>5, <2>6, <2>7, <2>9
  <1> QED BY <1>1, <1>2

(* What moves with an issue.                                               *)
LEMMA MovingIs ==
  ASSUME NEW ls \in AllLists, NEW i \in Issue, NEW X
  PROVE  /\ <<i>> \in Seq(Issue) /\ IsInjective(<<i>>) /\ Range(<<i>>) = {i}
         /\ Only(Flat(ls), X) \in Seq(Issue) /\ (EachOnce(ls) => IsInjective(Only(Flat(ls), X)))
         /\ Range(Only(Flat(ls), X)) = Range(Flat(ls)) \cap X
  <1>1. PICK f \in Seq(Issue) : f = Flat(ls) /\ (EachOnce(ls) => IsInjective(f))
    BY FlatIs
  <1>2. /\ Only(f, X) \in Seq(Issue) /\ (IsInjective(f) => IsInjective(Only(f, X)))
        /\ Range(Only(f, X)) = Range(f) \cap X
    BY <1>1, OnlyType, OnlyInjective, OnlyRange
  <1> QED BY <1>1, <1>2, RangeOne

LEMMA MovingForIs ==
  ASSUME lists \in AllLists, NEW i \in Issue
  PROVE  MovingFor(i) \in Seq(Issue) /\ (EachOnce(lists) => IsInjective(MovingFor(i)))
  <1>1. PICK X : X = {x \in ticked : x = i \/ Shows(x)}
    OBVIOUS
  <1>2. MovingFor(i) = <<i>> \/ MovingFor(i) = Only(Flat(lists), X)
    BY <1>1 DEF MovingFor
  <1> QED BY <1>2, MovingIs

(* To the top: before the first of the others; to the bottom: after the    *)
(* last.                                                                   *)
LEMMA EndsTyped ==
  ASSUME NEW ls \in AllLists, NEW ids \in Seq(Issue), NEW k \in List, NEW rest,
         rest = Without(ls[k], Range(ids)), NEW first, NEW last,
         first = IF rest = <<>> THEN None ELSE rest[1],
         last = IF rest = <<>> THEN None ELSE rest[Len(rest)]
  PROVE  first \in Issue \cup {None} /\ last \in Issue \cup {None} /\ Len(rest) \in Nat
  <1>1. rest \in Seq(Issue)
    BY WithoutIs DEF AllLists
  <1>2. Len(rest) \in Nat /\ DOMAIN rest = 1..Len(rest)
    BY <1>1, LenProperties
  <1>3. CASE rest = <<>>
    BY <1>2, <1>3
  <1>4. CASE rest # <<>>
    <2>1. Len(rest) # 0
      BY <1>1, <1>4, EmptySeq
    <2>2. 1 \in 1..Len(rest) /\ Len(rest) \in 1..Len(rest)
      BY <1>2, <2>1
    <2>3. rest[1] \in Issue /\ rest[Len(rest)] \in Issue
      BY <1>1, <2>2, ElementOfSeq
    <2> QED BY <1>2, <1>4, <2>3
  <1> QED BY <1>3, <1>4

LEMMA EndsAre ==
  ASSUME NEW ls \in AllLists, EachOnce(ls), NEW ids \in Seq(Issue), NEW k \in List, NEW rest,
         rest = Without(ls[k], Range(ids)), NEW first, NEW last,
         first = IF rest = <<>> THEN None ELSE rest[1],
         last = IF rest = <<>> THEN None ELSE rest[Len(rest)]
  PROVE  /\ first \in Issue \cup {None} /\ last \in Issue \cup {None} /\ Len(rest) \in Nat
         /\ Placed(ls, ids, k, None, first) = MoveLocally(ls, ids, k, 0)
         /\ Placed(ls, ids, k, last, None) = MoveLocally(ls, ids, k, Len(rest))
  <1>1. ls[k] \in Seq(Issue) /\ IsInjective(ls[k])
    BY OnceIs DEF AllLists
  <1>2. rest \in Seq(Issue) /\ IsInjective(rest) /\ Len(rest) \in Nat /\ DOMAIN rest = 1..Len(rest)
    BY <1>1, WithoutIs, LenProperties
  <1>3. PICK n \in Nat : n = Len(rest)
    BY <1>2
  <1>4. \A i \in 1..n : rest[i] \in Range(rest) /\ rest[i] \in Issue /\ rest[i] # None /\ Position(rest, rest[i]) = i
    <2>1. None \notin Issue
      BY ServerAssumption
    <2>2. \A i \in 1..n : rest[i] \in Issue /\ rest[i] \in Range(rest)
      BY <1>2, <1>3, ElementOfSeq DEF Range
    <2>3. \A i \in 1..n : Position(rest, rest[i]) = i
      BY <1>2, <1>3, PositionOf
    <2> QED BY <2>1, <2>2, <2>3
  <1>5. n = 0 <=> rest = <<>>
    BY <1>2, <1>3, EmptySeq
  <1>6. /\ first \in {None} \cup Range(rest) /\ last \in {None} \cup Range(rest)
        /\ first \in Issue \cup {None} /\ last \in Issue \cup {None}
    <2>1. CASE n = 0
      BY <1>5, <2>1
    <2>2. CASE n # 0
      <3>1. 1 \in 1..n /\ n \in 1..n
        BY <2>2
      <3> QED BY <1>3, <1>4, <1>5, <2>2, <3>1
    <2> QED BY <2>1, <2>2
  <1>7. PlaceAt(rest, k, None, first) = 0 /\ PlaceAt(rest, k, last, None) = n
    <2>1. CASE n = 0
      BY <1>3, <1>5, <2>1 DEF PlaceAt
    <2>2. CASE n # 0
      <3>1. 1 \in 1..n /\ n \in 1..n
        BY <2>2
      <3>2. first = rest[1] /\ last = rest[n] /\ first # None /\ last # None
        BY <1>3, <1>4, <1>5, <2>2, <3>1
      <3>3. Position(rest, first) = 1 /\ Position(rest, last) = n
        BY <1>4, <3>1, <3>2
      <3> QED BY <3>2, <3>3 DEF PlaceAt
    <2> QED BY <2>1, <2>2
  <1>8. Placed(ls, ids, k, None, first) = Inserted(ls, ids, k, 0) /\ Placed(ls, ids, k, last, None) = Inserted(ls, ids, k, n)
    BY <1>6, <1>7, PlacedIs
  <1>9. MoveLocally(ls, ids, k, 0) = Inserted(ls, ids, k, 0)
    <2>1. PICK m \in 0..Len(Without(ls[k], Range(ids))) :
              /\ m = IF 0 < Len(Without(ls[k], Range(ids))) THEN 0 ELSE Len(Without(ls[k], Range(ids)))
              /\ MoveLocally(ls, ids, k, 0) = Inserted(ls, ids, k, m)
      BY LocalIs
    <2>2. m = 0
      BY <1>2, <2>1
    <2> QED BY <2>1, <2>2
  <1>10. MoveLocally(ls, ids, k, n) = Inserted(ls, ids, k, n)
    BY <1>2, <1>3, LocalIs
  <1> QED BY <1>2, <1>3, <1>6, <1>8, <1>9, <1>10
\* A drag that began with the lists of its start, which ls differ from by the
\* place of its issue.
IsDrag(d, ls) ==
    d # NoDrag =>
        /\ d = [of |-> d.of, start |-> d.start, waiting |-> d.waiting, torn |-> d.torn]
        /\ d.torn \in BOOLEAN
        /\ d.of \in Issue /\ d.start \in AllLists /\ EachOnce(d.start)
        /\ d.waiting # NoData => d.waiting \in AllLists /\ (~d.torn => EachOnce(d.waiting))
        /\ \E k \in List : d.of \in Range(ls[k])
        /\ \E k \in List : d.of \in Range(d.start[k])
        /\ \A k \in List : Without(ls[k], {d.of}) = Without(d.start[k], {d.of})

ListsOK ==
    /\ lists \in AllLists /\ mixed \in BOOLEAN
    /\ ~mixed \/ drag # NoDrag => EachOnce(lists)
    /\ IsDrag(drag, lists)

LEMMA ListOfIs ==
  ASSUME NEW ls, NEW i, \E k \in List : i \in Range(ls[k])
  PROVE  ListOf(ls, i) \in List /\ i \in Range(ls[ListOf(ls, i)])
  BY DEF ListOf

(* A drop names the neighbour on screen, and the server puts the issues    *)
(* where the page does: in the list as it was before the drag, they and    *)
(* the dragged one aside, the others are as they are on the page.          *)
LEMMA PlanIs ==
  ASSUME ListsOK, drag # NoDrag, NEW over, NEW plan, plan = PlanDrop(drag.of, over), plan.ids # <<>>
  PROVE  /\ plan.ids \in Seq(Issue) /\ IsInjective(plan.ids) /\ plan.to \in List /\ plan.at \in Nat
         /\ plan.before \in Issue \cup {None} /\ plan.after \in Issue \cup {None}
         /\ Placed(drag.start, plan.ids, plan.to, plan.before, plan.after)
                = MoveLocally(drag.start, plan.ids, plan.to, plan.at)
  <1>1. PICK a \in Issue : a = drag.of
    BY DEF ListsOK, IsDrag
  <1>2. PICK start \in AllLists : start = drag.start /\ EachOnce(start)
    BY DEF ListsOK, IsDrag
  <1>3. /\ \E l \in List : a \in Range(lists[l])
        /\ \E l \in List : a \in Range(start[l])
        /\ \A l \in List : Without(lists[l], {a}) = Without(start[l], {a})
    BY <1>1, <1>2 DEF ListsOK, IsDrag
  <1> DEFINE k == ListOf(lists, a)
             list == Reordered(lists[k], a, over)
             ids == IF a \in ticked /\ Cardinality(ticked) > 1
                    THEN Only(Flat(drag.start), {x \in ticked : x = a \/ Shows(x)})
                    ELSE <<a>>
             shown == Only(list, {a} \cup {x \in Range(list) \ Range(ids) : Shows(x)})
             n == Position(shown, a)
             above == IF n > 1 THEN shown[n - 1] ELSE None
             below == IF n < Len(shown) THEN shown[n + 1] ELSE None
             after == IF above # None THEN None ELSE below
  <1>4. PlanDrop(a, over) = [ids |-> IF Len(ids) = 1 /\ drag.start[k] = list THEN <<>> ELSE ids,
                             to |-> k, before |-> above, after |-> after,
                             at |-> PlaceOf(list, Range(ids), shown, above, below, k)]
    BY Zenon DEF PlanDrop
  <1>5. /\ plan.ids = ids /\ plan.to = k /\ plan.before = above /\ plan.after = after
        /\ plan.at = PlaceOf(list, Range(ids), shown, above, below, k)
    <2> HIDE DEF k, list, ids, shown, above, below, after
    <2> QED BY <1>1, <1>4
  <1>6. k \in List /\ a \in Range(lists[k])
    BY <1>3, ListOfIs
  <1> HIDE DEF k
  <1>7. lists[k] \in Seq(Issue) /\ start[k] \in Seq(Issue) /\ IsInjective(lists[k]) /\ IsInjective(start[k])
    BY <1>2, <1>6, OnceIs DEF ListsOK, AllLists
  <1>8. /\ list \in Seq(Issue) /\ IsInjective(list) /\ Range(list) = Range(lists[k])
        /\ Without(list, {a}) = Without(lists[k], {a})
    BY <1>6, <1>7, ReorderedIs
  <1> HIDE DEF list
  <1>9. ids \in Seq(Issue) /\ IsInjective(ids) /\ a \in Range(ids)
    <2>1. CASE a \in ticked /\ Cardinality(ticked) > 1
      <3>1. PICK X : X = {x \in ticked : x = a \/ Shows(x)}
        OBVIOUS
      <3>2. ids = Only(Flat(start), X) /\ a \in X
        BY <1>2, <2>1, <3>1
      <3>3. a \in Range(Flat(start))
        BY <1>3, FlatIs
      <3>4. Only(Flat(start), X) \in Seq(Issue) /\ IsInjective(Only(Flat(start), X)) /\ a \in Range(Only(Flat(start), X))
        BY <1>2, <3>2, <3>3, MovingIs
      <3> QED BY <3>2, <3>4
    <2>2. CASE ~(a \in ticked /\ Cardinality(ticked) > 1)
      <3>1. ids = <<a>>
        BY <2>2
      <3> QED BY <3>1, RangeOne
    <2> QED BY <2>1, <2>2
  <1> HIDE DEF ids
  <1>10. PICK moving : moving = Range(ids)
    OBVIOUS
  <1>11. PICK rest \in Seq(Issue) : rest = Without(list, moving) /\ Range(rest) = Range(list) \ moving /\ Len(rest) \in Nat
    BY <1>8, WithoutIs, LenProperties
  <1>12. rest = Without(start[k], moving)
    <2>1. Without(Without(list, {a}), moving) = Without(list, {a} \cup moving)
      BY <1>8, WithoutTwice
    <2>2. Without(Without(start[k], {a}), moving) = Without(start[k], {a} \cup moving)
      BY <1>7, WithoutTwice
    <2>3. Without(list, {a}) = Without(start[k], {a})
      BY <1>3, <1>6, <1>8
    <2>4. {a} \cup moving = moving
      BY <1>9, <1>10
    <2> QED BY <1>11, <2>1, <2>2, <2>3, <2>4
  <1>13. /\ shown \in Seq(Issue) /\ IsInjective(shown) /\ a \in Range(shown)
         /\ Range(shown) \subseteq {a} \cup Range(rest)
    <2>1. PICK Y : Y = {a} \cup {x \in Range(list) \ Range(ids) : Shows(x)}
      OBVIOUS
    <2>2. shown = Only(list, Y)
      BY <2>1
    <2>3. Only(list, Y) \in Seq(Issue) /\ IsInjective(Only(list, Y)) /\ Range(Only(list, Y)) = Range(list) \cap Y
      BY <1>8, OnlyType, OnlyInjective, OnlyRange
    <2>4. a \in Range(list) /\ Y \subseteq {a} \cup Range(rest)
      BY <1>6, <1>8, <1>10, <1>11, <2>1
    <2> HIDE DEF shown
    <2> QED BY <2>1, <2>2, <2>3, <2>4
  <1> HIDE DEF shown
  <1>14. n \in 1..Len(shown) /\ shown[n] = a /\ Len(shown) \in Nat /\ DOMAIN shown = 1..Len(shown)
    BY <1>13, PositionIn, LenProperties
  <1> HIDE DEF n
  <1>15. above \in {None} \cup Range(rest) /\ below \in {None} \cup Range(rest)
    <2>1. \A i \in 1..Len(shown) : shown[i] \in Range(shown) /\ (i # n => shown[i] # a)
      BY <1>13, <1>14 DEF IsInjective, Range
    <2>2. n > 1 => n - 1 \in 1..Len(shown) /\ n - 1 # n
      BY <1>14
    <2>3. n < Len(shown) => n + 1 \in 1..Len(shown) /\ n + 1 # n
      BY <1>14
    <2> QED BY <1>13, <2>1, <2>2, <2>3
  <1> HIDE DEF above, below
  <1>16. after \in {None} \cup Range(rest)
    BY <1>15
  <1>17. PlaceOf(list, moving, shown, above, below, k) = PlaceAt(rest, k, above, after)
    BY <1>11 DEF PlaceOf, PlaceAt
  <1> HIDE DEF after
  <1>18. PICK at : at = PlaceAt(rest, k, above, after)
    OBVIOUS
  <1>19. at \in 0..Len(rest) /\ Placed(start, ids, k, above, after) = Inserted(start, ids, k, at)
    BY <1>6, <1>9, <1>10, <1>12, <1>15, <1>16, <1>18, PlacedIs
  <1>20. at \in Nat
    BY <1>11, <1>19
  <1>21. MoveLocally(start, ids, k, at) = Inserted(start, ids, k, at)
    <2>1. PICK m \in 0..Len(Without(start[k], Range(ids))) :
              /\ m = IF at < Len(Without(start[k], Range(ids))) THEN at ELSE Len(Without(start[k], Range(ids)))
              /\ MoveLocally(start, ids, k, at) = Inserted(start, ids, k, m)
      BY <1>6, <1>9, <1>20, LocalIs
    <2>2. m = at
      BY <1>10, <1>11, <1>12, <1>19, <2>1
    <2> QED BY <2>1, <2>2
  <1>22. plan.at = at /\ plan.before = above /\ plan.after = after /\ plan.ids = ids /\ plan.to = k
    BY <1>5, <1>10, <1>17, <1>18
  <1>23. above \in Issue \cup {None} /\ after \in Issue \cup {None}
    <2>1. Range(rest) \subseteq Issue
      BY <1>11, LenProperties, ElementOfSeq DEF Range
    <2> QED BY <1>15, <1>16, <2>1
  <1> QED BY <1>2, <1>6, <1>9, <1>19, <1>20, <1>21, <1>22, <1>23
-----------------------------------------------------------------------------
(* The requests of the backlog.                                            *)
IsSend(m) == (m \in MoveSend /\ IsInjective(m.ids)) \/ m \in FormSend

FormsOK ==
    /\ hides \in [filter : SUBSET Issue, collapsed : SUBSET Sprint]
    /\ ticked \subseteq Issue
    /\ dialog \in [kind : Kinds, sprint : Sprint, ver : Nat, busy : BOOLEAN] \cup {NoDialog}

LEMMA AnsweredIs ==
  ASSUME NEW m, IsSend(m), NEW how \in {"none", "ok", "lost", "failed"}, NEW r, r = [m EXCEPT !.answer = how]
  PROVE  IsSend(r) /\ r.gen = m.gen /\ r.kind = m.kind /\ r.answer = how
  <1>1. CASE m \in MoveSend /\ IsInjective(m.ids)
    <2>1. r \in MoveSend /\ r.ids = m.ids /\ r.gen = m.gen /\ r.kind = m.kind /\ r.answer = how
      BY <1>1 DEF MoveSend
    <2> QED BY <1>1, <2>1 DEF IsSend
  <1>2. CASE m \in FormSend
    <2>1. r \in FormSend /\ r.gen = m.gen /\ r.kind = m.kind /\ r.answer = how
      BY <1>2 DEF FormSend
    <2> QED BY <2>1 DEF IsSend
  <1> QED BY <1>1, <1>2 DEF IsSend

\* What a step does to the requests of the backlog.
SendStep ==
    \/ UNCHANGED sends
    \/ \E m : IsSend(m) /\ m.answer = "none" /\ m.gen = view.gen /\ m.kind \in Kinds \cup {"move"}
              /\ sends' = sends \cup {m}
    \/ \E m \in sends, how \in {"ok", "lost", "failed"} : m.answer = "none" /\ Answered(m, how)
    \/ sends' \subseteq sends

LEMMA TakenIs ==
  ASSUME NEW ids \in Seq(Issue), NEW s \in Taken(ids)
  PROVE  s \in Seq(Issue) /\ IsInjective(s) /\ (IsInjective(ids) => s = ids)
  <1>1. CASE IsInjective(ids)
    BY <1>1 DEF Taken
  <1>2. CASE ~IsInjective(ids)
    <2>1. PICK n : n = Cardinality(Range(ids))
      OBVIOUS
    <2>2. s \in [1..n -> Range(ids)] /\ IsInjective(s)
      BY <1>2, <2>1 DEF Taken
    <2>3. Range(ids) \subseteq Issue
      BY LenProperties, ElementOfSeq DEF Range
    <2>4. n \in Nat
      <3>1. ids \in [1..Len(ids) -> Issue] /\ Len(ids) \in Nat
        BY LenProperties
      <3>2. IsFiniteSet(1..Len(ids))
        BY <3>1, FS_Interval
      <3>3. ids \in Surjection(1..Len(ids), Range(ids))
        BY <3>1 DEF Surjection, Range
      <3>4. IsFiniteSet(Range(ids))
        BY <3>2, <3>3, FS_Surjection
      <3> QED BY <2>1, <3>4, FS_CardinalityType
    <2>5. s \in [1..n -> Issue]
      BY <2>2, <2>3
    <2> QED BY <1>2, <2>2, <2>4, <2>5, SeqDef
  <1> QED BY <1>1, <1>2

LEMMA SendingIs ==
  ASSUME LoadsOK, NEW ids \in Seq(Issue), NEW k \in List,
         NEW before \in Issue \cup {None}, NEW after \in Issue \cup {None}, NEW base, NEW result,
         mixed = TRUE \/ (IsInjective(ids) /\ Placed(base, ids, k, before, after) = result),
         Sending(ids, k, before, after, base, result)
  PROVE  \E m : /\ IsSend(m) /\ m.answer = "none" /\ m.gen = view.gen /\ m.kind = "move"
                /\ sends' = sends \cup {m}
  <1>1. PICK g \in Nat : g = view.gen
    BY LoadIs DEF LoadsOK
  <1>2. PICK s \in Taken(ids) :
            Send([kind |-> "move", ids |-> s, to |-> k, before |-> before, after |-> after,
                  gen |-> view.gen, answer |-> "none",
                  agrees |-> mixed \/ Placed(base, s, k, before, after) = result])
    BY Zenon DEF Sending
  <1>3. s \in Seq(Issue) /\ IsInjective(s) /\ (IsInjective(ids) => s = ids)
    BY <1>2, TakenIs
  <1>4. PICK same : same = (mixed \/ Placed(base, s, k, before, after) = result)
    OBVIOUS
  <1>5. same = TRUE
    BY <1>3, <1>4
  <1>6. PICK m : m = [kind |-> "move", ids |-> s, to |-> k, before |-> before, after |-> after,
                      gen |-> g, answer |-> "none", agrees |-> TRUE]
    OBVIOUS
  <1>7. m \in MoveSend /\ m.ids = s /\ m.answer = "none" /\ m.gen = g /\ m.kind = "move"
    BY <1>3, <1>6 DEF MoveSend
  <1>8. sends' = sends \cup {[kind |-> "move", ids |-> s, to |-> k, before |-> before, after |-> after,
                              gen |-> g, answer |-> "none", agrees |-> same]}
    BY <1>1, <1>2, <1>4, Zenon DEF Send
  <1>9. sends' = sends \cup {m}
    BY <1>5, <1>6, <1>8
  <1> QED BY <1>1, <1>3, <1>7, <1>9 DEF IsSend

LEMMA MoveToIs ==
  ASSUME LoadsOK, ListsOK, NEW i \in Issue, NEW k \in List, NEW where \in {"top", "bottom"}, MoveTo(i, k, where)
  PROVE  /\ \E m : /\ IsSend(m) /\ m.answer = "none" /\ m.gen = view.gen /\ m.kind = "move"
                   /\ sends' = sends \cup {m}
         /\ \E ids \in Seq(Issue) : /\ EachOnce(lists) => IsInjective(ids)
                                    /\ \E at \in Nat : lists' = MoveLocally(lists, ids, k, at)
         /\ drag = NoDrag /\ OnBacklog
  <1> DEFINE rest == Without(lists[k], Range(MovingFor(i)))
             first == IF rest = <<>> THEN None ELSE rest[1]
             last == IF rest = <<>> THEN None ELSE rest[Len(rest)]
             result == MoveLocally(lists, MovingFor(i), k, IF where = "top" THEN 0 ELSE Len(rest))
  <1>1. /\ drag = NoDrag /\ OnBacklog /\ lists' = result
        /\ Sending(MovingFor(i), k, IF where = "bottom" THEN last ELSE None,
                   IF where = "top" THEN first ELSE None, lists, result)
    BY Zenon DEF MoveTo, Idle
  <1>2. MovingFor(i) \in Seq(Issue) /\ (EachOnce(lists) => IsInjective(MovingFor(i)))
    BY MovingForIs DEF ListsOK
  <1>3. PICK ids \in Seq(Issue) : ids = MovingFor(i) /\ (EachOnce(lists) => IsInjective(ids))
    BY <1>2
  <1>4. /\ first \in Issue \cup {None} /\ last \in Issue \cup {None} /\ Len(rest) \in Nat
        /\ EachOnce(lists) => /\ Placed(lists, ids, k, None, first) = MoveLocally(lists, ids, k, 0)
                              /\ Placed(lists, ids, k, last, None) = MoveLocally(lists, ids, k, Len(rest))
    <2>1. rest = Without(lists[k], Range(ids))
      BY <1>3
    <2> HIDE DEF rest
    <2>2. first \in Issue \cup {None} /\ last \in Issue \cup {None} /\ Len(rest) \in Nat
      BY <2>1, EndsTyped DEF ListsOK
    <2>3. ASSUME EachOnce(lists)
          PROVE  /\ Placed(lists, ids, k, None, first) = MoveLocally(lists, ids, k, 0)
                 /\ Placed(lists, ids, k, last, None) = MoveLocally(lists, ids, k, Len(rest))
      BY <2>1, <2>3, EndsAre DEF ListsOK
    <2> QED BY <2>2, <2>3
  <1> HIDE DEF rest, first, last
  <1>5. PICK at \in Nat : at = IF where = "top" THEN 0 ELSE Len(rest)
    BY <1>4
  <1>6. PICK before \in Issue \cup {None} : before = IF where = "bottom" THEN last ELSE None
    BY <1>4
  <1>7. PICK after \in Issue \cup {None} : after = IF where = "top" THEN first ELSE None
    BY <1>4
  <1>8. PICK new : new = MoveLocally(lists, ids, k, at)
    OBVIOUS
  <1>9. result = new
    BY <1>3, <1>5, <1>8
  <1>10. EachOnce(lists) => IsInjective(ids) /\ Placed(lists, ids, k, before, after) = new
    <2>1. CASE where = "top"
      BY <1>3, <1>4, <1>5, <1>6, <1>7, <1>8, <2>1
    <2>2. CASE where = "bottom"
      BY <1>3, <1>4, <1>5, <1>6, <1>7, <1>8, <2>2
    <2> QED BY <2>1, <2>2
  <1> HIDE DEF result
  <1>11. Sending(ids, k, before, after, lists, new)
    BY <1>1, <1>3, <1>6, <1>7, <1>9
  <1>12. mixed = TRUE \/ (IsInjective(ids) /\ Placed(lists, ids, k, before, after) = new)
    BY <1>10 DEF ListsOK
  <1>13. \E m : /\ IsSend(m) /\ m.answer = "none" /\ m.gen = view.gen /\ m.kind = "move"
                /\ sends' = sends \cup {m}
    BY <1>11, <1>12, SendingIs
  <1> QED BY <1>1, <1>3, <1>8, <1>9, <1>13

LEMMA DropIs ==
  ASSUME LoadsOK, ListsOK, NEW over, Drop(over)
  PROVE  /\ drag # NoDrag /\ drag' = NoDrag
         /\ \/ lists' = Settled(TRUE) /\ mixed' = SettledMixed /\ UNCHANGED sends
            \/ /\ UNCHANGED mixed
               /\ \E m : /\ IsSend(m) /\ m.answer = "none" /\ m.gen = view.gen /\ m.kind = "move"
                         /\ sends' = sends \cup {m}
               /\ \E ids \in Seq(Issue), k \in List : IsInjective(ids) /\ \E at \in Nat : lists' = MoveLocally(drag.start, ids, k, at)
  <1> DEFINE plan == PlanDrop(drag.of, over)
  <1>1. /\ drag # NoDrag /\ drag' = NoDrag
        /\ IF plan.ids = <<>> THEN lists' = Settled(TRUE) /\ mixed' = SettledMixed /\ UNCHANGED sends
           ELSE /\ lists' = MoveLocally(drag.start, plan.ids, plan.to, plan.at) /\ mixed' = mixed
                /\ Sending(plan.ids, plan.to, plan.before, plan.after, drag.start,
                           MoveLocally(drag.start, plan.ids, plan.to, plan.at))
    BY Zenon DEF Drop
  <1>2. PICK p : p = plan
    OBVIOUS
  <1>3. CASE p.ids = <<>>
    BY <1>1, <1>2, <1>3
  <1>4. CASE p.ids # <<>>
    <2>1. /\ p.ids \in Seq(Issue) /\ IsInjective(p.ids) /\ p.to \in List /\ p.at \in Nat
          /\ p.before \in Issue \cup {None} /\ p.after \in Issue \cup {None}
          /\ Placed(drag.start, p.ids, p.to, p.before, p.after) = MoveLocally(drag.start, p.ids, p.to, p.at)
      BY <1>1, <1>2, <1>4, PlanIs
    <2>2. PICK new : new = MoveLocally(drag.start, p.ids, p.to, p.at)
      OBVIOUS
    <2>3. lists' = new /\ mixed' = mixed /\ Sending(p.ids, p.to, p.before, p.after, drag.start, new)
      BY <1>1, <1>2, <1>4, <2>2
    <2>4. \E m : /\ IsSend(m) /\ m.answer = "none" /\ m.gen = view.gen /\ m.kind = "move"
                 /\ sends' = sends \cup {m}
      BY <2>1, <2>2, <2>3, SendingIs
    <2> QED BY <1>1, <2>1, <2>2, <2>3, <2>4
  <1> QED BY <1>3, <1>4

LEMMA SubmitIs ==
  ASSUME LoadsOK, FormsOK, NEW to \in List, SubmitDialog(to)
  PROVE  \E m : IsSend(m) /\ m.answer = "none" /\ m.gen = view.gen /\ m.kind \in Kinds /\ sends' = sends \cup {m}
  <1>1. PICK g \in Nat : g = view.gen
    BY LoadIs DEF LoadsOK
  <1>2. dialog.kind \in Kinds /\ dialog.sprint \in Sprint /\ dialog.ver \in Nat
    BY DEF FormsOK, SubmitDialog
  <1>3. PICK m : m = [kind |-> dialog.kind, sprint |-> dialog.sprint, ver |-> dialog.ver, to |-> to,
                      gen |-> g, answer |-> "none", agrees |-> TRUE]
    OBVIOUS
  <1>4. m \in FormSend /\ m.answer = "none" /\ m.gen = g /\ m.kind \in Kinds
    BY <1>2, <1>3 DEF FormSend
  <1>5. sends' = sends \cup {m}
    BY <1>1, <1>3, Zenon DEF SubmitDialog, Send
  <1> QED BY <1>1, <1>4, <1>5 DEF IsSend

LEMMA SendSteps ==
  ASSUME LoadsOK, ListsOK, FormsOK, Next
  PROVE  SendStep
  <1>1. CASE BacklogGestures
    BY <1>1, GesturesAre DEF SendStep
  <1>2. CASE BacklogRequests
    <2>1. CASE \E i \in Issue, k \in List, w \in {"top", "bottom"} : Held(i) /\ MoveTo(i, k, w)
      BY <2>1, MoveToIs DEF SendStep
    <2>2. CASE \E i \in Issue : Drop(i)
      BY <2>2, DropIs DEF SendStep
    <2>3. CASE \E k \in List : SubmitDialog(k)
      BY <2>3, SubmitIs DEF SendStep
    <2> QED BY <1>2, <2>1, <2>2, <2>3 DEF BacklogRequests
  <1>3. CASE BacklogAnswers
    <2>1. PICK m \in sends : SendServed(m) \/ SendRefused(m) \/ SendOk(m) \/ SendFails(m)
      BY <1>3 DEF BacklogAnswers
    <2>2. CASE SendServed(m) \/ SendRefused(m)
      BY <2>2 DEF SendServed, SendRefused, SendStep
    <2>3. CASE SendOk(m) \/ SendFails(m)
      BY <2>3 DEF SendOk, SendFails, SendStep
    <2> QED BY <2>1, <2>2, <2>3
  <1>4. CASE UNCHANGED backlog
    BY <1>4 DEF backlog, SendStep
  <1>5. CASE \E t \in Tabs : Opens(t)
    BY <1>5 DEF Opens, Mounts, BacklogMounts, SendStep
  <1>6. CASE \E q \in fetches : FetchServed(q) \/ FetchArrives(q) \/ FetchFails(q)
    BY <1>6 DEF FetchServed, FetchArrives, FetchFails, SendStep, backlog
  <1> QED BY <1>1, <1>2, <1>3, <1>4, <1>5, <1>6, Parts

LEMMA SendsKeep ==
  ASSUME SendsOK, SendStep, view.gen \in Nat, view'.gen \in Nat, view'.gen >= view.gen
  PROVE  SendsOK'
  <1>1. \A m \in sends : IsSend(m) /\ m.gen \in Nat /\ m.gen <= view.gen
    BY DEF SendsOK, IsSend, MoveSend, FormSend
  <1>2. \A m \in sends : m.gen <= view'.gen
    BY <1>1
  <1>3. \A m \in sends' : IsSend(m) /\ m.gen <= view'.gen
    <2>1. CASE UNCHANGED sends
      BY <1>1, <1>2, <2>1
    <2>2. CASE \E m : IsSend(m) /\ m.answer = "none" /\ m.gen = view.gen /\ m.kind \in Kinds \cup {"move"}
                      /\ sends' = sends \cup {m}
      BY <1>1, <1>2, <2>2
    <2>3. CASE \E m \in sends, how \in {"ok", "lost", "failed"} : m.answer = "none" /\ Answered(m, how)
      <3>1. PICK m \in sends, how \in {"ok", "lost", "failed"} : m.answer = "none" /\ Answered(m, how)
        BY <2>3
      <3>2. PICK r : r = [m EXCEPT !.answer = how]
        OBVIOUS
      <3>3. IsSend(r) /\ r.gen = m.gen
        BY <1>1, <3>2, AnsweredIs
      <3> QED BY <1>1, <1>2, <3>1, <3>2, <3>3 DEF Answered
    <2>4. CASE sends' \subseteq sends
      BY <1>1, <1>2, <2>4
    <2> QED BY <2>1, <2>2, <2>3, <2>4 DEF SendStep
  <1> QED BY <1>3 DEF SendsOK, IsSend
-----------------------------------------------------------------------------
(* The lists on the page.                                                  *)
LEMMA LocalKeeps ==
  ASSUME NEW ls \in AllLists, NEW ids \in Seq(Issue), NEW k \in List, NEW at \in Nat
  PROVE  /\ MoveLocally(ls, ids, k, at) \in AllLists
         /\ EachOnce(ls) /\ IsInjective(ids) => EachOnce(MoveLocally(ls, ids, k, at))
  <1>1. PICK n \in 0..Len(Without(ls[k], Range(ids))) : MoveLocally(ls, ids, k, at) = Inserted(ls, ids, k, n)
    BY LocalIs
  <1>2. /\ Inserted(ls, ids, k, n) \in AllLists
        /\ EachOnce(ls) /\ IsInjective(ids) => EachOnce(Inserted(ls, ids, k, n))
    BY InsertedIs
  <1> QED BY <1>1, <1>2

\* Over another list the dragged issue changes its place, and no other does.
LEMMA OverIs ==
  ASSUME ListsOK, NEW k \in List, NEW over, DragOver(k, over)
  PROVE  ListsOK'
  <1>1. /\ drag # NoDrag /\ UNCHANGED <<drag, mixed>>
        /\ over # None => over \in Range(lists[k])
        /\ lists' = MoveLocally(lists, <<drag.of>>, k,
                                IF over = None THEN Len(lists[k]) ELSE Position(lists[k], over) - 1)
    BY DEF DragOver
  <1>2. PICK a \in Issue : a = drag.of
    BY <1>1 DEF ListsOK, IsDrag
  <1>3. PICK ids \in Seq(Issue) : ids = <<a>> /\ Range(ids) = {a} /\ IsInjective(ids)
    BY RangeOne
  <1>4. PICK s \in Seq(Issue) : s = lists[k]
    BY DEF ListsOK, AllLists
  <1>5. PICK at \in Nat : at = IF over = None THEN Len(s) ELSE Position(s, over) - 1
    <2>1. Len(s) \in Nat
      BY LenProperties
    <2>2. over # None => Position(s, over) \in 1..Len(s)
      BY <1>1, <1>4, PositionIn
    <2> QED BY <2>1, <2>2
  <1>6. lists' = MoveLocally(lists, ids, k, at)
    BY <1>1, <1>2, <1>3, <1>4, <1>5
  <1>7. PICK rest \in Seq(Issue) : rest = Without(s, {a})
    BY WithoutIs
  <1>8. PICK n \in 0..Len(rest) : MoveLocally(lists, ids, k, at) = Inserted(lists, ids, k, n)
    <2>1. \E n \in 0..Len(Without(lists[k], Range(ids))) : MoveLocally(lists, ids, k, at) = Inserted(lists, ids, k, n)
      BY LocalIs DEF ListsOK
    <2>2. Without(lists[k], Range(ids)) = rest
      BY <1>3, <1>4, <1>7
    <2> QED BY <2>1, <2>2
  <1>9. PICK new : new = Inserted(lists, ids, k, n)
    OBVIOUS
  <1>10. new[k] = Into(rest, n, ids) /\ \A l \in List \ {k} : new[l] = Without(lists[l], {a})
    BY <1>3, <1>4, <1>7, <1>9 DEF Inserted
  <1>11. new \in AllLists /\ EachOnce(new)
    <2>1. lists \in AllLists /\ EachOnce(lists)
      BY <1>1 DEF ListsOK
    <2> QED BY <1>3, <1>8, <1>9, <2>1, LocalKeeps
  <1>12. a \in Range(new[k])
    <2>1. Range(Into(rest, n, ids)) = Range(rest) \cup Range(ids)
      BY IntoIs
    <2> QED BY <1>3, <1>10, <2>1
  <1>13. \A l \in List : Without(new[l], {a}) = Without(lists[l], {a})
    <2>1. \A l \in List : lists[l] \in Seq(Issue)
      BY DEF ListsOK, AllLists
    <2>2. \A l \in List : Without(Without(lists[l], {a}), {a}) = Without(lists[l], {a} \cup {a})
      BY <2>1, WithoutTwice
    <2>3. {a} \cup {a} = {a}
      OBVIOUS
    <2>4. \A l \in List : Without(Without(lists[l], {a}), {a}) = Without(lists[l], {a})
      BY <2>2, <2>3
    <2>5. Without(Into(rest, n, ids), {a}) = Without(rest, {a})
      BY <1>3, WithoutInto
    <2>6. Without(new[k], {a}) = Without(lists[k], {a})
      BY <1>4, <1>7, <1>10, <2>4, <2>5
    <2> QED BY <1>10, <2>4, <2>6
  <1>14. lists' = new
    BY <1>6, <1>8, <1>9
  <1>15. IsDrag(drag, new)
    BY <1>1, <1>2, <1>12, <1>13 DEF ListsOK, IsDrag
  <1> QED BY <1>1, <1>11, <1>14, <1>15 DEF ListsOK

LEMMA StartIs ==
  ASSUME ListsOK, NEW i \in Issue, DragStart(i)
  PROVE  ListsOK'
  <1>1. PICK d : d = [of |-> i, start |-> lists, waiting |-> NoData, torn |-> FALSE]
    OBVIOUS
  <1>2. drag' = d /\ UNCHANGED <<lists, mixed>> /\ EachOnce(lists) /\ \E k \in List : i \in Range(lists[k])
    BY <1>1 DEF DragStart, Shows, Held
  <1>3. IsDrag(d, lists)
    BY <1>1, <1>2 DEF ListsOK, IsDrag
  <1> QED BY <1>2, <1>3 DEF ListsOK

LEMMA SettledIs ==
  ASSUME ListsOK, drag # NoDrag
  PROVE  Settled(TRUE) \in AllLists /\ SettledMixed \in BOOLEAN /\ (~SettledMixed => EachOnce(Settled(TRUE)))
  BY DEF Settled, SettledMixed, ListsOK, IsDrag

LEMMA TakesIs ==
  ASSUME ListsOK, NEW data, PlanOK(data), TakesPlanning(data)
  PROVE  ListsOK'
  <1>0. data.lists \in AllLists /\ data.torn \in BOOLEAN /\ (~data.torn => EachOnce(data.lists))
    BY DEF PlanOK, Plans
  <1>1. CASE drag = NoDrag
    BY <1>0, <1>1 DEF ListsOK, TakesPlanning, IsDrag
  <1>2. CASE drag # NoDrag
    <2>1. PICK new, t : new = data.lists /\ t = data.torn
      OBVIOUS
    <2>2. drag' = [drag EXCEPT !.waiting = new, !.torn = t] /\ UNCHANGED <<lists, mixed>>
      BY <1>2, <2>1 DEF TakesPlanning
    <2>3. PICK a, s, w, b : drag = [of |-> a, start |-> s, waiting |-> w, torn |-> b]
      BY <1>2 DEF ListsOK, IsDrag
    <2>4. PICK d : d = [of |-> a, start |-> s, waiting |-> new, torn |-> t]
      OBVIOUS
    <2>5. drag' = d
      <3>1. PICK c : c = drag
        OBVIOUS
      <3>2. drag' = [c EXCEPT !.waiting = new, !.torn = t]
        BY <2>2, <3>1
      <3>3. c \in [of : {a}, start : {s}, waiting : {w}, torn : {b}]
        BY <2>3, <3>1
      <3> DEFINE Those == [of : {a}, start : {s}, waiting : {new}, torn : {t}]
      <3>4. [c EXCEPT !.waiting = new, !.torn = t] \in Those
        BY <3>3
      <3>5. d \in Those
        BY <2>4
      <3>6. \A x, y \in Those : x = y
        OBVIOUS
      <3> QED BY <3>2, <3>4, <3>5, <3>6
    <2>6. IsDrag(d, lists)
      BY <1>0, <1>2, <2>1, <2>3, <2>4 DEF ListsOK, IsDrag
    <2> QED BY <1>2, <2>2, <2>5, <2>6 DEF ListsOK
  <1> QED BY <1>1, <1>2

LEMMA NoListsIs == NoLists \in AllLists /\ EachOnce(NoLists)
  <1>1. <<>> \in Seq(Issue) /\ IsInjective(<<>>)
    BY DEF IsInjective
  <1>2. NoLists \in AllLists /\ \A k \in List : NoLists[k] = <<>>
    BY <1>1 DEF NoLists, AllLists
  <1> QED BY <1>1, <1>2, RangeEmpty, OnceIs

LEMMA ListsKeep ==
  ASSUME LoadsOK, ListsOK, Next
  PROVE  ListsOK'
  <1>1. ASSUME lists' \in AllLists, mixed' \in BOOLEAN, ~mixed' => EachOnce(lists'), drag' = NoDrag
        PROVE  ListsOK'
    BY <1>1 DEF ListsOK, IsDrag
  <1>2. ASSUME UNCHANGED <<lists, mixed, drag>> PROVE ListsOK'
    BY <1>2 DEF ListsOK
  <1>3. CASE BacklogGestures
    <2>1. CASE \E X \in Filters : X # hides.filter /\ Filter(X)
      BY <1>2, <2>1 DEF Filter
    <2>2. CASE \E s \in Sprint : Collapse(s) \/ \E kind \in Kinds : OpenDialog(kind, s)
      BY <1>2, <2>2 DEF Collapse, OpenDialog
    <2>3. CASE \E i \in Issue : Tick(i)
      BY <1>2, <2>3 DEF Tick
    <2>4. CASE \E i \in Issue : DragStart(i)
      BY <2>4, StartIs
    <2>5. CASE \E k \in List, i \in Issue \cup {None} : DragOver(k, i)
      BY <2>5, OverIs
    <2>6. CASE ClearTicks \/ CloseDialog
      BY <1>2, <2>6 DEF ClearTicks, CloseDialog
    <2>7. CASE DragCancel
      BY <1>1, <2>7, SettledIs DEF DragCancel
    <2> QED BY <1>3, <2>1, <2>2, <2>3, <2>4, <2>5, <2>6, <2>7 DEF BacklogGestures
  <1>4. CASE BacklogRequests
    <2>1. CASE \E i \in Issue, k \in List, w \in {"top", "bottom"} : Held(i) /\ MoveTo(i, k, w)
      <3>1. PICK i \in Issue, k \in List, w \in {"top", "bottom"} : MoveTo(i, k, w)
        BY <2>1
      <3>2. drag = NoDrag /\ UNCHANGED <<drag, mixed>>
        BY <3>1, MoveToIs DEF MoveTo
      <3>3. PICK ids \in Seq(Issue), at \in Nat :
                (EachOnce(lists) => IsInjective(ids)) /\ lists' = MoveLocally(lists, ids, k, at)
        BY <3>1, MoveToIs
      <3>4. lists \in AllLists /\ mixed \in BOOLEAN /\ (~mixed => EachOnce(lists))
        BY DEF ListsOK
      <3>5. lists' \in AllLists /\ (~mixed => EachOnce(lists'))
        BY <3>3, <3>4, LocalKeeps
      <3> QED BY <1>1, <3>2, <3>4, <3>5
    <2>2. CASE \E i \in Issue : Drop(i)
      <3>1. PICK i \in Issue : Drop(i)
        BY <2>2
      <3>2. drag # NoDrag /\ drag' = NoDrag
        BY <3>1, DropIs
      <3>3. CASE lists' = Settled(TRUE) /\ mixed' = SettledMixed
        BY <1>1, <3>2, <3>3, SettledIs
      <3>4. CASE UNCHANGED mixed /\ \E ids \in Seq(Issue), k \in List : IsInjective(ids) /\ \E at \in Nat : lists' = MoveLocally(drag.start, ids, k, at)
        <4>1. PICK ids \in Seq(Issue), k \in List, at \in Nat : IsInjective(ids) /\ lists' = MoveLocally(drag.start, ids, k, at)
          BY <3>4
        <4>2. drag.start \in AllLists /\ EachOnce(drag.start) /\ mixed \in BOOLEAN
          BY <3>2 DEF ListsOK, IsDrag
        <4> QED BY <1>1, <3>2, <3>4, <4>1, <4>2, LocalKeeps
      <3> QED BY <3>1, <3>3, <3>4, DropIs
    <2>3. CASE \E k \in List : SubmitDialog(k)
      BY <1>2, <2>3 DEF SubmitDialog
    <2> QED BY <1>4, <2>1, <2>2, <2>3 DEF BacklogRequests
  <1>5. CASE BacklogAnswers
    BY <1>2, <1>5 DEF BacklogAnswers, SendServed, SendRefused, SendOk, SendFails
  <1>6. CASE UNCHANGED backlog
    BY <1>2, <1>6 DEF backlog
  <1>7. CASE \E t \in Tabs : Opens(t)
    BY <1>1, <1>7, NoListsIs DEF Opens, Mounts, BacklogMounts
  <1>8. CASE \E q \in fetches : FetchServed(q) \/ FetchFails(q)
    BY <1>2, <1>8 DEF FetchServed, FetchFails, backlog
  <1>9. CASE \E q \in fetches : FetchArrives(q)
    <2>1. PICK q \in fetches : FetchArrives(q)
      BY <1>9
    <2>2. CASE Latest(view, q) /\ tab = "backlog"
      <3>1. q.got # NoData /\ TakesPlanning(q.got)
        BY <2>1, <2>2 DEF FetchArrives, Served
      <3>2. q.for[1] = "backlog" /\ GotOK(q.for, q.got)
        BY <2>2, FetchIs DEF LoadsOK
      <3>3. PlanOK(q.got)
        BY <3>1, <3>2 DEF GotOK
      <3> QED BY <3>1, <3>3, TakesIs
    <2>3. CASE ~(Latest(view, q) /\ tab = "backlog")
      <3>1. UNCHANGED <<lists, mixed, drag>>
        BY <2>1, <2>3 DEF FetchArrives, backlog
      <3> QED BY <1>2, <3>1
    <2> QED BY <2>2, <2>3
  <1> QED BY <1>3, <1>4, <1>5, <1>6, <1>7, <1>8, <1>9, Parts

-----------------------------------------------------------------------------
(* The other state of the backlog.                                         *)
LEMMA FormsKeep ==
  ASSUME LoadsOK, FormsOK, SendsOK, Next
  PROVE  FormsOK'
  <1>1. ASSUME UNCHANGED <<hides, ticked, dialog>> PROVE FormsOK'
    BY <1>1 DEF FormsOK
  <1>2. CASE BacklogGestures
    <2>1. CASE \E X \in Filters : X # hides.filter /\ Filter(X)
      BY <2>1, FiltersAssumption DEF Filter, FormsOK
    <2>2. CASE \E s \in Sprint : Collapse(s)
      <3>1. PICK s \in Sprint : Collapse(s)
        BY <2>2
      <3>2. SymDiff(hides.collapsed, {s}) \in SUBSET Sprint
        BY DEF SymDiff, FormsOK
      <3> QED BY <3>1, <3>2 DEF Collapse, FormsOK
    <2>3. CASE \E s \in Sprint, kind \in Kinds : OpenDialog(kind, s)
      <3>1. PICK s \in Sprint, kind \in Kinds : OpenDialog(kind, s)
        BY <2>3
      <3>2. tab = "backlog" /\ view.data # NoData
        BY <3>1 DEF OpenDialog, OnBacklog, Handed
      <3>3. GotOK(view.for, view.data) /\ view.for[1] = "backlog"
        BY <3>2, LoadIs DEF LoadsOK
      <3>4. view.data.sprints \in SprintsOK
        BY <3>2, <3>3 DEF GotOK, PlanOK, Plans
      <3>5. PICK g \in Nat : g = view.data.sprints[s].ver
        BY <3>4 DEF SprintsOK
      <3>6. PICK b \in BOOLEAN : b = (kind # "delete" /\ \E m \in sends : m.kind = kind /\ Mine(m))
        OBVIOUS
      <3>7. dialog' = [kind |-> kind, sprint |-> s, ver |-> g, busy |-> b]
        BY <3>1, <3>5, <3>6, Zenon DEF OpenDialog
      <3>8. UNCHANGED <<hides, ticked>>
        BY <3>1 DEF OpenDialog
      <3> QED BY <3>7, <3>8 DEF FormsOK
    <2>4. CASE \E i \in Issue : Tick(i)
      BY <2>4 DEF Tick, SymDiff, FormsOK
    <2>5. CASE \E i \in Issue : DragStart(i)
      BY <1>1, <2>5 DEF DragStart
    <2>6. CASE \E k \in List, i \in Issue \cup {None} : DragOver(k, i)
      BY <1>1, <2>6 DEF DragOver
    <2>7. CASE ClearTicks \/ CloseDialog
      BY <2>7 DEF ClearTicks, CloseDialog, FormsOK
    <2>8. CASE DragCancel
      BY <1>1, <2>8 DEF DragCancel
    <2> QED BY <1>2, <2>1, <2>2, <2>3, <2>4, <2>5, <2>6, <2>7, <2>8 DEF BacklogGestures
  <1>3. CASE BacklogRequests
    <2>1. CASE \E i \in Issue, k \in List, w \in {"top", "bottom"} : Held(i) /\ MoveTo(i, k, w)
      BY <1>1, <2>1 DEF MoveTo
    <2>2. CASE \E i \in Issue : Drop(i)
      BY <1>1, <2>2 DEF Drop
    <2>3. CASE \E k \in List : SubmitDialog(k)
      <3>1. /\ UNCHANGED <<hides, ticked>> /\ dialog # NoDialog
            /\ dialog' = NoDialog \/ dialog' = [dialog EXCEPT !.busy = TRUE]
        BY <2>3 DEF SubmitDialog
      <3> QED BY <3>1 DEF FormsOK
    <2> QED BY <1>3, <2>1, <2>2, <2>3 DEF BacklogRequests
  <1>4. CASE BacklogAnswers
    <2>1. PICK m \in sends : SendServed(m) \/ SendRefused(m) \/ SendOk(m) \/ SendFails(m)
      BY <1>4 DEF BacklogAnswers
    <2>2. CASE SendServed(m) \/ SendRefused(m)
      BY <1>1, <2>2 DEF SendServed, SendRefused
    <2>3. CASE SendOk(m)
      BY <2>3 DEF SendOk, FormsOK
    <2>4. CASE SendFails(m)
      <3>1. /\ UNCHANGED <<hides, ticked>>
            /\ dialog' = dialog \/ (dialog.kind = m.kind /\ dialog' = [dialog EXCEPT !.busy = FALSE])
        BY <2>4 DEF SendFails
      <3>2. m.kind # "none"
        BY DEF SendsOK, MoveSend, FormSend, Kinds
      <3> QED BY <3>1, <3>2 DEF FormsOK, NoDialog
    <2> QED BY <2>1, <2>2, <2>3, <2>4
  <1>5. CASE UNCHANGED backlog
    BY <1>1, <1>5 DEF backlog
  <1>6. CASE \E t \in Tabs : Opens(t)
    BY <1>6 DEF Opens, Mounts, BacklogMounts, FormsOK
  <1>7. CASE \E q \in fetches : FetchServed(q) \/ FetchArrives(q) \/ FetchFails(q)
    BY <1>1, <1>7 DEF FetchServed, FetchArrives, FetchFails, backlog
  <1> QED BY <1>2, <1>3, <1>4, <1>5, <1>6, <1>7, Parts
-----------------------------------------------------------------------------
(* The requests of the board.                                              *)

\* The same move, with another answer; one that is answered stays as it is.
Like(m, n) ==
    /\ n \in CardSend
    /\ n.kind = m.kind /\ n.card = m.card /\ n.from = m.from /\ n.to = m.to /\ n.gen = m.gen
    /\ m.answer \in {"ok", "lost"} => n = m

\* Requests change their answers only.
LikeStep == \E f \in [moves -> CardSend] : moves' = {f[m] : m \in moves} /\ \A m \in moves : Like(m, f[m])

\* What a step does to the requests of the board.
CardStep ==
    \/ UNCHANGED moves
    \/ \E m \in CardSend : m.answer = "none" /\ m.gen = view.gen /\ moves' = moves \cup {m}
    \/ LikeStep
    \/ \E m \in moves : moves' = moves \ {m}

LEMMA LikeIs ==
  ASSUME NEW m \in CardSend, NEW how \in {"none", "ok", "lost", "failed", "asked"}, NEW r,
         r = [m EXCEPT !.answer = how] \/ r = [m EXCEPT !.answer = "none", !.ack = TRUE],
         m.answer \notin {"ok", "lost"}
  PROVE  Like(m, r)
  <1>1. r \in CardSend /\ r.kind = m.kind /\ r.card = m.card /\ r.from = m.from /\ r.to = m.to /\ r.gen = m.gen
    BY DEF CardSend
  <1> QED BY <1>1 DEF Like

(* One move replaced by one like it.                                       *)
LEMMA OneIs ==
  ASSUME CardSendsOK, NEW m \in moves, NEW r, Like(m, r), moves' = (moves \ {m}) \cup {r}
  PROVE  LikeStep
  <1>1. PICK f : f = [x \in moves |-> IF x = m THEN r ELSE x]
    OBVIOUS
  <1>2. \A x \in moves : x \in CardSend /\ Like(x, x)
    BY DEF CardSendsOK, Like
  <1>3. f \in [moves -> CardSend] /\ \A x \in moves : Like(x, f[x])
    BY <1>1, <1>2 DEF Like
  <1>4. moves' = {f[x] : x \in moves}
    BY <1>1
  <1> QED BY <1>3, <1>4 DEF LikeStep

LEMMA OverLimitIs ==
  ASSUME CardSendsOK, NEW m \in moves, MoveOverLimit(m)
  PROVE  LikeStep
  <1>1. PICK f : f = [x \in moves |-> IF x = m THEN [x EXCEPT !.answer = "asked"]
                                      ELSE IF x.answer = "asked" THEN [x EXCEPT !.answer = "failed"] ELSE x]
    OBVIOUS
  <1>2. m.answer = "none" /\ moves' = {f[x] : x \in moves}
    BY <1>1 DEF MoveOverLimit
  <1>3. ASSUME NEW x \in moves PROVE Like(x, f[x])
    <2>1. x \in CardSend
      BY DEF CardSendsOK
    <2>2. CASE x = m
      BY <1>1, <1>2, <2>1, <2>2, LikeIs
    <2>3. CASE x # m /\ x.answer = "asked"
      BY <1>1, <2>1, <2>3, LikeIs
    <2>4. CASE x # m /\ x.answer # "asked"
      BY <1>1, <2>1, <2>4 DEF Like
    <2> QED BY <2>2, <2>3, <2>4
  <1>4. f \in [moves -> CardSend]
    BY <1>1, <1>3 DEF Like
  <1> QED BY <1>2, <1>3, <1>4 DEF LikeStep

LEMMA LikeSteps ==
  ASSUME CardSendsOK, NEW m \in moves,
         MoveAnyway(m) \/ NotAnyway(m) \/ MoveServed(m) \/ MoveRefused(m) \/ MoveOverLimit(m)
  PROVE  LikeStep
  <1>1. m \in CardSend
    BY DEF CardSendsOK
  <1>2. CASE MoveAnyway(m) \/ NotAnyway(m)
    <2>1. PICK r : r = IF MoveAnyway(m) THEN [m EXCEPT !.answer = "none", !.ack = TRUE] ELSE [m EXCEPT !.answer = "failed"]
      OBVIOUS
    <2>2. m.answer = "asked" /\ moves' = (moves \ {m}) \cup {r}
      BY <1>2, <2>1 DEF MoveAnyway, NotAnyway, MoveAnswered
    <2>3. Like(m, r)
      BY <1>1, <2>1, <2>2, LikeIs
    <2> QED BY <2>2, <2>3, OneIs
  <1>3. CASE MoveServed(m) \/ MoveRefused(m)
    <2>1. PICK how \in {"ok", "lost", "failed"} : m.answer = "none" /\ MoveAnswered(m, how)
      BY <1>3 DEF MoveServed, MoveRefused
    <2>2. PICK r : r = [m EXCEPT !.answer = how]
      OBVIOUS
    <2>3. Like(m, r)
      BY <1>1, <2>1, <2>2, LikeIs
    <2> QED BY <2>1, <2>2, <2>3, OneIs DEF MoveAnswered
  <1>4. CASE MoveOverLimit(m)
    BY <1>4, OverLimitIs
  <1> QED BY <1>2, <1>3, <1>4

BoardShown ==
    tab = "board" => /\ view.key = <<"board", chosen>>
                     /\ IF view.data = NoData THEN DOMAIN cards = {} ELSE DOMAIN cards \subseteq DOMAIN view.data.cards

BoardOK ==
    /\ chosen \in Sprint \cup {None}
    /\ IsCards(cards) /\ again \subseteq Issue
    /\ BoardShown

LEMMA CardsAre ==
  ASSUME NEW c, IsCards(c)
  PROVE  /\ DOMAIN c \subseteq Issue /\ c \in [DOMAIN c -> Card]
         /\ \A i \in DOMAIN c : c[i] \in Card /\ c[i].is \in Status /\ c[i].ver \in Nat
  BY DEF IsCards, Card

\* A move that is made, or a flag.
LEMMA MovedIs ==
  ASSUME LoadsOK, BoardOK, NEW i \in Issue, NEW to \in Status, MoveCard(i, to)
  PROVE  /\ \E m \in CardSend : /\ m.answer = "none" /\ m.gen = view.gen /\ moves' = moves \cup {m}
                                /\ m.kind = "move" /\ m.card = i /\ m.from = cards[i].is /\ m.to = to
         /\ IsCards(cards') /\ DOMAIN cards' = DOMAIN cards /\ i \in DOMAIN cards
         /\ cards'[i].is = to /\ \A j \in DOMAIN cards \ {i} : cards'[j] = cards[j]
  <1>1. PICK g \in Nat : g = view.gen
    BY LoadIs DEF LoadsOK
  <1>2. i \in DOMAIN cards /\ cards[i] \in Card /\ cards[i].is \in Status /\ cards[i].ver \in Nat /\ cards \in [DOMAIN cards -> Card]
    BY CardsAre DEF BoardOK, MoveCard
  <1>3. PICK m : m = [kind |-> "move", card |-> i, from |-> cards[i].is, to |-> to,
                      ver |-> cards[i].ver, ack |-> FALSE, answer |-> "none", gen |-> g]
    OBVIOUS
  <1>4. moves' = moves \cup {m}
    BY <1>1, <1>3 DEF MoveCard
  <1>5. m \in CardSend
    BY <1>2, <1>3 DEF CardSend
  <1>6. cards' = [cards EXCEPT ![i].is = to]
    BY DEF MoveCard
  <1>7. cards' \in [DOMAIN cards -> Card] /\ cards'[i].is = to /\ \A j \in DOMAIN cards \ {i} : cards'[j] = cards[j]
    BY <1>2, <1>6 DEF Card
  <1>8. DOMAIN cards \in SUBSET Issue
    BY CardsAre DEF BoardOK
  <1> QED BY <1>1, <1>2, <1>3, <1>4, <1>5, <1>7, <1>8 DEF IsCards

LEMMA FlagIs ==
  ASSUME LoadsOK, BoardOK, NEW i \in Issue, Flag(i)
  PROVE  \E m \in CardSend : m.answer = "none" /\ m.gen = view.gen /\ m.kind = "flag" /\ moves' = moves \cup {m}
  <1>1. PICK g \in Nat : g = view.gen
    BY LoadIs DEF LoadsOK
  <1>2. i \in DOMAIN cards /\ cards[i].is \in Status /\ cards[i].ver \in Nat
    BY CardsAre DEF BoardOK, Flag
  <1>3. PICK m : m = [kind |-> "flag", card |-> i, from |-> cards[i].is, to |-> cards[i].is,
                      ver |-> cards[i].ver, ack |-> TRUE, answer |-> "none", gen |-> g]
    OBVIOUS
  <1>4. moves' = moves \cup {m}
    BY <1>1, <1>3 DEF Flag
  <1>5. m \in CardSend
    BY <1>2, <1>3 DEF CardSend
  <1> QED BY <1>1, <1>3, <1>4, <1>5

LEMMA RevertedIs ==
  ASSUME IsCards(cards), NEW m \in CardSend, NEW c, c = Reverted(m)
  PROVE  /\ IsCards(c) /\ DOMAIN c = DOMAIN cards
         /\ \A i \in DOMAIN cards : c[i].is = IF i = m.card /\ cards[i].is = m.to THEN m.from ELSE cards[i].is
  <1>1. m.from \in Status
    BY DEF CardSend
  <1>2. \A i \in DOMAIN cards : [cards[i] EXCEPT !.is = m.from] \in Card /\ [cards[i] EXCEPT !.is = m.from].is = m.from
    BY <1>1, CardsAre DEF Card
  <1>3. /\ DOMAIN c = DOMAIN cards
        /\ \A i \in DOMAIN cards : c[i] = IF i = m.card /\ cards[i].is = m.to THEN [cards[i] EXCEPT !.is = m.from] ELSE cards[i]
        /\ c = [i \in DOMAIN cards |-> c[i]]
    BY DEF Reverted
  <1>4. \A i \in DOMAIN cards : c[i] \in Card
    BY <1>2, <1>3, CardsAre
  <1>5. DOMAIN cards \in SUBSET Issue
    BY CardsAre
  <1>6. c \in [DOMAIN cards -> Card]
    BY <1>3, <1>4
  <1> QED BY <1>2, <1>3, <1>5, <1>6 DEF IsCards

LEMMA CardSteps ==
  ASSUME LoadsOK, BoardOK, CardSendsOK, Next
  PROVE  CardStep
  <1>1. CASE UNCHANGED board
    BY <1>1 DEF board, CardStep
  <1>2. CASE BoardReplies
    <2>1. CASE \E m \in moves : MoveAnyway(m) \/ NotAnyway(m)
      BY <2>1, LikeSteps DEF CardStep
    <2>2. CASE \E i \in Issue, to \in Status : OthersMove(i, to)
      BY <2>2 DEF OthersMove, CardStep
    <2> QED BY <1>2, <2>1, <2>2 DEF BoardReplies
  <1>3. CASE BoardRequests
    <2>1. CASE \E s \in Sprint : ChooseSprint(s)
      BY <2>1 DEF ChooseSprint, CardStep
    <2>2. CASE \E i \in Issue : Flag(i)
      BY <2>2, FlagIs DEF CardStep
    <2>3. CASE \E i \in Issue, to \in Status : MoveCard(i, to)
      BY <2>3, MovedIs DEF CardStep
    <2> QED BY <1>3, <2>1, <2>2, <2>3 DEF BoardRequests
  <1>4. CASE BoardAnswers
    <2>1. PICK m \in moves : MoveServed(m) \/ MoveRefused(m) \/ MoveOverLimit(m) \/ MoveOk(m) \/ MoveFails(m)
      BY <1>4 DEF BoardAnswers
    <2>2. CASE MoveServed(m) \/ MoveRefused(m) \/ MoveOverLimit(m)
      BY <2>2, LikeSteps DEF CardStep
    <2>3. CASE MoveOk(m) \/ MoveFails(m)
      BY <2>3 DEF MoveOk, MoveFails, CardStep
    <2> QED BY <2>1, <2>2, <2>3
  <1>5. CASE \E t \in Tabs : Opens(t)
    BY <1>5 DEF Opens, Mounts, BoardMounts, CardStep
  <1>6. CASE \E q \in fetches : FetchServed(q) \/ FetchArrives(q) \/ FetchFails(q)
    BY <1>6 DEF FetchServed, FetchArrives, FetchFails, CardStep, board
  <1> QED BY <1>1, <1>2, <1>3, <1>4, <1>5, <1>6, Parts

LEMMA CardSendsKeep ==
  ASSUME CardSendsOK, CardStep, view.gen \in Nat, view'.gen \in Nat, view'.gen >= view.gen
  PROVE  CardSendsOK'
  <1>1. \A m \in moves : m \in CardSend /\ m.gen \in Nat /\ m.gen <= view.gen /\ m.gen <= view'.gen
    BY DEF CardSendsOK, CardSend
  <1>2. CASE UNCHANGED moves
    BY <1>1, <1>2 DEF CardSendsOK
  <1>3. CASE \E m \in CardSend : m.answer = "none" /\ m.gen = view.gen /\ moves' = moves \cup {m}
    BY <1>1, <1>3 DEF CardSendsOK
  <1>4. CASE LikeStep
    BY <1>1, <1>4 DEF CardSendsOK, Like, LikeStep
  <1>5. CASE \E m \in moves : moves' = moves \ {m}
    BY <1>1, <1>5 DEF CardSendsOK
  <1> QED BY <1>2, <1>3, <1>4, <1>5 DEF CardStep
LEMMA ReloadIs ==
  ASSUME LoadsOK, UNCHANGED view \/ Reload(view)
  PROVE  view'.key = view.key /\ view'.data = view.data /\ view'.for = view.for /\ view'.mount = view.mount
  <1>1. CASE UNCHANGED view
    BY <1>1
  <1>2. CASE Reload(view)
    <2>1. view' = Asks(view) /\ IsLoad(view)
      BY <1>2 DEF Reload, LoadsOK
    <2> QED BY <2>1, AsksIs
  <1> QED BY <1>1, <1>2

(* Another sprint is chosen.                                               *)
LEMMA ChosenIs ==
  ASSUME LoadsOK, NEW s \in Sprint, ChooseSprint(s)
  PROVE  view'.key = <<"board", s>> /\ view'.data = view.data /\ view'.mount = view.mount /\ tab = "board"
  <1>1. tab = "board" /\ IsLoad(view) /\ view.key[1] = tab
    BY DEF ChooseSprint, OnBoard, LoadsOK
  <1>2. PICK k \in Keys : k = <<"board", s>> /\ k[1] = "board"
    BY BoardKey
  <1>3. PICK w : w = [view EXCEPT !.key = k]
    OBVIOUS
  <1>4. IsLoad(w) /\ w.key = k /\ w.data = view.data /\ w.mount = view.mount
    BY <1>1, <1>2, <1>3, RekeyIs
  <1>5. view' = Asks(w)
    BY <1>2, <1>3 DEF ChooseSprint, Reload
  <1> QED BY <1>1, <1>2, <1>4, <1>5, AsksIs

LEMMA NoCardsIs == IsCards(NoCards) /\ DOMAIN NoCards = {}
  <1>1. DOMAIN NoCards = {} /\ NoCards \in [{} -> Card] /\ {} \in SUBSET Issue
    BY DEF NoCards
  <1> QED BY <1>1 DEF IsCards

(* What the latest answer brings the board.                                *)
LEMMA BroughtIs ==
  ASSUME LoadsOK, NEW q \in fetches, FetchArrives(q), Latest(view, q)
  PROVE  /\ q.got # NoData /\ GotOK(q.for, q.got) /\ q.for = view.key
         /\ view'.key = view.key /\ view'.mount = view.mount /\ view'.data = q.got /\ view'.for = q.for
         /\ view'.gen = view.gen
  <1>1. IsFetch(q) /\ q.for = view.key /\ IsLoad(view) /\ view' = Arrived(view, q) /\ q.got # NoData
    BY DEF LoadsOK, FetchArrives, Served
  <1> QED BY <1>1, ArrivedIs, FetchIs

LEMMA BoardKeeps ==
  ASSUME LoadsOK, BoardOK, CardSendsOK, Next
  PROVE  BoardOK'
  <1>1. ASSUME UNCHANGED <<tab, chosen>>, UNCHANGED view \/ Reload(view), IsCards(cards'), again' \subseteq Issue,
               DOMAIN cards' = DOMAIN cards
        PROVE  BoardOK'
    BY <1>1, ReloadIs DEF BoardOK, BoardShown
  <1>2. ASSUME UNCHANGED <<tab, board>>, UNCHANGED view \/ Reload(view) PROVE BoardOK'
    <2>1. UNCHANGED <<tab, chosen>> /\ IsCards(cards') /\ again' \subseteq Issue /\ DOMAIN cards' = DOMAIN cards
      BY <1>2 DEF board, BoardOK
    <2> QED BY <1>1, <1>2, <2>1
  <1>3. CASE (BacklogGestures \/ BacklogRequests \/ BacklogAnswers) /\ UNCHANGED board
    <2>1. CASE BacklogGestures \/ BacklogRequests
      BY <1>2, <1>3, <2>1, GesturesAre, RequestsAre DEF page
    <2>2. CASE BacklogAnswers
      BY <1>2, <1>3, <2>2 DEF BacklogAnswers, SendServed, SendRefused, SendOk, SendFails, page
    <2> QED BY <1>3, <2>1, <2>2
  <1>4. CASE BoardReplies
    <2>1. UNCHANGED <<tab, view, chosen, cards, again>>
      BY <1>4 DEF BoardReplies, MoveAnyway, NotAnyway, OthersMove, page
    <2> QED BY <1>1, <2>1 DEF BoardOK
  <1>5. CASE BoardRequests
    <2>1. CASE \E s \in Sprint : ChooseSprint(s)
      <3>1. PICK s \in Sprint : ChooseSprint(s)
        BY <2>1
      <3>2. chosen' = s /\ cards' = NoCards /\ UNCHANGED <<tab, again>>
        BY <3>1 DEF ChooseSprint
      <3>3. DOMAIN cards' = {} /\ IsCards(cards')
        BY <3>2, NoCardsIs
      <3>4. view'.key = <<"board", chosen'>>
        BY <3>1, <3>2, ChosenIs
      <3> QED BY <3>2, <3>3, <3>4 DEF BoardOK, BoardShown
    <2>2. CASE \E i \in Issue : Flag(i)
      <3>1. UNCHANGED <<tab, view, chosen, cards, again>>
        BY <2>2 DEF Flag, page
      <3> QED BY <1>1, <3>1 DEF BoardOK
    <2>3. CASE \E i \in Issue, to \in Status : MoveCard(i, to)
      <3>1. PICK i \in Issue, to \in Status : MoveCard(i, to)
        BY <2>3
      <3>2. UNCHANGED <<tab, view, chosen>> /\ again' \subseteq Issue
        BY <3>1 DEF MoveCard, page, BoardOK
      <3>3. IsCards(cards') /\ DOMAIN cards' = DOMAIN cards
        BY <3>1, MovedIs
      <3> QED BY <1>1, <3>2, <3>3
    <2> QED BY <1>5, <2>1, <2>2, <2>3 DEF BoardRequests
  <1>6. CASE BoardAnswers
    <2>1. PICK m \in moves : MoveServed(m) \/ MoveRefused(m) \/ MoveOverLimit(m) \/ MoveOk(m) \/ MoveFails(m)
      BY <1>6 DEF BoardAnswers
    <2>2. CASE MoveServed(m) \/ MoveRefused(m) \/ MoveOverLimit(m)
      <3>1. UNCHANGED <<tab, view, chosen, cards, again>>
        BY <2>2 DEF MoveServed, MoveRefused, MoveOverLimit, page
      <3> QED BY <1>1, <3>1 DEF BoardOK
    <2>3. CASE MoveOk(m)
      <3>1. UNCHANGED <<tab, chosen, cards, again>> /\ Reload(view)
        BY <2>3 DEF MoveOk
      <3> QED BY <1>1, <3>1 DEF BoardOK
    <2>4. CASE MoveFails(m)
      <3>1. m \in CardSend /\ IsCards(cards)
        BY DEF CardSendsOK, BoardOK
      <3>2. IsCards(Reverted(m)) /\ DOMAIN Reverted(m) = DOMAIN cards
        BY <3>1, RevertedIs
      <3>3. Brought(m) \subseteq Issue
        BY <3>1 DEF Brought, CardSend
      <3>4. UNCHANGED <<tab, view, chosen>>
        BY <2>4 DEF MoveFails
      <3>5. IsCards(cards') /\ again' \subseteq Issue /\ DOMAIN cards' = DOMAIN cards
        BY <2>4, <3>1, <3>2, <3>3 DEF MoveFails, BoardOK
      <3> QED BY <1>1, <3>4, <3>5
    <2> QED BY <2>1, <2>2, <2>3, <2>4
  <1>7. CASE \E t \in Tabs : Opens(t)
    <2>1. PICK t \in Tabs : Opens(t)
      BY <1>7
    <2>2. PICK g \in Nat : g = view.gen + 1
      BY LoadIs DEF LoadsOK
    <2>3. PICK k \in Keys : k = <<t, None>>
      BY TabKey
    <2>4. view' = LoadOf(k, g) /\ tab' = t /\ chosen' = None /\ cards' = NoCards /\ again' = {}
      BY <2>1, <2>2, <2>3 DEF Opens, Mounts, BoardMounts
    <2>5. view'.key = k /\ view'.data = NoData
      BY <2>4, NewLoad
    <2> QED BY <2>3, <2>4, <2>5, NoCardsIs DEF BoardOK, BoardShown
  <1>8. CASE \E q \in fetches : FetchServed(q) \/ FetchFails(q)
    BY <1>2, <1>8 DEF FetchServed, FetchFails
  <1>9. CASE \E q \in fetches : FetchArrives(q)
    <2>1. PICK q \in fetches : FetchArrives(q)
      BY <1>9
    <2>2. CASE ~Latest(view, q)
      <3>1. UNCHANGED <<tab, board, view>>
        BY <2>1, <2>2 DEF FetchArrives, Arrived
      <3> QED BY <1>2, <3>1
    <2>3. CASE Latest(view, q) /\ tab = "backlog"
      <3>1. UNCHANGED <<tab, chosen, cards, again>>
        BY <2>1, <2>3 DEF FetchArrives, board
      <3> QED BY <2>3, <3>1 DEF BoardOK, BoardShown
    <2>4. CASE Latest(view, q) /\ tab # "backlog"
      <3>1. UNCHANGED <<tab, chosen>> /\ cards' = q.got.cards /\ again' \subseteq again
        BY <2>1, <2>4 DEF FetchArrives
      <3>2. /\ q.got # NoData /\ GotOK(q.for, q.got) /\ q.for = view.key
            /\ view'.key = view.key /\ view'.data = q.got
        BY <2>1, <2>4, BroughtIs
      <3>3. IsCards(q.got.cards)
        BY <2>4, <3>2 DEF GotOK, ShownOK, LoadsOK
      <3> QED BY <3>1, <3>2, <3>3 DEF BoardOK, BoardShown
    <2> QED BY <2>2, <2>3, <2>4
  <1> QED BY <1>3, <1>4, <1>5, <1>6, <1>7, <1>8, <1>9, Parts

-----------------------------------------------------------------------------
(* The server's state, and what may have been missed.                      *)
LEMMA ServerKeeps ==
  ASSUME ServerOK, SendsOK, CardSendsOK, Next
  PROVE  ServerOK'
  <1>1. ASSUME UNCHANGED server PROVE ServerOK'
    BY <1>1 DEF server, ServerOK
  <1>2. CASE BacklogGestures \/ BacklogRequests
    BY <1>1, <1>2, GesturesAre, RequestsAre
  <1>3. CASE BacklogAnswers
    <2>1. PICK m \in sends : SendServed(m) \/ SendRefused(m) \/ SendOk(m) \/ SendFails(m)
      BY <1>3 DEF BacklogAnswers
    <2>2. CASE SendRefused(m) \/ SendOk(m) \/ SendFails(m)
      BY <1>1, <2>2 DEF SendRefused, SendOk, SendFails
    <2>3. CASE SendServed(m)
      <3>1. CASE m \in MoveSend /\ IsInjective(m.ids)
        <4>1. ServeMove(m.ids, m.to, m.before, m.after) /\ m.ids \in Seq(Issue) /\ m.to \in List
          BY <2>3, <3>1 DEF SendServed, MoveSend
        <4> QED BY <3>1, <4>1, ServeMoveKeeps
      <3>2. CASE m \in FormSend
        <4>1. ServeSprint(m.kind, m.sprint, m.ver, m.to) /\ m.sprint \in Sprint /\ m.ver \in Nat /\ m.to \in List
          BY <2>3, <3>2 DEF SendServed, FormSend, Kinds
        <4> QED BY <4>1, ServeSprintKeeps
      <3> QED BY <3>1, <3>2 DEF SendsOK
    <2> QED BY <2>1, <2>2, <2>3
  <1>4. CASE BoardReplies
    <2>1. CASE \E m \in moves : MoveAnyway(m) \/ NotAnyway(m)
      BY <1>1, <2>1 DEF MoveAnyway, NotAnyway
    <2>2. CASE \E i \in Issue, to \in Status : OthersMove(i, to)
      <3>1. PICK i \in Issue, to \in Status : ServeIssue(i, status[i].ver, to)
        BY <2>2 DEF OthersMove
      <3>2. status[i].ver \in Nat
        BY DEF ServerOK, Card
      <3> QED BY <3>1, <3>2, ServeIssueKeeps
    <2> QED BY <1>4, <2>1, <2>2 DEF BoardReplies
  <1>5. CASE BoardRequests
    BY <1>1, <1>5 DEF BoardRequests, ChooseSprint, Flag, MoveCard
  <1>6. CASE BoardAnswers
    <2>1. PICK m \in moves : MoveServed(m) \/ MoveRefused(m) \/ MoveOverLimit(m) \/ MoveOk(m) \/ MoveFails(m)
      BY <1>6 DEF BoardAnswers
    <2>2. CASE MoveServed(m)
      <3>1. m.card \in Issue /\ m.ver \in Nat /\ m.to \in Status
        BY DEF CardSendsOK, CardSend
      <3>2. status[m.card].is \in Status
        BY <3>1 DEF ServerOK, Card
      <3>3. PICK to \in Status : to = IF m.kind = "flag" THEN status[m.card].is ELSE m.to
        BY <3>1, <3>2
      <3>4. ServeIssue(m.card, m.ver, to)
        BY <2>2, <3>3 DEF MoveServed
      <3> QED BY <3>1, <3>4, ServeIssueKeeps
    <2>3. CASE MoveRefused(m) \/ MoveOverLimit(m) \/ MoveOk(m) \/ MoveFails(m)
      BY <1>1, <2>3 DEF MoveRefused, MoveOverLimit, MoveOk, MoveFails
    <2> QED BY <2>1, <2>2, <2>3
  <1>7. CASE \E t \in Tabs : Opens(t)
    BY <1>1, <1>7 DEF Opens, Mounts
  <1>8. CASE \E q \in fetches : FetchServed(q) \/ FetchArrives(q) \/ FetchFails(q)
    BY <1>1, <1>8 DEF FetchServed, FetchArrives, FetchFails
  <1> QED BY <1>2, <1>3, <1>4, <1>5, <1>6, <1>7, <1>8, Parts

LEMMA MissedKeeps ==
  ASSUME missed \in BOOLEAN, Next
  PROVE  missed' \in BOOLEAN
  <1>1. ASSUME missed' \in {missed, TRUE, FALSE} PROVE missed' \in BOOLEAN
    BY <1>1
  <1>2. CASE BacklogGestures \/ BacklogRequests
    BY <1>2, GesturesAre, RequestsAre DEF page
  <1>3. CASE BacklogAnswers
    BY <1>3 DEF BacklogAnswers, SendServed, SendRefused, SendOk, SendFails, Reload, page
  <1>4. CASE BoardReplies
    BY <1>4 DEF BoardReplies, MoveAnyway, NotAnyway, OthersMove, page
  <1>5. CASE BoardRequests
    BY <1>5 DEF BoardRequests, ChooseSprint, Flag, MoveCard, Reload, page
  <1>6. CASE BoardAnswers
    BY <1>6 DEF BoardAnswers, MoveServed, MoveRefused, MoveOverLimit, MoveOk, MoveFails, Reload, page
  <1>7. CASE \E t \in Tabs : Opens(t)
    BY <1>7 DEF Opens, Mounts
  <1>8. CASE \E q \in fetches : FetchServed(q) \/ FetchArrives(q) \/ FetchFails(q)
    BY <1>8 DEF FetchServed, FetchArrives, FetchFails
  <1> QED BY <1>2, <1>3, <1>4, <1>5, <1>6, <1>7, <1>8, Parts
-----------------------------------------------------------------------------
(* What the lists of the page come to be: the server's.                    *)

\* The lists there are once a drag is over that moves nothing.
Behind ==
    IF drag = NoDrag THEN lists ELSE IF drag.waiting # NoData THEN drag.waiting ELSE drag.start

\* A load is to come, or is on its way with what the server has.
MoveOut == \E m \in sends : m.answer \in {"ok", "lost"} \/ (m.kind = "move" /\ view.mount <= m.gen)
CardOut == \E m \in moves : m.answer \in {"ok", "lost"}
OnCourse(d) ==
    \/ d = NoData
    \/ d.read = "sprints" /\ d.sprints = sprints
    \/ d.read = "issues" /\ \A s \in Sprint : d.lists[s] = PlanningView[s]
    \/ d.read = "all" /\ d.lists = PlanningView
PlanComes == \E q \in fetches : Latest(view, q) /\ OnCourse(q.got)
NoneComes == \A q \in fetches : ~Latest(view, q)

Settling ==
    tab = "backlog" /\ ~missed => MoveOut \/ CardOut \/ PlanComes \/ (NoneComes /\ Behind = PlanningView)

LEMMA ReloadComes ==
  ASSUME LoadsOK, NEW w, IsLoad(w), w.gen = view.gen, Reload(w)
  PROVE  \E q \in fetches' : Latest(view', q) /\ q.got = NoData
  <1>1. PICK v : v = Asks(w)
    OBVIOUS
  <1>2. IsLoad(v) /\ v.gen = view.gen + 1 /\ view.gen \in Nat
    BY <1>1, AsksIs, LoadIs DEF LoadsOK
  <1>3. view' = v /\ fetches' = fetches \cup {Request(v)} /\ v.gen \in Nat /\ v.gen > view.gen
    BY <1>1, <1>2 DEF Reload
  <1> QED BY <1>2, <1>3, NewRequest

LEMMA TabComes ==
  ASSUME LoadsOK, NEW t \in Tabs, Opens(t)
  PROVE  /\ \E q \in fetches' : Latest(view', q) /\ q.got = NoData
         /\ view'.mount = view.gen + 1 /\ view.gen \in Nat
  <1>1. PICK g \in Nat : g = view.gen + 1 /\ view.gen \in Nat
    BY LoadIs DEF LoadsOK
  <1>2. PICK k \in Keys : k = <<t, None>>
    BY TabKey
  <1>3. PICK w : w = LoadOf(k, g)
    OBVIOUS
  <1>4. IsLoad(w) /\ w.gen = g /\ w.mount = g
    BY <1>3, NewLoad
  <1>5. view' = w /\ fetches' = fetches \cup {Request(w)}
    BY <1>1, <1>2, <1>3 DEF Opens, Mounts
  <1>6. \E q \in fetches' : Latest(view', q) /\ q.got = NoData
    BY <1>1, <1>4, <1>5, NewRequest
  <1> QED BY <1>1, <1>4, <1>5, <1>6

LEMMA SamePlan ==
  ASSUME UNCHANGED server
  PROVE  PlanningView' = PlanningView /\ \A d : OnCourse(d)' <=> OnCourse(d)
  <1>1. PlanningView' = PlanningView /\ sprints' = sprints
    BY DEF server, PlanningView, Open
  <1> QED BY <1>1 DEF OnCourse

(* A read that agrees with the server so far agrees when it goes on.       *)
LEMMA CourseFilled ==
  ASSUME NEW d, PlanOK(d), d.sprints = sprints
  PROVE  OnCourse(Filled(d))
  <1>1. PICK e : e = [k \in List |-> IF k \in Live(d.sprints) \ {Backlog} THEN order[k] ELSE <<>>]
    OBVIOUS
  <1>2. Filled(d) = [d EXCEPT !.read = "issues", !.lists = e]
    BY <1>1 DEF Filled
  <1>3. Filled(d).read = "issues" /\ Filled(d).lists = e
    BY <1>2 DEF PlanOK, Plans
  <1>4. \A s \in Sprint : s \in List /\ s # Backlog
    BY ServerAssumption DEF List
  <1>5. \A s \in Sprint : e[s] = PlanningView[s]
    BY <1>1, <1>4 DEF PlanningView
  <1> QED BY <1>3, <1>5 DEF OnCourse

LEMMA CourseWhole ==
  ASSUME NEW d, PlanOK(d), \A s \in Sprint : d.lists[s] = PlanningView[s]
  PROVE  OnCourse(Whole(d))
  <1>1. PICK e : e = [d.lists EXCEPT ![Backlog] = Open(Backlog)]
    OBVIOUS
  <1>2. PICK b : b = (e # PlanningView)
    OBVIOUS
  <1>3. Whole(d) = [d EXCEPT !.read = "all", !.lists = e, !.torn = b]
    BY <1>1, <1>2, Zenon DEF Whole
  <1>4. Whole(d).read = "all" /\ Whole(d).lists = e
    BY <1>3 DEF PlanOK, Plans
  <1>5. DOMAIN d.lists = List
    BY DEF PlanOK, Plans, AllLists
  <1>6. \A k \in List : e[k] = PlanningView[k]
    BY <1>1, <1>5 DEF PlanningView, List
  <1>7. e = PlanningView
    BY <1>1, <1>5, <1>6 DEF PlanningView
  <1> QED BY <1>4, <1>7 DEF OnCourse

LEMMA PlanServed ==
  ASSUME LoadsOK, NEW q \in fetches, FetchServed(q), Latest(view, q), tab = "backlog", OnCourse(q.got)
  PROVE  PlanComes'
  <1>1. PICK r : r = [q EXCEPT !.got = ReadOn(q)]
    OBVIOUS
  <1>2. r \in fetches' /\ UNCHANGED <<view, server>> /\ ~Served(q)
    BY <1>1 DEF FetchServed
  <1>3. PICK d : d = ReadOn(q)
    OBVIOUS
  <1>4. IsFetch(q) /\ q.for[1] = "backlog" /\ GotOK(q.for, q.got)
    BY FetchIs DEF LoadsOK
  <1>5. OnCourse(d)
    <2>1. CASE q.got = NoData
      <3>1. d = Opened
        BY <1>3, <1>4, <2>1 DEF ReadOn
      <3> QED BY <3>1 DEF Opened, OnCourse
    <2>2. CASE q.got # NoData
      <3>1. PlanOK(q.got) /\ q.got.read # "all"
        BY <1>2, <1>4, <2>2 DEF GotOK, Served
      <3>2. CASE q.got.read = "sprints"
        <4>1. d = Filled(q.got)
          BY <1>3, <1>4, <2>2, <3>2 DEF ReadOn
        <4>2. q.got.sprints = sprints
          BY <2>2, <3>2 DEF OnCourse
        <4> QED BY <3>1, <4>1, <4>2, CourseFilled
      <3>3. CASE q.got.read # "sprints"
        <4>1. d = Whole(q.got)
          BY <1>3, <1>4, <2>2, <3>3 DEF ReadOn
        <4>2. \A s \in Sprint : q.got.lists[s] = PlanningView[s]
          BY <2>2, <3>1, <3>3 DEF OnCourse
        <4> QED BY <3>1, <4>1, <4>2, CourseWhole
      <3> QED BY <3>2, <3>3
    <2> QED BY <2>1, <2>2
  <1>6. r.gen = q.gen /\ r.got = d
    <2>1. PICK g \in Nat, f \in Keys : q = [gen |-> g, for |-> f, got |-> q.got]
      BY <1>4 DEF IsFetch
    <2> QED BY <1>1, <1>3, <2>1
  <1> QED BY <1>2, <1>5, <1>6, SamePlan DEF PlanComes, Latest

LEMMA SettlingKeeps ==
  ASSUME LoadsOK, ListsOK, FormsOK, SendsOK, CardSendsOK, BoardOK, Settling, Next
  PROVE  Settling'
  <1>1. ASSUME Reload(view) PROVE Settling'
    BY <1>1, ReloadComes DEF LoadsOK, Settling, PlanComes, OnCourse
  <1>2. ASSUME UNCHANGED <<server, tab, view, fetches, moves>>, missed => missed',
               tab = "backlog" /\ ~missed' /\ MoveOut => MoveOut', Behind' = Behind
        PROVE  Settling'
    <2>1. PlanningView' = PlanningView /\ \A d : OnCourse(d)' <=> OnCourse(d)
      BY <1>2, SamePlan
    <2> QED BY <1>2, <2>1 DEF Settling, CardOut, PlanComes, NoneComes
  <1>3. ASSUME UNCHANGED <<server, tab, view, fetches, backlog>>, missed => missed', ~missed' /\ CardOut => CardOut'
        PROVE  Settling'
    <2>1. /\ PlanningView' = PlanningView /\ Behind' = Behind /\ (MoveOut => MoveOut')
          /\ \A d : OnCourse(d)' <=> OnCourse(d)
      BY <1>3, SamePlan DEF backlog, Behind, MoveOut
    <2> QED BY <1>3, <2>1 DEF Settling, PlanComes, NoneComes
  <1>4. CASE BacklogGestures /\ UNCHANGED board
    <2>1. UNCHANGED <<server, page, sends, board>>
      BY <1>4, GesturesAre
    <2>2. Behind' = Behind
      <3>1. CASE \E X \in Filters : X # hides.filter /\ Filter(X)
        BY <3>1 DEF Filter, Behind
      <3>2. CASE \E s \in Sprint : Collapse(s) \/ \E kind \in Kinds : OpenDialog(kind, s)
        BY <3>2 DEF Collapse, OpenDialog, Behind
      <3>3. CASE \E i \in Issue : Tick(i)
        BY <3>3 DEF Tick, Behind
      <3>4. CASE \E i \in Issue : DragStart(i)
        <4>1. PICK i \in Issue : DragStart(i)
          BY <3>4
        <4>2. drag = NoDrag /\ drag' = [of |-> i, start |-> lists, waiting |-> NoData, torn |-> FALSE]
          BY <4>1 DEF DragStart, Idle
        <4>3. i # None
          BY ServerAssumption
        <4>4. drag' # NoDrag /\ drag'.waiting = NoData /\ drag'.start = lists
          BY <4>2, <4>3 DEF NoDrag
        <4> QED BY <4>2, <4>4 DEF Behind
      <3>5. CASE \E k \in List, i \in Issue \cup {None} : DragOver(k, i)
        BY <3>5 DEF DragOver, Behind
      <3>6. CASE ClearTicks \/ CloseDialog
        BY <3>6 DEF ClearTicks, CloseDialog, Behind
      <3>7. CASE DragCancel
        BY <3>7 DEF DragCancel, Settled, Behind
      <3> QED BY <1>4, <3>1, <3>2, <3>3, <3>4, <3>5, <3>6, <3>7 DEF BacklogGestures
    <2> QED BY <1>2, <2>1, <2>2 DEF page, board, MoveOut
  <1>5. CASE BacklogRequests /\ UNCHANGED board
    <2>1. UNCHANGED <<server, page, board>>
      BY <1>5, RequestsAre
    <2>2. ASSUME NEW m, m.gen = view.gen, m.kind = "move", sends' = sends \cup {m} PROVE Settling'
      <3>1. view.mount <= view.gen /\ UNCHANGED view
        BY <2>1, LoadIs DEF LoadsOK, page
      <3> QED BY <2>2, <3>1 DEF Settling, MoveOut
    <2>3. CASE \E i \in Issue, k \in List, w \in {"top", "bottom"} : Held(i) /\ MoveTo(i, k, w)
      BY <2>2, <2>3, MoveToIs
    <2>4. CASE \E i \in Issue : Drop(i)
      <3>1. PICK i \in Issue : Drop(i)
        BY <2>4
      <3>2. CASE drag # NoDrag /\ drag' = NoDrag /\ lists' = Settled(TRUE) /\ UNCHANGED sends
        <4>1. Behind' = Behind
          BY <3>2 DEF Behind, Settled
        <4> QED BY <1>2, <2>1, <3>2, <4>1 DEF page, board, MoveOut
      <3> QED BY <2>2, <3>1, <3>2, DropIs
    <2>5. CASE \E k \in List : SubmitDialog(k)
      <3>1. PICK k \in List : SubmitDialog(k)
        BY <2>5
      <3>2. UNCHANGED <<lists, drag>> /\ sends \subseteq sends'
        BY <3>1 DEF SubmitDialog, Send
      <3> QED BY <1>2, <2>1, <3>2 DEF page, board, MoveOut, Behind
    <2> QED BY <1>5, <2>3, <2>4, <2>5 DEF BacklogRequests
  <1>6. CASE BacklogAnswers /\ UNCHANGED board
    <2>1. PICK m \in sends : SendServed(m) \/ SendRefused(m) \/ SendOk(m) \/ SendFails(m)
      BY <1>6 DEF BacklogAnswers
    <2>2. IsSend(m)
      BY DEF SendsOK, IsSend
    <2>3. CASE SendServed(m)
      <3>1. PICK how \in {"ok", "lost"} : Answered(m, how)
        BY <2>3 DEF SendServed
      <3>2. [m EXCEPT !.answer = how].answer = how
        BY <2>2, AnsweredIs
      <3> QED BY <3>1, <3>2 DEF Answered, Settling, MoveOut
    <2>4. CASE SendRefused(m)
      <3>1. PICK r : r = [m EXCEPT !.answer = "failed"]
        OBVIOUS
      <3>2. r.gen = m.gen /\ r.kind = m.kind
        BY <2>2, <3>1, AnsweredIs
      <3>3. sends' = (sends \ {m}) \cup {r} /\ m.answer = "none" /\ UNCHANGED <<server, page, lists, drag, board>>
        BY <1>6, <2>4, <3>1 DEF SendRefused, Answered
      <3>4. MoveOut => MoveOut'
        BY <3>2, <3>3 DEF MoveOut, page
      <3> QED BY <1>2, <3>3, <3>4 DEF page, board, Behind
    <2>5. CASE SendOk(m)
      BY <1>1, <2>5 DEF SendOk
    <2>6. CASE SendFails(m)
      <3>1. CASE m.kind = "move" /\ Mine(m)
        BY <1>1, <2>6, <3>1 DEF SendFails
      <3>2. CASE ~(m.kind = "move" /\ Mine(m))
        <4>1. /\ sends' = sends \ {m} /\ m.answer \in {"lost", "failed"} /\ missed' = (missed \/ m.answer = "lost")
              /\ UNCHANGED <<server, tab, view, fetches, lists, drag, board>>
          BY <1>6, <2>6, <3>2 DEF SendFails
        <4>2. tab = "backlog" /\ ~missed' /\ MoveOut => MoveOut'
          BY <3>2, <4>1 DEF MoveOut, Mine
        <4> QED BY <1>2, <4>1, <4>2 DEF board, Behind
      <3> QED BY <3>1, <3>2
    <2> QED BY <2>1, <2>3, <2>4, <2>5, <2>6
  <1>7. CASE BoardReplies /\ UNCHANGED backlog
    <2>1. CASE \E i \in Issue, to \in Status : OthersMove(i, to)
      BY <2>1 DEF OthersMove, Settling
    <2>2. CASE \E m \in moves : MoveAnyway(m) \/ NotAnyway(m)
      <3>1. UNCHANGED <<server, page>>
        BY <2>2 DEF MoveAnyway, NotAnyway
      <3>2. CardOut => CardOut'
        BY <2>2 DEF MoveAnyway, NotAnyway, MoveAnswered, CardOut
      <3> QED BY <1>3, <1>7, <3>1, <3>2 DEF page
    <2> QED BY <1>7, <2>1, <2>2 DEF BoardReplies
  <1>8. CASE BoardRequests /\ UNCHANGED backlog
    <2>1. CASE \E s \in Sprint : ChooseSprint(s)
      BY <2>1 DEF ChooseSprint, OnBoard, Settling
    <2>2. CASE \E i \in Issue : Flag(i) \/ \E to \in Status : MoveCard(i, to)
      <3>1. UNCHANGED <<server, page>> /\ moves \subseteq moves'
        BY <2>2 DEF Flag, MoveCard
      <3> QED BY <1>3, <1>8, <3>1 DEF page, CardOut
    <2> QED BY <1>8, <2>1, <2>2 DEF BoardRequests
  <1>9. CASE BoardAnswers /\ UNCHANGED backlog
    <2>1. PICK m \in moves : MoveServed(m) \/ MoveRefused(m) \/ MoveOverLimit(m) \/ MoveOk(m) \/ MoveFails(m)
      BY <1>9 DEF BoardAnswers
    <2>2. CASE MoveServed(m)
      <3>1. PICK how \in {"ok", "lost"} : MoveAnswered(m, how)
        BY <2>2 DEF MoveServed
      <3>2. [m EXCEPT !.answer = how].answer = how
        BY DEF CardSendsOK, CardSend
      <3> QED BY <3>1, <3>2 DEF MoveAnswered, Settling, CardOut
    <2>3. CASE MoveRefused(m) \/ MoveOverLimit(m)
      <3>1. UNCHANGED <<server, page>>
        BY <2>3 DEF MoveRefused, MoveOverLimit
      <3>2. CardOut => CardOut'
        <4>1. PICK f \in [moves -> CardSend] : moves' = {f[x] : x \in moves} /\ \A x \in moves : Like(x, f[x])
          BY <2>3, LikeSteps DEF LikeStep
        <4> QED BY <4>1 DEF Like, CardOut
      <3> QED BY <1>3, <1>9, <3>1, <3>2 DEF page
    <2>4. CASE MoveOk(m)
      BY <1>1, <2>4 DEF MoveOk
    <2>5. CASE MoveFails(m)
      <3>1. /\ UNCHANGED <<server, tab, view, fetches>> /\ moves' = moves \ {m} /\ m.answer \in {"lost", "failed"}
            /\ missed' = (missed \/ m.answer = "lost")
        BY <2>5 DEF MoveFails
      <3>2. ~missed' /\ CardOut => CardOut'
        BY <3>1 DEF CardOut
      <3> QED BY <1>3, <1>9, <3>1, <3>2
    <2> QED BY <2>1, <2>2, <2>3, <2>4, <2>5
  <1>10. CASE \E t \in Tabs : Opens(t)
    BY <1>10, TabComes DEF Settling, PlanComes, OnCourse
  <1>11. CASE \E q \in fetches : FetchServed(q)
    <2>1. PICK q \in fetches : FetchServed(q)
      BY <1>11
    <2>2. CASE tab = "backlog" /\ Latest(view, q)
      <3>1. UNCHANGED <<server, tab, view, missed, backlog, board>>
        BY <2>1 DEF FetchServed
      <3>2. (MoveOut => MoveOut') /\ (CardOut => CardOut')
        BY <3>1 DEF backlog, board, MoveOut, CardOut
      <3>3. PlanComes => OnCourse(q.got)
        BY <2>2 DEF PlanComes, LoadsOK
      <3>4. PlanComes => PlanComes'
        BY <2>1, <2>2, <3>3, PlanServed
      <3>5. ~NoneComes
        BY <2>2 DEF NoneComes
      <3> QED BY <3>1, <3>2, <3>4, <3>5 DEF Settling
    <2>3. CASE tab # "backlog"
      BY <2>1, <2>3 DEF FetchServed, Settling
    <2>4. CASE ~Latest(view, q)
      <3>1. PICK d, r : d = ReadOn(q) /\ r = [q EXCEPT !.got = d]
        OBVIOUS
      <3>2. fetches' = (fetches \ {q}) \cup {r} /\ UNCHANGED <<server, tab, view, missed, backlog, board>>
        BY <2>1, <3>1 DEF FetchServed
      <3>3. r.gen = q.gen
        <4>1. PICK g \in Nat, f \in Keys : q = [gen |-> g, for |-> f, got |-> q.got]
          BY DEF LoadsOK, IsFetch
        <4> QED BY <3>1, <4>1
      <3>4. /\ PlanningView' = PlanningView /\ Behind' = Behind /\ (MoveOut => MoveOut') /\ (CardOut => CardOut')
            /\ \A c : OnCourse(c)' <=> OnCourse(c)
        BY <3>2, SamePlan DEF backlog, board, Behind, MoveOut, CardOut
      <3>5. (PlanComes => PlanComes') /\ (NoneComes => NoneComes')
        BY <2>4, <3>2, <3>3, <3>4 DEF PlanComes, NoneComes, Latest
      <3> QED BY <3>2, <3>4, <3>5 DEF Settling
    <2> QED BY <2>2, <2>3, <2>4
  <1>12. CASE \E q \in fetches : FetchArrives(q)
    <2>1. PICK q \in fetches : FetchArrives(q)
      BY <1>12
    <2>2. fetches' = fetches \ {q} /\ UNCHANGED <<server, tab, missed>>
      BY <2>1 DEF FetchArrives
    <2>3. PlanningView' = PlanningView /\ \A d : OnCourse(d)' <=> OnCourse(d)
      BY <2>2, SamePlan
    <2>4. CASE ~Latest(view, q)
      <3>1. UNCHANGED <<view, backlog, board>>
        BY <2>1, <2>4 DEF FetchArrives, Arrived
      <3>2. Behind' = Behind /\ (MoveOut => MoveOut') /\ (CardOut => CardOut')
        BY <3>1 DEF backlog, board, Behind, MoveOut, CardOut
      <3>3. (PlanComes => PlanComes') /\ (NoneComes => NoneComes')
        BY <2>2, <2>3, <2>4, <3>1 DEF PlanComes, NoneComes
      <3> QED BY <2>2, <2>3, <3>2, <3>3 DEF Settling
    <2>5. CASE tab = "backlog" /\ Latest(view, q)
      <3>1. UNCHANGED <<sends, moves>> /\ TakesPlanning(q.got)
        BY <2>1, <2>5 DEF FetchArrives, board
      <3>2. q.got # NoData /\ view'.mount = view.mount /\ view'.gen = view.gen
        BY <2>1, <2>5, BroughtIs
      <3>10. q.for[1] = "backlog" /\ q.got.read = "all"
        BY <2>1, <2>5 DEF FetchArrives, Served, LoadsOK
      <3>3. (MoveOut => MoveOut') /\ (CardOut => CardOut')
        BY <3>1, <3>2 DEF MoveOut, CardOut
      <3>4. NoneComes'
        BY <2>2, <2>5, <3>2 DEF NoneComes, Latest, LoadsOK
      <3>5. PlanComes => q.got.lists = PlanningView
        BY <2>5, <3>2, <3>10 DEF PlanComes, OnCourse, LoadsOK
      <3>6. q.got.lists \in AllLists
        <4>1. GotOK(q.for, q.got) /\ q.for[1] = "backlog"
          BY <2>5, FetchIs DEF LoadsOK
        <4> QED BY <3>2, <4>1 DEF GotOK, PlanOK, Plans
      <3>7. Behind' = q.got.lists
        <4>1. CASE drag = NoDrag
          BY <3>1, <4>1 DEF TakesPlanning, Behind
        <4>2. CASE drag # NoDrag
          <5>1. PICK a, s, w, b : a \in Issue /\ drag = [of |-> a, start |-> s, waiting |-> w, torn |-> b]
            BY <4>2 DEF ListsOK, IsDrag
          <5>2. PICK data, t : data = q.got.lists /\ t = q.got.torn
            OBVIOUS
          <5>3. drag' = [drag EXCEPT !.waiting = data, !.torn = t]
            BY <3>1, <4>2, <5>2 DEF TakesPlanning
          <5>4. drag' = [of |-> a, start |-> s, waiting |-> data, torn |-> t]
            BY <5>1, <5>3
          <5>5. data # NoData /\ a # None
            <6>1. NoData \notin AllLists
              BY ServerAssumption, Zenon DEF AllLists
            <6>2. None \notin Issue
              BY ServerAssumption
            <6> QED BY <3>6, <5>1, <5>2, <6>1, <6>2
          <5>6. drag' # NoDrag /\ drag'.waiting = data
            BY <5>4, <5>5 DEF NoDrag
          <5> QED BY <5>2, <5>5, <5>6 DEF Behind
        <4> QED BY <4>1, <4>2
      <3>8. ~NoneComes
        BY <2>5 DEF NoneComes
      <3> QED BY <2>2, <2>3, <3>3, <3>4, <3>5, <3>7, <3>8 DEF Settling
    <2>6. CASE tab # "backlog"
      BY <2>2, <2>6 DEF Settling
    <2> QED BY <2>4, <2>5, <2>6
  <1>13. CASE \E q \in fetches : FetchFails(q)
    <2>1. PICK q \in fetches : FetchFails(q)
      BY <1>13
    <2>2. /\ fetches' = fetches \ {q} /\ missed' = (missed \/ Latest(view, q))
          /\ UNCHANGED <<server, tab, view, backlog, board>>
      BY <2>1 DEF FetchFails
    <2>3. /\ PlanningView' = PlanningView /\ Behind' = Behind /\ (MoveOut => MoveOut') /\ (CardOut => CardOut')
          /\ \A d : OnCourse(d)' <=> OnCourse(d)
      BY <2>2, SamePlan DEF backlog, board, Behind, MoveOut, CardOut
    <2>4. ~missed' => (PlanComes => PlanComes') /\ (NoneComes => NoneComes')
      BY <2>2, <2>3 DEF PlanComes, NoneComes
    <2> QED BY <2>2, <2>3, <2>4 DEF Settling
  <1> QED BY <1>4, <1>5, <1>6, <1>7, <1>8, <1>9, <1>10, <1>11, <1>12, <1>13, Parts
-----------------------------------------------------------------------------
(* What the cards of the page come to show: the server's statuses.         *)

\* A move of the card i that the panel will hear of.
Mover(m, i) == m.kind = "move" /\ m.card = i /\ view.mount <= m.gen

\* One at a time, but for those that were moved again.
Single == \A m, n \in moves : m.card = n.card /\ Mover(m, m.card) /\ Mover(n, n.card) /\ m.card \notin again => m = n

\* The card shows its status, and no refusal will take it away; or its move
\* is under way, whose refusal brings the status back.
CardRight(i) ==
    \/ /\ cards[i].is = status[i].is
       /\ \A m \in moves : Mover(m, i) /\ m.to = cards[i].is => i \in Brought(m)
    \/ \E m \in moves : Mover(m, i) /\ cards[i].is = m.to /\ m.from = status[i].is

CardsRight == \A i \in DOMAIN cards \ again : CardRight(i)

CardsCome ==
    \E q \in fetches :
        /\ Latest(view, q)
        /\ q.got = NoData \/ \A i \in DOMAIN q.got.cards : q.got.cards[i].is = status[i].is

BoardSettling ==
    tab = "board" /\ ~missed => CardOut \/ CardsCome \/ (NoneComes /\ CardsRight)

LEMMA SameCards ==
  ASSUME UNCHANGED <<status, view, cards, moves>>, NEW i, CardRight(i)
  PROVE  CardRight(i)'
  BY DEF CardRight, Mover, Brought

(* Requests that change their answers change nothing of that.              *)
LEMMA LikeKeeps ==
  ASSUME LikeStep, UNCHANGED <<view, again>>, Single
  PROVE  Single' /\ (CardOut => CardOut') /\ (UNCHANGED <<status, cards>> /\ CardsRight => CardsRight')
  <1>1. PICK f \in [moves -> CardSend] : moves' = {f[x] : x \in moves} /\ \A x \in moves : Like(x, f[x])
    BY DEF LikeStep
  <1>2. \A x \in moves : \A i : Mover(f[x], i)' <=> Mover(x, i)
    BY <1>1 DEF Like, Mover
  <1>3. Single'
    <2>1. SUFFICES ASSUME NEW m \in moves', NEW n \in moves', m.card = n.card, Mover(m, m.card)', Mover(n, n.card)',
                          m.card \notin again'
                   PROVE  m = n
      BY DEF Single
    <2>2. PICK x \in moves, y \in moves : m = f[x] /\ n = f[y]
      BY <1>1
    <2>3. x.card = m.card /\ y.card = n.card
      BY <1>1, <2>2 DEF Like
    <2>4. Mover(x, x.card) /\ Mover(y, y.card)
      BY <1>2, <2>1, <2>2, <2>3
    <2>5. x = y
      BY <2>1, <2>3, <2>4 DEF Single
    <2> QED BY <2>2, <2>5
  <1>4. CardOut => CardOut'
    BY <1>1 DEF Like, CardOut
  <1>5. ASSUME UNCHANGED <<status, cards>>, CardsRight PROVE CardsRight'
    <2>1. SUFFICES ASSUME NEW i \in DOMAIN cards' \ again' PROVE CardRight(i)'
      BY DEF CardsRight
    <2>2. CardRight(i)
      BY <1>5, <2>1 DEF CardsRight
    <2>3. CASE /\ cards[i].is = status[i].is
               /\ \A m \in moves : Mover(m, i) /\ m.to = cards[i].is => i \in Brought(m)
      <3>1. ASSUME NEW n \in moves', Mover(n, i)', n.to = cards'[i].is PROVE i \in Brought(n)'
        <4>1. PICK x \in moves : n = f[x]
          BY <1>1
        <4>2. n.to = x.to /\ n.card = x.card
          BY <1>1, <4>1 DEF Like
        <4>3. i \in Brought(x)
          BY <1>2, <1>5, <2>3, <3>1, <4>1, <4>2
        <4> QED BY <4>2, <4>3 DEF Brought
      <3> QED BY <1>5, <2>3, <3>1 DEF CardRight
    <2>4. CASE \E m \in moves : Mover(m, i) /\ cards[i].is = m.to /\ m.from = status[i].is
      <3>1. PICK x \in moves : Mover(x, i) /\ cards[i].is = x.to /\ x.from = status[i].is
        BY <2>4
      <3>2. f[x] \in moves' /\ Mover(f[x], i)' /\ f[x].to = x.to /\ f[x].from = x.from
        BY <1>1, <1>2, <3>1 DEF Like
      <3> QED BY <1>5, <3>1, <3>2 DEF CardRight
    <2> QED BY <2>2, <2>3, <2>4 DEF CardRight
  <1> QED BY <1>3, <1>4, <1>5

(* A card is moved.                                                        *)
LEMMA MovedKeeps ==
  ASSUME LoadsOK, BoardOK, Single, BoardSettling, NEW i \in Issue, NEW to \in Status, MoveCard(i, to)
  PROVE  Single' /\ BoardSettling'
  <1>1. PICK m \in CardSend : /\ m.answer = "none" /\ m.gen = view.gen /\ moves' = moves \cup {m}
                              /\ m.kind = "move" /\ m.card = i /\ m.from = cards[i].is /\ m.to = to
    BY MovedIs
  <1>2. /\ DOMAIN cards' = DOMAIN cards /\ i \in DOMAIN cards
        /\ cards'[i].is = to /\ \A j \in DOMAIN cards \ {i} : cards'[j] = cards[j]
    BY MovedIs
  <1>3. /\ UNCHANGED <<server, page>>
        /\ again' = IF \E n \in moves : n.card = i /\ n.kind = "move" THEN again \cup {i} ELSE again
    BY DEF MoveCard
  <1>4. Mover(m, i) /\ again \subseteq again' /\ UNCHANGED <<tab, view, fetches, missed, status>>
    BY <1>1, <1>3, LoadIs DEF Mover, LoadsOK, page, server
  <1>5. i \notin again' => \A n \in moves : ~Mover(n, i)
    BY <1>3 DEF Mover
  <1>6. \A n, j : Mover(n, j)' <=> Mover(n, j)
    BY <1>4 DEF Mover
  <1>7. Single'
    BY <1>1, <1>4, <1>5, <1>6 DEF Single, Mover
  <1>8. ASSUME CardsRight PROVE CardsRight'
    <2>1. SUFFICES ASSUME NEW j \in DOMAIN cards' \ again' PROVE CardRight(j)'
      BY DEF CardsRight
    <2>2. CardRight(j)
      BY <1>2, <1>4, <1>8, <2>1 DEF CardsRight
    <2>3. CASE j = i
      <3>1. cards[i].is = status[i].is
        BY <1>5, <2>1, <2>2, <2>3 DEF CardRight
      <3>2. m \in moves' /\ Mover(m, i)' /\ cards'[i].is = m.to /\ m.from = status'[i].is
        BY <1>1, <1>2, <1>4, <1>6, <3>1
      <3> QED BY <2>3, <3>2 DEF CardRight
    <2>4. CASE j # i
      <3>1. cards'[j] = cards[j] /\ ~Mover(m, j)
        BY <1>1, <1>2, <2>1, <2>4 DEF Mover
      <3>2. \A n : j \in Brought(n)' <=> j \in Brought(n)
        BY <1>4 DEF Brought
      <3> QED BY <1>1, <1>4, <1>6, <2>2, <3>1, <3>2 DEF CardRight
    <2> QED BY <2>3, <2>4
  <1>9. (CardOut => CardOut') /\ (CardsCome => CardsCome') /\ (NoneComes => NoneComes')
    BY <1>1, <1>4 DEF CardOut, CardsCome, NoneComes
  <1> QED BY <1>4, <1>7, <1>8, <1>9 DEF BoardSettling

(* A move is refused, or its answer is lost.                               *)
LEMMA FailsKeeps ==
  ASSUME LoadsOK, BoardOK, CardSendsOK, Single, BoardSettling, NEW m \in moves, MoveFails(m)
  PROVE  Single' /\ BoardSettling'
  <1>1. /\ m.answer \in {"lost", "failed"} /\ moves' = moves \ {m} /\ missed' = (missed \/ m.answer = "lost")
        /\ UNCHANGED <<server, tab, view, fetches, chosen>>
    BY DEF MoveFails
  <1>2. UNCHANGED status /\ m \in CardSend /\ IsCards(cards)
    BY <1>1 DEF server, CardSendsOK, BoardOK
  <1>3. again \subseteq again' /\ \A n, j : Mover(n, j)' <=> Mover(n, j)
    BY <1>1 DEF MoveFails, Mover
  <1>4. Single'
    BY <1>1, <1>3 DEF Single
  <1>5. ASSUME CardsRight, tab = "board" PROVE CardsRight'
    <2>1. CASE m.kind = "move" /\ MyCard(m)
      <3>1. PICK c : c = Reverted(m)
        OBVIOUS
      <3>2. cards' = c /\ again' = again \cup Brought(m)
        BY <2>1, <3>1 DEF MoveFails
      <3>3. /\ DOMAIN c = DOMAIN cards
            /\ \A j \in DOMAIN cards : c[j].is = IF j = m.card /\ cards[j].is = m.to THEN m.from ELSE cards[j].is
        BY <1>2, <3>1, RevertedIs
      <3>4. SUFFICES ASSUME NEW j \in DOMAIN cards' \ again' PROVE CardRight(j)'
        BY DEF CardsRight
      <3>5. j \in DOMAIN cards /\ j \notin again /\ j \notin Brought(m) /\ CardRight(j)
        BY <1>5, <3>2, <3>3, <3>4 DEF CardsRight
      <3>6. \A n : j \in Brought(n)' <=> j \in Brought(n)
        BY <1>1 DEF Brought
      <3>7. CASE j = m.card
        <4>1. Mover(m, j) /\ Mover(m, m.card)
          BY <2>1, <3>7 DEF Mover, MyCard
        <4>2. \A n \in moves : Mover(n, j) => n = m
          BY <3>5, <3>7, <4>1 DEF Single, Mover
        <4>3. \A n \in moves' : ~Mover(n, j)'
          BY <1>1, <1>3, <4>2
        <4>4. c[j].is = status[j].is
          <5>1. CASE cards[j].is = m.to
            <6>1. m.from = status[j].is
              BY <3>5, <4>1, <4>2, <5>1 DEF CardRight
            <6> QED BY <3>3, <3>5, <3>7, <5>1, <6>1
          <5>2. CASE cards[j].is # m.to
            <6>1. cards[j].is = status[j].is
              BY <3>5, <4>2, <5>2 DEF CardRight
            <6> QED BY <3>3, <3>5, <5>2, <6>1
          <5> QED BY <5>1, <5>2
        <4> QED BY <1>2, <3>2, <4>3, <4>4 DEF CardRight
      <3>8. CASE j # m.card
        <4>1. c[j].is = cards[j].is /\ ~Mover(m, j)
          BY <3>3, <3>5, <3>8 DEF Mover
        <4> QED BY <1>1, <1>2, <1>3, <3>2, <3>5, <3>6, <4>1 DEF CardRight
      <3> QED BY <3>7, <3>8
    <2>2. CASE ~(m.kind = "move" /\ MyCard(m))
      <3>1. UNCHANGED <<cards, again>>
        BY <2>2 DEF MoveFails
      <3>2. \A j : ~Mover(m, j)
        BY <1>5, <2>2 DEF Mover, MyCard
      <3>3. SUFFICES ASSUME NEW j \in DOMAIN cards' \ again' PROVE CardRight(j)'
        BY DEF CardsRight
      <3>4. CardRight(j)
        BY <1>5, <3>1, <3>3 DEF CardsRight
      <3>5. \A n : j \in Brought(n)' <=> j \in Brought(n)
        BY <1>1 DEF Brought
      <3> QED BY <1>1, <1>2, <1>3, <3>1, <3>2, <3>4, <3>5 DEF CardRight
    <2> QED BY <2>1, <2>2
  <1>6. ~missed' => (CardOut => CardOut')
    BY <1>1 DEF CardOut
  <1>7. (CardsCome => CardsCome') /\ (NoneComes => NoneComes')
    BY <1>1, <1>2 DEF CardsCome, NoneComes
  <1> QED BY <1>1, <1>4, <1>5, <1>6, <1>7 DEF BoardSettling
(* The latest answer puts every card right.                                *)
LEMMA ArrivalKeeps ==
  ASSUME LoadsOK, Single, BoardSettling, NEW q \in fetches, FetchArrives(q)
  PROVE  Single' /\ BoardSettling'
  <1>1. fetches' = fetches \ {q} /\ UNCHANGED <<server, tab, missed>>
    BY DEF FetchArrives
  <1>2. UNCHANGED status
    BY <1>1 DEF server
  <1>3. CASE ~Latest(view, q)
    <2>1. UNCHANGED <<view, chosen, cards, moves, again>>
      BY <1>3 DEF FetchArrives, Arrived, board
    <2>2. Single'
      BY <2>1 DEF Single, Mover
    <2>3. \A i : CardRight(i) => CardRight(i)'
      BY <1>2, <2>1, SameCards
    <2>4. (CardOut => CardOut') /\ (CardsCome => CardsCome') /\ (NoneComes => NoneComes')
      BY <1>1, <1>2, <1>3, <2>1 DEF CardOut, CardsCome, NoneComes
    <2>5. CardsRight => CardsRight'
      BY <2>1, <2>3 DEF CardsRight
    <2> QED BY <1>1, <2>2, <2>4, <2>5 DEF BoardSettling
  <1>4. CASE Latest(view, q) /\ tab = "backlog"
    <2>1. UNCHANGED <<moves, again>> /\ view'.mount = view.mount
      BY <1>4, BroughtIs DEF FetchArrives, board
    <2> QED BY <1>1, <1>4, <2>1 DEF Single, Mover, BoardSettling
  <1>5. CASE Latest(view, q) /\ tab # "backlog"
    <2>1. cards' = q.got.cards /\ again' = again \cap {m.card : m \in moves} /\ UNCHANGED moves
      BY <1>5 DEF FetchArrives
    <2>2. q.got # NoData /\ view'.mount = view.mount /\ view'.data = q.got /\ view'.gen = view.gen
      BY <1>5, BroughtIs
    <2>3. Single'
      BY <2>1, <2>2 DEF Single, Mover
    <2>4. NoneComes'
      BY <1>1, <1>5, <2>2 DEF NoneComes, Latest, LoadsOK
    <2>5. ASSUME CardsCome PROVE CardsRight'
      <3>1. \A i \in DOMAIN q.got.cards : q.got.cards[i].is = status[i].is
        BY <1>5, <2>2, <2>5 DEF CardsCome, LoadsOK
      <3>2. SUFFICES ASSUME NEW i \in DOMAIN cards' \ again' PROVE CardRight(i)'
        BY DEF CardsRight
      <3>3. cards'[i].is = status'[i].is
        BY <1>2, <2>1, <3>1, <3>2
      <3>4. \A m \in moves' : Mover(m, i)' /\ m.to = cards'[i].is => i \in Brought(m)'
        BY <2>1, <2>2, <3>2 DEF Mover, Brought
      <3> QED BY <3>3, <3>4 DEF CardRight
    <2>6. ~NoneComes
      BY <1>5 DEF NoneComes
    <2>7. CardOut => CardOut'
      BY <2>1 DEF CardOut
    <2> QED BY <1>1, <2>3, <2>4, <2>5, <2>6, <2>7 DEF BoardSettling
  <1> QED BY <1>3, <1>4, <1>5

LEMMA BoardServed ==
  ASSUME ServerOK, LoadsOK, Single, BoardSettling, NEW q \in fetches, FetchServed(q)
  PROVE  Single' /\ BoardSettling'
  <1>1. PICK d : d = ReadOn(q)
    OBVIOUS
  <1>2. PICK r : r = [q EXCEPT !.got = d]
    OBVIOUS
  <1>3. fetches' = (fetches \ {q}) \cup {r} /\ UNCHANGED <<server, tab, view, missed, board>>
    BY <1>1, <1>2 DEF FetchServed
  <1>4. UNCHANGED <<status, chosen, cards, moves, again>>
    BY <1>3 DEF server, board
  <1>5. Single'
    BY <1>3, <1>4 DEF Single, Mover
  <1>6. IsFetch(q) /\ GotOK(q.for, d) /\ q.for \in Keys
    BY <1>1, FetchIs, ReadOnIs DEF LoadsOK, FetchServed
  <1>7. r.gen = q.gen /\ r.got = d
    BY <1>2, <1>6, ServedIs
  <1>8. CASE tab # "board"
    BY <1>3, <1>5, <1>8 DEF BoardSettling
  <1>9. CASE tab = "board" /\ Latest(view, q)
    <2>1. q.for[1] = "board"
      BY <1>9 DEF LoadsOK
    <2>2. q.for[2] \in Sprint \cup {None} /\ d = BoardView(q.for[2])
      BY <1>1, <1>6, <2>1 DEF Keys, ReadOn
    <2>3. \A i \in DOMAIN d.cards : d.cards[i].is = status[i].is
      BY <2>2, BoardViewIs
    <2>4. CardsCome'
      BY <1>3, <1>4, <1>7, <1>9, <2>3 DEF CardsCome, Latest
    <2> QED BY <1>5, <2>4 DEF BoardSettling
  <1>10. CASE ~Latest(view, q)
    <2>1. (CardOut => CardOut') /\ (CardsCome => CardsCome') /\ (NoneComes => NoneComes')
      BY <1>3, <1>4, <1>7, <1>10 DEF CardOut, CardsCome, NoneComes, Latest
    <2>2. \A i : CardRight(i) => CardRight(i)'
      BY <1>3, <1>4, SameCards
    <2>3. CardsRight => CardsRight'
      BY <1>4, <2>2 DEF CardsRight
    <2> QED BY <1>3, <1>5, <2>1, <2>3 DEF BoardSettling
  <1> QED BY <1>8, <1>9, <1>10

LEMMA BoardSettlingKeeps ==
  ASSUME ServerOK, LoadsOK, SendsOK, CardSendsOK, BoardOK, Single, BoardSettling, Next
  PROVE  Single' /\ BoardSettling'
  <1>1. ASSUME Reload(view), UNCHANGED <<moves, again>> \/ \E m \in moves : moves' = moves \ {m} /\ UNCHANGED again
        PROVE  Single' /\ BoardSettling'
    <2>1. view'.mount = view.mount
      BY <1>1, ReloadIs
    <2>2. Single'
      BY <1>1, <2>1 DEF Single, Mover
    <2>3. CardsCome'
      BY <1>1, ReloadComes DEF LoadsOK, CardsCome
    <2> QED BY <2>2, <2>3 DEF BoardSettling
  <1>2. ASSUME UNCHANGED <<status, tab, view, fetches, board>>, missed => missed'
        PROVE  Single' /\ BoardSettling'
    <2>1. Single' /\ (CardOut => CardOut') /\ (CardsCome => CardsCome') /\ (NoneComes => NoneComes')
      BY <1>2 DEF Single, Mover, CardOut, CardsCome, NoneComes, board
    <2>2. \A i : CardRight(i) => CardRight(i)'
      BY <1>2, SameCards DEF board
    <2>3. CardsRight => CardsRight'
      BY <1>2, <2>2 DEF CardsRight, board
    <2> QED BY <1>2, <2>1, <2>3 DEF BoardSettling
  <1>3. ASSUME LikeStep, UNCHANGED <<server, page, cards, again>>
        PROVE  Single' /\ BoardSettling'
    <2>1. UNCHANGED <<status, tab, view, fetches, missed>>
      BY <1>3 DEF server, page
    <2>2. Single' /\ (CardOut => CardOut') /\ (CardsRight => CardsRight')
      BY <1>3, <2>1, LikeKeeps
    <2>3. (CardsCome => CardsCome') /\ (NoneComes => NoneComes')
      BY <2>1 DEF CardsCome, NoneComes
    <2> QED BY <2>1, <2>2, <2>3 DEF BoardSettling
  <1>4. CASE (BacklogGestures \/ BacklogRequests) /\ UNCHANGED board
    <2>1. UNCHANGED <<server, page>>
      BY <1>4, GesturesAre, RequestsAre
    <2> QED BY <1>2, <1>4, <2>1 DEF server, page
  <1>5. CASE BacklogAnswers /\ UNCHANGED board
    <2>1. PICK m \in sends : SendServed(m) \/ SendRefused(m) \/ SendOk(m) \/ SendFails(m)
      BY <1>5 DEF BacklogAnswers
    <2>2. CASE SendServed(m) \/ SendRefused(m)
      <3>1. UNCHANGED <<status, page>>
        BY <2>2 DEF SendServed, SendRefused, ServeMove, ServeSprint, server
      <3> QED BY <1>2, <1>5, <3>1 DEF page
    <2>3. CASE Reload(view)
      BY <1>1, <1>5, <2>3 DEF board
    <2>4. CASE SendFails(m) /\ UNCHANGED <<view, fetches>> /\ missed' = (missed \/ m.answer = "lost")
      BY <1>2, <1>5, <2>4 DEF SendFails, server
    <2> QED BY <2>1, <2>2, <2>3, <2>4 DEF SendOk, SendFails
  <1>6. CASE BoardReplies
    <2>1. CASE \E m \in moves : MoveAnyway(m) \/ NotAnyway(m)
      <3>1. UNCHANGED <<server, page, cards, again>>
        BY <2>1 DEF MoveAnyway, NotAnyway
      <3> QED BY <1>3, <2>1, <3>1, LikeSteps
    <2>2. CASE \E i \in Issue, to \in Status : OthersMove(i, to)
      BY <2>2 DEF OthersMove, Single, Mover, BoardSettling
    <2> QED BY <1>6, <2>1, <2>2 DEF BoardReplies
  <1>7. CASE BoardRequests
    <2>1. CASE \E s \in Sprint : ChooseSprint(s)
      <3>1. PICK s \in Sprint : ChooseSprint(s)
        BY <2>1
      <3>2. view'.mount = view.mount /\ tab = "board" /\ UNCHANGED <<moves, again>>
        BY <3>1, ChosenIs DEF ChooseSprint
      <3>3. Single'
        BY <3>2 DEF Single, Mover
      <3>4. CardsCome'
        <4>1. PICK k \in Keys : k = <<"board", s>> /\ k[1] = "board"
          BY BoardKey
        <4>2. PICK w : w = [view EXCEPT !.key = k]
          OBVIOUS
        <4>3. Reload(w)
          BY <3>1, <4>1, <4>2 DEF ChooseSprint
        <4>4. IsLoad(w) /\ w.gen = view.gen
          BY <3>2, <4>1, <4>2, RekeyIs DEF LoadsOK
        <4> QED BY <4>3, <4>4, ReloadComes DEF CardsCome
      <3> QED BY <3>3, <3>4 DEF BoardSettling
    <2>2. CASE \E i \in Issue : Flag(i)
      <3>1. PICK i \in Issue : Flag(i)
        BY <2>2
      <3>2. PICK m : m.kind = "flag" /\ moves' = moves \cup {m}
        BY <3>1, FlagIs
      <3>3. UNCHANGED <<status, tab, view, fetches, missed, cards, again>>
        BY <3>1 DEF Flag, server, page
      <3>4. \A n, j : Mover(n, j)' <=> Mover(n, j)
        BY <3>3 DEF Mover
      <3>5. \A j : ~Mover(m, j)
        BY <3>2 DEF Mover
      <3>6. Single'
        BY <3>2, <3>3, <3>4, <3>5 DEF Single
      <3>7. (CardOut => CardOut') /\ (CardsCome => CardsCome') /\ (NoneComes => NoneComes')
        BY <3>2, <3>3 DEF CardOut, CardsCome, NoneComes
      <3>8. \A n, j : j \in Brought(n)' <=> j \in Brought(n)
        BY <3>3 DEF Brought
      <3>9. \A j : CardRight(j) => CardRight(j)'
        BY <3>2, <3>3, <3>4, <3>5, <3>8 DEF CardRight
      <3>10. CardsRight => CardsRight'
        BY <3>3, <3>9 DEF CardsRight
      <3> QED BY <3>3, <3>6, <3>7, <3>10 DEF BoardSettling
    <2>3. CASE \E i \in Issue, to \in Status : MoveCard(i, to)
      BY <2>3, MovedKeeps
    <2> QED BY <1>7, <2>1, <2>2, <2>3 DEF BoardRequests
  <1>8. CASE BoardAnswers
    <2>1. PICK m \in moves : MoveServed(m) \/ MoveRefused(m) \/ MoveOverLimit(m) \/ MoveOk(m) \/ MoveFails(m)
      BY <1>8 DEF BoardAnswers
    <2>2. CASE MoveServed(m)
      <3>1. LikeStep /\ UNCHANGED <<view, again>>
        BY <2>2, LikeSteps DEF MoveServed, page
      <3>2. PICK how \in {"ok", "lost"} : MoveAnswered(m, how)
        BY <2>2 DEF MoveServed
      <3>3. [m EXCEPT !.answer = how].answer = how
        BY DEF CardSendsOK, CardSend
      <3>4. CardOut'
        BY <3>2, <3>3 DEF MoveAnswered, CardOut
      <3> QED BY <3>1, <3>4, LikeKeeps DEF BoardSettling
    <2>3. CASE MoveRefused(m) \/ MoveOverLimit(m)
      <3>1. UNCHANGED <<server, page, cards, again>>
        BY <2>3 DEF MoveRefused, MoveOverLimit
      <3> QED BY <1>3, <2>3, <3>1, LikeSteps
    <2>4. CASE MoveOk(m)
      BY <1>1, <2>4 DEF MoveOk
    <2>5. CASE MoveFails(m)
      BY <2>5, FailsKeeps
    <2> QED BY <2>1, <2>2, <2>3, <2>4, <2>5
  <1>9. CASE \E t \in Tabs : Opens(t)
    <2>1. PICK t \in Tabs : Opens(t)
      BY <1>9
    <2>2. UNCHANGED moves /\ view'.mount = view.gen + 1 /\ view.gen \in Nat
      BY <2>1, TabComes DEF Opens, Mounts, BoardMounts
    <2>3. \A m \in moves : m.gen \in Nat /\ m.gen <= view.gen
      BY DEF CardSendsOK, CardSend
    <2>4. \A m \in moves' : \A i : ~Mover(m, i)'
      BY <2>2, <2>3 DEF Mover
    <2>5. Single'
      BY <2>4 DEF Single
    <2>6. CardsCome'
      BY <2>1, TabComes DEF CardsCome
    <2> QED BY <2>5, <2>6 DEF BoardSettling
  <1>10. CASE \E q \in fetches : FetchServed(q)
    BY <1>10, BoardServed
  <1>11. CASE \E q \in fetches : FetchArrives(q)
    BY <1>11, ArrivalKeeps
  <1>12. CASE \E q \in fetches : FetchFails(q)
    <2>1. PICK q \in fetches : FetchFails(q)
      BY <1>12
    <2>2. /\ fetches' = fetches \ {q} /\ missed' = (missed \/ Latest(view, q))
          /\ UNCHANGED <<server, tab, view, board>>
      BY <2>1 DEF FetchFails
    <2>3. UNCHANGED <<status, chosen, cards, moves, again>>
      BY <2>2 DEF server, board
    <2>4. Single' /\ (CardOut => CardOut')
      BY <2>2, <2>3 DEF Single, Mover, CardOut
    <2>5. ~missed' => (CardsCome => CardsCome') /\ (NoneComes => NoneComes')
      BY <2>2, <2>3 DEF CardsCome, NoneComes
    <2>6. \A i : CardRight(i) => CardRight(i)'
      BY <2>2, <2>3, SameCards
    <2>7. CardsRight => CardsRight'
      BY <2>3, <2>6 DEF CardsRight
    <2> QED BY <2>2, <2>4, <2>5, <2>7 DEF BoardSettling
  <1> QED BY <1>4, <1>5, <1>6, <1>7, <1>8, <1>9, <1>10, <1>11, <1>12, Parts
-----------------------------------------------------------------------------
(* The inductive invariant.                                                *)
AgileInv ==
    /\ ServerOK /\ LoadsOK /\ SendsOK /\ CardSendsOK /\ ListsOK /\ FormsOK /\ BoardOK
    /\ Settling /\ Single /\ BoardSettling
    /\ inputs \in Nat \X Nat \X Nat

LEMMA PagesInit ==
  ASSUME Init
  PROVE  AgileInv
  <1>1. Order0 \in AllLists /\ EachOnce(Order0) /\ Status0 \in [Issue -> Status] /\ States0 \subseteq [Sprint -> {"future", "active"}]
    BY ServerAssumption DEF AllLists
  <1>2. ServerOK
    <2>1. PICK states \in States0 : sprints = [s \in Sprint |-> [state |-> states[s], ver |-> 0]]
      BY DEF Init, ServerInit
    <2>2. \A s \in Sprint : states[s] \in {"future", "active"}
      BY <1>1, <2>1
    <2>3. sprints \in SprintsOK
      BY <2>1, <2>2 DEF SprintsOK
    <2>4. \A i \in Issue : Status0[i] \in Status
      BY <1>1
    <2>5. status \in [Issue -> Card]
      BY <2>4 DEF Init, ServerInit, Card
    <2> QED BY <1>1, <2>3, <2>5 DEF Init, ServerInit, ServerOK
  <1>3. PICK k \in Keys : k = <<tab, None>> /\ k[1] = tab /\ tab \in Tabs
    BY TabKey DEF Init
  <1>4. view = LoadOf(k, 1) /\ fetches = {Request(view)}
    BY <1>3 DEF Init
  <1>5. IsLoad(view) /\ view.gen = 1 /\ view.key = k /\ view.data = NoData
    BY <1>4, NewLoad
  <1>6. PICK q : q = Request(view)
    OBVIOUS
  <1>7. IsFetch(q) /\ q.gen = view.gen /\ q.for = view.key /\ q.got = NoData
    BY <1>5, <1>6, RequestIs
  <1>8. fetches = {q}
    BY <1>4, <1>6
  <1>9. LoadsOK
    <2>1. q.gen <= view.gen
      BY <1>5, <1>7
    <2>2. missed \in BOOLEAN
      BY DEF Init
    <2> QED BY <1>3, <1>5, <1>7, <1>8, <2>1, <2>2 DEF LoadsOK
  <1>10. SendsOK /\ CardSendsOK /\ Single
    BY DEF Init, BacklogInit, BoardInit, SendsOK, CardSendsOK, Single
  <1>11. ListsOK
    BY NoListsIs DEF Init, BacklogInit, ListsOK, IsDrag
  <1>12. FormsOK
    BY DEF Init, BacklogInit, FormsOK
  <1>13. BoardOK
    BY <1>3, <1>5, NoCardsIs DEF Init, BoardInit, BoardOK, BoardShown
  <1>14. Settling /\ BoardSettling
    BY <1>7, <1>8 DEF Settling, PlanComes, OnCourse, BoardSettling, CardsCome, Latest
  <1>15. inputs \in Nat \X Nat \X Nat
    BY DEF Init
  <1> QED BY <1>2, <1>9, <1>10, <1>11, <1>12, <1>13, <1>14, <1>15 DEF AgileInv

LEMMA CountsIs ==
  ASSUME inputs \in Nat \X Nat \X Nat, NEW k \in 1..3, Counts(k)
  PROVE  inputs' \in Nat \X Nat \X Nat
  <1>1. PICK a \in Nat, b \in Nat, c \in Nat : inputs = <<a, b, c>>
    OBVIOUS
  <1>2. inputs' = [inputs EXCEPT ![k] = @ + 1]
    BY DEF Counts
  <1>3. CASE k = 1
    BY <1>1, <1>2, <1>3
  <1>4. CASE k = 2
    BY <1>1, <1>2, <1>4
  <1>5. CASE k = 3
    BY <1>1, <1>2, <1>5
  <1> QED BY <1>3, <1>4, <1>5

LEMMA PagesKept ==
  ASSUME AgileInv, [Next]_vars
  PROVE  AgileInv'
  <1>1. CASE UNCHANGED vars
    <2>1. /\ UNCHANGED <<order, status, sprints, tab, view, fetches, missed, lists, mixed, hides, ticked, drag, dialog, sends>>
          /\ UNCHANGED <<chosen, cards, moves, again, inputs>>
      BY <1>1 DEF vars, server, page, backlog, board
    <2>2. ServerOK' /\ LoadsOK' /\ SendsOK' /\ CardSendsOK' /\ ListsOK' /\ FormsOK' /\ BoardOK'
      BY <2>1 DEF AgileInv, ServerOK, LoadsOK, SendsOK, CardSendsOK, ListsOK, FormsOK, BoardOK, BoardShown
    <2>3. PlanningView' = PlanningView /\ Behind' = Behind /\ \A d : OnCourse(d)' <=> OnCourse(d)
      BY <2>1, SamePlan DEF Behind, server
    <2>4. Settling'
      BY <2>1, <2>3 DEF AgileInv, Settling, MoveOut, CardOut, PlanComes, NoneComes
    <2>5. Single' /\ (CardOut => CardOut') /\ (CardsCome => CardsCome') /\ (NoneComes => NoneComes')
      BY <2>1 DEF AgileInv, Single, Mover, CardOut, CardsCome, NoneComes
    <2>6. \A i : CardRight(i) => CardRight(i)'
      BY <2>1, SameCards
    <2>7. BoardSettling'
      BY <2>1, <2>5, <2>6 DEF AgileInv, BoardSettling, CardsRight
    <2> QED BY <2>1, <2>2, <2>4, <2>5, <2>7 DEF AgileInv
  <1>2. CASE Next
    <2>1. ServerOK /\ LoadsOK /\ SendsOK /\ CardSendsOK /\ ListsOK /\ FormsOK /\ BoardOK /\ Settling /\ Single /\ BoardSettling
      BY DEF AgileInv
    <2>2. ServerOK'
      BY <1>2, <2>1, ServerKeeps
    <2>3. PageStep /\ missed' \in BOOLEAN
      BY <1>2, <2>1, PageSteps, MissedKeeps DEF LoadsOK
    <2>4. LoadsOK' /\ view'.gen >= view.gen /\ view.gen \in Nat /\ view'.gen \in Nat
      BY <2>1, <2>3, LoadsKeep
    <2>5. SendsOK'
      BY <1>2, <2>1, <2>4, SendSteps, SendsKeep
    <2>6. CardSendsOK'
      BY <1>2, <2>1, <2>4, CardSteps, CardSendsKeep
    <2>7. ListsOK' /\ FormsOK' /\ BoardOK'
      BY <1>2, <2>1, ListsKeep, FormsKeep, BoardKeeps
    <2>8. Settling' /\ Single' /\ BoardSettling'
      BY <1>2, <2>1, SettlingKeeps, BoardSettlingKeeps
    <2>9. inputs' \in Nat \X Nat \X Nat
      <3>1. (\E k \in 1..3 : Counts(k)) \/ UNCHANGED inputs
        BY <1>2 DEF Next
      <3> QED BY <3>1, CountsIs DEF AgileInv
    <2> QED BY <2>2, <2>4, <2>5, <2>6, <2>7, <2>8, <2>9 DEF AgileInv
  <1> QED BY <1>1, <1>2

LEMMA PagesHold == Spec => []AgileInv
  <1>1. Init => AgileInv
    BY PagesInit
  <1>2. AgileInv /\ [Next]_vars => AgileInv'
    BY PagesKept
  <1> QED BY <1>1, <1>2, PTL DEF Spec

-----------------------------------------------------------------------------
(* The types: of lists and cards, of what is dragged, of requests under    *)
(* way, whatever came late or was refused.                                 *)
THEOREM TypesHold == Spec => []TypeOK
  <1>1. AgileInv => TypeOK
    <2>1. HAVE AgileInv
    <2>2. ServerTypeOK
      BY <2>1 DEF AgileInv, ServerOK, LoadsOK, ServerTypeOK, AllLists, Card, SprintsOK
    <2>3. BacklogTypeOK
      <3>1. lists \in [List -> Seq(Issue)] /\ mixed \in BOOLEAN /\ (drag # NoDrag => drag.of \in Issue /\ drag.start \in [List -> Seq(Issue)])
        BY <2>1 DEF AgileInv, ListsOK, IsDrag, AllLists
      <3>2. \A m \in sends : m.kind \in Kinds \cup {"move"} /\ m.answer \in {"none", "ok", "lost", "failed"}
        BY <2>1 DEF AgileInv, SendsOK, MoveSend, FormSend
      <3>3. /\ hides.filter \subseteq Issue /\ hides.collapsed \subseteq Sprint /\ ticked \subseteq Issue
            /\ dialog \in [kind : Kinds, sprint : Sprint, ver : Nat, busy : BOOLEAN] \cup {NoDialog}
        BY <2>1 DEF AgileInv, FormsOK
      <3> QED BY <3>1, <3>2, <3>3 DEF BacklogTypeOK
    <2>4. BoardTypeOK
      <3>1. DOMAIN cards \subseteq Issue /\ \A i \in DOMAIN cards : cards[i] \in [is : Status, ver : Nat]
        BY <2>1, CardsAre DEF AgileInv, BoardOK, Card
      <3>2. \A m \in moves : /\ m.kind \in {"move", "flag"} /\ m.card \in Issue
                             /\ m.answer \in {"none", "ok", "lost", "failed", "asked"}
        BY <2>1 DEF AgileInv, CardSendsOK, CardSend
      <3> QED BY <2>1, <3>1, <3>2 DEF AgileInv, BoardOK, BoardTypeOK
    <2> QED BY <2>1, <2>2, <2>3, <2>4 DEF AgileInv, LoadsOK, TypeOK
  <1> QED BY <1>1, PagesHold, PTL

(* Every move is sent with the neighbour that makes the server put the     *)
(* issues where the page has put them.                                     *)
THEOREM LandsRight == Spec => []DropLandsWhereShown
  <1>1. AgileInv => DropLandsWhereShown
    BY DEF AgileInv, SendsOK, MoveSend, FormSend, DropLandsWhereShown
  <1> QED BY <1>1, PagesHold, PTL

(* No issue is shown twice but what torn data brought, and when nothing is *)
(* under way the lists are the server's.                                   *)
THEOREM BacklogHolds == Spec => []BacklogRight
  <1>1. AgileInv => BacklogRight
    <2>1. HAVE AgileInv
    <2>2. EachIssueOnce
      BY <2>1 DEF AgileInv, ListsOK, EachIssueOnce
    <2>3. BacklogSettles
      BY <2>1 DEF AgileInv, Settling, BacklogSettles, OnBacklog, Quiet, MoveOut, CardOut, PlanComes, Behind
    <2> QED BY <2>2, <2>3 DEF BacklogRight
  <1> QED BY <1>1, PagesHold, PTL

(* The board shows the sprint that is chosen, and when nothing is under    *)
(* way every card shows the server's status, but for cards moved again.    *)
THEOREM BoardHolds == Spec => []BoardRight
  <1>1. AgileInv => BoardRight
    <2>1. HAVE AgileInv
    <2>2. OwnSprint
      <3>1. SUFFICES ASSUME OnBoard
                     PROVE  /\ chosen # None => view.data.sprint = chosen
                            /\ view.data.sprint = None => DOMAIN cards = {}
        BY DEF OwnSprint
      <3>2. tab = "board" /\ view.data # NoData /\ view.for = view.key
        BY <3>1 DEF OnBoard, Handed
      <3>3. /\ view.key = <<"board", chosen>> /\ DOMAIN cards \subseteq DOMAIN view.data.cards
            /\ chosen \in Sprint \cup {None}
        BY <2>1, <3>2 DEF AgileInv, BoardOK, BoardShown
      <3>4. view.key[1] = "board" /\ view.key[2] = chosen
        BY <3>3, BoardKey
      <3>5. ShownOK(chosen, view.data)
        BY <2>1, <3>2, <3>4, LoadIs DEF AgileInv, LoadsOK, GotOK
      <3>6. DOMAIN view.data.cards = {} => DOMAIN cards = {}
        BY <3>3
      <3> QED BY <3>5, <3>6 DEF ShownOK
    <2>3. BoardSettles
      <3>1. SUFFICES ASSUME OnBoard, Quiet PROVE \A i \in DOMAIN cards \ again : cards[i].is = status[i].is
        BY DEF BoardSettles
      <3>2. CardsRight
        BY <2>1, <3>1 DEF AgileInv, BoardSettling, OnBoard, Quiet, CardOut, CardsCome
      <3> QED BY <3>1, <3>2 DEF CardsRight, CardRight, Quiet
    <2> QED BY <2>2, <2>3 DEF BoardRight
  <1> QED BY <1>1, PagesHold, PTL
=============================================================================
