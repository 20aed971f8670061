--------------------------- MODULE PagedKvCacheProofs ---------------------------
(***************************************************************************)
(* Lemmas about lists and about PagedKvCache, for any number of blocks and *)
(* any keys: what each method does to the counts of the pool.  The proofs  *)
(* about the two engines rest on them.                                     *)
(***************************************************************************)
EXTENDS PagedKvCache, NaturalLemmas, FiniteSetTheorems, TLAPS

-----------------------------------------------------------------------------
(* Lists. *)

\* No element is twice in the list.
Injective(list) == \A i, j \in 1 .. Len(list) : list[i] = list[j] => i = j

\* f says where in the first n elements of list those of kept come from: the
\* elements that are in S.
Source(f, kept, list, S, n) ==
    /\ f \in [1 .. Len(kept) -> 1 .. n]
    /\ \A a \in 1 .. Len(kept) : kept[a] = list[f[a]] /\ list[f[a]] \in S
    /\ \A a, b \in 1 .. Len(kept) : f[a] = f[b] => a = b
    /\ \A j \in 1 .. n : list[j] \in S => \E a \in 1 .. Len(kept) : f[a] = j

\* One more element of the list that is in S.
LEMMA SourceAppend ==
  ASSUME NEW E, NEW list \in Seq(E), NEW S, NEW n \in 1 .. Len(list), NEW kept \in Seq(E),
         NEW f, Source(f, kept, list, S, n - 1), list[n] \in S
  PROVE  \E g : Source(g, Append(kept, list[n]), list, S, n)
  <1> DEFINE m == Len(kept)
             new == Append(kept, list[n])
             g == [a \in 1 .. m + 1 |-> IF a <= m THEN f[a] ELSE n]
  <1>1. m \in Nat /\ Len(list) \in Nat /\ n \in Nat /\ n > 0 /\ list[n] \in E
    OBVIOUS
  <1>2. Len(new) = m + 1 /\ new[m + 1] = list[n]
    OBVIOUS
  <1>3. \A a \in 1 .. m : new[a] = kept[a]
    OBVIOUS
  <1>4. /\ f \in [1 .. m -> 1 .. n - 1]
        /\ \A a \in 1 .. m : kept[a] = list[f[a]] /\ list[f[a]] \in S
        /\ \A a, b \in 1 .. m : f[a] = f[b] => a = b
        /\ \A j \in 1 .. n - 1 : list[j] \in S => \E a \in 1 .. m : f[a] = j
    BY DEF Source
  <1> HIDE DEF m, new
  <1>5. \A a \in 1 .. m + 1 : a \in 1 .. m \/ a = m + 1
    BY <1>1
  <1>6. /\ \A a \in 1 .. m : g[a] = f[a] /\ f[a] \in 1 .. n - 1 /\ f[a] # n
        /\ g[m + 1] = n
    BY <1>1, <1>4
  <1>7. g \in [1 .. m + 1 -> 1 .. n]
    BY <1>1, <1>4
  <1> HIDE DEF g
  <1>8. \A a \in 1 .. m + 1 : new[a] = list[g[a]] /\ list[g[a]] \in S
    BY <1>2, <1>3, <1>4, <1>5, <1>6
  <1>9. \A a, b \in 1 .. m + 1 : g[a] = g[b] => a = b
    BY <1>4, <1>5, <1>6
  <1>10. ASSUME NEW j \in 1 .. n, list[j] \in S PROVE \E a \in 1 .. m + 1 : g[a] = j
    <2>1. CASE j = n
      BY <1>1, <1>6, <2>1
    <2>2. CASE j # n
      <3>1. j \in 1 .. n - 1
        BY <1>1, <2>2
      <3>2. PICK a \in 1 .. m : f[a] = j
        BY <1>4, <1>10, <3>1
      <3>3. a \in 1 .. m + 1 /\ g[a] = j
        BY <1>1, <1>6, <3>2
      <3> QED
        BY <3>3
    <2> QED
      BY <2>1, <2>2
  <1>11. Source(g, new, list, S, n)
    BY <1>2, <1>7, <1>8, <1>9, <1>10 DEF Source
  <1> QED
    BY <1>11 DEF new

\* One more element of the list that is not.
LEMMA SourceSkip ==
  ASSUME NEW E, NEW list \in Seq(E), NEW S, NEW n \in 1 .. Len(list), NEW kept \in Seq(E),
         NEW f, Source(f, kept, list, S, n - 1), list[n] \notin S
  PROVE  Source(f, kept, list, S, n)
  <1>1. n \in Nat /\ n > 0 /\ Len(kept) \in Nat
    OBVIOUS
  <1>2. \A j \in 1 .. n : j \in 1 .. n - 1 \/ j = n
    BY <1>1
  <1>3. f \in [1 .. Len(kept) -> 1 .. n]
    BY <1>1 DEF Source
  <1>4. \A j \in 1 .. n : list[j] \in S => \E a \in 1 .. Len(kept) : f[a] = j
    BY <1>2 DEF Source
  <1> QED
    BY <1>3, <1>4 DEF Source

\* Keep returns the elements of the list that are in S: the function that it defines
\* by recursion exists for every list.
LEMMA KeepSource ==
  ASSUME NEW E, NEW list \in Seq(E), NEW S
  PROVE  Keep(list, S) \in Seq(E) /\ \E f : Source(f, Keep(list, S), list, S, Len(list))
  <1> DEFINE D == 0 .. Len(list)
             Step(x, i) == IF list[i] \in S THEN Append(x, list[i]) ELSE x
             Kept(f, i) == IF i = 0 THEN <<>>
                           ELSE IF list[i] \in S THEN Append(f[i - 1], list[i]) ELSE f[i - 1]
             Solves(h) == h = [i \in D |-> Kept(h, i)]
             k == CHOOSE h : Solves(h)
             g == [i \in 1 .. Len(list) |-> [x \in Seq(E) |-> Step(x, i)]]
  <1>1. Len(list) \in Nat /\ \A i \in 1 .. Len(list) : list[i] \in E
    OBVIOUS
  <1>2. \A t \in Seq(E), m \in E : Append(t, m) \in Seq(E)
    OBVIOUS
  <1>3. g \in [1 .. Len(list) -> [Seq(E) -> Seq(E)]]
    BY <1>1, <1>2
  <1>4. <<>> \in Seq(E) /\ Len(<<>>) = 0
    OBVIOUS
  <1>5. \E f : f \in Recursion(Len(list), Seq(E), <<>>, g)
    <2> HIDE DEF g
    <2> QED
      BY <1>1, <1>3, <1>4, RecursionUpTo, Zenon
  <1>6. Solves(k)
    <2>0. PICK f \in [D -> Seq(E)] : f[0] = <<>> /\ \A i \in 1 .. Len(list) : f[i] = g[i][f[i - 1]]
      BY <1>5 DEF Recursion
    <2>1. ASSUME NEW i \in D PROVE f[i] = Kept(f, i)
      <3>1. i # 0 => i \in 1 .. Len(list) /\ f[i - 1] \in Seq(E)
        BY <1>1, <2>0
      <3> QED
        BY <2>0, <3>1
    <2>2. Solves(f)
      BY <2>0, <2>1
    <2> QED
      BY <2>2
  <1>7. Keep(list, S) = k[Len(list)]
    BY DEF Keep
  <1> HIDE DEF k
  <1>8. \A i \in D : k[i] = Kept(k, i)
    BY <1>6
  <1> DEFINE T == {i \in D : k[i] \in Seq(E) /\ \E f : Source(f, k[i], list, S, i)}
  <1>9. 0 \in T
    <2>1. k[0] = <<>> /\ 0 \in D
      BY <1>1, <1>8
    <2>2. Source([a \in 1 .. 0 |-> 0], <<>>, list, S, 0)
      BY <1>4 DEF Source
    <2> QED
      BY <1>4, <2>1, <2>2
  <1>10. ASSUME NEW i \in 1 .. Len(list), i - 1 \in T PROVE i \in T
    <2>1. i \in D /\ i # 0 /\ list[i] \in E
      BY <1>1
    <2>2. k[i] = Step(k[i - 1], i)
      <3>1. k[i] = Kept(k, i)
        BY <1>8, <2>1
      <3> QED
        BY <2>1, <3>1
    <2>3. PICK f : Source(f, k[i - 1], list, S, i - 1)
      BY <1>10
    <2>4. k[i - 1] \in Seq(E)
      BY <1>10
    <2>5. CASE list[i] \in S
      <3>1. k[i] = Append(k[i - 1], list[i])
        BY <2>2, <2>5
      <3>2. k[i] \in Seq(E)
        BY <1>2, <2>1, <2>4, <3>1
      <3>3. \E h : Source(h, k[i], list, S, i)
        BY <2>3, <2>4, <2>5, <3>1, SourceAppend
      <3> QED
        BY <2>1, <3>2, <3>3
    <2>6. CASE list[i] \notin S
      <3>1. k[i] = k[i - 1]
        BY <2>2, <2>6
      <3>2. Source(f, k[i], list, S, i)
        BY <2>3, <2>4, <2>6, <3>1, SourceSkip
      <3> QED
        BY <2>1, <2>4, <3>1, <3>2
    <2> QED
      BY <2>5, <2>6
  <1> HIDE DEF T
  <1>11. \A i \in 0 .. Len(list) : i \in T
    BY <1>1, <1>9, <1>10, InductionUpTo
  <1> QED
    BY <1>1, <1>7, <1>11 DEF T

\* What is kept is what the list has of S, and as often.
LEMMA KeepFacts ==
  ASSUME NEW E, NEW list \in Seq(E), NEW S
  PROVE  /\ Keep(list, S) \in Seq(E)
         /\ ToSet(Keep(list, S)) = ToSet(list) \cap S
         /\ Injective(list) => Injective(Keep(list, S))
  <1> DEFINE k == Keep(list, S)
  <1>1. k \in Seq(E)
    BY KeepSource
  <1>2. PICK f : Source(f, k, list, S, Len(list))
    BY KeepSource
  <1> HIDE DEF k
  <1>3. DOMAIN k = 1 .. Len(k) /\ DOMAIN list = 1 .. Len(list)
    BY <1>1
  <1>4. ToSet(k) \subseteq ToSet(list) \cap S
    BY <1>2, <1>3 DEF ToSet, Source
  <1>5. ToSet(list) \cap S \subseteq ToSet(k)
    BY <1>2, <1>3 DEF ToSet, Source
  <1>6. Injective(list) => Injective(k)
    BY <1>2 DEF Injective, Source
  <1> QED
    BY <1>1, <1>4, <1>5, <1>6 DEF k

\* An interval that counts.
LEMMA CountingInterval ==
  ASSUME NEW n \in Nat PROVE IsFiniteSet(1 .. n) /\ Cardinality(1 .. n) = n
  <1>1. 1 \in Int /\ n \in Int
    OBVIOUS
  <1>2. IsFiniteSet(1 .. n) /\ Cardinality(1 .. n) = IF 1 > n THEN 0 ELSE n - 1 + 1
    BY <1>1, FS_Interval
  <1> QED
    BY <1>2

\* Distinct counts the elements; it says that the list is injective.
LEMMA DistinctIsInjective ==
  ASSUME NEW E, NEW list \in Seq(E)
  PROVE  Distinct(list) <=> Injective(list)
  <1> DEFINE D == 1 .. Len(list)
             T == ToSet(list)
  <1>1. Len(list) \in Nat /\ DOMAIN list = D /\ list \in [D -> T] /\ \A t \in T : \E i \in D : list[i] = t
    BY DEF ToSet
  <1>2. IsFiniteSet(D) /\ Cardinality(D) = Len(list)
    BY <1>1, CountingInterval
  <1>3. list \in Surjection(D, T)
    BY <1>1 DEF Surjection
  <1>4. Cardinality(T) = Cardinality(D) <=> list \in Injection(D, T)
    BY <1>2, <1>3, FS_Surjection
  <1>5. list \in Injection(D, T) <=> Injective(list)
    BY <1>1 DEF Injection, IsInjective, Injective
  <1> QED
    BY <1>2, <1>4, <1>5 DEF Distinct

\* The elements of two lists put together.
LEMMA ConcatFacts ==
  ASSUME NEW E, NEW s \in Seq(E), NEW t \in Seq(E)
  PROVE  /\ s \o t \in Seq(E) /\ Len(s \o t) = Len(s) + Len(t)
         /\ \A i \in 1 .. Len(s) : (s \o t)[i] = s[i]
         /\ \A i \in 1 .. Len(t) : (s \o t)[Len(s) + i] = t[i]
         /\ ToSet(s \o t) = ToSet(s) \cup ToSet(t)
         /\ Injective(s) /\ Injective(t) /\ ToSet(s) \cap ToSet(t) = {} => Injective(s \o t)
  <1> DEFINE m == Len(s)
             n == Len(t)
             c == s \o t
  <1>1. /\ m \in Nat /\ n \in Nat
        /\ DOMAIN s = 1 .. m /\ DOMAIN t = 1 .. n
    OBVIOUS
  <1>2. c \in Seq(E) /\ Len(c) = m + n
    OBVIOUS
  <1>3. \A i \in 1 .. m : c[i] = s[i]
    OBVIOUS
  <1>4. \A i \in 1 .. n : c[m + i] = t[i]
    OBVIOUS
  <1>5. DOMAIN c = 1 .. m + n
    BY <1>2
  <1> HIDE DEF m, n, c
  <1>6. \A i \in 1 .. m + n : i \in 1 .. m \/ (i - m \in 1 .. n /\ i = m + (i - m))
    BY <1>1
  <1>7. \A i \in 1 .. m : i \in 1 .. m + n
    BY <1>1
  <1>8. \A i \in 1 .. n : m + i \in 1 .. m + n
    BY <1>1
  <1>9. \A i \in 1 .. m + n : (i \in 1 .. m /\ c[i] = s[i]) \/ (i - m \in 1 .. n /\ c[i] = t[i - m])
    BY <1>3, <1>4, <1>6
  <1>10. ToSet(c) = ToSet(s) \cup ToSet(t)
    <2>1. ToSet(c) \subseteq ToSet(s) \cup ToSet(t)
      BY <1>1, <1>5, <1>9 DEF ToSet
    <2>2. ToSet(s) \subseteq ToSet(c)
      BY <1>1, <1>3, <1>5, <1>7 DEF ToSet
    <2>3. ToSet(t) \subseteq ToSet(c)
      BY <1>1, <1>4, <1>5, <1>8 DEF ToSet
    <2> QED
      BY <2>1, <2>2, <2>3
  <1>11. ASSUME Injective(s), Injective(t), ToSet(s) \cap ToSet(t) = {} PROVE Injective(c)
    <2>1. SUFFICES ASSUME NEW i \in 1 .. m + n, NEW j \in 1 .. m + n, c[i] = c[j] PROVE i = j
      BY <1>2 DEF Injective
    <2>2. \A a \in 1 .. m, b \in 1 .. n : s[a] # t[b]
      BY <1>1, <1>11 DEF ToSet
    <2>3. \A a, b \in 1 .. m : s[a] = s[b] => a = b
      BY <1>11 DEF Injective, m
    <2>4. \A a, b \in 1 .. n : t[a] = t[b] => a = b
      BY <1>11 DEF Injective, n
    <2>5. CASE i \in 1 .. m /\ c[i] = s[i] /\ j \in 1 .. m /\ c[j] = s[j]
      BY <2>1, <2>3, <2>5
    <2>6. CASE i - m \in 1 .. n /\ c[i] = t[i - m] /\ j - m \in 1 .. n /\ c[j] = t[j - m]
      <3>1. i - m = j - m
        BY <2>1, <2>4, <2>6
      <3> QED
        BY <1>1, <3>1
    <2> QED
      BY <1>9, <2>1, <2>2, <2>5, <2>6
  <1> QED
    BY <1>2, <1>3, <1>4, <1>10, <1>11 DEF m, n, c

\* A list cut into its last n elements, in reverse order, and the rest.
Cut(list, n, top, rest) ==
    /\ n <= Len(list) /\ Len(top) = n /\ Len(rest) = Len(list) - n
    /\ \A i \in 1 .. Len(list) - n : rest[i] = list[i]
    /\ \A i \in 1 .. n : top[i] = list[Len(list) - i + 1]

\* The two parts have the elements of the list, and share none if it has none twice.
Parts(list, top, rest) ==
    /\ ToSet(list) = ToSet(rest) \cup ToSet(top)
    /\ Injective(list) =>
           Injective(top) /\ Injective(rest) /\ ToSet(rest) \cap ToSet(top) = {}

\* That is so of a list that is cut.
LEMMA CutFacts ==
  ASSUME NEW E, NEW list \in Seq(E), NEW n \in Nat, NEW top \in Seq(E), NEW rest \in Seq(E),
         Cut(list, n, top, rest)
  PROVE  Parts(list, top, rest)
  <1> DEFINE m == Len(list)
  <1>0. /\ n <= m /\ Len(top) = n /\ Len(rest) = m - n
        /\ \A i \in 1 .. m - n : rest[i] = list[i]
        /\ \A i \in 1 .. n : top[i] = list[m - i + 1]
    BY DEF Cut
  <1>1. /\ m \in Nat /\ DOMAIN list = 1 .. m
        /\ DOMAIN rest = 1 .. m - n /\ DOMAIN top = 1 .. n
    BY <1>0
  <1> HIDE DEF m
  <1>2. ASSUME NEW i \in 1 .. n
        PROVE  \E j \in 1 .. m : j = m - i + 1 /\ j > m - n /\ top[i] = list[j]
    <2>1. m - i + 1 \in 1 .. m /\ m - i + 1 > m - n
      BY <1>0, <1>1
    <2> QED
      BY <1>0, <2>1
  <1>3. \A i \in 1 .. m - n : i \in 1 .. m /\ i <= m - n /\ rest[i] = list[i]
    BY <1>0, <1>1
  <1>4. \A j \in 1 .. m : j \in 1 .. m - n \/ (m - j + 1 \in 1 .. n /\ m - (m - j + 1) + 1 = j)
    BY <1>1
  <1>5. ToSet(list) \subseteq ToSet(rest) \cup ToSet(top)
    <2>1. ASSUME NEW j \in 1 .. m PROVE list[j] \in ToSet(rest) \cup ToSet(top)
      <3>1. CASE j \in 1 .. m - n
        BY <1>0, <1>1, <3>1 DEF ToSet
      <3>2. CASE m - j + 1 \in 1 .. n /\ m - (m - j + 1) + 1 = j
        <4>1. top[m - j + 1] = list[j]
          BY <1>0, <3>2
        <4> QED
          BY <1>1, <3>2, <4>1 DEF ToSet
      <3> QED
        BY <1>4, <3>1, <3>2
    <2> QED
      BY <1>1, <2>1 DEF ToSet
  <1>6. ToSet(rest) \cup ToSet(top) \subseteq ToSet(list)
    <2>1. ToSet(rest) \subseteq ToSet(list)
      BY <1>1, <1>3 DEF ToSet
    <2>2. ToSet(top) \subseteq ToSet(list)
      BY <1>1, <1>2 DEF ToSet
    <2> QED
      BY <2>1, <2>2
  <1>7. ASSUME Injective(list) PROVE Injective(top) /\ Injective(rest) /\ ToSet(rest) \cap ToSet(top) = {}
    <2>1. \A i, j \in 1 .. m : list[i] = list[j] => i = j
      BY <1>7 DEF Injective, m
    <2>2. Injective(rest)
      BY <1>0, <1>3, <2>1 DEF Injective
    <2>3. Injective(top)
      <3> SUFFICES ASSUME NEW i \in 1 .. n, NEW j \in 1 .. n, top[i] = top[j] PROVE i = j
        BY <1>0 DEF Injective
      <3>1. PICK x \in 1 .. m : x = m - i + 1 /\ top[i] = list[x]
        BY <1>2
      <3>2. PICK y \in 1 .. m : y = m - j + 1 /\ top[j] = list[y]
        BY <1>2
      <3>3. x = y
        BY <2>1, <3>1, <3>2
      <3> QED
        BY <1>1, <3>1, <3>2, <3>3
    <2>4. ASSUME NEW i \in 1 .. m - n, NEW j \in 1 .. n, rest[i] = top[j] PROVE FALSE
      <3>1. i \in 1 .. m /\ i <= m - n /\ rest[i] = list[i]
        BY <1>3
      <3>2. PICK y \in 1 .. m : y > m - n /\ top[j] = list[y]
        BY <1>2
      <3>3. i = y
        BY <2>1, <2>4, <3>1, <3>2
      <3> QED
        BY <1>0, <1>1, <3>1, <3>2, <3>3
    <2>5. ToSet(rest) \cap ToSet(top) = {}
      BY <1>1, <2>4 DEF ToSet
    <2> QED
      BY <2>2, <2>3, <2>5
  <1> QED
    BY <1>5, <1>6, <1>7 DEF Parts

\* The stack of free blocks, cut into the n blocks on top and the rest.
LEMMA TopFacts ==
  ASSUME NEW kv, kv.freeList \in Seq(Blocks), NEW n \in Nat, n <= Len(kv.freeList),
         NEW top, top = TopBlocks(kv, n),
         NEW rest, rest = SubSeq(kv.freeList, 1, Len(kv.freeList) - n)
  PROVE  /\ top \in Seq(Blocks) /\ Len(top) = n
         /\ rest \in Seq(Blocks) /\ Len(rest) = Len(kv.freeList) - n
         /\ Parts(kv.freeList, top, rest)
  <1> DEFINE list == kv.freeList
             m == Len(list)
             under == SubSeq(list, m - n + 1, m)
  <1>1. /\ list \in Seq(Blocks) /\ m = Len(list) /\ m \in Nat /\ n <= m
        /\ \A i \in 1 .. m : list[i] \in Blocks
    OBVIOUS
  <1>2. rest = SubSeq(list, 1, m - n)
    OBVIOUS
  <1>3. top = [i \in 1 .. Len(under) |-> under[(Len(under) - i) + 1]]
    BY DEF TopBlocks, Reverse
  <1> HIDE DEF list, m
  <1>4. rest \in Seq(Blocks) /\ Len(rest) = m - n
    BY <1>1, <1>2
  <1>5. \A i \in 1 .. m - n : rest[i] = list[i]
    BY <1>1, <1>2
  <1>6. Len(under) = n
    BY <1>1
  <1>7. \A i \in 1 .. n : under[i] = list[m - n + i]
    BY <1>1
  <1> HIDE DEF under
  <1>8. top = [i \in 1 .. n |-> under[(n - i) + 1]]
    BY <1>3, <1>6
  <1>9. ASSUME NEW i \in 1 .. n PROVE top[i] = list[m - i + 1] /\ m - i + 1 \in 1 .. m
    <2>1. top[i] = under[(n - i) + 1] /\ (n - i) + 1 \in 1 .. n
      BY <1>1, <1>8
    <2>2. under[(n - i) + 1] = list[m - n + ((n - i) + 1)]
      BY <1>7, <2>1
    <2>3. m - n + ((n - i) + 1) = m - i + 1 /\ m - i + 1 \in 1 .. m
      BY <1>1
    <2> QED
      BY <2>1, <2>2, <2>3
  <1>10. top \in [1 .. n -> Blocks]
    BY <1>1, <1>8, <1>9
  <1>11. top \in Seq(Blocks) /\ Len(top) = n
    BY <1>1, <1>10
  <1>12. Parts(list, top, rest)
    <2>1. Cut(list, n, top, rest)
      BY <1>1, <1>4, <1>5, <1>9, <1>11 DEF Cut
    <2> QED
      BY <1>1, <1>4, <1>11, <2>1, CutFacts
  <1> QED
    BY <1>4, <1>11, <1>12 DEF list, m

-----------------------------------------------------------------------------
(* Maps from keys to values, and those from keys to lists of blocks. *)

Maps(K, V) == UNION {[D -> V] : D \in SUBSET K}

\* What a map is.
LEMMA MapFacts ==
  ASSUME NEW K, NEW V, NEW map \in Maps(K, V)
  PROVE  DOMAIN map \in SUBSET K /\ map \in [DOMAIN map -> V]
  BY DEF Maps

\* What With and Without make of it.
IsWith(new, map, key, v) ==
    /\ DOMAIN new = DOMAIN map \cup {key} /\ new[key] = v
    /\ \A k \in DOMAIN map : k # key => new[k] = map[k]
IsWithout(new, map, key) ==
    /\ DOMAIN new = DOMAIN map \ {key}
    /\ \A k \in DOMAIN map \ {key} : new[k] = map[k]

\* With does that.
LEMMA WithFacts ==
  ASSUME NEW K, NEW V, NEW map \in Maps(K, V), NEW key \in K, NEW v \in V
  PROVE  With(map, key, v) \in Maps(K, V) /\ IsWith(With(map, key, v), map, key, v)
  <1> DEFINE new == With(map, key, v)
  <1>1. new = [k \in DOMAIN map \cup {key} |-> IF k = key THEN v ELSE map[k]]
    BY DEF With
  <1>2. new \in [DOMAIN map \cup {key} -> V] /\ DOMAIN map \cup {key} \in SUBSET K
    BY <1>1, MapFacts
  <1>3. new \in Maps(K, V)
    BY <1>2 DEF Maps
  <1> QED
    BY <1>1, <1>3 DEF IsWith

\* Without does that.
LEMMA WithoutFacts ==
  ASSUME NEW K, NEW V, NEW map \in Maps(K, V), NEW key
  PROVE  Without(map, key) \in Maps(K, V) /\ IsWithout(Without(map, key), map, key)
  <1> DEFINE new == Without(map, key)
  <1>1. new = [k \in DOMAIN map \ {key} |-> map[k]]
    BY DEF Without
  <1>2. new \in [DOMAIN map \ {key} -> V] /\ DOMAIN map \ {key} \in SUBSET K
    BY <1>1, MapFacts
  <1>3. new \in Maps(K, V)
    BY <1>2 DEF Maps
  <1> QED
    BY <1>1, <1>3 DEF IsWithout

\* The keys whose lists have the block.
Holding(map, b) == {k \in DOMAIN map : b \in ToSet(map[k])}

Count(map, b) == Cardinality(Holding(map, b))

\* Few keys hold a block.
LEMMA HoldingFinite ==
  ASSUME NEW map, IsFiniteSet(DOMAIN map), NEW b
  PROVE  /\ IsFiniteSet(Holding(map, b)) /\ Count(map, b) \in Nat
         /\ Count(map, b) = 0 <=> Holding(map, b) = {}
  <1>1. Holding(map, b) \in SUBSET DOMAIN map
    BY DEF Holding
  <1>2. IsFiniteSet(Holding(map, b))
    BY <1>1, FS_Subset
  <1>3. Count(map, b) \in Nat
    BY <1>2, FS_CardinalityType DEF Count
  <1>4. Count(map, b) = 0 <=> Holding(map, b) = {}
    BY <1>2, FS_EmptySet DEF Count
  <1> QED
    BY <1>2, <1>3, <1>4

\* A new key counts for the blocks of its list.
LEMMA CountWith ==
  ASSUME NEW K, NEW map \in Maps(K, Seq(Blocks)), IsFiniteSet(DOMAIN map), NEW key \in K, key \notin DOMAIN map,
         NEW list \in Seq(Blocks), NEW b
  PROVE  Count(With(map, key, list), b) = Count(map, b) + IF b \in ToSet(list) THEN 1 ELSE 0
  <1> DEFINE new == With(map, key, list)
  <1>0. IsWith(new, map, key, list)
    BY WithFacts
  <1> HIDE DEF new
  <1>1. /\ DOMAIN new = DOMAIN map \cup {key} /\ new[key] = list
        /\ \A k \in DOMAIN map : new[k] = map[k]
    BY <1>0 DEF IsWith
  <1>2. IsFiniteSet(Holding(map, b)) /\ Count(map, b) \in Nat
    BY HoldingFinite
  <1>3. key \notin Holding(map, b)
    BY DEF Holding
  <1>4. CASE b \in ToSet(list)
    <2>1. Holding(new, b) = Holding(map, b) \cup {key}
      BY <1>1, <1>4 DEF Holding
    <2> QED
      BY <1>2, <1>3, <1>4, <2>1, FS_AddElement DEF Count, new
  <1>5. CASE b \notin ToSet(list)
    <2>1. Holding(new, b) = Holding(map, b)
      BY <1>1, <1>5 DEF Holding
    <2> QED
      BY <1>2, <1>5, <2>1 DEF Count, new
  <1> QED
    BY <1>4, <1>5

\* A key that is gone counts no more.
LEMMA CountWithout ==
  ASSUME NEW K, NEW map \in Maps(K, Seq(Blocks)), IsFiniteSet(DOMAIN map), NEW key \in DOMAIN map, NEW b
  PROVE  Count(Without(map, key), b) = Count(map, b) - IF b \in ToSet(map[key]) THEN 1 ELSE 0
  <1> DEFINE new == Without(map, key)
  <1>0. IsWithout(new, map, key)
    BY WithoutFacts
  <1> HIDE DEF new
  <1>1. /\ DOMAIN new = DOMAIN map \ {key}
        /\ \A k \in DOMAIN map \ {key} : new[k] = map[k]
    BY <1>0 DEF IsWithout
  <1>2. IsFiniteSet(Holding(map, b)) /\ Count(map, b) \in Nat
    BY HoldingFinite
  <1>3. key \in Holding(map, b) <=> b \in ToSet(map[key])
    BY DEF Holding
  <1>4. Holding(new, b) = Holding(map, b) \ {key}
    BY <1>1 DEF Holding
  <1>5. Cardinality(Holding(map, b) \ {key})
            = IF key \in Holding(map, b) THEN Cardinality(Holding(map, b)) - 1
              ELSE Cardinality(Holding(map, b))
    BY <1>2, FS_RemoveElement
  <1> QED
    BY <1>2, <1>3, <1>4, <1>5 DEF Count, new

\* One list of the map is longer, by blocks it did not have.
Lengthened(K, new, map, key, more) ==
    /\ map \in Maps(K, Seq(Blocks)) /\ IsFiniteSet(DOMAIN map) /\ key \in DOMAIN map
    /\ more \in Seq(Blocks) /\ ToSet(map[key]) \cap ToSet(more) = {}
    /\ new = [map EXCEPT ![key] = @ \o more]

\* The longer list counts for them.
LEMMA CountExtended ==
  ASSUME NEW K, NEW map, NEW key, NEW more, NEW b, NEW new, Lengthened(K, new, map, key, more)
  PROVE  /\ new \in Maps(K, Seq(Blocks)) /\ IsWith(new, map, key, map[key] \o more)
         /\ Count(new, b) = Count(map, b) + IF b \in ToSet(more) THEN 1 ELSE 0
  <1> /\ map \in Maps(K, Seq(Blocks)) /\ IsFiniteSet(DOMAIN map) /\ key \in DOMAIN map
      /\ more \in Seq(Blocks) /\ ToSet(map[key]) \cap ToSet(more) = {}
    BY DEF Lengthened
  <1>1. DOMAIN map \in SUBSET K /\ map \in [DOMAIN map -> Seq(Blocks)] /\ map[key] \in Seq(Blocks)
    BY MapFacts
  <1>2. map[key] \o more \in Seq(Blocks) /\ ToSet(map[key] \o more) = ToSet(map[key]) \cup ToSet(more)
    BY <1>1, ConcatFacts
  <1> DEFINE longer == map[key] \o more
  <1>3. new = [map EXCEPT ![key] = longer] /\ longer \in Seq(Blocks)
    BY <1>2 DEF Lengthened
  <1> HIDE DEF longer
  <1>4. /\ DOMAIN new = DOMAIN map /\ new[key] = longer
        /\ \A k \in DOMAIN map \ {key} : new[k] = map[k]
    BY <1>1, <1>3
  <1>5. new \in [DOMAIN map -> Seq(Blocks)]
    BY <1>1, <1>3
  <1>6. new \in Maps(K, Seq(Blocks))
    BY <1>1, <1>5 DEF Maps
  <1>11. IsWith(new, map, key, longer)
    BY <1>4 DEF IsWith
  <1>7. IsFiniteSet(Holding(map, b)) /\ Count(map, b) \in Nat
    BY HoldingFinite
  <1>8. CASE b \in ToSet(more)
    <2>1. key \notin Holding(map, b)
      BY <1>8 DEF Holding
    <2>2. Holding(new, b) = Holding(map, b) \cup {key}
      BY <1>2, <1>4, <1>8 DEF Holding, longer
    <2>3. Count(new, b) = Count(map, b) + 1
      BY <1>7, <2>1, <2>2, FS_AddElement DEF Count
    <2> QED
      BY <1>6, <1>11, <1>8, <2>3 DEF longer
  <1>9. CASE b \notin ToSet(more)
    <2>1. Holding(new, b) = Holding(map, b)
      BY <1>2, <1>4, <1>9 DEF Holding, longer
    <2>2. Count(new, b) = Count(map, b)
      BY <2>1 DEF Count
    <2> QED
      BY <1>6, <1>11, <1>7, <1>9, <2>2 DEF longer
  <1> QED
    BY <1>8, <1>9

-----------------------------------------------------------------------------
(* Lists of records that belong to requests, and lists that lose an element. *)

\* The requests of a list.
Ids(list) == {x.request : x \in ToSet(list)}

\* No two elements of a list are of one request.
Once(list) == \A i, j \in 1 .. Len(list) : list[i].request = list[j].request => i = j

\* A list that grows at its end.
LEMMA AppendIds ==
  ASSUME NEW E, NEW list \in Seq(E), NEW x \in E
  PROVE  /\ Append(list, x) \in Seq(E) /\ Ids(Append(list, x)) = Ids(list) \cup {x.request}
         /\ Once(list) /\ x.request \notin Ids(list) => Once(Append(list, x))
  <1> DEFINE new == Append(list, x)
             n == Len(list)
  <1>1. n \in Nat /\ DOMAIN list = 1 .. n
    OBVIOUS
  <1>2. new \in Seq(E) /\ Len(new) = n + 1 /\ DOMAIN new = 1 .. n + 1
    OBVIOUS
  <1>3. new[n + 1] = x /\ \A i \in 1 .. n : new[i] = list[i]
    OBVIOUS
  <1> HIDE DEF new, n
  <1>4. \A i \in 1 .. n + 1 : i \in 1 .. n \/ i = n + 1
    BY <1>1
  <1>5. \A i \in 1 .. n : i \in 1 .. n + 1
    BY <1>1
  <1>6. n + 1 \in 1 .. n + 1
    BY <1>1
  <1>7. ToSet(new) = ToSet(list) \cup {x}
    BY <1>1, <1>2, <1>3, <1>4, <1>5, <1>6 DEF ToSet
  <1>8. Ids(new) = Ids(list) \cup {x.request}
    BY <1>7 DEF Ids
  <1>9. ASSUME Once(list), x.request \notin Ids(list) PROVE Once(new)
    <2>1. \A i \in 1 .. n : list[i].request # x.request
      BY <1>1, <1>9 DEF Ids, ToSet
    <2>2. \A i, j \in 1 .. n : list[i].request = list[j].request => i = j
      BY <1>9 DEF Once, n
    <2>3. \A i, j \in 1 .. n + 1 : new[i].request = new[j].request => i = j
      BY <1>3, <1>4, <2>1, <2>2
    <2> QED
      BY <1>2, <2>3 DEF Once
  <1> QED
    BY <1>2, <1>8, <1>9 DEF new

\* Two lists put together.
LEMMA ConcatIds ==
  ASSUME NEW E, NEW s \in Seq(E), NEW t \in Seq(E)
  PROVE  /\ s \o t \in Seq(E) /\ Ids(s \o t) = Ids(s) \cup Ids(t)
         /\ Once(s) /\ Once(t) /\ Ids(s) \cap Ids(t) = {} => Once(s \o t)
  <1> DEFINE m == Len(s)
             n == Len(t)
             c == s \o t
  <1>1. /\ m \in Nat /\ n \in Nat
        /\ DOMAIN s = 1 .. m /\ DOMAIN t = 1 .. n
    OBVIOUS
  <1>2. c \in Seq(E) /\ Len(c) = m + n /\ ToSet(c) = ToSet(s) \cup ToSet(t)
    BY ConcatFacts
  <1>3. \A i \in 1 .. m : c[i] = s[i]
    OBVIOUS
  <1>4. \A i \in 1 .. n : c[m + i] = t[i]
    OBVIOUS
  <1> HIDE DEF m, n, c
  <1>5. Ids(c) = Ids(s) \cup Ids(t)
    BY <1>2 DEF Ids
  <1>6. \A i \in 1 .. m + n : i \in 1 .. m \/ (i - m \in 1 .. n /\ i = m + (i - m))
    BY <1>1
  <1>7. \A i \in 1 .. m + n : (i \in 1 .. m /\ c[i] = s[i]) \/ (i - m \in 1 .. n /\ c[i] = t[i - m])
    BY <1>3, <1>4, <1>6
  <1>8. ASSUME Once(s), Once(t), Ids(s) \cap Ids(t) = {} PROVE Once(c)
    <2>1. SUFFICES ASSUME NEW i \in 1 .. m + n, NEW j \in 1 .. m + n, c[i].request = c[j].request
                   PROVE  i = j
      BY <1>2 DEF Once
    <2>2. \A a \in 1 .. m, b \in 1 .. n : s[a].request # t[b].request
      BY <1>1, <1>8 DEF Ids, ToSet
    <2>3. \A a, b \in 1 .. m : s[a].request = s[b].request => a = b
      BY <1>8 DEF Once, m
    <2>4. \A a, b \in 1 .. n : t[a].request = t[b].request => a = b
      BY <1>8 DEF Once, n
    <2>5. CASE i \in 1 .. m /\ c[i] = s[i] /\ j \in 1 .. m /\ c[j] = s[j]
      BY <2>1, <2>3, <2>5
    <2>6. CASE i - m \in 1 .. n /\ c[i] = t[i - m] /\ j - m \in 1 .. n /\ c[j] = t[j - m]
      <3>1. i - m = j - m
        BY <2>1, <2>4, <2>6
      <3> QED
        BY <1>1, <3>1
    <2> QED
      BY <1>7, <2>1, <2>2, <2>5, <2>6
  <1> QED
    BY <1>2, <1>5, <1>8 DEF c

\* RemoveAt takes one element out.
LEMMA RemoveFacts ==
  ASSUME NEW E, NEW list \in Seq(E), NEW n \in 1 .. Len(list), NEW new, new = RemoveAt(list, n)
  PROVE  /\ new \in Seq(E) /\ Len(new) = Len(list) - 1
         /\ \A i \in 1 .. Len(new) : new[i] = list[IF i < n THEN i ELSE i + 1]
  <1> DEFINE m == Len(list)
             s == SubSeq(list, 1, n - 1)
             t == SubSeq(list, n + 1, m)
  <1>1. m \in Nat /\ n \in Nat /\ 1 <= n /\ n <= m
    OBVIOUS
  <1>2. new = s \o t
    BY DEF RemoveAt
  <1>3. s \in Seq(E) /\ Len(s) = n - 1
    BY <1>1
  <1>4. t \in Seq(E) /\ Len(t) = m - n
    BY <1>1
  <1>5. \A i \in 1 .. n - 1 : s[i] = list[i]
    BY <1>1
  <1>6. \A i \in 1 .. m - n : t[i] = list[n + i]
    BY <1>1
  <1> HIDE DEF s, t, m
  <1>7. /\ new \in Seq(E) /\ Len(new) = (n - 1) + (m - n)
        /\ \A i \in 1 .. n - 1 : new[i] = s[i]
        /\ \A i \in 1 .. m - n : new[(n - 1) + i] = t[i]
    <2>1. new \in Seq(E) /\ Len(new) = Len(s) + Len(t)
      BY <1>2, <1>3, <1>4
    <2>2. \A i \in 1 .. Len(s) : new[i] = s[i]
      BY <1>2, <1>3, <1>4
    <2>3. \A i \in 1 .. Len(t) : new[Len(s) + i] = t[i]
      <3>1. s \in Seq(E) /\ t \in Seq(E)
        BY <1>3, <1>4
      <3> QED
        BY <1>2, <3>1
    <2> QED
      BY <1>3, <1>4, <2>1, <2>2, <2>3
  <1>8. Len(new) = m - 1
    BY <1>1, <1>7
  <1>9. ASSUME NEW i \in 1 .. m - 1 PROVE new[i] = list[IF i < n THEN i ELSE i + 1]
    <2>1. CASE i < n
      BY <1>1, <1>5, <1>7, <2>1
    <2>2. CASE ~(i < n)
      <3>1. PICK j \in 1 .. m - n : i = (n - 1) + j
        <4>1. i - (n - 1) \in 1 .. m - n /\ i = (n - 1) + (i - (n - 1))
          BY <1>1, <2>2
        <4> QED
          BY <4>1
      <3>2. new[i] = t[j] /\ t[j] = list[n + j]
        BY <1>6, <1>7, <3>1
      <3>3. n + j = i + 1
        BY <1>1, <3>1
      <3> QED
        BY <2>2, <3>2, <3>3
    <2> QED
      BY <2>1, <2>2
  <1> QED
    BY <1>7, <1>8, <1>9 DEF m

-----------------------------------------------------------------------------
(* The pool. *)

\* A cache whose sequences have keys in K and whose pins have keys in P.
Kv(K, P) ==
    [refcounts : [Blocks -> Int], freeList : Seq(Blocks),
     sequences : Maps(K, Seq(Blocks)), pins : Maps(P, Seq(Blocks))]

\* The blocks of the list have their counts moved by d.
Shifted(new, old, list, d) ==
    \A b \in Blocks : new[b] = old[b] + IF b \in ToSet(list) THEN d ELSE 0

\* A block is free exactly when its count is 0, and no block is on the stack twice.
Balanced(refcounts, freeList) ==
    /\ Injective(freeList)
    /\ \A b \in Blocks : refcounts[b] = 0 <=> b \in ToSet(freeList)

\* CheckInvariants, with what its counting rests on.
PoolInv(kv) ==
    /\ IsFiniteSet(DOMAIN kv.sequences) /\ IsFiniteSet(DOMAIN kv.pins)
    /\ \A b \in Blocks : kv.refcounts[b] = Count(kv.sequences, b) + Count(kv.pins, b)
    /\ Balanced(kv.refcounts, kv.freeList)
    /\ \A s \in DOMAIN kv.sequences : Injective(kv.sequences[s])
    /\ \A k \in DOMAIN kv.pins : Injective(kv.pins[k])

\* The fields of a cache.
LEMMA KvFields ==
  ASSUME NEW K, NEW P, NEW kv \in Kv(K, P)
  PROVE  /\ kv.refcounts \in [Blocks -> Int] /\ kv.freeList \in Seq(Blocks)
         /\ kv.sequences \in Maps(K, Seq(Blocks)) /\ kv.pins \in Maps(P, Seq(Blocks))
         /\ kv.sequences \in [DOMAIN kv.sequences -> Seq(Blocks)]
         /\ kv.pins \in [DOMAIN kv.pins -> Seq(Blocks)]
         /\ DOMAIN kv.sequences \in SUBSET K /\ DOMAIN kv.pins \in SUBSET P
  <1>1. /\ kv.refcounts \in [Blocks -> Int] /\ kv.freeList \in Seq(Blocks)
        /\ kv.sequences \in Maps(K, Seq(Blocks)) /\ kv.pins \in Maps(P, Seq(Blocks))
    BY DEF Kv
  <1>2. /\ kv.sequences \in [DOMAIN kv.sequences -> Seq(Blocks)]
        /\ DOMAIN kv.sequences \in SUBSET K
    BY <1>1, MapFacts
  <1>3. kv.pins \in [DOMAIN kv.pins -> Seq(Blocks)] /\ DOMAIN kv.pins \in SUBSET P
    BY <1>1, MapFacts
  <1> QED
    BY <1>1, <1>2, <1>3

\* The checker of the code is satisfied.
LEMMA PoolIsConsistent ==
  ASSUME NEW K, NEW P, NEW kv \in Kv(K, P), PoolInv(kv)
  PROVE  CheckInvariants(kv)
  <1>1. /\ kv.freeList \in Seq(Blocks)
        /\ kv.sequences \in [DOMAIN kv.sequences -> Seq(Blocks)]
        /\ kv.pins \in [DOMAIN kv.pins -> Seq(Blocks)]
    BY KvFields
  <1>2. ASSUME NEW b \in Blocks
        PROVE  kv.refcounts[b] = Holders(kv, b) /\ (kv.refcounts[b] = 0) = (b \in ToSet(kv.freeList))
    <2>1. kv.refcounts[b] = Holders(kv, b)
      BY DEF PoolInv, Holders, Count, Holding
    <2>2. kv.refcounts[b] = 0 <=> b \in ToSet(kv.freeList)
      BY DEF PoolInv, Balanced
    <2> QED
      BY <2>1, <2>2
  <1>3. Distinct(kv.freeList)
    BY <1>1, DistinctIsInjective DEF PoolInv, Balanced
  <1>4. ASSUME NEW s \in DOMAIN kv.sequences PROVE Distinct(kv.sequences[s])
    <2>1. kv.sequences[s] \in Seq(Blocks) /\ Injective(kv.sequences[s])
      BY <1>1 DEF PoolInv
    <2> QED
      BY <2>1, DistinctIsInjective
  <1>5. ASSUME NEW k \in DOMAIN kv.pins PROVE Distinct(kv.pins[k])
    <2>1. kv.pins[k] \in Seq(Blocks) /\ Injective(kv.pins[k])
      BY <1>1 DEF PoolInv
    <2> QED
      BY <2>1, DistinctIsInjective
  <1> QED
    BY <1>2, <1>3, <1>4, <1>5 DEF CheckInvariants

\* Retain moves counts only.
LEMMA RetainFacts ==
  ASSUME NEW K, NEW P, NEW kv \in Kv(K, P), NEW list, NEW new, new = Retain(kv, list)
  PROVE  /\ new \in Kv(K, P)
         /\ Shifted(new.refcounts, kv.refcounts, list, 1) /\ new.freeList = kv.freeList
         /\ new.sequences = kv.sequences /\ new.pins = kv.pins
  <1> DEFINE counts == [b \in Blocks |-> IF b \in ToSet(list) THEN kv.refcounts[b] + 1
                                                              ELSE kv.refcounts[b]]
  <1>1. new = [kv EXCEPT !.refcounts = counts]
    BY DEF Retain
  <1>2. counts \in [Blocks -> Int] /\ Shifted(counts, kv.refcounts, list, 1)
    BY KvFields DEF Shifted
  <1> HIDE DEF counts
  <1>3. /\ new \in Kv(K, P) /\ new.refcounts = counts /\ new.freeList = kv.freeList
        /\ new.sequences = kv.sequences /\ new.pins = kv.pins
    BY <1>1, <1>2 DEF Kv
  <1> QED
    BY <1>2, <1>3

\* The blocks with one holder left.
LastHeld(kv) == {b \in Blocks : kv.refcounts[b] = 1}

\* Release moves counts and stacks the blocks whose last holder is gone.
LEMMA ReleaseFacts ==
  ASSUME NEW K, NEW P, NEW kv \in Kv(K, P), NEW list \in Seq(Blocks), NEW new, new = Release(kv, list)
  PROVE  /\ new \in Kv(K, P)
         /\ Shifted(new.refcounts, kv.refcounts, list, -1)
         /\ new.freeList = kv.freeList \o Keep(list, LastHeld(kv))
         /\ new.sequences = kv.sequences /\ new.pins = kv.pins
  <1> DEFINE counts == [b \in Blocks |-> IF b \in ToSet(list) THEN kv.refcounts[b] - 1
                                                              ELSE kv.refcounts[b]]
             stack == kv.freeList \o Keep(list, LastHeld(kv))
  <1>1. new = [kv EXCEPT !.refcounts = counts, !.freeList = stack]
    BY DEF Release, LastHeld
  <1>2. counts \in [Blocks -> Int] /\ Shifted(counts, kv.refcounts, list, -1)
    BY KvFields DEF Shifted
  <1>3. stack \in Seq(Blocks)
    BY KvFields, KeepFacts, ConcatFacts
  <1> HIDE DEF counts, stack
  <1>4. /\ new \in Kv(K, P) /\ new.refcounts = counts /\ new.freeList = stack
        /\ new.sequences = kv.sequences /\ new.pins = kv.pins
    BY <1>1, <1>2, <1>3 DEF Kv
  <1> QED
    BY <1>2, <1>4 DEF stack

\* Blocks without holders are on the stack again.
LEMMA ReleaseBalanced ==
  ASSUME NEW K, NEW P, NEW kv \in Kv(K, P), NEW list \in Seq(Blocks), NEW new, new = Release(kv, list),
         Injective(list), Balanced(kv.refcounts, kv.freeList),
         \A b \in ToSet(list) : kv.refcounts[b] >= 1
  PROVE  Balanced(new.refcounts, new.freeList)
  <1> DEFINE back == Keep(list, LastHeld(kv))
  <1>1. /\ kv.refcounts \in [Blocks -> Int] /\ kv.freeList \in Seq(Blocks)
        /\ ToSet(list) \subseteq Blocks
    BY KvFields DEF ToSet
  <1>2. Shifted(new.refcounts, kv.refcounts, list, -1) /\ new.freeList = kv.freeList \o back
    BY ReleaseFacts
  <1>3. back \in Seq(Blocks) /\ ToSet(back) = ToSet(list) \cap LastHeld(kv) /\ Injective(back)
    BY KeepFacts
  <1> HIDE DEF back
  <1>4. ToSet(kv.freeList) \cap ToSet(back) = {}
    BY <1>1, <1>3 DEF Balanced, LastHeld
  <1>5. ToSet(new.freeList) = ToSet(kv.freeList) \cup ToSet(back) /\ Injective(new.freeList)
    BY <1>1, <1>2, <1>3, <1>4, ConcatFacts DEF Balanced
  <1>6. ASSUME NEW b \in Blocks PROVE new.refcounts[b] = 0 <=> b \in ToSet(new.freeList)
    <2>1. kv.refcounts[b] \in Int /\ (kv.refcounts[b] = 0 <=> b \in ToSet(kv.freeList))
      BY <1>1 DEF Balanced
    <2>2. new.refcounts[b] = kv.refcounts[b] + IF b \in ToSet(list) THEN -1 ELSE 0
      BY <1>2 DEF Shifted
    <2>3. b \in ToSet(back) <=> b \in ToSet(list) /\ kv.refcounts[b] = 1
      BY <1>3 DEF LastHeld
    <2>4. b \in ToSet(list) => kv.refcounts[b] >= 1
      OBVIOUS
    <2> QED
      BY <1>5, <2>1, <2>2, <2>3, <2>4
  <1> QED
    BY <1>5, <1>6 DEF Balanced

\* What a holder holds has a count.
LEMMA HeldIsCounted ==
  ASSUME NEW K, NEW P, NEW kv \in Kv(K, P), PoolInv(kv)
  PROVE  /\ \A b \in Blocks : kv.refcounts[b] \in Nat
         /\ \A s \in DOMAIN kv.sequences : \A b \in ToSet(kv.sequences[s]) : b \in Blocks /\ kv.refcounts[b] >= 1
         /\ \A k \in DOMAIN kv.pins : \A b \in ToSet(kv.pins[k]) : b \in Blocks /\ kv.refcounts[b] >= 1
  <1>1. /\ kv.sequences \in [DOMAIN kv.sequences -> Seq(Blocks)]
        /\ kv.pins \in [DOMAIN kv.pins -> Seq(Blocks)]
        /\ IsFiniteSet(DOMAIN kv.sequences) /\ IsFiniteSet(DOMAIN kv.pins)
        /\ \A b \in Blocks : kv.refcounts[b] = Count(kv.sequences, b) + Count(kv.pins, b)
    BY KvFields DEF PoolInv
  <1>2. \A b : Count(kv.sequences, b) \in Nat /\ (Count(kv.sequences, b) = 0 <=> Holding(kv.sequences, b) = {})
    BY <1>1, HoldingFinite
  <1>3. \A b : Count(kv.pins, b) \in Nat /\ (Count(kv.pins, b) = 0 <=> Holding(kv.pins, b) = {})
    BY <1>1, HoldingFinite
  <1>4. ASSUME NEW s \in DOMAIN kv.sequences, NEW b \in ToSet(kv.sequences[s])
        PROVE  b \in Blocks /\ kv.refcounts[b] >= 1
    <2>1. b \in Blocks
      BY <1>1 DEF ToSet
    <2>2. s \in Holding(kv.sequences, b)
      BY DEF Holding
    <2> QED
      BY <1>1, <1>2, <1>3, <2>1, <2>2
  <1>5. ASSUME NEW k \in DOMAIN kv.pins, NEW b \in ToSet(kv.pins[k])
        PROVE  b \in Blocks /\ kv.refcounts[b] >= 1
    <2>1. b \in Blocks
      BY <1>1 DEF ToSet
    <2>2. k \in Holding(kv.pins, b)
      BY DEF Holding
    <2> QED
      BY <1>1, <1>2, <1>3, <2>1, <2>2
  <1> QED
    BY <1>1, <1>2, <1>3, <1>4, <1>5

\* Free takes the sequence out and releases its blocks.
LEMMA FreeFacts ==
  ASSUME NEW K, NEW P, NEW kv \in Kv(K, P), NEW s, NEW new, new = Free(kv, s)
  PROVE  /\ new \in Kv(K, P) /\ new.pins = kv.pins
         /\ IsWithout(new.sequences, kv.sequences, s)
         /\ PoolInv(kv) => PoolInv(new)
  <1>1. CASE s \notin DOMAIN kv.sequences
    <2>1. new = kv
      BY <1>1 DEF Free
    <2> QED
      BY <1>1, <2>1 DEF IsWithout
  <1>2. CASE s \in DOMAIN kv.sequences
    <2> DEFINE list == kv.sequences[s]
               mid == Release(kv, list)
               left == Without(kv.sequences, s)
    <2>1. /\ kv.sequences \in Maps(K, Seq(Blocks)) /\ kv.pins \in Maps(P, Seq(Blocks))
          /\ list \in Seq(Blocks) /\ kv.refcounts \in [Blocks -> Int]
      BY <1>2, KvFields
    <2>2. new = [mid EXCEPT !.sequences = Without(mid.sequences, s)]
      BY <1>2 DEF Free
    <2>3. /\ mid \in Kv(K, P) /\ Shifted(mid.refcounts, kv.refcounts, list, -1)
          /\ mid.sequences = kv.sequences /\ mid.pins = kv.pins
      BY <2>1, ReleaseFacts
    <2>4. left \in Maps(K, Seq(Blocks)) /\ IsWithout(left, kv.sequences, s)
      BY <2>1, WithoutFacts
    <2>5. PoolInv(kv) => Balanced(mid.refcounts, mid.freeList)
      <3> SUFFICES ASSUME PoolInv(kv) PROVE Balanced(mid.refcounts, mid.freeList)
        OBVIOUS
      <3>1. Injective(list) /\ Balanced(kv.refcounts, kv.freeList)
        BY <1>2 DEF PoolInv
      <3>2. \A b \in ToSet(list) : kv.refcounts[b] >= 1
        BY <1>2, HeldIsCounted
      <3> QED
        BY <2>1, <3>1, <3>2, ReleaseBalanced
    <2>6. PoolInv(kv) => \A b \in Blocks : Count(left, b) = Count(kv.sequences, b) - IF b \in ToSet(list) THEN 1 ELSE 0
      BY <1>2, <2>1, CountWithout DEF PoolInv
    <2> HIDE DEF mid, left, list
    <2>7. /\ new \in Kv(K, P) /\ new.pins = kv.pins /\ new.sequences = left
          /\ new.refcounts = mid.refcounts /\ new.freeList = mid.freeList
      <3>1. new = [mid EXCEPT !.sequences = left]
        BY <2>2, <2>3 DEF left
      <3> QED
        BY <2>3, <2>4, <3>1 DEF Kv
    <2>8. ASSUME PoolInv(kv) PROVE PoolInv(new)
      <3>1. /\ IsFiniteSet(DOMAIN kv.sequences) /\ IsFiniteSet(DOMAIN kv.pins)
            /\ \A b \in Blocks : kv.refcounts[b] = Count(kv.sequences, b) + Count(kv.pins, b)
            /\ \A k \in DOMAIN kv.sequences : Injective(kv.sequences[k])
            /\ \A k \in DOMAIN kv.pins : Injective(kv.pins[k])
        BY <2>8 DEF PoolInv
      <3>2. DOMAIN left = DOMAIN kv.sequences \ {s} /\ \A k \in DOMAIN left : Injective(left[k])
        BY <2>4, <3>1 DEF IsWithout
      <3>3. IsFiniteSet(DOMAIN left)
        BY <3>1, <3>2, FS_RemoveElement
      <3>4. ASSUME NEW b \in Blocks PROVE new.refcounts[b] = Count(left, b) + Count(kv.pins, b)
        <4>1. mid.refcounts[b] = kv.refcounts[b] + IF b \in ToSet(list) THEN -1 ELSE 0
          BY <2>3 DEF Shifted
        <4>2. Count(left, b) = Count(kv.sequences, b) - IF b \in ToSet(list) THEN 1 ELSE 0
          BY <2>6, <2>8
        <4>3. Count(kv.sequences, b) \in Nat /\ Count(kv.pins, b) \in Nat
          BY <3>1, HoldingFinite
        <4>4. kv.refcounts[b] = Count(kv.sequences, b) + Count(kv.pins, b)
          BY <3>1
        <4> QED
          BY <2>7, <4>1, <4>2, <4>3, <4>4
      <3> QED
        BY <2>5, <2>7, <2>8, <3>1, <3>2, <3>3, <3>4 DEF PoolInv
    <2> QED
      BY <2>4, <2>7, <2>8
  <1> QED
    BY <1>1, <1>2

\* UnpinPrefix takes the pin out and releases its blocks.
LEMMA UnpinFacts ==
  ASSUME NEW K, NEW P, NEW kv \in Kv(K, P), NEW s, NEW new, new = UnpinPrefix(kv, s)
  PROVE  /\ new \in Kv(K, P) /\ new.sequences = kv.sequences
         /\ IsWithout(new.pins, kv.pins, s)
         /\ PoolInv(kv) => PoolInv(new)
  <1>1. CASE s \notin DOMAIN kv.pins
    <2>1. new = kv
      BY <1>1 DEF UnpinPrefix
    <2> QED
      BY <1>1, <2>1 DEF IsWithout
  <1>2. CASE s \in DOMAIN kv.pins
    <2> DEFINE list == kv.pins[s]
               mid == Release(kv, list)
               left == Without(kv.pins, s)
    <2>1. /\ kv.sequences \in Maps(K, Seq(Blocks)) /\ kv.pins \in Maps(P, Seq(Blocks))
          /\ list \in Seq(Blocks) /\ kv.refcounts \in [Blocks -> Int]
      BY <1>2, KvFields
    <2>2. new = [mid EXCEPT !.pins = Without(mid.pins, s)]
      BY <1>2 DEF UnpinPrefix
    <2>3. /\ mid \in Kv(K, P) /\ Shifted(mid.refcounts, kv.refcounts, list, -1)
          /\ mid.sequences = kv.sequences /\ mid.pins = kv.pins
      BY <2>1, ReleaseFacts
    <2>4. left \in Maps(P, Seq(Blocks)) /\ IsWithout(left, kv.pins, s)
      BY <2>1, WithoutFacts
    <2>5. PoolInv(kv) => Balanced(mid.refcounts, mid.freeList)
      <3> SUFFICES ASSUME PoolInv(kv) PROVE Balanced(mid.refcounts, mid.freeList)
        OBVIOUS
      <3>1. Injective(list) /\ Balanced(kv.refcounts, kv.freeList)
        BY <1>2 DEF PoolInv
      <3>2. \A b \in ToSet(list) : kv.refcounts[b] >= 1
        BY <1>2, HeldIsCounted
      <3> QED
        BY <2>1, <3>1, <3>2, ReleaseBalanced
    <2>6. PoolInv(kv) => \A b \in Blocks : Count(left, b) = Count(kv.pins, b) - IF b \in ToSet(list) THEN 1 ELSE 0
      BY <1>2, <2>1, CountWithout DEF PoolInv
    <2> HIDE DEF mid, left, list
    <2>7. /\ new \in Kv(K, P) /\ new.sequences = kv.sequences /\ new.pins = left
          /\ new.refcounts = mid.refcounts /\ new.freeList = mid.freeList
      <3>1. new = [mid EXCEPT !.pins = left]
        BY <2>2, <2>3 DEF left
      <3> QED
        BY <2>3, <2>4, <3>1 DEF Kv
    <2>8. ASSUME PoolInv(kv) PROVE PoolInv(new)
      <3>1. /\ IsFiniteSet(DOMAIN kv.sequences) /\ IsFiniteSet(DOMAIN kv.pins)
            /\ \A b \in Blocks : kv.refcounts[b] = Count(kv.sequences, b) + Count(kv.pins, b)
            /\ \A k \in DOMAIN kv.sequences : Injective(kv.sequences[k])
            /\ \A k \in DOMAIN kv.pins : Injective(kv.pins[k])
        BY <2>8 DEF PoolInv
      <3>2. DOMAIN left = DOMAIN kv.pins \ {s} /\ \A k \in DOMAIN left : Injective(left[k])
        BY <2>4, <3>1 DEF IsWithout
      <3>3. IsFiniteSet(DOMAIN left)
        BY <3>1, <3>2, FS_RemoveElement
      <3>4. ASSUME NEW b \in Blocks PROVE new.refcounts[b] = Count(kv.sequences, b) + Count(left, b)
        <4>1. mid.refcounts[b] = kv.refcounts[b] + IF b \in ToSet(list) THEN -1 ELSE 0
          BY <2>3 DEF Shifted
        <4>2. Count(left, b) = Count(kv.pins, b) - IF b \in ToSet(list) THEN 1 ELSE 0
          BY <2>6, <2>8
        <4>3. Count(kv.sequences, b) \in Nat /\ Count(kv.pins, b) \in Nat
          BY <3>1, HoldingFinite
        <4>4. kv.refcounts[b] = Count(kv.sequences, b) + Count(kv.pins, b)
          BY <3>1
        <4> QED
          BY <2>7, <4>1, <4>2, <4>3, <4>4
      <3> QED
        BY <2>5, <2>7, <2>8, <3>1, <3>2, <3>3, <3>4 DEF PoolInv
    <2> QED
      BY <2>4, <2>7, <2>8
  <1> QED
    BY <1>1, <1>2

\* One more holder for blocks that have one leaves the stack right.
LEMMA RetainBalanced ==
  ASSUME NEW K, NEW P, NEW kv \in Kv(K, P), PoolInv(kv), NEW list \in Seq(Blocks), Sharable(kv, list),
         NEW new, new = Retain(kv, list)
  PROVE  Balanced(new.refcounts, new.freeList)
  <1>1. Shifted(new.refcounts, kv.refcounts, list, 1) /\ new.freeList = kv.freeList
    BY RetainFacts
  <1>2. \A b \in Blocks : kv.refcounts[b] \in Nat
    BY HeldIsCounted
  <1>3. \A b \in ToSet(list) : kv.refcounts[b] > 0
    BY DEF Sharable
  <1>4. Balanced(kv.refcounts, kv.freeList)
    BY DEF PoolInv
  <1>5. ASSUME NEW b \in Blocks PROVE new.refcounts[b] = 0 <=> kv.refcounts[b] = 0
    <2>1. new.refcounts[b] = kv.refcounts[b] + IF b \in ToSet(list) THEN 1 ELSE 0
      BY <1>1 DEF Shifted
    <2> QED
      BY <1>2, <1>3, <2>1
  <1> QED
    BY <1>1, <1>4, <1>5 DEF Balanced

\* PinPrefix adds the pin, or does nothing.
LEMMA PinFacts ==
  ASSUME NEW K, NEW P, NEW kv \in Kv(K, P), NEW key \in P, NEW list \in Seq(Blocks),
         NEW new, new = PinPrefix(kv, key, list)
  PROVE  /\ new \in Kv(K, P) /\ new.sequences = kv.sequences
         /\ CanPin(kv, key, list) => IsWith(new.pins, kv.pins, key, list)
         /\ PoolInv(kv) => PoolInv(new)
  <1>1. CASE ~CanPin(kv, key, list)
    BY <1>1 DEF PinPrefix
  <1>2. CASE CanPin(kv, key, list)
    <2> DEFINE mid == Retain(kv, list)
               more == With(kv.pins, key, list)
    <2>1. kv.sequences \in Maps(K, Seq(Blocks)) /\ kv.pins \in Maps(P, Seq(Blocks))
      BY KvFields
    <2>2. key \notin DOMAIN kv.pins /\ Sharable(kv, list)
      BY <1>2 DEF CanPin
    <2>3. new = [mid EXCEPT !.pins = With(mid.pins, key, list)]
      BY <1>2 DEF PinPrefix
    <2>4. /\ mid \in Kv(K, P) /\ Shifted(mid.refcounts, kv.refcounts, list, 1)
          /\ mid.sequences = kv.sequences /\ mid.pins = kv.pins
      BY RetainFacts
    <2>5. more \in Maps(P, Seq(Blocks)) /\ IsWith(more, kv.pins, key, list)
      BY <2>1, WithFacts
    <2>6. PoolInv(kv) => Balanced(mid.refcounts, mid.freeList)
      BY <2>2, RetainBalanced
    <2>7. PoolInv(kv) => \A b \in Blocks : Count(more, b) = Count(kv.pins, b) + IF b \in ToSet(list) THEN 1 ELSE 0
      BY <2>1, <2>2, CountWith DEF PoolInv
    <2> HIDE DEF mid, more
    <2>8. /\ new \in Kv(K, P) /\ new.sequences = kv.sequences /\ new.pins = more
          /\ new.refcounts = mid.refcounts /\ new.freeList = mid.freeList
      <3>1. new = [mid EXCEPT !.pins = more]
        BY <2>3, <2>4 DEF more
      <3> QED
        BY <2>4, <2>5, <3>1 DEF Kv
    <2>9. ASSUME PoolInv(kv) PROVE PoolInv(new)
      <3>1. /\ IsFiniteSet(DOMAIN kv.sequences) /\ IsFiniteSet(DOMAIN kv.pins)
            /\ \A b \in Blocks : kv.refcounts[b] = Count(kv.sequences, b) + Count(kv.pins, b)
            /\ \A k \in DOMAIN kv.sequences : Injective(kv.sequences[k])
            /\ \A k \in DOMAIN kv.pins : Injective(kv.pins[k])
        BY <2>9 DEF PoolInv
      <3>2. Injective(list)
        BY <2>2, DistinctIsInjective DEF Sharable
      <3>3. DOMAIN more = DOMAIN kv.pins \cup {key} /\ \A k \in DOMAIN more : Injective(more[k])
        BY <2>5, <3>1, <3>2 DEF IsWith
      <3>4. IsFiniteSet(DOMAIN more)
        <4>1. IsFiniteSet(DOMAIN kv.pins)
          BY <3>1
        <4>2. IsFiniteSet(DOMAIN kv.pins \cup {key})
          BY <4>1, FS_AddElement
        <4> QED
          BY <3>3, <4>2
      <3>5. ASSUME NEW b \in Blocks PROVE new.refcounts[b] = Count(kv.sequences, b) + Count(more, b)
        <4>1. mid.refcounts[b] = kv.refcounts[b] + IF b \in ToSet(list) THEN 1 ELSE 0
          BY <2>4 DEF Shifted
        <4>2. Count(more, b) = Count(kv.pins, b) + IF b \in ToSet(list) THEN 1 ELSE 0
          BY <2>7, <2>9
        <4>3. Count(kv.sequences, b) \in Nat /\ Count(kv.pins, b) \in Nat
          BY <3>1, HoldingFinite
        <4>4. kv.refcounts[b] = Count(kv.sequences, b) + Count(kv.pins, b)
          BY <3>1
        <4> QED
          BY <2>8, <4>1, <4>2, <4>3, <4>4
      <3> QED
        BY <2>6, <2>8, <2>9, <3>1, <3>3, <3>4, <3>5 DEF PoolInv
    <2> QED
      BY <2>5, <2>8, <2>9
  <1> QED
    BY <1>1, <1>2

\* PopBlocks takes the top of the stack.
LEMMA PopFacts ==
  ASSUME NEW K, NEW P, NEW kv \in Kv(K, P), NEW n \in Nat, n <= Len(kv.freeList),
         Balanced(kv.refcounts, kv.freeList),
         NEW top, top = TopBlocks(kv, n), NEW new, new = PopBlocks(kv, n)
  PROVE  /\ new \in Kv(K, P) /\ new.sequences = kv.sequences /\ new.pins = kv.pins
         /\ top \in Seq(Blocks) /\ Len(top) = n /\ Injective(top)
         /\ \A b \in ToSet(top) : b \in Blocks /\ kv.refcounts[b] = 0
         /\ Shifted(new.refcounts, kv.refcounts, top, 1)
         /\ Balanced(new.refcounts, new.freeList)
  <1> DEFINE rest == SubSeq(kv.freeList, 1, Len(kv.freeList) - n)
             counts == [b \in Blocks |-> IF b \in ToSet(top) THEN 1 ELSE kv.refcounts[b]]
  <1>1. kv.refcounts \in [Blocks -> Int] /\ kv.freeList \in Seq(Blocks)
    BY KvFields
  <1>2. new = [kv EXCEPT !.freeList = rest, !.refcounts = counts]
    BY DEF PopBlocks
  <1>3. /\ top \in Seq(Blocks) /\ Len(top) = n /\ rest \in Seq(Blocks)
        /\ Parts(kv.freeList, top, rest)
    BY <1>1, TopFacts
  <1>4. counts \in [Blocks -> Int] /\ \A b \in Blocks : counts[b] = IF b \in ToSet(top) THEN 1 ELSE kv.refcounts[b]
    BY <1>1
  <1> HIDE DEF rest, counts
  <1>5. /\ new \in Kv(K, P) /\ new.sequences = kv.sequences /\ new.pins = kv.pins
        /\ new.refcounts = counts /\ new.freeList = rest
    BY <1>2, <1>3, <1>4 DEF Kv
  <1>6. /\ Injective(top) /\ Injective(rest) /\ ToSet(rest) \cap ToSet(top) = {}
        /\ ToSet(kv.freeList) = ToSet(rest) \cup ToSet(top)
    BY <1>3 DEF Parts, Balanced
  <1>7. ASSUME NEW b \in ToSet(top) PROVE b \in Blocks /\ kv.refcounts[b] = 0
    <2>1. b \in Blocks
      BY <1>3 DEF ToSet
    <2> QED
      BY <1>6, <2>1 DEF Balanced
  <1>8. Shifted(counts, kv.refcounts, top, 1)
    <2> SUFFICES ASSUME NEW b \in Blocks
                 PROVE  counts[b] = kv.refcounts[b] + IF b \in ToSet(top) THEN 1 ELSE 0
      BY DEF Shifted
    <2>1. kv.refcounts[b] \in Int
      BY <1>1
    <2>2. CASE b \in ToSet(top)
      BY <1>4, <1>7, <2>2
    <2>3. CASE b \notin ToSet(top)
      BY <1>4, <2>1, <2>3
    <2> QED
      BY <2>2, <2>3
  <1>9. Balanced(counts, rest)
    <2>1. ASSUME NEW b \in Blocks PROVE counts[b] = 0 <=> b \in ToSet(rest)
      <3>1. kv.refcounts[b] = 0 <=> b \in ToSet(rest) \cup ToSet(top)
        BY <1>6 DEF Balanced
      <3>2. CASE b \in ToSet(top)
        BY <1>4, <1>6, <3>2
      <3>3. CASE b \notin ToSet(top)
        BY <1>4, <3>1, <3>3
      <3> QED
        BY <3>2, <3>3
    <2> QED
      BY <1>6, <2>1 DEF Balanced
  <1> QED
    BY <1>3, <1>5, <1>6, <1>7, <1>8, <1>9

\* Allocate gives a new sequence its shared blocks and fresh ones, which nobody held.
LEMMA AllocateFacts ==
  ASSUME NEW K, NEW P, NEW kv \in Kv(K, P), PoolInv(kv), NEW s \in K, s \notin DOMAIN kv.sequences,
         NEW required \in Nat, NEW shared \in Seq(Blocks),
         AllocateStatus(kv, required, shared) = "allocated",
         NEW top, top = TopBlocks(kv, required - Len(shared)),
         NEW new, new = Allocate(kv, s, required, shared)
  PROVE  /\ new \in Kv(K, P) /\ new.pins = kv.pins /\ PoolInv(new)
         /\ IsWith(new.sequences, kv.sequences, s, shared \o top)
         /\ shared \o top \in Seq(Blocks) /\ Len(shared \o top) = required
         /\ Len(shared) <= required /\ Injective(shared \o top)
         /\ \A b \in ToSet(top) : b \in Blocks /\ kv.refcounts[b] = 0
  <1> DEFINE fresh == required - Len(shared)
             mid == Retain(kv, shared)
             popped == PopBlocks(mid, fresh)
             all == shared \o top
             more == With(kv.sequences, s, all)
  <1>1. /\ kv.refcounts \in [Blocks -> Int] /\ kv.freeList \in Seq(Blocks)
        /\ kv.sequences \in Maps(K, Seq(Blocks)) /\ kv.pins \in Maps(P, Seq(Blocks))
    BY KvFields
  <1>2. ~(Len(shared) > required) /\ Sharable(kv, shared) /\ ~(Len(kv.freeList) < required - Len(shared))
    BY DEF AllocateStatus
  <1>3. Len(shared) \in Nat /\ fresh \in Nat /\ fresh <= Len(kv.freeList) /\ Len(shared) <= required
    BY <1>1, <1>2
  <1>4. new = [popped EXCEPT !.sequences = With(popped.sequences, s, all)]
    BY DEF Allocate
  <1>5. /\ mid \in Kv(K, P) /\ Shifted(mid.refcounts, kv.refcounts, shared, 1)
        /\ mid.freeList = kv.freeList /\ mid.sequences = kv.sequences /\ mid.pins = kv.pins
    BY RetainFacts
  <1>6. Balanced(mid.refcounts, mid.freeList)
    BY <1>2, RetainBalanced
  <1>7. top = TopBlocks(mid, fresh)
    BY <1>5 DEF TopBlocks
  <1> HIDE DEF mid, fresh
  <1>8. /\ popped \in Kv(K, P) /\ popped.sequences = mid.sequences /\ popped.pins = mid.pins
        /\ top \in Seq(Blocks) /\ Len(top) = fresh /\ Injective(top)
        /\ \A b \in ToSet(top) : b \in Blocks /\ mid.refcounts[b] = 0
        /\ Shifted(popped.refcounts, mid.refcounts, top, 1)
        /\ Balanced(popped.refcounts, popped.freeList)
    BY <1>3, <1>5, <1>6, <1>7, PopFacts
  <1> HIDE DEF popped
  <1>9. \A b \in Blocks : kv.refcounts[b] \in Nat
    BY HeldIsCounted
  <1>10. ASSUME NEW b \in ToSet(top) PROVE b \in Blocks /\ kv.refcounts[b] = 0 /\ b \notin ToSet(shared)
    <2>1. b \in Blocks /\ mid.refcounts[b] = 0
      BY <1>8
    <2>2. mid.refcounts[b] = kv.refcounts[b] + IF b \in ToSet(shared) THEN 1 ELSE 0
      BY <1>5, <2>1 DEF Shifted
    <2> QED
      BY <1>9, <2>1, <2>2
  <1>11. Injective(shared)
    BY <1>2, DistinctIsInjective DEF Sharable
  <1>12. /\ all \in Seq(Blocks) /\ Len(all) = Len(shared) + Len(top) /\ Injective(all)
         /\ ToSet(all) = ToSet(shared) \cup ToSet(top)
    <2>1. ToSet(shared) \cap ToSet(top) = {}
      BY <1>10
    <2> QED
      BY <1>8, <1>11, <2>1, ConcatFacts
  <1>13. Len(all) = required
    BY <1>3, <1>8, <1>12 DEF fresh
  <1> HIDE DEF all
  <1>14. more \in Maps(K, Seq(Blocks)) /\ IsWith(more, kv.sequences, s, all)
    BY <1>1, <1>12, WithFacts
  <1>15. \A b \in Blocks : Count(more, b) = Count(kv.sequences, b) + IF b \in ToSet(all) THEN 1 ELSE 0
    BY <1>1, <1>12, CountWith DEF PoolInv
  <1> HIDE DEF more
  <1>16. /\ new \in Kv(K, P) /\ new.pins = kv.pins /\ new.sequences = more
         /\ new.refcounts = popped.refcounts /\ new.freeList = popped.freeList
    <2>1. new = [popped EXCEPT !.sequences = more]
      BY <1>4, <1>5, <1>8 DEF more
    <2> QED
      BY <1>5, <1>8, <1>14, <2>1 DEF Kv
  <1>17. PoolInv(new)
    <2>1. /\ IsFiniteSet(DOMAIN kv.sequences) /\ IsFiniteSet(DOMAIN kv.pins)
          /\ \A b \in Blocks : kv.refcounts[b] = Count(kv.sequences, b) + Count(kv.pins, b)
          /\ \A k \in DOMAIN kv.sequences : Injective(kv.sequences[k])
          /\ \A k \in DOMAIN kv.pins : Injective(kv.pins[k])
      BY DEF PoolInv
    <2>2. DOMAIN more = DOMAIN kv.sequences \cup {s} /\ \A k \in DOMAIN more : Injective(more[k])
      BY <1>12, <1>14, <2>1 DEF IsWith
    <2>3. IsFiniteSet(DOMAIN more)
      <3>1. IsFiniteSet(DOMAIN kv.sequences \cup {s})
        BY <2>1, FS_AddElement
      <3> QED
        BY <2>2, <3>1
    <2>4. ASSUME NEW b \in Blocks PROVE new.refcounts[b] = Count(more, b) + Count(kv.pins, b)
      <3>1. mid.refcounts[b] = kv.refcounts[b] + IF b \in ToSet(shared) THEN 1 ELSE 0
        BY <1>5 DEF Shifted
      <3>2. popped.refcounts[b] = mid.refcounts[b] + IF b \in ToSet(top) THEN 1 ELSE 0
        BY <1>8 DEF Shifted
      <3>3. Count(more, b) = Count(kv.sequences, b) + IF b \in ToSet(all) THEN 1 ELSE 0
        BY <1>15
      <3>4. Count(kv.sequences, b) \in Nat /\ Count(kv.pins, b) \in Nat
        BY <2>1, HoldingFinite
      <3>5. kv.refcounts[b] = Count(kv.sequences, b) + Count(kv.pins, b)
        BY <2>1
      <3>6. /\ b \in ToSet(all) <=> b \in ToSet(shared) \/ b \in ToSet(top)
            /\ ~(b \in ToSet(shared) /\ b \in ToSet(top))
        BY <1>10, <1>12
      <3> QED
        BY <1>16, <3>1, <3>2, <3>3, <3>4, <3>5, <3>6
    <2> QED
      BY <1>8, <1>16, <2>1, <2>2, <2>3, <2>4 DEF PoolInv
  <1> QED
    BY <1>3, <1>10, <1>12, <1>13, <1>14, <1>16, <1>17 DEF all

\* AppendBlocks gives a sequence fresh blocks, which nobody held.
LEMMA AppendFacts ==
  ASSUME NEW K, NEW P, NEW kv \in Kv(K, P), PoolInv(kv), NEW s, NEW n \in Nat, CanAppend(kv, s, n),
         NEW top, top = TopBlocks(kv, n), NEW new, new = AppendBlocks(kv, s, n)
  PROVE  /\ new \in Kv(K, P) /\ new.pins = kv.pins /\ PoolInv(new)
         /\ s \in DOMAIN kv.sequences /\ IsWith(new.sequences, kv.sequences, s, kv.sequences[s] \o top)
         /\ top \in Seq(Blocks) /\ Len(top) = n
         /\ \A b \in ToSet(top) : b \in Blocks /\ kv.refcounts[b] = 0
  <1> DEFINE popped == PopBlocks(kv, n)
             more == [kv.sequences EXCEPT ![s] = @ \o top]
  <1>1. /\ kv.refcounts \in [Blocks -> Int] /\ kv.freeList \in Seq(Blocks)
        /\ kv.sequences \in Maps(K, Seq(Blocks)) /\ kv.pins \in Maps(P, Seq(Blocks))
        /\ kv.sequences \in [DOMAIN kv.sequences -> Seq(Blocks)]
    BY KvFields
  <1>2. s \in DOMAIN kv.sequences /\ n <= Len(kv.freeList)
    BY <1>1 DEF CanAppend
  <1>3. new = [popped EXCEPT !.sequences[s] = @ \o top]
    BY DEF AppendBlocks
  <1>4. /\ popped \in Kv(K, P) /\ popped.sequences = kv.sequences /\ popped.pins = kv.pins
        /\ top \in Seq(Blocks) /\ Len(top) = n /\ Injective(top)
        /\ \A b \in ToSet(top) : b \in Blocks /\ kv.refcounts[b] = 0
        /\ Shifted(popped.refcounts, kv.refcounts, top, 1)
        /\ Balanced(popped.refcounts, popped.freeList)
    <2>1. Balanced(kv.refcounts, kv.freeList)
      BY DEF PoolInv
    <2> QED
      BY <1>2, <2>1, PopFacts
  <1> HIDE DEF popped
  <1>5. ToSet(kv.sequences[s]) \cap ToSet(top) = {}
    <2>1. \A b \in ToSet(kv.sequences[s]) : kv.refcounts[b] >= 1
      BY <1>2, HeldIsCounted
    <2> QED
      BY <1>4, <2>1
  <1>6. /\ IsFiniteSet(DOMAIN kv.sequences) /\ IsFiniteSet(DOMAIN kv.pins)
        /\ \A b \in Blocks : kv.refcounts[b] = Count(kv.sequences, b) + Count(kv.pins, b)
        /\ \A k \in DOMAIN kv.sequences : Injective(kv.sequences[k])
        /\ \A k \in DOMAIN kv.pins : Injective(kv.pins[k])
    BY DEF PoolInv
  <1>7. /\ more \in Maps(K, Seq(Blocks)) /\ DOMAIN more = DOMAIN kv.sequences
        /\ more[s] = kv.sequences[s] \o top
        /\ \A k \in DOMAIN kv.sequences \ {s} : more[k] = kv.sequences[k]
        /\ \A b \in Blocks : Count(more, b) = Count(kv.sequences, b) + IF b \in ToSet(top) THEN 1 ELSE 0
    <2> HIDE DEF more
    <2>1. Lengthened(K, more, kv.sequences, s, top)
      BY <1>1, <1>2, <1>4, <1>5, <1>6 DEF more, Lengthened
    <2>2. \A b : /\ more \in Maps(K, Seq(Blocks)) /\ IsWith(more, kv.sequences, s, kv.sequences[s] \o top)
                 /\ Count(more, b) = Count(kv.sequences, b) + IF b \in ToSet(top) THEN 1 ELSE 0
      BY <2>1, CountExtended
    <2>3. IsWith(more, kv.sequences, s, kv.sequences[s] \o top)
      BY <2>2
    <2>4. /\ DOMAIN more = DOMAIN kv.sequences /\ more[s] = kv.sequences[s] \o top
          /\ \A k \in DOMAIN kv.sequences \ {s} : more[k] = kv.sequences[k]
      BY <1>2, <2>3 DEF IsWith
    <2> QED
      BY <2>2, <2>4
  <1>8. new = [popped EXCEPT !.sequences = more]
    BY <1>3, <1>4 DEF Kv
  <1> HIDE DEF more
  <1>9. /\ new \in Kv(K, P) /\ new.pins = kv.pins /\ new.sequences = more
        /\ new.refcounts = popped.refcounts /\ new.freeList = popped.freeList
    BY <1>4, <1>7, <1>8 DEF Kv
  <1>10. ASSUME NEW k \in DOMAIN more PROVE Injective(more[k])
    <2>1. CASE k # s
      BY <1>6, <1>7, <2>1
    <2>2. CASE k = s
      <3>1. kv.sequences[s] \in Seq(Blocks) /\ Injective(kv.sequences[s])
        BY <1>1, <1>2, <1>6
      <3>2. Injective(kv.sequences[s] \o top)
        BY <1>4, <1>5, <3>1, ConcatFacts
      <3> QED
        BY <1>7, <2>2, <3>2
    <2> QED
      BY <2>1, <2>2
  <1>11. ASSUME NEW b \in Blocks PROVE new.refcounts[b] = Count(more, b) + Count(kv.pins, b)
    <2>1. popped.refcounts[b] = kv.refcounts[b] + IF b \in ToSet(top) THEN 1 ELSE 0
      BY <1>4 DEF Shifted
    <2>2. Count(more, b) = Count(kv.sequences, b) + IF b \in ToSet(top) THEN 1 ELSE 0
      BY <1>7
    <2>3. Count(kv.sequences, b) \in Nat /\ Count(kv.pins, b) \in Nat
      BY <1>6, HoldingFinite
    <2>4. kv.refcounts[b] = Count(kv.sequences, b) + Count(kv.pins, b)
      BY <1>6
    <2> QED
      BY <1>9, <2>1, <2>2, <2>3, <2>4
  <1>12. PoolInv(new)
    BY <1>4, <1>6, <1>7, <1>9, <1>10, <1>11 DEF PoolInv
  <1>13. IsWith(new.sequences, kv.sequences, s, kv.sequences[s] \o top)
    BY <1>2, <1>7, <1>9 DEF IsWith
  <1> QED
    BY <1>2, <1>4, <1>9, <1>12, <1>13

\* The sequences of S are gone, the others and the pins are as they were.
Freed(K, P, new, kv, S) ==
    /\ new \in Kv(K, P) /\ new.pins = kv.pins
    /\ DOMAIN new.sequences = DOMAIN kv.sequences \ S
    /\ \A s \in DOMAIN new.sequences : new.sequences[s] = kv.sequences[s]
    /\ PoolInv(kv) => PoolInv(new)

\* One more is freed.
LEMMA FreedStep ==
  ASSUME NEW K, NEW P, NEW kv, NEW mid, NEW S, Freed(K, P, mid, kv, S), NEW s
  PROVE  Freed(K, P, Free(mid, s), kv, S \cup {s})
  <1> DEFINE new == Free(mid, s)
  <1>1. /\ mid \in Kv(K, P) /\ mid.pins = kv.pins
        /\ DOMAIN mid.sequences = DOMAIN kv.sequences \ S
        /\ \A q \in DOMAIN mid.sequences : mid.sequences[q] = kv.sequences[q]
        /\ PoolInv(kv) => PoolInv(mid)
    BY DEF Freed
  <1>2. /\ new \in Kv(K, P) /\ new.pins = mid.pins
        /\ IsWithout(new.sequences, mid.sequences, s)
        /\ PoolInv(mid) => PoolInv(new)
    BY <1>1, FreeFacts
  <1> HIDE DEF new
  <1>3. /\ DOMAIN new.sequences = DOMAIN mid.sequences \ {s}
        /\ \A q \in DOMAIN mid.sequences \ {s} : new.sequences[q] = mid.sequences[q]
    BY <1>2 DEF IsWithout
  <1>4. DOMAIN new.sequences = DOMAIN kv.sequences \ (S \cup {s})
    BY <1>1, <1>3
  <1>5. \A q \in DOMAIN new.sequences : new.sequences[q] = kv.sequences[q]
    BY <1>1, <1>3
  <1>6. Freed(K, P, new, kv, S \cup {s})
    BY <1>1, <1>2, <1>4, <1>5 DEF Freed
  <1> QED
    BY <1>6 DEF new

\* FreeAll frees the sequences of the list, one after the other.
LEMMA FreeAllFacts ==
  ASSUME NEW K, NEW P, NEW kv \in Kv(K, P), NEW E, NEW list \in Seq(E)
  PROVE  Freed(K, P, FreeAll(kv, list), kv, ToSet(list))
  <1> DEFINE n == Len(list)
             D == 0 .. n
             Next(f, i) == IF i = 0 THEN kv ELSE Free(f[i - 1], list[i])
             Solves(h) == h = [i \in D |-> Next(h, i)]
             k == CHOOSE h : Solves(h)
             g == [i \in 1 .. n |-> [x \in Kv(K, P) |-> Free(x, list[i])]]
             Upto(i) == {list[j] : j \in 1 .. i}
  <1>1. n \in Nat /\ DOMAIN list = 1 .. n
    OBVIOUS
  <1>2. \A x \in Kv(K, P) : \A s : Free(x, s) \in Kv(K, P)
    BY FreeFacts
  <1>3. g \in [1 .. n -> [Kv(K, P) -> Kv(K, P)]]
    BY <1>2
  <1>4. \E f : f \in Recursion(n, Kv(K, P), kv, g)
    <2> HIDE DEF g, n
    <2> QED
      BY <1>1, <1>3, RecursionUpTo, Zenon
  <1>5. Solves(k)
    <2>1. PICK f \in [D -> Kv(K, P)] : f[0] = kv /\ \A i \in 1 .. n : f[i] = g[i][f[i - 1]]
      BY <1>4 DEF Recursion
    <2>2. ASSUME NEW i \in D PROVE f[i] = Next(f, i)
      <3>1. i # 0 => i \in 1 .. n /\ f[i - 1] \in Kv(K, P)
        BY <1>1, <2>1
      <3> QED
        BY <2>1, <3>1
    <2>3. Solves(f)
      BY <2>1, <2>2
    <2> QED
      BY <2>3
  <1>6. FreeAll(kv, list) = k[n]
    BY DEF FreeAll
  <1> HIDE DEF k
  <1>7. \A i \in D : k[i] = Next(k, i)
    BY <1>5
  <1> DEFINE T == {i \in D : Freed(K, P, k[i], kv, Upto(i))}
  <1>8. 0 \in T
    <2>1. k[0] = kv /\ 0 \in D /\ Upto(0) = {}
      BY <1>1, <1>7
    <2>2. Freed(K, P, kv, kv, {})
      BY DEF Freed
    <2> QED
      BY <2>1, <2>2
  <1>9. ASSUME NEW i \in 1 .. n, i - 1 \in T PROVE i \in T
    <2>1. i \in D /\ i # 0
      BY <1>1
    <2>2. k[i] = Free(k[i - 1], list[i])
      BY <1>7, <2>1
    <2>3. Upto(i) = Upto(i - 1) \cup {list[i]}
      <3>1. 1 .. i = (1 .. i - 1) \cup {i}
        OBVIOUS
      <3> QED
        BY <3>1
    <2>4. Freed(K, P, k[i - 1], kv, Upto(i - 1))
      BY <1>9
    <2> HIDE DEF Upto
    <2>5. Freed(K, P, Free(k[i - 1], list[i]), kv, Upto(i - 1) \cup {list[i]})
      BY <2>4, FreedStep
    <2> QED
      BY <2>1, <2>2, <2>3, <2>5
  <1> HIDE DEF T
  <1>10. \A i \in 0 .. n : i \in T
    BY <1>1, <1>8, <1>9, InductionUpTo
  <1>11. Upto(n) = ToSet(list)
    BY <1>1 DEF ToSet
  <1> HIDE DEF Upto, n
  <1>12. Freed(K, P, k[n], kv, Upto(n))
    <2>1. n \in T
      BY <1>1, <1>10
    <2> QED
      BY <2>1 DEF T
  <1> QED
    BY <1>6, <1>11, <1>12

\* A new pool: every block is free.
LEMMA NewKvFacts ==
  ASSUME NEW K, NEW P, NEW kv, kv = NewKvCache
  PROVE  kv \in Kv(K, P) /\ PoolInv(kv) /\ DOMAIN kv.sequences = {} /\ DOMAIN kv.pins = {}
  <1>1. BlockCount \in Nat /\ BlockCount > 0
    BY BlockCountAssumption
  <1> DEFINE list == [i \in 1 .. BlockCount |-> BlockCount - i]
  <1>2. list \in [1 .. BlockCount -> Blocks]
    BY <1>1 DEF Blocks
  <1>3. list \in Seq(Blocks) /\ Len(list) = BlockCount /\ DOMAIN list = 1 .. BlockCount
    BY <1>1, <1>2
  <1>4. Injective(list)
    BY <1>1, <1>3 DEF Injective
  <1>5. ASSUME NEW b \in Blocks PROVE b \in ToSet(list)
    <2>1. BlockCount - b \in 1 .. BlockCount /\ BlockCount - (BlockCount - b) = b
      BY <1>1 DEF Blocks
    <2> QED
      BY <1>3, <2>1 DEF ToSet
  <1>6. kv = [refcounts |-> [b \in Blocks |-> 0], freeList |-> list,
              sequences |-> [s \in {} |-> <<>>], pins |-> [k \in {} |-> <<>>]]
    BY DEF NewKvCache
  <1> HIDE DEF list
  <1>7. [s \in {} |-> <<>>] \in Maps(K, Seq(Blocks)) /\ [s \in {} |-> <<>>] \in Maps(P, Seq(Blocks))
    <2>1. [s \in {} |-> <<>>] \in [{} -> Seq(Blocks)] /\ {} \in SUBSET K /\ {} \in SUBSET P
      OBVIOUS
    <2> QED
      BY <2>1 DEF Maps
  <1>8. [b \in Blocks |-> 0] \in [Blocks -> Int]
    OBVIOUS
  <1>9. /\ kv \in Kv(K, P) /\ DOMAIN kv.sequences = {} /\ DOMAIN kv.pins = {}
        /\ kv.refcounts = [b \in Blocks |-> 0] /\ kv.freeList = list
    BY <1>3, <1>6, <1>7, <1>8 DEF Kv
  <1>10. IsFiniteSet({}) /\ Cardinality({}) = 0
    BY FS_EmptySet
  <1>11. PoolInv(kv)
    <2>1. \A b : Count(kv.sequences, b) = 0 /\ Count(kv.pins, b) = 0
      BY <1>9, <1>10 DEF Count, Holding
    <2>2. Balanced(kv.refcounts, kv.freeList)
      BY <1>4, <1>5, <1>9 DEF Balanced
    <2> QED
      BY <1>9, <1>10, <2>1, <2>2 DEF PoolInv
  <1> QED
    BY <1>9, <1>11

\* FreeAll of an empty list does nothing.
LEMMA FreeNone ==
  ASSUME NEW kv
  PROVE  FreeAll(kv, <<>>) = kv
  <1> DEFINE Loop(f, i) == IF i = 0 THEN kv ELSE Free(f[i - 1], (<<>>)[i])
             Solves(h) == h = [i \in 0 .. 0 |-> Loop(h, i)]
             k == CHOOSE h : Solves(h)
             one == [i \in 0 .. 0 |-> kv]
  <1>1. Len(<<>>) = 0 /\ \A i \in 0 .. 0 : i = 0
    OBVIOUS
  <1>2. FreeAll(kv, <<>>) = k[0]
    BY <1>1 DEF FreeAll
  <1>3. Solves(one)
    BY <1>1
  <1>4. Solves(k)
    BY <1>3
  <1> HIDE DEF k
  <1>5. 0 \in 0 .. 0 /\ k[0] = Loop(k, 0)
    BY <1>4
  <1> QED
    BY <1>2, <1>5

\* A pool that nobody holds blocks of has all its blocks on the stack.
LEMMA EmptyPool ==
  ASSUME NEW K, NEW P, NEW kv \in Kv(K, P), PoolInv(kv), DOMAIN kv.sequences = {}, DOMAIN kv.pins = {}
  PROVE  Len(kv.freeList) = BlockCount
  <1>1. kv.freeList \in Seq(Blocks) /\ kv.refcounts \in [Blocks -> Int]
    BY KvFields
  <1>2. Cardinality({}) = 0
    BY FS_EmptySet
  <1>3. \A b : Count(kv.sequences, b) = 0 /\ Count(kv.pins, b) = 0
    BY <1>2 DEF Count, Holding
  <1>4. \A b \in Blocks : kv.refcounts[b] = 0
    BY <1>3 DEF PoolInv
  <1>5. Injective(kv.freeList) /\ \A b \in Blocks : b \in ToSet(kv.freeList)
    BY <1>4 DEF PoolInv, Balanced
  <1>6. ToSet(kv.freeList) \subseteq Blocks
    BY <1>1 DEF ToSet
  <1>7. ToSet(kv.freeList) = Blocks
    BY <1>5, <1>6
  <1>8. Cardinality(ToSet(kv.freeList)) = Len(kv.freeList)
    BY <1>1, <1>5, DistinctIsInjective DEF Distinct
  <1>9. Cardinality(Blocks) = BlockCount
    <2>1. BlockCount \in Nat /\ 0 \in Int /\ BlockCount - 1 \in Int
      BY BlockCountAssumption
    <2> QED
      BY <2>1, FS_Interval DEF Blocks
  <1> QED
    BY <1>7, <1>8, <1>9
=============================================================================
