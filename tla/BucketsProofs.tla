--------------------------- MODULE BucketsProofs ---------------------------
(* What the operations on buckets keep of the elements of a bucket. *)
EXTENDS Buckets, FiniteSetTheorems, TLAPS

\* The ranks of a finite set of indices are distinct and number its elements.
LEMMA RankType ==
  ASSUME NEW n \in Nat, NEW I \in SUBSET (1..n)
  PROVE  /\ IsFiniteSet(I) /\ Cardinality(I) \in Nat
         /\ \A i \in I : Rank(I, i) \in 1..Cardinality(I)
         /\ \A i, j \in I : i < j => Rank(I, i) < Rank(I, j)
  <1> DEFINE Below(i) == {j \in I : j <= i}
  <1>0. I \subseteq Int
    OBVIOUS
  <1>1. IsFiniteSet(I) /\ Cardinality(I) \in Nat
    <2>1. IsFiniteSet(1..n)
      BY FS_Interval
    <2>2. IsFiniteSet(I)
      BY <2>1, FS_Subset
    <2> QED BY <2>2, FS_CardinalityType
  <1>2. ASSUME NEW i \in I
        PROVE  /\ Rank(I, i) \in 1..Cardinality(I) /\ IsFiniteSet(Below(i))
               /\ Rank(I, i) = Cardinality(Below(i))
    <2>1. IsFiniteSet(Below(i)) /\ Cardinality(Below(i)) <= Cardinality(I)
      BY <1>1, FS_Subset
    <2>2. i \in Below(i) /\ Cardinality(Below(i)) \in Nat /\ Cardinality(Below(i)) # 0
      BY <1>0, <2>1, FS_CardinalityType, FS_EmptySet
    <2> QED BY <1>1, <2>1, <2>2 DEF Rank
  <1>3. ASSUME NEW i \in I, NEW j \in I, i < j PROVE Rank(I, i) < Rank(I, j)
    <2>1. i \in Int /\ j \in Int /\ i < j
      BY <1>0, <1>3
    <2>2. ASSUME NEW x \in Below(i) PROVE x \in Below(j)
      <3>1. x \in Int /\ x \in I /\ x <= i
        BY <1>0
      <3> QED BY <2>1, <3>1
    <2>3. j \in Below(j) /\ j \notin Below(i)
      BY <2>1
    <2>4. Below(i) \in SUBSET Below(j) /\ Below(i) # Below(j)
      BY <2>2, <2>3
    <2>5. /\ Cardinality(Below(i)) <= Cardinality(Below(j))
          /\ Cardinality(Below(i)) # Cardinality(Below(j))
      BY <1>2, <2>4, FS_Subset
    <2> QED BY <1>2, <2>5
  <1> QED BY <1>1, <1>2, <1>3

\* The k-th element of a finite set of indices exists, has rank k and is the only one.
LEMMA RankNth ==
  ASSUME NEW n \in Nat, NEW I \in SUBSET (1..n)
  PROVE  /\ \A k \in 1..Cardinality(I) : Nth(I, k) \in I /\ Rank(I, Nth(I, k)) = k
         /\ \A i \in I : Nth(I, Rank(I, i)) = i
  <1> DEFINE rank == [i \in I |-> Rank(I, i)]
  <1>1. /\ IsFiniteSet(I) /\ Cardinality(I) \in Nat
        /\ \A i \in I : Rank(I, i) \in 1..Cardinality(I)
        /\ \A i, j \in I : i < j => Rank(I, i) < Rank(I, j)
    BY RankType
  <1>2. ASSUME NEW i \in I, NEW j \in I, Rank(I, i) = Rank(I, j) PROVE i = j
    <2>1. i \in Int /\ j \in Int /\ Rank(I, i) \in Int
      BY <1>1
    <2>2. ~ i < j /\ ~ j < i
      BY <1>1, <1>2, <2>1
    <2> QED BY <2>1, <2>2
  <1>3. IsFiniteSet(1..Cardinality(I)) /\ Cardinality(1..Cardinality(I)) = Cardinality(I)
    BY <1>1, FS_Interval
  <1>4. rank \in Injection(I, 1..Cardinality(I))
    BY <1>1, <1>2 DEF Injection, IsInjective
  <1>5. rank \in Surjection(I, 1..Cardinality(I))
    BY <1>3, <1>4, FS_Injection
  <1>6. \A k \in 1..Cardinality(I) : Nth(I, k) \in I /\ Rank(I, Nth(I, k)) = k
    BY <1>5 DEF Surjection, Nth
  <1>7. ASSUME NEW i \in I PROVE Nth(I, Rank(I, i)) = i
    BY <1>1, <1>2, <1>6
  <1> QED BY <1>6, <1>7

\* Keep keeps, in their order, exactly the places of the elements that are to stay.
LEMMA KeepPlaces ==
  ASSUME NEW T, NEW s \in Seq(T), NEW S
  PROVE  LET I == Places(s, S)
             t == Keep(s, S)
         IN /\ t \in Seq(T) /\ DOMAIN t = 1..Cardinality(I) /\ Len(t) = Cardinality(I)
            /\ Cardinality(I) \in Nat /\ I \in SUBSET (1..Len(s))
            /\ \A k \in DOMAIN t : /\ Nth(I, k) \in I /\ Rank(I, Nth(I, k)) = k
                                   /\ t[k] = s[Nth(I, k)] /\ t[k] \in S
            /\ \A i \in I : /\ Rank(I, i) \in DOMAIN t /\ Nth(I, Rank(I, i)) = i
                            /\ t[Rank(I, i)] = s[i]
  <1> DEFINE I == Places(s, S)
             t == Keep(s, S)
             c == Cardinality(I)
  <1>1. Len(s) \in Nat /\ DOMAIN s = 1..Len(s) /\ I \in SUBSET (1..Len(s))
    BY DEF Places
  <1>2. c \in Nat /\ \A i \in I : Rank(I, i) \in 1..c
    BY <1>1, RankType
  <1>3. /\ \A k \in 1..c : Nth(I, k) \in I /\ Rank(I, Nth(I, k)) = k
        /\ \A i \in I : Nth(I, Rank(I, i)) = i
    BY <1>1, RankNth
  <1>4. \A k \in 1..c : s[Nth(I, k)] \in T /\ s[Nth(I, k)] \in S
    BY <1>1, <1>3 DEF Places
  <1>5. t = [k \in 1..c |-> s[Nth(I, k)]]
    BY DEF Keep
  <1> HIDE DEF t, c, I
  <1>6. t \in Seq(T) /\ DOMAIN t = 1..c /\ Len(t) = c
    BY <1>2, <1>4, <1>5
  <1>7. \A k \in 1..c : t[k] = s[Nth(I, k)]
    BY <1>5
  <1>8. \A i \in I : t[Rank(I, i)] = s[i]
    BY <1>2, <1>3, <1>7
  <1> QED BY <1>1, <1>2, <1>3, <1>4, <1>6, <1>7, <1>8 DEF I, t, c

\* Keep loses and duplicates nothing that is to stay.
LEMMA BucketKeep ==
  ASSUME NEW T, NEW s \in Seq(T), NEW S
  PROVE  /\ Keep(s, S) \in Seq(T)
         /\ Range(Keep(s, S)) = Range(s) \cap S
         /\ IsInjective(s) => IsInjective(Keep(s, S))
  <1> DEFINE I == Places(s, S)
             c == Cardinality(I)
  <1>1. Len(s) \in Nat /\ DOMAIN s = 1..Len(s) /\ I \in SUBSET (1..Len(s))
    BY DEF Places
  <1>2. IsFiniteSet(I) /\ c \in Nat
    <2>1. IsFiniteSet(1..Len(s))
      BY <1>1, FS_Interval
    <2>2. IsFiniteSet(I)
      BY <1>1, <2>1, FS_Subset
    <2> QED BY <2>2, FS_CardinalityType
  <1>3. \A k \in 1..c : Nth(I, k) \in I /\ Rank(I, Nth(I, k)) = k
    BY <1>1, RankNth
  <1>4. \A k \in 1..c : s[Nth(I, k)] \in T /\ s[Nth(I, k)] \in S
    BY <1>1, <1>3 DEF Places
  <1>5. Keep(s, S) = [k \in 1..c |-> s[Nth(I, k)]]
    BY DEF Keep
  <1>6. Keep(s, S) \in Seq(T) /\ DOMAIN Keep(s, S) = 1..c
    BY <1>2, <1>4, <1>5
  <1>7. ASSUME NEW i \in I PROVE \E k \in 1..c : Nth(I, k) = i
    <2> DEFINE f == [k \in 1..c |-> Nth(I, k)]
    <2>1. f \in Injection(1..c, I)
      BY <1>3 DEF Injection, IsInjective
    <2>2. Cardinality(1..c) = c
      BY <1>2, FS_Interval
    <2>3. f \in Surjection(1..c, I)
      BY <1>2, <2>1, <2>2, FS_Injection
    <2> QED BY <2>3 DEF Surjection
  <1>8. Range(Keep(s, S)) = Range(s) \cap S
    <2>1. Range(Keep(s, S)) \subseteq Range(s) \cap S
      BY <1>1, <1>3, <1>4, <1>5 DEF Range
    <2>2. ASSUME NEW x \in Range(s) \cap S PROVE x \in Range(Keep(s, S))
      <3>1. PICK i \in I : s[i] = x
        BY DEF Range, Places
      <3>2. PICK k \in 1..c : Nth(I, k) = i
        BY <1>7
      <3> QED BY <1>5, <3>1, <3>2 DEF Range
    <2> QED BY <2>1, <2>2
  <1>9. ASSUME IsInjective(s) PROVE IsInjective(Keep(s, S))
    BY <1>1, <1>3, <1>5, <1>9 DEF IsInjective
  <1> QED BY <1>6, <1>8, <1>9

\* Keeping what is in A and of that what is in B keeps what is in both.
LEMMA KeepTwice ==
  ASSUME NEW T, NEW s \in Seq(T), NEW A, NEW B
  PROVE  Keep(Keep(s, A), B) = Keep(s, A \cap B)
  <1> DEFINE I == Places(s, A)
             t == Keep(s, A)
             J == Places(t, B)
             L == Places(s, A \cap B)
             In(i) == {j \in J : j <= i}
             Out(i) == {l \in L : l <= i}
  <1>1. /\ t \in Seq(T) /\ DOMAIN t = 1..Len(t) /\ Len(t) \in Nat
        /\ Len(t) = Cardinality(I)
        /\ I \in SUBSET (1..Len(s)) /\ Len(s) \in Nat /\ DOMAIN s = 1..Len(s)
        /\ \A k \in DOMAIN t : /\ Nth(I, k) \in I /\ Rank(I, Nth(I, k)) = k
                               /\ t[k] = s[Nth(I, k)] /\ t[k] \in A
        /\ \A i \in I : /\ Rank(I, i) \in DOMAIN t /\ Nth(I, Rank(I, i)) = i
                        /\ t[Rank(I, i)] = s[i]
    BY KeepPlaces
  <1>2. J \in SUBSET (1..Len(t)) /\ L \in SUBSET (1..Len(s)) /\ L \subseteq I
    BY <1>1 DEF Places
  <1> HIDE DEF t
  <1>3. ASSUME NEW j \in J PROVE Nth(I, j) \in L
    BY <1>1 DEF Places
  <1>4. ASSUME NEW l \in L PROVE Rank(I, l) \in J /\ Nth(I, Rank(I, l)) = l
    BY <1>1, <1>2 DEF Places
  <1>5. ASSUME NEW j \in J, NEW k \in J PROVE k <= j <=> Nth(I, k) <= Nth(I, j)
    <2>1. /\ j \in Int /\ k \in Int /\ Nth(I, k) \in I /\ Nth(I, j) \in I
          /\ Nth(I, k) \in Int /\ Nth(I, j) \in Int
          /\ Rank(I, Nth(I, k)) = k /\ Rank(I, Nth(I, j)) = j
      BY <1>1 DEF Places
    <2>2. \A x, y \in I : x < y => Rank(I, x) < Rank(I, y)
      BY <1>1, RankType
    <2>3. /\ Nth(I, k) < Nth(I, j) => k < j
          /\ Nth(I, j) < Nth(I, k) => j < k
      BY <2>1, <2>2
    <2> HIDE DEF I
    <2> QED BY <2>1, <2>3
  <1>6. IsFiniteSet(J) /\ IsFiniteSet(L)
    BY <1>1, <1>2, RankType
  <1>7. ASSUME NEW j \in J PROVE Rank(L, Nth(I, j)) = Rank(J, j)
    <2> DEFINE f == [k \in In(j) |-> Nth(I, k)]
    <2>1. IsFiniteSet(In(j)) /\ IsFiniteSet(Out(Nth(I, j)))
      BY <1>6, FS_Subset
    <2>2. \A k \in In(j) : f[k] \in Out(Nth(I, j))
      BY <1>3, <1>5
    <2>3. \A k, m \in In(j) : f[k] = f[m] => k = m
      BY <1>1 DEF Places
    <2>4. ASSUME NEW l \in Out(Nth(I, j)) PROVE \E k \in In(j) : f[k] = l
      <3>1. Rank(I, l) \in J /\ Nth(I, Rank(I, l)) = l
        BY <1>4
      <3>2. Rank(I, l) \in In(j)
        BY <1>5, <3>1
      <3> QED BY <3>1, <3>2
    <2>5. f \in Bijection(In(j), Out(Nth(I, j)))
      BY <2>2, <2>3, <2>4 DEF Bijection, Injection, Surjection, IsInjective
    <2>6. ExistsBijection(In(j), Out(Nth(I, j)))
      BY <2>5 DEF ExistsBijection
    <2>7. Cardinality(Out(Nth(I, j))) = Cardinality(In(j))
      BY <2>1, <2>6, FS_Bijection
    <2> QED BY <2>7 DEF Rank
  <1>8. Cardinality(J) = Cardinality(L) /\ Cardinality(J) \in Nat
    <2> DEFINE f == [j \in J |-> Nth(I, j)]
    <2>1. \A k, m \in J : f[k] = f[m] => k = m
      BY <1>1 DEF Places
    <2>2. f \in Bijection(J, L)
      BY <1>3, <1>4, <2>1 DEF Bijection, Injection, Surjection, IsInjective
    <2>3. ExistsBijection(J, L)
      BY <2>2 DEF ExistsBijection
    <2> QED BY <1>6, <2>3, FS_Bijection, FS_CardinalityType
  <1>9. ASSUME NEW k \in 1..Cardinality(J) PROVE t[Nth(J, k)] = s[Nth(L, k)]
    <2>1. Nth(J, k) \in J /\ Rank(J, Nth(J, k)) = k
      BY <1>1, <1>2, RankNth
    <2>2. Nth(I, Nth(J, k)) \in L /\ Rank(L, Nth(I, Nth(J, k))) = k
      BY <1>3, <1>7, <2>1
    <2>3. \A l \in L : Nth(L, Rank(L, l)) = l
      BY <1>1, <1>2, RankNth
    <2>4. Nth(L, k) = Nth(I, Nth(J, k))
      BY <2>2, <2>3
    <2>5. Nth(J, k) \in DOMAIN t
      BY <2>1 DEF Places
    <2> QED BY <1>1, <2>4, <2>5
  <1>10. Keep(t, B) = [k \in 1..Cardinality(J) |-> t[Nth(J, k)]]
    BY DEF Keep
  <1>11. Keep(s, A \cap B) = [k \in 1..Cardinality(L) |-> s[Nth(L, k)]]
    BY DEF Keep
  <1> QED BY <1>8, <1>9, <1>10, <1>11 DEF t

\* push_back.
LEMMA BucketPushBack ==
  ASSUME NEW T, NEW s \in Seq(T), NEW x \in T
  PROVE  /\ Append(s, x) \in Seq(T)
         /\ Range(Append(s, x)) = Range(s) \cup {x}
         /\ IsInjective(s) /\ x \notin Range(s) => IsInjective(Append(s, x))
  <1> DEFINE new == Append(s, x)
  <1>1. /\ new \in Seq(T) /\ DOMAIN s = 1..Len(s) /\ DOMAIN new = 1..(Len(s) + 1)
        /\ Len(s) \in Nat
        /\ \A i \in 1..Len(s) : new[i] = s[i]
        /\ new[Len(s) + 1] = x
    OBVIOUS
  <1>2. Range(new) = Range(s) \cup {x}
    <2>1. ASSUME NEW i \in 1..(Len(s) + 1) PROVE new[i] \in Range(s) \cup {x}
      <3>1. i \in 1..Len(s) \/ i = Len(s) + 1
        BY <1>1
      <3> QED BY <1>1, <3>1 DEF Range
    <2>2. ASSUME NEW y \in Range(s) \cup {x} PROVE \E i \in 1..(Len(s) + 1) : new[i] = y
      <3>1. CASE y = x
        BY <1>1, <3>1
      <3>2. CASE y \in Range(s)
        BY <1>1, <3>2 DEF Range
      <3> QED BY <3>1, <3>2
    <2> QED BY <1>1, <2>1, <2>2 DEF Range
  <1>3. IsInjective(s) /\ x \notin Range(s) => IsInjective(new)
    <2> SUFFICES ASSUME IsInjective(s), x \notin Range(s),
                        NEW i \in DOMAIN new, NEW j \in DOMAIN new, new[i] = new[j]
                 PROVE  i = j
      BY DEF IsInjective
    <2>1. \A k \in 1..Len(s) : s[k] # x
      BY <1>1 DEF Range
    <2>2. (i \in 1..Len(s) \/ i = Len(s) + 1) /\ (j \in 1..Len(s) \/ j = Len(s) + 1)
      BY <1>1
    <2> QED BY <1>1, <2>1, <2>2 DEF IsInjective
  <1>4. new \in Seq(T)
    BY <1>1
  <1> HIDE DEF new
  <1>5. new = Append(s, x)
    BY DEF new
  <1> QED BY <1>2, <1>3, <1>4, <1>5

\* Joining two buckets; push_front is the case of a one-element first bucket.
LEMMA BucketConcat ==
  ASSUME NEW T, NEW s \in Seq(T), NEW t \in Seq(T)
  PROVE  /\ s \o t \in Seq(T)
         /\ Range(s \o t) = Range(s) \cup Range(t)
         /\ IsInjective(s) /\ IsInjective(t) /\ Range(s) \cap Range(t) = {}
              => IsInjective(s \o t)
  <1> DEFINE c == s \o t
  <1>1. /\ c \in Seq(T) /\ DOMAIN s = 1..Len(s) /\ DOMAIN t = 1..Len(t)
        /\ DOMAIN c = 1..(Len(s) + Len(t)) /\ Len(s) \in Nat /\ Len(t) \in Nat
        /\ \A i \in 1..Len(s) : c[i] = s[i]
        /\ \A i \in 1..Len(t) : c[Len(s) + i] = t[i]
    OBVIOUS
  <1>2. ASSUME NEW i \in 1..(Len(s) + Len(t)), i \notin 1..Len(s)
        PROVE  i - Len(s) \in 1..Len(t) /\ c[i] = t[i - Len(s)]
    <2>1. i - Len(s) \in 1..Len(t) /\ Len(s) + (i - Len(s)) = i
      BY <1>1, <1>2
    <2> QED BY <1>1, <2>1
  <1>3. Range(c) \subseteq Range(s) \cup Range(t)
    <2>1. ASSUME NEW i \in 1..(Len(s) + Len(t)) PROVE c[i] \in Range(s) \cup Range(t)
      BY <1>1, <1>2 DEF Range
    <2> QED BY <1>1, <2>1 DEF Range
  <1>4. Range(s) \subseteq Range(c)
    BY <1>1 DEF Range
  <1>5. Range(t) \subseteq Range(c)
    <2>1. ASSUME NEW i \in 1..Len(t) PROVE Len(s) + i \in DOMAIN c /\ c[Len(s) + i] = t[i]
      BY <1>1
    <2> QED BY <1>1, <2>1 DEF Range
  <1>6. ASSUME IsInjective(s), IsInjective(t), Range(s) \cap Range(t) = {},
               NEW i \in DOMAIN c, NEW j \in DOMAIN c, c[i] = c[j]
        PROVE  i = j
    <2>1. CASE i \in 1..Len(s) /\ j \in 1..Len(s)
      BY <1>1, <1>6, <2>1 DEF IsInjective
    <2>2. CASE i \in 1..Len(s) /\ j \notin 1..Len(s)
      BY <1>1, <1>2, <1>6, <2>2 DEF Range
    <2>3. CASE i \notin 1..Len(s) /\ j \in 1..Len(s)
      BY <1>1, <1>2, <1>6, <2>3 DEF Range
    <2>4. CASE i \notin 1..Len(s) /\ j \notin 1..Len(s)
      <3>1. i - Len(s) = j - Len(s)
        BY <1>1, <1>2, <1>6, <2>4 DEF IsInjective
      <3> QED BY <1>1, <3>1
    <2> QED BY <2>1, <2>2, <2>3, <2>4
  <1>7. IsInjective(s) /\ IsInjective(t) /\ Range(s) \cap Range(t) = {} => IsInjective(c)
    BY <1>6 DEF IsInjective
  <1> QED BY <1>1, <1>3, <1>4, <1>5, <1>7

\* pop_front.
LEMMA BucketPopFront ==
  ASSUME NEW T, NEW s \in Seq(T), s # <<>>, IsInjective(s)
  PROVE  /\ Tail(s) \in Seq(T) /\ Head(s) \in Range(s)
         /\ Range(Tail(s)) = Range(s) \ {Head(s)}
         /\ IsInjective(Tail(s))
  <1> DEFINE r == Tail(s)
  <1>1. /\ r \in Seq(T) /\ DOMAIN s = 1..Len(s) /\ DOMAIN r = 1..(Len(s) - 1)
        /\ Len(s) \in Nat /\ Len(s) > 0
        /\ \A i \in 1..(Len(s) - 1) : r[i] = s[i + 1]
        /\ Head(s) = s[1]
    OBVIOUS
  <1>2. ASSUME NEW i \in DOMAIN r PROVE r[i] \in Range(s) \ {Head(s)}
    <2>1. i + 1 \in DOMAIN s /\ i + 1 # 1 /\ 1 \in DOMAIN s
      BY <1>1
    <2> QED BY <1>1, <2>1 DEF Range, IsInjective
  <1>3. ASSUME NEW i \in DOMAIN s, s[i] # Head(s) PROVE \E j \in DOMAIN r : r[j] = s[i]
    <2>1. i - 1 \in DOMAIN r /\ (i - 1) + 1 = i
      BY <1>1, <1>3
    <2>2. r[i - 1] = s[i]
      BY <1>1, <2>1
    <2> QED BY <2>1, <2>2
  <1>4. Range(r) = Range(s) \ {Head(s)}
    BY <1>2, <1>3 DEF Range
  <1>5. IsInjective(r)
    BY <1>1 DEF IsInjective
  <1>6. Head(s) \in Range(s)
    BY <1>1 DEF Range
  <1> QED BY <1>1, <1>4, <1>5, <1>6

\* VecDeque::remove(i).
LEMMA BucketRemoveAt ==
  ASSUME NEW T, NEW s \in Seq(T), NEW k \in DOMAIN s, IsInjective(s)
  PROVE  /\ RemoveAt(s, k) \in Seq(T)
         /\ Range(RemoveAt(s, k)) = Range(s) \ {s[k]}
         /\ IsInjective(RemoveAt(s, k))
  <1> DEFINE p == SubSeq(s, 1, k - 1)
             q == SubSeq(s, k + 1, Len(s))
  <1>1. Len(s) \in Nat /\ DOMAIN s = 1..Len(s) /\ k \in 1..Len(s)
    OBVIOUS
  <1>2. /\ p \in Seq(T) /\ DOMAIN p = 1..(k - 1)
        /\ \A i \in 1..(k - 1) : p[i] = s[i]
    BY <1>1
  <1>3. /\ q \in Seq(T) /\ DOMAIN q = 1..(Len(s) - k)
        /\ \A i \in 1..(Len(s) - k) : q[i] = s[k + i]
    BY <1>1
  <1> HIDE DEF p, q
  <1>4. IsInjective(p) /\ IsInjective(q) /\ Range(p) \cap Range(q) = {}
    <2>0. \A i, j \in 1..Len(s) : s[i] = s[j] => i = j
      BY <1>1 DEF IsInjective
    <2>1. IsInjective(p)
      BY <1>1, <1>2, <2>0 DEF IsInjective
    <2>2. IsInjective(q)
      <3> SUFFICES ASSUME NEW i \in DOMAIN q, NEW j \in DOMAIN q, q[i] = q[j]
                   PROVE  i = j
        BY DEF IsInjective
      <3>1. k + i \in 1..Len(s) /\ k + j \in 1..Len(s)
        BY <1>1, <1>3
      <3> QED BY <1>1, <1>3, <2>0, <3>1
    <2>3. ASSUME NEW i \in DOMAIN p, NEW j \in DOMAIN q PROVE p[i] # q[j]
      <3>1. i \in 1..Len(s) /\ k + j \in 1..Len(s) /\ i # k + j
        BY <1>1, <1>2, <1>3
      <3> QED BY <1>2, <1>3, <2>0, <3>1
    <2> QED BY <2>1, <2>2, <2>3 DEF Range
  <1>5. Range(p) \cup Range(q) = Range(s) \ {s[k]}
    <2>0. \A i, j \in 1..Len(s) : s[i] = s[j] => i = j
      BY <1>1 DEF IsInjective
    <2>1. Range(p) \cup Range(q) \subseteq Range(s) \ {s[k]}
      <3>1. ASSUME NEW i \in DOMAIN p PROVE p[i] \in Range(s) \ {s[k]}
        <4>1. i \in 1..Len(s) /\ i # k
          BY <1>1, <1>2
        <4> QED BY <1>1, <1>2, <2>0, <4>1 DEF Range
      <3>2. ASSUME NEW i \in DOMAIN q PROVE q[i] \in Range(s) \ {s[k]}
        <4>1. k + i \in 1..Len(s) /\ k + i # k
          BY <1>1, <1>3
        <4> QED BY <1>1, <1>3, <2>0, <4>1 DEF Range
      <3> QED BY <3>1, <3>2 DEF Range
    <2>2. ASSUME NEW i \in DOMAIN s, i # k PROVE s[i] \in Range(p) \cup Range(q)
      <3>1. CASE i < k
        <4>1. i \in DOMAIN p /\ p[i] = s[i]
          BY <1>1, <1>2, <3>1
        <4> QED BY <4>1 DEF Range
      <3>2. CASE i > k
        <4>1. i - k \in DOMAIN q /\ k + (i - k) = i
          BY <1>1, <1>3, <3>2
        <4> QED BY <1>1, <1>3, <4>1 DEF Range
      <3> QED BY <1>1, <2>2, <3>1, <3>2
    <2> QED BY <2>1, <2>2 DEF Range
  <1>6. RemoveAt(s, k) = p \o q
    BY DEF RemoveAt, p, q
  <1> QED BY <1>2, <1>3, <1>4, <1>5, <1>6, BucketConcat

\* Collecting a finite HashMap in some order.
LEMMA BucketOrder ==
  ASSUME NEW T, NEW S \in SUBSET T, IsFiniteSet(S), NEW q \in SetToSeqs(S)
  PROVE  q \in Seq(T) /\ Range(q) = S /\ IsInjective(q)
  <1> DEFINE n == Cardinality(S)
  <1>1. n \in Nat
    BY FS_CardinalityType
  <1>2. q \in [1..n -> S] /\ IsInjective(q)
    BY DEF SetToSeqs, IsInjective
  <1>3. Cardinality(1..n) = n /\ IsFiniteSet(1..n)
    BY <1>1, FS_Interval
  <1>4. q \in Surjection(1..n, S)
    BY <1>2, <1>3, FS_Injection DEF Injection
  <1>5. Range(q) = S
    BY <1>2, <1>4 DEF Surjection, Range
  <1> QED BY <1>1, <1>2, <1>5

\* Overwriting one element.
LEMMA SlotUpdate ==
  ASSUME NEW T, NEW q \in Seq(T), NEW s \in DOMAIN q, NEW m \in T
  PROVE  /\ [q EXCEPT ![s] = m] \in Seq(T)
         /\ DOMAIN [q EXCEPT ![s] = m] = DOMAIN q
         /\ Len([q EXCEPT ![s] = m]) = Len(q)
         /\ [q EXCEPT ![s] = m][s] = m
         /\ \A r \in DOMAIN q : r # s => [q EXCEPT ![s] = m][r] = q[r]
  OBVIOUS

\* Rewriting every element.
LEMMA SlotMap ==
  ASSUME NEW T, NEW k \in Nat, NEW f \in [1..k -> T]
  PROVE  f \in Seq(T) /\ Len(f) = k /\ DOMAIN f = 1..k
  OBVIOUS

-----------------------------------------------------------------------------
\* x stands before y in the bucket q.
Before(q, x, y) == \E i, j \in DOMAIN q : i < j /\ q[i] = x /\ q[j] = y

\* A nearer place among the kept ones was nearer before.
LEMMA BeforeKeep ==
  ASSUME NEW T, NEW s \in Seq(T), NEW S, NEW x, NEW y, Before(Keep(s, S), x, y)
  PROVE  Before(s, x, y) /\ x \in S /\ y \in S
  <1> DEFINE I == Places(s, S)
             t == Keep(s, S)
  <1>1. /\ I \in SUBSET (1..Len(s)) /\ Len(s) \in Nat /\ DOMAIN s = 1..Len(s)
        /\ DOMAIN t = 1..Cardinality(I)
        /\ \A k \in DOMAIN t : /\ Nth(I, k) \in I /\ Rank(I, Nth(I, k)) = k
                               /\ t[k] = s[Nth(I, k)] /\ t[k] \in S
    BY KeepPlaces
  <1>2. PICK i \in DOMAIN t, j \in DOMAIN t : i < j /\ t[i] = x /\ t[j] = y
    BY DEF Before
  <1> HIDE DEF t, I
  <1>3. PICK a \in I : Rank(I, a) = i /\ x = s[a]
    BY <1>1, <1>2
  <1>4. PICK b \in I : Rank(I, b) = j /\ y = s[b]
    BY <1>1, <1>2
  <1>5. \A c, d \in I : c < d => Rank(I, c) < Rank(I, d)
    BY <1>1, RankType
  <1>6. i \in Int /\ j \in Int /\ a \in Int /\ b \in Int /\ a \in DOMAIN s /\ b \in DOMAIN s
    BY <1>1
  <1>7. a < b
    <2>1. a # b
      BY <1>2, <1>3, <1>4, <1>6
    <2>2. CASE b < a
      <3>1. j < i
        BY <1>3, <1>4, <1>5, <2>2
      <3> QED BY <1>2, <1>6, <3>1
    <2> QED BY <1>6, <2>1, <2>2
  <1> QED BY <1>1, <1>2, <1>3, <1>4, <1>6, <1>7 DEF Before

\* Joining two buckets puts all of the first before all of the second.
LEMMA BeforeConcat ==
  ASSUME NEW T, NEW s \in Seq(T), NEW t \in Seq(T), NEW x, NEW y, Before(s \o t, x, y)
  PROVE  \/ Before(s, x, y) \/ Before(t, x, y)
         \/ x \in Range(s) /\ y \in Range(t)
  <1> DEFINE c == s \o t
             n == Len(s)
  <1>1. /\ n \in Nat /\ Len(t) \in Nat /\ DOMAIN c = 1..(n + Len(t))
        /\ DOMAIN s = 1..n /\ DOMAIN t = 1..Len(t)
        /\ \A i \in 1..n : c[i] = s[i]
        /\ \A i \in 1..Len(t) : c[n + i] = t[i]
    OBVIOUS
  <1>2. PICK i \in DOMAIN c, j \in DOMAIN c : i < j /\ c[i] = x /\ c[j] = y
    BY DEF Before
  <1> HIDE DEF c, n
  <1>3. CASE j <= n
    <2>1. i \in DOMAIN s /\ j \in DOMAIN s /\ s[i] = x /\ s[j] = y
      BY <1>1, <1>2, <1>3
    <2> QED BY <1>2, <2>1 DEF Before
  <1>4. CASE n < i
    <2>1. PICK m \in Nat : m = Len(t)
      BY <1>1
    <2>2. i \in Int /\ j \in Int /\ n \in Int /\ i < j /\ n < i /\ j <= n + m
      BY <1>1, <1>2, <1>4, <2>1
    <2>3. PICK a \in Int, b \in Int : i = n + a /\ j = n + b
      <3>1. i - n \in Int /\ j - n \in Int /\ i = n + (i - n) /\ j = n + (j - n)
        BY <2>2
      <3> QED BY <3>1
    <2>4. a \in 1..m /\ b \in 1..m /\ a < b
      BY <2>2, <2>3
    <2>5. t[a] = x /\ t[b] = y
      BY <1>1, <1>2, <2>1, <2>3, <2>4
    <2> QED BY <1>1, <2>1, <2>4, <2>5 DEF Before
  <1>5. CASE i <= n /\ n < j
    <2> DEFINE b == j - n
    <2>1. i \in DOMAIN s /\ b \in DOMAIN t /\ j = n + b
      BY <1>1, <1>2, <1>5
    <2> HIDE DEF b
    <2>2. s[i] = x /\ t[b] = y
      BY <1>1, <1>2, <2>1
    <2> QED BY <2>1, <2>2 DEF Range
  <1> QED BY <1>1, <1>2, <1>3, <1>4, <1>5

\* push_back puts z behind all others.
LEMMA BeforePushBack ==
  ASSUME NEW T, NEW s \in Seq(T), NEW z \in T, NEW x, NEW y, Before(Append(s, z), x, y)
  PROVE  Before(s, x, y) \/ (x \in Range(s) /\ y = z)
  <1>1. /\ Len(s) \in Nat /\ DOMAIN s = 1..Len(s) /\ DOMAIN Append(s, z) = 1..(Len(s) + 1)
        /\ \A i \in 1..Len(s) : Append(s, z)[i] = s[i]
        /\ Append(s, z)[Len(s) + 1] = z
    OBVIOUS
  <1>2. PICK i \in DOMAIN Append(s, z), j \in DOMAIN Append(s, z) :
          i < j /\ Append(s, z)[i] = x /\ Append(s, z)[j] = y
    BY DEF Before
  <1>3. i \in DOMAIN s /\ s[i] = x
    BY <1>1, <1>2
  <1>4. CASE j \in DOMAIN s
    BY <1>1, <1>2, <1>3, <1>4 DEF Before
  <1>5. CASE j = Len(s) + 1
    BY <1>1, <1>2, <1>3, <1>5 DEF Range
  <1> QED BY <1>1, <1>2, <1>4, <1>5

\* pop_front and remove(i) leave the others in their order.
LEMMA BeforePopFront ==
  ASSUME NEW T, NEW s \in Seq(T), s # <<>>, NEW x, NEW y, Before(Tail(s), x, y)
  PROVE  Before(s, x, y)
  <1>1. /\ DOMAIN s = 1..Len(s) /\ DOMAIN Tail(s) = 1..(Len(s) - 1)
        /\ Len(s) \in Nat /\ Len(s) > 0
        /\ \A i \in 1..(Len(s) - 1) : Tail(s)[i] = s[i + 1]
    OBVIOUS
  <1>2. PICK i \in DOMAIN Tail(s), j \in DOMAIN Tail(s) :
          i < j /\ Tail(s)[i] = x /\ Tail(s)[j] = y
    BY DEF Before
  <1>3. /\ i + 1 \in DOMAIN s /\ j + 1 \in DOMAIN s /\ i + 1 < j + 1
        /\ s[i + 1] = x /\ s[j + 1] = y
    BY <1>1, <1>2
  <1> QED BY <1>3 DEF Before

LEMMA BeforeRemoveAt ==
  ASSUME NEW T, NEW s \in Seq(T), NEW k \in DOMAIN s, NEW x, NEW y,
         Before(RemoveAt(s, k), x, y)
  PROVE  Before(s, x, y)
  <1> DEFINE p == SubSeq(s, 1, k - 1)
             q == SubSeq(s, k + 1, Len(s))
  <1>1. Len(s) \in Nat /\ DOMAIN s = 1..Len(s) /\ k \in 1..Len(s)
    OBVIOUS
  <1>2. /\ p \in Seq(T) /\ DOMAIN p = 1..(k - 1)
        /\ \A i \in 1..(k - 1) : p[i] = s[i]
    BY <1>1
  <1>3. /\ q \in Seq(T) /\ DOMAIN q = 1..(Len(s) - k)
        /\ \A i \in 1..(Len(s) - k) : q[i] = s[k + i]
    BY <1>1
  <1> HIDE DEF p, q
  <1>4. Before(p \o q, x, y)
    BY DEF RemoveAt, p, q
  <1>5. CASE Before(p, x, y)
    <2>1. PICK i \in DOMAIN p, j \in DOMAIN p : i < j /\ p[i] = x /\ p[j] = y
      BY <1>5 DEF Before
    <2>2. i \in DOMAIN s /\ j \in DOMAIN s /\ s[i] = x /\ s[j] = y
      BY <1>1, <1>2, <2>1
    <2> QED BY <2>1, <2>2 DEF Before
  <1>6. CASE Before(q, x, y)
    <2>1. PICK i \in DOMAIN q, j \in DOMAIN q : i < j /\ q[i] = x /\ q[j] = y
      BY <1>6 DEF Before
    <2>2. /\ k + i \in DOMAIN s /\ k + j \in DOMAIN s /\ k + i < k + j
          /\ s[k + i] = x /\ s[k + j] = y
      BY <1>1, <1>3, <2>1
    <2> QED BY <2>2 DEF Before
  <1>7. CASE x \in Range(p) /\ y \in Range(q)
    <2>1. PICK i \in DOMAIN p : p[i] = x
      BY <1>7 DEF Range
    <2>2. PICK j \in DOMAIN q : q[j] = y
      BY <1>7 DEF Range
    <2>3. /\ i \in DOMAIN s /\ k + j \in DOMAIN s /\ i < k + j
          /\ s[i] = x /\ s[k + j] = y
      BY <1>1, <1>2, <1>3, <2>1, <2>2
    <2> QED BY <2>3 DEF Before
  <1> QED BY <1>2, <1>3, <1>4, <1>5, <1>6, <1>7, BeforeConcat
=============================================================================
