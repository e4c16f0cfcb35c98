------------------------- MODULE SharedStateProofs --------------------------
(***************************************************************************)
(* Proofs about what concurrent calls share in memory: the raw tier of the *)
(* fetch cache, the KEV catalogue and the arXiv gate; for any number of    *)
(* calls, URLs, lengths and limits.                                        *)
(***************************************************************************)
EXTENDS FetchCache, KevCatalogue, ArxivGate, SequenceTheorems, WellFoundedInduction, TLAPS

-----------------------------------------------------------------------------
(* Induction over the naturals, from the well-foundedness of their order:  *)
(* a set with 0 and the successor of each of its members leaves out none.  *)
LEMMA NatClosed ==
    ASSUME NEW S \in SUBSET Nat, 0 \in S, \A n \in S : n + 1 \in S
    PROVE  S = Nat
<1> DEFINE R == OpToRel(<, Nat)
           T == Nat \ S
<1> SUFFICES ASSUME T # {} PROVE FALSE
  OBVIOUS
<1>1. \A m, n \in Nat : m < n => <<m, n>> \in R
  BY DEF OpToRel
<1>2. IsWellFoundedOn(R, Nat)
  BY NatLessThanWellFounded
<1> HIDE DEF R
<1>3. PICK n \in T : \A m \in T : ~(<<m, n>> \in R)
  BY <1>2, WFMin
<1>4. n \in Nat /\ n # 0 /\ n - 1 \in Nat /\ n - 1 < n
  BY <1>3
<1>5. n - 1 \in S
  BY <1>1, <1>3, <1>4
<1>6. n - 1 + 1 \in S
  BY <1>5
<1> QED  BY <1>3, <1>4, <1>6

LEMMA RemoveAtProperties ==
    ASSUME NEW S, NEW s \in Seq(S), NEW n \in 1..Len(s)
    PROVE  /\ RemoveAt(s, n) \in Seq(S) /\ Len(RemoveAt(s, n)) = Len(s) - 1
           /\ \A i \in 1..n - 1 : RemoveAt(s, n)[i] = s[i]
           /\ \A i \in n..Len(s) - 1 : RemoveAt(s, n)[i] = s[i + 1]
<1> DEFINE front == SubSeq(s, 1, n - 1)
           back == SubSeq(s, n + 1, Len(s))
<1>0. Len(s) \in Nat /\ n \in Int /\ n >= 1 /\ n <= Len(s)
  BY LenProperties
<1>1. front \in Seq(S) /\ Len(front) = n - 1 /\ \A i \in 1..n - 1 : front[i] = s[i]
  BY <1>0, SubSeqProperties
<1>2. back \in Seq(S) /\ Len(back) = Len(s) - n /\ \A i \in 1..Len(s) - n : back[i] = s[n + i]
  <2>1. \A i \in n + 1..Len(s) : s[i] \in S
    BY <1>0, ElementOfSeq
  <2>2. n + 1 \in Int /\ Len(s) \in Int
    BY <1>0
  <2>3. /\ back \in Seq(S)
        /\ Len(back) = IF n + 1 <= Len(s) THEN Len(s) - (n + 1) + 1 ELSE 0
        /\ \A i \in 1..Len(s) - (n + 1) + 1 : back[i] = s[n + 1 + i - 1]
    BY <2>1, <2>2, SubSeqProperties
  <2>4. Len(s) - (n + 1) + 1 = Len(s) - n /\ \A i \in Int : n + 1 + i - 1 = n + i
    BY <1>0
  <2> HIDE DEF back
  <2>5. Len(back) = Len(s) - n
    <3>1. CASE n + 1 <= Len(s)
      BY <1>0, <2>3, <3>1
    <3>2. CASE ~(n + 1 <= Len(s))
      <4>1. Len(back) = 0
        BY <2>3, <3>2, Zenon
      <4> QED BY <1>0, <3>2, <4>1
    <3> QED  BY <3>1, <3>2
  <2>6. ASSUME NEW i \in 1..Len(s) - n PROVE back[i] = s[n + i]
    <3>1. back[i] = s[n + 1 + i - 1]
      BY <2>3, <2>4
    <3>2. n + 1 + i - 1 = n + i
      BY <1>0
    <3> QED  BY <3>1, <3>2
  <2> QED  BY <2>3, <2>5, <2>6
<1>3. RemoveAt(s, n) = front \o back
  BY DEF RemoveAt
<1> HIDE DEF front, back
<1>4. /\ front \o back \in Seq(S) /\ Len(front \o back) = Len(front) + Len(back)
      /\ \A i \in 1..Len(front) + Len(back) :
              (front \o back)[i] = IF i <= Len(front) THEN front[i] ELSE back[i - Len(front)]
  BY <1>1, <1>2, ConcatProperties
<1>5. Len(front) + Len(back) = Len(s) - 1
  BY <1>0, <1>1, <1>2
<1>6. ASSUME NEW i \in 1..n - 1 PROVE (front \o back)[i] = s[i]
  BY <1>0, <1>1, <1>4, <1>5
<1>7. ASSUME NEW i \in n..Len(s) - 1 PROVE (front \o back)[i] = s[i + 1]
  <2>1. i - (n - 1) \in 1..Len(s) - n /\ n + (i - (n - 1)) = i + 1
    BY <1>0
  <2>2. (front \o back)[i] = back[i - (n - 1)]
    BY <1>0, <1>1, <1>4, <1>5
  <2> QED  BY <2>1, <2>2, <1>2
<1> QED  BY <1>3, <1>4, <1>5, <1>6, <1>7

(* The sums that Taken is about.                                           *)
IsSum(f, v, n) ==
    /\ f \in [0..n -> Nat]
    /\ f[0] = 0
    /\ \A i \in 1..n : f[i] = f[i - 1] + v[i]

LEMMA SumExists ==
    ASSUME NEW N \in Nat, NEW v, \A i \in 1..N : v[i] \in Nat
    PROVE  \E f : IsSum(f, v, N)
<1> DEFINE S == {n \in Nat : n <= N => \E f : IsSum(f, v, n)}
<1>1. 0 \in S
  <2>1. IsSum([i \in 0..0 |-> 0], v, 0)
    BY DEF IsSum
  <2> QED  BY <2>1
<1>2. ASSUME NEW n \in S PROVE n + 1 \in S
  <2> SUFFICES ASSUME n + 1 <= N PROVE \E f : IsSum(f, v, n + 1)
    OBVIOUS
  <2>1. PICK f : IsSum(f, v, n)
    BY <1>2
  <2> DEFINE g == [i \in 0..n + 1 |-> IF i = n + 1 THEN f[n] + v[n + 1] ELSE f[i]]
  <2>2. n \in Nat /\ v[n + 1] \in Nat
    OBVIOUS
  <2>3. f[n] \in Nat
    BY <2>1, <2>2 DEF IsSum
  <2>4. g \in [0..n + 1 -> Nat] /\ g[0] = 0
    BY <2>1, <2>2, <2>3 DEF IsSum
  <2>5. \A i \in 1..n + 1 : g[i] = g[i - 1] + v[i]
    BY <2>1, <2>2 DEF IsSum
  <2> QED  BY <2>4, <2>5 DEF IsSum
<1> HIDE DEF S
<1>3. S = Nat
  BY <1>1, <1>2, NatClosed DEF S
<1> QED  BY <1>3 DEF S

Entry == [key : CacheKey, body : Nat]
ValidEntry(e) == e \in Entry /\ e.body \in Version(e.key)
EntrySeq(s) == s \in Seq(Entry) /\ \A i \in 1..Len(s) : ValidEntry(s[i])

LEMMA EntryLenType ==
    ASSUME NEW e, ValidEntry(e) PROVE EntryLen(e) \in Nat
  BY CacheAssumption DEF ValidEntry, Entry, EntryLen, Version

LEMMA TakenSums ==
    ASSUME NEW s, EntrySeq(s)
    PROVE  /\ Taken(s) \in [0..Len(s) -> Nat]
           /\ Taken(s)[0] = 0
           /\ \A n \in 1..Len(s) : Taken(s)[n] = Taken(s)[n - 1] + EntryLen(s[n])
<1> DEFINE v == [i \in 1..Len(s) |-> EntryLen(s[i])]
           F(f) == [n \in 0..Len(s) |-> IF n = 0 THEN 0 ELSE f[n - 1] + EntryLen(s[n])]
<1>0. Len(s) \in Nat
  BY DEF EntrySeq
<1>1. \A i \in 1..Len(s) : v[i] \in Nat /\ v[i] = EntryLen(s[i])
  BY EntryLenType DEF EntrySeq
<1>2. PICK f : IsSum(f, v, Len(s))
  <2> HIDE DEF v
  <2> QED  BY <1>0, <1>1, SumExists
<1>3. f = F(f)
  <2>1. \A n \in 0..Len(s) : f[n] = F(f)[n]
    <3> TAKE n \in 0..Len(s)
    <3>1. CASE n = 0
      BY <3>1, <1>2 DEF IsSum
    <3>2. CASE n # 0
      <4>1. n \in 1..Len(s)
        BY <3>2, <1>0
      <4> QED  BY <4>1, <3>2, <1>1, <1>2 DEF IsSum
    <3> QED  BY <3>1, <3>2
  <2>2. f \in [0..Len(s) -> Nat] /\ F(f) \in [0..Len(s) -> Nat]
    <3>1. f \in [0..Len(s) -> Nat]
      BY <1>2 DEF IsSum
    <3> QED  BY <3>1, <2>1
  <2> HIDE DEF F
  <2> QED  BY <2>1, <2>2
<1>4. Taken(s) = F(Taken(s))
  <2>1. Taken(s) = CHOOSE g : g = F(g)
    BY DEF Taken
  <2> HIDE DEF F
  <2> QED  BY <1>3, <2>1
<1> DEFINE t == Taken(s)
<1>5. t[0] = 0 /\ \A n \in 1..Len(s) : t[n] = t[n - 1] + EntryLen(s[n])
  <2> HIDE DEF t
  <2>1. t = F(t)
    BY <1>4 DEF t
  <2>2. t[0] = 0
    BY <2>1, <1>0
  <2>3. ASSUME NEW n \in 1..Len(s) PROVE t[n] = t[n - 1] + EntryLen(s[n])
    BY <2>1, <1>0
  <2> QED  BY <2>2, <2>3
<1>6. \A n \in 0..Len(s) : t[n] \in Nat
  <2> HIDE DEF t
  <2> DEFINE S == {n \in Nat : n <= Len(s) => t[n] \in Nat}
  <2>1. 0 \in S
    BY <1>5
  <2>2. ASSUME NEW n \in S PROVE n + 1 \in S
    <3> SUFFICES ASSUME n + 1 <= Len(s) PROVE t[n + 1] \in Nat
      OBVIOUS
    <3>1. n + 1 \in 1..Len(s) /\ t[n] \in Nat /\ n + 1 - 1 = n
      BY <1>0
    <3>2. EntryLen(s[n + 1]) \in Nat
      BY <3>1, EntryLenType DEF EntrySeq
    <3> QED  BY <3>1, <3>2, <1>5
  <2> HIDE DEF S
  <2>3. S = Nat
    BY <2>1, <2>2, NatClosed DEF S
  <2> QED  BY <2>3, <1>0 DEF S
<1>7. t = [n \in 0..Len(s) |-> t[n]]
  <2> HIDE DEF t
  <2>1. t = F(t)
    BY <1>4 DEF t
  <2> QED  BY <2>1
<1>8. t \in [0..Len(s) -> Nat]
  <2> HIDE DEF t
  <2> QED  BY <1>6, <1>7
<1> QED  BY <1>5, <1>8

LEMMA BytesType ==
    ASSUME NEW s, EntrySeq(s) PROVE Bytes(s) \in Nat
<1>1. Len(s) \in Nat
  BY DEF EntrySeq
<1> QED  BY <1>1, TakenSums DEF Bytes

LEMMA BytesEmpty == Bytes(<<>>) = 0
<1>1. EntrySeq(<<>>) /\ Len(<<>>) = 0
  BY DEF EntrySeq
<1> QED  BY <1>1, TakenSums DEF Bytes

LEMMA BytesSingle ==
    ASSUME NEW e, ValidEntry(e) PROVE EntrySeq(<<e>>) /\ Bytes(<<e>>) = EntryLen(e)
<1>1. EntrySeq(<<e>>) /\ Len(<<e>>) = 1 /\ <<e>>[1] = e
  BY DEF EntrySeq, ValidEntry
<1>2. Taken(<<e>>)[1] = Taken(<<e>>)[0] + EntryLen(<<e>>[1]) /\ Taken(<<e>>)[0] = 0
  <2> DEFINE s == <<e>>
  <2> HIDE DEF s
  <2>1. EntrySeq(s) /\ 1 \in 1..Len(s) /\ 1 - 1 = 0
    BY <1>1 DEF s
  <2> QED  BY <2>1, TakenSums DEF s
<1> QED  BY <1>1, <1>2, EntryLenType DEF Bytes

LEMMA BytesConcat ==
    ASSUME NEW s, NEW t, EntrySeq(s), EntrySeq(t)
    PROVE  EntrySeq(s \o t) /\ Bytes(s \o t) = Bytes(s) + Bytes(t)
<1> DEFINE u == s \o t
<1>0. Len(s) \in Nat /\ Len(t) \in Nat
  BY DEF EntrySeq
<1>1. /\ u \in Seq(Entry) /\ Len(u) = Len(s) + Len(t)
      /\ \A i \in 1..Len(s) + Len(t) : u[i] = IF i <= Len(s) THEN s[i] ELSE t[i - Len(s)]
  BY ConcatProperties DEF EntrySeq
<1> HIDE DEF u
<1>2. \A i \in 1..Len(s) : u[i] = s[i]
  BY <1>0, <1>1
<1>3. \A i \in 1..Len(t) : u[Len(s) + i] = t[i]
  <2> TAKE i \in 1..Len(t)
  <2>1. Len(s) + i \in 1..Len(s) + Len(t) /\ ~(Len(s) + i <= Len(s)) /\ Len(s) + i - Len(s) = i
    BY <1>0
  <2> QED  BY <2>1, <1>1
<1>4. EntrySeq(u)
  <2>1. ASSUME NEW i \in 1..Len(u) PROVE ValidEntry(u[i])
    <3>1. CASE i <= Len(s)
      BY <3>1, <1>0, <1>1, <1>2 DEF EntrySeq
    <3>2. CASE i > Len(s)
      <4>1. i - Len(s) \in 1..Len(t) /\ Len(s) + (i - Len(s)) = i
        BY <3>2, <1>0, <1>1
      <4> QED  BY <4>1, <1>3 DEF EntrySeq
    <3> QED  BY <3>1, <3>2, <1>0, <1>1
  <2> QED  BY <1>1, <2>1 DEF EntrySeq
<1>5. Taken(u)[Len(s)] = Taken(s)[Len(s)]
  <2> DEFINE S == {n \in Nat : n <= Len(s) => Taken(u)[n] = Taken(s)[n]}
  <2>1. 0 \in S
    BY <1>4, TakenSums
  <2>2. ASSUME NEW n \in S PROVE n + 1 \in S
    <3> SUFFICES ASSUME n + 1 <= Len(s) PROVE Taken(u)[n + 1] = Taken(s)[n + 1]
      OBVIOUS
    <3>1. n + 1 \in 1..Len(s) /\ n + 1 \in 1..Len(u) /\ n + 1 - 1 = n /\ Taken(u)[n] = Taken(s)[n]
      BY <1>0, <1>1
    <3>2. Taken(u)[n + 1] = Taken(u)[n + 1 - 1] + EntryLen(u[n + 1])
      BY <3>1, <1>4, TakenSums
    <3>3. Taken(s)[n + 1] = Taken(s)[n + 1 - 1] + EntryLen(s[n + 1])
      BY <3>1, TakenSums
    <3> QED  BY <3>1, <3>2, <3>3, <1>2
  <2> HIDE DEF S
  <2>3. S = Nat
    BY <2>1, <2>2, NatClosed DEF S
  <2> QED  BY <2>3, <1>0 DEF S
<1>6. Taken(u)[Len(s) + Len(t)] = Taken(s)[Len(s)] + Taken(t)[Len(t)]
  <2> DEFINE S == {n \in Nat : n <= Len(t) => Taken(u)[Len(s) + n] = Taken(s)[Len(s)] + Taken(t)[n]}
  <2>1. 0 \in S
    <3>1. Taken(t)[0] = 0 /\ Taken(s)[Len(s)] \in Nat /\ Len(s) + 0 = Len(s)
      BY <1>0, TakenSums
    <3> QED  BY <3>1, <1>5
  <2>2. ASSUME NEW n \in S PROVE n + 1 \in S
    <3> SUFFICES ASSUME n + 1 <= Len(t)
                 PROVE  Taken(u)[Len(s) + (n + 1)] = Taken(s)[Len(s)] + Taken(t)[n + 1]
      OBVIOUS
    <3>1. /\ n + 1 \in 1..Len(t) /\ Len(s) + (n + 1) \in 1..Len(u)
          /\ n + 1 - 1 = n /\ Len(s) + (n + 1) - 1 = Len(s) + n
          /\ Taken(u)[Len(s) + n] = Taken(s)[Len(s)] + Taken(t)[n]
      BY <1>0, <1>1
    <3>2. Taken(u)[Len(s) + (n + 1)] = Taken(u)[Len(s) + n] + EntryLen(u[Len(s) + (n + 1)])
      BY <3>1, <1>4, TakenSums
    <3>3. Taken(t)[n + 1] = Taken(t)[n] + EntryLen(t[n + 1])
      BY <3>1, TakenSums
    <3>4. u[Len(s) + (n + 1)] = t[n + 1] /\ EntryLen(t[n + 1]) \in Nat
      BY <3>1, <1>3, EntryLenType DEF EntrySeq
    <3>5. Taken(s)[Len(s)] \in Nat /\ Taken(t)[n] \in Nat
      <4>1. Len(s) \in 0..Len(s) /\ n \in 0..Len(t)
        BY <1>0, <3>1
      <4>2. Taken(s) \in [0..Len(s) -> Nat] /\ Taken(t) \in [0..Len(t) -> Nat]
        BY TakenSums
      <4> QED  BY <4>1, <4>2
    <3> QED  BY <3>1, <3>2, <3>3, <3>4, <3>5
  <2> HIDE DEF S
  <2>3. S = Nat
    BY <2>1, <2>2, NatClosed DEF S
  <2>4. Len(t) \in S /\ Len(t) <= Len(t)
    BY <2>3, <1>0
  <2> QED  BY <2>4 DEF S
<1> QED  BY <1>1, <1>4, <1>6 DEF Bytes, u

-----------------------------------------------------------------------------
(* What eviction and replacement keep of the entries.                      *)

(* Entries of URLs that differ.                                            *)
Unique(s) == \A i, j \in 1..Len(s) : s[i].key = s[j].key => i = j
Tier(s) == EntrySeq(s) /\ Unique(s)
(* t has only entries of s.                                                *)
Within(t, s) == \A i \in 1..Len(t) : \E j \in 1..Len(s) : t[i] = s[j]

(* The first m of s, and what eviction takes away with the rest.           *)
LEMMA PrefixKeeps ==
    ASSUME NEW s, Tier(s), NEW m \in 0..Len(s)
    PROVE  /\ Tier(SubSeq(s, 1, m)) /\ Len(SubSeq(s, 1, m)) = m /\ Within(SubSeq(s, 1, m), s)
           /\ EntrySeq(SubSeq(s, m + 1, Len(s)))
           /\ Bytes(SubSeq(s, 1, m)) + Bytes(SubSeq(s, m + 1, Len(s))) = Bytes(s)
<1> DEFINE front == SubSeq(s, 1, m)
           back == SubSeq(s, m + 1, Len(s))
<1>0. s \in Seq(Entry) /\ Len(s) \in Nat /\ m \in Int /\ m + 1 \in Int /\ 0 <= m /\ m <= Len(s)
  BY DEF Tier, EntrySeq
<1>1. \A i \in 1..Len(s) : s[i] \in Entry
  BY <1>0, ElementOfSeq
<1>2. front \in Seq(Entry) /\ Len(front) = m /\ \A i \in 1..m : front[i] = s[i]
  BY <1>0, <1>1, SubSeqProperties
<1>3. back \in Seq(Entry) /\ \A i \in 1..Len(back) : back[i] = s[m + i]
  <2>1. \A i \in m + 1..Len(s) : s[i] \in Entry
    BY <1>0, <1>1
  <2>2. /\ back \in Seq(Entry)
        /\ Len(back) = IF m + 1 <= Len(s) THEN Len(s) - (m + 1) + 1 ELSE 0
        /\ \A i \in 1..Len(s) - (m + 1) + 1 : back[i] = s[m + 1 + i - 1]
    BY <1>0, <2>1, SubSeqProperties
  <2> HIDE DEF back
  <2>3. Len(back) = Len(s) - (m + 1) + 1
    BY <1>0, <2>2
  <2>4. ASSUME NEW i \in 1..Len(back) PROVE back[i] = s[m + i]
    <3>1. back[i] = s[m + 1 + i - 1]
      BY <2>2, <2>3
    <3>2. m + 1 + i - 1 = m + i
      BY <1>0, <2>3
    <3> QED  BY <3>1, <3>2
  <2> QED  BY <2>2, <2>4
<1>4. Len(back) = Len(s) - m
  <2>1. Len(back) = IF m + 1 <= Len(s) THEN Len(s) - (m + 1) + 1 ELSE 0
    BY <1>0, <1>1, SubSeqProperties
  <2> HIDE DEF back
  <2> QED  BY <2>1, <1>0
<1>5. s = front \o back
  <2>1. SubSeq(s, 1, m) \o SubSeq(s, m + 1, Len(s)) = SubSeq(s, 1, Len(s))
    <3>1. 1 \in 1..Len(s) + 1 /\ m \in 1 - 1..Len(s) /\ Len(s) \in m..Len(s)
      BY <1>0
    <3> QED  BY <1>0, <3>1, ConcatAdjacentSubSeq
  <2> QED  BY <2>1, <1>0, SubSeqFull
<1> HIDE DEF front, back
<1>6. EntrySeq(front) /\ Unique(front) /\ Within(front, s)
  <2>1. \A i \in 1..Len(front) : i \in 1..Len(s) /\ front[i] = s[i]
    BY <1>0, <1>2
  <2> QED  BY <1>2, <2>1 DEF EntrySeq, Tier, Unique, Within
<1>7. EntrySeq(back)
  <2>1. \A i \in 1..Len(back) : m + i \in 1..Len(s) /\ back[i] = s[m + i]
    BY <1>0, <1>3, <1>4
  <2> QED  BY <1>3, <2>1 DEF EntrySeq, Tier
<1>8. Bytes(s) = Bytes(front) + Bytes(back)
  BY <1>5, <1>6, <1>7, BytesConcat
<1> QED  BY <1>2, <1>6, <1>7, <1>8 DEF front, back, Tier

(* Without the n-th entry.                                                 *)
LEMMA RemoveKeeps ==
    ASSUME NEW s, Tier(s), NEW n \in 1..Len(s)
    PROVE  /\ Tier(RemoveAt(s, n)) /\ Len(RemoveAt(s, n)) = Len(s) - 1
           /\ Within(RemoveAt(s, n), s)
           /\ \A i \in 1..Len(s) - 1 : RemoveAt(s, n)[i].key # s[n].key
           /\ Bytes(RemoveAt(s, n)) + EntryLen(s[n]) = Bytes(s)
<1> DEFINE front == SubSeq(s, 1, n - 1)
           back == SubSeq(s, n + 1, Len(s))
           rest == SubSeq(s, n, Len(s))
           t == front \o back
<1>0. s \in Seq(Entry) /\ Len(s) \in Nat /\ n \in Nat /\ 1 <= n /\ n <= Len(s) /\ n - 1 \in 0..Len(s)
      /\ n - 1 + 1 = n
  BY DEF Tier, EntrySeq
<1>1. /\ Tier(front) /\ Len(front) = n - 1 /\ EntrySeq(rest) /\ Bytes(front) + Bytes(rest) = Bytes(s)
  <2>1. /\ Tier(front) /\ Len(front) = n - 1 /\ EntrySeq(SubSeq(s, n - 1 + 1, Len(s)))
        /\ Bytes(front) + Bytes(SubSeq(s, n - 1 + 1, Len(s))) = Bytes(s)
    BY <1>0, PrefixKeeps
  <2> QED  BY <2>1, <1>0
<1>2. EntrySeq(back)
  BY <1>0, PrefixKeeps
<1>3. rest = <<s[n]>> \o back
  <2>1. n \in 1..Len(s) /\ Len(s) \in n..Len(s)
    BY <1>0
  <2> QED  BY <1>0, <2>1, SubSeqRecursiveFirst
<1>4. ValidEntry(s[n])
  BY DEF Tier, EntrySeq
<1>5. Bytes(rest) = EntryLen(s[n]) + Bytes(back)
  <2>1. EntrySeq(<<s[n]>>) /\ Bytes(<<s[n]>>) = EntryLen(s[n])
    BY <1>4, BytesSingle
  <2> HIDE DEF rest, back
  <2> QED  BY <2>1, <1>2, <1>3, BytesConcat
<1>6. EntrySeq(t) /\ Bytes(t) = Bytes(front) + Bytes(back)
  <2> HIDE DEF front, back
  <2> QED  BY <1>1, <1>2, BytesConcat DEF Tier
<1>7. Bytes(t) + EntryLen(s[n]) = Bytes(s)
  <2>1. Bytes(front) \in Nat /\ Bytes(back) \in Nat /\ EntryLen(s[n]) \in Nat
    BY <1>1, <1>2, <1>4, BytesType, EntryLenType DEF Tier
  <2> HIDE DEF front, back, rest, t
  <2> QED  BY <2>1, <1>1, <1>5, <1>6
<1>8. t = RemoveAt(s, n)
  BY DEF RemoveAt
<1> DEFINE Source(i) == IF i < n THEN i ELSE i + 1
<1>9. Len(t) = Len(s) - 1 /\ \A i \in 1..Len(s) - 1 : Source(i) \in 1..Len(s) /\ Source(i) # n /\ t[i] = s[Source(i)]
  <2>1. Len(RemoveAt(s, n)) = Len(s) - 1
    BY <1>0, RemoveAtProperties
  <2>2. \A i \in 1..n - 1 : RemoveAt(s, n)[i] = s[i]
    BY <1>0, RemoveAtProperties
  <2>3. \A i \in n..Len(s) - 1 : RemoveAt(s, n)[i] = s[i + 1]
    BY ONLY <1>0, RemoveAtProperties, n \in 1..Len(s)
  <2> HIDE DEF t
  <2>4. ASSUME NEW i \in 1..Len(s) - 1 PROVE Source(i) \in 1..Len(s) /\ Source(i) # n /\ t[i] = s[Source(i)]
    <3>1. CASE i < n
      <4>1. i \in 1..n - 1 /\ Source(i) = i
        BY <3>1, <1>0
      <4> QED  BY <4>1, <3>1, <2>2, <1>0, <1>8
    <3>2. CASE i >= n
      <4>1. i \in n..Len(s) - 1 /\ Source(i) = i + 1
        BY <3>2, <1>0
      <4> QED  BY <4>1, <3>2, <2>3, <1>0, <1>8
    <3> QED  BY <3>1, <3>2, <1>0
  <2> QED  BY <2>1, <2>4, <1>8
<1>10. \A i, j \in 1..Len(s) - 1 : Source(i) = Source(j) => i = j
  BY <1>0
<1> HIDE DEF front, back, rest, t, Source
<1>11. Unique(t) /\ Within(t, s)
  <2>1. ASSUME NEW i \in 1..Len(t), NEW j \in 1..Len(t), t[i].key = t[j].key PROVE i = j
    <3>1. Source(i) = Source(j)
      BY <2>1, <1>9 DEF Tier, Unique
    <3> QED  BY <3>1, <1>9, <1>10
  <2>2. \A i \in 1..Len(t) : \E j \in 1..Len(s) : t[i] = s[j]
    BY <1>9
  <2> QED  BY <2>1, <2>2 DEF Unique, Within
<1>12. \A i \in 1..Len(s) - 1 : t[i].key # s[n].key
  BY <1>9 DEF Tier, Unique
<1> QED  BY <1>6, <1>7, <1>8, <1>9, <1>11, <1>12 DEF Tier

(* An entry in front of others that are of other URLs.                     *)
LEMMA ConsKeeps ==
    ASSUME NEW s, Tier(s), NEW e, ValidEntry(e), \A i \in 1..Len(s) : s[i].key # e.key
    PROVE  /\ Tier(<<e>> \o s) /\ Len(<<e>> \o s) = Len(s) + 1
           /\ (<<e>> \o s)[1] = e
           /\ \A i \in 2..Len(s) + 1 : (<<e>> \o s)[i] = s[i - 1]
           /\ Bytes(<<e>> \o s) = EntryLen(e) + Bytes(s)
<1> DEFINE t == <<e>> \o s
<1>0. s \in Seq(Entry) /\ Len(s) \in Nat /\ e \in Entry
  BY DEF Tier, EntrySeq, ValidEntry
<1>1. EntrySeq(<<e>>) /\ Bytes(<<e>>) = EntryLen(e)
  BY BytesSingle
<1>2. EntrySeq(t) /\ Bytes(t) = EntryLen(e) + Bytes(s)
  BY <1>1, BytesConcat DEF Tier
<1>3. Len(t) = Len(s) + 1 /\ t[1] = e /\ \A i \in 2..Len(s) + 1 : t[i] = s[i - 1]
  <2>1. <<e>> \in Seq(Entry) /\ Len(<<e>>) = 1 /\ <<e>>[1] = e
    BY <1>0
  <2>2. Len(t) = 1 + Len(s) /\ \A i \in 1..1 + Len(s) : t[i] = IF i <= 1 THEN <<e>>[i] ELSE s[i - 1]
    BY <1>0, <2>1, ConcatProperties
  <2> HIDE DEF t
  <2> QED  BY <2>1, <2>2, <1>0
<1> HIDE DEF t
<1>4. Unique(t)
  <2> SUFFICES ASSUME NEW i \in 1..Len(t), NEW j \in 1..Len(t), t[i].key = t[j].key PROVE i = j
    BY DEF Unique
  <2>1. CASE i = 1 \/ j = 1
    <3>1. \A k \in 2..Len(s) + 1 : k - 1 \in 1..Len(s) /\ t[k].key # e.key
      BY <1>0, <1>3
    <3> QED  BY <2>1, <3>1, <1>0, <1>3
  <2>2. CASE i # 1 /\ j # 1
    <3>1. /\ i - 1 \in 1..Len(s) /\ j - 1 \in 1..Len(s)
          /\ t[i] = s[i - 1] /\ t[j] = s[j - 1]
      BY <2>2, <1>0, <1>3
    <3>2. i - 1 = j - 1
      BY <3>1 DEF Tier, Unique
    <3> QED  BY <3>2, <1>0, <1>3
  <2> QED  BY <2>1, <2>2
<1> QED  BY <1>2, <1>3, <1>4 DEF Tier, t

-----------------------------------------------------------------------------
(* Of the lengths that fit there is a largest one.                         *)
LEMMA LargestFits ==
    ASSUME NEW n \in Nat, NEW S \in SUBSET (0..n), S # {}
    PROVE  Max(S) \in S /\ \A i \in S : Max(S) >= i
<1> DEFINE T == {m \in Nat : m <= n /\ n - m \in S}
           R == OpToRel(<, Nat)
<1>1. \A i, j \in Nat : i < j => <<i, j>> \in R
  BY DEF OpToRel
<1>2. IsWellFoundedOn(R, Nat)
  BY NatLessThanWellFounded
<1> HIDE DEF R
<1>3. T \subseteq Nat /\ T # {}
  <2>1. PICK i \in S : TRUE
    OBVIOUS
  <2>2. n - i \in Nat /\ n - i <= n /\ n - (n - i) = i
    OBVIOUS
  <2> QED  BY <2>1, <2>2
<1>4. PICK m \in T : \A k \in T : ~(<<k, m>> \in R)
  BY <1>2, <1>3, WFMin
<1>5. \A i \in S : n - m >= i
  <2> SUFFICES ASSUME NEW i \in S, n - m < i PROVE FALSE
    BY <1>3
  <2>1. n - i \in T /\ n - i \in Nat /\ m \in Nat /\ n - i < m
    BY <1>3, <1>4
  <2> QED  BY <2>1, <1>1, <1>4
<1>6. \E x \in S : \A y \in S : x >= y
  BY <1>4, <1>5
<1>7. Max(S) = CHOOSE x \in S : \A y \in S : x >= y
  BY DEF Max
<1> QED  BY <1>6, <1>7

LEMMA SmallerOfTwo ==
    ASSUME NEW m \in Int, NEW n \in Int
    PROVE  Min({m, n}) = IF m <= n THEN m ELSE n
  BY DEF Min

(* While the tier and its counter agree the subtractions never saturate.   *)
CacheOK == Tier(raw) /\ BytesMatch

LEMMA WithoutKeeps ==
    ASSUME Tier(raw), NEW k \in CacheKey
    PROVE  /\ Tier(Without(k)) /\ Within(Without(k), raw)
           /\ \A i \in 1..Len(Without(k)) : Without(k)[i].key # k
           /\ Bytes(Without(k)) =
                IF Cached(k) THEN Monus(Bytes(raw), EntryLen(EntryOf(k))) ELSE Bytes(raw)
<1>0. raw \in Seq(Entry) /\ DOMAIN raw = 1..Len(raw) /\ Bytes(raw) \in Nat
  BY BytesType DEF Tier, EntrySeq
<1>1. CASE Cached(k)
  <2> DEFINE n == Place(k)
  <2>1. n \in 1..Len(raw) /\ raw[n].key = k
    BY <1>0, <1>1 DEF Cached, Place
  <2>2. Without(k) = RemoveAt(raw, n) /\ EntryOf(k) = raw[n]
    BY <1>1 DEF Without, EntryOf
  <2> HIDE DEF n
  <2>3. /\ Tier(RemoveAt(raw, n)) /\ Len(RemoveAt(raw, n)) = Len(raw) - 1
        /\ Within(RemoveAt(raw, n), raw)
        /\ \A i \in 1..Len(raw) - 1 : RemoveAt(raw, n)[i].key # raw[n].key
        /\ Bytes(RemoveAt(raw, n)) + EntryLen(raw[n]) = Bytes(raw)
    BY <2>1, RemoveKeeps
  <2>4. Bytes(RemoveAt(raw, n)) \in Nat /\ EntryLen(raw[n]) \in Nat
    BY <2>1, <2>3, BytesType, EntryLenType DEF Tier, EntrySeq
  <2>5. Bytes(RemoveAt(raw, n)) = Monus(Bytes(raw), EntryLen(raw[n]))
    BY <1>0, <2>3, <2>4 DEF Monus
  <2> QED  BY <1>1, <2>1, <2>2, <2>3, <2>5
<1>2. CASE ~Cached(k)
  BY <1>0, <1>2 DEF Cached, Without, Within
<1> QED  BY <1>1, <1>2

(* The counter of what is left of s is what that takes.                    *)
LEMMA CounterExact ==
    ASSUME NEW s, Tier(s), NEW m \in 0..Len(s)
    PROVE  Counter(s, m, Bytes(s)) = Bytes(SubSeq(s, 1, m)) /\ Bytes(SubSeq(s, 1, m)) \in Nat
<1> DEFINE front == SubSeq(s, 1, m)
           back == SubSeq(s, m + 1, Len(s))
<1>1. Tier(front) /\ EntrySeq(back) /\ Bytes(front) + Bytes(back) = Bytes(s)
  BY PrefixKeeps
<1>2. Counter(s, m, Bytes(s)) = Monus(Bytes(s), Bytes(back))
  BY DEF Counter
<1> HIDE DEF front, back
<1>3. Bytes(front) \in Nat /\ Bytes(back) \in Nat
  BY <1>1, BytesType DEF Tier
<1>4. Monus(Bytes(s), Bytes(back)) = Bytes(front)
  BY <1>1, <1>3 DEF Monus
<1> QED  BY <1>2, <1>3, <1>4 DEF front

(* Eviction makes room for len bytes, from the oldest entry on, and takes  *)
(* no entry that could have stayed: what the loop over pop_lru does.       *)
LEMMA EvictFits ==
    ASSUME NEW s, Tier(s), NEW len \in Nat, len <= raw_max_bytes
    PROVE  \E m \in 0..Len(s) :
              /\ Evict(s, Bytes(s), len) = SubSeq(s, 1, m)
              /\ Bytes(SubSeq(s, 1, m)) + len <= raw_max_bytes
              /\ \A n \in m + 1..Len(s) : Bytes(SubSeq(s, 1, n)) + len > raw_max_bytes
<1> DEFINE fits == {n \in 0..Len(s) : Counter(s, n, Bytes(s)) + len <= raw_max_bytes}
<1>0. Len(s) \in Nat /\ raw_max_bytes \in Nat
  BY CacheAssumption DEF Tier, EntrySeq
<1>1. 0 \in fits
  <2>1. Counter(s, 0, Bytes(s)) = Bytes(SubSeq(s, 1, 0)) /\ 0 \in 0..Len(s)
    BY <1>0, CounterExact
  <2>2. SubSeq(s, 1, 0) = <<>>
    BY SubSeqEmpty
  <2>3. Counter(s, 0, Bytes(s)) = 0
    BY <2>1, <2>2, BytesEmpty, Zenon
  <2>4. Counter(s, 0, Bytes(s)) + len <= raw_max_bytes
    BY <2>3, <1>0
  <2> QED  BY <2>1, <2>4
<1>2. Evict(s, Bytes(s), len) = SubSeq(s, 1, IF fits = {} THEN 0 ELSE Max(fits))
  BY DEF Evict
<1>3. fits \in SUBSET (0..Len(s))
  OBVIOUS
<1>4. \A n \in 0..Len(s) : n \notin fits => Bytes(SubSeq(s, 1, n)) + len > raw_max_bytes
  <2> SUFFICES ASSUME NEW n \in 0..Len(s), ~(Counter(s, n, Bytes(s)) + len <= raw_max_bytes)
               PROVE  Bytes(SubSeq(s, 1, n)) + len > raw_max_bytes
    OBVIOUS
  <2>1. Counter(s, n, Bytes(s)) = Bytes(SubSeq(s, 1, n)) /\ Bytes(SubSeq(s, 1, n)) \in Nat
    BY CounterExact
  <2> QED  BY <2>1, <1>0
<1>5. \A n \in fits : n \in 0..Len(s) /\ Bytes(SubSeq(s, 1, n)) + len <= raw_max_bytes
  BY CounterExact
<1> HIDE DEF fits
<1>6. Max(fits) \in fits /\ \A n \in fits : Max(fits) >= n
  BY <1>0, <1>1, <1>3, LargestFits
<1>7. Evict(s, Bytes(s), len) = SubSeq(s, 1, Max(fits))
  BY <1>1, <1>2
<1>8. \A n \in Max(fits) + 1..Len(s) : Bytes(SubSeq(s, 1, n)) + len > raw_max_bytes
  <2> SUFFICES ASSUME NEW n \in Max(fits) + 1..Len(s) PROVE n \in 0..Len(s) /\ n \notin fits
    BY <1>4
  <2>1. Max(fits) \in 0..Len(s)
    BY <1>3, <1>6
  <2> QED  BY <1>0, <1>6, <2>1
<1> QED  BY <1>5, <1>6, <1>7, <1>8

(* insert_raw leaves the tier as it is, or puts the entry in front of some *)
(* of the entries of other URLs, and the counter is exact again.           *)
LEMMA InsertKeeps ==
    ASSUME CacheOK, NEW k \in CacheKey, NEW v \in Version(k), insert_raw(k, v)
    PROVE  \/ UNCHANGED tier
           \/ /\ Tier(raw') /\ BytesMatch'
              /\ Len(raw') >= 1 /\ raw'[1] = [key |-> k, body |-> v]
              /\ \A i \in 2..Len(raw') :
                    raw'[i].key # k /\ \E j \in 1..Len(raw) : raw'[i] = raw[j]
<1> DEFINE e == [key |-> k, body |-> v]
           w == Without(k)
           bytes == IF Cached(k) THEN Monus(current_raw_bytes, EntryLen(EntryOf(k)))
                    ELSE current_raw_bytes
           s == Evict(w, bytes, EntryLen(e))
           count == Counter(w, Len(s), bytes)
           kept == Min({Len(s), max_raw_entries - 1})
<1>1. ValidEntry(e) /\ e.key = k
  BY CacheAssumption DEF ValidEntry, Entry, Version
<1>2. EntryLen(e) \in Nat
  BY <1>1, EntryLenType
<1> SUFFICES ASSUME EntryLen(e) <= raw_max_bytes
             PROVE  /\ Tier(raw') /\ BytesMatch'
                    /\ Len(raw') >= 1 /\ raw'[1] = e
                    /\ \A i \in 2..Len(raw') :
                          raw'[i].key # k /\ \E j \in 1..Len(raw) : raw'[i] = raw[j]
  BY <1>2, CacheAssumption DEF insert_raw
<1>3. Push(s, count, e)
  BY <1>2, CacheAssumption DEF insert_raw
<1>4. /\ Tier(w) /\ Within(w, raw) /\ \A i \in 1..Len(w) : w[i].key # k
      /\ bytes = Bytes(w) /\ Len(w) \in Nat
  BY WithoutKeeps DEF CacheOK, BytesMatch, Tier, EntrySeq
<1> HIDE DEF e, w, bytes
<1>5. PICK m \in 0..Len(w) : s = SubSeq(w, 1, m) /\ Bytes(SubSeq(w, 1, m)) + EntryLen(e) <= raw_max_bytes
  BY <1>2, <1>4, EvictFits
<1>6. Tier(s) /\ Len(s) = m /\ Within(s, w)
  BY <1>4, <1>5, PrefixKeeps
<1>7. count = Bytes(s)
  BY <1>4, <1>5, <1>6, CounterExact
<1>8. kept \in 0..Len(s) /\ kept <= max_raw_entries - 1
  <2>1. Len(s) \in Nat /\ max_raw_entries - 1 \in Nat
    BY <1>6, CacheAssumption
  <2> HIDE DEF s
  <2> QED  BY <2>1, SmallerOfTwo
<1> DEFINE t == SubSeq(s, 1, kept)
<1>9. raw' = <<e>> \o t /\ current_raw_bytes' = Counter(s, kept, count) + EntryLen(e)
  BY <1>3 DEF Push
<1> HIDE DEF s, count, kept
<1>10. Tier(t) /\ Len(t) = kept /\ Within(t, s)
  BY <1>6, <1>8, PrefixKeeps
<1>11. Counter(s, kept, count) = Bytes(t) /\ Bytes(t) \in Nat
  BY <1>6, <1>7, <1>8, CounterExact
<1>12. Bytes(t) <= Bytes(s) /\ Bytes(s) \in Nat
  <2>1. Bytes(t) + Bytes(SubSeq(s, kept + 1, Len(s))) = Bytes(s) /\ EntrySeq(SubSeq(s, kept + 1, Len(s)))
    BY <1>6, <1>8, PrefixKeeps
  <2>2. Bytes(SubSeq(s, kept + 1, Len(s))) \in Nat
    BY <2>1, BytesType
  <2> HIDE DEF t
  <2> QED  BY <2>1, <2>2, <1>11
<1> HIDE DEF t
<1>13. \A i \in 1..Len(t) : t[i].key # k /\ \E j \in 1..Len(raw) : t[i] = raw[j]
  <2> TAKE i \in 1..Len(t)
  <2>1. PICK j \in 1..Len(s) : t[i] = s[j]
    BY <1>10 DEF Within
  <2>2. PICK l \in 1..Len(w) : s[j] = w[l]
    BY <1>6 DEF Within
  <2>3. PICK n \in 1..Len(raw) : w[l] = raw[n]
    BY <1>4 DEF Within
  <2> QED  BY <2>1, <2>2, <2>3, <1>4
<1>14. /\ Tier(<<e>> \o t) /\ Len(<<e>> \o t) = Len(t) + 1
       /\ (<<e>> \o t)[1] = e
       /\ \A i \in 2..Len(t) + 1 : (<<e>> \o t)[i] = t[i - 1]
       /\ Bytes(<<e>> \o t) = EntryLen(e) + Bytes(t)
  BY <1>1, <1>10, <1>13, ConsKeeps
<1>15. BytesMatch'
  <2>1. current_raw_bytes' = Bytes(raw')
    BY <1>2, <1>9, <1>11, <1>14
  <2>2. current_raw_bytes' <= raw_max_bytes
    BY <1>2, <1>5, <1>9, <1>11, <1>12, CacheAssumption
  <2>3. Len(raw') <= max_raw_entries
    BY <1>8, <1>9, <1>10, <1>14, CacheAssumption
  <2> QED  BY <2>1, <2>2, <2>3 DEF BytesMatch, Bytes, Taken, EntryLen
<1>16. ASSUME NEW i \in 2..Len(raw')
       PROVE  raw'[i].key # k /\ \E j \in 1..Len(raw) : raw'[i] = raw[j]
  <2>1. Len(t) \in Nat
    BY <1>10 DEF Tier, EntrySeq
  <2>2. i \in 2..Len(t) + 1 /\ i - 1 \in 1..Len(t)
    BY <2>1, <1>9, <1>14
  <2> QED  BY <2>2, <1>9, <1>13, <1>14
<1>17. Len(raw') >= 1
  BY <1>9, <1>14 DEF Tier, EntrySeq
<1> QED  BY <1>9, <1>14, <1>15, <1>16, <1>17

(* A hit keeps the entries; the one that was hit comes to the front.       *)
LEMMA PromoteKeeps ==
    ASSUME CacheOK, NEW k \in CacheKey, Promote(k) \/ UNCHANGED raw, UNCHANGED current_raw_bytes
    PROVE  Tier(raw') /\ BytesMatch' /\ Within(raw', raw) /\ Within(raw, raw')
<1>0. raw \in Seq(Entry) /\ DOMAIN raw = 1..Len(raw) /\ Len(raw) \in Nat /\ Bytes(raw) \in Nat
  BY BytesType DEF CacheOK, Tier, EntrySeq
<1>1. CASE raw' = raw
  <2>1. BytesMatch'
    BY <1>1 DEF CacheOK, BytesMatch, Bytes, Taken, EntryLen
  <2>2. Within(raw', raw) /\ Within(raw, raw')
    BY <1>1 DEF Within
  <2> QED  BY <1>1, <2>1, <2>2 DEF CacheOK
<1>2. CASE raw' # raw
  <2> DEFINE n == Place(k)
             e == raw[n]
             w == RemoveAt(raw, n)
  <2>1. Cached(k) /\ n \in 1..Len(raw) /\ e.key = k
    BY <1>0, <1>2 DEF Promote, Cached, Place
  <2>2. raw' = <<e>> \o w
    BY <1>2, <2>1 DEF Promote, Without, EntryOf
  <2> HIDE DEF n
  <2>3. /\ Tier(w) /\ Len(w) = Len(raw) - 1
        /\ Within(w, raw)
        /\ \A i \in 1..Len(raw) - 1 : w[i].key # e.key
        /\ Bytes(w) + EntryLen(e) = Bytes(raw)
    BY <2>1, RemoveKeeps DEF CacheOK
  <2>4. ValidEntry(e)
    BY <2>1 DEF CacheOK, Tier, EntrySeq
  <2>5. \A i \in 1..Len(raw) : i # n => \E j \in 1..Len(w) : raw[i] = w[j]
    <3> TAKE i \in 1..Len(raw)
    <3>1. \A j \in 1..n - 1 : w[j] = raw[j]
      BY <1>0, <2>1, RemoveAtProperties
    <3>2. \A j \in n..Len(raw) - 1 : w[j] = raw[j + 1]
      BY ONLY <1>0, <2>1, RemoveAtProperties
    <3> HIDE DEF w, e
    <3>3. CASE i < n
      <4>1. i \in 1..n - 1 /\ i \in 1..Len(w)
        BY <3>3, <1>0, <2>1, <2>3
      <4> QED  BY <4>1, <3>1
    <3>4. CASE i > n
      <4>1. i - 1 \in n..Len(raw) - 1 /\ i - 1 \in 1..Len(w) /\ i - 1 + 1 = i
        BY <3>4, <1>0, <2>1, <2>3
      <4> QED  BY <4>1, <3>2
    <3> QED  BY <3>3, <3>4, <2>1, <1>0
  <2>6. e = raw[n]
    OBVIOUS
  <2> HIDE DEF w, e
  <2>7. /\ Tier(<<e>> \o w) /\ Len(<<e>> \o w) = Len(w) + 1
        /\ (<<e>> \o w)[1] = e
        /\ \A i \in 2..Len(w) + 1 : (<<e>> \o w)[i] = w[i - 1]
        /\ Bytes(<<e>> \o w) = EntryLen(e) + Bytes(w)
    BY <2>3, <2>4, ConsKeeps
  <2>8. /\ Tier(raw') /\ Len(raw') = Len(w) + 1 /\ raw'[1] = e
        /\ \A i \in 2..Len(w) + 1 : raw'[i] = w[i - 1]
        /\ Bytes(raw') = EntryLen(e) + Bytes(w)
    BY <2>2, <2>7, Zenon
  <2>9. Len(w) + 1 = Len(raw) /\ Len(w) \in Nat
    BY <1>0, <2>1, <2>3
  <2>10. Bytes(w) \in Nat /\ EntryLen(e) \in Nat
    BY <2>3, <2>4, BytesType, EntryLenType DEF Tier
  <2>11. BytesMatch'
    <3>1. Len(raw') = Len(raw)
      BY <2>8, <2>9
    <3>2. Bytes(raw') = EntryLen(e) + Bytes(w) /\ Bytes(w) + EntryLen(e) = Bytes(raw)
      BY <2>3, <2>8
    <3>3. Bytes(raw') = Bytes(raw)
      BY <2>10, <3>2
    <3> QED  BY <3>1, <3>3 DEF CacheOK, BytesMatch, Bytes, Taken, EntryLen
  <2>12. Within(raw', raw)
    <3> SUFFICES ASSUME NEW i \in 1..Len(raw') PROVE \E j \in 1..Len(raw) : raw'[i] = raw[j]
      BY DEF Within
    <3>1. CASE i = 1
      BY <3>1, <2>1, <2>6, <2>8
    <3>2. CASE i # 1
      <4>1. i \in 2..Len(w) + 1 /\ i - 1 \in 1..Len(w)
        BY <3>2, <2>8, <2>9
      <4> QED  BY <4>1, <2>3, <2>8 DEF Within
    <3> QED  BY <3>1, <3>2
  <2>13. Within(raw, raw')
    <3> SUFFICES ASSUME NEW i \in 1..Len(raw) PROVE \E j \in 1..Len(raw') : raw[i] = raw'[j]
      BY DEF Within
    <3>1. CASE i = n
      <4>1. 1 \in 1..Len(raw')
        BY <2>8, <2>9
      <4> QED  BY <3>1, <4>1, <2>6, <2>8
    <3>2. CASE i # n
      <4>1. PICK j \in 1..Len(w) : raw[i] = w[j]
        BY <3>2, <2>5
      <4>2. j + 1 \in 2..Len(w) + 1 /\ j + 1 \in 1..Len(raw') /\ j + 1 - 1 = j
        BY <4>1, <2>8, <2>9
      <4>3. raw'[j + 1] = w[j]
        BY <4>2, <2>8
      <4> QED  BY <4>1, <4>2, <4>3
    <3> QED  BY <3>1, <3>2
  <2> QED  BY <2>11, <2>12, <2>13, <2>8
<1> QED  BY <1>1, <1>2

-----------------------------------------------------------------------------
(* Calls and the origin.                                                   *)

Answered(c) == call_pc[c] \in {"confirmed", "fetched"}

(* No entry, and no answer, is newer than the origin is now.  An answer    *)
(* behind which nobody has written is at least as new as the entry it will *)
(* replace; one of the others may bring an old body back.                  *)
AnswerInv ==
    /\ \A i \in 1..Len(raw) : raw[i].body <= origin_version[raw[i].key]
    /\ \A c \in Call : Answered(c) =>
          /\ call_answer[c] \in Version(call_key[c])
          /\ call_answer[c] <= origin_version[call_key[c]]
          /\ call_pc[c] = "confirmed" => call_entry[c] = call_answer[c]
          /\ c \notin passed => \A i \in 1..Len(raw) :
                raw[i].key = call_key[c] => raw[i].body <= call_answer[c]

CacheInv == CacheTypeOK /\ BytesMatch /\ AnswerInv

LEMMA CacheInvInit == CacheInit => CacheInv
<1> SUFFICES ASSUME CacheInit PROVE CacheInv
  OBVIOUS
<1>1. raw = <<>> /\ current_raw_bytes = 0 /\ Len(raw) = 0
  BY DEF CacheInit
<1>2. BytesMatch
  BY <1>1, BytesEmpty, CacheAssumption DEF BytesMatch
<1>3. \A k \in CacheKey : 1 \in Version(k)
  BY CacheAssumption DEF Version
<1>4. CacheTypeOK
  <2>1. raw \in Seq([key : CacheKey, body : Nat]) /\ DOMAIN raw = {}
    BY <1>1
  <2>2. /\ origin_version = [k \in CacheKey |-> 1]
        /\ origin_version \in [CacheKey -> Nat] /\ \A k \in CacheKey : origin_version[k] \in Version(k)
    BY <1>3 DEF CacheInit
  <2>3. call_pc \in [Call -> CallStep] /\ \A c \in Call : call_pc[c] = "idle"
    BY DEF CacheInit, CallStep
  <2>4. call_key \in [Call -> CacheKey \cup {NoKey}] /\ \A c \in Call : call_key[c] = NoKey
    BY DEF CacheInit
  <2>5. call_entry \in [Call -> SomeVersion] /\ call_answer \in [Call -> SomeVersion] /\ passed \subseteq Call
    BY DEF CacheInit, SomeVersion
  <2> QED  BY <1>1, <2>1, <2>2, <2>3, <2>4, <2>5 DEF CacheTypeOK
<1>5. AnswerInv
  BY <1>1 DEF CacheInit, AnswerInv, Answered
<1> QED  BY <1>2, <1>4, <1>5 DEF CacheInv

LEMMA TierTyped ==
    ASSUME CacheInv
    PROVE  /\ CacheOK /\ raw \in Seq(Entry) /\ Len(raw) \in Nat /\ DOMAIN raw = 1..Len(raw)
           /\ \A i \in 1..Len(raw) : raw[i].key \in CacheKey /\ raw[i].body \in Nat
<1>1. raw \in Seq(Entry) /\ BytesMatch /\ current_raw_bytes \in Nat
  BY DEF CacheInv, CacheTypeOK, Entry
<1>2. Len(raw) \in Nat /\ DOMAIN raw = 1..Len(raw) /\ \A i \in 1..Len(raw) : raw[i] \in Entry
  BY <1>1
<1>3. \A i \in 1..Len(raw) : raw[i].key \in CacheKey /\ raw[i].body \in Nat
  BY <1>2 DEF Entry
<1>4. \A i \in 1..Len(raw) : raw[i].body \in Version(raw[i].key)
  BY <1>2 DEF CacheInv, CacheTypeOK
<1>5. \A i, j \in 1..Len(raw) : raw[i].key = raw[j].key => i = j
  BY <1>2 DEF CacheInv, CacheTypeOK
<1>6. Tier(raw)
  BY <1>1, <1>2, <1>3, <1>4, <1>5 DEF Tier, EntrySeq, Unique, ValidEntry, Version
<1> QED  BY <1>1, <1>2, <1>3, <1>6 DEF CacheOK

LEMMA VersionTyped ==
    ASSUME NEW k \in CacheKey
    PROVE  Version(k) \subseteq SomeVersion /\ Version(k) \subseteq Nat /\ NoVersion \in SomeVersion
<1>1. body_len[k] \in Seq(Nat)
  BY CacheAssumption
<1>2. Version(k) \subseteq Nat
  BY <1>1 DEF Version
<1> QED  BY <1>2 DEF SomeVersion

(* What the steps that insert nothing do to the tier.                      *)
Quiet == \/ UNCHANGED raw
         \/ \E k \in CacheKey : Promote(k)

LEMMA TierQuiet ==
    ASSUME CacheInv, Quiet, UNCHANGED current_raw_bytes
    PROVE  Tier(raw') /\ BytesMatch' /\ Within(raw', raw) /\ Within(raw, raw')
<1>1. CASE \E k \in CacheKey : Promote(k)
  BY <1>1, TierTyped, PromoteKeeps
<1>2. CASE UNCHANGED raw
  BY <1>2, TierTyped DEF CacheOK, BytesMatch, Bytes, Taken, EntryLen, Within
<1> QED  BY <1>1, <1>2 DEF Quiet

(* The types of what a call knows.                                         *)
CallTypeOK ==
    /\ origin_version \in [CacheKey -> Nat] /\ \A k \in CacheKey : origin_version[k] \in Version(k)
    /\ call_pc \in [Call -> CallStep]
    /\ call_key \in [Call -> CacheKey \cup {NoKey}]
    /\ \A c \in Call : call_key[c] = NoKey <=> call_pc[c] = "idle"
    /\ call_entry \in [Call -> SomeVersion]
    /\ call_answer \in [Call -> SomeVersion]
    /\ passed \subseteq Call

LEMMA EndOfTyped ==
    ASSUME CallTypeOK, NEW c \in Call, EndOf(c)
    PROVE  /\ call_pc' \in [Call -> CallStep]
           /\ call_key' \in [Call -> CacheKey \cup {NoKey}]
           /\ \A d \in Call : call_key'[d] = NoKey <=> call_pc'[d] = "idle"
           /\ call_entry' \in [Call -> SomeVersion]
           /\ call_answer' \in [Call -> SomeVersion]
<1>1. "idle" \in CallStep /\ NoKey \in CacheKey \cup {NoKey} /\ NoVersion \in SomeVersion
  BY DEF CallStep, SomeVersion
<1>2. call_pc' \in [Call -> CallStep] /\ call_key' \in [Call -> CacheKey \cup {NoKey}]
  BY <1>1 DEF CallTypeOK, EndOf, CallTo
<1>3. ASSUME NEW d \in Call PROVE call_key'[d] = NoKey <=> call_pc'[d] = "idle"
  BY DEF CallTypeOK, EndOf, CallTo
<1>4. call_entry' \in [Call -> SomeVersion] /\ call_answer' \in [Call -> SomeVersion]
  BY <1>1 DEF CallTypeOK, EndOf
<1> QED  BY <1>2, <1>3, <1>4

LEMMA TypeSplit ==
    /\ CacheTypeOK <=> CallTypeOK /\ Tier(raw) /\ current_raw_bytes \in Nat
    /\ CacheTypeOK' <=> CallTypeOK' /\ Tier(raw') /\ current_raw_bytes' \in Nat
<1>1. /\ raw \in Seq(Entry) => DOMAIN raw = 1..Len(raw)
      /\ raw' \in Seq(Entry) => DOMAIN raw' = 1..Len(raw')
  OBVIOUS
<1>2. /\ raw \in Seq(Entry) => \A i \in 1..Len(raw) : raw[i] \in Entry
      /\ raw' \in Seq(Entry) => \A i \in 1..Len(raw') : raw'[i] \in Entry
  OBVIOUS
<1> QED  BY <1>1, <1>2 DEF CacheTypeOK, CallTypeOK, Tier, EntrySeq, Unique, ValidEntry, Entry, Version

(* The steps of a call that insert nothing.                                *)
AskStep(c) ==
    \/ \E k \in CacheKey : Revalidate(c, k) \/ FetchAnew(c, k)
    \/ NotModified(c) \/ Modified(c) \/ RevalidationFails(c)
    \/ NotDerived(c) \/ OriginSends(c) \/ EndCall(c)

LEMMA AskTyped ==
    ASSUME CacheInv, NEW c \in Call, AskStep(c)
    PROVE  CallTypeOK' /\ Quiet /\ UNCHANGED <<current_raw_bytes, origin_version>>
<1> USE DEF CallTo, tier, reads
<1>0. CallTypeOK
  BY TypeSplit DEF CacheInv
<1>1. CASE \E k \in CacheKey : Revalidate(c, k)
  <2>1. PICK k \in CacheKey : Revalidate(c, k)
    BY <1>1
  <2>2. EntryOf(k).body \in SomeVersion
    <3>1. Place(k) \in 1..Len(raw) /\ raw[Place(k)].key = k
      BY <2>1, TierTyped DEF Revalidate, Cached, Place
    <3>2. EntryOf(k).body \in Version(k)
      BY <3>1, TierTyped DEF EntryOf, CacheOK, Tier, EntrySeq, ValidEntry
    <3> QED  BY <3>2, VersionTyped
  <2> QED  BY <2>1, <2>2, <1>0, CacheAssumption DEF CallTypeOK, CallStep, Revalidate, Begin, Quiet
<1>2. CASE \E k \in CacheKey : FetchAnew(c, k)
  BY <1>2, <1>0, CacheAssumption DEF CallTypeOK, CallStep, FetchAnew, Begin, Quiet
<1>6. NoVersion \in SomeVersion
  BY DEF SomeVersion
<1> HIDE DEF CallTo
<1>7. ASSUME NEW step \in CallStep \ {"idle"}, call_pc[c] # "idle", CallTo(c, step), UNCHANGED call_key
      PROVE  /\ call_pc' \in [Call -> CallStep]
             /\ call_key' \in [Call -> CacheKey \cup {NoKey}]
             /\ \A d \in Call : call_key'[d] = NoKey <=> call_pc'[d] = "idle"
  BY <1>7, <1>0 DEF CallTypeOK, CallTo
<1>3. CASE NotModified(c)
  BY <1>3, <1>0, <1>7, <1>6 DEF CallTypeOK, CallStep, NotModified, Quiet
<1>8. CASE Modified(c)
  BY <1>8, <1>0, <1>7, <1>6 DEF CallTypeOK, CallStep, Modified, Quiet
<1>9. CASE RevalidationFails(c)
  BY <1>9, <1>0, <1>7, <1>6 DEF CallTypeOK, CallStep, RevalidationFails, Quiet
<1>10. CASE NotDerived(c)
  BY <1>10, <1>0, <1>7, <1>6 DEF CallTypeOK, CallStep, NotDerived, Quiet
<1>4. CASE OriginSends(c)
  <2>1. call_key[c] \in CacheKey
    BY <1>4, <1>0 DEF CallTypeOK, OriginSends
  <2>2. origin_version[call_key[c]] \in SomeVersion
    BY <2>1, <1>0, VersionTyped DEF CallTypeOK
  <2> QED  BY <1>4, <2>2, <1>0, <1>7 DEF CallTypeOK, CallStep, OriginSends, Quiet
<1>5. CASE EndCall(c)
  <2>1. EndOf(c) /\ passed' \subseteq passed /\ UNCHANGED <<raw, current_raw_bytes, origin_version>>
    BY <1>5 DEF EndCall
  <2> QED  BY <1>0, <2>1, EndOfTyped DEF CallTypeOK, Quiet
<1> QED  BY <1>1, <1>2, <1>3, <1>8, <1>9, <1>10, <1>4, <1>5 DEF AskStep

LEMMA AskAnswers ==
    ASSUME CacheInv, NEW c \in Call, AskStep(c)
    PROVE  AnswerInv'
<1> DEFINE old == {d \in Call : Answered(d)}
<1>1. Within(raw', raw) /\ origin_version' = origin_version
  BY AskTyped, TierQuiet
<1>0. CallTypeOK
  BY TypeSplit DEF CacheInv
<1>2. \A i \in 1..Len(raw') : raw'[i].body <= origin_version'[raw'[i].key]
  BY <1>1 DEF CacheInv, AnswerInv, Within
\* The others know what they knew.
<1>3. ASSUME NEW d \in Call, d # c
      PROVE  /\ call_pc'[d] = call_pc[d] /\ call_key'[d] = call_key[d]
             /\ call_entry'[d] = call_entry[d] /\ call_answer'[d] = call_answer[d]
             /\ d \in passed' <=> d \in passed
  BY <1>3, <1>0 DEF CallTypeOK, AskStep, Revalidate, FetchAnew, Begin, NotModified, Modified, RevalidationFails,
       NotDerived, OriginSends, EndCall, EndOf, CallTo, reads
<1>4. ASSUME NEW d \in Call, Answered(d)', d # c
      PROVE  /\ call_answer'[d] \in Version(call_key'[d])
             /\ call_answer'[d] <= origin_version'[call_key'[d]]
             /\ call_pc'[d] = "confirmed" => call_entry'[d] = call_answer'[d]
             /\ d \notin passed' => \A i \in 1..Len(raw') :
                   raw'[i].key = call_key'[d] => raw'[i].body <= call_answer'[d]
  BY <1>1, <1>3, <1>4 DEF CacheInv, AnswerInv, Answered, Within
\* Its own answer is the origin's.
<1>5. ASSUME Answered(c)'
      PROVE  /\ call_key'[c] = call_key[c] /\ call_key[c] \in CacheKey
             /\ call_answer'[c] = origin_version[call_key[c]]
             /\ call_pc'[c] = "confirmed" => call_entry'[c] = call_answer'[c]
  <2>1. NotModified(c) \/ OriginSends(c)
    BY <1>5, <1>0 DEF CallTypeOK, Answered, AskStep, Revalidate, FetchAnew, Begin, Modified, RevalidationFails,
       NotDerived, EndCall, EndOf, CallTo
  <2> QED  BY <2>1, <1>0 DEF CallTypeOK, NotModified, OriginSends, CallTo, reads
<1>6. ASSUME Answered(c)'
      PROVE  /\ call_answer'[c] \in Version(call_key'[c])
             /\ call_answer'[c] <= origin_version'[call_key'[c]]
             /\ call_pc'[c] = "confirmed" => call_entry'[c] = call_answer'[c]
             /\ \A i \in 1..Len(raw') : raw'[i].key = call_key'[c] => raw'[i].body <= call_answer'[c]
  <2>1. origin_version[call_key[c]] \in Nat /\ origin_version[call_key[c]] \in Version(call_key[c])
    BY <1>5, <1>6, <1>0 DEF CallTypeOK
  <2> QED  BY <1>1, <1>2, <1>5, <1>6, <2>1
<1> QED  BY <1>2, <1>4, <1>6 DEF AnswerInv, Answered

(* A call that writes ends, and is the reason for others to be passed.     *)
LEMMA WriteKeeps ==
    ASSUME CacheInv, NEW c \in Call, WriteBack(c) \/ Store(c)
    PROVE  CacheInv'
<1>0. CallTypeOK /\ CacheOK /\ AnswerInv
  BY TypeSplit, TierTyped DEF CacheInv
<1> DEFINE k == call_key[c]
           v == call_answer[c]
<1>1. k \in CacheKey /\ v \in Version(k) /\ Answered(c) /\ insert_raw(k, v)
  <2>1. Answered(c) /\ insert_raw(k, v)
    BY <1>0 DEF AnswerInv, Answered, WriteBack, Store
  <2> QED  BY <2>1, <1>0 DEF CallTypeOK, Answered, AnswerInv
<1>2. EndOf(c) /\ Overtakes(c) /\ origin_version' = origin_version
  BY DEF WriteBack, Store
<1>3. CallTypeOK'
  <2>1. passed' \subseteq Call
    BY <1>0, <1>2 DEF CallTypeOK, Overtakes
  <2> QED  BY <1>0, <1>2, <2>1, EndOfTyped DEF CallTypeOK
<1>4. \A d \in Call : Answered(d)' =>
          /\ d # c /\ Answered(d) /\ call_key'[d] = call_key[d] /\ call_pc'[d] = call_pc[d]
          /\ call_entry'[d] = call_entry[d] /\ call_answer'[d] = call_answer[d]
          /\ d \notin passed' => d \notin passed /\ call_key[d] # k
  BY <1>0, <1>2 DEF CallTypeOK, Answered, EndOf, CallTo, Overtakes
<1> HIDE DEF k, v
<1>5. CASE UNCHANGED tier
  <2>1. AnswerInv'
    BY <1>0, <1>2, <1>4, <1>5 DEF AnswerInv, tier
  <2>2. BytesMatch' /\ Tier(raw') /\ current_raw_bytes' \in Nat
    BY <1>0, <1>5, TypeSplit DEF CacheInv, CacheOK, BytesMatch, Bytes, Taken, EntryLen, tier
  <2> QED  BY <2>1, <2>2, <1>3, TypeSplit DEF CacheInv
<1>6. CASE ~UNCHANGED tier
  <2>1. /\ Tier(raw') /\ BytesMatch'
        /\ Len(raw') >= 1 /\ raw'[1] = [key |-> k, body |-> v]
        /\ \A i \in 2..Len(raw') :
              raw'[i].key # k /\ \E j \in 1..Len(raw) : raw'[i] = raw[j]
    BY <1>0, <1>1, <1>6, InsertKeeps
  <2>2. current_raw_bytes' \in Nat
    <3>1. Bytes(raw') \in Nat
      BY <2>1, BytesType DEF Tier
    <3> QED  BY <2>1, <3>1 DEF BytesMatch, Bytes, Taken, EntryLen
  <2>3. \A i \in 1..Len(raw') : i = 1 \/ i \in 2..Len(raw')
    BY <2>1 DEF Tier, EntrySeq
  <2>4. v <= origin_version[k]
    BY <1>0, <1>1 DEF AnswerInv, k, v
  <2>5. \A i \in 1..Len(raw') : raw'[i].body <= origin_version'[raw'[i].key]
    BY <1>0, <1>2, <2>1, <2>3, <2>4 DEF AnswerInv
  <2>6. ASSUME NEW d \in Call, Answered(d)', d \notin passed', NEW i \in 1..Len(raw'),
               raw'[i].key = call_key'[d]
        PROVE  raw'[i].body <= call_answer'[d]
    <3>1. d \notin passed /\ call_key[d] # k /\ Answered(d)
          /\ call_key'[d] = call_key[d] /\ call_answer'[d] = call_answer[d]
      BY <1>4, <2>6
    <3>2. i # 1
      BY <3>1, <2>1, <2>6
    <3>3. PICK j \in 1..Len(raw) : raw'[i] = raw[j]
      BY <3>2, <2>1, <2>3
    <3> QED  BY <3>1, <3>3, <2>6, <1>0 DEF AnswerInv
  <2>7. AnswerInv'
    BY <1>0, <1>2, <1>4, <2>5, <2>6 DEF AnswerInv
  <2> QED  BY <2>1, <2>2, <2>7, <1>3, TypeSplit DEF CacheInv
<1> QED  BY <1>5, <1>6

LEMMA CacheInvStep == CacheInv /\ [CacheNext]_cache_vars => CacheInv'
<1> SUFFICES ASSUME CacheInv, [CacheNext]_cache_vars PROVE CacheInv'
  OBVIOUS
<1>0. CallTypeOK /\ current_raw_bytes \in Nat
  BY TypeSplit DEF CacheInv
<1>1. ASSUME NEW c \in Call, AskStep(c) PROVE CacheInv'
  <2>1. CallTypeOK' /\ Quiet /\ UNCHANGED current_raw_bytes
    BY <1>1, AskTyped
  <2>2. Tier(raw') /\ BytesMatch'
    BY <2>1, TierQuiet
  <2>3. AnswerInv'
    BY <1>1, AskAnswers
  <2> QED  BY <1>0, <2>1, <2>2, <2>3, TypeSplit DEF CacheInv
<1>2. ASSUME NEW c \in Call, WriteBack(c) \/ Store(c) PROVE CacheInv'
  BY <1>2, WriteKeeps
<1>3. ASSUME NEW k \in CacheKey, Hit(k) \/ Publish(k) \/ UNCHANGED cache_vars PROVE CacheInv'
  <2>1. Quiet /\ UNCHANGED <<current_raw_bytes, call_pc, call_key, call_entry, call_answer, passed>>
    BY <1>3 DEF Hit, Publish, Quiet, cache_vars, tier, reads
  <2>2. Tier(raw') /\ BytesMatch' /\ Within(raw', raw)
    BY <2>1, TierQuiet
  <2>3. /\ origin_version' \in [CacheKey -> Nat]
        /\ \A q \in CacheKey : origin_version'[q] \in Version(q) /\ origin_version[q] <= origin_version'[q]
    BY <1>0, <1>3 DEF CallTypeOK, Hit, Publish, cache_vars
  <2>4. CallTypeOK'
    BY <1>0, <2>1, <2>3 DEF CallTypeOK
  <2>5. \A c \in Call : Answered(c) => call_key[c] \in CacheKey /\ call_answer[c] \in Nat
    BY <1>0, VersionTyped DEF CallTypeOK, Answered, CacheInv, AnswerInv
  <2>6. \A q \in CacheKey : origin_version[q] \in Nat
    BY <1>0 DEF CallTypeOK
  <2>7. ASSUME NEW i \in 1..Len(raw') PROVE raw'[i].body <= origin_version'[raw'[i].key]
    <3>1. PICK j \in 1..Len(raw) : raw'[i] = raw[j]
      BY <2>2 DEF Within
    <3>2. raw[j].key \in CacheKey /\ raw[j].body \in Nat /\ raw[j].body <= origin_version[raw[j].key]
      BY TierTyped DEF CacheInv, AnswerInv
    <3> QED  BY <3>1, <3>2, <2>3, <2>6
  <2>8. ASSUME NEW c \in Call, Answered(c)'
        PROVE  /\ call_answer'[c] \in Version(call_key'[c])
               /\ call_answer'[c] <= origin_version'[call_key'[c]]
               /\ call_pc'[c] = "confirmed" => call_entry'[c] = call_answer'[c]
               /\ c \notin passed' => \A i \in 1..Len(raw') :
                     raw'[i].key = call_key'[c] => raw'[i].body <= call_answer'[c]
    <3>1. Answered(c)
      BY <2>1, <2>8 DEF Answered
    <3>2. call_answer[c] <= origin_version'[call_key[c]]
      BY <3>1, <2>3, <2>5, <2>6 DEF CacheInv, AnswerInv
    <3> QED  BY <3>1, <3>2, <2>1, <2>2 DEF CacheInv, AnswerInv, Within
  <2>9. AnswerInv'
    BY <2>7, <2>8 DEF AnswerInv, Answered
  <2> QED  BY <1>0, <2>1, <2>2, <2>4, <2>9, TypeSplit DEF CacheInv
<1>4. CASE UNCHANGED cache_vars
  <2>1. CallTypeOK' /\ Tier(raw') /\ current_raw_bytes' \in Nat
    BY <1>0, <1>4, TypeSplit DEF CacheInv, CallTypeOK, cache_vars
  <2>2. BytesMatch' /\ AnswerInv'
    BY <1>4 DEF CacheInv, BytesMatch, Bytes, Taken, EntryLen, AnswerInv, Answered, cache_vars
  <2> QED  BY <2>1, <2>2, TypeSplit DEF CacheInv
<1> QED  BY <1>1, <1>2, <1>3, <1>4 DEF CacheNext, AskStep

LEMMA CacheAlways == CacheSpec => []CacheInv
  BY CacheInvInit, CacheInvStep, PTL DEF CacheSpec

(* Every variable of the tier and its calls keeps its type, and no URL has  *)
(* two entries.                                                            *)
THEOREM CacheTypeCorrect == CacheSpec => []CacheTypeOK
<1>1. CacheInv => CacheTypeOK
  BY DEF CacheInv
<1> QED  BY <1>1, CacheAlways, PTL

(* The byte counter is what the entries take, and neither limit is passed, *)
(* through replacement, eviction for space and at the entry limit.         *)
THEOREM BytesCorrect == CacheSpec => []BytesMatch
<1>1. CacheInv => BytesMatch
  BY DEF CacheInv
<1> QED  BY <1>1, CacheAlways, PTL

(* The entry of a URL, now and after a step, by its place.                 *)
LEMMA EntryFound ==
    ASSUME CacheInv, CacheInv', NEW k \in CacheKey
    PROVE  /\ Cached(k) => \E i \in 1..Len(raw) : raw[i].key = k /\ EntryOf(k) = raw[i]
           /\ Cached(k)' => \E i \in 1..Len(raw') : raw'[i].key = k /\ EntryOf(k)' = raw'[i]
<1>1. ASSUME Cached(k)
      PROVE  Place(k) \in 1..Len(raw) /\ raw[Place(k)].key = k
  <2>1. \E i \in 1..Len(raw) : raw[i].key = k
    BY <1>1, TierTyped DEF Cached
  <2>2. Place(k) = CHOOSE i \in 1..Len(raw) : raw[i].key = k
    BY TierTyped DEF Place
  <2> QED  BY <2>1, <2>2
<1>2. DOMAIN raw' = 1..Len(raw')
  BY DEF CacheInv, CacheTypeOK
<1>3. ASSUME Cached(k)'
      PROVE  Place(k)' \in 1..Len(raw') /\ raw'[Place(k)'].key = k
  <2>1. \E i \in 1..Len(raw') : raw'[i].key = k
    BY <1>2, <1>3 DEF Cached
  <2>2. Place(k)' = CHOOSE i \in 1..Len(raw') : raw'[i].key = k
    BY <1>2 DEF Place
  <2> QED  BY <2>1, <2>2
<1> QED  BY <1>1, <1>3 DEF EntryOf

(* An entry gives way to an older version only in a call that had its      *)
(* answer before the newer one was written.                                *)
THEOREM NeverGoesBackCorrect == CacheSpec => NeverGoesBack
<1>1. CacheInv /\ CacheInv' /\ [CacheNext]_cache_vars =>
          [\A k \in CacheKey :
              Cached(k) /\ Cached(k)' /\ EntryOf(k)'.body < EntryOf(k).body =>
                \E c \in passed : call_key[c] = k /\ call_pc[c] # "idle" /\ call_pc'[c] = "idle"]_cache_vars
  <2> SUFFICES ASSUME CacheInv, CacheInv', CacheNext, NEW k \in CacheKey,
                      Cached(k), Cached(k)', EntryOf(k)'.body < EntryOf(k).body
               PROVE  \E c \in passed : call_key[c] = k /\ call_pc[c] # "idle" /\ call_pc'[c] = "idle"
    OBVIOUS
  <2>1. PICK i \in 1..Len(raw) : raw[i].key = k /\ EntryOf(k) = raw[i]
    BY EntryFound
  <2>2. PICK j \in 1..Len(raw') : raw'[j].key = k /\ EntryOf(k)' = raw'[j]
    BY EntryFound
  <2>3. raw[i].body \in Nat /\ raw'[j].body < raw[i].body
    BY <2>1, <2>2, TierTyped
  <2>4. ~ \E n \in 1..Len(raw) : raw'[j] = raw[n]
    <3> SUFFICES ASSUME NEW n \in 1..Len(raw), raw'[j] = raw[n] PROVE FALSE
      OBVIOUS
    <3>1. n = i
      BY <2>1, <2>2, TierTyped DEF CacheOK, Tier, Unique
    <3> QED  BY <3>1, <2>3
  <2>5. ~ Within(raw', raw)
    BY <2>4 DEF Within
  <2>6. PICK c \in Call : WriteBack(c) \/ Store(c)
    <3>1. ASSUME NEW c \in Call, AskStep(c) PROVE FALSE
      BY <2>5, <3>1, AskTyped, TierQuiet
    <3>2. ASSUME NEW q \in CacheKey, Hit(q) \/ Publish(q) PROVE FALSE
      <4>1. Quiet /\ UNCHANGED current_raw_bytes
        BY <3>2 DEF Hit, Publish, Quiet, tier
      <4> QED  BY <4>1, <2>5, TierQuiet
    <3> QED  BY <3>1, <3>2 DEF CacheNext, AskStep
  <2> DEFINE q == call_key[c]
             v == call_answer[c]
  <2>7. CallTypeOK /\ AnswerInv /\ CacheOK
    BY TypeSplit, TierTyped DEF CacheInv
  <2>8. Answered(c) /\ insert_raw(q, v) /\ q \in CacheKey /\ v \in Version(q)
    <3>1. Answered(c) /\ insert_raw(q, v)
      BY <2>6, <2>7 DEF AnswerInv, Answered, WriteBack, Store
    <3> QED  BY <3>1, <2>7 DEF CallTypeOK, Answered, AnswerInv
  <2>9. raw'[j] = [key |-> q, body |-> v]
    <3> HIDE DEF q, v
    <3>1. ~UNCHANGED tier
      BY <2>5 DEF tier, Within
    <3>2. \A n \in 2..Len(raw') : \E m \in 1..Len(raw) : raw'[n] = raw[m]
      BY <3>1, <2>7, <2>8, InsertKeeps
    <3>3. raw'[1] = [key |-> q, body |-> v]
      BY <3>1, <2>7, <2>8, InsertKeeps
    <3>4. j = 1
      BY <2>2, <2>4, <3>2
    <3> QED  BY <3>3, <3>4
  <2>10. q = k /\ v < raw[i].body
    BY <2>2, <2>3, <2>9
  <2>11. c \in passed
    <3>1. c \notin passed => raw[i].body <= v
      BY <2>1, <2>7, <2>8, <2>10 DEF AnswerInv
    <3>2. v \in Nat
      BY <2>8, VersionTyped
    <3> QED  BY <3>1, <3>2, <2>3, <2>10
  <2>12. call_pc[c] # "idle" /\ call_pc'[c] = "idle"
    BY <2>6, <2>7, <2>8 DEF CallTypeOK, Answered, WriteBack, Store, EndOf, CallTo
  <2> QED  BY <2>10, <2>11, <2>12
<1> QED  BY <1>1, CacheAlways, PTL DEF CacheSpec, NeverGoesBack

-----------------------------------------------------------------------------
(* The KEV catalogue.                                                      *)

(* Whoever waits for the catalogue has not waited longer than a request    *)
(* takes, a body is not older than its request, and the cached catalogue   *)
(* is older than the time since it was stored by one request at the most.  *)
AgeInv ==
    /\ \A l \in Lookup : asked[l] <= KEV_TIMEOUT /\ body[l] <= KEV_TIMEOUT
    /\ \A l \in Lookup : lookup_pc[l] = "read" => catalogue <= KEV_TIMEOUT
    /\ catalogue <= fetched_at + KEV_TIMEOUT

LEMMA AgeLimitType == AgeLimit \in Nat /\ AgeLimit >= KEV_TIMEOUT /\ AgeLimit = cache_ttl + KEV_TIMEOUT
  BY KevAssumption DEF AgeLimit

LEMMA KevInitTyped == KevInit => KevTypeOK /\ AgeInv
  BY KevAssumption DEF KevInit, KevTypeOK, AgeInv, Age, AgeLimit

LEMMA KevTypePreserved == KevTypeOK /\ AgeInv /\ [KevNext]_kev_vars => KevTypeOK'
<1> SUFFICES ASSUME KevTypeOK, AgeInv, [KevNext]_kev_vars PROVE KevTypeOK'
  OBVIOUS
<1> USE KevAssumption DEF KevTypeOK, Age, AgeLimit, LookupGoto, LookupMoves
<1>1. ASSUME NEW l \in Lookup, lookup(l) PROVE KevTypeOK'
  BY <1>1 DEF AgeInv, lookup, BeginLookup, ReceiveCatalogue, FetchFails, StoreCatalogue, AnswerLookup, LeaveLookup
<1>2. CASE KevTick
  BY <1>2 DEF KevTick, Older
<1>3. CASE UNCHANGED kev_vars
  BY <1>3 DEF kev_vars
<1> QED  BY <1>1, <1>2, <1>3 DEF KevNext

LEMMA AgeStep == KevTypeOK /\ AgeInv /\ [KevNext]_kev_vars => AgeInv'
<1> SUFFICES ASSUME KevTypeOK, AgeInv, [KevNext]_kev_vars PROVE AgeInv'
  OBVIOUS
<1> USE KevAssumption DEF KevTypeOK, AgeInv, Age, AgeLimit, LookupGoto, LookupMoves
<1>1. ASSUME NEW l \in Lookup, lookup(l) PROVE AgeInv'
  <2>1. CASE BeginLookup(l) \/ FetchFails(l) \/ AnswerLookup(l) \/ LeaveLookup(l)
    BY <2>1 DEF BeginLookup, FetchFails, AnswerLookup, LeaveLookup
  <2>2. CASE ReceiveCatalogue(l)
    BY <2>2 DEF ReceiveCatalogue
  <2>3. CASE StoreCatalogue(l)
    BY <2>3 DEF StoreCatalogue
  <2> QED  BY <1>1, <2>1, <2>2, <2>3 DEF lookup
<1>2. CASE KevTick
  BY <1>2 DEF KevTick, Older
<1>3. CASE UNCHANGED kev_vars
  BY <1>3 DEF kev_vars
<1> QED  BY <1>1, <1>2, <1>3 DEF KevNext

LEMMA KevAlways == KevSpec => [](KevTypeOK /\ AgeInv)
<1>1. KevTypeOK /\ AgeInv /\ [KevNext]_kev_vars => (KevTypeOK /\ AgeInv)'
  BY KevTypePreserved, AgeStep
<1> QED  BY <1>1, KevInitTyped, PTL DEF KevSpec

(* Every variable of the catalogue and its lookups keeps its type.         *)
THEOREM KevTypeCorrect == KevSpec => []KevTypeOK
  BY KevAlways, PTL

(* Nobody is told what the catalogue said more than cache_ttl and the time *)
(* of one request ago, however many lookups fetch it at once.              *)
THEOREM AnswerCorrect == KevSpec => AnswerRecent
<1>1. KevTypeOK /\ AgeInv /\ [KevNext]_kev_vars =>
          [\A l \in Lookup : lookup_pc[l] # "answered" /\ lookup_pc'[l] = "answered" =>
              catalogue < cache_ttl + KEV_TIMEOUT]_kev_vars
  <2> SUFFICES ASSUME KevTypeOK, AgeInv, KevNext, NEW l \in Lookup,
                      lookup_pc[l] # "answered", lookup_pc'[l] = "answered"
               PROVE  catalogue < cache_ttl + KEV_TIMEOUT
    OBVIOUS
  <2> USE KevAssumption DEF KevTypeOK, AgeInv, Age, AgeLimit, LookupGoto, LookupMoves
  <2>1. PICK k \in Lookup : lookup(k)
    BY DEF KevNext, KevTick
  <2>2. (BeginLookup(l) /\ fetched_at < cache_ttl) \/ AnswerLookup(l)
    BY <2>1 DEF lookup, BeginLookup, ReceiveCatalogue, FetchFails, StoreCatalogue, AnswerLookup, LeaveLookup
  <2> QED  BY <2>2 DEF AnswerLookup
<1> QED  BY <1>1, KevAlways, PTL DEF KevSpec, AnswerRecent

-----------------------------------------------------------------------------
(* The arXiv gate.                                                         *)

(* Who is at the gate is in its queue, once, and who has a request in      *)
(* flight is at its head.                                                  *)
QueueInv ==
    /\ \A i, j \in DOMAIN waiters : waiters[i] = waiters[j] => i = j
    /\ \A q \in Query : query_pc[q] # "idle" <=> \E i \in DOMAIN waiters : waiters[i] = q
    /\ \A q \in Query : query_pc[q] = "request" => Head(waiters) = q

GateInv == GateTypeOK /\ QueueInv

LEMMA GateInvInit == GateInit => GateInv
  BY GateAssumption DEF GateInit, GateInv, GateTypeOK, QueueInv

LEMMA GateInvStep == GateInv /\ [GateNext]_arxiv_vars => GateInv'
<1> SUFFICES ASSUME GateInv, [GateNext]_arxiv_vars PROVE GateInv'
  OBVIOUS
<1> USE GateAssumption DEF GateInv, GateTypeOK, QueueInv
<1>1. ASSUME NEW q \in Query, QueueAtGate(q) PROVE GateInv'
  BY <1>1 DEF QueueAtGate
<1>2. ASSUME NEW q \in Query, StartRequest(q) PROVE GateInv'
  BY <1>2 DEF StartRequest
<1>3. ASSUME NEW q \in Query, LeaveGate(q) PROVE GateInv'
  <2> DEFINE n == PlaceOf(q)
  <2>1. n \in 1..Len(waiters) /\ waiters[n] = q
    BY <1>3 DEF LeaveGate, PlaceOf
  <2> HIDE DEF n
  <2>2. waiters \in Seq(Query) /\ waiters' = RemoveAt(waiters, n)
    BY <1>3 DEF LeaveGate, n
  <2>3. /\ waiters' \in Seq(Query) /\ Len(waiters') = Len(waiters) - 1
        /\ \A i \in 1..n - 1 : waiters'[i] = waiters[i]
        /\ \A i \in n..Len(waiters) - 1 : waiters'[i] = waiters[i + 1]
    <3>1. RemoveAt(waiters, n) \in Seq(Query) /\ Len(RemoveAt(waiters, n)) = Len(waiters) - 1
      BY <2>1, <2>2, RemoveAtProperties, Zenon
    <3>2. \A i \in 1..n - 1 : RemoveAt(waiters, n)[i] = waiters[i]
      BY <2>1, <2>2, RemoveAtProperties
    <3>3. ASSUME NEW i \in n..Len(waiters) - 1 PROVE RemoveAt(waiters, n)[i] = waiters[i + 1]
      <4>1. \A k \in n..Len(waiters) - 1 : RemoveAt(waiters, n)[k] = waiters[k + 1]
        BY ONLY RemoveAtProperties, <2>1, <2>2
      <4> QED  BY <4>1
    <3> QED  BY <2>2, <3>1, <3>2, <3>3, Zenon
  <2>4. Len(waiters) \in Nat /\ DOMAIN waiters = 1..Len(waiters) /\ DOMAIN waiters' = 1..Len(waiters) - 1
    BY <2>2, <2>3, LenProperties
  \* The place from which a waiter moves to where it stands now.
  <2> DEFINE From(i) == IF i < n THEN i ELSE i + 1
  <2>5. \A i \in DOMAIN waiters' :
            From(i) \in DOMAIN waiters /\ From(i) # n /\ waiters'[i] = waiters[From(i)]
    BY <2>1, <2>3, <2>4
  <2>6. \A i, j \in DOMAIN waiters' : From(i) = From(j) => i = j
    BY <2>1, <2>4
  <2>7. \A i \in DOMAIN waiters : i # n => \E j \in DOMAIN waiters' : From(j) = i
    <3> TAKE i \in DOMAIN waiters
    <3>1. CASE i < n
      BY <3>1, <2>1, <2>4
    <3>2. CASE i > n
      <4>1. i - 1 \in DOMAIN waiters' /\ From(i - 1) = i
        BY <3>2, <2>1, <2>4
      <4> QED  BY <4>1
    <3> QED  BY <3>1, <3>2, <2>1, <2>4
  <2>8. query_pc' = [query_pc EXCEPT ![q] = "idle"] /\ last_started' = last_started
    BY <1>3 DEF LeaveGate
  <2>9. \A r \in Query : query_pc'[r] = "request" => Head(waiters') = r
    <3> SUFFICES ASSUME NEW r \in Query, query_pc'[r] = "request" PROVE Head(waiters') = r
      OBVIOUS
    <3>1. r # q /\ query_pc[r] = "request"
      BY <2>8
    <3>2. waiters[1] = r /\ Len(waiters) > 0
      BY <3>1, <2>1, <2>4
    <3>3. n > 1 /\ waiters'[1] = r /\ Len(waiters') > 0
      BY <3>1, <3>2, <2>1, <2>3, <2>4
    <3> QED  BY <3>3, <2>3
  <2> HIDE DEF From
  <2>10. \A r \in Query : query_pc'[r] # "idle" <=> \E i \in DOMAIN waiters' : waiters'[i] = r
    BY <2>1, <2>5, <2>7, <2>8
  <2>11. \A i, j \in DOMAIN waiters' : waiters'[i] = waiters'[j] => i = j
    BY <2>5, <2>6
  <2> QED  BY <2>3, <2>8, <2>9, <2>10, <2>11
<1>4. CASE GateTick
  BY <1>4 DEF GateTick
<1>5. CASE UNCHANGED arxiv_vars
  BY <1>5 DEF arxiv_vars
<1> QED  BY <1>1, <1>2, <1>3, <1>4, <1>5 DEF GateNext

LEMMA GateAlways == GateInit /\ [][GateNext]_arxiv_vars => []GateInv
  BY GateInvInit, GateInvStep, PTL

(* Every variable of the gate and its searches keeps its type.             *)
THEOREM GateTypeCorrect == GateSpec => []GateTypeOK
<1>1. GateInv => GateTypeOK
  BY DEF GateInv
<1> QED  BY <1>1, GateAlways, PTL DEF GateSpec

(* One arXiv request is in flight, and it starts at least interval after   *)
(* the one before, whoever leaves the queue at whatever place.             *)
THEOREM GateCorrect == GateSpec => GateSpaced
<1>1. GateInv /\ [GateNext]_arxiv_vars =>
          [\A q \in Query : query_pc[q] = "gate" /\ query_pc'[q] = "request" =>
              /\ last_started = interval
              /\ \A r \in Query : query_pc[r] # "request"]_arxiv_vars
  <2> SUFFICES ASSUME GateInv, GateNext, NEW q \in Query,
                      query_pc[q] = "gate", query_pc'[q] = "request"
               PROVE  last_started = interval /\ \A r \in Query : query_pc[r] # "request"
    OBVIOUS
  <2>1. StartRequest(q)
    BY DEF GateNext, QueueAtGate, StartRequest, LeaveGate, GateTick, GateInv, GateTypeOK
  <2> QED  BY <2>1, GateAssumption DEF StartRequest, GateInv, GateTypeOK, QueueInv
<1> QED  BY <1>1, GateAlways, PTL DEF GateSpec, GateSpaced
=============================================================================
