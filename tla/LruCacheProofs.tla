--------------------------- MODULE LruCacheProofs ---------------------------
(***************************************************************************)
(* The linked list of LruCache stays sound and the cache stays bounded,    *)
(* for every set of keys and every size.                                   *)
(*                                                                         *)
(* ListIsSound speaks of neighbours only and is not inductive: a list with *)
(* a ring of nodes beside it satisfies it, and loses its head when the one *)
(* node outside the ring goes.  IInv says that the list is the layout of   *)
(* some sequence without repetitions, which excludes rings.                *)
(*                                                                         *)
(* That sequence is also the state of LruOrder which the list stands for:  *)
(* the cache keeps the order of use, and evicts the key unused longest.    *)
(***************************************************************************)
EXTENDS LruCache, FiniteSetTheorems, SequenceTheorems, WellFoundedInduction,
        TLAPS

OptKeys == Keys \union {Nil}

Lists == [nodes : SUBSET Keys, head : OptKeys, tail : OptKeys,
          prev : [Keys -> OptKeys], next : [Keys -> OptKeys]]

\* s lists the n elements of S, each once.
Lines(S, n, s) ==
    /\ s \in [1..n -> S]
    /\ \A k \in S : \E i \in 1..n : s[i] = k
    /\ \A i, j \in 1..n : s[i] = s[j] => i = j

\* L is how the sequence s of the n keys of S is laid out in memory.
Linked(L, S, n, s) ==
    /\ Lines(S, n, s)
    /\ L.nodes = S
    /\ L.head = IF n = 0 THEN Nil ELSE s[1]
    /\ L.tail = IF n = 0 THEN Nil ELSE s[n]
    /\ \A i \in 1..n : L.prev[s[i]] = IF i = 1 THEN Nil ELSE s[i - 1]
    /\ \A i \in 1..n : L.next[s[i]] = IF i = n THEN Nil ELSE s[i + 1]

\* k before the n elements of s, and s without its j-th element.
Consed(s, n, k) == [i \in 1..(n + 1) |-> IF i = 1 THEN k ELSE s[i - 1]]

Removed(s, n, j) == [i \in 1..(n - 1) |-> IF i < j THEN s[i] ELSE s[i + 1]]

\* L is a sound list of the keys of S.
Sound(L, S) == L \in Lists /\ \E n \in Nat : \E s : Linked(L, S, n, s)

IInv == TypeOK /\ SizeBounded /\ Sound(list, store)

-----------------------------------------------------------------------------
(* The list *)

\* A pointer map stays one.
LEMMA PutType ==
    ASSUME NEW f \in [Keys -> OptKeys], NEW k, NEW v \in OptKeys
    PROVE  Put(f, k, v) \in [Keys -> OptKeys]
BY DEF Put

\* What addToFront, removeFromAccessOrder and moveToFront return is a list.
LEMMA AddToFrontType ==
    ASSUME NEW L \in Lists, NEW k \in Keys
    PROVE  AddToFront(L, k) \in Lists
<1>1. /\ L.nodes \in SUBSET Keys /\ L.head \in OptKeys /\ L.tail \in OptKeys
      /\ L.prev \in [Keys -> OptKeys] /\ L.next \in [Keys -> OptKeys]
  BY DEF Lists
<1>2. Nil \in OptKeys /\ k \in OptKeys
  BY DEF OptKeys
<1>3. Put(Put(L.prev, k, Nil), L.head, k) \in [Keys -> OptKeys]
  BY <1>1, <1>2, PutType
<1>4. Put(L.next, k, L.head) \in [Keys -> OptKeys]
  BY <1>1, <1>2, PutType
<1> QED
  BY <1>1, <1>2, <1>3, <1>4 DEF AddToFront, Lists

\* Unlinking a node leaves a list.
LEMMA RemoveFromAccessOrderType ==
    ASSUME NEW L \in Lists, NEW k \in Keys
    PROVE  RemoveFromAccessOrder(L, k) \in Lists
<1>1. /\ L.nodes \in SUBSET Keys /\ L.head \in OptKeys /\ L.tail \in OptKeys
      /\ L.prev \in [Keys -> OptKeys] /\ L.next \in [Keys -> OptKeys]
  BY DEF Lists
<1>2. Nil \in OptKeys /\ L.prev[k] \in OptKeys /\ L.next[k] \in OptKeys
  BY <1>1 DEF OptKeys
<1>3. Put(Put(L.prev, L.next[k], L.prev[k]), k, Nil) \in [Keys -> OptKeys]
  BY <1>1, <1>2, PutType
<1>4. Put(Put(L.next, L.prev[k], L.next[k]), k, Nil) \in [Keys -> OptKeys]
  BY <1>1, <1>2, PutType
<1> QED
  BY <1>1, <1>2, <1>3, <1>4 DEF RemoveFromAccessOrder, Lists

\* A key put in front of a list is the first of its sequence.
LEMMA AddToFrontLinked ==
    ASSUME NEW S \in SUBSET Keys, NEW L, NEW n \in Nat, NEW s, Linked(L, S, n, s),
           NEW k \in Keys \ S
    PROVE  Linked(AddToFront(L, k), S \union {k}, n + 1, Consed(s, n, k))
<1>2. Linked(L, S, n, s)
  OBVIOUS
<1> DEFINE M == AddToFront(L, k)
           T == S \union {k}
           t == [i \in 1..(n + 1) |-> IF i = 1 THEN k ELSE s[i - 1]]
<1>3. /\ \A i \in 1..n : s[i] \in S /\ s[i] # k /\ s[i] \in Keys /\ s[i] # Nil
      /\ k # Nil
  BY <1>2, CacheAssumption DEF Linked, Lines
<1>4. /\ t[1] = k
      /\ \A i \in 2..(n + 1) : i - 1 \in 1..n /\ t[i] = s[i - 1]
      /\ n > 0 => t[2] = s[1] /\ t[n + 1] = s[n]
  OBVIOUS
<1>5. Lines(T, n + 1, t)
  <2>1. t \in [1..(n + 1) -> T]
    BY <1>3
  <2>2. ASSUME NEW x \in T PROVE \E i \in 1..(n + 1) : t[i] = x
    <3>1. CASE x = k
      BY <3>1, <1>4
    <3>2. CASE x \in S
      <4>1. PICK j \in 1..n : s[j] = x
        BY <1>2, <3>2 DEF Linked, Lines
      <4>2. j + 1 \in 1..(n + 1) /\ t[j + 1] = x
        BY <4>1
      <4> QED BY <4>2
    <3> QED BY <3>1, <3>2
  <2>3. ASSUME NEW i \in 1..(n + 1), NEW j \in 1..(n + 1), t[i] = t[j] PROVE i = j
    <3>1. CASE i = 1
      BY <3>1, <2>3, <1>3
    <3>2. CASE j = 1
      BY <3>2, <2>3, <1>3
    <3>3. CASE i # 1 /\ j # 1
      <4>1. i - 1 \in 1..n /\ j - 1 \in 1..n /\ s[i - 1] = s[j - 1]
        BY <3>3, <2>3
      <4>2. i - 1 = j - 1
        BY <4>1, <1>2 DEF Linked, Lines
      <4> QED BY <4>2
    <3> QED BY <3>1, <3>2, <3>3
  <2> QED BY <2>1, <2>2, <2>3 DEF Lines
<1>6. M.nodes = T /\ M.head = t[1] /\ M.tail = t[n + 1]
  BY <1>2, <1>3, <1>4 DEF Linked, AddToFront
<1>7. \A x \in Keys : /\ M.prev[x] = IF x = L.head THEN k ELSE IF x = k THEN Nil ELSE L.prev[x]
                      /\ M.next[x] = IF x = k THEN L.head ELSE L.next[x]
  BY DEF AddToFront, Put
<1>8. ASSUME NEW i \in 1..(n + 1) PROVE M.prev[t[i]] = IF i = 1 THEN Nil ELSE t[i - 1]
  <2>1. CASE i = 1
    <3>1. k # L.head
      BY <1>2, <1>3 DEF Linked
    <3> QED BY <2>1, <3>1, <1>4, <1>7
  <2>2. CASE i = 2
    BY <2>2, <1>2, <1>3, <1>4, <1>7 DEF Linked
  <2>3. CASE i > 2
    <3>1. i - 1 \in 1..n /\ i - 1 # 1 /\ i - 2 \in 1..n /\ t[i] = s[i - 1] /\ t[i - 1] = s[i - 2]
      BY <2>3
    <3>2. s[i - 1] # s[1]
      BY <3>1, <1>2 DEF Linked, Lines
    <3>3. s[i - 1] # L.head /\ s[i - 1] # k /\ L.prev[s[i - 1]] = s[i - 2]
      BY <3>1, <3>2, <1>2, <1>3 DEF Linked
    <3> QED BY <2>3, <3>1, <3>3, <1>3, <1>7
  <2> QED BY <2>1, <2>2, <2>3
<1>9. ASSUME NEW i \in 1..(n + 1) PROVE M.next[t[i]] = IF i = n + 1 THEN Nil ELSE t[i + 1]
  <2>1. CASE i = 1
    BY <2>1, <1>2, <1>4, <1>7 DEF Linked
  <2>2. CASE i # 1
    <3>1. i - 1 \in 1..n /\ t[i] = s[i - 1] /\ (i # n + 1 => i \in 1..n /\ t[i + 1] = s[i])
      BY <2>2
    <3>2. L.next[s[i - 1]] = IF i - 1 = n THEN Nil ELSE s[i]
      BY <3>1, <1>2 DEF Linked
    <3> QED BY <3>1, <3>2, <1>3, <1>7
  <2> QED BY <2>1, <2>2
<1>10. Linked(M, T, n + 1, t)
  <2>1. n + 1 # 0
    OBVIOUS
  <2> HIDE DEF M, T, t
  <2> QED
    BY <2>1, <1>5, <1>6, <1>8, <1>9 DEF Linked
<1> QED
  BY <1>10 DEF Consed

\* A key put in front of a sound list leaves a sound list.
LEMMA AddToFrontSound ==
    ASSUME NEW S \in SUBSET Keys, NEW L, Sound(L, S), NEW k \in Keys \ S
    PROVE  Sound(AddToFront(L, k), S \union {k})
<1>1. L \in Lists
  BY DEF Sound
<1>2. PICK n \in Nat : \E s : Linked(L, S, n, s)
  BY DEF Sound
<1>3. PICK s : Linked(L, S, n, s)
  BY <1>2
<1>4. Linked(AddToFront(L, k), S \union {k}, n + 1, Consed(s, n, k)) /\ n + 1 \in Nat
  BY <1>3, AddToFrontLinked
<1> QED
  BY <1>1, <1>4, AddToFrontType DEF Sound

\* A key taken out of a list is taken out of its sequence.
LEMMA RemoveFromAccessOrderLinked ==
    ASSUME NEW S \in SUBSET Keys, NEW L, NEW n \in Nat, NEW s, Linked(L, S, n, s),
           NEW j \in 1..n, NEW k, k = s[j]
    PROVE  Linked(RemoveFromAccessOrder(L, k), S \ {k}, n - 1, Removed(s, n, j))
<1>2. Linked(L, S, n, s)
  OBVIOUS
<1>3. s[j] = k /\ k \in S
  BY DEF Linked, Lines
<1> DEFINE M == RemoveFromAccessOrder(L, k)
           T == S \ {k}
           m == n - 1
           t == [i \in 1..m |-> IF i < j THEN s[i] ELSE s[i + 1]]
           p == IF j = 1 THEN Nil ELSE s[j - 1]
           q == IF j = n THEN Nil ELSE s[j + 1]
<1>4. /\ \A i \in 1..n : s[i] \in S /\ s[i] \in Keys /\ s[i] # Nil
      /\ \A i, h \in 1..n : s[i] = s[h] => i = h
      /\ k \in Keys /\ k # Nil
      /\ n \in Nat /\ m \in Nat /\ j \in Nat
      /\ L.nodes = S
  BY <1>2, CacheAssumption DEF Linked, Lines
<1>5. L.prev[k] = p /\ L.next[k] = q
  BY <1>2, <1>3 DEF Linked
<1>6. \A i \in 1..m : /\ i < j => i \in 1..n /\ t[i] = s[i]
                      /\ ~(i < j) => i + 1 \in 1..n /\ t[i] = s[i + 1]
  BY <1>4
<1>7. Lines(T, m, t)
  <2>1. ASSUME NEW i \in 1..m PROVE t[i] \in T
    BY <1>3, <1>4, <1>6
  <2>2. t \in [1..m -> T]
    <3>1. t = [i \in 1..m |-> t[i]]
      OBVIOUS
    <3> HIDE DEF t, m, T
    <3> QED BY <2>1, <3>1
  <2>3. ASSUME NEW x \in T PROVE \E i \in 1..m : t[i] = x
    <3>1. PICK h \in 1..n : s[h] = x
      BY <1>2 DEF Linked, Lines
    <3>2. h # j
      BY <3>1, <1>3
    <3>3. CASE h < j
      <4>1. h \in 1..m
        BY <3>3
      <4> QED BY <4>1, <3>1, <3>3
    <3>4. CASE h > j
      <4>1. h - 1 \in 1..m /\ ~(h - 1 < j)
        BY <3>4
      <4> QED BY <4>1, <3>1
    <3> QED BY <3>2, <3>3, <3>4
  <2>4. ASSUME NEW i \in 1..m, NEW h \in 1..m, t[i] = t[h] PROVE i = h
    <3>1. CASE i < j /\ h < j
      <4>1. i \in 1..n /\ h \in 1..n /\ s[i] = s[h]
        BY <3>1, <1>6, <2>4
      <4> QED BY <4>1, <1>4
    <3>2. CASE ~(i < j) /\ ~(h < j)
      <4>1. i + 1 \in 1..n /\ h + 1 \in 1..n /\ s[i + 1] = s[h + 1]
        BY <3>2, <1>6, <2>4
      <4>2. i + 1 = h + 1
        BY <4>1, <1>4
      <4> QED BY <4>2
    <3>3. CASE i < j /\ ~(h < j)
      <4>1. i \in 1..n /\ h + 1 \in 1..n /\ s[i] = s[h + 1]
        BY <3>3, <1>6, <2>4
      <4>2. i = h + 1
        BY <4>1, <1>4
      <4> QED BY <4>2, <3>3
    <3>4. CASE ~(i < j) /\ h < j
      <4>1. i + 1 \in 1..n /\ h \in 1..n /\ s[i + 1] = s[h]
        BY <3>4, <1>6, <2>4
      <4>2. i + 1 = h
        BY <4>1, <1>4
      <4> QED BY <4>2, <3>4
    <3> QED BY <3>1, <3>2, <3>3, <3>4
  <2> HIDE DEF t, m, T
  <2> QED BY <2>2, <2>3, <2>4 DEF Lines
<1>8. /\ M.nodes = T
      /\ M.head = IF p = Nil THEN q ELSE L.head
      /\ M.tail = IF q = Nil THEN p ELSE L.tail
      /\ \A x \in Keys : x # k => /\ M.prev[x] = IF x = q THEN p ELSE L.prev[x]
                                  /\ M.next[x] = IF x = p THEN q ELSE L.next[x]
  <2> HIDE DEF p, q
  <2> QED BY <1>4, <1>5 DEF RemoveFromAccessOrder, Put
<1>9. M.head = IF m = 0 THEN Nil ELSE t[1]
  <2>1. p = Nil <=> j = 1
    BY <1>4
  <2>2. L.head = s[1]
    BY <1>2, <1>4 DEF Linked
  <2>3. CASE j = 1
    BY <2>1, <2>3, <1>6, <1>8
  <2>4. CASE j # 1
    <3>1. m # 0 /\ 1 \in 1..m /\ 1 < j
      BY <2>4
    <3> QED BY <2>1, <2>2, <2>4, <3>1, <1>6, <1>8
  <2> QED BY <2>3, <2>4
<1>10. M.tail = IF m = 0 THEN Nil ELSE t[m]
  <2>1. q = Nil <=> j = n
    BY <1>4
  <2>2. L.tail = s[n]
    BY <1>2, <1>4 DEF Linked
  <2>3. CASE j = n
    BY <2>1, <2>3, <1>6, <1>8
  <2>4. CASE j # n
    <3>1. m # 0 /\ m \in 1..m /\ ~(m < j) /\ m + 1 = n
      BY <2>4
    <3> QED BY <2>1, <2>2, <2>4, <3>1, <1>6, <1>8
  <2> QED BY <2>3, <2>4
<1>11. ASSUME NEW i \in 1..m PROVE M.prev[t[i]] = IF i = 1 THEN Nil ELSE t[i - 1]
  <2>1. t[i] \in T /\ t[i] \in Keys /\ t[i] # k
    BY <1>7 DEF Lines
  <2>2. CASE i < j
    <3>1. i \in 1..n /\ t[i] = s[i] /\ L.prev[s[i]] = (IF i = 1 THEN Nil ELSE s[i - 1])
      BY <2>2, <1>2, <1>6 DEF Linked
    <3>2. t[i] # q
      BY <2>2, <3>1, <1>4
    <3>3. i # 1 => t[i - 1] = s[i - 1]
      BY <2>2, <1>6
    <3> QED BY <2>1, <3>1, <3>2, <3>3, <1>8
  <2>3. CASE i = j
    <3>1. t[i] = q
      BY <2>3, <1>6
    <3>2. i # 1 => t[i - 1] = s[i - 1]
      BY <2>3, <1>6
    <3> QED BY <2>1, <2>3, <3>1, <3>2, <1>8
  <2>4. CASE i > j
    <3>1. i + 1 \in 1..n /\ t[i] = s[i + 1] /\ L.prev[s[i + 1]] = s[i]
      BY <2>4, <1>2, <1>6 DEF Linked
    <3>2. t[i] # q
      BY <2>4, <3>1, <1>4
    <3>3. i # 1 /\ i - 1 \in 1..m /\ ~(i - 1 < j) /\ t[i - 1] = s[i]
      BY <2>4
    <3> QED BY <2>1, <3>1, <3>2, <3>3, <1>8
  <2> QED BY <2>2, <2>3, <2>4
<1>12. ASSUME NEW i \in 1..m PROVE M.next[t[i]] = IF i = m THEN Nil ELSE t[i + 1]
  <2>1. t[i] \in T /\ t[i] \in Keys /\ t[i] # k
    BY <1>7 DEF Lines
  <2>2. CASE i < j - 1
    <3>1. i \in 1..n /\ t[i] = s[i] /\ L.next[s[i]] = s[i + 1]
      BY <2>2, <1>2, <1>6 DEF Linked
    <3>2. t[i] # p
      BY <2>2, <3>1, <1>4
    <3>3. i # m /\ i + 1 \in 1..m /\ t[i + 1] = s[i + 1]
      BY <2>2
    <3> QED BY <2>1, <3>1, <3>2, <3>3, <1>8
  <2>3. CASE i = j - 1
    <3>1. t[i] = p
      BY <2>3, <1>6
    <3>2. q = IF i = m THEN Nil ELSE t[i + 1]
      BY <2>3, <1>6
    <3> QED BY <2>1, <3>1, <3>2, <1>8
  <2>4. CASE i >= j
    <3>1. i + 1 \in 1..n /\ t[i] = s[i + 1]
          /\ L.next[s[i + 1]] = (IF i = m THEN Nil ELSE s[i + 2])
      BY <2>4, <1>2, <1>6 DEF Linked
    <3>2. t[i] # p
      BY <2>4, <3>1, <1>4
    <3>3. i # m => t[i + 1] = s[i + 2]
      BY <2>4
    <3> QED BY <2>1, <3>1, <3>2, <3>3, <1>8
  <2> QED BY <2>2, <2>3, <2>4
<1>13. Linked(M, T, m, t)
  <2> HIDE DEF M, T, t, m
  <2> QED BY <1>7, <1>8, <1>9, <1>10, <1>11, <1>12 DEF Linked
<1> QED BY <1>13 DEF Removed

\* A key taken out of a sound list leaves a sound list.
LEMMA RemoveFromAccessOrderSound ==
    ASSUME NEW S \in SUBSET Keys, NEW L, Sound(L, S), NEW k \in S
    PROVE  Sound(RemoveFromAccessOrder(L, k), S \ {k})
<1>1. L \in Lists
  BY DEF Sound
<1>2. PICK n \in Nat : \E s : Linked(L, S, n, s)
  BY DEF Sound
<1>3. PICK s : Linked(L, S, n, s)
  BY <1>2
<1>4. PICK j \in 1..n : s[j] = k
  BY <1>3 DEF Linked, Lines
<1>5. Linked(RemoveFromAccessOrder(L, k), S \ {k}, n - 1, Removed(s, n, j)) /\ n - 1 \in Nat
  BY <1>3, <1>4, RemoveFromAccessOrderLinked
<1> QED
  BY <1>1, <1>5, RemoveFromAccessOrderType DEF Sound

\* Moving a key to the front is taking it out and putting it back in front.
LEMMA MoveToFrontLinked ==
    ASSUME NEW S \in SUBSET Keys, NEW L, NEW n \in Nat, NEW s, Linked(L, S, n, s),
           NEW j \in 1..n, NEW k, k = s[j]
    PROVE  Linked(MoveToFront(L, k), S, n, Consed(Removed(s, n, j), n - 1, k))
<1>1. /\ k \in S /\ L.nodes = S /\ n # 0
      /\ s \in [1..n -> S] /\ \A i, h \in 1..n : s[i] = s[h] => i = h
  BY DEF Linked, Lines
<1>2. CASE k = L.head
  <2>0. L.head = s[1] /\ 1 \in 1..n
    BY <1>1 DEF Linked
  <2>1. j = 1
    BY <1>1, <1>2, <2>0
  <2>2. Consed(Removed(s, n, j), n - 1, k) = [i \in 1..n |-> s[i]]
    BY <1>1, <2>1 DEF Consed, Removed
  <2>3. Consed(Removed(s, n, j), n - 1, k) = s
    BY <1>1, <2>2
  <2> QED BY <1>2, <2>3 DEF MoveToFront
<1>3. CASE k # L.head
  <2> DEFINE R == RemoveFromAccessOrder(L, k)
             M == AddToFront(R, k)
  <2>1. Linked(L, S, n, s)
    OBVIOUS
  <2>2. s[j] = k
    OBVIOUS
  <2>3. /\ \A i \in 1..n : s[i] \in Keys /\ s[i] # Nil
        /\ n # 0 /\ j # 1
        /\ L.head # Nil /\ L.tail = s[n]
    BY <1>3, <2>1, <2>2, CacheAssumption DEF Linked, Lines
  <2>4. L.prev[k] # Nil
    <3>1. L.prev[k] = s[j - 1] /\ j - 1 \in 1..n
      BY <2>1, <2>2, <2>3 DEF Linked
    <3> QED BY <3>1, <2>3
  <2>5. L.next[k] = Nil <=> k = L.tail
    <3>1. CASE j = n
      BY <3>1, <2>1, <2>2, <2>3 DEF Linked
    <3>2. CASE j # n
      <4>1. L.next[k] = s[j + 1] /\ j + 1 \in 1..n
        BY <3>2, <2>1, <2>2 DEF Linked
      <4>2. s[j] # s[n]
        BY <3>2, <2>1, <2>3 DEF Linked, Lines
      <4> QED BY <4>1, <4>2, <2>2, <2>3
    <3> QED BY <3>1, <3>2
  <2>6. R.head = L.head /\ R.tail = IF k = L.tail THEN L.prev[k] ELSE L.tail
    BY <1>1, <2>4, <2>5 DEF RemoveFromAccessOrder
  <2>7. MoveToFront(L, k) = M
    <3>1. R.nodes \union {k} = L.nodes
      BY <1>1 DEF RemoveFromAccessOrder
    <3>2. Put(Put(R.prev, k, Nil), R.head, k)
            = Put(Put(Put(L.prev, L.next[k], L.prev[k]), k, Nil), L.head, k)
      BY <1>1, <2>6 DEF RemoveFromAccessOrder, Put
    <3>3. Put(R.next, k, R.head)
            = Put(Put(L.next, L.prev[k], L.next[k]), k, L.head)
      BY <1>1, <2>6 DEF RemoveFromAccessOrder, Put
    <3>4. R.head # Nil
      BY <2>3, <2>6
    <3> HIDE DEF R
    <3> QED
      BY <1>1, <1>3, <2>6, <3>1, <3>2, <3>3, <3>4 DEF MoveToFront, AddToFront
  <2>8. Linked(R, S \ {k}, n - 1, Removed(s, n, j))
    BY RemoveFromAccessOrderLinked
  <2>9. k \in Keys \ (S \ {k}) /\ S \ {k} \in SUBSET Keys /\ (S \ {k}) \union {k} = S
        /\ n - 1 \in Nat /\ (n - 1) + 1 = n
    BY <1>1
  <2>10. Linked(M, (S \ {k}) \union {k}, (n - 1) + 1, Consed(Removed(s, n, j), n - 1, k))
    <3> HIDE DEF R
    <3> QED BY <2>8, <2>9, AddToFrontLinked
  <2> HIDE DEF M
  <2> QED BY <2>7, <2>9, <2>10
<1> QED BY <1>2, <1>3

\* A key moved to the front of a sound list leaves a sound list.
LEMMA MoveToFrontSound ==
    ASSUME NEW S \in SUBSET Keys, NEW L, Sound(L, S), NEW k \in S
    PROVE  Sound(MoveToFront(L, k), S)
<1>1. L \in Lists
  BY DEF Sound
<1>2. PICK n \in Nat : \E s : Linked(L, S, n, s)
  BY DEF Sound
<1>3. PICK s : Linked(L, S, n, s)
  BY <1>2
<1>4. PICK j \in 1..n : s[j] = k
  BY <1>3 DEF Linked, Lines
<1>5. Linked(MoveToFront(L, k), S, n, Consed(Removed(s, n, j), n - 1, k))
  BY <1>3, <1>4, MoveToFrontLinked
<1>6. MoveToFront(L, k) \in Lists
  <2>1. /\ L.nodes \in SUBSET Keys /\ L.head \in OptKeys /\ L.tail \in OptKeys
        /\ L.prev \in [Keys -> OptKeys] /\ L.next \in [Keys -> OptKeys]
    BY <1>1 DEF Lists
  <2>2. Nil \in OptKeys /\ k \in OptKeys /\ L.prev[k] \in OptKeys /\ L.next[k] \in OptKeys
    BY <2>1 DEF OptKeys
  <2>3. Put(Put(Put(L.prev, L.next[k], L.prev[k]), k, Nil), L.head, k) \in [Keys -> OptKeys]
    BY <2>1, <2>2, PutType
  <2>4. Put(Put(L.next, L.prev[k], L.next[k]), k, L.head) \in [Keys -> OptKeys]
    BY <2>1, <2>2, PutType
  <2> QED
    BY <1>1, <2>1, <2>2, <2>3, <2>4 DEF MoveToFront, Lists
<1> QED
  BY <1>5, <1>6 DEF Sound

\* The list of a new or cleared cache is sound.
LEMMA EmptySound == Sound(Empty, {})
<1> DEFINE s == [i \in 1..0 |-> Nil]
<1>1. Empty \in Lists
  BY DEF Empty, Lists, OptKeys
<1>2. Linked(Empty, {}, 0, s)
  BY DEF Linked, Lines, Empty
<1> QED
  BY <1>1, <1>2 DEF Sound

\* In a sound list neighbours agree, and it has two ends unless it is empty.
LEMMA SoundNeighbours ==
    ASSUME store \subseteq Keys, Sound(list, store)
    PROVE  ListIsSound
<1>n. PICK n \in Nat : \E s : Linked(list, store, n, s)
  BY DEF Sound
<1>1. PICK s : Linked(list, store, n, s)
  BY <1>n
<1>2. /\ \A i \in 1..n : s[i] \in store /\ s[i] # Nil
      /\ \A i, j \in 1..n : s[i] = s[j] => i = j
      /\ \A k \in store : \E i \in 1..n : s[i] = k
  BY <1>1, CacheAssumption DEF Linked, Lines
<1>3. CASE n = 0
  <2>1. store = {}
    BY <1>2, <1>3
  <2> QED BY <1>1, <1>3, <2>1 DEF Linked, ListIsSound
<1>4. CASE n # 0
  <2>1. list.nodes = store /\ list.head = s[1] /\ list.tail = s[n] /\ 1 \in 1..n /\ n \in 1..n
    BY <1>1, <1>4 DEF Linked
  <2>2. ASSUME NEW k \in store
        PROVE  /\ list.prev[k] = Nil <=> k = list.head
               /\ list.next[k] = Nil <=> k = list.tail
               /\ list.prev[k] # Nil => list.prev[k] \in store /\ list.next[list.prev[k]] = k
               /\ list.next[k] # Nil => list.next[k] \in store /\ list.prev[list.next[k]] = k
    <3>1. PICK i \in 1..n : s[i] = k
      BY <1>2
    <3>2. /\ list.prev[k] = IF i = 1 THEN Nil ELSE s[i - 1]
          /\ list.next[k] = IF i = n THEN Nil ELSE s[i + 1]
      BY <1>1, <3>1 DEF Linked
    <3>3. (k = list.head <=> i = 1) /\ (k = list.tail <=> i = n)
      BY <1>2, <2>1, <3>1
    <3>4. i # 1 => /\ i - 1 \in 1..n /\ s[i - 1] \in store /\ s[i - 1] # Nil
                   /\ list.next[s[i - 1]] = k
      <4> SUFFICES ASSUME i # 1
                   PROVE  /\ i - 1 \in 1..n /\ s[i - 1] \in store /\ s[i - 1] # Nil
                          /\ list.next[s[i - 1]] = k
        OBVIOUS
      <4>1. i - 1 \in 1..n /\ i - 1 # n /\ (i - 1) + 1 = i
        OBVIOUS
      <4>2. list.next[s[i - 1]] = s[(i - 1) + 1]
        BY <1>1, <4>1 DEF Linked
      <4> QED BY <1>2, <3>1, <4>1, <4>2
    <3>5. i # n => /\ i + 1 \in 1..n /\ s[i + 1] \in store /\ s[i + 1] # Nil
                   /\ list.prev[s[i + 1]] = k
      <4> SUFFICES ASSUME i # n
                   PROVE  /\ i + 1 \in 1..n /\ s[i + 1] \in store /\ s[i + 1] # Nil
                          /\ list.prev[s[i + 1]] = k
        OBVIOUS
      <4>1. i + 1 \in 1..n /\ i + 1 # 1 /\ (i + 1) - 1 = i
        OBVIOUS
      <4>2. list.prev[s[i + 1]] = s[(i + 1) - 1]
        BY <1>1, <4>1 DEF Linked
      <4> QED BY <1>2, <3>1, <4>1, <4>2
    <3> QED BY <3>2, <3>3, <3>4, <3>5
  <2> QED BY <1>2, <2>1, <2>2 DEF ListIsSound
<1> QED BY <1>3, <1>4

-----------------------------------------------------------------------------
(* The cache *)

\* Any set of keys is finite, so that the size of the map is a number.
LEMMA Finite ==
    ASSUME NEW S \in SUBSET Keys
    PROVE  IsFiniteSet(S) /\ Cardinality(S) \in Nat
BY CacheAssumption, FS_Subset, FS_CardinalityType

\* Every way an entry leaves the cache, save evictions, keeps the invariant.
LEMMA RemoveKeepsIInv ==
    ASSUME IInv, NEW k \in store, RemoveEntry(k)
    PROVE  /\ store' \subseteq Keys
           /\ timed' \subseteq store'
           /\ expired' \subseteq timed'
           /\ expired' = expired \ {k}
           /\ used' \in Keys \union {Nil}
           /\ SizeBounded'
           /\ Sound(list', store')
<1>1. store \in SUBSET Keys /\ store' = store \ {k} /\ list' = RemoveFromAccessOrder(list, k)
  BY DEF IInv, TypeOK, RemoveEntry
<1>2. Sound(RemoveFromAccessOrder(list, k), store \ {k})
  BY <1>1, RemoveFromAccessOrderSound DEF IInv
<1>3. Sound(list', store')
  BY <1>1, <1>2
<1>4. Cardinality(store') <= Cardinality(store) /\ Cardinality(store') \in Nat
  BY <1>1, Finite, FS_Subset
<1>5. SizeBounded'
  BY <1>1, <1>4, Finite, CacheAssumption DEF IInv, SizeBounded
<1> QED
  BY <1>1, <1>3, <1>5 DEF IInv, TypeOK, RemoveEntry, Sound, Linked, Lines

\* The empty cache satisfies the invariant.
LEMMA InitIInv == Init => IInv
<1> SUFFICES ASSUME Init PROVE IInv
  OBVIOUS
<1>1. TypeOK
  BY DEF Init, TypeOK, Empty
<1>2. SizeBounded
  BY FS_EmptySet, CacheAssumption DEF Init, SizeBounded
<1>3. Sound(list, store)
  BY EmptySound DEF Init
<1> QED BY <1>1, <1>2, <1>3 DEF IInv

\* What TypeOK says of the list is part of its soundness.
LEMMA IInvFromParts ==
    ASSUME store' \subseteq Keys, timed' \subseteq store', expired' \subseteq timed',
           sweeping' \subseteq expired', used' \in Keys \union {Nil}, Sound(list', store'),
           SizeBounded'
    PROVE  IInv'
BY DEF IInv, TypeOK, Sound, Lists, OptKeys

\* Every method keeps the invariant.
LEMMA NextIInv == IInv /\ [Next]_vars => IInv'
<1> SUFFICES ASSUME IInv, [Next]_vars PROVE IInv'
  OBVIOUS
<1>1. /\ store \in SUBSET Keys /\ timed \subseteq store /\ expired \subseteq timed
      /\ sweeping \subseteq expired /\ used \in Keys \union {Nil}
      /\ Sound(list, store) /\ Cardinality(store) <= MaxSize
      /\ Cardinality(store) \in Nat /\ MaxSize \in Nat \ {0} /\ IsFiniteSet(store)
  BY Finite, CacheAssumption DEF IInv, TypeOK, SizeBounded
<1>2. ASSUME NEW k \in Keys, Get(k) PROVE IInv'
  <2>1. CASE k \in expired /\ RemoveEntry(k)
    <3>1. sweeping' = {} /\ k \in store
      BY <1>1, <1>2, <2>1 DEF Get, Ready
    <3> QED BY <2>1, <3>1, RemoveKeepsIInv, IInvFromParts
  <2>2. CASE k \in store \ expired /\ list' = MoveToFront(list, k) /\ used' = k
             /\ UNCHANGED <<store, timed, expired>>
    <3>1. Sound(list', store')
      BY <1>1, <2>2, MoveToFrontSound
    <3>2. SizeBounded'
      BY <1>1, <2>2 DEF SizeBounded
    <3> QED BY <1>1, <1>2, <2>2, <3>1, <3>2, IInvFromParts DEF Get
  <2> QED BY <1>2, <2>1, <2>2 DEF Get
<1>3. ASSUME NEW k \in Keys, Has(k) PROVE IInv'
  <2>1. sweeping' = {} /\ k \in store /\ RemoveEntry(k)
    BY <1>1, <1>3 DEF Has, Ready
  <2> QED BY <2>1, RemoveKeepsIInv, IInvFromParts
<1>4. ASSUME NEW k \in Keys, Delete(k) PROVE IInv'
  <2>1. CASE k \in store
    <3>1. sweeping' = {} /\ RemoveEntry(k)
      BY <1>4 DEF Delete, Ready
    <3> QED BY <2>1, <3>1, RemoveKeepsIInv, IInvFromParts
  <2>2. CASE k \notin store
    <3>1. list.nodes = store
      BY <1>1 DEF Sound, Linked
    <3>2. UNCHANGED <<store, timed, expired, list>> /\ sweeping' = sweeping
          /\ used' \in Keys \union {Nil}
      BY <1>1, <1>4, <2>2, <3>1 DEF Delete, RemoveEntry, RemoveFromAccessOrder
    <3> QED BY <1>1, <3>2, IInvFromParts DEF SizeBounded
  <2> QED BY <2>1, <2>2
<1>5. ASSUME NEW k \in Keys, SetExisting(k) PROVE IInv'
  <2>1. Sound(list', store')
    BY <1>1, <1>5, MoveToFrontSound DEF SetExisting
  <2>2. SizeBounded'
    BY <1>1, <1>5 DEF SizeBounded, SetExisting
  <2> QED BY <1>1, <1>5, <2>1, <2>2, IInvFromParts DEF SetExisting, Expiry, Ready
<1>6. ASSUME NEW k \in Keys, SetNew(k) PROVE IInv'
  <2>1. Sound(list', store')
    BY <1>1, <1>6, AddToFrontSound DEF SetNew
  <2>2. Cardinality(store \union {k}) = Cardinality(store) + 1
    BY <1>1, <1>6, FS_AddElement DEF SetNew
  <2>3. SizeBounded'
    BY <1>1, <1>6, <2>2 DEF SizeBounded, SetNew, Full
  <2> QED BY <1>1, <1>6, <2>1, <2>3, IInvFromParts DEF SetNew, Expiry, Ready
<1>7. ASSUME NEW k \in Keys, SetEvicting(k) PROVE IInv'
  <2> DEFINE victim == list.tail
             rest == store \ {victim}
  <2>1. victim \in store
    <3>1. store # {}
      BY <1>1, <1>7, FS_EmptySet DEF SetEvicting, Full
    <3>2. ListIsSound
      BY <1>1, SoundNeighbours
    <3> QED BY <3>1, <3>2 DEF ListIsSound
  <2>2. Sound(RemoveFromAccessOrder(list, victim), rest)
    BY <1>1, <2>1, RemoveFromAccessOrderSound
  <2>3. Sound(AddToFront(RemoveFromAccessOrder(list, victim), k), rest \union {k})
    <3>1. k \in Keys \ rest /\ rest \in SUBSET Keys
      BY <1>1, <1>7 DEF SetEvicting
    <3> QED BY <2>2, <3>1, AddToFrontSound
  <2>4. Sound(list', store')
    BY <1>7, <2>3 DEF SetEvicting
  <2>5. Cardinality(rest \union {k}) <= Cardinality(store)
    <3>1. IsFiniteSet(rest) /\ Cardinality(rest) = Cardinality(store) - 1
      BY <1>1, <2>1, FS_RemoveElement
    <3>2. Cardinality(rest \union {k}) = Cardinality(rest) + 1
      BY <1>7, <3>1, FS_AddElement DEF SetEvicting
    <3> QED BY <1>1, <3>1, <3>2
  <2>6. SizeBounded'
    <3>1. Cardinality(store') <= Cardinality(store) /\ Cardinality(store') \in Nat
      BY <1>1, <1>7, <2>5, Finite DEF SetEvicting
    <3> QED BY <1>1, <3>1 DEF SizeBounded
  <2>7. /\ store' \subseteq Keys /\ timed' \subseteq store' /\ expired' \subseteq timed'
        /\ sweeping' = {} /\ used' \in Keys \union {Nil}
    BY <1>1, <1>7 DEF SetEvicting, Ready
  <2> QED BY <2>4, <2>6, <2>7, IInvFromParts
<1>8. ASSUME NEW k \in Keys, Expire(k) PROVE IInv'
  <2>1. UNCHANGED <<store, list>> /\ expired' \subseteq timed' /\ timed' \subseteq store'
        /\ sweeping' \subseteq expired' /\ used' \in Keys \union {Nil}
    BY <1>1, <1>8 DEF Expire
  <2> QED BY <1>1, <2>1, IInvFromParts DEF SizeBounded
<1>9. ASSUME NEW k \in Keys, CleanNext(k) PROVE IInv'
  <2>1. k \in store /\ RemoveEntry(k) /\ sweeping' = sweeping \ {k}
    BY <1>1, <1>9 DEF CleanNext
  <2>2. expired' = expired \ {k}
    BY <2>1 DEF RemoveEntry
  <2> QED BY <1>1, <2>1, <2>2, RemoveKeepsIInv, IInvFromParts
<1>10. CASE Clear
  <2>1. Sound(list', store') /\ SizeBounded'
    BY <1>1, <1>10, EmptySound, FS_EmptySet DEF Clear, SizeBounded
  <2> QED BY <1>10, <2>1, IInvFromParts DEF Clear, Ready
<1>11. CASE CleanExpired
  <2>1. UNCHANGED <<store, timed, expired, list, used>> /\ sweeping' = expired
    BY <1>11 DEF CleanExpired
  <2> QED BY <1>1, <2>1, IInvFromParts DEF SizeBounded
<1>12. CASE UNCHANGED vars
  BY <1>1, <1>12, IInvFromParts DEF vars, SizeBounded
<1> QED
  BY <1>2, <1>3, <1>4, <1>5, <1>6, <1>7, <1>8, <1>9, <1>10, <1>11, <1>12 DEF Next, KeyNext

\* The list is sound in every state.
LEMMA Invariance == Spec => []IInv
BY InitIInv, NextIInv, PTL DEF Spec

-----------------------------------------------------------------------------
(* Theorems *)

\* After any sequence of reads, writes, deletes, evictions and sweeps the linked
\* list has a node for every entry of the map and its pointers agree
\* (lru-backend.ts:177-247).
THEOREM ListStaysSound == Spec => []ListIsSound
<1>1. IInv => ListIsSound
  BY SoundNeighbours DEF IInv, TypeOK
<1> QED BY <1>1, Invariance, PTL

\* The cache never holds more than maxSize entries (lru-backend.ts:87-90).
THEOREM SizeStaysBounded == Spec => []SizeBounded
<1>1. IInv => SizeBounded
  BY DEF IInv
<1> QED BY <1>1, Invariance, PTL

-----------------------------------------------------------------------------
(* The order of last uses *)

\* A sequence is given by its length and its elements.
LEMMA LinesIsSeq ==
    ASSUME NEW S, NEW n \in Nat, NEW s, Lines(S, n, s)
    PROVE  s \in Seq(S) /\ Len(s) = n /\ DOMAIN s = 1..n /\ \A i \in 1..n : s[i] \in S
BY IsASeq DEF Lines

\* Consed is a concatenation, Removed takes one element out.
LEMMA ConsedIsConcat ==
    ASSUME NEW S, NEW n \in Nat, NEW s \in Seq(S), Len(s) = n, NEW k \in S
    PROVE  Consed(s, n, k) = <<k>> \o s
<1>1. /\ <<k>> \in Seq(S) /\ Len(<<k>>) = 1 /\ <<k>>[1] = k
  OBVIOUS
<1>2. /\ <<k>> \o s \in Seq(S) /\ Len(<<k>> \o s) = n + 1
      /\ \A i \in 1..(n + 1) : (<<k>> \o s)[i] = IF i <= 1 THEN <<k>>[i] ELSE s[i - 1]
  BY <1>1, ConcatProperties
<1>3. /\ Consed(s, n, k) \in Seq(S) /\ Len(Consed(s, n, k)) = n + 1
      /\ \A i \in 1..(n + 1) : Consed(s, n, k)[i] = IF i = 1 THEN k ELSE s[i - 1]
  <2>1. \A i \in 1..(n + 1) : i # 1 => i - 1 \in 1..n /\ s[i - 1] \in S
    BY ElementOfSeq
  <2>2. Consed(s, n, k) \in [1..(n + 1) -> S]
    BY <2>1 DEF Consed
  <2> QED
    BY <2>2 DEF Consed
<1>4. \A i \in 1..(n + 1) : Consed(s, n, k)[i] = (<<k>> \o s)[i]
  BY <1>1, <1>2, <1>3
<1> QED
  BY <1>2, <1>3, <1>4, SeqEqual

\* Removed is the RemoveAt of LruOrder.
LEMMA RemovedIsRemoveAt ==
    ASSUME NEW S, NEW n \in Nat, NEW s \in Seq(S), Len(s) = n, NEW j \in 1..n
    PROVE  /\ Removed(s, n, j) = Order!RemoveAt(s, j)
           /\ Removed(s, n, j) \in Seq(S)
           /\ Len(Removed(s, n, j)) = n - 1
<1> DEFINE a == SubSeq(s, 1, j - 1)
           b == SubSeq(s, j + 1, n)
<1>1. \A i \in 1..n : s[i] \in S
  BY ElementOfSeq
<1>2. /\ a \in Seq(S) /\ Len(a) = j - 1 /\ \A i \in 1..(j - 1) : a[i] = s[i]
  <2>1. \A i \in 1..(j - 1) : s[i] \in S
    BY <1>1
  <2>2. /\ a \in Seq(S) /\ Len(a) = (IF 1 <= j - 1 THEN (j - 1) - 1 + 1 ELSE 0)
        /\ \A i \in 1..((j - 1) - 1 + 1) : a[i] = s[1 + i - 1]
    BY <2>1, SubSeqProperties
  <2> QED BY <2>2
<1>3. /\ b \in Seq(S) /\ Len(b) = n - j /\ \A i \in 1..(n - j) : b[i] = s[j + i]
  <2>1. \A i \in (j + 1)..n : s[i] \in S
    BY <1>1
  <2>2. /\ b \in Seq(S) /\ Len(b) = (IF j + 1 <= n THEN n - (j + 1) + 1 ELSE 0)
        /\ \A i \in 1..(n - (j + 1) + 1) : b[i] = s[(j + 1) + i - 1]
    BY <2>1, SubSeqProperties
  <2> QED BY <2>2
<1> HIDE DEF a, b
<1>4. /\ a \o b \in Seq(S) /\ Len(a \o b) = n - 1
      /\ \A i \in 1..(n - 1) : (a \o b)[i] = IF i <= j - 1 THEN a[i] ELSE b[i - (j - 1)]
  <2>1. /\ a \o b \in Seq(S) /\ Len(a \o b) = Len(a) + Len(b)
        /\ \A i \in 1..(Len(a) + Len(b)) :
               (a \o b)[i] = IF i <= Len(a) THEN a[i] ELSE b[i - Len(a)]
    BY <1>2, <1>3, ConcatProperties
  <2>2. Len(a) + Len(b) = n - 1 /\ Len(a) = j - 1
    BY <1>2, <1>3
  <2> QED BY <2>1, <2>2
<1>5. /\ Removed(s, n, j) \in Seq(S) /\ Len(Removed(s, n, j)) = n - 1
      /\ \A i \in 1..(n - 1) : Removed(s, n, j)[i] = IF i < j THEN s[i] ELSE s[i + 1]
  <2>1. Removed(s, n, j) \in [1..(n - 1) -> S]
    BY <1>1 DEF Removed
  <2> QED BY <2>1 DEF Removed
<1>6. ASSUME NEW i \in 1..(n - 1) PROVE Removed(s, n, j)[i] = (a \o b)[i]
  <2>1. CASE i < j
    BY <1>2, <1>4, <1>5, <2>1
  <2>2. CASE ~(i < j)
    <3>1. i - (j - 1) \in 1..(n - j) /\ j + (i - (j - 1)) = i + 1
      BY <2>2
    <3> QED BY <1>3, <1>4, <1>5, <2>2, <3>1
  <2> QED BY <2>1, <2>2
<1>7. Removed(s, n, j) = a \o b
  BY <1>4, <1>5, <1>6, SeqEqual
<1>8. Order!RemoveAt(s, j) = a \o b
  BY DEF Order!RemoveAt, a, b
<1> QED
  BY <1>5, <1>7, <1>8

\* As many keys as places.
LEMMA SizeOfLines ==
    ASSUME NEW S, NEW n \in Nat, NEW s, Lines(S, n, s)
    PROVE  Cardinality(S) = n
<1>1. s \in Bijection(1..n, S)
  BY DEF Lines, Bijection, Injection, Surjection, IsInjective
<1> QED
  BY <1>1, FS_CountingElements DEF ExistsBijection

\* A set of natural numbers that is not empty has a least element.
LEMMA SmallestExists ==
    ASSUME NEW S \in SUBSET Nat, S # {}
    PROVE  \E n \in S : \A m \in S : n <= m
<1> DEFINE R == OpToRel(<, Nat)
<1>1. \A x, y \in Nat : x < y => <<x, y>> \in R
  BY DEF OpToRel
<1>2. IsWellFoundedOn(R, Nat)
  BY NatLessThanWellFounded
<1> HIDE DEF R
<1>3. PICK n \in S : \A m \in S : ~ (<<m, n>> \in R)
  BY <1>2, WFMin
<1>4. \A m \in S : n <= m
  <2> TAKE m \in S
  <2>1. m \in Nat /\ n \in Nat
    OBVIOUS
  <2>2. ~(m < n)
    BY <1>1, <1>3, <2>1, Zenon
  <2> QED BY <2>1, <2>2
<1> QED BY <1>4

\* The list L read from its head, as At reads `list`.
Walk(L) ==
    CHOOSE g : g = [n \in 1..Cardinality(Keys) |->
                       IF n = 1 THEN L.head
                       ELSE IF g[n - 1] = Nil THEN Nil ELSE L.next[g[n - 1]]]

\* A reading of a sound list is its sequence, and Nil after that.
LEMMA WalkIsSequence ==
    ASSUME NEW S \in SUBSET Keys, NEW L, NEW n \in Nat, NEW s, Linked(L, S, n, s)
    PROVE  \A i \in 1..n : i \in 1..Cardinality(Keys) /\ Walk(L)[i] = s[i]
<1> DEFINE N == Cardinality(Keys)
           f == [i \in 1..N |-> IF i <= n THEN s[i] ELSE Nil]
           Step(g) == [i \in 1..N |-> IF i = 1 THEN L.head
                                      ELSE IF g[i - 1] = Nil THEN Nil ELSE L.next[g[i - 1]]]
<1>1. /\ N \in Nat
      /\ s \in [1..n -> S] /\ \A i \in 1..n : s[i] \in S /\ s[i] # Nil
      /\ \A i, h \in 1..n : s[i] = s[h] => i = h
  BY CacheAssumption, FS_CardinalityType DEF Linked, Lines
<1>2. n <= N
  BY SizeOfLines, FS_Subset, CacheAssumption DEF Linked
<1>3. f = Step(f)
  <2>1. ASSUME NEW i \in 1..N PROVE f[i] = Step(f)[i]
    <3>1. CASE i = 1
      BY <1>1, <3>1 DEF Linked
    <3>2. CASE i # 1 /\ i <= n
      <4>1. i - 1 \in 1..n /\ i - 1 \in 1..N /\ i - 1 # n
        BY <1>1, <1>2, <3>2
      <4>2. f[i - 1] = s[i - 1] /\ f[i - 1] # Nil /\ f[i] = s[i]
        BY <1>1, <3>2, <4>1
      <4>3. L.next[s[i - 1]] = s[i]
        <5>1. L.next[s[i - 1]] = s[(i - 1) + 1]
          BY <4>1 DEF Linked
        <5> QED BY <5>1
      <4> QED BY <3>2, <4>2, <4>3
    <3>3. CASE i # 1 /\ i > n
      <4>1. i - 1 \in 1..N /\ f[i] = Nil
        BY <1>1, <3>3
      <4>2. CASE i - 1 = n
        <5>1. n \in 1..n /\ f[i - 1] = s[n] /\ L.next[s[n]] = Nil
          BY <1>1, <3>3, <4>1, <4>2 DEF Linked
        <5> QED BY <1>1, <3>3, <4>1, <5>1
      <4>3. CASE i - 1 > n
        BY <1>1, <3>3, <4>1, <4>3
      <4> QED BY <1>1, <3>3, <4>2, <4>3
    <3> QED BY <1>1, <3>1, <3>2, <3>3
  <2> HIDE DEF N
  <2> QED BY <2>1
<1>4. Walk(L) = Step(Walk(L))
  <2>1. Walk(L) = CHOOSE g : g = Step(g)
    BY DEF Walk
  <2> HIDE DEF Step, f
  <2> QED BY <1>3, <2>1
<1>5. \A i \in 1..N : Walk(L)[i] = f[i]
  <2> DEFINE Bad == {i \in 1..N : Walk(L)[i] # f[i]}
  <2> SUFFICES ASSUME Bad # {} PROVE FALSE
    OBVIOUS
  <2>1. Bad \in SUBSET Nat
    OBVIOUS
  <2>2. PICK i \in Bad : \A h \in Bad : i <= h
    BY <2>1, SmallestExists
  <2>3. i \in 1..N /\ Walk(L)[i] = Step(Walk(L))[i] /\ f[i] = Step(f)[i]
    <3> HIDE DEF Step, f
    <3> QED BY <1>3, <1>4
  <2>4. i # 1
    BY <2>2, <2>3
  <2>5. i - 1 \in 1..N /\ i - 1 \notin Bad
    BY <1>1, <2>2, <2>3, <2>4
  <2>6. Walk(L)[i - 1] = f[i - 1]
    BY <2>5
  <2>7. Step(Walk(L))[i] = Step(f)[i]
    <3> HIDE DEF f
    <3> QED BY <2>3, <2>6
  <2> QED
    BY <2>2, <2>3, <2>7
<1> QED
  BY <1>1, <1>2, <1>5

\* The recency that the refinement gives to the abstract specification.
Reads(L, S) == [i \in 1..Cardinality(S) |-> Walk(L)[i]]

\* Walking the list reads the sequence it lays out.
LEMMA ReadsIsSequence ==
    ASSUME NEW S \in SUBSET Keys, NEW L, NEW n \in Nat, NEW s, Linked(L, S, n, s)
    PROVE  Reads(L, S) = s
<1>0. Lines(S, n, s)
  BY DEF Linked
<1>1. Cardinality(S) = n /\ s \in [1..n -> S]
  BY <1>0, SizeOfLines DEF Lines
<1>2. Reads(L, S) = [i \in 1..n |-> s[i]]
  BY <1>1, WalkIsSequence DEF Reads
<1> QED BY <1>1, <1>2

\* The order that LruCache shows is that of its list.
LEMMA RecencyIsRead ==
    /\ [n \in 1..Cardinality(store) |-> At[n]] = Reads(list, store)
    /\ [n \in 1..Cardinality(store) |-> At[n]]' = Reads(list', store')
<1>1. At = Walk(list) /\ At' = Walk(list')
  BY DEF At, Walk
<1> QED BY <1>1 DEF Reads

\* The key used last is cached, unless it has been dropped.
OInv == IInv /\ (used # Nil => used \in store)

\* A sound list is the layout of some sequence.
LEMMA ListIsLinked ==
    ASSUME IInv
    PROVE  \E n \in Nat : \E s : /\ Linked(list, store, n, s)
                                 /\ Reads(list, store) = s
                                 /\ s \in Seq(store) /\ Len(s) = n /\ DOMAIN s = 1..n
                                 /\ Cardinality(store) = n
<1>1. PICK n \in Nat : \E s : Linked(list, store, n, s)
  BY DEF IInv, Sound
<1>2. PICK s : Linked(list, store, n, s)
  BY <1>1
<1>3. store \in SUBSET Keys
  BY DEF IInv, TypeOK
<1>4. Lines(store, n, s)
  BY <1>2 DEF Linked
<1>5. Reads(list, store) = s
  BY <1>2, <1>3, ReadsIsSequence
<1>6. s \in Seq(store) /\ Len(s) = n /\ DOMAIN s = 1..n /\ Cardinality(store) = n
  BY <1>4, LinesIsSeq, SizeOfLines
<1> QED
  BY <1>2, <1>5, <1>6

\* Moving a node to the front is a touch of its key.
LEMMA TouchRefines ==
    ASSUME IInv, NEW k \in store, store' = store, list' = MoveToFront(list, k), used' = k
    PROVE  Order!Touch(k)
<1>1. PICK n, s : /\ n \in Nat /\ Linked(list, store, n, s) /\ Reads(list, store) = s
                 /\ s \in Seq(store) /\ Len(s) = n /\ DOMAIN s = 1..n
  BY ListIsLinked
<1>2. PICK j \in 1..n : s[j] = k
  BY <1>1 DEF Linked, Lines
<1>3. store \in SUBSET Keys
  BY DEF IInv, TypeOK
<1>4. Linked(list', store', n, Consed(Removed(s, n, j), n - 1, k))
  BY <1>1, <1>2, <1>3, MoveToFrontLinked
<1>5. Reads(list', store') = Consed(Removed(s, n, j), n - 1, k)
  BY <1>1, <1>3, <1>4, ReadsIsSequence
<1>6. Consed(Removed(s, n, j), n - 1, k) = <<k>> \o Order!RemoveAt(s, j)
  <2> DEFINE r == Removed(s, n, j)
  <2>1. n - 1 \in Nat
    BY <1>1, <1>2
  <2>2. r \in Seq(store) /\ Len(r) = n - 1 /\ r = Order!RemoveAt(s, j)
    BY <1>1, RemovedIsRemoveAt
  <2> HIDE DEF r
  <2>3. Consed(r, n - 1, k) = <<k>> \o r
    BY <2>1, <2>2, ConsedIsConcat
  <2> QED BY <2>2, <2>3 DEF r
<1>7. /\ [i \in 1..Cardinality(store) |-> At[i]] = s
      /\ [i \in 1..Cardinality(store) |-> At[i]]' = <<k>> \o Order!RemoveAt(s, j)
  BY <1>1, <1>5, <1>6, RecencyIsRead
<1> QED
  BY <1>1, <1>2, <1>7 DEF Order!Touch

\* Removing a node drops its key.
LEMMA DropRefines ==
    ASSUME IInv, NEW k \in store, RemoveEntry(k)
    PROVE  Order!Drop(k)
<1>1. PICK n, s : /\ n \in Nat /\ Linked(list, store, n, s) /\ Reads(list, store) = s
                 /\ s \in Seq(store) /\ Len(s) = n /\ DOMAIN s = 1..n
  BY ListIsLinked
<1>2. PICK j \in 1..n : s[j] = k
  BY <1>1 DEF Linked, Lines
<1>3. store \in SUBSET Keys
  BY DEF IInv, TypeOK
<1>4. Linked(list', store', n - 1, Removed(s, n, j)) /\ n - 1 \in Nat /\ store' \in SUBSET Keys
  <2>1. Linked(RemoveFromAccessOrder(list, k), store \ {k}, n - 1, Removed(s, n, j))
    BY <1>1, <1>2, <1>3, RemoveFromAccessOrderLinked
  <2>2. list' = RemoveFromAccessOrder(list, k) /\ store' = store \ {k}
    BY DEF RemoveEntry
  <2> QED BY <1>1, <1>2, <1>3, <2>1, <2>2
<1>5. Reads(list', store') = Removed(s, n, j)
  BY <1>4, ReadsIsSequence
<1>6. Removed(s, n, j) = Order!RemoveAt(s, j)
  BY <1>1, RemovedIsRemoveAt
<1>7. used' = IF used = k THEN Nil ELSE used
  BY DEF RemoveEntry
<1> QED
  BY <1>1, <1>2, <1>5, <1>6, <1>7, RecencyIsRead DEF Order!Drop

\* The victim of an eviction is the last of the order.
LEMMA InsertRefines ==
    ASSUME IInv, NEW k \in Keys, SetNew(k) \/ SetEvicting(k)
    PROVE  Order!Insert(k)
<1>1. PICK n, s : /\ n \in Nat /\ Linked(list, store, n, s) /\ Reads(list, store) = s
                 /\ s \in Seq(store) /\ Len(s) = n /\ DOMAIN s = 1..n
                          /\ Cardinality(store) = n
  BY ListIsLinked
<1>2. store \in SUBSET Keys /\ k \notin store /\ used' = k /\ s \in Seq(Keys)
  BY <1>1 DEF IInv, TypeOK, SetNew, SetEvicting
<1>3. k \notin Order!ToSet(s)
  BY <1>1, <1>2 DEF Order!ToSet, Linked, Lines
<1>4. CASE SetNew(k)
  <2>1. Linked(list', store', n + 1, Consed(s, n, k)) /\ n + 1 \in Nat /\ store' \in SUBSET Keys
    BY <1>1, <1>2, <1>4, AddToFrontLinked DEF SetNew
  <2>2. Reads(list', store') = <<k>> \o s
    BY <1>1, <1>2, <2>1, ReadsIsSequence, ConsedIsConcat
  <2>3. n < MaxSize
    BY <1>1, <1>4, CacheAssumption DEF SetNew, Full
  <2> QED
    BY <1>1, <1>2, <1>3, <2>2, <2>3, RecencyIsRead DEF Order!Insert
<1>5. CASE SetEvicting(k)
  <2> DEFINE rest == store \ {list.tail}
             r == Removed(s, n, n)
  <2>1. n = MaxSize /\ n \in 1..n
    BY <1>1, <1>5, CacheAssumption DEF SetEvicting, Full, IInv, SizeBounded
  <2>2. list.tail = s[n]
    BY <1>1, <2>1 DEF Linked
  <2>3. Linked(RemoveFromAccessOrder(list, list.tail), rest, n - 1, r)
    BY <1>1, <1>2, <2>1, <2>2, RemoveFromAccessOrderLinked
  <2>4. rest \in SUBSET Keys /\ k \in Keys \ rest /\ n - 1 \in Nat /\ (n - 1) + 1 \in Nat
        /\ rest \union {k} \in SUBSET Keys
    BY <1>2, <2>1
  <2>5. list' = AddToFront(RemoveFromAccessOrder(list, list.tail), k) /\ store' = rest \union {k}
    BY <1>5 DEF SetEvicting
  <2>6. Linked(list', store', (n - 1) + 1, Consed(r, n - 1, k))
    <3> HIDE DEF rest, r
    <3> QED BY <2>3, <2>4, <2>5, AddToFrontLinked
  <2>7. Reads(list', store') = Consed(r, n - 1, k)
    <3> HIDE DEF rest, r
    <3> QED BY <2>4, <2>5, <2>6, ReadsIsSequence
  <2>8. r \in Seq(Keys) /\ Len(r) = n - 1 /\ r = Order!RemoveAt(s, n)
    BY <1>1, <1>2, <2>1, RemovedIsRemoveAt
  <2>9. Consed(r, n - 1, k) = <<k>> \o r
    <3> HIDE DEF r
    <3> QED BY <2>4, <2>8, ConsedIsConcat
  <2>10. Order!RemoveAt(s, n) = Order!Front(s)
    <3>1. SubSeq(s, n + 1, n) = << >>
      BY <1>1, SubSeqEmpty
    <3>2. SubSeq(s, 1, n - 1) \in Seq(Keys)
      BY <1>1, <1>2, <2>1
    <3> QED BY <1>1, <3>1, <3>2, ConcatEmptySeq DEF Order!RemoveAt, Order!Front
  <2>11. ~(Len(s) < MaxSize)
    BY <1>1, <2>1, CacheAssumption
  <2>12. Reads(list', store') = <<k>> \o Order!Front(s)
    BY <2>7, <2>8, <2>9, <2>10
  <2> HIDE DEF r, rest
  <2> QED
    BY <1>1, <1>2, <1>3, <2>11, <2>12, RecencyIsRead DEF Order!Insert
<1> QED BY <1>4, <1>5

\* Every method is a step of the order, or none.
LEMMA StepRefines == OInv /\ [Next]_vars => OInv' /\ [Order!Next]_Order!vars
<1> SUFFICES ASSUME OInv, [Next]_vars PROVE OInv' /\ [Order!Next]_Order!vars
  OBVIOUS
<1>1. /\ IInv /\ IInv' /\ store \subseteq Keys /\ timed \subseteq store /\ expired \subseteq timed
      /\ sweeping \subseteq expired /\ (used # Nil => used \in store)
  BY NextIInv DEF OInv, IInv, TypeOK
<1>2. ASSUME NEW k \in store, Order!Touch(k), store' = store, used' = k
      PROVE  OInv' /\ [Order!Next]_Order!vars
  BY <1>1, <1>2 DEF OInv, Order!Next
<1>3. ASSUME NEW k \in store, RemoveEntry(k) PROVE OInv' /\ [Order!Next]_Order!vars
  <2>1. Order!Drop(k)
    BY <1>1, <1>3, DropRefines
  <2>2. OInv'
    BY <1>1, <1>3 DEF OInv, RemoveEntry
  <2> QED BY <1>1, <2>1, <2>2 DEF Order!Next
<1>4. ASSUME UNCHANGED <<store, list, used>> PROVE OInv' /\ [Order!Next]_Order!vars
  <2>1. UNCHANGED Order!vars
    BY <1>4, RecencyIsRead DEF Order!vars
  <2> QED BY <1>1, <1>4, <2>1 DEF OInv
<1>5. ASSUME NEW k \in Keys, Get(k) \/ Has(k) PROVE OInv' /\ [Order!Next]_Order!vars
  <2>1. CASE k \in expired /\ RemoveEntry(k)
    BY <1>1, <1>3, <2>1
  <2>2. CASE k \in store /\ list' = MoveToFront(list, k) /\ used' = k /\ store' = store
    BY <1>1, <1>2, <2>2, TouchRefines
  <2> QED BY <1>5, <2>1, <2>2 DEF Get, Has
<1>6. ASSUME NEW k \in Keys, Delete(k) PROVE OInv' /\ [Order!Next]_Order!vars
  <2>1. CASE k \in store
    BY <1>3, <1>6, <2>1 DEF Delete
  <2>2. CASE k \notin store
    <3>1. list.nodes = store /\ used # k
      <4>1. used # k
        BY <1>1, <2>2, CacheAssumption
      <4> QED BY <1>1, <4>1 DEF IInv, Sound, Linked
    <3>2. UNCHANGED <<store, list, used>>
      BY <1>6, <2>2, <3>1 DEF Delete, RemoveEntry, RemoveFromAccessOrder
    <3> QED BY <1>4, <3>2
  <2> QED BY <2>1, <2>2
<1>7. ASSUME NEW k \in Keys, SetExisting(k) PROVE OInv' /\ [Order!Next]_Order!vars
  BY <1>1, <1>2, <1>7, TouchRefines DEF SetExisting
<1>8. ASSUME NEW k \in Keys, SetNew(k) \/ SetEvicting(k) PROVE OInv' /\ [Order!Next]_Order!vars
  <2>1. Order!Insert(k)
    BY <1>1, <1>8, InsertRefines
  <2>2. OInv'
    BY <1>1, <1>8 DEF OInv, SetNew, SetEvicting
  <2> QED BY <2>1, <2>2 DEF Order!Next
<1>9. ASSUME NEW k \in Keys, CleanNext(k) PROVE OInv' /\ [Order!Next]_Order!vars
  BY <1>1, <1>3, <1>9 DEF CleanNext
<1>10. CASE Clear
  <2>1. Reads(list', store') = << >>
    <3>1. store' = {} /\ Cardinality(store') = 0
      BY <1>10, FS_EmptySet DEF Clear
    <3> QED BY <3>1 DEF Reads
  <2>2. Order!Clear
    BY <1>10, <2>1, RecencyIsRead DEF Clear, Order!Clear
  <2> QED BY <1>1, <1>10, <2>2 DEF OInv, Clear, Order!Next
<1>11. CASE CleanExpired \/ \E k \in Keys : Expire(k)
  BY <1>4, <1>11 DEF CleanExpired, Expire
<1>12. CASE UNCHANGED vars
  BY <1>4, <1>12 DEF vars
<1> QED
  BY <1>5, <1>6, <1>7, <1>8, <1>9, <1>10, <1>11, <1>12 DEF Next, KeyNext

\* An empty list is an empty order.
LEMMA InitRefines == Init => OInv /\ Order!Init
<1> SUFFICES ASSUME Init PROVE OInv /\ Order!Init
  OBVIOUS
<1>1. OInv
  BY InitIInv DEF OInv, Init
<1>2. Reads(list, store) = << >>
  <2>1. Cardinality(store) = 0
    BY FS_EmptySet DEF Init
  <2> QED BY <2>1 DEF Reads
<1> QED
  BY <1>1, <1>2, RecencyIsRead DEF Init, Order!Init

\* The linked list implements the order of last uses: reads and writes move a key
\* to the front, and the victim of an eviction is the key used least recently
\* (lru-backend.ts:163-247).
THEOREM KeepsOrder == Spec => ImplementsOrder
<1>1. Spec => []OInv
  BY InitRefines, StepRefines, PTL DEF Spec
<1> QED
  BY <1>1, InitRefines, StepRefines, PTL DEF Spec, ImplementsOrder, Order!Spec

=============================================================================
