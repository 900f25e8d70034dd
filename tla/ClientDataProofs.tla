-------------------------- MODULE ClientDataProofs --------------------------
(***************************************************************************)
(* How data, events and plugins get to clients: what holds of the data     *)
(* loader and the subscriptions of GraphQL, of the clients of Realtime, of *)
(* the log and the cursor of SyncEngine and of the state RemoteLoader      *)
(* tells, for every number of keys, clients, calls and updates. The parts  *)
(* share no state; each has an inductive invariant of its own.             *)
(***************************************************************************)
EXTENDS GraphQL, Realtime, SyncEngine, RemoteLoader, SequenceTheorems,
        FiniteSetTheorems, WellFoundedInduction, TLAPS

-----------------------------------------------------------------------------
(***************************************************************************)
(* Filtered sequences and the least of some numbers.                       *)
(***************************************************************************)

\* d is in a sequence.
In(s, d) == \E i \in DOMAIN s : s[i] = d

NothingTwice(s) == \A i, j \in DOMAIN s : i # j => s[i] # s[j]

\* A set of natural numbers that is not empty has a least element.
LEMMA SmallestExists ==
  ASSUME NEW S \in SUBSET Nat, S # {}
  PROVE  \E n \in S : \A m \in S : n <= m
<1> DEFINE R == OpToRel(<, Nat)
<1>1. \A x, y \in Nat : x < y => <<x, y>> \in R
  BY DEF OpToRel
<1>2. IsWellFoundedOn(R, Nat)
  BY NatLessThanWellFounded
<1> HIDE DEF R
<1>3. PICK n \in S : \A m \in S : ~ (<<m, n>> \in R)
  BY <1>2, WFMin
<1>4. \A m \in S : n <= m
  <2>1. TAKE m \in S
  <2>2. m \in Nat /\ n \in Nat
    OBVIOUS
  <2>3. ~ (m < n)
    BY <1>1, <1>3, <2>2, Zenon
  <2> QED
    BY <2>2, <2>3
<1> QED
  BY <1>4

\* t holds the elements of s at the indices I, in their order: g tells where
\* in s an element of t comes from.
IsKept(S, s, I, t, g) ==
    /\ t \in Seq(S) /\ g \in [1..Len(t) -> I]
    /\ \A j \in 1..Len(t) : t[j] = s[g[j]]
    /\ \A j, k \in 1..Len(t) : j < k => g[j] < g[k]
    /\ \A i \in I : \E j \in 1..Len(t) : g[j] = i

\* Counting the indices up to each of them numbers them.
Count(I) == [i \in I |-> Cardinality({x \in I : x <= i})]

Counts(I, c, m) ==
    /\ m \in Nat
    /\ c \in [I -> 1..m]
    /\ \A i, l \in I : i < l => c[i] < c[l]
    /\ \A j \in 1..m : \E i \in I : c[i] = j

LEMMA CountUpTo ==
  ASSUME NEW n \in Nat, NEW I \in SUBSET (1..n)
  PROVE  Counts(I, Count(I), Cardinality(I))
<1>0. PICK c : c = Count(I)
  OBVIOUS
<1>1. IsFiniteSet(I) /\ Cardinality(I) \in Nat
  <2>1. IsFiniteSet(1..n)
    BY FS_Interval
  <2> QED
    BY <2>1, FS_Subset, FS_CardinalityType
<1> DEFINE U(i) == {x \in I : x <= i}
<1>2. \A i \in I : IsFiniteSet(U(i)) /\ Cardinality(U(i)) \in Nat /\ Cardinality(U(i)) <= Cardinality(I)
  <2>1. TAKE i \in I
  <2>2. U(i) \in SUBSET I
    OBVIOUS
  <2> QED
    BY <1>1, <2>2, FS_Subset, FS_CardinalityType
<1>3. \A i \in I : Cardinality(U(i)) # 0
  <2>1. TAKE i \in I
  <2>2. i \in U(i)
    OBVIOUS
  <2>3. U(i) # {}
    BY <2>2
  <2> HIDE DEF U
  <2> QED
    BY <1>2, <2>3, FS_EmptySet
<1>4. \A i, l \in I : i < l => Cardinality(U(i)) < Cardinality(U(l))
  <2>1. SUFFICES ASSUME NEW i \in I, NEW l \in I, i < l
                 PROVE  Cardinality(U(i)) < Cardinality(U(l))
    OBVIOUS
  <2>0. i \in Nat /\ l \in Nat /\ \A x \in I : x \in Nat
    OBVIOUS
  <2>2. U(i) \in SUBSET U(l)
    <3>1. \A x \in I : x <= i => x <= l
      BY <2>0, <2>1
    <3> QED
      BY <3>1
  <2>3. l \in U(l) /\ l \notin U(i)
    BY <2>1
  <2>4. Cardinality(U(i)) \in Nat /\ Cardinality(U(l)) \in Nat /\ IsFiniteSet(U(l))
    BY <1>2
  <2> HIDE DEF U
  <2>5. Cardinality(U(i)) <= Cardinality(U(l)) /\ Cardinality(U(i)) # Cardinality(U(l))
    BY <2>2, <2>3, <2>4, FS_Subset
  <2> QED
    BY <2>4, <2>5
<1>5. \A i \in I : c[i] = Cardinality(U(i))
  BY <1>0 DEF Count
<1>6. c = [i \in I |-> c[i]]
  BY <1>0 DEF Count
<1> HIDE DEF U
<1>7. PICK m \in Nat : m = Cardinality(I)
  BY <1>1
<1>8. \A i \in I : c[i] \in 1..m
  BY <1>2, <1>3, <1>5, <1>7
<1>9. c \in [I -> 1..m]
  BY <1>6, <1>8
<1>10. \A i, l \in I : i < l => c[i] < c[l]
  BY <1>4, <1>5
<1>11. c \in Injection(I, 1..m)
  <2>1. \A i, l \in I : c[i] = c[l] => i = l
    <3>1. SUFFICES ASSUME NEW i \in I, NEW l \in I, c[i] = c[l] PROVE i = l
      OBVIOUS
    <3>2. c[i] \in Nat /\ ~(c[i] < c[l]) /\ ~(c[l] < c[i])
      BY <1>8, <3>1
    <3>3. i \in Nat /\ l \in Nat
      OBVIOUS
    <3> QED
      BY <1>10, <3>2, <3>3
  <2> QED
    BY <1>9, <2>1 DEF Injection, IsInjective
<1>12. c \in Surjection(I, 1..m)
  <2>1. IsFiniteSet(1..m) /\ Cardinality(1..m) = m
    BY FS_Interval
  <2> QED
    BY <1>7, <1>11, <2>1, FS_Injection
<1> QED
  BY <1>0, <1>1, <1>7, <1>9, <1>10, <1>12 DEF Surjection, Counts

LEMMA KeptIs ==
  ASSUME NEW S, NEW s \in Seq(S), NEW I \in SUBSET (1..Len(s))
  PROVE  \E g : IsKept(S, s, I, Kept(s, I), g)
<1>1. PICK n \in Nat : n = Len(s)
  OBVIOUS
<1>0. I \in SUBSET (1..n) /\ \A i \in I : i \in Nat
  BY <1>1
<1>2. PICK c : c = Count(I)
  OBVIOUS
<1>4. PICK m : m = Cardinality(I)
  OBVIOUS
<1>a. Counts(I, c, m)
  BY <1>0, <1>2, <1>4, CountUpTo
<1>3. /\ m \in Nat
      /\ c \in [I -> 1..m]
      /\ \A i, l \in I : i < l => c[i] < c[l]
      /\ \A j \in 1..m : \E i \in I : c[i] = j
  BY <1>a DEF Counts
<1> DEFINE nth(j) == CHOOSE i \in I : Cardinality({x \in I : x <= i}) = j
<1>5. \A j \in 1..m : nth(j) \in I /\ c[nth(j)] = j
  <2>1. TAKE j \in 1..m
  <2>2. \E i \in I : Cardinality({x \in I : x <= i}) = j
    BY <1>2, <1>3, <1>4 DEF Count
  <2>3. nth(j) \in I /\ Cardinality({x \in I : x <= nth(j)}) = j
    BY <2>2
  <2> QED
    BY <1>2, <2>3 DEF Count
<1>6. PICK g : g = [j \in 1..m |-> nth(j)]
  OBVIOUS
<1>7. g \in [1..m -> I] /\ \A j \in 1..m : c[g[j]] = j
  BY <1>5, <1>6
<1>8. Kept(s, I) = [j \in 1..m |-> s[g[j]]]
  BY <1>4, <1>6 DEF Kept
<1> HIDE DEF nth
<1>9. PICK t : t = Kept(s, I)
  OBVIOUS
<1>10. t \in Seq(S) /\ Len(t) = m
  <2>1. \A j \in 1..m : s[g[j]] \in S
    <3>1. TAKE j \in 1..m
    <3>2. g[j] \in 1..Len(s)
      BY <1>7
    <3> QED
      BY <3>2, ElementOfSeq
  <2>2. t \in [1..m -> S]
    BY <1>8, <1>9, <2>1
  <2> QED
    BY <1>3, <2>2
<1>11. \A j, k \in 1..m : j < k => g[j] < g[k]
  <2>1. SUFFICES ASSUME NEW j \in 1..m, NEW k \in 1..m, j < k PROVE g[j] < g[k]
    OBVIOUS
  <2>2. g[j] \in I /\ g[k] \in I /\ g[j] \in Nat /\ g[k] \in Nat
    BY <1>0, <1>7
  <2>3. ~(g[k] < g[j]) /\ g[j] # g[k]
    BY <1>3, <1>7, <2>1, <2>2
  <2> QED
    BY <2>2, <2>3
<1>12. \A i \in I : \E j \in 1..m : g[j] = i
  <2>1. TAKE i \in I
  <2>2. c[i] \in 1..m
    BY <1>3, <1>4
  <2>3. PICK j \in 1..m : j = c[i]
    BY <2>2
  <2>4. g[j] \in I /\ c[g[j]] = c[i]
    BY <1>7, <2>3
  <2>5. i \in Nat /\ g[j] \in Nat /\ c[i] \in Nat
    <3>1. c[i] \in Nat
      BY <2>2
    <3> QED
      BY <1>0, <2>4, <3>1
  <2>6. ~(i < g[j]) /\ ~(g[j] < i)
    BY <1>3, <2>4, <2>5
  <2> QED
    BY <2>5, <2>6
<1>13. IsKept(S, s, I, t, g)
  BY <1>7, <1>8, <1>9, <1>10, <1>11, <1>12 DEF IsKept
<1> QED
  BY <1>9, <1>13

\* t is s, of length n, without its i-th element.
IsWithout(S, s, n, i, t) ==
    /\ t \in Seq(S) /\ Len(t) = n - 1
    /\ \A j \in 1..(n - 1) : t[j] = IF j < i THEN s[j] ELSE s[j + 1]

\* What RemoveAt returns.
LEMMA RemoveAtIs ==
  ASSUME NEW S, NEW s \in Seq(S), NEW n \in Nat, n = Len(s), NEW i \in 1..n
  PROVE  IsWithout(S, s, n, i, RemoveAt(s, i))
<1>1. PICK a, b : a = SubSeq(s, 1, i - 1) /\ b = SubSeq(s, i + 1, n)
  OBVIOUS
<1>s. \A j \in 1..n : s[j] \in S
  BY ElementOfSeq
<1>2. a \in Seq(S) /\ Len(a) = i - 1 /\ \A j \in 1..(i - 1) : a[j] = s[j]
  <2>1. PICK k \in Nat : k = i - 1 /\ k <= n
    OBVIOUS
  <2>2. (\A j \in 1..k : 1 + j - 1 = j) /\ k - 1 + 1 = k /\ \A j \in 1..k : s[j] \in S
    BY <1>s, <2>1
  <2>3. a \in Seq(S) /\ Len(a) = k /\ \A j \in 1..k : a[j] = s[j]
    BY <1>1, <2>1, <2>2, SubSeqProperties
  <2> QED
    BY <2>1, <2>3
<1>3. b \in Seq(S) /\ Len(b) = n - i /\ \A j \in 1..(n - i) : b[j] = s[j + i]
  <2>1. \A j \in 1..(n - i) : (i + 1) + j - 1 = j + i
    OBVIOUS
  <2>2. n - (i + 1) + 1 = n - i /\ \A j \in (i + 1)..n : s[j] \in S
    BY <1>s
  <2> QED
    BY <1>1, <2>1, <2>2, SubSeqProperties
<1>4. PICK t : t = a \o b
  OBVIOUS
<1>5. /\ t \in Seq(S) /\ Len(t) = Len(a) + Len(b)
      /\ \A j \in 1..(Len(a) + Len(b)) : t[j] = IF j <= Len(a) THEN a[j] ELSE b[j - Len(a)]
  BY <1>2, <1>3, <1>4, ConcatProperties
<1>6. Len(a) + Len(b) = n - 1
  BY <1>2, <1>3
<1>7. ASSUME NEW j \in 1..(n - 1) PROVE t[j] = IF j < i THEN s[j] ELSE s[j + 1]
  <2>1. CASE j < i
    <3>1. j <= Len(a) /\ j \in 1..(i - 1)
      BY <1>2, <2>1
    <3> QED
      BY <1>2, <1>5, <1>6, <2>1, <3>1
  <2>2. CASE ~(j < i)
    <3>1. ~(j <= Len(a)) /\ j - Len(a) \in 1..(n - i) /\ (j - Len(a)) + i = j + 1
      BY <1>2, <2>2
    <3> QED
      BY <1>3, <1>5, <1>6, <2>2, <3>1
  <2> QED
    BY <2>1, <2>2
<1>8. RemoveAt(s, i) = t
  BY <1>1, <1>4 DEF RemoveAt
<1>9. IsWithout(S, s, n, i, t)
  BY <1>5, <1>6, <1>7 DEF IsWithout
<1> QED
  BY <1>8, <1>9

\* Without its i-th element, a sequence has its other elements, in their order.
LEMMA RemovedFromDistinct ==
  ASSUME NEW S, NEW s \in Seq(S), NothingTwice(s), NEW i \in DOMAIN s, NEW t, t = RemoveAt(s, i)
  PROVE  /\ t \in Seq(S) /\ NothingTwice(t)
         /\ \A x : In(t, x) <=> In(s, x) /\ x # s[i]
<1>1. PICK n \in Nat : n = Len(s) /\ DOMAIN s = 1..n
  BY LenProperties
<1>2. /\ t \in Seq(S) /\ Len(t) = n - 1
      /\ \A j \in 1..(n - 1) : t[j] = IF j < i THEN s[j] ELSE s[j + 1]
  <2>1. i \in 1..n
    BY <1>1
  <2>2. IsWithout(S, s, n, i, t)
    BY <1>1, <2>1, RemoveAtIs
  <2> QED
    BY <2>2 DEF IsWithout
<1>3. DOMAIN t = 1..(n - 1)
  BY <1>1, <1>2, LenProperties
<1>4. NothingTwice(t)
  <2> SUFFICES ASSUME NEW j \in DOMAIN t, NEW k \in DOMAIN t, j # k
               PROVE  t[j] # t[k]
    BY DEF NothingTwice
  <2>1. j \in 1..(n - 1) /\ k \in 1..(n - 1)
    BY <1>3
  <2>2. PICK j1, k1 : /\ j1 = (IF j < i THEN j ELSE j + 1)
                      /\ k1 = (IF k < i THEN k ELSE k + 1)
    OBVIOUS
  <2>3. j1 \in DOMAIN s /\ k1 \in DOMAIN s /\ j1 # k1
    BY <1>1, <2>1, <2>2
  <2>4. t[j] = s[j1] /\ t[k] = s[k1]
    BY <1>2, <2>1, <2>2
  <2> QED
    BY <2>3, <2>4 DEF NothingTwice
<1>5. ASSUME NEW x, In(t, x) PROVE In(s, x) /\ x # s[i]
  <2>1. PICK j \in DOMAIN t : t[j] = x
    BY <1>5 DEF In
  <2>2. PICK k : k = IF j < i THEN j ELSE j + 1
    OBVIOUS
  <2>3. k \in DOMAIN s /\ k # i
    BY <1>1, <1>3, <2>2
  <2>4. t[j] = s[k]
    BY <1>2, <1>3, <2>2
  <2> QED
    BY <2>1, <2>3, <2>4 DEF In, NothingTwice
<1>6. ASSUME NEW x, In(s, x), x # s[i] PROVE In(t, x)
  <2>1. PICK k \in DOMAIN s : s[k] = x /\ k # i
    BY <1>6 DEF In
  <2>2. PICK j : j = IF k < i THEN k ELSE k - 1
    OBVIOUS
  <2>3. j \in 1..(n - 1) /\ k = IF j < i THEN j ELSE j + 1
    BY <1>1, <2>1, <2>2
  <2>4. t[j] = s[k]
    BY <1>2, <2>3
  <2> QED
    BY <1>3, <2>1, <2>3, <2>4 DEF In
<1> QED
  BY <1>2, <1>4, <1>5, <1>6

-----------------------------------------------------------------------------
(***************************************************************************)
(* Realtime. The Map of clients follows their sockets: a client is         *)
(* registered and listened to in one step, and its listener deletes it     *)
(* when the socket closes.                                                 *)
(***************************************************************************)

\* Has says that a client is in the Map.
LEMMA HasIsIn == \A d : Has(d) <=> In(clientStates, d)
  BY DEF Has, ToSet, In

\* Map.delete.
LEMMA WithoutIs ==
  ASSUME clientStates \in Seq(Clients), NothingTwice(clientStates), NEW c, NEW t, t = Without(c)
  PROVE  /\ t \in Seq(Clients) /\ NothingTwice(t)
         /\ \A d : In(t, d) <=> In(clientStates, d) /\ d # c
<1>1. PICK s, n : s = clientStates /\ n \in Nat /\ n = Len(s) /\ DOMAIN s = 1..n
  BY LenProperties
<1>2. CASE \E i \in 1..Len(s) : s[i] = c
  <2> DEFINE I == {i \in 1..Len(s) : s[i] = c}
             m == CHOOSE x \in I : \A y \in I : x <= y
  <2>1. t = RemoveAt(s, m)
    <3>1. I # {}
      BY <1>2
    <3>2. SelectInSeq(s, LAMBDA v : v = c) = m
      BY <3>1 DEF SelectInSeq, Min
    <3> QED
      BY <1>1, <1>2, <3>2 DEF Without, RemoveFirst
  <2>2. m \in I
    <3>1. I # {} /\ I \in SUBSET Nat
      BY <1>1, <1>2
    <3>2. \E x \in I : \A y \in I : x <= y
      BY <3>1, SmallestExists
    <3> HIDE DEF I
    <3> QED
      BY <3>2
  <2>3. m \in DOMAIN s /\ s[m] = c
    BY <1>1, <2>2
  <2> HIDE DEF m
  <2> QED
    BY <1>1, <2>1, <2>3, RemovedFromDistinct
<1>3. CASE ~\E i \in 1..Len(s) : s[i] = c
  <2>1. t = s /\ ~In(s, c)
    BY <1>1, <1>3 DEF Without, RemoveFirst, In
  <2> QED
    BY <1>1, <2>1
<1> QED
  BY <1>2, <1>3

-----------------------------------------------------------------------------
SocketTypes ==
    /\ clientStates \in Seq(Clients) /\ NothingTwice(clientStates)
    /\ DOMAIN ready = Clients /\ DOMAIN handshake = Clients
    /\ listening \subseteq Clients

\* A client is registered and listened to in the same step, after which it is
\* deleted when its socket closes; one that waits for the service is neither.
ListenersAttached ==
    \A c \in Clients :
        /\ In(clientStates, c) => c \in listening
        /\ c \in listening => handshake[c] = "done"
        /\ ready[c] = "none" => handshake[c] = "none"
        /\ handshake[c] = "awaits" /\ ready[c] = "closed" => c \in early

StatesAreSockets ==
    \A c \in Clients :
        /\ In(clientStates, c) /\ ready[c] = "closed" => c \in early
        /\ ready[c] = "open" /\ c \in listening => In(clientStates, c)

SocketInv == SocketTypes /\ ListenersAttached /\ StatesAreSockets

\* A client, if any, is closed and forgotten.
LEMMA ForgetKeeps ==
  ASSUME SocketInv, NEW c, ready' = [ready EXCEPT ![c] = Closed(c)], clientStates' = Without(c),
         UNCHANGED <<handshake, listening, early>>
  PROVE  SocketInv'
<1>1. /\ clientStates' \in Seq(Clients) /\ NothingTwice(clientStates')
      /\ \A d : In(clientStates', d) <=> In(clientStates, d) /\ d # c
  BY WithoutIs DEF SocketInv, SocketTypes
<1>2. DOMAIN ready' = Clients /\ \A d \in Clients : ready'[d] = IF d = c THEN Closed(d) ELSE ready[d]
  BY DEF SocketInv, SocketTypes
<1>3. SocketTypes'
  BY <1>1, <1>2 DEF SocketInv, SocketTypes
<1>4. ListenersAttached'
  BY <1>1, <1>2 DEF SocketInv, ListenersAttached, Closed
<1>5. StatesAreSockets'
  BY <1>1, <1>2 DEF SocketInv, StatesAreSockets, Closed
<1> QED
  BY <1>3, <1>4, <1>5 DEF SocketInv

\* Sockets are being closed.
LEMMA ClosingKeeps ==
  ASSUME SocketInv, DOMAIN ready' = Clients,
         \A d \in Clients : ready'[d] = ready[d] \/ ready'[d] = Closed(d),
         DOMAIN handshake' = Clients,
         \A d \in Clients : handshake'[d] = handshake[d]
                            \/ (handshake[d] = "awaits" /\ handshake'[d] = "done"),
         UNCHANGED <<clientStates, listening, early>>
  PROVE  SocketInv'
<1>1. SocketTypes'
  BY DEF SocketInv, SocketTypes
<1>2. ListenersAttached'
  BY DEF SocketInv, ListenersAttached, Closed
<1>3. StatesAreSockets'
  BY DEF SocketInv, StatesAreSockets, Closed
<1> QED
  BY <1>1, <1>2, <1>3 DEF SocketInv

\* A client is registered and listened to.
LEMMA RegisteredKeeps ==
  ASSUME SocketInv, NEW c \in Clients, ~In(clientStates, c),
         clientStates' = Append(clientStates, c), listening' = listening \union {c},
         DOMAIN handshake' = Clients, handshake'[c] = "done",
         \A d \in Clients \ {c} : handshake'[d] = handshake[d],
         DOMAIN ready' = Clients, ready'[c] # "none", ready'[c] = "closed" => c \in early,
         \A d \in Clients \ {c} : ready'[d] = ready[d], early' = early
  PROVE  SocketInv'
<1>a. SocketTypes /\ ListenersAttached /\ StatesAreSockets
  BY DEF SocketInv
<1>1. /\ clientStates' \in Seq(Clients) /\ NothingTwice(clientStates')
      /\ \A d : In(clientStates', d) <=> In(clientStates, d) \/ d = c
  <2>1. PICK s, t : s = clientStates /\ t = Append(s, c) /\ s \in Seq(Clients)
    BY <1>a DEF SocketTypes
  <2>2. PICK n \in Nat : n = Len(s) /\ DOMAIN s = 1..n
    BY <2>1, LenProperties
  <2>3. /\ t \in Seq(Clients) /\ Len(t) = n + 1
        /\ (\A i \in 1..n : t[i] = s[i]) /\ t[n + 1] = c
    BY <2>1, <2>2, AppendProperties
  <2>4. DOMAIN t = 1..(n + 1)
    BY <2>2, <2>3, LenProperties
  <2>5. /\ \A i \in DOMAIN t : (i \in DOMAIN s /\ t[i] = s[i]) \/ (i = n + 1 /\ t[i] = c)
        /\ \A i \in DOMAIN s : i \in DOMAIN t /\ t[i] = s[i]
        /\ n + 1 \in DOMAIN t
    <3>1. /\ \A i \in 1..(n + 1) : i \in 1..n \/ i = n + 1
          /\ \A i \in 1..n : i \in 1..(n + 1)
          /\ n + 1 \in 1..(n + 1)
      OBVIOUS
    <3> QED
      BY <2>2, <2>3, <2>4, <3>1
  <2>6. NothingTwice(t)
    BY <1>a, <2>1, <2>5 DEF SocketTypes, NothingTwice, In
  <2>7. \A d : In(t, d) <=> In(s, d) \/ d = c
    <3>1. \A d : In(t, d) => In(s, d) \/ d = c
      BY <2>5 DEF In
    <3>2. \A d : In(s, d) \/ d = c => In(t, d)
      BY <2>3, <2>5 DEF In
    <3> QED
      BY <3>1, <3>2
  <2> QED
    BY <2>1, <2>3, <2>6, <2>7
<1>2. SocketTypes'
  BY <1>a, <1>1 DEF SocketTypes
<1>3. ListenersAttached'
  BY <1>a, <1>1 DEF ListenersAttached
<1>4. StatesAreSockets'
  BY <1>a, <1>1 DEF StatesAreSockets, ListenersAttached
<1> QED
  BY <1>2, <1>3, <1>4 DEF SocketInv

\* A client connects, registers, leaves or loses its session.
LEMMA ClientStepKeeps ==
  ASSUME SocketInv, NEW c \in Clients, ClientStep(c)
  PROVE  SocketInv'
<1>a. SocketTypes /\ ListenersAttached /\ StatesAreSockets
  BY DEF SocketInv
<1>1. CASE Connect(c) \/ ConnectNoToken(c)
  <2>1. ready[c] = "none" /\ UNCHANGED <<clientStates, listening, early>>
    BY <1>1 DEF Connect, ConnectNoToken
  <2>2. /\ DOMAIN ready' = Clients /\ ready'[c] \in {"open", "closing"}
        /\ \A d \in Clients \ {c} : ready'[d] = ready[d]
    BY <1>a, <1>1 DEF Connect, ConnectNoToken, SocketTypes
  <2>3. /\ DOMAIN handshake' = Clients
        /\ \A d \in Clients \ {c} : handshake'[d] = handshake[d]
    BY <1>a, <1>1 DEF Connect, ConnectNoToken, SocketTypes
  <2>4. c \notin listening /\ ~In(clientStates, c)
    BY <1>a, <2>1 DEF ListenersAttached
  <2>5. SocketTypes'
    BY <1>a, <2>1, <2>2, <2>3 DEF SocketTypes
  <2>6. ListenersAttached'
    BY <1>a, <2>1, <2>2, <2>3, <2>4 DEF ListenersAttached
  <2>7. StatesAreSockets'
    BY <1>a, <2>1, <2>2, <2>4 DEF StatesAreSockets
  <2> QED
    BY <2>5, <2>6, <2>7 DEF SocketInv
<1>2. CASE Authenticated(c)
  <2>1. /\ handshake[c] = "awaits" /\ handshake' = [handshake EXCEPT ![c] = "done"]
        /\ clientStates' = Append(clientStates, c) /\ listening' = listening \union {c}
        /\ ready' = ready /\ early' = early
    BY <1>2 DEF Authenticated
  <2>2. ~In(clientStates, c) /\ ready[c] # "none" /\ (ready[c] = "closed" => c \in early)
    BY <1>a, <2>1 DEF ListenersAttached
  <2>3. DOMAIN handshake' = Clients /\ handshake'[c] = "done"
        /\ \A d \in Clients \ {c} : handshake'[d] = handshake[d]
    BY <1>a, <2>1 DEF SocketTypes
  <2> QED
    BY <1>a, <2>1, <2>2, <2>3, RegisteredKeeps DEF SocketTypes
<1>6. CASE ConnectOpen(c)
  <2>1. ready[c] = "none" /\ early' = early
    BY <1>6 DEF ConnectOpen
  <2>2. ~In(clientStates, c)
    BY <1>a, <2>1 DEF ListenersAttached
  <2> QED
    BY <1>a, <1>6, <2>1, <2>2, RegisteredKeeps DEF ConnectOpen, SocketTypes
<1>3. CASE Rejected(c)
  <2>1. /\ handshake[c] = "awaits" /\ handshake' = [handshake EXCEPT ![c] = "done"]
        /\ ready' = [ready EXCEPT ![c] = Closed(c)] /\ UNCHANGED <<clientStates, listening, early>>
    BY <1>3 DEF Rejected
  <2>2. /\ DOMAIN ready' = Clients
        /\ \A d \in Clients : ready'[d] = ready[d] \/ ready'[d] = Closed(d)
    BY <1>a, <2>1 DEF SocketTypes
  <2>3. /\ DOMAIN handshake' = Clients
        /\ \A d \in Clients : handshake'[d] = handshake[d]
                              \/ (handshake[d] = "awaits" /\ handshake'[d] = "done")
    BY <1>a, <2>1 DEF SocketTypes
  <2> QED
    BY <2>1, <2>2, <2>3, ClosingKeeps
<1>4. CASE SocketCloses(c)
  <2>1. /\ ready[c] \in {"open", "closing"} /\ ready' = [ready EXCEPT ![c] = "closed"]
        /\ clientStates' = IF c \in listening THEN Without(c) ELSE clientStates
        /\ early' = IF handshake[c] = "awaits" THEN early \union {c} ELSE early
        /\ UNCHANGED <<handshake, listening>>
    BY <1>4 DEF SocketCloses
  <2>2. /\ clientStates' \in Seq(Clients) /\ NothingTwice(clientStates')
        /\ \A d : In(clientStates', d) <=> In(clientStates, d) /\ d # c
    <3>1. CASE c \in listening
      BY <1>a, <2>1, <3>1, WithoutIs DEF SocketTypes
    <3>2. CASE c \notin listening
      BY <1>a, <2>1, <3>2 DEF SocketTypes, ListenersAttached
    <3> QED
      BY <3>1, <3>2
  <2>3. DOMAIN ready' = Clients /\ ready'[c] = "closed" /\ \A d \in Clients \ {c} : ready'[d] = ready[d]
    BY <1>a, <2>1 DEF SocketTypes
  <2>4. SocketTypes'
    BY <1>a, <2>1, <2>2, <2>3 DEF SocketTypes
  <2>5. ListenersAttached'
    BY <1>a, <2>1, <2>2, <2>3 DEF ListenersAttached
  <2>6. StatesAreSockets'
    BY <1>a, <2>1, <2>2, <2>3 DEF StatesAreSockets
  <2> QED
    BY <2>4, <2>5, <2>6 DEF SocketInv
<1>5. CASE SessionExpires(c)
  <2>1. UNCHANGED <<ready, handshake, listening, clientStates, early>>
    BY <1>5 DEF SessionExpires, connection
  <2> QED
    BY <2>1 DEF SocketInv, SocketTypes, ListenersAttached, StatesAreSockets
<1> QED
  BY <1>1, <1>2, <1>3, <1>4, <1>5, <1>6 DEF ClientStep

\* At first nobody is connected.
LEMMA InitSocketInv == RealtimeInit => SocketInv
<1> SUFFICES ASSUME RealtimeInit PROVE SocketInv
  OBVIOUS
<1>1. <<>> \in Seq(Clients) /\ NothingTwice(<<>>) /\ \A c : ~In(<<>>, c)
  BY EmptySeq DEF NothingTwice, In
<1> QED
  BY <1>1 DEF RealtimeInit, SocketInv, SocketTypes, ListenersAttached, StatesAreSockets

\* No step of a client or of the server disturbs it.
LEMMA NextSocketInv == ASSUME SocketInv, [RealtimeNext]_realtimeVars PROVE SocketInv'
<1>1. ASSUME UNCHANGED <<ready, handshake, listening, clientStates, early>> PROVE SocketInv'
  BY <1>1 DEF SocketInv, SocketTypes, ListenersAttached, StatesAreSockets
<1>2. CASE ServerStart \/ HeartbeatFires \/ UNCHANGED realtimeVars
  BY <1>1, <1>2 DEF ServerStart, HeartbeatFires, connection, realtimeVars
<1>4. CASE ServerDestroy
  <2>1. /\ ready' = [c \in Clients |-> Closed(c)]
        /\ UNCHANGED <<handshake, clientStates, listening, early>>
    BY <1>4 DEF ServerDestroy
  <2> QED
    BY <2>1, ClosingKeeps DEF SocketInv, SocketTypes
<1>5. ASSUME NEW i \in DOMAIN heartbeats, GoOn(i) \/ VerifyFails(i) PROVE SocketInv'
  BY <1>1, <1>5 DEF GoOn, VerifyFails, connection
<1>6. ASSUME NEW i \in DOMAIN heartbeats, SessionVerified(i) PROVE SocketInv'
  <2>1. PICK c : c = heartbeats[i].awaits
    OBVIOUS
  <2>2. /\ UNCHANGED <<handshake, listening, early>>
        /\ \/ UNCHANGED <<ready, clientStates>>
           \/ ready' = [ready EXCEPT ![c] = Closed(c)] /\ clientStates' = Without(c)
    BY <1>6, <2>1 DEF SessionVerified
  <2> QED
    BY <1>1, <2>2, ForgetKeeps
<1> QED
  BY <1>2, <1>4, <1>5, <1>6, ClientStepKeeps DEF RealtimeNext

\* However handshakes, closes, heartbeats and destroy overlap: a client is in
\* the Map once, while its socket is open, and longer only if the socket closed
\* while the auth service was asked.
THEOREM ClientsAreSockets == RealtimeSpec => []StatesFollowSockets
<1>1. SocketInv => StatesFollowSockets
  <2> SUFFICES ASSUME SocketInv PROVE StatesFollowSockets
    OBVIOUS
  <2>1. \A c \in ToSet(clientStates) : In(clientStates, c) /\ c \in Clients
    <3>1. TAKE c \in ToSet(clientStates)
    <3>2. PICK i \in DOMAIN clientStates : clientStates[i] = c
      BY DEF ToSet
    <3> QED
      BY <3>2, ElementOfSeq, LenProperties DEF In, SocketInv, SocketTypes
  <2> QED
    BY <2>1, HasIsIn DEF SocketInv, SocketTypes, StatesAreSockets, NothingTwice,
                         StatesFollowSockets
<1> QED
  BY <1>1, InitSocketInv, NextSocketInv, PTL DEF RealtimeSpec

-----------------------------------------------------------------------------
(***************************************************************************)
(* Realtime: what ExpiredIsClosed rests on. A handshake that ends leaves   *)
(* its client listened to or its socket closing, and destroy closes every  *)
(* socket when it clears the interval.                                     *)
(***************************************************************************)

\* Every connected client is in the Map that the heartbeats go through, and, if
\* authentication is required, the heartbeats go on (plugin.ts:320-367, 523-544, 557-565).
OpenIsVisited ==
    \A c \in Clients : ready[c] = "open" /\ handshake[c] = "done" =>
        Has(c) /\ (auth # "off" => interval)

OpenIsListened ==
    /\ interval <=> wss = "listening" /\ auth # "off"
    /\ \A c \in Clients : ready[c] = "open" =>
           wss = "listening" /\ handshake[c] \in {"awaits", "done"}
                             /\ (handshake[c] = "done" => c \in listening)

\* Sockets that are being closed, or close, are none that a heartbeat looks for.
LEMMA ClosingListened ==
  ASSUME OpenIsListened, UNCHANGED <<auth, wss, interval, listening>>,
         \A d \in Clients : ready'[d] = "open" =>
             ready[d] = "open" /\ handshake'[d] = handshake[d]
  PROVE  OpenIsListened'
  BY DEF OpenIsListened

\* A client that connects has a listening server, one that stays a listener.
LEMMA ClientListened ==
  ASSUME SocketInv, OpenIsListened, NEW c \in Clients, ClientStep(c)
  PROVE  OpenIsListened'
<1>a. DOMAIN ready = Clients /\ DOMAIN handshake = Clients
  BY DEF SocketInv, SocketTypes
<1>1. CASE Connect(c) \/ ConnectNoToken(c)
  BY <1>a, <1>1 DEF Connect, ConnectNoToken, OpenIsListened, server
<1>2. CASE Authenticated(c)
  BY <1>a, <1>2 DEF Authenticated, OpenIsListened, server
<1>3. CASE Rejected(c)
  BY <1>a, <1>3, ClosingListened DEF Rejected, Closed, server
<1>4. CASE SocketCloses(c)
  BY <1>a, <1>4, ClosingListened DEF SocketCloses, server
<1>5. ASSUME UNCHANGED <<auth, ready, handshake, wss, interval, listening>> PROVE OpenIsListened'
  BY <1>5 DEF OpenIsListened
<1>6. CASE SessionExpires(c)
  BY <1>5, <1>6 DEF SessionExpires, connection
<1>7. CASE ConnectOpen(c)
  BY <1>a, <1>7 DEF ConnectOpen, OpenIsListened, server
<1> QED
  BY <1>1, <1>2, <1>3, <1>4, <1>6, <1>7 DEF ClientStep

\* No step leaves an open socket without its listener or without the interval.
LEMMA NextListened ==
  ASSUME SocketInv, OpenIsListened, [RealtimeNext]_realtimeVars
  PROVE  OpenIsListened'
<1>1. ASSUME UNCHANGED <<auth, ready, handshake, wss, interval, listening>> PROVE OpenIsListened'
  BY <1>1 DEF OpenIsListened
<1>2. CASE ServerStart
  BY <1>2 DEF ServerStart, connection, OpenIsListened
<1>3. CASE HeartbeatFires \/ UNCHANGED realtimeVars
  BY <1>1, <1>3 DEF HeartbeatFires, connection, realtimeVars
<1>5. CASE ServerDestroy
  <2>1. \A c \in Clients : ready'[c] # "open"
    BY <1>5 DEF ServerDestroy, Closed
  <2> QED
    BY <1>5, <2>1 DEF ServerDestroy, OpenIsListened
<1>6. ASSUME NEW i \in DOMAIN heartbeats, GoOn(i) \/ VerifyFails(i) PROVE OpenIsListened'
  BY <1>1, <1>6 DEF GoOn, VerifyFails, connection
<1>7. ASSUME NEW i \in DOMAIN heartbeats, SessionVerified(i) PROVE OpenIsListened'
  <2>1. PICK c : c = heartbeats[i].awaits
    OBVIOUS
  <2>2. /\ UNCHANGED <<auth, handshake, listening, wss, interval>>
        /\ ready' = ready \/ ready' = [ready EXCEPT ![c] = Closed(c)]
    BY <1>7, <2>1 DEF SessionVerified
  <2>3. \A d \in Clients : ready'[d] = "open" => ready[d] = "open"
    BY <2>2 DEF Closed, SocketInv, SocketTypes
  <2> QED
    BY <2>2, <2>3, ClosingListened
<1> QED
  BY <1>2, <1>3, <1>5, <1>6, <1>7, ClientListened DEF RealtimeNext

\* Whatever handshakes, closes, heartbeats and destroy overlap, and whoever
\* authenticates: no open socket escapes the heartbeats.
THEOREM NoSocketEscapes == RealtimeSpec => []OpenIsVisited
<1>1. RealtimeInit => OpenIsListened
  BY DEF RealtimeInit, OpenIsListened
<1>2. SocketInv /\ OpenIsListened => OpenIsVisited
  BY HasIsIn DEF OpenIsListened, OpenIsVisited, SocketInv, StatesAreSockets
<1>3. SocketInv /\ OpenIsListened /\ [RealtimeNext]_realtimeVars => OpenIsListened'
  BY NextListened
<1> QED
  BY <1>1, <1>2, <1>3, InitSocketInv, NextSocketInv, PTL DEF RealtimeSpec

-----------------------------------------------------------------------------
(***************************************************************************)
(* SyncEngine, pushing. Every mutation waits in the log or was accepted,   *)
(* ids rise in the log and in a batch, and what a batch on its way skips   *)
(* was accepted; so what the server takes of one for the first time are    *)
(* the numbers that follow those it has.                                   *)
(***************************************************************************)

Mutation == [id : Nat, synced : BOOLEAN]

PushCall == [at : {"done", "sent", "answered"}, batch : Seq(Nat), synced : SUBSET Nat,
             conflicts : Seq(Nat)]

IdsRise(entries) == \A i, j \in DOMAIN entries : i < j => entries[i].id < entries[j].id

\* m waits in the log to be sent.
Pending(entries, m) == \E i \in DOMAIN entries : ~entries[i].synced /\ entries[i].id = m

LogTrue(entries, n, a) ==
    /\ entries \in Seq(Mutation) /\ IdsRise(entries)
    /\ \A i \in DOMAIN entries : entries[i].id \in 1..n
    /\ \A m \in 1..n : m \in a \/ Pending(entries, m)

\* A batch rises, and what it skips was accepted.
InTurn(b, a) ==
    /\ \A i, j \in DOMAIN b : i < j => b[i] < b[j]
    /\ \A i \in DOMAIN b : b[i] # 0 /\ \A m \in 1..b[i] : m \in a \/ In(b, m)

CallTrue(c, a) ==
    /\ c.at = "sent" => InTurn(c.batch, a)
    /\ c.at = "answered" => c.synced \subseteq a

ServerTrue(s, a) ==
    /\ s \in Seq(Nat) /\ \A i \in DOMAIN s : s[i] = i
    /\ a \subseteq 1..Len(s)

PushInv ==
    /\ created \in Nat
    /\ LogTrue(log, created, accepted)
    /\ ServerTrue(received, accepted)
    /\ pushes \in Seq(PushCall)
    /\ \A p \in DOMAIN pushes : CallTrue(pushes[p], accepted)

pushVars == <<log, pushes, created, received, accepted>>

\* The unsynced part of a true log, in its order.
LEMMA UnsyncedPart ==
  ASSUME NEW entries, NEW n \in Nat, NEW a, LogTrue(entries, n, a)
  PROVE  /\ LogTrue(Unsynced(entries), n, a)
         /\ Ids(Unsynced(entries)) \in Seq(Nat) /\ InTurn(Ids(Unsynced(entries)), a)
         /\ \A m \in 1..n : m \in a \/ In(Ids(Unsynced(entries)), m)
<1> USE DEF LogTrue
<1>1. PICK I : I = {i \in DOMAIN entries : ~entries[i].synced}
  OBVIOUS
<1>2. I \in SUBSET (1..Len(entries)) /\ DOMAIN entries = 1..Len(entries)
  BY <1>1
<1>3. PICK t : t = Unsynced(entries)
  OBVIOUS
<1>4. t = Kept(entries, I)
  BY <1>1, <1>3 DEF Unsynced
<1>5. PICK g : IsKept(Mutation, entries, I, t, g)
  BY <1>2, <1>4, KeptIs
<1>6. /\ t \in Seq(Mutation) /\ g \in [1..Len(t) -> I] /\ DOMAIN t = 1..Len(t)
      /\ \A j \in 1..Len(t) : t[j] = entries[g[j]]
      /\ \A j, k \in 1..Len(t) : j < k => g[j] < g[k]
      /\ \A i \in I : \E j \in 1..Len(t) : g[j] = i
  BY <1>5 DEF IsKept
<1>7. \A j \in 1..Len(t) : g[j] \in DOMAIN entries /\ ~entries[g[j]].synced
  BY <1>1, <1>6
<1>8. IdsRise(t)
  BY <1>6, <1>7 DEF IdsRise
<1>9. \A j \in 1..Len(t) : t[j].id \in 1..n /\ ~t[j].synced
  BY <1>6, <1>7
<1>10. \A m \in 1..n : m \in a \/ \E j \in 1..Len(t) : t[j].id = m
  <2>1. SUFFICES ASSUME NEW m \in 1..n, m \notin a PROVE \E j \in 1..Len(t) : t[j].id = m
    OBVIOUS
  <2>2. PICK i \in DOMAIN entries : ~entries[i].synced /\ entries[i].id = m
    BY <2>1 DEF Pending
  <2>3. PICK j \in 1..Len(t) : g[j] = i
    BY <1>1, <1>6, <2>2
  <2> QED
    BY <1>6, <2>2, <2>3
<1>11. LogTrue(t, n, a)
  BY <1>6, <1>8, <1>9, <1>10 DEF Pending
<1>12. PICK b : b = Ids(t)
  OBVIOUS
<1>13. b = [j \in 1..Len(t) |-> t[j].id] /\ \A j \in 1..Len(t) : t[j].id \in Nat
  BY <1>6, <1>9, <1>12 DEF Ids
<1>14. Len(t) \in Nat
  BY <1>6
<1>15. b \in Seq(Nat) /\ DOMAIN b = 1..Len(t) /\ \A j \in 1..Len(t) : b[j] = t[j].id
  BY <1>13, <1>14
<1>16. \A m \in 1..n : m \in a \/ In(b, m)
  BY <1>10, <1>15 DEF In
<1>17. InTurn(b, a)
  <2>1. \A i, j \in 1..Len(t) : i < j => t[i].id < t[j].id
    BY <1>6, <1>8 DEF IdsRise
  <2>4. \A i, j \in DOMAIN b : i < j => b[i] < b[j]
    BY <1>15, <2>1
  <2>2. \A i \in DOMAIN b : b[i] \in 1..n
    BY <1>9, <1>15
  <2>3. \A i \in DOMAIN b : b[i] # 0 /\ \A m \in 1..b[i] : m \in 1..n
    BY <2>2
  <2> QED
    BY <1>16, <2>3, <2>4 DEF InTurn
<1> QED
  BY <1>3, <1>11, <1>12, <1>15, <1>16, <1>17

\* What the server takes of a batch for the first time is next in turn.
LEMMA TakenInTurn ==
  ASSUME NEW s, NEW a, ServerTrue(s, a), NEW b \in Seq(Nat), InTurn(b, a),
         NEW synced \in SUBSET ToSet(b)
  PROVE  ServerTrue(s \o Kept(b, {i \in DOMAIN b : b[i] \notin ToSet(s)}),
                    a \union synced)
<1> USE DEF ServerTrue
<1>1. PICK I : I = {i \in DOMAIN b : b[i] \notin ToSet(s)}
  OBVIOUS
<1>2. I \in SUBSET (1..Len(b)) /\ DOMAIN b = 1..Len(b)
  BY <1>1
<1>3. PICK t : t = Kept(b, I)
  OBVIOUS
<1>4. PICK g : IsKept(Nat, b, I, t, g)
  BY <1>2, <1>3, KeptIs
<1>5. /\ t \in Seq(Nat) /\ g \in [1..Len(t) -> I] /\ DOMAIN t = 1..Len(t)
      /\ \A j \in 1..Len(t) : t[j] = b[g[j]]
      /\ \A j, k \in 1..Len(t) : j < k => g[j] < g[k]
      /\ \A i \in I : \E j \in 1..Len(t) : g[j] = i
  BY <1>4 DEF IsKept
<1>6. PICK n \in Nat : n = Len(s)
  OBVIOUS
<1>7. ToSet(s) = 1..n
  BY <1>6 DEF ToSet
<1>8. \A i \in DOMAIN b : b[i] \in Nat /\ b[i] # 0 /\ (i \in I <=> b[i] > n)
  <2>1. TAKE i \in DOMAIN b
  <2>2. b[i] \in Nat /\ b[i] # 0
    BY <1>2 DEF InTurn
  <2> QED
    BY <1>1, <1>7, <2>2
<1>9. \A j \in 1..Len(t) : g[j] \in DOMAIN b /\ g[j] \in I /\ t[j] \in Nat /\ t[j] > n
  BY <1>2, <1>5, <1>8
<1>10. \A j, k \in 1..Len(t) : j < k => t[j] < t[k]
  BY <1>5, <1>9 DEF InTurn
<1>11. \A j \in 1..Len(t) : \A m \in (n+1)..t[j] : \E k \in 1..Len(t) : t[k] = m
  <2>1. TAKE j \in 1..Len(t)
  <2>2. TAKE m \in (n+1)..t[j]
  <2>3. m \in 1..b[g[j]] /\ m > n
    BY <1>5, <1>9
  <2>4. m \notin a
    BY <1>6, <2>3
  <2>5. PICK l \in DOMAIN b : b[l] = m
    BY <1>9, <2>3, <2>4 DEF InTurn, In
  <2>6. PICK k \in 1..Len(t) : g[k] = l
    BY <1>5, <1>8, <2>3, <2>5
  <2> QED
    BY <1>5, <2>5, <2>6
<1>12. \A j \in 1..Len(t) : t[j] = n + j
  <2> DEFINE Off == {j \in 1..Len(t) : t[j] # n + j}
  <2>1. SUFFICES ASSUME Off # {} PROVE FALSE
    OBVIOUS
  <2>2. Off \in SUBSET Nat
    OBVIOUS
  <2>3. PICK j \in Off : \A k \in Off : j <= k
    BY <2>1, <2>2, SmallestExists
  <2>4. j \in 1..Len(t) /\ t[j] # n + j /\ t[j] \in Nat /\ t[j] > n /\ Len(t) \in Nat
    BY <1>5, <1>9, <2>3
  <2>5. \A k \in 1..Len(t) : k < j => t[k] = n + k
    BY <2>3, <2>4
  <2>6. CASE t[j] < n + j
    <3>1. PICK k \in Nat : t[j] = n + k
      BY <2>4
    <3>2. k \in 1..Len(t) /\ k < j
      BY <2>4, <2>6, <3>1
    <3> QED
      BY <1>10, <2>4, <2>5, <3>1, <3>2
  <2>7. CASE t[j] > n + j
    <3>1. n + j \in (n+1)..t[j]
      BY <2>4, <2>7
    <3>2. PICK k \in 1..Len(t) : t[k] = n + j
      BY <1>11, <2>4, <3>1
    <3>3. k \in Nat /\ ~(k < j) /\ k # j
      BY <2>4, <2>5, <3>2
    <3>4. t[j] < t[k]
      BY <1>10, <2>4, <3>2, <3>3
    <3> QED
      BY <2>4, <2>7, <3>2, <3>4
  <2>8. PICK x \in Nat : x = t[j]
    BY <2>4
  <2>9. PICK y \in Nat : y = n + j
    BY <2>4
  <2>10. x # y
    BY <2>4, <2>8, <2>9
  <2>11. x < y \/ x > y
    BY <2>10
  <2>12. t[j] < n + j \/ t[j] > n + j
    BY <2>8, <2>9, <2>11
  <2> QED
    BY <2>6, <2>7, <2>12
<1>13. PICK r : r = s \o t
  OBVIOUS
<1>14. r \in Seq(Nat) /\ Len(r) = n + Len(t) /\ Len(t) \in Nat /\ DOMAIN r = 1..(n + Len(t))
  BY <1>5, <1>6, <1>13
<1>15. \A i \in DOMAIN r : r[i] = i
  <2>1. TAKE i \in DOMAIN r
  <2>2. CASE i <= n
    BY <1>5, <1>6, <1>13, <1>14, <2>2
  <2>3. CASE i > n
    <3>1. r[i] = t[i - n] /\ i - n \in 1..Len(t)
      BY <1>5, <1>6, <1>13, <1>14, <2>3
    <3> QED
      BY <1>12, <1>14, <3>1
  <2> QED
    BY <1>14, <2>2, <2>3
<1>16. \A d \in synced : d \in 1..(n + Len(t))
  <2>1. TAKE d \in synced
  <2>2. PICK i \in DOMAIN b : b[i] = d
    BY DEF ToSet
  <2>3. CASE i \in I
    <3>1. PICK k \in 1..Len(t) : g[k] = i
      BY <1>5, <2>3
    <3>2. d = n + k
      BY <1>5, <1>12, <2>2, <3>1
    <3> QED
      BY <1>14, <3>2
  <2>4. CASE i \notin I
    BY <1>8, <1>14, <2>2, <2>4
  <2> QED
    BY <2>3, <2>4
<1>17. ServerTrue(r, a \union synced)
  <2>1. \A d \in a : d \in 1..(n + Len(t))
    BY <1>6, <1>14
  <2>2. a \union synced \subseteq 1..Len(r)
    BY <1>14, <1>16, <2>1
  <2> QED
    BY <1>14, <1>15, <2>2
<1> QED
  BY <1>1, <1>3, <1>13, <1>17

\* A call stays true while the server accepts more.
LEMMA CallStays ==
  ASSUME NEW c, NEW a, NEW b, a \subseteq b, CallTrue(c, a)
  PROVE  CallTrue(c, b)
<1>1. c.at = "sent" => InTurn(c.batch, b)
  BY DEF CallTrue, InTurn
<1>2. c.at = "answered" => c.synced \subseteq b
  BY DEF CallTrue
<1> QED
  BY <1>1, <1>2 DEF CallTrue

LEMMA LogStays ==
  ASSUME NEW e, NEW n, NEW a, NEW b, a \subseteq b, LogTrue(e, n, a)
  PROVE  LogTrue(e, n, b)
  BY DEF LogTrue

\* One call is replaced.
LEMMA CallReplaced ==
  ASSUME PushInv, NEW p \in DOMAIN pushes, NEW c \in PushCall, NEW a,
         accepted \subseteq a, CallTrue(c, a), NEW q, q = [pushes EXCEPT ![p] = c]
  PROVE  q \in Seq(PushCall) /\ \A o \in DOMAIN q : CallTrue(q[o], a)
<1>1. q \in Seq(PushCall) /\ DOMAIN q = DOMAIN pushes
  BY ExceptSeq DEF PushInv
<1>2. \A o \in DOMAIN q : q[o] = c \/ q[o] = pushes[o]
  BY <1>1
<1>3. \A o \in DOMAIN q : CallTrue(pushes[o], a)
  BY <1>1, CallStays DEF PushInv
<1> QED
  BY <1>1, <1>2, <1>3

LEMMA InitPushInv == Init => PushInv
  BY DEF Init, PushInv, LogTrue, ServerTrue, IdsRise

LEMMA MutationKeeps == ASSUME PushInv, PushMutation PROVE PushInv'
<1> USE DEF PushInv
<1> DEFINE e == [id |-> created + 1, synced |-> FALSE]
<1>1. /\ created' = created + 1 /\ log' = Append(log, e)
      /\ UNCHANGED <<pushes, received, accepted>>
  BY DEF PushMutation, serverVars
<1>2. e \in Mutation
  BY DEF Mutation
<1>3. log \in Seq(Mutation) /\ IdsRise(log) /\ \A i \in DOMAIN log : log[i].id \in 1..created
  BY DEF LogTrue
<1>4. /\ log' \in Seq(Mutation) /\ DOMAIN log' = 1..(Len(log) + 1) /\ Len(log) \in Nat
      /\ DOMAIN log = 1..Len(log)
      /\ log'[Len(log) + 1] = e /\ \A i \in 1..Len(log) : log'[i] = log[i]
  BY <1>1, <1>2, <1>3
<1>5. IdsRise(log')
  <2>1. SUFFICES ASSUME NEW i \in DOMAIN log', NEW j \in DOMAIN log', i < j
                 PROVE  log'[i].id < log'[j].id
    BY DEF IdsRise
  <2>2. i \in 1..Len(log) /\ log'[i].id = log[i].id /\ log[i].id \in 1..created
    BY <1>3, <1>4, <2>1
  <2>3. CASE j = Len(log) + 1
    BY <1>4, <2>2, <2>3
  <2>4. CASE j \in 1..Len(log)
    BY <1>3, <1>4, <2>1, <2>2, <2>4 DEF IdsRise
  <2> QED
    BY <1>4, <2>3, <2>4
<1>6. \A i \in DOMAIN log' : log'[i].id \in 1..created'
  <2>1. TAKE i \in DOMAIN log'
  <2>2. CASE i = Len(log) + 1
    BY <1>1, <1>4, <2>2
  <2>3. CASE i \in 1..Len(log)
    BY <1>1, <1>3, <1>4, <2>3
  <2> QED
    BY <1>4, <2>2, <2>3
<1>7. \A m \in 1..created' : m \in accepted' \/ Pending(log', m)
  <2>1. TAKE m \in 1..created'
  <2>2. CASE m = created + 1
    BY <1>4, <2>2 DEF Pending
  <2>3. CASE m \in 1..created
    <3>1. m \in accepted \/ Pending(log, m)
      BY <2>3 DEF LogTrue
    <3> QED
      BY <1>1, <1>4, <3>1 DEF Pending
  <2> QED
    BY <1>1, <2>2, <2>3
<1>8. LogTrue(log', created', accepted')
  BY <1>4, <1>5, <1>6, <1>7 DEF LogTrue
<1> QED
  BY <1>1, <1>8

LEMMA PushKeeps == ASSUME PushInv, PushToServer PROVE PushInv'
<1> USE DEF PushInv
<1>1. PICK b : b = Ids(Unsynced(log))
  OBVIOUS
<1>2. b \in Seq(Nat) /\ InTurn(b, accepted)
  BY <1>1, UnsyncedPart
<1> DEFINE c == [NoPush EXCEPT !.at = "sent", !.batch = b]
<1>3. pushes' = Append(pushes, c) /\ UNCHANGED <<log, created, received, accepted>>
  BY <1>1 DEF PushToServer, serverVars
<1>4. c \in PushCall /\ c.at = "sent" /\ c.batch = b
  <2>1. NoPush \in PushCall
    BY DEF NoPush, PushCall
  <2> QED
    BY <1>2, <2>1 DEF PushCall
<1>5. CallTrue(c, accepted)
  BY <1>2, <1>4 DEF CallTrue
<1> HIDE DEF c
<1>6. pushes' \in Seq(PushCall) /\ \A p \in DOMAIN pushes' : pushes'[p] = c \/ (p \in DOMAIN pushes /\ pushes'[p] = pushes[p])
  BY <1>3, <1>4
<1>7. \A p \in DOMAIN pushes' : CallTrue(pushes'[p], accepted')
  BY <1>3, <1>5, <1>6
<1> QED
  BY <1>3, <1>6, <1>7

LEMMA TakeKeeps == ASSUME PushInv, NEW p \in DOMAIN pushes, ServerTakes(p) PROVE PushInv'
<1> USE DEF PushInv
<1>1. PICK b : b = pushes[p].batch
  OBVIOUS
<1>2. b \in Seq(Nat) /\ InTurn(b, accepted)
  <2>1. pushes[p] \in PushCall /\ CallTrue(pushes[p], accepted) /\ pushes[p].at = "sent"
    BY DEF ServerTakes
  <2> QED
    BY <1>1, <2>1 DEF CallTrue, PushCall
<1>3. PICK synced \in SUBSET ToSet(b) :
        /\ pushes' = [pushes EXCEPT ![p] =
                [at |-> "answered", batch |-> b, synced |-> synced,
                 conflicts |-> Kept(b, {i \in DOMAIN b : b[i] \notin synced})]]
        /\ accepted' = accepted \union synced
        /\ received' = received \o Kept(b, {i \in DOMAIN b : b[i] \notin ToSet(received)})
  BY <1>1 DEF ServerTakes
<1>4. UNCHANGED <<log, created>>
  BY DEF ServerTakes
<1>5. ServerTrue(received', accepted')
  BY <1>2, <1>3, TakenInTurn
<1>6. LogTrue(log', created', accepted')
  BY <1>3, <1>4, LogStays
<1>7. PICK k : k = Kept(b, {i \in DOMAIN b : b[i] \notin synced})
  OBVIOUS
<1>8. k \in Seq(Nat)
  <2>1. PICK I : I = {i \in DOMAIN b : b[i] \notin synced}
    OBVIOUS
  <2>2. I \in SUBSET (1..Len(b)) /\ k = Kept(b, I)
    BY <1>2, <1>7, <2>1
  <2>3. \E g : IsKept(Nat, b, I, Kept(b, I), g)
    BY <1>2, <2>2, KeptIs
  <2> QED
    BY <2>2, <2>3 DEF IsKept
<1> DEFINE c == [at |-> "answered", batch |-> b, synced |-> synced, conflicts |-> k]
<1>9. c \in PushCall /\ c.at = "answered" /\ c.synced = synced
  <2>1. synced \in SUBSET Nat
    BY <1>2 DEF ToSet
  <2> QED
    BY <1>2, <1>8, <2>1 DEF PushCall
<1>10. CallTrue(c, accepted') /\ accepted \subseteq accepted'
  BY <1>3, <1>9 DEF CallTrue
<1>11. pushes' = [pushes EXCEPT ![p] = c]
  BY <1>3, <1>7
<1> HIDE DEF c
<1>12. pushes' \in Seq(PushCall) /\ \A o \in DOMAIN pushes' : CallTrue(pushes'[o], accepted')
  BY <1>9, <1>10, <1>11, CallReplaced
<1> QED
  BY <1>4, <1>5, <1>6, <1>12

LEMMA ReturnsKeep == ASSUME PushInv, NEW p \in DOMAIN pushes, PushReturns(p) PROVE PushInv'
<1> USE DEF PushInv
<1>1. pushes[p].synced \subseteq accepted
  BY DEF PushReturns, CallTrue
<1>2. /\ log' = Mark(log, pushes[p].synced) /\ pushes' = [pushes EXCEPT ![p] = NoPush]
      /\ UNCHANGED <<created, received, accepted>>
  BY DEF PushReturns, serverVars
<1>3. NoPush \in PushCall /\ CallTrue(NoPush, accepted)
  BY DEF NoPush, PushCall, CallTrue
<1>4. pushes' \in Seq(PushCall) /\ \A o \in DOMAIN pushes' : CallTrue(pushes'[o], accepted)
  BY <1>2, <1>3, CallReplaced
<1>5. PICK S : S = pushes[p].synced
  OBVIOUS
<1>6. log' = [i \in DOMAIN log |-> [log[i] EXCEPT !.synced = @ \/ log[i].id \in S]]
  BY <1>2, <1>5 DEF Mark
<1>7. log \in Seq(Mutation) /\ DOMAIN log = 1..Len(log) /\ Len(log) \in Nat /\ \A i \in DOMAIN log : log[i] \in Mutation
  BY DEF LogTrue
<1>8. \A i \in DOMAIN log : /\ log'[i] \in Mutation /\ log'[i].id = log[i].id
                            /\ log'[i].synced <=> (log[i].synced \/ log[i].id \in S)
  BY <1>6, <1>7 DEF Mutation
<1>9. log' \in Seq(Mutation) /\ DOMAIN log' = DOMAIN log
  <2>1. PICK n \in Nat : n = Len(log)
    BY <1>7
  <2>2. log' = [i \in 1..n |-> log'[i]] /\ \A i \in 1..n : log'[i] \in Mutation
    BY <1>6, <1>7, <1>8, <2>1
  <2>3. log' \in Seq(Mutation) /\ DOMAIN log' = 1..n
    BY <2>2
  <2> QED
    BY <1>7, <2>1, <2>3
<1>10. IdsRise(log') /\ \A i \in DOMAIN log' : log'[i].id \in 1..created
  BY <1>8, <1>9 DEF LogTrue, IdsRise
<1>11. \A m \in 1..created : m \in accepted \/ Pending(log', m)
  <2>1. SUFFICES ASSUME NEW m \in 1..created, m \notin accepted PROVE Pending(log', m)
    OBVIOUS
  <2>2. PICK i \in DOMAIN log : ~log[i].synced /\ log[i].id = m
    BY <2>1 DEF LogTrue, Pending
  <2>3. log[i].id \notin S
    BY <1>1, <1>5, <2>1, <2>2
  <2> QED
    BY <1>8, <1>9, <2>2, <2>3 DEF Pending
<1>12. LogTrue(log', created', accepted')
  BY <1>2, <1>9, <1>10, <1>11 DEF LogTrue
<1> QED
  BY <1>2, <1>4, <1>12

LEMMA NextPushInv == PushInv /\ [Next]_vars => PushInv'
<1> SUFFICES ASSUME PushInv, [Next]_vars PROVE PushInv'
  OBVIOUS
<1>1. CASE UNCHANGED pushVars
  BY <1>1 DEF pushVars, PushInv
<1>2. CASE PushMutation
  BY <1>2, MutationKeeps
<1>3. CASE PushToServer
  BY <1>3, PushKeeps
<1>4. CASE ClearSyncedMutations
  <2>1. log' = Unsynced(log) /\ UNCHANGED <<pushes, created, received, accepted>>
    BY <1>4 DEF ClearSyncedMutations, serverVars
  <2>2. LogTrue(Unsynced(log), created, accepted)
    BY UnsyncedPart DEF PushInv
  <2> QED
    BY <2>1, <2>2 DEF PushInv
<1>5. ASSUME NEW p \in DOMAIN pushes, ServerTakes(p) PROVE PushInv'
  BY <1>5, TakeKeeps
<1>6. ASSUME NEW p \in DOMAIN pushes, PushReturns(p) PROVE PushInv'
  BY <1>6, ReturnsKeep
<1>7. ASSUME NEW p \in DOMAIN pushes, PushFails(p) PROVE PushInv'
  <2>1. pushes' = [pushes EXCEPT ![p] = NoPush] /\ UNCHANGED <<log, created, received, accepted>>
    BY <1>7 DEF PushFails, serverVars
  <2>2. NoPush \in PushCall /\ CallTrue(NoPush, accepted)
    BY DEF NoPush, PushCall, CallTrue
  <2>3. pushes' \in Seq(PushCall) /\ \A o \in DOMAIN pushes' : CallTrue(pushes'[o], accepted)
    BY <2>1, <2>2, CallReplaced
  <2> QED
    BY <2>1, <2>3 DEF PushInv
<1>8. PullNext \/ (\E m \in 1..MaxMutations : ResolveConflict(m)) => UNCHANGED pushVars
  BY DEF PullNext, ServerChanges, PullFromServer, ServerAnswers, PullReturns, PullFails,
         ResolveConflict, serverVars, pushVars
<1>9. UNCHANGED vars => UNCHANGED pushVars
  BY DEF vars, pushVars
<1> QED
  BY <1>1, <1>2, <1>3, <1>4, <1>5, <1>6, <1>7, <1>8, <1>9 DEF Next, PushNext

\* The server gets mutations for the first time in the order they were made, and
\* one is forgotten only once it was accepted (sync-engine.ts:110-119, 179-181).
THEOREM SentInTurn == Spec => []PushedInOrder
<1>1. PushInv => PushedInOrder
  <2> SUFFICES ASSUME PushInv PROVE PushedInOrder
    OBVIOUS
  <2>1. \A m \in 1..created : m \in accepted \/ In(Ids(Unsynced(log)), m)
    BY UnsyncedPart DEF PushInv
  <2>2. \A m \in 1..created : m \in ToSet(Ids(Unsynced(log))) \union accepted
    BY <2>1 DEF In, ToSet
  <2>3. \A i \in DOMAIN received : received[i] = i
    BY DEF PushInv, ServerTrue
  <2> QED
    BY <2>2, <2>3 DEF PushedInOrder
<1> QED
  BY <1>1, InitPushInv, NextPushInv, PTL DEF Spec

-----------------------------------------------------------------------------
(***************************************************************************)
(* SyncEngine, pulling. However many pulls overlap, the cursor stays       *)
(* within what was delivered. NoChangeSkipped is strengthened by the same  *)
(* fact for the cursor every call started from, which may not be the       *)
(* cursor of now.                                                          *)
(***************************************************************************)

Pull == [at : {"done", "sent", "answered"}, from : Nat, to : Nat]

PullsTypeOK ==
    /\ cursor \in Nat
    /\ pulls \in Seq(Pull)
    /\ changes \in Nat

\* What a call started from was delivered.
StartsDelivered == \A p \in DOMAIN pulls : 1..pulls[p].from \subseteq delivered

PullInv == PullsTypeOK /\ StartsDelivered /\ NoChangeSkipped

pullVars == <<cursor, pulls, changes, delivered>>

-----------------------------------------------------------------------------
\* At first nothing was pulled.
LEMMA InitPullInv == Init => PullInv
  BY DEF Init, PullInv, PullsTypeOK, StartsDelivered, NoChangeSkipped

\* Pushing does not touch the pulls.
LEMMA PushKeepsPullVars == PushNext => UNCHANGED pullVars
  BY DEF PushNext, PushMutation, PushToServer, ServerTakes, PushReturns, PushFails,
         ResolveConflict, ClearSyncedMutations, serverVars, pullVars

\* A pull that is replaced by another one keeps the type.
LEMMA ReplacePull ==
    ASSUME NEW s \in Seq(Pull), NEW p \in DOMAIN s, NEW e \in Pull
    PROVE  [s EXCEPT ![p] = e] \in Seq(Pull) /\ DOMAIN [s EXCEPT ![p] = e] = DOMAIN s
  BY ExceptSeq

\* What a sequence of pulls holds are pulls.
LEMMA ElementIsPull ==
    ASSUME NEW s \in Seq(Pull), NEW p \in DOMAIN s
    PROVE  s[p] \in Pull /\ s[p].from \in Nat /\ s[p].to \in Nat
<1>1. s[p] \in Pull
  OBVIOUS
<1> QED BY <1>1 DEF Pull

\* A pull goes to what it was answered, from where it started.
LEMMA NextPullInv == PullInv /\ [Next]_vars => PullInv'
<1> SUFFICES ASSUME PullInv, [Next]_vars PROVE PullInv'
  OBVIOUS
<1> USE DEF PullInv, PullsTypeOK, StartsDelivered, NoChangeSkipped
<1>1. CASE UNCHANGED pullVars
  BY <1>1 DEF pullVars
<1>2. CASE ServerChanges
  BY <1>2 DEF ServerChanges
<1>3. CASE PullFromServer
  <2> DEFINE e == [at |-> "sent", from |-> cursor, to |-> cursor]
  <2>1. e \in Pull /\ pulls' = Append(pulls, e) /\ UNCHANGED <<cursor, changes, delivered>>
    BY <1>3 DEF PullFromServer, Pull, serverVars
  <2>2. pulls' \in Seq(Pull)
    BY <2>1
  <2>3. \A p \in DOMAIN pulls' : pulls'[p] = e \/ (p \in DOMAIN pulls /\ pulls'[p] = pulls[p])
    BY <2>1
  <2>4. ASSUME NEW p \in DOMAIN pulls' PROVE 1..pulls'[p].from \subseteq delivered'
    BY <2>1, <2>3
  <2> QED BY <2>1, <2>2, <2>4
<1>4. ASSUME NEW p \in DOMAIN pulls, ServerAnswers(p) PROVE PullInv'
  <2>1. PICK to \in pulls[p].from..changes :
            pulls' = [pulls EXCEPT ![p].at = "answered", ![p].to = to]
    BY <1>4 DEF ServerAnswers
  <2>2. pulls[p] \in Pull /\ pulls[p].from \in Nat /\ to \in Nat
    BY <1>4, <2>1, ElementIsPull
  <2> DEFINE e == [pulls[p] EXCEPT !.at = "answered", !.to = to]
  <2>3. e \in Pull /\ e.from = pulls[p].from /\ pulls' = [pulls EXCEPT ![p] = e]
    BY <2>1, <2>2 DEF Pull
  <2>4. pulls' \in Seq(Pull) /\ DOMAIN pulls' = DOMAIN pulls
    BY <2>3, ReplacePull
  <2>5. UNCHANGED <<cursor, changes, delivered>>
    BY <1>4 DEF ServerAnswers, serverVars
  <2>6. ASSUME NEW r \in DOMAIN pulls' PROVE 1..pulls'[r].from \subseteq delivered'
    BY <2>3, <2>4, <2>5
  <2> QED BY <2>4, <2>5, <2>6
<1>5. ASSUME NEW p \in DOMAIN pulls, PullReturns(p) PROVE PullInv'
  <2>1. /\ cursor' = pulls[p].to
        /\ delivered' = delivered \union (pulls[p].from + 1)..pulls[p].to
        /\ pulls' = [pulls EXCEPT ![p] = NoPull]
        /\ changes' = changes
    BY <1>5 DEF PullReturns, CursorAfter, serverVars
  <2>2. NoPull \in Pull /\ pulls[p].from \in Nat /\ pulls[p].to \in Nat
    BY <1>5, ElementIsPull DEF Pull, NoPull
  <2>3. pulls' \in Seq(Pull) /\ DOMAIN pulls' = DOMAIN pulls
    BY <2>1, <2>2, ReplacePull
  <2>4. ASSUME NEW i \in 1..cursor' PROVE i \in delivered'
    BY <2>1, <2>2
  <2>5. ASSUME NEW r \in DOMAIN pulls' PROVE 1..pulls'[r].from \subseteq delivered'
    <3>1. CASE r = p
      BY <2>1, <2>3, <3>1 DEF NoPull
    <3>2. CASE r # p
      BY <2>1, <2>3, <3>2
    <3> QED BY <3>1, <3>2
  <2> QED BY <2>1, <2>2, <2>3, <2>4, <2>5
<1>6. ASSUME NEW p \in DOMAIN pulls, PullFails(p) PROVE PullInv'
  <2>1. pulls' = [pulls EXCEPT ![p] = NoPull] /\ UNCHANGED <<cursor, changes, delivered>>
    BY <1>6 DEF PullFails, serverVars
  <2>2. pulls' \in Seq(Pull) /\ DOMAIN pulls' = DOMAIN pulls
    BY <2>1, ReplacePull DEF Pull, NoPull
  <2>3. ASSUME NEW r \in DOMAIN pulls' PROVE 1..pulls'[r].from \subseteq delivered'
    <3>1. CASE r = p
      BY <2>1, <2>2, <3>1 DEF NoPull
    <3>2. CASE r # p
      BY <2>1, <2>2, <3>2
    <3> QED BY <3>1, <3>2
  <2> QED BY <2>1, <2>2, <2>3
<1>7. UNCHANGED vars => UNCHANGED pullVars
  BY DEF vars, pullVars
<1> QED
  BY <1>1, <1>2, <1>3, <1>4, <1>5, <1>6, <1>7, PushKeepsPullVars DEF Next, PullNext

\* The cursor never stands after a change that no pull has handed to its caller,
\* although answers of overlapping pulls may set it back (sync-engine.ts:136-140).
THEOREM NothingSkipped == Spec => []NoChangeSkipped
<1>1. PullInv => NoChangeSkipped
  BY DEF PullInv
<1> QED
  BY <1>1, InitPullInv, NextPullInv, PTL DEF Spec

-----------------------------------------------------------------------------
(***************************************************************************)
(* RemoteLoader. The state it tells is true of the cache and of the loads  *)
(* under way, unless loads of the name overlapped.                         *)
(***************************************************************************)

LoadTypes ==
    /\ DOMAIN status = Remotes
    /\ load \in [Loads -> [at : {"none"}]
                          \union [at : {"resolver", "sleep"}, name : Remotes, attempt : Nat]]

\* Where two loads of a name are under way, or one while the name is cached,
\* they have overlapped.
OverlapsNoted ==
    \A n \in Remotes :
        /\ \A k, l \in Loading(n) : k = l \/ n \in overlapped
        /\ n \in cached /\ Loading(n) # {} => n \in overlapped

RemoteInv == LoadTypes /\ OverlapsNoted /\ StateTellsTheLoads

\* A load of n starts, and n is not cached then.
LEMMA StartKeeps ==
  ASSUME RemoteInv, NEW l \in Loads, NEW n \in Remotes, StartLoad(l, n),
         n \notin cached', \A m \in Remotes \ {n} : m \in cached' <=> m \in cached
  PROVE  RemoteInv'
<1>1. /\ load[l].at = "none"
      /\ status' = [status EXCEPT ![n] = "loading"]
      /\ load' = [load EXCEPT ![l] = [at |-> "resolver", name |-> n, attempt |-> 0]]
      /\ overlapped' = overlapped \union {m \in {n} : Loading(m) # {}}
  BY DEF StartLoad, SetStatus
<1>2. LoadTypes'
  BY <1>1 DEF RemoteInv, LoadTypes
<1>3. load'[l] = [at |-> "resolver", name |-> n, attempt |-> 0] /\ \A k \in Loads \ {l} : load'[k] = load[k]
  BY <1>1 DEF RemoteInv, LoadTypes
<1>4. Loading(n)' = Loading(n) \union {l} /\ \A m \in Remotes \ {n} : Loading(m)' = Loading(m)
  BY <1>1, <1>3 DEF Loading
<1>5. OverlapsNoted'
  BY <1>1, <1>4 DEF RemoteInv, OverlapsNoted
<1>6. status'[n] = "loading" /\ \A m \in Remotes \ {n} : status'[m] = status[m]
  BY <1>1 DEF RemoteInv, LoadTypes
<1>7. StateTellsTheLoads'
  BY <1>1, <1>4, <1>6 DEF RemoteInv, StateTellsTheLoads
<1> QED
  BY <1>2, <1>5, <1>7 DEF RemoteInv

\* A load of n ends; the name is then as s tells.
LEMMA EndKeeps ==
  ASSUME RemoteInv, NEW l \in Loads, NEW n \in Remotes, NEW s \in {"loaded", "error"},
         load[l].at # "none", load[l].name = n, load' = [load EXCEPT ![l] = NoLoad],
         SetStatus(n, s), overlapped' = overlapped,
         \/ s = "loaded" /\ cached' = cached \union {n}
         \/ s = "error" /\ cached' = cached
  PROVE  RemoteInv'
<1>1. LoadTypes'
  BY DEF RemoteInv, LoadTypes, NoLoad, SetStatus
<1>2. load'[l] = NoLoad /\ \A k \in Loads \ {l} : load'[k] = load[k]
  BY DEF RemoteInv, LoadTypes
<1>3. Loading(n)' = Loading(n) \ {l} /\ l \in Loading(n) /\ \A m \in Remotes \ {n} : Loading(m)' = Loading(m)
  BY <1>2 DEF Loading, NoLoad
<1>4. OverlapsNoted'
  BY <1>3 DEF RemoteInv, OverlapsNoted
<1>5. status'[n] = s /\ \A m \in Remotes \ {n} : status'[m] = status[m]
  BY DEF RemoteInv, LoadTypes, SetStatus
<1>6. StateTellsTheLoads'
  BY <1>3, <1>5 DEF RemoteInv, StateTellsTheLoads, OverlapsNoted
<1> QED
  BY <1>1, <1>4, <1>6 DEF RemoteInv

\* A load stays under way.
LEMMA GoesOnKeeps ==
  ASSUME RemoteInv, NEW l \in Loads, load[l].at # "none", NEW at \in {"resolver", "sleep"},
         NEW k \in Nat, load' = [load EXCEPT ![l] = [at |-> at, name |-> load[l].name, attempt |-> k]],
         UNCHANGED <<cached, status, overlapped>>
  PROVE  RemoteInv'
<1>1. load[l].name \in Remotes
  BY DEF RemoteInv, LoadTypes
<1>2. LoadTypes'
  BY <1>1 DEF RemoteInv, LoadTypes
<1>3. \A n \in Remotes : Loading(n)' = Loading(n)
  BY DEF RemoteInv, LoadTypes, Loading
<1> QED
  BY <1>2, <1>3 DEF RemoteInv, OverlapsNoted, StateTellsTheLoads

\* A name is unloaded, with or without loads of it under way.
LEMMA UnloadKeeps ==
  ASSUME RemoteInv, NEW n \in Remotes, Unload(n)
  PROVE  RemoteInv'
<1>1. /\ cached' = cached \ {n} /\ status' = [status EXCEPT ![n] = "unloaded"] /\ load' = load
      /\ overlapped' = {m \in overlapped : m # n \/ Loading(n) # {}}
  BY DEF Unload, SetStatus
<1>2. LoadTypes'
  BY <1>1 DEF RemoteInv, LoadTypes
<1>3. \A m \in Remotes : Loading(m)' = Loading(m)
  BY <1>1 DEF Loading
<1>4. OverlapsNoted'
  BY <1>1, <1>3 DEF RemoteInv, OverlapsNoted
<1>5. status'[n] = "unloaded" /\ \A m \in Remotes \ {n} : status'[m] = status[m]
  BY <1>1 DEF RemoteInv, LoadTypes
<1>6. StateTellsTheLoads'
  BY <1>1, <1>3, <1>5 DEF RemoteInv, StateTellsTheLoads
<1> QED
  BY <1>2, <1>4, <1>6 DEF RemoteInv

\* A load ends well, fails, or goes on after its delay.
LEMMA LoadStepKeeps ==
  ASSUME RemoteInv, NEW l \in Loads, Resolves(l) \/ ResolveFails(l) \/ WakesUp(l)
  PROVE  RemoteInv'
<1>1. CASE Resolves(l)
  <2>1. /\ load[l].at = "resolver" /\ cached' = cached \union {load[l].name}
        /\ SetStatus(load[l].name, "loaded") /\ load' = [load EXCEPT ![l] = NoLoad]
        /\ overlapped' = overlapped
    BY <1>1 DEF Resolves
  <2>2. load[l].name \in Remotes
    BY <2>1 DEF RemoteInv, LoadTypes
  <2> QED
    BY <2>1, <2>2, EndKeeps
<1>2. CASE ResolveFails(l) /\ load[l].attempt = RetryAttempts /\ load' = [load EXCEPT ![l] = NoLoad]
           /\ SetStatus(load[l].name, "error")
  <2>1. load[l].at = "resolver" /\ cached' = cached /\ overlapped' = overlapped
    BY <1>2 DEF ResolveFails
  <2>2. load[l].name \in Remotes
    BY <2>1 DEF RemoteInv, LoadTypes
  <2> QED
    BY <1>2, <2>1, <2>2, EndKeeps
<1>3. CASE ResolveFails(l) /\ load' = [load EXCEPT ![l].at = "sleep"] /\ UNCHANGED status
  <2>1. load[l].at = "resolver" /\ cached' = cached /\ overlapped' = overlapped
    BY <1>3 DEF ResolveFails
  <2>2. load[l].attempt \in Nat
    BY <2>1 DEF RemoteInv, LoadTypes
  <2>3. load' = [load EXCEPT ![l] = [at |-> "sleep", name |-> load[l].name, attempt |-> load[l].attempt]]
    <3>1. PICK old : old = load[l]
      OBVIOUS
    <3>2. old = [at |-> "resolver", name |-> old.name, attempt |-> old.attempt]
      BY <2>1, <3>1 DEF RemoteInv, LoadTypes
    <3>3. [old EXCEPT !.at = "sleep"] = [at |-> "sleep", name |-> old.name, attempt |-> old.attempt]
      BY <3>2
    <3>4. load' = [load EXCEPT ![l] = [old EXCEPT !.at = "sleep"]]
      BY <1>3, <3>1
    <3> QED
      BY <3>1, <3>3, <3>4
  <2> QED
    BY <1>3, <2>1, <2>2, <2>3, GoesOnKeeps
<1>4. CASE WakesUp(l)
  <2>1. /\ load[l].at = "sleep" /\ UNCHANGED <<cached, status, overlapped>>
        /\ load' = [load EXCEPT ![l].at = "resolver", ![l].attempt = @ + 1]
    BY <1>4 DEF WakesUp
  <2>2. load[l].attempt + 1 \in Nat
    BY <2>1 DEF RemoteInv, LoadTypes
  <2>3. load' = [load EXCEPT ![l] = [at |-> "resolver", name |-> load[l].name,
                                     attempt |-> load[l].attempt + 1]]
    BY <2>1 DEF RemoteInv, LoadTypes
  <2> QED
    BY <2>1, <2>2, <2>3, GoesOnKeeps
<1> QED
  BY <1>1, <1>2, <1>3, <1>4 DEF ResolveFails

\* At first nothing is cached or loaded.
LEMMA InitRemoteInv == LoaderInit => RemoteInv
  BY DEF LoaderInit, RemoteInv, LoadTypes, OverlapsNoted, StateTellsTheLoads, Loading, NoLoad

\* No step makes the state untrue.
LEMMA NextRemoteInv == ASSUME RemoteInv, [LoaderNext]_remoteVars PROVE RemoteInv'
<1>1. CASE UNCHANGED remoteVars
  BY <1>1 DEF remoteVars, RemoteInv, LoadTypes, OverlapsNoted, StateTellsTheLoads, Loading
<1>2. ASSUME NEW l \in Loads, NEW n \in Remotes, LoadRemote(l, n) PROVE RemoteInv'
  BY <1>2, StartKeeps DEF LoadRemote
<1>3. ASSUME NEW l \in Loads, NEW n \in Remotes, Reload(l, n) PROVE RemoteInv'
  BY <1>3, StartKeeps DEF Reload
<1> QED
  BY <1>1, <1>2, <1>3, LoadStepKeeps, UnloadKeeps DEF LoaderNext

\* However many loads overlap, fail and retry, the state that is told of a
\* remote is true of the cache and of the loads under way
\* (remote-loader.ts:80-164).
THEOREM StateIsTrue == LoaderSpec => []StateTellsTheLoads
<1>1. RemoteInv => StateTellsTheLoads
  BY DEF RemoteInv
<1> QED
  BY <1>1, InitRemoteInv, NextRemoteInv, PTL DEF LoaderSpec

-----------------------------------------------------------------------------
(***************************************************************************)
(* GraphQL, subscriptions. What an iterator handed out, with what it has   *)
(* queued, is the part of the published events it subscribed to.           *)
(***************************************************************************)

\* The events published from one number to another, after one more was.
LEMMA LastPublished ==
  ASSUME NEW s \in Seq(Nat), NEW e \in Nat, NEW k \in Nat, k <= Len(s)
  PROVE  SubSeq(Append(s, e), k + 1, Len(s) + 1) = Append(SubSeq(s, k + 1, Len(s)), e)
<1>1. PICK n \in Nat : n = Len(s)
  OBVIOUS
<1>2. PICK t : t = Append(s, e)
  OBVIOUS
<1>3. t \in Seq(Nat) /\ Len(t) = n + 1 /\ (\A i \in 1..n : t[i] = s[i]) /\ t[n + 1] = e
  BY <1>1, <1>2, AppendProperties
<1>4. PICK a, b : a = SubSeq(t, k + 1, n + 1) /\ b = SubSeq(s, k + 1, n)
  OBVIOUS
<1>5. a \in Seq(Nat) /\ Len(a) = n - k + 1 /\ \A i \in 1..(n - k + 1) : a[i] = t[k + i]
  <2>1. \A i \in (k + 1)..(n + 1) : t[i] \in Nat
    <3>1. \A i \in 1..(n + 1) : t[i] \in Nat
      BY <1>3, ElementOfSeq
    <3> QED
      BY <3>1
  <2>2. /\ (n + 1) - (k + 1) + 1 = n - k + 1 /\ k + 1 <= n + 1
        /\ \A i \in 1..(n - k + 1) : (k + 1) + i - 1 = k + i
    BY <1>1
  <2> QED
    BY <1>4, <2>1, <2>2, SubSeqProperties
<1>6. b \in Seq(Nat) /\ Len(b) = n - k /\ \A i \in 1..(n - k) : b[i] = s[k + i]
  <2>1. \A i \in (k + 1)..n : s[i] \in Nat
    <3>1. \A i \in 1..n : s[i] \in Nat
      BY <1>1, ElementOfSeq
    <3> QED
      BY <3>1
  <2>2. /\ n - (k + 1) + 1 = n - k /\ (k + 1 <= n \/ (~(k + 1 <= n) /\ n - k = 0))
        /\ \A i \in 1..(n - k) : (k + 1) + i - 1 = k + i
    BY <1>1
  <2> QED
    BY <1>4, <2>1, <2>2, SubSeqProperties
<1>7. PICK c : c = Append(b, e)
  OBVIOUS
<1>8. /\ c \in Seq(Nat) /\ Len(c) = n - k + 1
      /\ (\A i \in 1..(n - k) : c[i] = b[i]) /\ c[n - k + 1] = e
  BY <1>6, <1>7, AppendProperties
<1>9. \A i \in 1..(n - k + 1) : a[i] = c[i]
  <2>1. TAKE i \in 1..(n - k + 1)
  <2>2. CASE i \in 1..(n - k)
    <3>1. k + i \in 1..n
      BY <1>1, <2>2
    <3> QED
      BY <1>3, <1>5, <1>6, <1>8, <2>2, <3>1
  <2>3. CASE i = n - k + 1
    <3>1. k + i = n + 1
      BY <1>1, <2>3
    <3> QED
      BY <1>3, <1>5, <1>8, <2>3, <3>1
  <2> QED
    BY <1>1, <2>2, <2>3
<1>10. a = c
  BY <1>5, <1>8, <1>9, SeqEqual
<1> QED
  BY <1>1, <1>2, <1>4, <1>7, <1>10

\* Those up to an earlier one stay the same.
LEMMA EarlierPublished ==
  ASSUME NEW s \in Seq(Nat), NEW e \in Nat, NEW k \in Nat, NEW m \in Nat, k <= m, m <= Len(s)
  PROVE  SubSeq(Append(s, e), k + 1, m) = SubSeq(s, k + 1, m)
<1>1. PICK n \in Nat : n = Len(s)
  OBVIOUS
<1>2. PICK t : t = Append(s, e)
  OBVIOUS
<1>3. t \in Seq(Nat) /\ Len(t) = n + 1 /\ (\A i \in 1..n : t[i] = s[i])
  BY <1>1, <1>2, AppendProperties
<1>4. PICK a, b : a = SubSeq(t, k + 1, m) /\ b = SubSeq(s, k + 1, m)
  OBVIOUS
<1>5. \A i \in (k + 1)..m : s[i] \in Nat /\ t[i] \in Nat
  <2>1. \A i \in 1..n : s[i] \in Nat /\ t[i] = s[i]
    BY <1>1, <1>3, ElementOfSeq
  <2> QED
    BY <1>1, <2>1
<1>6. /\ m - (k + 1) + 1 = m - k /\ (k + 1 <= m \/ (~(k + 1 <= m) /\ m - k = 0))
      /\ \A i \in 1..(m - k) : (k + 1) + i - 1 = k + i /\ k + i \in 1..n
  BY <1>1
<1>7. a \in Seq(Nat) /\ Len(a) = m - k /\ \A i \in 1..(m - k) : a[i] = t[k + i]
  BY <1>4, <1>5, <1>6, SubSeqProperties
<1>8. b \in Seq(Nat) /\ Len(b) = m - k /\ \A i \in 1..(m - k) : b[i] = s[k + i]
  BY <1>4, <1>5, <1>6, SubSeqProperties
<1>9. \A i \in 1..(m - k) : a[i] = b[i]
  BY <1>3, <1>6, <1>7, <1>8
<1>10. a = b
  BY <1>7, <1>8, <1>9, SeqEqual
<1> QED
  BY <1>2, <1>4, <1>10

\* An event behind those that wait, and the first of them taken.
LEMMA QueuedLast ==
  ASSUME NEW g \in Seq(Nat), NEW q \in Seq(Nat), NEW e \in Nat
  PROVE  g \o Append(q, e) = Append(g \o q, e)
<1>1. PICK u : u = <<e>>
  OBVIOUS
<1>2. u \in Seq(Nat)
  BY <1>1
<1>3. PICK r : r = g \o q
  OBVIOUS
<1>4. r \in Seq(Nat)
  BY <1>3, ConcatProperties
<1>5. Append(q, e) = q \o u /\ Append(r, e) = r \o u
  BY <1>1, <1>4, AppendIsConcat
<1>6. (g \o q) \o u = g \o (q \o u)
  BY <1>2, ConcatAssociative
<1> QED
  BY <1>3, <1>5, <1>6

LEMMA FirstTaken ==
  ASSUME NEW g \in Seq(Nat), NEW q \in Seq(Nat), q # <<>>
  PROVE  /\ Head(q) \in Nat /\ Tail(q) \in Seq(Nat)
         /\ Append(g, Head(q)) \o Tail(q) = g \o q
<1>1. PICK h \in Nat, t \in Seq(Nat) : h = Head(q) /\ t = Tail(q)
  BY HeadTailProperties
<1>2. PICK u : u = <<h>>
  OBVIOUS
<1>6. u \in Seq(Nat)
  BY <1>2
<1>3. u \o t = q
  <2>1. PICK n \in Nat \ {0} : n = Len(q)
    BY EmptySeq
  <2>2. SubSeq(q, 1, n) = <<q[1]>> \o SubSeq(q, 2, n)
    <3>1. 1 \in 1..n /\ n \in 1..n /\ 1 + 1 = 2
      OBVIOUS
    <3> QED
      BY <2>1, <3>1, SubSeqRecursiveFirst
  <2>3. SubSeq(q, 1, n) = q /\ SubSeq(q, 2, n) = t
    BY <1>1, <2>1, SubSeqFull, TailIsSubSeq
  <2>4. q[1] = h
    BY <1>1
  <2> QED
    BY <1>2, <2>2, <2>3, <2>4
<1>4. Append(g, h) = g \o u
  BY <1>1, <1>2, AppendIsConcat
<1>5. (g \o u) \o t = g \o (u \o t)
  BY <1>6, ConcatAssociative
<1> QED
  BY <1>1, <1>3, <1>4, <1>5

-----------------------------------------------------------------------------
Iterator == [subscribed : BOOLEAN, waiting : BOOLEAN, queue : Seq(Nat), got : Seq(Nat),
             from : Nat, end : Int]

\* The last of the events that are for an iterator.
Until(it, s) == IF it.subscribed THEN Len(s) ELSE it.end

\* An iterator has, received or queued, the events of s that are for it.
HasEvents(it, s) ==
    /\ it \in Iterator
    /\ Until(it, s) \in Nat /\ it.from <= Until(it, s) /\ Until(it, s) <= Len(s)
    /\ it.got \o it.queue = SubSeq(s, it.from + 1, Until(it, s))
    /\ it.waiting => it.queue = <<>>

\* A new iterator has all that is for it: nothing yet.
LEMMA SubscribedHasEvents ==
  ASSUME NEW s \in Seq(Nat),
         NEW it, it = [subscribed |-> TRUE, waiting |-> FALSE, queue |-> <<>>, got |-> <<>>,
                       from |-> Len(s), end |-> None]
  PROVE  HasEvents(it, s)
<1>1. it \in Iterator /\ it.subscribed /\ ~it.waiting /\ it.queue = <<>> /\ it.got = <<>> /\ it.from = Len(s)
  BY DEF Iterator, None
<1>2. PICK n \in Nat : n = Len(s)
  OBVIOUS
<1>3. SubSeq(s, n + 1, n) = <<>>
  <2>1. n < n + 1 /\ n \in Int /\ n + 1 \in Int
    OBVIOUS
  <2> QED
    BY <2>1, SubSeqEmpty
<1>4. Until(it, s) = n
  BY <1>1, <1>2 DEF Until
<1>5. <<>> \o <<>> = <<>>
  OBVIOUS
<1>6. it.from \in Nat /\ it.from = n /\ it.got \o it.queue = <<>>
  BY <1>1, <1>2, <1>5
<1>7. SubSeq(s, it.from + 1, Until(it, s)) = <<>>
  BY <1>3, <1>4, <1>6
<1>8. Until(it, s) \in Nat /\ it.from <= Until(it, s) /\ Until(it, s) <= Len(s)
  BY <1>2, <1>4, <1>6
<1>9. it.got \o it.queue = SubSeq(s, it.from + 1, Until(it, s))
  BY <1>6, <1>7
<1>10. it \in Iterator /\ ~it.waiting
  BY <1>1
<1> QED
  BY <1>8, <1>9, <1>10 DEF HasEvents

\* Publishing gives an iterator its event, or is none of its business any more.
LEMMA PushHasEvents ==
  ASSUME NEW s \in Seq(Nat), NEW it, HasEvents(it, s), NEW e \in Nat
  PROVE  HasEvents(Push(it, e), Append(s, e))
<1>0. PICK n, t : n = Len(s) /\ t = Append(s, e)
  OBVIOUS
<1>1. n \in Nat /\ n = Len(s) /\ t \in Seq(Nat) /\ t = Append(s, e) /\ Len(t) = n + 1
  BY <1>0, AppendProperties
<1>2. PICK g \in Seq(Nat), q \in Seq(Nat), k \in Nat : g = it.got /\ q = it.queue /\ k = it.from
  BY DEF HasEvents, Iterator
<1>3. CASE ~it.subscribed
  <2>1. PICK m \in Nat : m = it.end /\ k <= m /\ m <= n /\ Until(it, s) = m /\ Until(it, t) = m
    BY <1>1, <1>2, <1>3 DEF HasEvents, Until
  <2>2. SubSeq(t, k + 1, m) = SubSeq(s, k + 1, m)
    <3>1. k \in Nat /\ m \in Nat /\ k <= m /\ m <= Len(s)
      BY <1>1, <1>2, <2>1
    <3>2. SubSeq(Append(s, e), k + 1, m) = SubSeq(s, k + 1, m)
      BY <3>1, EarlierPublished
    <3> QED
      BY <1>1, <3>2
  <2>3. Push(it, e) = it
    BY <1>3 DEF Push
  <2>4. m <= n + 1
    BY <1>1, <2>1
  <2> QED
    BY <1>1, <1>2, <2>1, <2>2, <2>3, <2>4 DEF HasEvents
<1>4. CASE it.subscribed
  <2>1. k <= n /\ g \o q = SubSeq(s, k + 1, n)
    BY <1>1, <1>2, <1>4 DEF HasEvents, Until
  <2>2. SubSeq(t, k + 1, n + 1) = Append(g \o q, e)
    <3>1. k \in Nat /\ k <= Len(s)
      BY <1>1, <1>2, <2>1
    <3>2. SubSeq(Append(s, e), k + 1, Len(s) + 1) = Append(SubSeq(s, k + 1, Len(s)), e)
      BY <3>1, LastPublished
    <3> QED
      BY <1>1, <2>1, <3>2
  <2>3. PICK i : i = Push(it, e)
    OBVIOUS
  <2>4. CASE it.waiting
    <3>1. q = <<>>
      BY <1>2, <2>4 DEF HasEvents
    <3>7. PICK g1 : g1 = Append(g, e)
      OBVIOUS
    <3>2. g1 \in Seq(Nat) /\ g1 = Append(g, e)
      BY <3>7, AppendProperties
    <3>11. PICK w \in BOOLEAN : w = FALSE
      OBVIOUS
    <3>3. i = [it EXCEPT !.got = g1, !.waiting = w]
      BY <1>2, <1>4, <2>3, <2>4, <3>2, <3>11 DEF Push
    <3>4. /\ i \in Iterator /\ i.subscribed /\ ~i.waiting /\ i.got = g1 /\ i.queue = q /\ i.from = k
      BY <1>2, <1>4, <3>2, <3>3, <3>11 DEF HasEvents, Iterator
    <3>5. g1 \o q = Append(g \o q, e)
      BY <3>1, <3>2, ConcatEmptySeq
    <3>6. Until(i, t) = n + 1
      BY <1>1, <3>4 DEF Until
    <3>8. i.got \o i.queue = SubSeq(t, i.from + 1, Until(i, t))
      BY <2>2, <3>4, <3>5, <3>6
    <3>9. Until(i, t) \in Nat /\ i.from <= Until(i, t) /\ Until(i, t) <= Len(t)
      BY <1>1, <1>2, <2>1, <3>4, <3>6
    <3>10. HasEvents(i, t)
      BY <3>4, <3>8, <3>9 DEF HasEvents
    <3> QED
      BY <1>1, <2>3, <3>10
  <2>5. CASE ~it.waiting
    <3>6. PICK q1 : q1 = Append(q, e)
      OBVIOUS
    <3>1. q1 \in Seq(Nat) /\ q1 = Append(q, e)
      BY <3>6, AppendProperties
    <3>2. i = [it EXCEPT !.queue = q1]
      BY <1>2, <1>4, <2>3, <2>5, <3>1 DEF Push
    <3>3. /\ i \in Iterator /\ i.subscribed /\ ~i.waiting /\ i.got = g /\ i.queue = q1 /\ i.from = k
      BY <1>2, <1>4, <2>5, <3>1, <3>2 DEF HasEvents, Iterator
    <3>4. g \o q1 = Append(g \o q, e)
      BY <3>1, QueuedLast
    <3>5. Until(i, t) = n + 1
      BY <1>1, <3>3 DEF Until
    <3>8. i.got \o i.queue = SubSeq(t, i.from + 1, Until(i, t))
      BY <2>2, <3>3, <3>4, <3>5
    <3>9. Until(i, t) \in Nat /\ i.from <= Until(i, t) /\ Until(i, t) <= Len(t)
      BY <1>1, <1>2, <2>1, <3>3, <3>5
    <3>10. HasEvents(i, t)
      BY <3>3, <3>8, <3>9 DEF HasEvents
    <3> QED
      BY <1>1, <2>3, <3>10
  <2> QED
    BY <2>4, <2>5
<1> QED
  BY <1>3, <1>4

\* next() takes the first event of the queue, or waits for one.
LEMMA TakeHasEvents ==
  ASSUME NEW s \in Seq(Nat), NEW it, HasEvents(it, s), ~it.waiting
  PROVE  /\ it.queue = <<>> => HasEvents([it EXCEPT !.waiting = TRUE], s)
         /\ it.queue # <<>> =>
              HasEvents([it EXCEPT !.got = Append(@, Head(it.queue)), !.queue = Tail(@)], s)
<1>1. PICK g \in Seq(Nat), q \in Seq(Nat), k \in Nat : g = it.got /\ q = it.queue /\ k = it.from
  BY DEF HasEvents, Iterator
<1>2. ASSUME q = <<>> PROVE HasEvents([it EXCEPT !.waiting = TRUE], s)
  <2>1. PICK w \in BOOLEAN : w = TRUE
    OBVIOUS
  <2>2. PICK i : i = [it EXCEPT !.waiting = w]
    OBVIOUS
  <2>3. /\ i \in Iterator /\ i.subscribed = it.subscribed /\ i.got = g /\ i.queue = q
        /\ i.from = k /\ i.end = it.end
    BY <1>1, <2>2 DEF HasEvents, Iterator
  <2>4. Until(i, s) = Until(it, s)
    BY <2>3 DEF Until
  <2>5. HasEvents(i, s)
    BY <1>1, <1>2, <2>3, <2>4 DEF HasEvents
  <2> QED
    BY <2>1, <2>2, <2>5
<1>3. ASSUME q # <<>>
      PROVE  HasEvents([it EXCEPT !.got = Append(@, Head(it.queue)), !.queue = Tail(@)], s)
  <2>0. Head(q) \in Nat /\ Tail(q) \in Seq(Nat) /\ Append(g, Head(q)) \o Tail(q) = g \o q
    BY <1>3, FirstTaken
  <2>6. Append(g, Head(q)) \in Seq(Nat)
    BY <2>0, AppendProperties
  <2>7. PICK g1, q1 : g1 = Append(g, Head(q)) /\ q1 = Tail(q)
    OBVIOUS
  <2>1. /\ g1 \in Seq(Nat) /\ q1 \in Seq(Nat) /\ g1 = Append(g, Head(q)) /\ q1 = Tail(q)
        /\ g1 \o q1 = g \o q
    BY <2>0, <2>6, <2>7
  <2>2. PICK i : i = [it EXCEPT !.got = g1, !.queue = q1]
    OBVIOUS
  <2>3. /\ i \in Iterator /\ i.subscribed = it.subscribed /\ i.got = g1 /\ i.queue = q1
        /\ i.from = k /\ i.end = it.end /\ i.waiting = it.waiting
    BY <1>1, <2>1, <2>2 DEF HasEvents, Iterator
  <2>4. Until(i, s) = Until(it, s)
    BY <2>3 DEF Until
  <2>5. HasEvents(i, s)
    BY <1>1, <2>1, <2>3, <2>4 DEF HasEvents
  <2> QED
    BY <1>1, <2>1, <2>2, <2>5
<1> QED
  BY <1>1, <1>2, <1>3

\* An iterator that is returned, or cleared away, has what was published until then.
LEMMA EndHasEvents ==
  ASSUME NEW it, HasEvents(it, published), published \in Seq(Nat)
  PROVE  HasEvents(Unsubscribed(it), published)
<1>1. CASE ~it.subscribed
  BY <1>1 DEF Unsubscribed
<1>2. CASE it.subscribed
  <2>6. PICK n \in Nat : n = Len(published)
    OBVIOUS
  <2>7. PICK w \in BOOLEAN : w = FALSE
    OBVIOUS
  <2>1. n \in Nat /\ n \in Int /\ w \in BOOLEAN /\ n = Len(published) /\ w = FALSE
    BY <2>6, <2>7
  <2>2. PICK i : i = [it EXCEPT !.subscribed = w, !.end = n]
    OBVIOUS
  <2>3. /\ i \in Iterator /\ i.subscribed = w /\ i.got = it.got /\ i.queue = it.queue
        /\ i.from = it.from /\ i.end = n /\ i.waiting = it.waiting
    BY <2>1, <2>2 DEF HasEvents, Iterator
  <2>4. Until(i, published) = n /\ Until(it, published) = n
    BY <1>2, <2>1, <2>3 DEF Until
  <2>5. HasEvents(i, published)
    BY <2>3, <2>4 DEF HasEvents
  <2> QED
    BY <1>2, <2>1, <2>2, <2>5 DEF Unsubscribed
<1> QED
  BY <1>1, <1>2

\* The iterators have their events, and events and updates are numbers.
AllHaveEvents(its, s) ==
    /\ its \in Seq(Iterator)
    /\ \A j \in 1..Len(its) : HasEvents(its[j], s)

EventsInv ==
    /\ published \in Seq(Nat) /\ writer \in Seq(Keys) /\ mutations \subseteq Nat
    /\ AllHaveEvents(iterators, published)

\* One iterator changes, or each does.
LEMMA OneChanges ==
  ASSUME NEW s, NEW its, AllHaveEvents(its, s), NEW j \in 1..Len(its),
         NEW it, HasEvents(it, s)
  PROVE  AllHaveEvents([its EXCEPT ![j] = it], s)
<1>1. its \in Seq(Iterator) /\ it \in Iterator
  BY DEF AllHaveEvents, HasEvents
<1>2. PICK c : c = [its EXCEPT ![j] = it]
  OBVIOUS
<1>3. c \in Seq(Iterator) /\ Len(c) = Len(its) /\ \A p \in 1..Len(its) : c[p] = IF p = j THEN it ELSE its[p]
  BY <1>1, <1>2, ExceptSeq
<1> QED
  BY <1>2, <1>3 DEF AllHaveEvents

LEMMA EachChanges ==
  ASSUME NEW s, NEW n \in Nat, NEW f, DOMAIN f = 1..n, f = [j \in 1..n |-> f[j]],
         \A j \in 1..n : HasEvents(f[j], s)
  PROVE  AllHaveEvents(f, s)
<1>1. f \in [1..n -> Iterator]
  BY DEF HasEvents
<1>2. f \in Seq(Iterator)
  BY <1>1, SeqDef
<1>3. Len(f) = n
  BY <1>2
<1> QED
  BY <1>2, <1>3 DEF AllHaveEvents

\* At first there are no iterators.
LEMMA InitEventsInv == GraphQLInit => EventsInv
<1>1. SUFFICES ASSUME GraphQLInit PROVE EventsInv
  OBVIOUS
<1>2. AllHaveEvents(<<>>, published)
  BY DEF AllHaveEvents
<1> QED
  BY <1>1, <1>2 DEF GraphQLInit, EventsInv

\* An event goes to every iterator.
LEMMA PublishKeeps ==
  ASSUME EventsInv, NEW e \in mutations, Publish(e)
  PROVE  EventsInv'
<1>1. e \in Nat /\ published \in Seq(Nat) /\ published' = Append(published, e)
  BY DEF EventsInv, Publish
<1>2. published' \in Seq(Nat)
  BY <1>1, AppendProperties
<1>3. iterators \in Seq(Iterator) /\ \A j \in 1..Len(iterators) : HasEvents(iterators[j], published)
  BY DEF EventsInv, AllHaveEvents
<1>4. PICK n \in Nat : n = Len(iterators) /\ DOMAIN iterators = 1..n
  BY <1>3
<1>5. iterators' = [j \in 1..n |-> Push(iterators[j], e)]
  BY <1>4 DEF Publish
<1>6. \A j \in 1..n : HasEvents(iterators'[j], published')
  <2>1. TAKE j \in 1..n
  <2>2. HasEvents(iterators[j], published)
    BY <1>3, <1>4
  <2>3. HasEvents(Push(iterators[j], e), Append(published, e))
    BY <1>1, <2>2, PushHasEvents
  <2> QED
    BY <1>1, <1>5, <2>3
<1>7. PICK f, s : f = iterators' /\ s = published'
  OBVIOUS
<1>8. /\ DOMAIN f = 1..n /\ f = [j \in 1..n |-> f[j]]
      /\ \A j \in 1..n : HasEvents(f[j], s)
  BY <1>5, <1>6, <1>7
<1>9. AllHaveEvents(f, s)
  BY <1>8, EachChanges
<1>10. writer' = writer /\ mutations' \subseteq Nat
  BY DEF Publish, EventsInv
<1> QED
  BY <1>2, <1>7, <1>9, <1>10 DEF EventsInv

\* stop() ends every iterator.
LEMMA StopKeeps ==
  ASSUME EventsInv, Stop
  PROVE  EventsInv'
<1>1. published \in Seq(Nat) /\ published' = published /\ writer' = writer /\ mutations' = mutations
  BY DEF EventsInv, Stop, mutationVars
<1>3. iterators \in Seq(Iterator) /\ \A j \in 1..Len(iterators) : HasEvents(iterators[j], published)
  BY DEF EventsInv, AllHaveEvents
<1>4. PICK n \in Nat : n = Len(iterators) /\ DOMAIN iterators = 1..n
  BY <1>3
<1>5. iterators' = [j \in 1..n |-> Unsubscribed(iterators[j])]
  BY <1>4 DEF Stop
<1>6. \A j \in 1..n : HasEvents(iterators'[j], published)
  <2>1. TAKE j \in 1..n
  <2>2. HasEvents(iterators[j], published)
    BY <1>3, <1>4
  <2>3. HasEvents(Unsubscribed(iterators[j]), published)
    BY <1>1, <2>2, EndHasEvents
  <2> QED
    BY <1>5, <2>3
<1>7. PICK f, s : f = iterators' /\ s = published
  OBVIOUS
<1>8. /\ DOMAIN f = 1..n /\ f = [j \in 1..n |-> f[j]]
      /\ \A j \in 1..n : HasEvents(f[j], s)
  BY <1>5, <1>6, <1>7
<1>9. AllHaveEvents(f, s)
  BY <1>8, EachChanges
<1> QED
  BY <1>1, <1>7, <1>9 DEF EventsInv

\* A new iterator starts after what was published.
LEMMA SubscribeKeeps ==
  ASSUME EventsInv, Subscribe
  PROVE  EventsInv'
<1>1. published \in Seq(Nat) /\ published' = published /\ writer' = writer /\ mutations' = mutations
  BY DEF EventsInv, Subscribe, mutationVars
<1>2. PICK it : it = [subscribed |-> TRUE, waiting |-> FALSE, queue |-> <<>>, got |-> <<>>,
                      from |-> Len(published), end |-> None]
  OBVIOUS
<1>3. HasEvents(it, published)
  BY <1>1, <1>2, SubscribedHasEvents
<1>4. iterators' = Append(iterators, it)
  BY <1>2 DEF Subscribe
<1>5. iterators \in Seq(Iterator) /\ it \in Iterator
      /\ \A j \in 1..Len(iterators) : HasEvents(iterators[j], published)
  BY <1>3 DEF EventsInv, AllHaveEvents, HasEvents
<1>6. PICK n \in Nat : n = Len(iterators)
  BY <1>5
<1>7. PICK c : c = Append(iterators, it)
  OBVIOUS
<1>8. c \in Seq(Iterator) /\ Len(c) = n + 1 /\ (\A j \in 1..n : c[j] = iterators[j]) /\ c[n + 1] = it
  BY <1>5, <1>6, <1>7, AppendProperties
<1>9. \A j \in 1..(n + 1) : HasEvents(c[j], published)
  <2>1. TAKE j \in 1..(n + 1)
  <2>2. j \in 1..n \/ j = n + 1
    OBVIOUS
  <2> QED
    BY <1>3, <1>5, <1>6, <1>8, <2>2
<1>10. AllHaveEvents(c, published)
  BY <1>8, <1>9 DEF AllHaveEvents
<1> QED
  BY <1>1, <1>4, <1>7, <1>10 DEF EventsInv

\* One consumer asks for its next event.
LEMMA NextEventKeeps ==
  ASSUME EventsInv, NEW j \in DOMAIN iterators, NextEvent(j)
  PROVE  EventsInv'
<1>1. published \in Seq(Nat) /\ published' = published /\ writer' = writer /\ mutations' = mutations
  BY DEF EventsInv, NextEvent, mutationVars
<1>2. AllHaveEvents(iterators, published) /\ j \in 1..Len(iterators)
  BY DEF EventsInv, AllHaveEvents
<1>3. PICK it : it = iterators[j]
  OBVIOUS
<1>4. HasEvents(it, published) /\ ~it.waiting
  BY <1>2, <1>3 DEF AllHaveEvents, NextEvent
<1>5. PICK i : i = IF it.queue # <<>>
                   THEN [it EXCEPT !.got = Append(@, Head(it.queue)), !.queue = Tail(@)]
                   ELSE [it EXCEPT !.waiting = TRUE]
  OBVIOUS
<1>6. HasEvents(i, published)
  BY <1>1, <1>4, <1>5, TakeHasEvents
<1>7. iterators' = [iterators EXCEPT ![j] = i]
  BY <1>3, <1>5 DEF NextEvent
<1>8. AllHaveEvents(iterators', published)
  <2>1. AllHaveEvents([iterators EXCEPT ![j] = i], published)
    BY <1>2, <1>6, OneChanges
  <2> QED
    BY <1>7, <2>1
<1> QED
  BY <1>1, <1>8 DEF EventsInv

\* One iterator ends.
LEMMA ReturnKeeps ==
  ASSUME EventsInv, NEW j \in DOMAIN iterators, Return(j)
  PROVE  EventsInv'
<1>1. published \in Seq(Nat) /\ published' = published /\ writer' = writer /\ mutations' = mutations
  BY DEF EventsInv, Return, mutationVars
<1>2. AllHaveEvents(iterators, published) /\ j \in 1..Len(iterators)
  BY DEF EventsInv, AllHaveEvents
<1>3. HasEvents(iterators[j], published)
  BY <1>2 DEF AllHaveEvents
<1>4. PICK i : i = Unsubscribed(iterators[j])
  OBVIOUS
<1>5. HasEvents(i, published)
  BY <1>1, <1>3, <1>4, EndHasEvents
<1>6. iterators' = [iterators EXCEPT ![j] = i]
  BY <1>4 DEF Return
<1>7. AllHaveEvents([iterators EXCEPT ![j] = i], published)
  BY <1>2, <1>5, OneChanges
<1> QED
  BY <1>1, <1>6, <1>7 DEF EventsInv

\* The loader has nothing to do with it, and mutations only when they publish.
LEMMA NextEventsInv == EventsInv /\ [GraphQLNext]_graphQLVars => EventsInv'
<1>1. SUFFICES ASSUME EventsInv, [GraphQLNext]_graphQLVars PROVE EventsInv'
  OBVIOUS
<1>2. CASE LoaderStep \/ UNCHANGED graphQLVars
  <2>1. UNCHANGED <<writer, mutations, published, iterators>>
    BY <1>2 DEF LoaderStep, Answers, DispatchBatch, Find, Found, ClearCache, Load,
                graphQLVars, mutationVars, pubSubVars
  <2> QED
    BY <1>1, <2>1 DEF EventsInv
<1>3. CASE MutationStep
  <2>1. ASSUME NEW k \in Keys, Apply(k) PROVE EventsInv'
    <3>1. writer \in Seq(Keys) /\ writer' = Append(writer, k)
      BY <1>1, <2>1 DEF EventsInv, Apply
    <3>2. writer' \in Seq(Keys) /\ Len(writer') \in Nat
      BY <3>1, AppendProperties
    <3>3. UNCHANGED <<published, iterators>> /\ mutations' = mutations \union {Len(writer')}
      BY <2>1 DEF Apply, pubSubVars
    <3> QED
      BY <1>1, <3>2, <3>3 DEF EventsInv
  <2>2. ASSUME NEW e \in mutations, AuditFails(e) PROVE EventsInv'
    BY <1>1, <2>2 DEF EventsInv, AuditFails, pubSubVars
  <2>3. ASSUME NEW e \in mutations, Publish(e) PROVE EventsInv'
    BY <1>1, <2>3, PublishKeeps
  <2> QED
    BY <1>3, <2>1, <2>2, <2>3 DEF MutationStep
<1>4. CASE SubscriptionStep
  BY <1>1, <1>4, SubscribeKeeps, StopKeeps, NextEventKeeps, ReturnKeeps DEF SubscriptionStep
<1> QED
  BY <1>1, <1>2, <1>3, <1>4 DEF GraphQLNext

\* Every subscriber has, received or queued, exactly the events published
\* since it subscribed, in that order (pubsub.ts:80-159).
THEOREM SubscribersGetAll == GraphQLSpec => []EventsInOrder
<1>1. EventsInv => EventsInOrder
  <2>1. SUFFICES ASSUME EventsInv, NEW j \in DOMAIN iterators
                 PROVE  LET it == iterators[j]
                        IN  /\ it.got \o it.queue =
                                 SubSeq(published, it.from + 1, Until(it, published))
                            /\ it.waiting => it.queue = <<>>
    BY DEF EventsInOrder, Until
  <2>2. AllHaveEvents(iterators, published) /\ j \in 1..Len(iterators)
    BY <2>1 DEF EventsInv, AllHaveEvents
  <2>3. HasEvents(iterators[j], published)
    BY <2>2 DEF AllHaveEvents
  <2> QED
    BY <2>3 DEF HasEvents
<1> QED
  BY <1>1, InitEventsInv, NextEventsInv, PTL DEF GraphQLSpec

-----------------------------------------------------------------------------
(***************************************************************************)
(* GraphQL, the data loader. Whatever is kept of a record anywhere, in the *)
(* database, the cache, a batch in flight or an answer, is a version of    *)
(* that record; versions only grow, so what a batch reads is as new as the *)
(* record was when it was asked for.                                       *)
(***************************************************************************)

\* v is 0 or the number of an update of k.
IsVersion(v, k, w) == v \in Nat /\ (v # 0 => v <= Len(w) /\ w[v] = k)

\* v may be the answer of load l.
Fits(v, l, w) == IsVersion(v, l.key, w) /\ (v # 0 /\ ~l.cached => v >= l.at)

LoadRecord == [key : Keys, at : Nat, cached : BOOLEAN, answer : Int]

Batch == [items : Seq(Nat), values : Seq(Nat)]

\* The database and the cache hold versions of their own keys.
VersionsTrue(d, c, w) ==
    /\ w \in Seq(Keys) /\ d \in [Keys -> Nat] /\ c \in [Keys -> Int]
    /\ \A k \in Keys : IsVersion(d[k], k, w) /\ (c[k] # None => IsVersion(c[k], k, w))

LoadTrue(l, d, w) ==
    /\ l \in LoadRecord /\ l.at <= d[l.key]
    /\ l.answer # None => Fits(l.answer, l, w)

LoadsTrue(ls, d, w) ==
    ls \in Seq(LoadRecord) /\ \A m \in 1..Len(ls) : LoadTrue(ls[m], d, w)

\* A batch asks for loads that were made, and what it got may answer them.
BatchTrue(b, ls, w) ==
    /\ b \in Batch
    /\ \A j \in 1..Len(b.items) : b.items[j] \in 1..Len(ls)
    /\ b.values # <<>> =>
         /\ Len(b.values) = Len(b.items)
         /\ \A j \in 1..Len(b.items) : Fits(b.values[j], ls[b.items[j]], w)

FlightTrue(f, ls, w) ==
    f \in Seq(Batch) /\ \A i \in 1..Len(f) : BatchTrue(f[i], ls, w)

WaitingTrue(b, ls) == b \in Seq(Nat) /\ \A j \in 1..Len(b) : b[j] \in 1..Len(ls)

AnswersInv ==
    /\ VersionsTrue(db, cache, writer)
    /\ LoadsTrue(loads, db, writer)
    /\ WaitingTrue(batch, loads)
    /\ FlightTrue(inFlight, loads, writer)

\* An update makes no version false.
LEMMA VersionStays ==
  ASSUME NEW w \in Seq(Keys), NEW k \in Keys, NEW v, NEW x, IsVersion(v, x, w)
  PROVE  IsVersion(v, x, Append(w, k))
<1>1. PICK n, u : n = Len(w) /\ u = Append(w, k)
  OBVIOUS
<1>2. n \in Nat /\ u \in Seq(Keys) /\ Len(u) = n + 1 /\ \A i \in 1..n : u[i] = w[i]
  BY <1>1, AppendProperties
<1>3. v \in Nat /\ (v # 0 => v <= n /\ w[v] = x)
  BY <1>1 DEF IsVersion
<1>4. v # 0 => v <= n + 1 /\ u[v] = x
  <2>1. SUFFICES ASSUME v # 0 PROVE v <= n + 1 /\ u[v] = x
    OBVIOUS
  <2>2. v \in 1..n
    BY <1>2, <1>3, <2>1
  <2> QED
    BY <1>2, <1>3, <2>1, <2>2
<1> QED
  BY <1>1, <1>2, <1>3, <1>4 DEF IsVersion

\* Nor is an answer out of place after an update.
LEMMA FitsStays ==
  ASSUME NEW w \in Seq(Keys), NEW k \in Keys, NEW v, NEW l, Fits(v, l, w)
  PROVE  Fits(v, l, Append(w, k))
  BY VersionStays DEF Fits

\* At first nothing is asked, cached or answered.
LEMMA InitAnswersInv == GraphQLInit => AnswersInv
<1>1. SUFFICES ASSUME GraphQLInit PROVE AnswersInv
  OBVIOUS
<1>2. VersionsTrue(db, cache, writer)
  BY <1>1 DEF GraphQLInit, VersionsTrue, IsVersion, None
<1>3. LoadsTrue(loads, db, writer) /\ WaitingTrue(batch, loads) /\ FlightTrue(inFlight, loads, writer)
  BY <1>1 DEF GraphQLInit, LoadsTrue, WaitingTrue, FlightTrue
<1> QED
  BY <1>2, <1>3 DEF AnswersInv

\* An update gives its record the greatest version of all.
LEMMA ApplyKeeps ==
  ASSUME AnswersInv, NEW k \in Keys, Apply(k)
  PROVE  AnswersInv'
<1>1. /\ writer \in Seq(Keys) /\ db \in [Keys -> Nat] /\ cache \in [Keys -> Int]
      /\ \A x \in Keys : /\ IsVersion(db[x], x, writer)
                         /\ cache[x] # None => IsVersion(cache[x], x, writer)
  BY DEF AnswersInv, VersionsTrue
<1>2. PICK n, w : n = Len(writer) /\ w = Append(writer, k)
  OBVIOUS
<1>3. n \in Nat /\ w \in Seq(Keys) /\ Len(w) = n + 1 /\ w[n + 1] = k
  BY <1>1, <1>2, AppendProperties
<1>4. /\ writer' = w /\ db' = [db EXCEPT ![k] = n + 1]
      /\ UNCHANGED <<loads, batch, inFlight, cache>>
  BY <1>2, <1>3 DEF Apply, loaderVars
<1>5. \A v, x : IsVersion(v, x, writer) => IsVersion(v, x, w)
  BY <1>1, <1>2, VersionStays
<1>6. \A v, l : Fits(v, l, writer) => Fits(v, l, w)
  BY <1>1, <1>2, FitsStays
<1>7. \A x \in Keys : db[x] \in Nat /\ db[x] <= n
  BY <1>1, <1>2, <1>3 DEF IsVersion
<1>8. db' \in [Keys -> Nat] /\ \A x \in Keys : db'[x] \in Nat /\ db[x] <= db'[x]
  BY <1>1, <1>3, <1>4, <1>7
<1>9. IsVersion(db'[k], k, w)
  BY <1>1, <1>3, <1>4 DEF IsVersion
<1>10. VersionsTrue(db', cache', writer')
  <2>1. \A x \in Keys : IsVersion(db'[x], x, w)
    <3>1. TAKE x \in Keys
    <3>2. x # k => db'[x] = db[x]
      BY <1>1, <1>4
    <3> QED
      BY <1>1, <1>5, <1>9, <3>2
  <2> QED
    BY <1>1, <1>3, <1>4, <1>5, <1>8, <2>1 DEF VersionsTrue
<1>11. LoadsTrue(loads', db', writer')
  <2>1. loads \in Seq(LoadRecord) /\ \A m \in 1..Len(loads) : LoadTrue(loads[m], db, writer)
    BY DEF AnswersInv, LoadsTrue
  <2>2. \A m \in 1..Len(loads) : LoadTrue(loads[m], db', w)
    <3>1. TAKE m \in 1..Len(loads)
    <3>2. PICK l : l = loads[m]
      OBVIOUS
    <3>3. /\ l \in LoadRecord /\ l.at <= db[l.key]
          /\ l.answer # None => Fits(l.answer, l, writer)
      BY <2>1, <3>2 DEF LoadTrue
    <3>4. l.at \in Nat /\ l.key \in Keys
      BY <3>3 DEF LoadRecord
    <3>5. l.at <= db'[l.key]
      BY <1>7, <1>8, <3>3, <3>4
    <3> QED
      BY <1>6, <3>2, <3>3, <3>5 DEF LoadTrue
  <2> QED
    BY <1>4, <2>1, <2>2 DEF LoadsTrue
<1>12. FlightTrue(inFlight', loads', writer')
  <2>1. inFlight \in Seq(Batch) /\ \A i \in 1..Len(inFlight) : BatchTrue(inFlight[i], loads, writer)
    BY DEF AnswersInv, FlightTrue
  <2>2. \A i \in 1..Len(inFlight) : BatchTrue(inFlight[i], loads, w)
    BY <1>6, <2>1 DEF BatchTrue
  <2> QED
    BY <1>4, <2>1, <2>2 DEF FlightTrue
<1>13. WaitingTrue(batch', loads')
  BY <1>4 DEF AnswersInv, WaitingTrue
<1> QED
  BY <1>10, <1>11, <1>12, <1>13 DEF AnswersInv

\* Loads that were made before another one are still there.
LEMMA BatchStays ==
  ASSUME NEW ls \in Seq(LoadRecord), NEW l \in LoadRecord, NEW w, NEW b, BatchTrue(b, ls, w)
  PROVE  BatchTrue(b, Append(ls, l), w)
<1>1. PICK n, u : n = Len(ls) /\ u = Append(ls, l)
  OBVIOUS
<1>2. n \in Nat /\ Len(u) = n + 1 /\ \A i \in 1..n : u[i] = ls[i]
  BY <1>1, AppendProperties
<1>3. b \in Batch /\ \A j \in 1..Len(b.items) : b.items[j] \in 1..n
  BY <1>1 DEF BatchTrue
<1>4. \A j \in 1..Len(b.items) : b.items[j] \in 1..(n + 1) /\ u[b.items[j]] = ls[b.items[j]]
  BY <1>2, <1>3
<1> QED
  BY <1>1, <1>2, <1>3, <1>4 DEF BatchTrue

\* A load is answered from the cache, or joins the batch.
LEMMA LoadKeeps ==
  ASSUME AnswersInv, NEW k \in Keys, Load(k)
  PROVE  AnswersInv'
<1>1. /\ writer \in Seq(Keys) /\ db \in [Keys -> Nat] /\ cache \in [Keys -> Int]
      /\ \A x \in Keys : cache[x] # None => IsVersion(cache[x], x, writer)
  BY DEF AnswersInv, VersionsTrue
<1>2. PICK q \in BOOLEAN : q = (cache[k] # None)
  OBVIOUS
<1>3. PICK l : l = [key |-> k, at |-> db[k], cached |-> q, answer |-> cache[k]]
  OBVIOUS
<1>4. /\ l \in LoadRecord /\ l.key = k /\ l.at = db[k] /\ l.cached = q /\ l.answer = cache[k]
  BY <1>1, <1>2, <1>3 DEF LoadRecord
<1>5. LoadTrue(l, db, writer)
  <2>1. l.at <= db[l.key]
    BY <1>1, <1>4
  <2>2. l.answer # None => Fits(l.answer, l, writer)
    BY <1>1, <1>2, <1>4 DEF Fits
  <2> QED
    BY <1>4, <2>1, <2>2 DEF LoadTrue
<1>6. /\ loads \in Seq(LoadRecord) /\ \A m \in 1..Len(loads) : LoadTrue(loads[m], db, writer)
      /\ batch \in Seq(Nat) /\ \A j \in 1..Len(batch) : batch[j] \in 1..Len(loads)
  BY DEF AnswersInv, LoadsTrue, WaitingTrue
<1>7. PICK n, u : n = Len(loads) /\ u = Append(loads, l)
  OBVIOUS
<1>8. /\ n \in Nat /\ u \in Seq(LoadRecord) /\ Len(u) = n + 1
      /\ (\A i \in 1..n : u[i] = loads[i]) /\ u[n + 1] = l
  BY <1>4, <1>6, <1>7, AppendProperties
<1>9. loads' = u /\ UNCHANGED <<db, cache, writer, inFlight>>
  BY <1>2, <1>3, <1>7 DEF Load, mutationVars
<1>10. LoadsTrue(u, db, writer)
  <2>1. \A m \in 1..(n + 1) : LoadTrue(u[m], db, writer)
    <3>1. TAKE m \in 1..(n + 1)
    <3>2. m \in 1..n \/ m = n + 1
      BY <1>8
    <3> QED
      BY <1>5, <1>6, <1>7, <1>8, <3>2
  <2> QED
    BY <1>8, <2>1 DEF LoadsTrue
<1>11. WaitingTrue(batch', u)
  <2>1. batch' = batch \/ batch' = Append(batch, n + 1)
    BY <1>7 DEF Load
  <2>2. CASE batch' = batch
    BY <1>6, <1>7, <1>8, <2>2 DEF WaitingTrue
  <2>3. CASE batch' = Append(batch, n + 1)
    <3>1. PICK c, p : c = Append(batch, n + 1) /\ p = Len(batch)
      OBVIOUS
    <3>2. /\ p \in Nat /\ c \in Seq(Nat) /\ Len(c) = p + 1
          /\ (\A i \in 1..p : c[i] = batch[i]) /\ c[p + 1] = n + 1
      BY <1>6, <1>8, <3>1, AppendProperties
    <3>3. \A j \in 1..(p + 1) : c[j] \in 1..(n + 1)
      <4>1. TAKE j \in 1..(p + 1)
      <4>2. j \in 1..p \/ j = p + 1
        BY <3>2
      <4> QED
        BY <1>6, <1>7, <1>8, <3>1, <3>2, <4>2
    <3> QED
      BY <1>8, <2>3, <3>1, <3>2, <3>3 DEF WaitingTrue
  <2> QED
    BY <2>1, <2>2, <2>3
<1>12. FlightTrue(inFlight, u, writer)
  <2>1. inFlight \in Seq(Batch) /\ \A i \in 1..Len(inFlight) : BatchTrue(inFlight[i], loads, writer)
    BY DEF AnswersInv, FlightTrue
  <2>2. \A i \in 1..Len(inFlight) : BatchTrue(inFlight[i], Append(loads, l), writer)
    BY <1>4, <1>6, <2>1, BatchStays
  <2> QED
    BY <1>7, <2>1, <2>2 DEF FlightTrue
<1>13. VersionsTrue(db, cache, writer)
  BY DEF AnswersInv
<1> QED
  BY <1>9, <1>10, <1>11, <1>12, <1>13 DEF AnswersInv

\* A part of the batch asks for loads that were made, too.
LEMMA PartWaits ==
  ASSUME NEW ls, NEW b, WaitingTrue(b, ls), NEW x \in Nat, NEW y \in Nat, 1 <= x, y <= Len(b)
  PROVE  WaitingTrue(SubSeq(b, x, y), ls)
<1>1. PICK n \in Nat : n = Len(b)
  BY DEF WaitingTrue
<1>2. b \in Seq(Nat) /\ \A j \in 1..n : b[j] \in 1..Len(ls)
  BY <1>1 DEF WaitingTrue
<1>3. \A i \in x..y : i \in 1..n
  BY <1>1
<1>4. \A i \in x..y : b[i] \in Nat
  BY <1>1, <1>2, <1>3, ElementOfSeq
<1>5. PICK c : c = SubSeq(b, x, y)
  OBVIOUS
<1>6. /\ c \in Seq(Nat) /\ Len(c) = (IF x <= y THEN y - x + 1 ELSE 0)
      /\ \A i \in 1..(y - x + 1) : c[i] = b[x + i - 1]
  BY <1>4, <1>5, SubSeqProperties
<1>7. \A j \in 1..Len(c) : c[j] \in 1..Len(ls)
  <2>1. TAKE j \in 1..Len(c)
  <2>2. j \in 1..(y - x + 1) /\ x + j - 1 \in x..y
    BY <1>6
  <2> QED
    BY <1>2, <1>3, <1>6, <2>2
<1> QED
  BY <1>5, <1>6, <1>7 DEF WaitingTrue

\* A batch leaves with the first loads that wait.
LEMMA DispatchKeeps ==
  ASSUME AnswersInv, DispatchBatch
  PROVE  AnswersInv'
<1>1. WaitingTrue(batch, loads) /\ batch \in Seq(Nat) /\ MaxBatchSize \in Nat
  BY GraphQLAssumption DEF AnswersInv, WaitingTrue
<1>2. PICK n : n = IF Len(batch) < MaxBatchSize THEN Len(batch) ELSE MaxBatchSize
  OBVIOUS
<1>3. n \in Nat /\ n <= Len(batch) /\ Len(batch) \in Nat
  BY <1>1, <1>2
<1>4. /\ batch' = SubSeq(batch, n + 1, Len(batch))
      /\ \/ inFlight' = inFlight
         \/ inFlight' = Append(inFlight, [items |-> SubSeq(batch, 1, n), values |-> <<>>])
      /\ UNCHANGED <<db, cache, writer, loads>>
  BY <1>2 DEF DispatchBatch, mutationVars
<1>5. WaitingTrue(batch', loads)
  BY <1>1, <1>3, <1>4, PartWaits
<1>6. WaitingTrue(SubSeq(batch, 1, n), loads)
  BY <1>1, <1>3, PartWaits
<1>7. PICK c : c = SubSeq(batch, 1, n)
  OBVIOUS
<1>8. PICK b : b = [items |-> c, values |-> <<>>]
  OBVIOUS
<1>9. BatchTrue(b, loads, writer)
  <2>1. c \in Seq(Nat) /\ \A j \in 1..Len(c) : c[j] \in 1..Len(loads)
    BY <1>6, <1>7 DEF WaitingTrue
  <2>2. b \in Batch /\ b.items = c /\ b.values = <<>>
    BY <1>8, <2>1 DEF Batch
  <2> QED
    BY <2>1, <2>2 DEF BatchTrue
<1>10. inFlight \in Seq(Batch) /\ \A i \in 1..Len(inFlight) : BatchTrue(inFlight[i], loads, writer)
  BY DEF AnswersInv, FlightTrue
<1>11. FlightTrue(inFlight', loads, writer)
  <2>1. CASE inFlight' = inFlight
    BY <1>10, <2>1 DEF FlightTrue
  <2>2. CASE inFlight' = Append(inFlight, b)
    <3>1. PICK f, p : f = Append(inFlight, b) /\ p = Len(inFlight)
      OBVIOUS
    <3>2. /\ p \in Nat /\ f \in Seq(Batch) /\ Len(f) = p + 1
          /\ (\A i \in 1..p : f[i] = inFlight[i]) /\ f[p + 1] = b
      <4>1. b \in Batch
        BY <1>9 DEF BatchTrue
      <4> QED
        BY <1>10, <3>1, <4>1, AppendProperties
    <3>3. \A i \in 1..(p + 1) : BatchTrue(f[i], loads, writer)
      <4>1. TAKE i \in 1..(p + 1)
      <4>2. i \in 1..p \/ i = p + 1
        BY <3>2
      <4> QED
        BY <1>9, <1>10, <3>1, <3>2, <4>2
    <3> QED
      BY <2>2, <3>1, <3>2, <3>3 DEF FlightTrue
  <2> QED
    BY <1>4, <1>7, <1>8, <2>1, <2>2
<1> QED
  BY <1>4, <1>5, <1>11 DEF AnswersInv

\* The batch of a call gets values that may answer its loads.
LEMMA AnsweredBatch ==
  ASSUME NEW ls, NEW w, NEW f, FlightTrue(f, ls, w), NEW i \in 1..Len(f),
         NEW v, v = [j \in DOMAIN f[i].items |-> v[j]],
         \A j \in 1..Len(f[i].items) : v[j] \in Nat /\ Fits(v[j], ls[f[i].items[j]], w)
  PROVE  FlightTrue([f EXCEPT ![i].values = v], ls, w)
<1>1. f \in Seq(Batch) /\ BatchTrue(f[i], ls, w)
  BY DEF FlightTrue
<1>2. PICK b, s : b = f[i] /\ s = b.items
  OBVIOUS
<1>3. b \in Batch /\ s \in Seq(Nat) /\ \A j \in 1..Len(s) : s[j] \in 1..Len(ls)
  BY <1>1, <1>2 DEF BatchTrue, Batch
<1>4. PICK n \in Nat : n = Len(s) /\ DOMAIN s = 1..n
  BY <1>3
<1>5. v \in [1..n -> Nat]
  BY <1>2, <1>4
<1>6. v \in Seq(Nat) /\ Len(v) = n
  BY <1>5, SeqDef
<1>7. PICK c : c = [b EXCEPT !.values = v]
  OBVIOUS
<1>8. c \in Batch /\ c.items = s /\ c.values = v
  BY <1>2, <1>3, <1>6, <1>7 DEF Batch
<1>9. BatchTrue(c, ls, w)
  BY <1>2, <1>3, <1>4, <1>6, <1>8 DEF BatchTrue
<1>10. PICK g : g = [f EXCEPT ![i] = c]
  OBVIOUS
<1>11. g \in Seq(Batch) /\ Len(g) = Len(f) /\ \A j \in 1..Len(f) : g[j] = IF j = i THEN c ELSE f[j]
  BY <1>1, <1>8, <1>10, ExceptSeq
<1>12. FlightTrue(g, ls, w)
  BY <1>9, <1>11 DEF FlightTrue
<1> QED
  BY <1>2, <1>7, <1>10, <1>12

\* The database answers with the versions of now, or with nulls.
LEMMA FindKeeps ==
  ASSUME AnswersInv, NEW i \in DOMAIN inFlight, Find(i)
  PROVE  AnswersInv'
<1>1. /\ FlightTrue(inFlight, loads, writer) /\ i \in 1..Len(inFlight)
      /\ BatchTrue(inFlight[i], loads, writer)
  BY DEF AnswersInv, FlightTrue
<1>2. UNCHANGED <<db, cache, writer, loads, batch>>
  BY DEF Find, mutationVars
<1>3. PICK s : s = inFlight[i].items
  OBVIOUS
<1>4. s \in Seq(Nat) /\ DOMAIN s = 1..Len(s) /\ \A j \in 1..Len(s) : s[j] \in 1..Len(loads)
  BY <1>1, <1>3 DEF BatchTrue, Batch
<1>5. \A m \in 1..Len(loads) :
        /\ db[loads[m].key] \in Nat
        /\ Fits(db[loads[m].key], loads[m], writer) /\ Fits(0, loads[m], writer)
  <2>1. TAKE m \in 1..Len(loads)
  <2>2. PICK l : l = loads[m]
    OBVIOUS
  <2>3. l \in LoadRecord /\ l.at <= db[l.key]
    BY <2>2 DEF AnswersInv, LoadsTrue, LoadTrue
  <2>4. l.key \in Keys /\ l.at \in Nat
    BY <2>3 DEF LoadRecord
  <2>5. db[l.key] \in Nat /\ IsVersion(db[l.key], l.key, writer)
    BY <2>4 DEF AnswersInv, VersionsTrue
  <2>6. Fits(db[l.key], l, writer)
    BY <2>3, <2>4, <2>5 DEF Fits
  <2>7. Fits(0, l, writer)
    BY DEF Fits, IsVersion
  <2> QED
    BY <2>2, <2>5, <2>6, <2>7
<1>6. ASSUME NEW v, v = [j \in DOMAIN s |-> db[loads[s[j]].key]] \/ v = [j \in DOMAIN s |-> 0],
             inFlight' = [inFlight EXCEPT ![i].values = v]
      PROVE  FlightTrue(inFlight', loads, writer)
  <2>1. \A j \in 1..Len(s) : v[j] \in Nat /\ Fits(v[j], loads[s[j]], writer)
    <3>1. TAKE j \in 1..Len(s)
    <3>2. s[j] \in 1..Len(loads) /\ j \in DOMAIN s
      BY <1>4
    <3>3. v[j] = db[loads[s[j]].key] \/ v[j] = 0
      BY <1>6, <3>2
    <3> QED
      BY <1>5, <3>2, <3>3
  <2>2. v = [j \in DOMAIN s |-> v[j]]
    BY <1>6
  <2>3. FlightTrue([inFlight EXCEPT ![i].values = v], loads, writer)
    BY <1>1, <1>3, <2>1, <2>2, AnsweredBatch
  <2> QED
    BY <1>6, <2>3
<1>7. FlightTrue(inFlight', loads, writer)
  <2>1. \/ inFlight' = [inFlight EXCEPT ![i].values = [j \in DOMAIN s |-> db[loads[s[j]].key]]]
        \/ inFlight' = [inFlight EXCEPT ![i].values = [j \in DOMAIN s |-> 0]]
    BY <1>3 DEF Find
  <2> QED
    BY <1>6, <2>1
<1> QED
  BY <1>2, <1>7 DEF AnswersInv

\* The others stay in flight when one has its answer.
LEMMA FlightWithout ==
  ASSUME NEW ls, NEW w, NEW f, FlightTrue(f, ls, w), NEW i \in 1..Len(f)
  PROVE  FlightTrue(RemoveAt(f, i), ls, w)
<1>1. f \in Seq(Batch) /\ \A j \in 1..Len(f) : BatchTrue(f[j], ls, w)
  BY DEF FlightTrue
<1>2. PICK n \in Nat : n = Len(f)
  BY <1>1
<1>3. PICK g : g = RemoveAt(f, i)
  OBVIOUS
<1>4. IsWithout(Batch, f, n, i, g)
  <2>1. i \in 1..n
    BY <1>2
  <2>2. IsWithout(Batch, f, n, i, RemoveAt(f, i))
    BY <1>1, <1>2, <2>1, RemoveAtIs
  <2> QED
    BY <1>3, <2>2
<1>5. g \in Seq(Batch) /\ Len(g) = n - 1
      /\ \A j \in 1..(n - 1) : g[j] = IF j < i THEN f[j] ELSE f[j + 1]
  BY <1>4 DEF IsWithout
<1>6. \A j \in 1..(n - 1) : j \in 1..n /\ j + 1 \in 1..n
  BY <1>2
<1> QED
  BY <1>1, <1>2, <1>3, <1>5, <1>6 DEF FlightTrue

\* The answer of a load is a value of its batch, and an answered load is the
\* same load.
LEMMA AnsweredLoad ==
  ASSUME NEW l \in LoadRecord, NEW d, NEW w, LoadTrue(l, d, w), NEW v \in Nat, Fits(v, l, w)
  PROVE  /\ LoadTrue([l EXCEPT !.answer = v], d, w)
         /\ \A x : Fits(x, l, w) => Fits(x, [l EXCEPT !.answer = v], w)
<1>1. PICK m : m = [l EXCEPT !.answer = v]
  OBVIOUS
<1>2. /\ m \in LoadRecord /\ m.key = l.key /\ m.at = l.at /\ m.cached = l.cached /\ m.answer = v
  BY <1>1 DEF LoadRecord
<1>3. \A x : Fits(x, l, w) => Fits(x, m, w)
  BY <1>2 DEF Fits
<1>4. LoadTrue(m, d, w)
  BY <1>2, <1>3 DEF LoadTrue
<1> QED
  BY <1>1, <1>3, <1>4

\* Each load of the batch, and the cache for its record, get the value of their index.
LEMMA FoundKeeps ==
  ASSUME AnswersInv, NEW i \in DOMAIN inFlight, Found(i)
  PROVE  AnswersInv'
<1>1. /\ FlightTrue(inFlight, loads, writer) /\ i \in 1..Len(inFlight)
      /\ BatchTrue(inFlight[i], loads, writer)
  BY DEF AnswersInv, FlightTrue
<1>2. PICK b, s, v : b = inFlight[i] /\ s = b.items /\ v = b.values
  OBVIOUS
<1>3. /\ s \in Seq(Nat) /\ v \in Seq(Nat) /\ v # <<>> /\ Len(v) = Len(s)
      /\ \A j \in 1..Len(s) : s[j] \in 1..Len(loads) /\ Fits(v[j], loads[s[j]], writer)
  BY <1>1, <1>2 DEF BatchTrue, Batch, Found
<1>4. PICK n \in Nat : n = Len(s) /\ DOMAIN s = 1..n
  BY <1>3
<1>5. \A j \in 1..n : v[j] \in Nat
  BY <1>3, <1>4, ElementOfSeq
<1>6. loads \in Seq(LoadRecord) /\ \A m \in 1..Len(loads) : LoadTrue(loads[m], db, writer)
  BY DEF AnswersInv, LoadsTrue
<1>7. PICK p \in Nat : p = Len(loads) /\ DOMAIN loads = 1..p
  BY <1>6
<1> DEFINE at(m) == CHOOSE j \in DOMAIN s : s[j] = m
           hits(k) == {j \in DOMAIN s : loads[s[j]].key = k /\ v[j] # 0}
<1>8. /\ loads' = [m \in DOMAIN loads |-> IF m \in ToSet(s)
                     THEN [loads[m] EXCEPT !.answer = v[at(m)]] ELSE loads[m]]
      /\ cache' = [k \in Keys |-> IF hits(k) = {} THEN cache[k]
                                  ELSE v[CHOOSE j \in hits(k) : TRUE]]
      /\ inFlight' = RemoveAt(inFlight, i)
      /\ UNCHANGED <<db, writer, batch>>
  BY <1>2 DEF Found, mutationVars
<1>9. \A m \in 1..p : m \in ToSet(s) => at(m) \in 1..n /\ s[at(m)] = m
  BY <1>4 DEF ToSet
<1>10. \A m \in 1..p :
         /\ loads'[m] \in LoadRecord /\ LoadTrue(loads'[m], db, writer)
         /\ \A x : Fits(x, loads[m], writer) => Fits(x, loads'[m], writer)
  <2>1. TAKE m \in 1..p
  <2>2. loads[m] \in LoadRecord /\ LoadTrue(loads[m], db, writer)
    BY <1>6, <1>7 DEF LoadTrue
  <2>3. CASE m \in ToSet(s)
    <3>1. PICK j : j = at(m)
      OBVIOUS
    <3>2. j \in 1..n /\ s[j] = m
      BY <1>9, <2>3, <3>1
    <3>3. v[j] \in Nat /\ Fits(v[j], loads[m], writer)
      BY <1>3, <1>4, <1>5, <3>2
    <3>4. loads'[m] = [loads[m] EXCEPT !.answer = v[j]]
      BY <1>7, <1>8, <2>3, <3>1
    <3>5. /\ LoadTrue([loads[m] EXCEPT !.answer = v[j]], db, writer)
          /\ \A x : Fits(x, loads[m], writer) => Fits(x, [loads[m] EXCEPT !.answer = v[j]], writer)
      BY <2>2, <3>3, AnsweredLoad
    <3> QED
      BY <3>4, <3>5 DEF LoadTrue
  <2>4. CASE m \notin ToSet(s)
    <3>1. loads'[m] = loads[m]
      BY <1>7, <1>8, <2>4
    <3> QED
      BY <2>2, <3>1
  <2> QED
    BY <2>3, <2>4
<1>11. loads' \in Seq(LoadRecord) /\ Len(loads') = p
  <2>1. PICK u : u = loads'
    OBVIOUS
  <2>2. DOMAIN u = 1..p /\ u = [m \in 1..p |-> u[m]]
    BY <1>7, <1>8, <2>1
  <2>3. u \in [1..p -> LoadRecord]
    BY <1>10, <2>1, <2>2
  <2> QED
    BY <2>1, <2>2, <2>3, SeqDef
<1>12. LoadsTrue(loads', db, writer)
  BY <1>10, <1>11 DEF LoadsTrue
<1>13. WaitingTrue(batch, loads')
  BY <1>7, <1>11 DEF AnswersInv, WaitingTrue
<1>14. FlightTrue(inFlight', loads', writer)
  <2>1. PICK f : f = RemoveAt(inFlight, i)
    OBVIOUS
  <2>2. f \in Seq(Batch) /\ \A j \in 1..Len(f) : BatchTrue(f[j], loads, writer)
    <3>1. FlightTrue(RemoveAt(inFlight, i), loads, writer)
      BY <1>1, FlightWithout
    <3> QED
      BY <2>1, <3>1 DEF FlightTrue
  <2>3. \A j \in 1..Len(f) : BatchTrue(f[j], loads', writer)
    <3>1. TAKE j \in 1..Len(f)
    <3>2. PICK c : c = f[j]
      OBVIOUS
    <3>3. BatchTrue(c, loads, writer)
      BY <2>2, <3>2
    <3>4. BatchTrue(c, loads', writer)
      BY <1>7, <1>10, <1>11, <3>3 DEF BatchTrue
    <3> QED
      BY <3>2, <3>4
  <2> QED
    BY <1>8, <2>1, <2>2, <2>3 DEF FlightTrue
<1>15. VersionsTrue(db, cache', writer)
  <2>1. /\ writer \in Seq(Keys) /\ db \in [Keys -> Nat] /\ cache \in [Keys -> Int]
        /\ \A k \in Keys : /\ IsVersion(db[k], k, writer)
                           /\ cache[k] # None => IsVersion(cache[k], k, writer)
    BY DEF AnswersInv, VersionsTrue
  <2>2. \A k \in Keys : cache'[k] = cache[k] \/ (cache'[k] \in Nat /\ IsVersion(cache'[k], k, writer))
    <3>1. TAKE k \in Keys
    <3>2. CASE hits(k) = {}
      BY <1>8, <3>2
    <3>3. CASE hits(k) # {}
      <4>1. PICK j : j = CHOOSE x \in hits(k) : TRUE
        OBVIOUS
      <4>2. j \in hits(k)
        BY <3>3, <4>1
      <4>3. j \in 1..n /\ loads[s[j]].key = k
        BY <1>4, <4>2
      <4>4. v[j] \in Nat /\ IsVersion(v[j], k, writer)
        BY <1>3, <1>4, <1>5, <4>3 DEF Fits
      <4>5. cache'[k] = v[j]
        BY <1>8, <3>3, <4>1
      <4> QED
        BY <4>4, <4>5
    <3> QED
      BY <3>2, <3>3
  <2>3. cache' \in [Keys -> Int]
    <3>1. \A k \in Keys : cache'[k] \in Int
      BY <2>1, <2>2
    <3>2. PICK c : c = cache'
      OBVIOUS
    <3>3. c = [k \in Keys |-> c[k]]
      BY <1>8, <3>2
    <3> QED
      BY <3>1, <3>2, <3>3
  <2> QED
    BY <2>1, <2>2, <2>3 DEF VersionsTrue
<1> QED
  BY <1>8, <1>12, <1>13, <1>14, <1>15 DEF AnswersInv

\* No step gives a load the version of another record, or one too old.
LEMMA NextAnswersInv == AnswersInv /\ [GraphQLNext]_graphQLVars => AnswersInv'
<1>1. SUFFICES ASSUME AnswersInv, [GraphQLNext]_graphQLVars PROVE AnswersInv'
  OBVIOUS
<1>2. ASSUME UNCHANGED <<db, cache, writer, loads, batch, inFlight>> PROVE AnswersInv'
  BY <1>1, <1>2 DEF AnswersInv
<1>3. CASE LoaderStep
  <2>1. CASE ClearCache
    <3>1. VersionsTrue(db, [k \in Keys |-> None], writer)
      BY <1>1 DEF AnswersInv, VersionsTrue, None
    <3>2. cache' = [k \in Keys |-> None] /\ UNCHANGED <<db, writer, loads, batch, inFlight>>
      BY <2>1 DEF ClearCache, mutationVars
    <3> QED
      BY <1>1, <3>1, <3>2 DEF AnswersInv
  <2> QED
    BY <1>1, <1>3, <2>1, DispatchKeeps, FindKeeps, FoundKeeps, LoadKeeps DEF LoaderStep, Answers
<1>4. CASE MutationStep
  <2>1. ASSUME NEW e \in mutations, AuditFails(e) \/ Publish(e) PROVE AnswersInv'
    BY <1>2, <2>1 DEF AuditFails, Publish, loaderVars
  <2> QED
    BY <1>1, <1>4, <2>1, ApplyKeeps DEF MutationStep
<1>5. CASE SubscriptionStep
  BY <1>2, <1>5 DEF SubscriptionStep, Subscribe, Stop, NextEvent, Return, loaderVars, mutationVars
<1>6. CASE UNCHANGED graphQLVars
  BY <1>2, <1>6 DEF graphQLVars
<1> QED
  BY <1>1, <1>3, <1>4, <1>5, <1>6 DEF GraphQLNext

\* An answer of the data loader is null or a version of the record asked for,
\* no older than the call when the cache did not give it, however batches,
\* updates and cache clearings interleave (dataloader.ts:27-113).
THEOREM AnswersAreTrue == GraphQLSpec => []AnswersAreOwnAndFresh
<1>1. AnswersInv => AnswersAreOwnAndFresh
  <2>1. SUFFICES ASSUME AnswersInv, NEW m \in DOMAIN loads, loads[m].answer \notin {None, 0}
                 PROVE  /\ writer[loads[m].answer] = loads[m].key
                        /\ ~loads[m].cached => loads[m].answer >= loads[m].at
    BY DEF AnswersAreOwnAndFresh
  <2>2. m \in 1..Len(loads) /\ LoadTrue(loads[m], db, writer)
    BY <2>1 DEF AnswersInv, LoadsTrue
  <2>3. Fits(loads[m].answer, loads[m], writer)
    BY <2>1, <2>2 DEF LoadTrue
  <2> QED
    BY <2>1, <2>3 DEF Fits, IsVersion
<1> QED
  BY <1>1, InitAnswersInv, NextAnswersInv, PTL DEF GraphQLSpec


-----------------------------------------------------------------------------
(***************************************************************************)
(* GraphQL, where the loads wait. A load that has no answer waits in one   *)
(* place, the batch or a call that awaits batchFn, and while one waits     *)
(* there is a call that goes on: so no load is forgotten, whatever         *)
(* microtasks and answers interleave, and each is answered by one batch.   *)
(***************************************************************************)

\* A call that awaits batchFn is to answer load m.
Carried(f, m) == \E i \in 1..Len(f) : In(f[i].items, m)

\* The loads without an answer are those that wait, each in one place.
PlacesTrue(ls, b, f) ==
    /\ \A m \in 1..Len(ls) : ls[m].answer = None <=> In(b, m) \/ Carried(f, m)
    /\ \A m \in 1..Len(ls) : ~(In(b, m) /\ Carried(f, m))
    /\ \A i, j \in 1..Len(f) : \A m : In(f[i].items, m) /\ In(f[j].items, m) => i = j
    /\ NothingTwice(b)

\* A call carries a load, and what waits in the batch has a microtask or a
\* call in flight, which looks at the batch when it ends.
CallsTrue(b, s, n, f) ==
    /\ n \in Nat /\ (s => n > 0)
    /\ b # <<>> => n > 0 \/ f # <<>>
    /\ \A i \in 1..Len(f) : f[i].items # <<>>

PlacesInv ==
    /\ AnswersInv
    /\ PlacesTrue(loads, batch, inFlight)
    /\ CallsTrue(batch, batchScheduled, microtasks, inFlight)

\* A load that has no answer is carried by a call, or waits in the batch and
\* a call is under way that will look there.
LoadsAreUnderWay ==
    \A m \in DOMAIN loads : loads[m].answer = None =>
        \/ \E i \in DOMAIN inFlight : In(inFlight[i].items, m)
        \/ In(batch, m) /\ (microtasks > 0 \/ inFlight # <<>>)

\* An answer is given once: no later batch, and no call, changes a load that
\* has one.
AnsweredForGood ==
    [][\A m \in DOMAIN loads : loads[m].answer # None => loads'[m] = loads[m]]_graphQLVars

\* What waits are loads that were made.
LEMMA WaitingAreLoads ==
  ASSUME AnswersInv, NEW m, In(batch, m) \/ Carried(inFlight, m)
  PROVE  m \in 1..Len(loads)
<1>1. CASE In(batch, m)
  BY <1>1 DEF AnswersInv, WaitingTrue, In
<1>2. CASE Carried(inFlight, m)
  <2>1. PICK i \in 1..Len(inFlight) : In(inFlight[i].items, m)
    BY <1>2 DEF Carried
  <2>2. PICK s : s = inFlight[i].items
    OBVIOUS
  <2>3. s \in Seq(Nat) /\ \A j \in 1..Len(s) : s[j] \in 1..Len(loads)
    BY <2>2 DEF AnswersInv, FlightTrue, BatchTrue, Batch
  <2> QED
    BY <2>1, <2>2, <2>3 DEF In
<1> QED
  BY <1>1, <1>2

\* What a sequence holds when it gets one element more.
LEMMA InAppended ==
  ASSUME NEW S, NEW s \in Seq(S), NEW x \in S
  PROVE  \A m : In(Append(s, x), m) <=> In(s, m) \/ m = x
<1>1. PICK n, u : n = Len(s) /\ u = Append(s, x)
  OBVIOUS
<1>2. /\ n \in Nat /\ DOMAIN s = 1..n /\ DOMAIN u = 1..(n + 1)
      /\ (\A i \in 1..n : u[i] = s[i]) /\ u[n + 1] = x
  BY <1>1, AppendProperties
<1>3. \A i \in 1..(n + 1) : i \in 1..n \/ i = n + 1
  BY <1>2
<1>4. (\A i \in 1..n : i \in 1..(n + 1)) /\ n + 1 \in 1..(n + 1)
  BY <1>2
<1>5. ASSUME NEW m PROVE In(u, m) <=> In(s, m) \/ m = x
  <2>1. ASSUME In(u, m) PROVE In(s, m) \/ m = x
    BY <1>2, <1>3, <2>1 DEF In
  <2>2. ASSUME In(s, m) \/ m = x PROVE In(u, m)
    BY <1>2, <1>4, <2>2 DEF In
  <2> QED
    BY <2>1, <2>2
<1> QED
  BY <1>1, <1>5

\* a and b are s, cut after its n-th element, and no element is in both.
AreParts(S, s, n, a, b) ==
    /\ a \in Seq(S) /\ b \in Seq(S) /\ Len(a) = n /\ Len(b) = Len(s) - n
    /\ NothingTwice(b)
    /\ \A m : In(s, m) <=> In(a, m) \/ In(b, m)
    /\ \A m : ~(In(a, m) /\ In(b, m))

\* A sequence without repetition, cut in two, has each element in one part.
LEMMA CutInTwo ==
  ASSUME NEW S, NEW s \in Seq(S), NothingTwice(s), NEW n \in Nat, n <= Len(s)
  PROVE  AreParts(S, s, n, SubSeq(s, 1, n), SubSeq(s, n + 1, Len(s)))
<1>0. PICK a, b : a = SubSeq(s, 1, n) /\ b = SubSeq(s, n + 1, Len(s))
  OBVIOUS
<1>1. PICK p \in Nat : p = Len(s) /\ DOMAIN s = 1..p
  BY LenProperties
<1>2. \A i \in 1..p : s[i] \in S
  BY <1>1, ElementOfSeq
<1>3. a \in Seq(S) /\ Len(a) = n /\ DOMAIN a = 1..n /\ \A i \in 1..n : a[i] = s[i]
  <2>1. \A i \in 1..n : s[i] \in S /\ 1 + i - 1 = i
    BY <1>1, <1>2
  <2>2. n - 1 + 1 = n
    OBVIOUS
  <2>3. a \in Seq(S) /\ Len(a) = (IF 1 <= n THEN n ELSE 0) /\ \A i \in 1..n : a[i] = s[i]
    BY <1>0, <2>1, <2>2, SubSeqProperties
  <2> QED
    BY <2>3, LenProperties
<1>4. /\ b \in Seq(S) /\ Len(b) = p - n /\ DOMAIN b = 1..(p - n)
      /\ \A i \in 1..(p - n) : b[i] = s[n + i]
  <2>1. \A i \in (n + 1)..p : s[i] \in S
    BY <1>1, <1>2
  <2>2. p - (n + 1) + 1 = p - n /\ \A i \in 1..(p - n) : (n + 1) + i - 1 = n + i
    BY <1>1
  <2>3. /\ b \in Seq(S) /\ Len(b) = (IF n + 1 <= p THEN p - n ELSE 0)
        /\ \A i \in 1..(p - n) : b[i] = s[n + i]
    BY <1>0, <1>1, <2>1, <2>2, SubSeqProperties
  <2>4. Len(b) = p - n
    BY <1>1, <2>3
  <2> QED
    BY <2>3, <2>4, LenProperties
<1>5. \A i \in 1..n : i \in 1..p
  BY <1>1
<1>6. \A i \in 1..(p - n) : n + i \in 1..p /\ n + i \notin 1..n
  BY <1>1
<1>7. NothingTwice(b)
  <2> SUFFICES ASSUME NEW i \in DOMAIN b, NEW j \in DOMAIN b, i # j PROVE b[i] # b[j]
    BY DEF NothingTwice
  <2>1. n + i # n + j /\ n + i \in DOMAIN s /\ n + j \in DOMAIN s
    BY <1>1, <1>4, <1>6
  <2> QED
    BY <1>4, <2>1 DEF NothingTwice
<1>8. ASSUME NEW m PROVE In(s, m) <=> In(a, m) \/ In(b, m)
  <2>1. ASSUME In(s, m) PROVE In(a, m) \/ In(b, m)
    <3>1. PICK i \in 1..p : s[i] = m
      BY <1>1, <2>1 DEF In
    <3>2. CASE i \in 1..n
      BY <1>3, <3>1, <3>2 DEF In
    <3>3. CASE i \notin 1..n
      <4>1. PICK j : j = i - n
        OBVIOUS
      <4>2. j \in 1..(p - n) /\ n + j = i
        BY <3>1, <3>3, <4>1
      <4> QED
        BY <1>4, <3>1, <4>2 DEF In
    <3> QED
      BY <3>2, <3>3
  <2>2. ASSUME In(a, m) PROVE In(s, m)
    BY <1>1, <1>3, <1>5, <2>2 DEF In
  <2>3. ASSUME In(b, m) PROVE In(s, m)
    BY <1>1, <1>4, <1>6, <2>3 DEF In
  <2> QED
    BY <2>1, <2>2, <2>3
<1>9. ASSUME NEW m, In(a, m), In(b, m) PROVE FALSE
  <2>1. PICK i \in 1..n : a[i] = m
    BY <1>3, <1>9 DEF In
  <2>2. PICK j \in 1..(p - n) : b[j] = m
    BY <1>4, <1>9 DEF In
  <2>3. i \in DOMAIN s /\ n + j \in DOMAIN s /\ i # n + j
    BY <1>1, <1>5, <1>6
  <2>4. s[i] = m /\ s[n + j] = m
    BY <1>3, <1>4, <2>1, <2>2
  <2> QED
    BY <2>3, <2>4 DEF NothingTwice
<1>10. AreParts(S, s, n, a, b)
  BY <1>1, <1>3, <1>4, <1>7, <1>8, <1>9 DEF AreParts
<1> QED
  BY <1>0, <1>10

\* At first nothing waits.
LEMMA InitPlacesInv == GraphQLInit => PlacesInv
<1>1. SUFFICES ASSUME GraphQLInit PROVE PlacesInv
  OBVIOUS
<1>2. PlacesTrue(loads, batch, inFlight)
  BY <1>1 DEF GraphQLInit, PlacesTrue, NothingTwice
<1>3. CallsTrue(batch, batchScheduled, microtasks, inFlight)
  BY <1>1 DEF GraphQLInit, CallsTrue
<1> QED
  BY <1>1, <1>2, <1>3, InitAnswersInv DEF PlacesInv

\* A load that the cache does not answer joins the batch, and a microtask is
\* queued unless one is.
LEMMA LoadPlaces ==
  ASSUME PlacesInv, NEW k \in Keys, Load(k)
  PROVE  /\ PlacesTrue(loads', batch', inFlight')
         /\ CallsTrue(batch', batchScheduled', microtasks', inFlight')
<1>1. AnswersInv /\ PlacesTrue(loads, batch, inFlight)
      /\ CallsTrue(batch, batchScheduled, microtasks, inFlight)
  BY DEF PlacesInv
<1>2. /\ db \in [Keys -> Nat] /\ cache \in [Keys -> Int] /\ loads \in Seq(LoadRecord)
      /\ batch \in Seq(Nat)
  BY <1>1 DEF AnswersInv, VersionsTrue, LoadsTrue, WaitingTrue
<1>3. PICK l : l = [key |-> k, at |-> db[k], cached |-> cache[k] # None, answer |-> cache[k]]
  OBVIOUS
<1>4. l \in LoadRecord /\ l.answer = cache[k]
  BY <1>2, <1>3 DEF LoadRecord
<1>5. PICK n, u : n = Len(loads) /\ u = Append(loads, l)
  OBVIOUS
<1>6. /\ n \in Nat /\ Len(u) = n + 1 /\ (\A m \in 1..n : u[m] = loads[m]) /\ u[n + 1] = l
  BY <1>2, <1>4, <1>5, AppendProperties
<1>7. loads' = u /\ inFlight' = inFlight
  BY <1>3, <1>5 DEF Load
<1>8. ~In(batch, n + 1) /\ ~Carried(inFlight, n + 1)
  BY <1>1, <1>5, <1>6, WaitingAreLoads
<1>9. \A m \in 1..(n + 1) : m \in 1..n \/ m = n + 1
  BY <1>6
<1>10. n + 1 \notin 1..n
  BY <1>6
<1>11. CASE cache[k] # None
  <2>1. UNCHANGED <<batch, batchScheduled, microtasks>>
    BY <1>11 DEF Load
  <2>2. PlacesTrue(u, batch, inFlight)
    BY <1>1, <1>4, <1>5, <1>6, <1>8, <1>9, <1>11 DEF PlacesTrue
  <2> QED
    BY <1>1, <1>7, <2>1, <2>2
<1>12. CASE cache[k] = None
  <2>1. PICK c : c = Append(batch, n + 1)
    OBVIOUS
  <2>2. /\ batch' = c /\ batchScheduled' = TRUE
        /\ microtasks' = IF batchScheduled THEN microtasks ELSE microtasks + 1
    BY <1>5, <1>12, <2>1 DEF Load
  <2>3. \A m : In(c, m) <=> In(batch, m) \/ m = n + 1
    <3>1. PICK s, x : s = batch /\ x = n + 1
      OBVIOUS
    <3>2. s \in Seq(Nat) /\ x \in Nat
      BY <1>2, <1>6, <3>1
    <3>3. \A m : In(Append(s, x), m) <=> In(s, m) \/ m = x
      BY <3>2, InAppended, Zenon
    <3> QED
      BY <2>1, <3>1, <3>3
  <2>4. NothingTwice(c)
    <3>1. PICK p : p = Len(batch)
      OBVIOUS
    <3>2. /\ p \in Nat /\ DOMAIN batch = 1..p /\ DOMAIN c = 1..(p + 1)
          /\ (\A i \in 1..p : c[i] = batch[i]) /\ c[p + 1] = n + 1
      BY <1>2, <1>6, <2>1, <3>1, AppendProperties
    <3>3. \A i \in 1..p : batch[i] # n + 1
      BY <1>8, <3>2 DEF In
    <3>4. \A i \in 1..(p + 1) : i \in 1..p \/ i = p + 1
      BY <3>2
    <3>5. \A i, j \in 1..p : i # j => batch[i] # batch[j]
      BY <1>1, <3>2 DEF PlacesTrue, NothingTwice
    <3> QED
      BY <3>2, <3>3, <3>4, <3>5 DEF NothingTwice
  <2>5. PlacesTrue(u, c, inFlight)
    <3>1. \A m \in 1..(n + 1) : u[m].answer = None <=> In(c, m) \/ Carried(inFlight, m)
      <4>1. TAKE m \in 1..(n + 1)
      <4>2. CASE m \in 1..n
        <5>1. m # n + 1
          BY <1>10, <4>2
        <5>2. loads[m].answer = None <=> In(batch, m) \/ Carried(inFlight, m)
          BY <1>1, <1>5, <4>2 DEF PlacesTrue
        <5> QED
          BY <1>6, <2>3, <4>2, <5>1, <5>2
      <4>3. CASE m = n + 1
        BY <1>4, <1>6, <1>12, <2>3, <4>3
      <4> QED
        BY <1>9, <4>2, <4>3
    <3>2. \A m \in 1..(n + 1) : ~(In(c, m) /\ Carried(inFlight, m))
      <4>1. TAKE m \in 1..(n + 1)
      <4>2. m \in 1..n => ~(In(batch, m) /\ Carried(inFlight, m))
        BY <1>1, <1>5 DEF PlacesTrue
      <4> QED
        BY <1>8, <1>9, <2>3, <4>2
    <3> QED
      BY <1>1, <1>6, <2>4, <3>1, <3>2 DEF PlacesTrue
  <2>6. CallsTrue(c, TRUE, microtasks', inFlight)
    <3>1. microtasks' \in Nat /\ microtasks' > 0
      BY <1>1, <2>2 DEF CallsTrue
    <3> QED
      BY <1>1, <3>1 DEF CallsTrue
  <2> QED
    BY <1>7, <2>2, <2>5, <2>6
<1> QED
  BY <1>11, <1>12

\* A call takes the first loads of the batch with it; what it leaves, when the
\* batch is longer than maxBatchSize, waits for it to end.
LEMMA DispatchPlaces ==
  ASSUME PlacesInv, DispatchBatch
  PROVE  /\ PlacesTrue(loads', batch', inFlight')
         /\ CallsTrue(batch', batchScheduled', microtasks', inFlight')
<1>1. AnswersInv /\ PlacesTrue(loads, batch, inFlight)
      /\ CallsTrue(batch, batchScheduled, microtasks, inFlight)
  BY DEF PlacesInv
<1>2. /\ loads \in Seq(LoadRecord) /\ batch \in Seq(Nat) /\ inFlight \in Seq(Batch)
      /\ NothingTwice(batch)
  BY <1>1 DEF AnswersInv, LoadsTrue, WaitingTrue, FlightTrue, PlacesTrue
<1>3. PICK n : n = IF Len(batch) < MaxBatchSize THEN Len(batch) ELSE MaxBatchSize
  OBVIOUS
<1>4. n \in Nat /\ n <= Len(batch) /\ (n = 0 => Len(batch) = 0) /\ Len(batch) \in Nat
  BY <1>2, <1>3, GraphQLAssumption
<1>5. PICK a, b : a = SubSeq(batch, 1, n) /\ b = SubSeq(batch, n + 1, Len(batch))
  OBVIOUS
<1>6. /\ a \in Seq(Nat) /\ b \in Seq(Nat) /\ Len(a) = n /\ Len(b) = Len(batch) - n
      /\ NothingTwice(b)
      /\ \A m : In(batch, m) <=> In(a, m) \/ In(b, m)
      /\ \A m : ~(In(a, m) /\ In(b, m))
  <2>1. PICK s : s = batch
    OBVIOUS
  <2>2. s \in Seq(Nat) /\ NothingTwice(s) /\ n \in Nat /\ n <= Len(s)
    BY <1>2, <1>4, <2>1
  <2>3. AreParts(Nat, s, n, SubSeq(s, 1, n), SubSeq(s, n + 1, Len(s)))
    BY <2>2, CutInTwo, Zenon
  <2>4. AreParts(Nat, s, n, a, b)
    BY <1>5, <2>1, <2>3
  <2> QED
    BY <2>1, <2>4 DEF AreParts
<1>7. PICK c : c = [items |-> a, values |-> <<>>]
  OBVIOUS
<1>8. c \in Batch /\ c.items = a
  BY <1>6, <1>7 DEF Batch
<1>9. /\ loads' = loads /\ batch' = b /\ batchScheduled' = FALSE
      /\ microtasks' = microtasks - 1 /\ microtasks > 0
      /\ inFlight' = IF n = 0 THEN inFlight ELSE Append(inFlight, c)
  BY <1>3, <1>5, <1>7 DEF DispatchBatch
<1>10. microtasks' \in Nat
  BY <1>1, <1>9 DEF CallsTrue
<1>11. CASE n = 0
  <2>1. batch = <<>> /\ b = <<>>
    <3>1. Len(batch) = 0 /\ Len(b) = 0
      BY <1>4, <1>6, <1>11
    <3>2. \A s \in Seq(Nat) : s # <<>> => Len(s) \in Nat \ {0}
      BY EmptySeq
    <3> QED
      BY <1>2, <1>6, <3>1, <3>2
  <2>2. inFlight' = inFlight
    BY <1>9, <1>11
  <2>3. CallsTrue(b, FALSE, microtasks', inFlight)
    BY <1>1, <1>10, <2>1 DEF CallsTrue
  <2> QED
    BY <1>1, <1>9, <2>1, <2>2, <2>3
<1>12. CASE n # 0
  <2>1. PICK p, f : p = Len(inFlight) /\ f = Append(inFlight, c)
    OBVIOUS
  <2>2. /\ p \in Nat /\ f \in Seq(Batch) /\ Len(f) = p + 1
        /\ (\A i \in 1..p : f[i] = inFlight[i]) /\ f[p + 1] = c
    BY <1>2, <1>8, <2>1, AppendProperties
  <2>3. \A i \in 1..(p + 1) : i \in 1..p \/ i = p + 1
    BY <2>2
  <2>4. (\A i \in 1..p : i \in 1..(p + 1)) /\ p + 1 \in 1..(p + 1)
    BY <2>2
  <2>5. \A m : Carried(f, m) <=> Carried(inFlight, m) \/ In(a, m)
    <3>1. TAKE m
    <3>2. ASSUME Carried(f, m) PROVE Carried(inFlight, m) \/ In(a, m)
      BY <1>8, <2>1, <2>2, <2>3, <3>2 DEF Carried
    <3>3. ASSUME Carried(inFlight, m) \/ In(a, m) PROVE Carried(f, m)
      BY <1>8, <2>1, <2>2, <2>4, <3>3 DEF Carried
    <3> QED
      BY <3>2, <3>3
  <2>6. \A i \in 1..p : \A m : ~(In(inFlight[i].items, m) /\ In(a, m))
    <3>1. TAKE i \in 1..p
    <3>2. TAKE m
    <3>3. SUFFICES ASSUME In(inFlight[i].items, m), In(a, m) PROVE FALSE
      OBVIOUS
    <3>4. Carried(inFlight, m) /\ In(batch, m)
      BY <1>6, <2>1, <3>3 DEF Carried
    <3>5. m \in 1..Len(loads)
      BY <1>1, <3>4, WaitingAreLoads
    <3> QED
      BY <1>1, <3>4, <3>5 DEF PlacesTrue
  <2>7. \A i, j \in 1..(p + 1) : \A m : In(f[i].items, m) /\ In(f[j].items, m) => i = j
    <3>1. \A i, j \in 1..p : \A m : In(f[i].items, m) /\ In(f[j].items, m) => i = j
      BY <1>1, <2>1, <2>2 DEF PlacesTrue
    <3>2. \A i \in 1..p : \A m : ~(In(f[i].items, m) /\ In(f[p + 1].items, m))
      BY <1>8, <2>2, <2>6
    <3> QED
      BY <2>3, <3>1, <3>2
  <2>8. PlacesTrue(loads, b, f)
    <3>1. \A m \in 1..Len(loads) : loads[m].answer = None <=> In(b, m) \/ Carried(f, m)
      BY <1>1, <1>6, <2>5 DEF PlacesTrue
    <3>2. \A m \in 1..Len(loads) : ~(In(b, m) /\ Carried(f, m))
      BY <1>1, <1>6, <2>5 DEF PlacesTrue
    <3> QED
      BY <1>6, <2>2, <2>7, <3>1, <3>2 DEF PlacesTrue
  <2>9. CallsTrue(b, FALSE, microtasks', f)
    <3>1. f # <<>>
      BY <2>2
    <3>2. a # <<>>
      BY <1>6, <1>12
    <3>3. \A i \in 1..(p + 1) : f[i].items # <<>>
      <4>1. TAKE i \in 1..(p + 1)
      <4>2. CASE i \in 1..p
        BY <1>1, <2>1, <2>2, <4>2 DEF CallsTrue
      <4>3. CASE i = p + 1
        BY <1>8, <2>2, <3>2, <4>3
      <4> QED
        BY <2>3, <4>2, <4>3
    <3> QED
      BY <1>10, <2>2, <3>1, <3>3 DEF CallsTrue
  <2> QED
    BY <1>9, <1>12, <2>1, <2>8, <2>9
<1> QED
  BY <1>11, <1>12

\* A call that has its values carries what it carried.
LEMMA FindPlaces ==
  ASSUME PlacesInv, NEW i \in DOMAIN inFlight, Find(i)
  PROVE  /\ PlacesTrue(loads', batch', inFlight')
         /\ CallsTrue(batch', batchScheduled', microtasks', inFlight')
<1>1. AnswersInv /\ PlacesTrue(loads, batch, inFlight)
      /\ CallsTrue(batch, batchScheduled, microtasks, inFlight)
  BY DEF PlacesInv
<1>2. PICK p \in Nat : p = Len(inFlight) /\ DOMAIN inFlight = 1..p
  BY <1>1 DEF AnswersInv, FlightTrue
<1>3. inFlight \in Seq(Batch) /\ \A j \in 1..p : inFlight[j] \in Batch
  BY <1>1, <1>2 DEF AnswersInv, FlightTrue, BatchTrue
<1>4. UNCHANGED <<loads, batch, batchScheduled, microtasks>>
  BY DEF Find
<1>5. PICK f : f = inFlight'
  OBVIOUS
<1>6. PICK v : f = [inFlight EXCEPT ![i].values = v]
  BY <1>5 DEF Find
<1>7. Len(f) = p /\ f # <<>> /\ \A j \in 1..p : f[j].items = inFlight[j].items
  <2>1. DOMAIN f = 1..p /\ i \in 1..p
    BY <1>2, <1>6
  <2>2. \A j \in 1..p : f[j].items = inFlight[j].items
    <3>1. TAKE j \in 1..p
    <3>2. PICK b : b = inFlight[j]
      OBVIOUS
    <3>3. b \in Batch
      BY <1>3, <3>2
    <3>4. [b EXCEPT !.values = v].items = b.items
      BY <3>3 DEF Batch
    <3>5. f[j] = b \/ f[j] = [b EXCEPT !.values = v]
      BY <1>2, <1>6, <3>2
    <3> QED
      BY <3>2, <3>4, <3>5
  <2>3. Len(f) = p
    BY <1>2, <1>6
  <2> QED
    BY <2>1, <2>2, <2>3
<1>8. \A m : Carried(f, m) <=> Carried(inFlight, m)
  BY <1>2, <1>7 DEF Carried
<1>9. PlacesTrue(loads, batch, f)
  <2>1. \A j, k \in 1..p : \A m : In(f[j].items, m) /\ In(f[k].items, m) => j = k
    BY <1>1, <1>2, <1>7 DEF PlacesTrue
  <2> QED
    BY <1>1, <1>7, <1>8, <2>1 DEF PlacesTrue
<1>10. CallsTrue(batch, batchScheduled, microtasks, f)
  BY <1>1, <1>2, <1>7 DEF CallsTrue
<1> QED
  BY <1>4, <1>5, <1>9, <1>10

\* A load is answered by the call that ends and by no other: the loads of the
\* others have no answer, and keep their calls.
LEMMA FoundPlaces ==
  ASSUME PlacesInv, NEW i \in DOMAIN inFlight, Found(i)
  PROVE  /\ PlacesTrue(loads', batch', inFlight')
         /\ CallsTrue(batch', batchScheduled', microtasks', inFlight')
         /\ \A m \in DOMAIN loads : loads[m].answer # None => loads'[m] = loads[m]
<1>1. AnswersInv /\ PlacesTrue(loads, batch, inFlight)
      /\ CallsTrue(batch, batchScheduled, microtasks, inFlight)
  BY DEF PlacesInv
<1>2. PICK p \in Nat : p = Len(inFlight) /\ DOMAIN inFlight = 1..p
  BY <1>1 DEF AnswersInv, FlightTrue
<1>3. PICK n \in Nat : n = Len(loads) /\ DOMAIN loads = 1..n
  BY <1>1 DEF AnswersInv, LoadsTrue
<1>4. PICK s, v : s = inFlight[i].items /\ v = inFlight[i].values
  OBVIOUS
<1>5. /\ i \in 1..p /\ s \in Seq(Nat) /\ v \in Seq(Nat) /\ Len(v) = Len(s)
      /\ DOMAIN s = 1..Len(s)
  BY <1>1, <1>2, <1>4 DEF AnswersInv, FlightTrue, BatchTrue, Batch, Found
<1> DEFINE at(m) == CHOOSE j \in DOMAIN s : s[j] = m
<1>6. /\ loads' = [m \in DOMAIN loads |-> IF m \in ToSet(s)
                     THEN [loads[m] EXCEPT !.answer = v[at(m)]] ELSE loads[m]]
      /\ inFlight' = RemoveAt(inFlight, i)
      /\ microtasks' = IF batch # <<>> THEN microtasks + 1 ELSE microtasks
      /\ UNCHANGED <<batch, batchScheduled>>
  BY <1>4 DEF Found
<1>7. \A m : m \in ToSet(s) <=> In(s, m)
  BY DEF ToSet, In
<1>8. Len(loads') = n
  BY <1>3, <1>6
<1>9. \A m \in 1..n : In(s, m) => loads'[m].answer # None
  <2>1. TAKE m \in 1..n
  <2>2. SUFFICES ASSUME In(s, m) PROVE loads'[m].answer # None
    OBVIOUS
  <2>3. PICK j : j = at(m)
    OBVIOUS
  <2>4. j \in DOMAIN s
    BY <2>2, <2>3 DEF In
  <2>5. v[j] \in Nat
    BY <1>5, <2>4, ElementOfSeq
  <2>6. loads[m] \in LoadRecord
    BY <1>1, <1>3 DEF AnswersInv, LoadsTrue, LoadTrue
  <2>7. loads'[m] = [loads[m] EXCEPT !.answer = v[j]]
    BY <1>3, <1>6, <1>7, <2>2, <2>3
  <2>8. loads'[m].answer = v[j]
    BY <2>6, <2>7 DEF LoadRecord
  <2> QED
    BY <2>5, <2>8 DEF None
<1>10. \A m \in 1..n : ~In(s, m) => loads'[m] = loads[m]
  BY <1>3, <1>6, <1>7
<1>11. \A m \in 1..n : loads[m].answer # None => ~In(s, m)
  BY <1>1, <1>2, <1>3, <1>4, <1>5 DEF PlacesTrue, Carried
<1>12. PICK f : f = RemoveAt(inFlight, i)
  OBVIOUS
<1>13. /\ f \in Seq(Batch) /\ Len(f) = p - 1
       /\ \A j \in 1..(p - 1) : f[j] = IF j < i THEN inFlight[j] ELSE inFlight[j + 1]
  <2>1. inFlight \in Seq(Batch)
    BY <1>1 DEF AnswersInv, FlightTrue
  <2>2. IsWithout(Batch, inFlight, p, i, f)
    BY <1>2, <1>5, <1>12, <2>1, RemoveAtIs
  <2> QED
    BY <2>2 DEF IsWithout
\* Where in inFlight the j-th call that stays is.
<1> DEFINE old(j) == IF j < i THEN j ELSE j + 1
<1>14. /\ \A j \in 1..(p - 1) : old(j) \in 1..p /\ old(j) # i /\ f[j] = inFlight[old(j)]
       /\ \A j, k \in 1..(p - 1) : old(j) = old(k) => j = k
       /\ \A q \in 1..p : q # i => \E j \in 1..(p - 1) : old(j) = q
  <2>1. \A j \in 1..(p - 1) : old(j) \in 1..p /\ old(j) # i
    BY <1>5
  <2>2. \A j \in 1..(p - 1) : f[j] = inFlight[old(j)]
    BY <1>13
  <2>3. \A j, k \in 1..(p - 1) : old(j) = old(k) => j = k
    BY <1>5
  <2>4. ASSUME NEW q \in 1..p, q # i PROVE \E j \in 1..(p - 1) : old(j) = q
    <3>1. PICK j : j = IF q < i THEN q ELSE q - 1
      OBVIOUS
    <3>2. j \in 1..(p - 1) /\ old(j) = q
      BY <1>5, <2>4, <3>1
    <3> QED
      BY <3>2
  <2> QED
    BY <2>1, <2>2, <2>3, <2>4
<1> HIDE DEF old, at
<1>15. \A m \in 1..n : Carried(f, m) <=> Carried(inFlight, m) /\ ~In(s, m)
  <2>1. TAKE m \in 1..n
  <2>2. ASSUME Carried(f, m) PROVE Carried(inFlight, m) /\ ~In(s, m)
    <3>1. PICK j \in 1..(p - 1) : In(f[j].items, m)
      BY <1>13, <2>2 DEF Carried
    <3>2. In(inFlight[old(j)].items, m) /\ old(j) \in 1..p /\ old(j) # i
      BY <1>14, <3>1
    <3>3. ~In(s, m)
      BY <1>1, <1>2, <1>4, <1>5, <3>2 DEF PlacesTrue
    <3> QED
      BY <1>2, <3>2, <3>3 DEF Carried
  <2>3. ASSUME Carried(inFlight, m), ~In(s, m) PROVE Carried(f, m)
    <3>1. PICK q \in 1..p : In(inFlight[q].items, m)
      BY <1>2, <2>3 DEF Carried
    <3>2. q # i
      BY <1>4, <2>3, <3>1
    <3>3. PICK j \in 1..(p - 1) : old(j) = q
      BY <1>14, <3>2
    <3>4. In(f[j].items, m)
      BY <1>14, <3>1, <3>3
    <3> QED
      BY <1>13, <3>4 DEF Carried
  <2> QED
    BY <2>2, <2>3
<1>16. PlacesTrue(loads', batch, f)
  <2>1. \A m \in 1..n : In(s, m) => ~In(batch, m)
    BY <1>1, <1>2, <1>3, <1>4, <1>5 DEF PlacesTrue, Carried
  <2>2. \A m \in 1..n : loads'[m].answer = None <=> In(batch, m) \/ Carried(f, m)
    <3>1. TAKE m \in 1..n
    <3>2. CASE In(s, m)
      BY <1>9, <1>15, <2>1, <3>2
    <3>3. CASE ~In(s, m)
      BY <1>1, <1>3, <1>10, <1>15, <3>3 DEF PlacesTrue
    <3> QED
      BY <3>2, <3>3
  <2>3. \A m \in 1..n : ~(In(batch, m) /\ Carried(f, m))
    BY <1>1, <1>3, <1>15 DEF PlacesTrue
  <2>4. \A j, k \in 1..(p - 1) : \A m : In(f[j].items, m) /\ In(f[k].items, m) => j = k
    <3>1. TAKE j, k \in 1..(p - 1)
    <3>2. TAKE m
    <3>3. SUFFICES ASSUME In(f[j].items, m), In(f[k].items, m) PROVE j = k
      OBVIOUS
    <3>4. In(inFlight[old(j)].items, m) /\ In(inFlight[old(k)].items, m)
      BY <1>14, <3>3
    <3>5. old(j) = old(k)
      BY <1>1, <1>2, <1>14, <3>4 DEF PlacesTrue
    <3> QED
      BY <1>14, <3>5
  <2> QED
    BY <1>1, <1>8, <1>13, <2>2, <2>3, <2>4 DEF PlacesTrue
<1>17. CallsTrue(batch, batchScheduled, microtasks', f)
  <2>1. microtasks' \in Nat /\ microtasks' >= microtasks /\ (batch # <<>> => microtasks' > 0)
    BY <1>1, <1>6 DEF CallsTrue
  <2>2. \A j \in 1..(p - 1) : f[j].items # <<>>
    BY <1>1, <1>2, <1>14 DEF CallsTrue
  <2>3. microtasks \in Nat /\ (batchScheduled => microtasks > 0)
    BY <1>1 DEF CallsTrue
  <2>4. batchScheduled => microtasks' > 0
    BY <2>1, <2>3
  <2> QED
    BY <1>13, <2>1, <2>2, <2>4 DEF CallsTrue
<1>18. \A m \in DOMAIN loads : loads[m].answer # None => loads'[m] = loads[m]
  BY <1>3, <1>10, <1>11
<1> QED
  BY <1>6, <1>12, <1>16, <1>17, <1>18

\* A step keeps the places, and the answers.
LEMMA NextPlacesInv ==
  ASSUME PlacesInv, [GraphQLNext]_graphQLVars
  PROVE  /\ PlacesInv'
         /\ \A m \in DOMAIN loads : loads[m].answer # None => loads'[m] = loads[m]
<1> DEFINE AnswersStay ==
               \A m \in DOMAIN loads : loads[m].answer # None => loads'[m] = loads[m]
           Placed == /\ PlacesTrue(loads', batch', inFlight')
                     /\ CallsTrue(batch', batchScheduled', microtasks', inFlight')
<1>1. SUFFICES Placed /\ AnswersStay
  BY NextAnswersInv DEF PlacesInv
<1>2. ASSUME UNCHANGED <<loads, batch, batchScheduled, microtasks, inFlight>> PROVE Placed /\ AnswersStay
  BY <1>2 DEF PlacesInv
<1>3. ASSUME NEW k \in Keys, Load(k) PROVE Placed /\ AnswersStay
  <2>1. Placed
    BY <1>3, LoadPlaces
  <2>2. loads \in Seq(LoadRecord) /\ DOMAIN loads = 1..Len(loads)
    BY DEF PlacesInv, AnswersInv, LoadsTrue
  <2>3. PICK l : loads' = Append(loads, l)
    BY <1>3 DEF Load
  <2>4. \A m \in 1..Len(loads) : loads'[m] = loads[m]
    BY <2>2, <2>3
  <2> QED
    BY <2>1, <2>2, <2>4
<1>4. ASSUME Answers PROVE Placed /\ AnswersStay
  <2>1. ASSUME DispatchBatch PROVE Placed /\ AnswersStay
    <3>1. loads' = loads
      BY <2>1 DEF DispatchBatch
    <3> QED
      BY <2>1, <3>1, DispatchPlaces
  <2>2. ASSUME NEW i \in DOMAIN inFlight, Find(i) PROVE Placed /\ AnswersStay
    <3>1. loads' = loads
      BY <2>2 DEF Find
    <3> QED
      BY <2>2, <3>1, FindPlaces
  <2>3. ASSUME NEW i \in DOMAIN inFlight, Found(i) PROVE Placed /\ AnswersStay
    BY <2>3, FoundPlaces
  <2> QED
    BY <1>4, <2>1, <2>2, <2>3 DEF Answers
<1>5. CASE LoaderStep
  BY <1>2, <1>3, <1>4, <1>5 DEF LoaderStep, ClearCache
<1>6. CASE MutationStep
  BY <1>2, <1>6 DEF MutationStep, Apply, AuditFails, Publish, loaderVars
<1>7. CASE SubscriptionStep
  BY <1>2, <1>7 DEF SubscriptionStep, Subscribe, Stop, NextEvent, Return, loaderVars
<1>8. CASE UNCHANGED graphQLVars
  BY <1>2, <1>8 DEF graphQLVars
<1> QED
  BY <1>5, <1>6, <1>7, <1>8 DEF GraphQLNext

\* No load is forgotten: while one has no answer, a call carries it, or it is
\* in the batch and a queued microtask or a call in flight will dispatch it,
\* also what a full batch left behind (dataloader.ts:33-42, 48-73).
THEOREM NoLoadForgotten == GraphQLSpec => []LoadsAreUnderWay
<1>1. PlacesInv => LoadsAreUnderWay
  <2>1. SUFFICES ASSUME PlacesInv, NEW m \in DOMAIN loads, loads[m].answer = None
                 PROVE  \/ \E i \in DOMAIN inFlight : In(inFlight[i].items, m)
                        \/ In(batch, m) /\ (microtasks > 0 \/ inFlight # <<>>)
    BY DEF LoadsAreUnderWay
  <2>2. m \in 1..Len(loads) /\ DOMAIN inFlight = 1..Len(inFlight)
    BY <2>1 DEF PlacesInv, AnswersInv, LoadsTrue, FlightTrue
  <2>3. In(batch, m) \/ Carried(inFlight, m)
    BY <2>1, <2>2 DEF PlacesInv, PlacesTrue
  <2>4. In(batch, m) => batch # <<>>
    BY DEF In
  <2>5. batch # <<>> => microtasks > 0 \/ inFlight # <<>>
    BY <2>1 DEF PlacesInv, CallsTrue
  <2> QED
    BY <2>2, <2>3, <2>4, <2>5 DEF Carried
<1>2. PlacesInv /\ [GraphQLNext]_graphQLVars => PlacesInv'
  BY NextPlacesInv
<1> QED
  BY <1>1, <1>2, InitPlacesInv, PTL DEF GraphQLSpec

\* A load is answered once: however batches, cache clearings and later loads
\* of its record interleave, no second answer reaches it (dataloader.ts:53-70).
THEOREM LoadAnsweredOnce == GraphQLSpec => AnsweredForGood
<1>1. PlacesInv /\ [GraphQLNext]_graphQLVars =>
        PlacesInv' /\ [\A m \in DOMAIN loads : loads[m].answer # None => loads'[m] = loads[m]]_graphQLVars
  BY NextPlacesInv
<1> QED
  BY <1>1, InitPlacesInv, PTL DEF GraphQLSpec, AnsweredForGood

=============================================================================
