------------------------------ MODULE LruCache ------------------------------
(***************************************************************************)
(* LruCacheBackend: a map of entries, and a doubly linked list of the keys *)
(* in the order of their last use, held together by two maps, a head and a *)
(* tail.  No method awaits anything, so each runs as one step; the deletes *)
(* of cleanExpired are steps of their own that nothing comes between.      *)
(* Values and statistics are left out.                                     *)
(***************************************************************************)
EXTENDS Integers, FiniteSets

CONSTANTS
    Keys,    \* cache keys
    MaxSize, \* options.maxSize
    Nil      \* null

ASSUME CacheAssumption ==
    /\ IsFiniteSet(Keys)
    /\ Nil \notin Keys
    /\ MaxSize \in Nat \ {0}

VARIABLES
    store,    \* the keys of this.store
    timed,    \* those whose entry has an expiresAt
    expired,  \* those whose expiresAt has passed
    list,     \* this.accessOrder, head and tail, and the nodes' prev and next
    sweeping, \* keysToDelete of a cleanExpired under way
    used      \* history: the key that was read or written last

vars == <<store, timed, expired, list, sweeping, used>>

-----------------------------------------------------------------------------
(* The list *)

Empty == [nodes |-> {}, head |-> Nil, tail |-> Nil,
          prev |-> [k \in Keys |-> Nil], next |-> [k \in Keys |-> Nil]]

\* The pointer of node k is set to v, if there is such a node.
Put(pointer, k, v) == [n \in Keys |-> IF n = k THEN v ELSE pointer[n]]

AddToFront(L, k) ==
    [nodes |-> L.nodes \union {k},
     head  |-> k,
     tail  |-> IF L.head = Nil THEN k ELSE L.tail,
     prev  |-> Put(Put(L.prev, k, Nil), L.head, k),
     next  |-> Put(L.next, k, L.head)]

\* Mutant: the tail is not moved back when the last node leaves it.
MoveToFrontKeepsTail(L, k) ==
    IF k \notin L.nodes \/ k = L.head THEN L
    ELSE LET p == L.prev[k]
             n == L.next[k]
         IN  [L EXCEPT !.head = k,
                       !.prev = Put(Put(Put(L.prev, n, p), k, Nil), L.head, k),
                       !.next = Put(Put(L.next, p, n), k, L.head)]

MoveToFront(L, k) ==
    IF k \notin L.nodes \/ k = L.head THEN L
    ELSE LET p == L.prev[k]
             n == L.next[k]
         IN  [nodes |-> L.nodes,
              head  |-> k,
              tail  |-> IF k = L.tail THEN p ELSE L.tail,
              prev  |-> Put(Put(Put(L.prev, n, p), k, Nil), L.head, k),
              next  |-> Put(Put(L.next, p, n), k, L.head)]

\* The pointers of a removed node go with it.
RemoveFromAccessOrder(L, k) ==
    IF k \notin L.nodes THEN L
    ELSE LET p == L.prev[k]
             n == L.next[k]
         IN  [nodes |-> L.nodes \ {k},
              head  |-> IF p = Nil THEN n ELSE L.head,
              tail  |-> IF n = Nil THEN p ELSE L.tail,
              prev  |-> Put(Put(L.prev, n, p), k, Nil),
              next  |-> Put(Put(L.next, p, n), k, Nil)]

-----------------------------------------------------------------------------
(* The methods *)

Ready == sweeping = {}

\* store.delete and removeFromAccessOrder.
RemoveEntry(k) ==
    /\ store' = store \ {k}
    /\ timed' = timed \ {k}
    /\ expired' = expired \ {k}
    /\ list' = RemoveFromAccessOrder(list, k)
    /\ used' = IF used = k THEN Nil ELSE used

\* Mutant: a read leaves the order alone.
GetInPlace(k) ==
    /\ Ready
    /\ \/ k \in store \ expired /\ used' = k /\ UNCHANGED <<store, timed, expired, list>>
       \/ k \in expired /\ RemoveEntry(k)
    /\ UNCHANGED sweeping

Get(k) ==
    /\ Ready
    /\ \/ /\ k \in store \ expired
          /\ list' = MoveToFront(list, k)
          /\ used' = k
          /\ UNCHANGED <<store, timed, expired>>
       \/ k \in expired /\ RemoveEntry(k)
    /\ UNCHANGED sweeping

\* With or without a time to live.
Expiry(k) ==
    /\ timed' \in {timed \ {k}, timed \union {k}}
    /\ expired' = expired \ {k}

SetExisting(k) ==
    /\ Ready
    /\ k \in store
    /\ Expiry(k)
    /\ list' = MoveToFront(list, k)
    /\ used' = k
    /\ UNCHANGED <<store, sweeping>>

Full == Cardinality(store) >= MaxSize

SetNew(k) ==
    /\ Ready
    /\ k \notin store
    /\ ~Full
    /\ store' = store \union {k}
    /\ Expiry(k)
    /\ list' = AddToFront(list, k)
    /\ used' = k
    /\ UNCHANGED sweeping

\* evictLru, whose victim is the tail, if there is one.
SetEvicting(k) ==
    LET victim == list.tail
    IN  /\ Ready
        /\ k \notin store
        /\ Full
        /\ store' = (store \ {victim}) \union {k}
        /\ timed' \in {timed \ {victim}, (timed \ {victim}) \union {k}}
        /\ expired' = expired \ {victim}
        /\ list' = AddToFront(RemoveFromAccessOrder(list, victim), k)
        /\ used' = k
        /\ UNCHANGED sweeping

Delete(k) ==
    /\ Ready
    /\ RemoveEntry(k)
    /\ UNCHANGED sweeping

\* has() removes what has expired and does not count as a use.
Has(k) ==
    /\ Ready
    /\ k \in expired
    /\ RemoveEntry(k)
    /\ UNCHANGED sweeping

Clear ==
    /\ Ready
    /\ store' = {}
    /\ timed' = {}
    /\ expired' = {}
    /\ list' = Empty
    /\ used' = Nil
    /\ UNCHANGED sweeping

Expire(k) ==
    /\ Ready
    /\ k \in timed \ expired
    /\ expired' = expired \union {k}
    /\ UNCHANGED <<store, timed, list, sweeping, used>>

\* cleanExpired collects the expired keys ...
CleanExpired ==
    /\ Ready
    /\ expired # {}
    /\ sweeping' = expired
    /\ UNCHANGED <<store, timed, expired, list, used>>

\* ... and deletes them one after the other.
CleanNext(k) ==
    /\ k \in sweeping
    /\ sweeping' = sweeping \ {k}
    /\ RemoveEntry(k)

-----------------------------------------------------------------------------
Init ==
    /\ store = {}
    /\ timed = {}
    /\ expired = {}
    /\ list = Empty
    /\ sweeping = {}
    /\ used = Nil

KeyNext(k) ==
    \/ Get(k) \/ Has(k) \/ Delete(k)
    \/ SetExisting(k) \/ SetNew(k) \/ SetEvicting(k)
    \/ Expire(k) \/ CleanNext(k)

Next == Clear \/ CleanExpired \/ \E k \in Keys : KeyNext(k)

Spec == Init /\ [][Next]_vars

-----------------------------------------------------------------------------
(* Properties *)

\* Type invariant.
TypeOK ==
    /\ store \subseteq Keys
    /\ timed \subseteq store
    /\ expired \subseteq timed
    /\ sweeping \subseteq expired
    /\ list \in [nodes : SUBSET Keys, head : Keys \union {Nil}, tail : Keys \union {Nil},
                 prev : [Keys -> Keys \union {Nil}], next : [Keys -> Keys \union {Nil}]]
    /\ used \in Keys \union {Nil}

\* Whatever is read, written, deleted, evicted and expired in whatever order, the
\* list has a node for every entry of the map and no other, and its pointers
\* agree: what is before and after every node, and which are the first and the
\* last one (lru-backend.ts:177-247).
ListIsSound ==
    LET L == list
    IN  /\ L.nodes = store
        /\ L.head \in store \/ (L.head = Nil /\ store = {})
        /\ L.tail \in store \/ (L.tail = Nil /\ store = {})
        /\ \A k \in store :
             /\ L.prev[k] = Nil <=> k = L.head
             /\ L.next[k] = Nil <=> k = L.tail
             /\ L.prev[k] # Nil => L.prev[k] \in store /\ L.next[L.prev[k]] = k
             /\ L.next[k] # Nil => L.next[k] \in store /\ L.prev[L.next[k]] = k

\* The cache never holds more than maxSize entries: an eviction always finds a
\* victim in the map (lru-backend.ts:87-90, 163-172).
SizeBounded == Cardinality(store) <= MaxSize

\* The list read from its head.
At[n \in 1..Cardinality(Keys)] ==
    IF n = 1 THEN list.head
    ELSE IF At[n - 1] = Nil THEN Nil ELSE list.next[At[n - 1]]

Order == INSTANCE LruOrder WITH recency <- [n \in 1..Cardinality(store) |-> At[n]]

\* The linked list implements the order of last uses: reads and writes move a
\* key to the front, and the victim of an eviction is the least recently used.
ImplementsOrder == Order!Spec

=============================================================================
