------------------------- MODULE NotificationProofs -------------------------
(***************************************************************************)
(* What holds of the notification queue however many sends overlap, for    *)
(* any channels and any number of retries.  The queue stays in the order   *)
(* of the numbers, so that what is before the first notification that is   *)
(* ready has been sent before; and as long as no tick works during a send, *)
(* the index a send remembers is that of its notification.                 *)
(***************************************************************************)
EXTENDS NotificationQueue, SequenceTheorems, WellFoundedInduction, TLAPS

Increasing(s) == \A i, j \in DOMAIN s : i < j => s[i] < s[j]

\* x is one of the notifications of s.
Has(s, x) == \E i \in DOMAIN s : s[i] = x

-----------------------------------------------------------------------------
(* Sequences of notifications *)

\* Queued is what the queue has.
LEMMA QueuedIsHas == \A x : x \in Queued <=> Has(queue, x)
  BY DEF Queued, ToSet, Has

\* An index of a sequence without its i-th element, and what is there.
LEMMA RemoveAtIs ==
  ASSUME NEW s \in Seq(Nat), NEW n \in Nat, n = Len(s), NEW i \in 1..n
  PROVE  /\ RemoveAt(s, i) \in Seq(Nat) /\ Len(RemoveAt(s, i)) = n - 1
         /\ \A j \in 1..(n - 1) : RemoveAt(s, i)[j] = IF j < i THEN s[j] ELSE s[j + 1]
<1>1. PICK a, b : a = SubSeq(s, 1, i - 1) /\ b = SubSeq(s, i + 1, n)
  OBVIOUS
<1>2. a \in Seq(Nat) /\ Len(a) = i - 1 /\ \A j \in 1..(i - 1) : a[j] = s[j]
  <2>1. PICK k \in Nat : k = i - 1 /\ k <= n
    OBVIOUS
  <2>2. \A j \in 1..k : 1 + j - 1 = j
    BY <2>1
  <2>3. 1 \in 1..(k + 1) /\ k \in 0..n /\ k - 1 + 1 = k
    BY <2>1
  <2>4. a \in Seq(Nat) /\ Len(a) = k /\ \A j \in 1..k : a[j] = s[j]
    BY <1>1, <2>1, <2>2, <2>3, SubSeqProperties
  <2> QED
    BY <2>1, <2>4
<1>3. b \in Seq(Nat) /\ Len(b) = n - i /\ \A j \in 1..(n - i) : b[j] = s[j + i]
  <2>1. \A j \in 1..(n - i) : (i + 1) + j - 1 = j + i
    OBVIOUS
  <2>2. i + 1 <= n + 1 /\ 1 <= i + 1 /\ n <= Len(s) /\ n - (i + 1) + 1 = n - i
    OBVIOUS
  <2> QED
    BY <1>1, <2>1, <2>2, SubSeqProperties
<1>4. PICK t : t = a \o b
  OBVIOUS
<1>5. /\ t \in Seq(Nat) /\ Len(t) = Len(a) + Len(b)
      /\ \A j \in 1..(Len(a) + Len(b)) : t[j] = IF j <= Len(a) THEN a[j] ELSE b[j - Len(a)]
  BY <1>2, <1>3, <1>4, ConcatProperties
<1>6. Len(a) + Len(b) = n - 1
  BY <1>2, <1>3
<1>7. ASSUME NEW j \in 1..(n - 1) PROVE t[j] = IF j < i THEN s[j] ELSE s[j + 1]
  <2>1. CASE j < i
    <3>1. j <= Len(a) /\ j \in 1..(i - 1)
      BY <1>2, <2>1
    <3> QED
      BY <1>2, <1>5, <1>6, <2>1, <3>1
  <2>2. CASE ~(j < i)
    <3>1. ~(j <= Len(a)) /\ j - Len(a) \in 1..(n - i) /\ (j - Len(a)) + i = j + 1
      BY <1>2, <2>2
    <3> QED
      BY <1>3, <1>5, <1>6, <2>2, <3>1
  <2> QED
    BY <2>1, <2>2
<1>8. RemoveAt(s, i) = t
  BY <1>1, <1>4 DEF RemoveAt
<1> QED
  BY <1>5, <1>6, <1>7, <1>8

\* What leaves an increasing sequence is not in it any more.
LEMMA RemovedFromIncreasing ==
  ASSUME NEW s \in Seq(Nat), Increasing(s), NEW i \in DOMAIN s, NEW t, t = RemoveAt(s, i)
  PROVE  /\ t \in Seq(Nat) /\ Increasing(t)
         /\ \A x : Has(t, x) <=> Has(s, x) /\ x # s[i]
<1>1. PICK n \in Nat : n = Len(s) /\ DOMAIN s = 1..n
  BY LenProperties
<1>2. /\ t \in Seq(Nat) /\ Len(t) = n - 1
      /\ \A j \in 1..(n - 1) : t[j] = IF j < i THEN s[j] ELSE s[j + 1]
  BY <1>1, RemoveAtIs
<1>3. DOMAIN t = 1..(n - 1)
  BY <1>1, <1>2, LenProperties
<1>4. \A j \in DOMAIN s : s[j] \in Nat
  BY <1>1, ElementOfSeq
<1>5. Increasing(t)
  <2> SUFFICES ASSUME NEW j \in DOMAIN t, NEW k \in DOMAIN t, j < k
               PROVE  t[j] < t[k]
    BY DEF Increasing
  <2>1. PICK j1, k1 \in DOMAIN s : j1 < k1 /\ t[j] = s[j1] /\ t[k] = s[k1]
    <3>1. j \in 1..(n - 1) /\ k \in 1..(n - 1)
      BY <1>3
    <3>2. PICK j1, k1 : /\ j1 = (IF j < i THEN j ELSE j + 1)
                        /\ k1 = (IF k < i THEN k ELSE k + 1)
      OBVIOUS
    <3>3. j1 \in DOMAIN s /\ k1 \in DOMAIN s /\ j1 < k1
      BY <1>1, <3>1, <3>2
    <3>4. t[j] = s[j1] /\ t[k] = s[k1]
      BY <1>2, <3>1, <3>2
    <3> QED
      BY <3>3, <3>4
  <2> QED
    BY <2>1 DEF Increasing
<1>6. \A j, k \in DOMAIN s : j # k => s[j] # s[k]
  <2>1. TAKE j, k \in DOMAIN s
  <2>2. j # k => j < k \/ k < j
    BY <1>1
  <2> QED
    BY <1>4, <2>2 DEF Increasing
<1>7. ASSUME NEW x, Has(t, x) PROVE Has(s, x) /\ x # s[i]
  <2>1. PICK j \in DOMAIN t : t[j] = x
    BY <1>7 DEF Has
  <2>2. PICK k \in DOMAIN s : k # i /\ t[j] = s[k]
    <3>1. PICK k : k = IF j < i THEN j ELSE j + 1
      OBVIOUS
    <3>2. k \in DOMAIN s /\ k # i
      BY <1>1, <1>3, <3>1
    <3> QED
      BY <1>2, <1>3, <3>1, <3>2
  <2> QED
    BY <1>6, <2>1, <2>2 DEF Has
<1>8. ASSUME NEW x, Has(s, x), x # s[i] PROVE Has(t, x)
  <2>1. PICK k \in DOMAIN s : s[k] = x /\ k # i
    BY <1>8 DEF Has
  <2>2. PICK j : j = IF k < i THEN k ELSE k - 1
    OBVIOUS
  <2>3. j \in 1..(n - 1) /\ k = IF j < i THEN j ELSE j + 1
    BY <1>1, <2>1, <2>2
  <2>4. t[j] = s[k]
    BY <1>2, <2>3
  <2> QED
    BY <1>3, <2>1, <2>3, <2>4 DEF Has
<1> QED
  BY <1>2, <1>5, <1>7, <1>8

\* A number greater than all of a sequence comes last.
LEMMA AppendedToIncreasing ==
  ASSUME NEW s \in Seq(Nat), Increasing(s), NEW x \in Nat, \A y : Has(s, y) => y < x,
         NEW t, t = Append(s, x)
  PROVE  /\ t \in Seq(Nat) /\ Increasing(t)
         /\ \A y : Has(t, y) <=> Has(s, y) \/ y = x
         /\ \A i \in DOMAIN s : i \in DOMAIN t /\ t[i] = s[i]
<1>1. PICK n \in Nat : n = Len(s) /\ DOMAIN s = 1..n
  BY LenProperties
<1>2. /\ t \in Seq(Nat) /\ Len(t) = n + 1
      /\ (\A i \in 1..n : t[i] = s[i]) /\ t[n + 1] = x
  BY <1>1, AppendProperties
<1>3. DOMAIN t = 1..(n + 1)
  BY <1>1, <1>2, LenProperties
<1>4. /\ \A i \in DOMAIN t : (i \in DOMAIN s /\ t[i] = s[i]) \/ (i = n + 1 /\ t[i] = x)
      /\ \A i \in DOMAIN s : i \in DOMAIN t /\ t[i] = s[i]
      /\ n + 1 \in DOMAIN t /\ t[n + 1] = x
  <2>1. /\ \A i \in 1..(n + 1) : i \in 1..n \/ i = n + 1
        /\ \A i \in 1..n : i \in 1..(n + 1)
        /\ n + 1 \in 1..(n + 1)
    OBVIOUS
  <2> QED
    BY <1>1, <1>2, <1>3, <2>1
<1>5. Increasing(t)
  <2> SUFFICES ASSUME NEW i \in DOMAIN t, NEW j \in DOMAIN t, i < j
               PROVE  t[i] < t[j]
    BY DEF Increasing
  <2>1. i \in DOMAIN s /\ t[i] = s[i]
    <3>1. i # n + 1
      BY <1>3
    <3> QED
      BY <1>4, <3>1
  <2>2. CASE j \in DOMAIN s /\ t[j] = s[j]
    BY <2>1, <2>2 DEF Increasing
  <2>3. CASE j = n + 1 /\ t[j] = x
    BY <2>1, <2>3 DEF Has
  <2> QED
    BY <1>4, <2>2, <2>3
<1>6. ASSUME NEW y PROVE Has(t, y) <=> Has(s, y) \/ y = x
  <2>1. Has(t, y) => Has(s, y) \/ y = x
    BY <1>4 DEF Has
  <2>2. Has(s, y) \/ y = x => Has(t, y)
    BY <1>4 DEF Has
  <2> QED
    BY <2>1, <2>2
<1> QED
  BY <1>2, <1>4, <1>5, <1>6

\* A set of natural numbers that is not empty has a least element.
LEMMA SmallestExists ==
  ASSUME NEW S \in SUBSET Nat, S # {}
  PROVE  \E n \in S : \A m \in S : n <= m
<1> DEFINE R == OpToRel(<, Nat)
<1>1. \A x, y \in Nat : x < y => <<x, y>> \in R
  BY DEF OpToRel
<1>2. IsWellFoundedOn(R, Nat)
  BY NatLessThanWellFounded
<1> HIDE DEF R
<1>3. PICK n \in S : \A m \in S : ~ (<<m, n>> \in R)
  BY <1>2, WFMin
<1>4. \A m \in S : n <= m
  <2>1. TAKE m \in S
  <2>2. m \in Nat /\ n \in Nat
    OBVIOUS
  <2>3. ~ (m < n)
    BY <1>1, <1>3, <2>2, Zenon
  <2> QED
    BY <2>2, <2>3
<1> QED
  BY <1>4

\* The index that a tick finds.
LEMMA ReadyIndexIs ==
  ASSUME queue \in Seq(Nat), NEW i, i = ReadyIndex, i # 0
  PROVE  /\ i \in DOMAIN queue /\ Ready(queue[i])
         /\ \A j \in DOMAIN queue : j < i => ~Ready(queue[j])
<1> DEFINE I == {j \in 1..Len(queue) : Ready(queue[j])}
<1>1. PICK n \in Nat : n = Len(queue) /\ DOMAIN queue = 1..n
  BY LenProperties
<1>2. I # {} /\ i = Min(I)
  BY DEF ReadyIndex, SelectInSeq
<1>3. I \in SUBSET Nat
  BY <1>1
<1>4. i \in I /\ \A j \in I : i <= j
  <2>1. \E x \in I : \A y \in I : x <= y
    BY <1>2, <1>3, SmallestExists
  <2> HIDE DEF I
  <2> QED
    BY <1>2, <2>1 DEF Min
<1>5. \A j \in DOMAIN queue : j < i => j \notin I
  <2>1. TAKE j \in DOMAIN queue
  <2>2. j \in Nat /\ i \in Nat
    BY <1>1, <1>3, <1>4
  <2> QED
    BY <1>4, <2>2
<1> QED
  BY <1>1, <1>4, <1>5

\* Array.splice of an increasing sequence.
LEMMA SpliceKeeps ==
  ASSUME NEW s \in Seq(Nat), Increasing(s), NEW i \in Nat \ {0}, NEW t, t = Splice(s, i)
  PROVE  /\ t \in Seq(Nat) /\ Increasing(t)
         /\ \A x : Has(t, x) => Has(s, x)
         /\ i \in DOMAIN s => \A x : Has(t, x) <=> Has(s, x) /\ x # s[i]
<1>1. PICK n \in Nat : n = Len(s) /\ DOMAIN s = 1..n
  BY LenProperties
<1>2. CASE i <= n
  <2>1. i \in DOMAIN s
    BY <1>1, <1>2
  <2>2. t = RemoveAt(s, i)
    BY <1>1, <1>2 DEF Splice
  <2> QED
    BY <2>1, <2>2, RemovedFromIncreasing
<1>3. CASE ~(i <= n)
  <2>1. i \notin DOMAIN s
    BY <1>1, <1>3
  <2>2. t = s
    BY <1>1, <1>3 DEF Splice
  <2> QED
    BY <2>1, <2>2
<1> QED
  BY <1>2, <1>3

-----------------------------------------------------------------------------
(* The inductive invariant *)

Notification == [channel : Channels, attempts : Nat, ripe : BOOLEAN,
                 status : {"pending", "sending", "retrying", "sent", "failed"}]

NotifTypes ==
    /\ idCounter \in Nat /\ disturbed \in BOOLEAN
    /\ notif \in Seq(Notification) /\ Len(notif) = idCounter
    /\ \A f \in inFlight : f.notif \in Notifs /\ f.index \in Nat \ {0}

\* The queue and the first sends are in the order of the numbers, and what is
\* still to be sent first comes after what has been.
NumbersInOrder ==
    /\ queue \in Seq(Nat) /\ Increasing(queue)
    /\ firstSends \in Seq(Nat) /\ Increasing(firstSends)
    /\ \A x : Has(queue, x) \/ Has(firstSends, x) => x \in Notifs
    /\ \A x, y : Has(firstSends, x) /\ Has(queue, y) /\ notif[y].attempts = 0 => x < y

\* What has had no attempt is pending, or was given up and is not in the queue.
NewArePending ==
    \A n \in Notifs : notif[n].attempts = 0 =>
        notif[n].status = "pending" \/ (notif[n].status = "failed" /\ ~Has(queue, n))

\* As long as nothing has interfered, the one call in flight knows the place of
\* its notification.
PlacesKnown ==
    ~disturbed =>
        /\ \A n \in Notifs : Has(queue, n) <=> Unfinished(n)
        /\ \A f, g \in inFlight : f = g
        /\ \A f \in inFlight : f.index \in DOMAIN queue /\ queue[f.index] = f.notif

QueueInv == NotifTypes /\ NumbersInOrder /\ NewArePending /\ OneSendAtATime /\ PlacesKnown

\* At first there is nothing in the queue.
LEMMA InitQueueInv == Init => QueueInv
<1> SUFFICES ASSUME Init PROVE QueueInv
  OBVIOUS
<1>1. Notifs = {} /\ queue = <<>> /\ firstSends = <<>> /\ inFlight = {} /\ notif = <<>>
  BY DEF Init, Notifs
<1>2. \A x : ~Has(<<>>, x)
  BY DEF Has
<1>3. Increasing(<<>>)
  BY DEF Increasing
<1>4. <<>> \in Seq(Nat) /\ <<>> \in Seq(Notification) /\ Len(<<>>) = 0
  BY EmptySeq
<1> QED
  BY <1>1, <1>2, <1>3, <1>4 DEF Init, QueueInv, NotifTypes, NumbersInOrder, NewArePending,
                             OneSendAtATime, PlacesKnown

\* One notification changes.
LEMMA NotifChanged ==
  ASSUME NotifTypes, NEW n \in Notifs, NEW r \in Notification,
         notif' = [notif EXCEPT ![n] = r], idCounter' = idCounter
  PROVE  /\ Notifs' = Notifs /\ notif' \in Seq(Notification) /\ Len(notif') = idCounter'
         /\ notif'[n] = r /\ \A k \in Notifs \ {n} : notif'[k] = notif[k]
<1>1. DOMAIN notif = Notifs
  BY LenProperties DEF NotifTypes, Notifs
<1>2. notif' \in Seq(Notification) /\ Len(notif') = Len(notif)
  BY <1>1, ExceptSeq DEF NotifTypes
<1>3. notif'[n] = r /\ \A k \in Notifs \ {n} : notif'[k] = notif[k]
  BY <1>1
<1> QED
  BY <1>2, <1>3 DEF NotifTypes, Notifs

\* What has an identifier is a notification.
LEMMA NotificationIs ==
  ASSUME NotifTypes, NEW n \in Notifs
  PROVE  notif[n] \in Notification
  BY ElementOfSeq DEF NotifTypes, Notifs

\* What has no number yet is new everywhere.
LEMMA EnqueueKeeps ==
  ASSUME QueueInv, NEW c \in Channels, Enqueue(c)
  PROVE  QueueInv'
<1>a. NotifTypes /\ NumbersInOrder /\ NewArePending /\ OneSendAtATime /\ PlacesKnown
  BY DEF QueueInv
<1>1. PICK k \in Nat : k = idCounter + 1 /\ k \notin Notifs
  BY <1>a DEF NotifTypes, Notifs
<1>2. /\ idCounter' = k /\ queue' = Append(queue, k)
      /\ UNCHANGED <<inFlight, firstSends, disturbed>>
  BY <1>1 DEF Enqueue
<1>3. PICK r : r = [channel |-> c, status |-> "pending", attempts |-> 0, ripe |-> FALSE]
  OBVIOUS
<1>4. r \in Notification /\ notif' = Append(notif, r)
  BY <1>3 DEF Enqueue, Notification
<1>5. /\ notif' \in Seq(Notification) /\ Len(notif') = k /\ notif'[k] = r
      /\ \A n \in Notifs : notif'[n] = notif[n]
  BY <1>a, <1>1, <1>4, AppendProperties DEF NotifTypes, Notifs
<1>6. Notifs' = Notifs \union {k} /\ \A n \in Notifs : n < k
  <2>1. \A m \in Nat : 1..(m + 1) = (1..m) \union {m + 1} /\ \A n \in 1..m : n < m + 1
    OBVIOUS
  <2> QED
    BY <1>a, <1>1, <1>2, <2>1 DEF NotifTypes, Notifs
<1>7. /\ queue' \in Seq(Nat) /\ Increasing(queue')
      /\ \A y : Has(queue', y) <=> Has(queue, y) \/ y = k
      /\ \A i \in DOMAIN queue : i \in DOMAIN queue' /\ queue'[i] = queue[i]
  <2>1. queue \in Seq(Nat) /\ Increasing(queue) /\ \A y : Has(queue, y) => y < k
    BY <1>a, <1>6 DEF NumbersInOrder
  <2> QED
    BY <1>2, <2>1, AppendedToIncreasing
<1>8. NotifTypes'
  BY <1>a, <1>2, <1>5, <1>6 DEF NotifTypes
<1>9. NumbersInOrder'
  <2>1. ASSUME NEW x, NEW y, Has(firstSends, x), Has(queue', y), notif'[y].attempts = 0
        PROVE  x < y
    <3>1. CASE y = k
      BY <1>a, <1>6, <2>1, <3>1 DEF NumbersInOrder
    <3>2. CASE Has(queue, y)
      BY <1>a, <1>5, <2>1, <3>2 DEF NumbersInOrder
    <3> QED
      BY <1>7, <2>1, <3>1, <3>2
  <2>2. \A x : Has(queue', x) \/ Has(firstSends, x) => x \in Notifs'
    BY <1>a, <1>6, <1>7 DEF NumbersInOrder
  <2>3. firstSends \in Seq(Nat) /\ Increasing(firstSends)
    BY <1>a DEF NumbersInOrder
  <2> QED
    BY <1>2, <1>7, <2>1, <2>2, <2>3 DEF NumbersInOrder
<1>10. NewArePending'
  BY <1>a, <1>1, <1>3, <1>5, <1>6, <1>7 DEF NewArePending
<1>11. OneSendAtATime'
  <2>1. notif'[k].status = "pending" /\ \A f \in inFlight : f.notif # k
    BY <1>a, <1>1, <1>3, <1>5 DEF NotifTypes
  <2> QED
    BY <1>a, <1>2, <1>5, <1>6, <2>1 DEF OneSendAtATime
<1>12. PlacesKnown'
  <2>1. Unfinished(k)' /\ \A n \in Notifs : Unfinished(n)' <=> Unfinished(n)
    BY <1>3, <1>5 DEF Unfinished
  <2>2. \A n \in Notifs : Has(queue', n) <=> Has(queue, n)
    BY <1>1, <1>7
  <2> QED
    BY <1>a, <1>2, <1>6, <1>7, <2>1, <2>2 DEF PlacesKnown
<1> QED
  BY <1>8, <1>9, <1>10, <1>11, <1>12 DEF QueueInv

\* clear() empties the queue.
LEMMA ClearKeeps == ASSUME QueueInv, Clear PROVE QueueInv'
<1>a. NotifTypes /\ NumbersInOrder /\ NewArePending /\ OneSendAtATime
  BY DEF QueueInv
<1>1. queue' = <<>> /\ disturbed' = TRUE /\ UNCHANGED <<idCounter, notif, inFlight, firstSends>>
  BY DEF Clear
<1>2. (\A x : ~Has(<<>>, x)) /\ Increasing(<<>>) /\ <<>> \in Seq(Nat)
  BY EmptySeq DEF Has, Increasing
<1>3. NotifTypes' /\ OneSendAtATime'
  BY <1>a, <1>1 DEF NotifTypes, OneSendAtATime, Notifs
<1>4. NumbersInOrder' /\ NewArePending'
  BY <1>a, <1>1, <1>2 DEF NumbersInOrder, NewArePending, Notifs
<1>5. PlacesKnown'
  BY <1>1 DEF PlacesKnown
<1> QED
  BY <1>3, <1>4, <1>5 DEF QueueInv

\* The notification that a tick takes up is not in flight.
LEMMA TakenUp ==
  ASSUME QueueInv, NEW i, i = ReadyIndex, i # 0, NEW n, n = queue[i]
  PROVE  /\ i \in DOMAIN queue /\ n \in Notifs /\ Has(queue, n) /\ Ready(n)
         /\ \A f \in inFlight : f.notif # n
         /\ \A j \in DOMAIN queue : j < i => ~Ready(queue[j])
<1>1. /\ i \in DOMAIN queue /\ Ready(n)
      /\ \A j \in DOMAIN queue : j < i => ~Ready(queue[j])
  BY ReadyIndexIs DEF QueueInv, NumbersInOrder
<1>2. Has(queue, n) /\ n \in Notifs
  BY <1>1 DEF Has, QueueInv, NumbersInOrder
<1>3. notif[n].status # "sending"
  BY <1>1 DEF Ready
<1> QED
  BY <1>1, <1>2, <1>3 DEF QueueInv, OneSendAtATime

\* A tick takes out the notification that failed too often.
LEMMA TickGiveUpKeeps == ASSUME QueueInv, TickGiveUp PROVE QueueInv'
<1>a. NotifTypes /\ NumbersInOrder /\ NewArePending /\ OneSendAtATime /\ PlacesKnown
  BY DEF QueueInv
<1>1. PICK i, n : i = ReadyIndex /\ n = queue[i]
  OBVIOUS
<1>2. /\ i # 0 /\ SetStatus(n, "failed") /\ queue' = RemoveAt(queue, i)
      /\ disturbed' = (disturbed \/ inFlight # {})
      /\ UNCHANGED <<idCounter, inFlight, firstSends>>
  BY <1>1 DEF TickGiveUp, NoteDisturbance
<1>3. i \in DOMAIN queue /\ n \in Notifs /\ \A f \in inFlight : f.notif # n
  BY <1>1, <1>2, TakenUp
<1>4. PICK r \in Notification : r = [notif[n] EXCEPT !.status = "failed"]
  BY <1>a, <1>3, NotificationIs DEF Notification
<1>5. notif' = [notif EXCEPT ![n] = r] /\ r.status = "failed"
  <2>1. notif[n] \in Notification
    BY <1>a, <1>3, NotificationIs
  <2>2. r.status = "failed"
    BY <1>4, <2>1 DEF Notification
  <2> QED
    BY <1>2, <1>4, <2>2 DEF SetStatus
<1>6. /\ Notifs' = Notifs /\ notif' \in Seq(Notification) /\ Len(notif') = idCounter'
      /\ notif'[n] = r /\ \A k \in Notifs \ {n} : notif'[k] = notif[k]
  BY <1>a, <1>2, <1>3, <1>5, NotifChanged
<1>7. /\ queue' \in Seq(Nat) /\ Increasing(queue')
      /\ \A x : Has(queue', x) <=> Has(queue, x) /\ x # n
  BY <1>a, <1>1, <1>2, <1>3, RemovedFromIncreasing DEF NumbersInOrder
<1>8. NotifTypes'
  BY <1>a, <1>2, <1>6 DEF NotifTypes
<1>9. NumbersInOrder'
  BY <1>a, <1>2, <1>6, <1>7 DEF NumbersInOrder
<1>10. NewArePending'
  BY <1>a, <1>5, <1>6, <1>7 DEF NewArePending
<1>11. OneSendAtATime'
  BY <1>a, <1>2, <1>3, <1>5, <1>6 DEF OneSendAtATime
<1>12. PlacesKnown'
  BY <1>a, <1>2, <1>5, <1>6, <1>7 DEF PlacesKnown, Unfinished
<1> QED
  BY <1>8, <1>9, <1>10, <1>11, <1>12 DEF QueueInv

\* A notification whose attempt is counted.
Attempted(old, b, q, w) == [old EXCEPT !.attempts = b, !.ripe = q, !.status = w]

\* An attempt changes the count and the status, and keeps the type.
LEMMA AttemptCounted ==
  ASSUME NEW old \in Notification, NEW b \in Nat, NEW q \in BOOLEAN,
         NEW w \in {"sending", "retrying"}
  PROVE  /\ Attempted(old, b, q, w) \in Notification
         /\ Attempted(old, b, q, w).attempts = b
         /\ Attempted(old, b, q, w).status = w
<1>1. PICK r : r = [old EXCEPT !.attempts = b, !.ripe = q, !.status = w]
  OBVIOUS
<1>2. r \in Notification /\ r.attempts = b /\ r.status = w
  BY <1>1 DEF Notification
<1> QED
  BY <1>1, <1>2 DEF Attempted

\* What is taken up for the first time comes before all that is still pending.
LEMMA TickSendKeeps == ASSUME QueueInv, TickSend PROVE QueueInv'
<1>a. NotifTypes /\ NumbersInOrder /\ NewArePending /\ OneSendAtATime /\ PlacesKnown
  BY DEF QueueInv
<1>1. PICK i, n : i = ReadyIndex /\ n = queue[i]
  OBVIOUS
<1>2. PICK registered \in BOOLEAN : registered <=> notif[n].channel \in channelMap
  OBVIOUS
<1>3. /\ i # 0
      /\ notif' = [notif EXCEPT ![n].attempts = @ + 1, ![n].ripe = FALSE,
                                ![n].status = IF registered THEN "sending" ELSE "retrying"]
      /\ inFlight' = IF registered THEN inFlight \union {[notif |-> n, index |-> i]} ELSE inFlight
      /\ firstSends' = IF notif[n].attempts = 0 THEN Append(firstSends, n) ELSE firstSends
      /\ disturbed' = (disturbed \/ inFlight # {})
      /\ UNCHANGED <<idCounter, queue>>
  BY <1>1, <1>2 DEF TickSend, NoteFirstSend, NoteDisturbance
<1>4. /\ i \in DOMAIN queue /\ n \in Notifs /\ Has(queue, n) /\ Ready(n)
      /\ \A f \in inFlight : f.notif # n
      /\ \A j \in DOMAIN queue : j < i => ~Ready(queue[j])
  BY <1>1, <1>3, TakenUp
<1>5. i \in Nat \ {0}
  BY <1>a, <1>4, LenProperties DEF NumbersInOrder
<1>6. PICK q, b, w : /\ q \in BOOLEAN /\ q = FALSE /\ b = notif[n].attempts + 1
                    /\ w = IF registered THEN "sending" ELSE "retrying"
  OBVIOUS
<1>7. PICK r : r = Attempted(notif[n], b, q, w)
  OBVIOUS
<1>r. /\ r \in Notification /\ notif' = [notif EXCEPT ![n] = r] /\ r.attempts # 0
      /\ r.status = IF registered THEN "sending" ELSE "retrying"
  <2>1. notif[n] \in Notification
    BY <1>a, <1>4, NotificationIs
  <2>2. b \in Nat /\ b # 0 /\ w \in {"sending", "retrying"}
    <3>1. notif[n].attempts \in Nat
      BY <2>1 DEF Notification
    <3> QED
      BY <1>6, <3>1
  <2>3. r \in Notification /\ r.attempts = b /\ r.status = w
    <3>1. q \in BOOLEAN
      BY <1>6
    <3> QED
      BY <1>7, <2>1, <2>2, <3>1, AttemptCounted
  <2>4. notif' = [notif EXCEPT ![n] = Attempted(notif[n], b, q, w)]
    BY <1>3, <1>6 DEF Attempted
  <2> QED
    BY <1>6, <1>7, <2>2, <2>3, <2>4
<1>8. /\ Notifs' = Notifs /\ notif' \in Seq(Notification) /\ Len(notif') = idCounter'
      /\ notif'[n] = r /\ \A k \in Notifs \ {n} : notif'[k] = notif[k]
  BY <1>a, <1>3, <1>4, <1>r, NotifChanged
<1>9. NotifTypes'
  BY <1>a, <1>3, <1>4, <1>5, <1>8 DEF NotifTypes
<1>10. NewArePending'
  BY <1>a, <1>3, <1>r, <1>8 DEF NewArePending
<1>11. OneSendAtATime'
  <2>1. CASE registered
    <3>1. inFlight' = inFlight \union {[notif |-> n, index |-> i]} /\ notif'[n].status = "sending"
      BY <1>3, <1>r, <1>8, <2>1
    <3>2. \A f, g \in inFlight' : f.notif = g.notif => f = g
      BY <1>a, <1>4, <3>1 DEF OneSendAtATime
    <3>3. \A k \in Notifs \ {n} : notif'[k].status = "sending" <=> \E f \in inFlight' : f.notif = k
      BY <1>a, <1>8, <3>1 DEF OneSendAtATime
    <3>4. \E f \in inFlight' : f.notif = n
      <4>1. PICK f : f = [notif |-> n, index |-> i]
        OBVIOUS
      <4>2. f \in inFlight' /\ f.notif = n
        BY <3>1, <4>1
      <4> QED
        BY <4>2
    <3> QED
      BY <1>8, <3>1, <3>2, <3>3, <3>4 DEF OneSendAtATime
  <2>2. CASE ~registered
    <3>1. inFlight' = inFlight /\ notif'[n].status # "sending"
      BY <1>3, <1>r, <1>8, <2>2
    <3> QED
      BY <1>a, <1>4, <1>8, <3>1 DEF OneSendAtATime
  <2> QED
    BY <2>1, <2>2
<1>12. PlacesKnown'
  <2>1. Unfinished(n) /\ Unfinished(n)' /\ \A k \in Notifs \ {n} : Unfinished(k)' <=> Unfinished(k)
    BY <1>4, <1>r, <1>8 DEF Unfinished, Ready
  <2>2. ~disturbed' => /\ ~disturbed
                       /\ \A f \in inFlight' : f = [notif |-> n, index |-> i]
    BY <1>3
  <2> QED
    BY <1>a, <1>1, <1>3, <1>4, <1>8, <2>1, <2>2 DEF PlacesKnown
<1>13. NumbersInOrder'
  <2>1. \A y : Has(queue, y) /\ notif'[y].attempts = 0 => y # n /\ notif[y].attempts = 0 /\ y \in Notifs
    BY <1>a, <1>r, <1>8 DEF NumbersInOrder
  <2>2. CASE notif[n].attempts # 0
    BY <1>a, <1>3, <1>8, <2>1, <2>2 DEF NumbersInOrder
  <2>3. CASE notif[n].attempts = 0
    <3>1. firstSends' = Append(firstSends, n)
      BY <1>3, <2>3
    <3>2. \A x : Has(firstSends, x) => x < n
      BY <1>a, <1>4, <2>3 DEF NumbersInOrder
    <3>3. n \in Nat
      BY <1>a, <1>4 DEF Notifs, NotifTypes
    <3>4. /\ firstSends' \in Seq(Nat) /\ Increasing(firstSends')
          /\ \A x : Has(firstSends', x) <=> Has(firstSends, x) \/ x = n
      BY <1>a, <3>1, <3>2, <3>3, AppendedToIncreasing DEF NumbersInOrder
    <3>5. \A y : Has(queue, y) /\ notif'[y].attempts = 0 => n < y
      <4> SUFFICES ASSUME NEW y, Has(queue, y), notif'[y].attempts = 0 PROVE n < y
        OBVIOUS
      <4>1. Ready(y) /\ y # n
        BY <1>a, <2>1 DEF NewArePending, Ready
      <4>2. PICK j \in DOMAIN queue : queue[j] = y
        BY DEF Has
      <4>3. ~(j < i) /\ j # i
        BY <1>1, <1>4, <4>1, <4>2
      <4>4. i < j
        <5>1. i \in Nat /\ j \in Nat
          BY <1>a, <1>4, LenProperties DEF NumbersInOrder
        <5> QED
          BY <4>3, <5>1
      <4> QED
        BY <1>a, <1>1, <1>4, <4>2, <4>4 DEF NumbersInOrder, Increasing
    <3>6. \A x : Has(queue, x) \/ Has(firstSends', x) => x \in Notifs
      BY <1>a, <1>4, <3>4 DEF NumbersInOrder
    <3>7. \A x, y : Has(firstSends', x) /\ Has(queue, y) /\ notif'[y].attempts = 0 => x < y
      BY <1>a, <2>1, <3>4, <3>5 DEF NumbersInOrder
    <3>8. queue' = queue /\ queue \in Seq(Nat) /\ Increasing(queue)
      BY <1>a, <1>3 DEF NumbersInOrder
    <3> QED
      BY <1>8, <3>4, <3>6, <3>7, <3>8 DEF NumbersInOrder
  <2> QED
    BY <2>2, <2>3
<1> QED
  BY <1>9, <1>10, <1>11, <1>12, <1>13 DEF QueueInv

\* The delay of a retry is over.
LEMMA DelayKeeps ==
  ASSUME QueueInv, NEW n \in Notifs, DelayPasses(n)
  PROVE  QueueInv'
<1>a. NotifTypes /\ NumbersInOrder /\ NewArePending /\ OneSendAtATime /\ PlacesKnown
  BY DEF QueueInv
<1>1. /\ notif' = [notif EXCEPT ![n].ripe = TRUE]
      /\ UNCHANGED <<idCounter, queue, inFlight, firstSends, disturbed>>
  BY DEF DelayPasses
<1>2. PICK r : r = [notif[n] EXCEPT !.ripe = TRUE]
  OBVIOUS
<1>3. r \in Notification /\ r.status = notif[n].status /\ r.attempts = notif[n].attempts
  BY <1>a, <1>2, NotificationIs DEF Notification
<1>4. notif' = [notif EXCEPT ![n] = r]
  BY <1>1, <1>2
<1>5. /\ Notifs' = Notifs /\ notif' \in Seq(Notification) /\ Len(notif') = idCounter'
      /\ notif'[n] = r /\ \A k \in Notifs \ {n} : notif'[k] = notif[k]
  BY <1>a, <1>1, <1>3, <1>4, NotifChanged
<1>6. \A k \in Notifs : notif'[k].status = notif[k].status /\ notif'[k].attempts = notif[k].attempts
  BY <1>3, <1>5
<1>7. NotifTypes'
  BY <1>a, <1>1, <1>5 DEF NotifTypes
<1>8. NumbersInOrder' /\ NewArePending'
  BY <1>a, <1>1, <1>5, <1>6 DEF NumbersInOrder, NewArePending
<1>9. OneSendAtATime'
  BY <1>a, <1>1, <1>5, <1>6 DEF OneSendAtATime
<1>10. PlacesKnown'
  BY <1>a, <1>1, <1>5, <1>6 DEF PlacesKnown, Unfinished
<1> QED
  BY <1>7, <1>8, <1>9, <1>10 DEF QueueInv

\* A send ends: its notification is marked st, and the queue is q.
LEMMA SendEndKeeps ==
  ASSUME QueueInv, NEW f \in inFlight, NEW st \in {"sent", "retrying"}, NEW q,
         SetStatus(f.notif, st), inFlight' = inFlight \ {f}, queue' = q,
         UNCHANGED <<idCounter, firstSends, disturbed>>,
         \/ st = "sent" /\ q = Splice(queue, f.index)
         \/ st = "retrying" /\ q = queue
  PROVE  QueueInv'
<1>a. NotifTypes /\ NumbersInOrder /\ NewArePending /\ OneSendAtATime /\ PlacesKnown
  BY DEF QueueInv
<1>1. PICK n \in Notifs : n = f.notif
  BY <1>a DEF NotifTypes
<1>2. PICK r : r = [notif[n] EXCEPT !.status = st]
  OBVIOUS
<1>3. r \in Notification /\ r.status = st /\ r.attempts = notif[n].attempts
  BY <1>a, <1>2, NotificationIs DEF Notification
<1>4. notif' = [notif EXCEPT ![n] = r]
  BY <1>1, <1>2 DEF SetStatus
<1>5. /\ Notifs' = Notifs /\ notif' \in Seq(Notification) /\ Len(notif') = idCounter'
      /\ notif'[n] = r /\ \A k \in Notifs \ {n} : notif'[k] = notif[k]
  BY <1>a, <1>3, <1>4, NotifChanged
<1>6. notif[n].attempts # 0 /\ notif[n].status = "sending"
  <2>1. notif[n].status = "sending"
    BY <1>a, <1>1 DEF OneSendAtATime
  <2> QED
    BY <1>a, <2>1 DEF NewArePending
<1>7. q \in Seq(Nat) /\ Increasing(q) /\ \A x : Has(q, x) => Has(queue, x)
  <2>1. CASE st = "retrying" /\ q = queue
    BY <1>a, <2>1 DEF NumbersInOrder
  <2>2. CASE st = "sent" /\ q = Splice(queue, f.index)
    <3>1. f.index \in Nat \ {0}
      BY <1>a DEF NotifTypes
    <3> QED
      BY <1>a, <2>2, <3>1, SpliceKeeps DEF NumbersInOrder
  <2> QED
    BY <2>1, <2>2
<1>8. NotifTypes'
  BY <1>a, <1>5 DEF NotifTypes
<1>9. NumbersInOrder'
  BY <1>a, <1>3, <1>5, <1>7 DEF NumbersInOrder
<1>10. NewArePending'
  BY <1>a, <1>3, <1>5, <1>6, <1>7 DEF NewArePending
<1>11. OneSendAtATime'
  <2>1. \A g \in inFlight \ {f} : g.notif # n
    BY <1>a, <1>1 DEF OneSendAtATime
  <2>2. \A g \in inFlight : g.notif # n => g \in inFlight \ {f}
    BY <1>1
  <2>3. notif'[n].status # "sending"
    BY <1>3, <1>5
  <2>4. \A k \in Notifs \ {n} : notif'[k].status = "sending" <=> \E g \in inFlight' : g.notif = k
    BY <1>a, <1>5, <2>2 DEF OneSendAtATime
  <2> QED
    BY <1>a, <1>5, <2>1, <2>3, <2>4 DEF OneSendAtATime
<1>12. PlacesKnown'
  <2> SUFFICES ASSUME ~disturbed
               PROVE  /\ \A k \in Notifs : Has(q, k) <=> Unfinished(k)'
                      /\ inFlight' = {}
    BY <1>5 DEF PlacesKnown
  <2>1. inFlight' = {}
    BY <1>a DEF PlacesKnown
  <2>2. /\ \A k \in Notifs : Has(queue, k) <=> Unfinished(k)
        /\ f.index \in DOMAIN queue /\ queue[f.index] = n
    BY <1>a, <1>1 DEF PlacesKnown
  <2>3. \A k \in Notifs \ {n} : Unfinished(k)' <=> Unfinished(k)
    BY <1>5 DEF Unfinished
  <2>4. CASE st = "retrying" /\ q = queue
    <3>1. Unfinished(n) /\ Unfinished(n)'
      BY <1>3, <1>5, <1>6, <2>4 DEF Unfinished
    <3> QED
      BY <2>1, <2>2, <2>3, <2>4, <3>1
  <2>5. CASE st = "sent" /\ q = Splice(queue, f.index)
    <3>1. ~Unfinished(n)'
      BY <1>3, <1>5, <2>5 DEF Unfinished
    <3>2. f.index \in Nat \ {0}
      BY <1>a DEF NotifTypes
    <3>3. \A x : Has(q, x) <=> Has(queue, x) /\ x # n
      BY <1>a, <2>2, <2>5, <3>2, SpliceKeeps DEF NumbersInOrder
    <3> QED
      BY <2>1, <2>2, <2>3, <3>1, <3>3
  <2> QED
    BY <2>4, <2>5
<1> QED
  BY <1>8, <1>9, <1>10, <1>11, <1>12 DEF QueueInv

\* No step disturbs the places of the notifications.
LEMMA NextQueueInv == ASSUME QueueInv, [Next]_vars PROVE QueueInv'
<1>1. ASSUME UNCHANGED <<idCounter, queue, notif, inFlight, firstSends, disturbed>>
      PROVE  QueueInv'
  BY <1>1 DEF QueueInv, NotifTypes, NumbersInOrder, NewArePending, OneSendAtATime, PlacesKnown,
              Notifs, Unfinished
<1>2. CASE UNCHANGED vars
  BY <1>1, <1>2 DEF vars
<1>3. ASSUME NEW c \in Channels, RegisterChannel(c) PROVE QueueInv'
  BY <1>1, <1>3 DEF RegisterChannel
<1>4. CASE Stop \/ TickIdle
  BY <1>1, <1>4 DEF Stop, TickIdle
<1>5. ASSUME NEW f \in inFlight, SendSucceeds(f) PROVE QueueInv'
  <2>1. /\ SetStatus(f.notif, "sent") /\ inFlight' = inFlight \ {f}
        /\ queue' = Splice(queue, f.index) /\ UNCHANGED <<idCounter, firstSends, disturbed>>
    BY <1>5 DEF SendSucceeds
  <2> QED
    BY <2>1, SendEndKeeps
<1>6. ASSUME NEW f \in inFlight, SendFails(f) PROVE QueueInv'
  <2>1. /\ SetStatus(f.notif, "retrying") /\ inFlight' = inFlight \ {f}
        /\ queue' = queue /\ UNCHANGED <<idCounter, firstSends, disturbed>>
    BY <1>6 DEF SendFails
  <2> QED
    BY <2>1, SendEndKeeps
<1> QED
  BY <1>2, <1>3, <1>4, <1>5, <1>6, EnqueueKeeps, ClearKeeps, TickGiveUpKeeps, TickSendKeeps,
     DelayKeeps DEF Next, Tick

\* The invariant holds in every state.
LEMMA QueueInvAlways == Spec => []QueueInv
  BY InitQueueInv, NextQueueInv, PTL DEF Spec

\* However many sends overlap, and whatever stops, clears and failures come
\* between: no notification is sent by two calls at a time (queue.ts:99-140).
THEOREM NeverSentTwiceAtOnce == Spec => []OneSendAtATime
<1>1. QueueInv => OneSendAtATime
  BY DEF QueueInv
<1> QED
  BY <1>1, QueueInvAlways, PTL

\* Whatever splices at stale indices take out of the queue, first sends start in
\* the order of the enqueues (queue.ts:22).
THEOREM SentInOrder == Spec => []FirstSendsInOrder
<1>1. QueueInv => FirstSendsInOrder
  BY DEF QueueInv, NumbersInOrder, Increasing, FirstSendsInOrder
<1> QED
  BY <1>1, QueueInvAlways, PTL

\* Only a tick during a send, or a clear, can make the queue lose a notification
\* that is not finished or keep one that is (queue.ts:115-149).
THEOREM NothingUnfinishedLeaves == Spec => []QueueHoldsUnfinished
<1>1. QueueInv => QueueHoldsUnfinished
  <2> SUFFICES ASSUME QueueInv, ~disturbed PROVE Queued = {n \in Notifs : Unfinished(n)}
    BY DEF QueueHoldsUnfinished
  <2>1. \A x : x \in Queued => x \in Notifs
    BY QueuedIsHas DEF QueueInv, NumbersInOrder
  <2>2. \A n \in Notifs : n \in Queued <=> Unfinished(n)
    BY QueuedIsHas DEF QueueInv, PlacesKnown
  <2> QED
    BY <2>1, <2>2
<1> QED
  BY <1>1, QueueInvAlways, PTL

-----------------------------------------------------------------------------
(* How a notification goes on *)

\* What a step may make of a notification: nothing, or the next thing of one that
\* is not finished.  It fails when its attempts are used up, and only then.
Advances(old, new) ==
    \/ new = old
    \/ /\ old.status \in {"pending", "sending", "retrying"}
       /\ new.attempts = old.attempts \/ (old.attempts < MaxRetries /\ new.attempts = old.attempts + 1)
       /\ new.status = "failed" => new.attempts = old.attempts /\ old.attempts >= MaxRetries

AllAdvance == \A n \in Notifs : n \in Notifs' /\ Advances(notif[n], notif'[n])

NewAreUntried ==
    \A n \in Notifs' \ Notifs : notif'[n].attempts = 0 /\ notif'[n].status = "pending"

\* When one notification advances, all do.
LEMMA OneAdvances ==
  ASSUME NotifTypes, NEW n \in Notifs, NEW r \in Notification,
         notif' = [notif EXCEPT ![n] = r], idCounter' = idCounter, Advances(notif[n], r)
  PROVE  AllAdvance /\ NewAreUntried
<1>1. /\ Notifs' = Notifs /\ notif'[n] = r
      /\ \A k \in Notifs \ {n} : notif'[k] = notif[k]
  BY NotifChanged
<1>2. \A k \in Notifs \ {n} : Advances(notif[k], notif'[k])
  BY <1>1 DEF Advances
<1> QED
  BY <1>1, <1>2 DEF AllAdvance, NewAreUntried

\* When no notification changes, all advance.
LEMMA NoneAdvances ==
  ASSUME UNCHANGED <<notif, idCounter>>
  PROVE  AllAdvance /\ NewAreUntried
  BY DEF AllAdvance, NewAreUntried, Advances, Notifs

\* A notification that is given another status.
LEMMA StatusAdvances ==
  ASSUME NotifTypes, NEW n \in Notifs, NEW st \in {"sent", "retrying", "failed"},
         SetStatus(n, st), idCounter' = idCounter,
         notif[n].status \in {"pending", "sending", "retrying"},
         st = "failed" => GiveUp(n)
  PROVE  AllAdvance /\ NewAreUntried
<1>1. PICK r : r = [notif[n] EXCEPT !.status = st]
  OBVIOUS
<1>2. r \in Notification /\ r.status = st /\ r.attempts = notif[n].attempts
  BY <1>1, NotificationIs DEF Notification
<1>3. notif' = [notif EXCEPT ![n] = r]
  BY <1>1 DEF SetStatus
<1>4. Advances(notif[n], r)
  BY <1>2 DEF Advances, GiveUp
<1> QED
  BY <1>2, <1>3, <1>4, OneAdvances

\* An attempt is counted, and only while there is one left.
LEMMA SendAdvances == ASSUME QueueInv, TickSend PROVE AllAdvance /\ NewAreUntried
<1>a. NotifTypes
  BY DEF QueueInv
<1>1. PICK i, n : i = ReadyIndex /\ n = queue[i]
  OBVIOUS
<1>2. PICK q, b, w : /\ q \in BOOLEAN /\ q = FALSE /\ b = notif[n].attempts + 1
                     /\ w = IF notif[n].channel \in channelMap THEN "sending" ELSE "retrying"
  OBVIOUS
<1>3. /\ i # 0 /\ ~GiveUp(n) /\ idCounter' = idCounter
      /\ notif' = [notif EXCEPT ![n] = Attempted(notif[n], b, q, w)]
  BY <1>1, <1>2 DEF TickSend, Attempted
<1>4. n \in Notifs /\ Ready(n)
  BY <1>1, <1>3, TakenUp
<1>5. notif[n] \in Notification
  BY <1>a, <1>4, NotificationIs
<1>6. notif[n].attempts \in Nat
  BY <1>5 DEF Notification
<1>7. b \in Nat /\ w \in {"sending", "retrying"} /\ q \in BOOLEAN
  BY <1>2, <1>6
<1>8. PICK r : r = Attempted(notif[n], b, q, w)
  OBVIOUS
<1>9. r \in Notification /\ r.attempts = b /\ r.status = w
  BY <1>5, <1>7, <1>8, AttemptCounted
<1>10. Advances(notif[n], r)
  <2>1. notif[n].attempts < MaxRetries
    BY <1>3, <1>6, QueueAssumption DEF GiveUp
  <2>2. notif[n].status \in {"pending", "sending", "retrying"}
    BY <1>4 DEF Ready
  <2>3. r.status # "failed"
    BY <1>7, <1>9
  <2> QED
    BY <1>2, <1>9, <2>1, <2>2, <2>3 DEF Advances
<1> QED
  BY <1>a, <1>3, <1>4, <1>8, <1>9, <1>10, OneAdvances

\* A new notification changes no other.
LEMMA EnqueueAdvances ==
  ASSUME NotifTypes, NEW c \in Channels, Enqueue(c)
  PROVE  AllAdvance /\ NewAreUntried
<1>1. PICK k \in Nat : k = idCounter + 1
  BY DEF NotifTypes
<1>2. PICK r : r = [channel |-> c, status |-> "pending", attempts |-> 0, ripe |-> FALSE]
  OBVIOUS
<1>3. r \in Notification /\ notif' = Append(notif, r) /\ idCounter' = k
  BY <1>1, <1>2 DEF Enqueue, Notification
<1>4. notif'[k] = r /\ \A n \in Notifs : notif'[n] = notif[n]
  BY <1>1, <1>3, AppendProperties DEF NotifTypes, Notifs
<1>5. Notifs' = Notifs \union {k}
  <2>1. \A m \in Nat : 1..(m + 1) = (1..m) \union {m + 1}
    OBVIOUS
  <2> QED
    BY <1>1, <1>3, <2>1 DEF NotifTypes, Notifs
<1>6. AllAdvance
  BY <1>4, <1>5 DEF AllAdvance, Advances
<1>7. NewAreUntried
  BY <1>2, <1>4, <1>5 DEF NewAreUntried
<1> QED
  BY <1>6, <1>7

\* Every step of the queue takes every notification on.
LEMMA StepAdvances == ASSUME QueueInv, [Next]_vars PROVE AllAdvance /\ NewAreUntried
<1>a. NotifTypes /\ OneSendAtATime
  BY DEF QueueInv
<1>1. CASE UNCHANGED vars
  BY <1>1, NoneAdvances DEF vars
<1>2. ASSUME NEW c \in Channels, RegisterChannel(c) PROVE AllAdvance /\ NewAreUntried
  BY <1>2, NoneAdvances DEF RegisterChannel
<1>3. CASE Stop \/ Clear \/ TickIdle
  BY <1>3, NoneAdvances DEF Stop, Clear, TickIdle
<1>4. CASE TickGiveUp
  <2>1. PICK i, n : i = ReadyIndex /\ n = queue[i]
    OBVIOUS
  <2>2. i # 0 /\ GiveUp(n) /\ SetStatus(n, "failed") /\ idCounter' = idCounter
    BY <1>4, <2>1 DEF TickGiveUp
  <2>3. n \in Notifs /\ Ready(n)
    BY <2>1, <2>2, TakenUp
  <2>4. notif[n].status \in {"pending", "sending", "retrying"}
    BY <2>3 DEF Ready
  <2> QED
    BY <1>a, <2>2, <2>3, <2>4, StatusAdvances
<1>5. ASSUME NEW n \in Notifs, DelayPasses(n) PROVE AllAdvance /\ NewAreUntried
  <2>1. PICK r : r = [notif[n] EXCEPT !.ripe = TRUE]
    OBVIOUS
  <2>2. r \in Notification /\ r.status = notif[n].status /\ r.attempts = notif[n].attempts
    BY <1>a, <2>1, NotificationIs DEF Notification
  <2>3. /\ notif' = [notif EXCEPT ![n] = r] /\ idCounter' = idCounter
        /\ notif[n].status \in {"sending", "retrying"}
    BY <1>5, <2>1 DEF DelayPasses
  <2>4. Advances(notif[n], r)
    BY <2>2, <2>3 DEF Advances
  <2> QED
    BY <1>a, <2>2, <2>3, <2>4, OneAdvances
<1>6. ASSUME NEW f \in inFlight, SendSucceeds(f) \/ SendFails(f) PROVE AllAdvance /\ NewAreUntried
  <2>1. PICK n \in Notifs : n = f.notif
    BY <1>a DEF NotifTypes
  <2>2. notif[n].status \in {"pending", "sending", "retrying"}
    BY <1>a, <2>1 DEF OneSendAtATime
  <2>3. PICK st \in {"sent", "retrying"} : SetStatus(n, st) /\ idCounter' = idCounter
    BY <1>6, <2>1 DEF SendSucceeds, SendFails
  <2>4. st \in {"sent", "retrying", "failed"} /\ st # "failed"
    OBVIOUS
  <2> QED
    BY <1>a, <2>2, <2>3, <2>4, StatusAdvances
<1> QED
  BY <1>a, <1>1, <1>2, <1>3, <1>4, <1>5, <1>6, EnqueueAdvances, SendAdvances DEF Next, Tick

-----------------------------------------------------------------------------
(* What EveryNotificationEnds rests on: the attempts end, and what ended stays *)

\* No notification is tried more often than MaxRetries says, and only one that was
\* tried so often is given up (queue.ts:117-128).
AttemptsUsedUp ==
    \A n \in Notifs : /\ notif[n].attempts <= MaxRetries
                      /\ notif[n].status = "failed" => notif[n].attempts = MaxRetries

\* A notification that was sent or given up is never taken up again, not even one
\* that a splice at a stale index has left in the queue (queue.ts:99-105).
FinishedForGood ==
    [][\A n \in Notifs : ~Unfinished(n) => n \in Notifs' /\ notif'[n] = notif[n]]_vars

\* While something is queued the timer runs, unless stop() was called
\* (queue.ts:63-66, 76-92, 107-113).
TimerIsSet == queue # <<>> => processing \/ stopped

\* The attempts are bounded by the retries that were configured, and a
\* notification fails when they are used up, however the ticks overlap.
THEOREM TriedOftenEnough == Spec => []AttemptsUsedUp
<1>1. Init => AttemptsUsedUp
  BY DEF Init, AttemptsUsedUp, Notifs
<1>2. ASSUME QueueInv, QueueInv', AttemptsUsedUp, [Next]_vars PROVE AttemptsUsedUp'
  <2>1. AllAdvance /\ NewAreUntried
    BY <1>2, StepAdvances
  <2> SUFFICES ASSUME NEW n \in Notifs'
               PROVE  /\ notif'[n].attempts <= MaxRetries
                      /\ notif'[n].status = "failed" => notif'[n].attempts = MaxRetries
    BY DEF AttemptsUsedUp
  <2>2. CASE n \notin Notifs
    BY <2>1, <2>2, QueueAssumption DEF NewAreUntried
  <2>3. CASE n \in Notifs
    <3>1. /\ Advances(notif[n], notif'[n]) /\ notif[n].attempts <= MaxRetries
          /\ notif[n].status = "failed" => notif[n].attempts = MaxRetries
      BY <1>2, <2>1, <2>3 DEF AllAdvance, AttemptsUsedUp
    <3>2. notif[n].attempts \in Nat
      <4>1. notif[n] \in Notification
        BY <1>2, <2>3, NotificationIs DEF QueueInv
      <4> QED
        BY <4>1 DEF Notification
    <3> QED
      BY <3>1, <3>2, QueueAssumption DEF Advances
  <2> QED
    BY <2>2, <2>3
<1> QED
  BY <1>1, <1>2, QueueInvAlways, PTL DEF Spec

\* What was sent is not sent again, and what was given up is not tried again.
THEOREM FinishedStays == Spec => FinishedForGood
<1>1. ASSUME QueueInv, [Next]_vars
      PROVE  [\A n \in Notifs : ~Unfinished(n) => n \in Notifs' /\ notif'[n] = notif[n]]_vars
  <2>1. AllAdvance
    BY <1>1, StepAdvances
  <2> QED
    BY <2>1 DEF AllAdvance, Advances, Unfinished
<1> QED
  BY <1>1, QueueInvAlways, PTL DEF Spec, FinishedForGood

\* Nothing that waits in the queue waits for a timer that nobody has set.
THEOREM QueuedIsTimed == Spec => []TimerIsSet
<1>1. Init => TimerIsSet
  BY DEF Init, TimerIsSet
<1>2. ASSUME QueueInv, TimerIsSet, [Next]_vars PROVE TimerIsSet'
  <2>1. ASSUME UNCHANGED <<queue, processing, stopped>> PROVE TimerIsSet'
    BY <1>2, <2>1 DEF TimerIsSet
  <2>2. ASSUME NEW c \in Channels, RegisterChannel(c) \/ Enqueue(c) PROVE TimerIsSet'
    BY <2>1, <2>2 DEF RegisterChannel, Enqueue, TimerIsSet
  <2>3. CASE Stop \/ Clear
    BY <2>3 DEF Stop, Clear, TimerIsSet
  <2>4. CASE Tick
    <3>1. CASE TickIdle
      <4>1. (processing' <=> queue # <<>>) /\ queue' = queue
        BY <3>1 DEF TickIdle
      <4> QED
        BY <4>1 DEF TimerIsSet
    <3>2. CASE TickGiveUp \/ TickSend
      <4>1. processing /\ processing' = processing
        BY <3>2 DEF TickGiveUp, TickSend, Fires
      <4> QED
        BY <4>1 DEF TimerIsSet
    <3> QED
      BY <2>4, <3>1, <3>2 DEF Tick
  <2>5. ASSUME NEW f \in inFlight, SendSucceeds(f) PROVE TimerIsSet'
    <3>1. f.index \in Nat \ {0}
      BY <1>2 DEF QueueInv, NotifTypes
    <3>2. Splice(<<>>, f.index) = <<>>
      BY <3>1, EmptySeq DEF Splice
    <3> QED
      BY <1>2, <2>5, <3>2 DEF SendSucceeds, TimerIsSet
  <2>6. ASSUME NEW f \in inFlight, SendFails(f) PROVE TimerIsSet'
    BY <2>1, <2>6 DEF SendFails
  <2>7. ASSUME NEW n \in Notifs, DelayPasses(n) PROVE TimerIsSet'
    BY <2>1, <2>7 DEF DelayPasses
  <2>8. CASE UNCHANGED vars
    BY <2>1, <2>8 DEF vars
  <2> QED
    BY <1>2, <2>2, <2>3, <2>4, <2>5, <2>6, <2>7, <2>8 DEF Next
<1> QED
  BY <1>1, <1>2, QueueInvAlways, PTL DEF Spec

=============================================================================
