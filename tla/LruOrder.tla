------------------------------ MODULE LruOrder ------------------------------
(***************************************************************************)
(* What an LRU cache promises: it holds at most MaxSize keys, it knows in  *)
(* which order they were last used, and to make room for a new key it      *)
(* evicts the one that was used least recently.                            *)
(***************************************************************************)
EXTENDS Naturals, Sequences, SequencesExt

CONSTANTS Keys, MaxSize, Nil

VARIABLES
    recency, \* the cached keys, the most recently used first
    used     \* the key used last, if it is still cached

vars == <<recency, used>>

Init == recency = << >> /\ used = Nil

\* A cached key is read or written.
Touch(k) ==
    /\ \E i \in DOMAIN recency :
         /\ recency[i] = k
         /\ recency' = <<k>> \o RemoveAt(recency, i)
    /\ used' = k

\* A new key is written.
Insert(k) ==
    /\ k \notin ToSet(recency)
    /\ recency' = <<k>> \o (IF Len(recency) < MaxSize THEN recency ELSE Front(recency))
    /\ used' = k

\* A key is deleted, or has expired.
Drop(k) ==
    /\ \E i \in DOMAIN recency :
         /\ recency[i] = k
         /\ recency' = RemoveAt(recency, i)
    /\ used' = IF used = k THEN Nil ELSE used

Clear == recency' = << >> /\ used' = Nil

Next == Clear \/ \E k \in Keys : Touch(k) \/ Insert(k) \/ Drop(k)

Spec == Init /\ [][Next]_vars

=============================================================================
