-------------------------- MODULE NotificationQueue --------------------------
(***************************************************************************)
(* The in-memory notification queue of packages/notification (queue.ts).   *)
(*                                                                         *)
(* An interval timer calls processNext, which does not wait for the call   *)
(* before it: the sends of several ticks overlap when a channel is slower  *)
(* than the interval.  Each call remembers the index at which it found its *)
(* notification and removes that index from the queue when the send ends.  *)
(* A notification is an object that the queue and the calls in flight      *)
(* share; it is named here by its number, the idCounter of its id.         *)
(***************************************************************************)
EXTENDS Integers, Sequences, SequencesExt, FiniteSets

CONSTANTS
    Channels,    \* channel names
    MaxRetries,  \* config.maxRetries
    MaxNotifs,   \* bound: notifications enqueued
    MaxInFlight, \* bound: sends in flight
    MaxClears    \* bound: calls of clear

ASSUME QueueAssumption ==
    /\ MaxRetries \in Nat
    /\ MaxNotifs \in Nat
    /\ MaxInFlight \in Nat
    /\ MaxClears \in Nat

VARIABLES
    idCounter,  \* this.idCounter
    queue,      \* this.queue, the numbers of the notifications in it
    processing, \* this.processing, true exactly when the timer is set
    channelMap, \* the registered channels
    notif,      \* every notification made so far
    inFlight,   \* processNext calls that await channel.send
    firstSends, \* history: the notifications in the order of their first send
    stopped,    \* history: stop was called from outside since the last start
    disturbed,  \* history: a tick did something while a send was in flight, or
                \* the queue was cleared
    clears      \* history: the number of calls of clear

vars == <<idCounter, queue, processing, channelMap, notif, inFlight, firstSends,
          stopped, disturbed, clears>>

Notifs == 1..idCounter

Queued == ToSet(queue)

SetStatus(n, st) == notif' = [notif EXCEPT ![n].status = st]

-----------------------------------------------------------------------------
RegisterChannel(c) ==
    /\ c \notin channelMap
    /\ channelMap' = channelMap \union {c}
    /\ UNCHANGED <<idCounter, queue, processing, notif, inFlight, firstSends,
                   stopped, disturbed, clears>>

Enqueue(c) ==
    /\ idCounter < MaxNotifs
    /\ idCounter' = idCounter + 1
    /\ notif' = Append(notif, [channel |-> c, status |-> "pending",
                               attempts |-> 0, ripe |-> FALSE])
    /\ queue' = Append(queue, idCounter + 1)
    /\ processing' = TRUE
    /\ stopped' = FALSE
    /\ UNCHANGED <<channelMap, inFlight, firstSends, disturbed,
                   clears>>

\* stop() called by the plugin's destroy.
Stop ==
    /\ processing' = FALSE
    /\ stopped' = TRUE
    /\ UNCHANGED <<idCounter, queue, channelMap, notif, inFlight, firstSends, disturbed,
                   clears>>

Clear ==
    /\ clears < MaxClears
    /\ clears' = clears + 1
    /\ queue' = <<>>
    /\ disturbed' = TRUE
    /\ UNCHANGED <<idCounter, processing, channelMap, notif, inFlight, firstSends,
                   stopped>>

-----------------------------------------------------------------------------
(* One tick of the timer: processNext up to its await *)

\* Mutant: a notification that is being sent is found again.
ReadyOrSending(n) ==
    \/ notif[n].status \in {"pending", "sending"}
    \/ notif[n].status = "retrying" /\ notif[n].ripe

Ready(n) ==
    \/ notif[n].status = "pending"
    \/ notif[n].status = "retrying" /\ notif[n].ripe

\* Mutant: the newest is taken first.
ReadyIndexLast == SelectLastInSeq(queue, Ready)

\* 0 when there is none.
ReadyIndex == SelectInSeq(queue, Ready)

GiveUp(n) == notif[n].attempts >= MaxRetries

\* The timer fires, whether or not a send is in flight.
Fires == processing

NoteDisturbance == disturbed' = (disturbed \/ inFlight # {})

TickIdle ==
    /\ Fires
    /\ ReadyIndex = 0
    /\ processing' = (queue # <<>>)
    /\ UNCHANGED <<idCounter, queue, channelMap, notif, inFlight, firstSends,
                   stopped, disturbed, clears>>

TickGiveUp ==
    LET n == queue[ReadyIndex]
    IN  /\ Fires
        /\ ReadyIndex # 0
        /\ GiveUp(n)
        /\ SetStatus(n, "failed")
        /\ queue' = RemoveAt(queue, ReadyIndex)
        /\ NoteDisturbance
        /\ UNCHANGED <<idCounter, processing, channelMap, inFlight, firstSends,
                       stopped, clears>>

NoteFirstSend(n) ==
    firstSends' = IF notif[n].attempts = 0 THEN Append(firstSends, n) ELSE firstSends

\* The attempt is counted, and waits for the channel or fails for want of one.
TickSend ==
    LET n == queue[ReadyIndex]
        registered == notif[n].channel \in channelMap
    IN  /\ Fires
        /\ ReadyIndex # 0
        /\ ~GiveUp(n)
        /\ registered => Cardinality(inFlight) < MaxInFlight
        /\ notif' = [notif EXCEPT ![n].attempts = @ + 1,
                                  ![n].ripe     = FALSE,
                                  ![n].status   = IF registered THEN "sending"
                                                  ELSE "retrying"]
        /\ inFlight' = IF registered
                       THEN inFlight \union {[notif |-> n, index |-> ReadyIndex]}
                       ELSE inFlight
        /\ NoteFirstSend(n)
        /\ NoteDisturbance
        /\ UNCHANGED <<idCounter, queue, processing, channelMap, stopped, clears>>

\* The retry delay, counted from the start of the last attempt, has passed.
DelayPasses(n) ==
    /\ notif[n].status \in {"sending", "retrying"}
    /\ ~notif[n].ripe
    /\ notif' = [notif EXCEPT ![n].ripe = TRUE]
    /\ UNCHANGED <<idCounter, queue, processing, channelMap, inFlight, firstSends,
                   stopped, disturbed, clears>>

-----------------------------------------------------------------------------
(* A send ends *)

\* Array.splice(index, 1): nothing happens beyond the end of the array.
Splice(seq, i) == IF i <= Len(seq) THEN RemoveAt(seq, i) ELSE seq

\* Mutant: a sent notification is not removed from the queue.
SendSucceedsKept(f) ==
    /\ SetStatus(f.notif, "sent")
    /\ inFlight' = inFlight \ {f}
    /\ UNCHANGED <<idCounter, queue, processing, channelMap, firstSends, stopped,
                   disturbed, clears>>

SendSucceeds(f) ==
    /\ SetStatus(f.notif, "sent")
    /\ queue' = Splice(queue, f.index)
    /\ inFlight' = inFlight \ {f}
    /\ UNCHANGED <<idCounter, processing, channelMap, firstSends, stopped,
                   disturbed, clears>>

\* Mutant: a failed send leaves the notification marked as sending.
SendFailsForgotten(f) ==
    /\ inFlight' = inFlight \ {f}
    /\ UNCHANGED <<idCounter, queue, processing, channelMap, notif, firstSends,
                   stopped, disturbed, clears>>

\* The channel answers with a failure, or throws.
SendFails(f) ==
    /\ SetStatus(f.notif, "retrying")
    /\ inFlight' = inFlight \ {f}
    /\ UNCHANGED <<idCounter, queue, processing, channelMap, firstSends, stopped,
                   disturbed, clears>>

-----------------------------------------------------------------------------
Init ==
    /\ idCounter = 0
    /\ queue = <<>>
    /\ processing = FALSE
    /\ channelMap = {}
    /\ notif = <<>>
    /\ inFlight = {}
    /\ firstSends = <<>>
    /\ stopped = FALSE
    /\ disturbed = FALSE
    /\ clears = 0

Tick == TickIdle \/ TickGiveUp \/ TickSend

Next ==
    \/ \E c \in Channels : RegisterChannel(c) \/ Enqueue(c)
    \/ Stop
    \/ Clear
    \/ Tick
    \/ \E n \in Notifs : DelayPasses(n)
    \/ \E f \in inFlight : SendSucceeds(f) \/ SendFails(f)

Spec == Init /\ [][Next]_vars

(***************************************************************************)
(* The interval timer and the retry delays run, and a channel answers in   *)
(* the end (queue.ts has no timeout of its own: this is assumed of it).    *)
(***************************************************************************)
Fairness ==
    /\ WF_vars(Tick)
    /\ \A n \in 1..MaxNotifs : WF_vars(n \in Notifs /\ DelayPasses(n))
    /\ \A n \in 1..MaxNotifs :
         WF_vars(\E f \in inFlight : f.notif = n /\ (SendSucceeds(f) \/ SendFails(f)))

FairSpec == Spec /\ Fairness

-----------------------------------------------------------------------------
(* Properties *)

Unfinished(n) == notif[n].status \in {"pending", "sending", "retrying"}

\* A notification is in flight at most once, and exactly while it is marked as
\* sending, however many sends overlap (queue.ts:99-140).
OneSendAtATime ==
    /\ \A f, g \in inFlight : f.notif = g.notif => f = g
    /\ \A n \in Notifs : notif[n].status = "sending" <=> \E f \in inFlight : f.notif = n

\* First sends start in the order of the enqueues (FIFO, queue.ts:22), except
\* that a notification whose place was taken away is never sent.
FirstSendsInOrder ==
    \A i, j \in DOMAIN firstSends : i < j => firstSends[i] < firstSends[j]

\* As long as no tick took up a notification during a send and nobody cleared the
\* queue, it holds every unfinished notification and no other (queue.ts:115-149).
QueueHoldsUnfinished ==
    ~disturbed => Queued = {n \in Notifs : Unfinished(n)}

\* ... and every notification is sent or given up, unless the queue is stopped.
EveryNotificationEnds ==
    \A n \in 1..MaxNotifs :
        n \in Queued ~> (n \in Notifs \ Queued /\ ~Unfinished(n)) \/ stopped \/ disturbed

-----------------------------------------------------------------------------
(* What the code does not guarantee *)

\* A notification that was sent is removed from the queue (queue.ts:143-145).
SentIsRemoved == \A n \in Queued : notif[n].status # "sent"

=============================================================================
