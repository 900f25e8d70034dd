------------------------------ MODULE GraphQL ------------------------------
(***************************************************************************)
(* The run-time core of packages/graphql: the data loader of a request     *)
(* (dataloader.ts), the update mutations of any request (resolvers.ts) and *)
(* the subscriptions they feed (pubsub.ts, subscriptions.ts).              *)
(*                                                                         *)
(* The updates of all records are numbered in the order in which the       *)
(* database applied them; a version of a record is the number of the       *)
(* update that made it, 0 a record that is not there.  The database and    *)
(* the services are behind the broker and answer calls in any order.       *)
(***************************************************************************)
EXTENDS Integers, Sequences, SequencesExt, FiniteSets

CONSTANTS
    Keys,         \* record ids of the object
    MaxBatchSize, \* options.maxBatchSize
    MaxCalls,     \* bound: loads, cache clearings and subscriptions, which count twice
    MaxUpdates    \* bound: update mutations

ASSUME GraphQLAssumption ==
    /\ MaxBatchSize \in Nat \ {0}
    /\ MaxCalls \in Nat /\ MaxUpdates \in Nat

None == -1

VARIABLES
    db,         \* the database: key -> its version
    writer,     \* history: update number -> the key it changed
    mutations,  \* update mutations that await their audit entry, by number
    published,  \* history: the updates published, in that order
    iterators,  \* the async iterators opened
    loads,      \* every load: its key, its answer, whether the cache gave it,
                \* and (history) the version of the record at the call
    batch,      \* loader.batch, numbers of loads
    batchScheduled, \* loader.batchScheduled
    microtasks, \* queued calls of dispatchBatch
    inFlight,   \* dispatchBatch calls that await batchFn
    cache,      \* loader.cache: key -> version, or None
    clears      \* history: calls of clearCache

graphQLVars == <<db, writer, mutations, published, iterators, loads, batch,
          batchScheduled, microtasks, inFlight, cache, clears>>

mutationVars == <<db, writer, mutations>>
loaderVars == <<loads, batch, batchScheduled, microtasks, inFlight, cache, clears>>
pubSubVars == <<published, iterators>>

Calls == Len(loads) + clears + 2 * Len(iterators)

-----------------------------------------------------------------------------
(* The data loader *)

\* Mutant: a load joins the batch in flight that already asks for its key.
LoadJoins(k) ==
    /\ Calls < MaxCalls
    /\ IF cache[k] # None
       THEN /\ loads' = Append(loads, [key |-> k, at |-> db[k], cached |-> TRUE,
                                       answer |-> cache[k]])
            /\ UNCHANGED <<batch, batchScheduled, microtasks, inFlight>>
       ELSE /\ loads' = Append(loads, [key |-> k, at |-> db[k], cached |-> FALSE,
                                       answer |-> None])
            /\ IF \E i \in DOMAIN inFlight : \E m \in ToSet(inFlight[i].items) : loads[m].key = k
               THEN LET i == CHOOSE n \in DOMAIN inFlight :
                               \E m \in ToSet(inFlight[n].items) : loads[m].key = k
                        j == CHOOSE p \in DOMAIN inFlight[i].items :
                               loads[inFlight[i].items[p]].key = k
                        old == inFlight[i]
                    IN  /\ inFlight' = [inFlight EXCEPT ![i].items = Append(@, Len(loads) + 1),
                                           ![i].values = IF @ = <<>> THEN @
                                                         ELSE Append(@, old.values[j])]
                        /\ UNCHANGED <<batch, batchScheduled, microtasks>>
               ELSE /\ batch' = Append(batch, Len(loads) + 1)
                    /\ batchScheduled' = TRUE
                    /\ microtasks' = IF batchScheduled THEN microtasks ELSE microtasks + 1
                    /\ UNCHANGED inFlight
    /\ UNCHANGED <<mutationVars, pubSubVars, cache, clears>>

Load(k) ==
    /\ Calls < MaxCalls
    /\ loads' = Append(loads, [key |-> k, at |-> db[k], cached |-> cache[k] # None,
                               answer |-> cache[k]])
    /\ IF cache[k] # None
       THEN UNCHANGED <<batch, batchScheduled, microtasks>>
       ELSE /\ batch' = Append(batch, Len(loads) + 1)
            /\ batchScheduled' = TRUE
            /\ microtasks' = IF batchScheduled THEN microtasks ELSE microtasks + 1
    /\ UNCHANGED <<mutationVars, pubSubVars, inFlight, cache, clears>>

\* splice(0, maxBatchSize); an empty batch ends the call.
DispatchBatch ==
    LET n == IF Len(batch) < MaxBatchSize THEN Len(batch) ELSE MaxBatchSize
    IN  /\ microtasks > 0
        /\ microtasks' = microtasks - 1
        /\ batchScheduled' = FALSE
        /\ batch' = SubSeq(batch, n + 1, Len(batch))
        /\ inFlight' = IF n = 0 THEN inFlight
                       ELSE Append(inFlight, [items |-> SubSeq(batch, 1, n), values |-> <<>>])
        /\ UNCHANGED <<mutationVars, pubSubVars, loads, cache, clears>>

\* The database executes data.find, or the call fails and stands for nulls.
Find(i) ==
    /\ inFlight[i].values = <<>>
    /\ \/ inFlight' = [inFlight EXCEPT ![i].values =
                          [j \in DOMAIN inFlight[i].items |-> db[loads[inFlight[i].items[j]].key]]]
       \/ inFlight' = [inFlight EXCEPT ![i].values = [j \in DOMAIN inFlight[i].items |-> 0]]
    /\ UNCHANGED <<mutationVars, pubSubVars, loads, batch, batchScheduled, microtasks,
                   cache, clears>>

\* Mutant: what a full batch left behind is not dispatched.
FoundOnly(i) ==
    LET b == inFlight[i]
        at(m) == CHOOSE j \in DOMAIN b.items : b.items[j] = m
        hits(k) == {j \in DOMAIN b.items : loads[b.items[j]].key = k /\ b.values[j] # 0}
    IN  /\ b.values # <<>>
        /\ loads' = [m \in DOMAIN loads |-> IF m \in ToSet(b.items)
                       THEN [loads[m] EXCEPT !.answer = b.values[at(m)]] ELSE loads[m]]
        /\ cache' = [k \in Keys |-> IF hits(k) = {} THEN cache[k]
                                    ELSE b.values[CHOOSE j \in hits(k) : TRUE]]
        /\ inFlight' = RemoveAt(inFlight, i)
        /\ UNCHANGED <<mutationVars, pubSubVars, batch, batchScheduled, microtasks, clears>>

\* The answer arrives: each item gets the result of its index, records are
\* cached, and what a full batch left behind is dispatched.
Found(i) ==
    LET b == inFlight[i]
        at(m) == CHOOSE j \in DOMAIN b.items : b.items[j] = m
        hits(k) == {j \in DOMAIN b.items : loads[b.items[j]].key = k /\ b.values[j] # 0}
    IN  /\ b.values # <<>>
        /\ loads' = [m \in DOMAIN loads |-> IF m \in ToSet(b.items)
                       THEN [loads[m] EXCEPT !.answer = b.values[at(m)]] ELSE loads[m]]
        /\ cache' = [k \in Keys |-> IF hits(k) = {} THEN cache[k]
                                    ELSE b.values[CHOOSE j \in hits(k) : TRUE]]
        /\ inFlight' = RemoveAt(inFlight, i)
        /\ microtasks' = IF batch # <<>> THEN microtasks + 1 ELSE microtasks
        /\ UNCHANGED <<mutationVars, pubSubVars, batch, batchScheduled, clears>>

ClearCache ==
    /\ Calls < MaxCalls
    /\ clears' = clears + 1
    /\ cache' = [k \in Keys |-> None]
    /\ UNCHANGED <<mutationVars, pubSubVars, loads, batch, batchScheduled, microtasks, inFlight>>

-----------------------------------------------------------------------------
(* Mutations and subscriptions *)

\* An update mutation passed its permission check and the database applies it.
\* Until then it holds nothing, and an error leaves nothing behind.
Apply(k) ==
    /\ Len(writer) < MaxUpdates
    /\ writer' = Append(writer, k)
    /\ db' = [db EXCEPT ![k] = Len(writer')]
    /\ mutations' = mutations \union {Len(writer')}
    /\ UNCHANGED <<loaderVars, pubSubVars>>

\* The audit entry fails: the caller gets an error, nothing is published.
AuditFails(e) ==
    /\ mutations' = mutations \ {e}
    /\ UNCHANGED <<db, writer, loaderVars, pubSubVars>>

\* Mutant: a queued event goes before those that wait.
PushFront(it, e) ==
    IF ~it.subscribed THEN it
    ELSE IF it.waiting THEN [it EXCEPT !.got = Append(@, e), !.waiting = FALSE]
    ELSE [it EXCEPT !.queue = <<e>> \o @]

\* The callback of asyncIterator: the promise of next() is resolved, or the
\* event queued.
Push(it, e) ==
    IF ~it.subscribed THEN it
    ELSE IF it.waiting THEN [it EXCEPT !.got = Append(@, e), !.waiting = FALSE]
    ELSE [it EXCEPT !.queue = Append(@, e)]

\* The audit entry is written: afterUpdate publishes, the mutation is done.
Publish(e) ==
    /\ published' = Append(published, e)
    /\ iterators' = [j \in DOMAIN iterators |-> Push(iterators[j], e)]
    /\ mutations' = mutations \ {e}
    /\ UNCHANGED <<db, writer, loaderVars>>

\* A subscription operation: asyncIterator.
Subscribe ==
    /\ Calls + 1 < MaxCalls
    /\ iterators' = Append(iterators, [subscribed |-> TRUE, waiting |-> FALSE, queue |-> <<>>,
                                       got |-> <<>>, from |-> Len(published), end |-> None])
    /\ UNCHANGED <<mutationVars, published, loaderVars>>

\* next(), by a consumer that asks for an event when it has the one before.
NextEvent(j) ==
    LET it == iterators[j]
    IN  /\ ~it.waiting
        /\ iterators' = [iterators EXCEPT ![j] =
              IF it.queue # <<>>
              THEN [it EXCEPT !.got = Append(@, Head(it.queue)), !.queue = Tail(@)]
              ELSE [it EXCEPT !.waiting = TRUE]]
        /\ UNCHANGED <<mutationVars, published, loaderVars>>

Unsubscribed(it) ==
    IF it.subscribed THEN [it EXCEPT !.subscribed = FALSE, !.end = Len(published)] ELSE it

\* return() and throw(); a promise of next() stays as it is.
Return(j) ==
    /\ iterators[j].subscribed
    /\ iterators' = [iterators EXCEPT ![j] = Unsubscribed(@)]
    /\ UNCHANGED <<mutationVars, published, loaderVars>>

\* stop() of the plugin: pubsub.clear().
Stop ==
    /\ \E j \in DOMAIN iterators : iterators[j].subscribed
    /\ iterators' = [j \in DOMAIN iterators |-> Unsubscribed(iterators[j])]
    /\ UNCHANGED <<mutationVars, published, loaderVars>>

-----------------------------------------------------------------------------
GraphQLInit ==
    /\ db = [k \in Keys |-> 0] /\ writer = <<>> /\ mutations = {}
    /\ published = <<>> /\ iterators = <<>>
    /\ loads = <<>> /\ batch = <<>> /\ batchScheduled = FALSE /\ microtasks = 0
    /\ inFlight = <<>> /\ cache = [k \in Keys |-> None] /\ clears = 0

MutationStep ==
    \/ \E k \in Keys : Apply(k)
    \/ \E e \in mutations : AuditFails(e) \/ Publish(e)

SubscriptionStep ==
    \/ Subscribe \/ Stop
    \/ \E j \in DOMAIN iterators : NextEvent(j) \/ Return(j)

Answers == DispatchBatch \/ \E i \in DOMAIN inFlight : Find(i) \/ Found(i)

LoaderStep == Answers \/ ClearCache \/ \E k \in Keys : Load(k)

GraphQLNext == LoaderStep \/ MutationStep \/ SubscriptionStep

GraphQLSpec == GraphQLInit /\ [][GraphQLNext]_graphQLVars

\* Microtasks run, and the broker answers. Nobody is obliged to ask.
GraphQLFairness == WF_graphQLVars(Answers)

GraphQLFairSpec == GraphQLSpec /\ GraphQLFairness

-----------------------------------------------------------------------------
\* An answer is null or a version of the record that was asked for, whatever
\* batches and updates are under way, and an answer that does not come from
\* the cache is at least as new as the record was at the call.
AnswersAreOwnAndFresh ==
    \A m \in DOMAIN loads :
        LET l == loads[m]
        IN  l.answer \notin {None, 0} =>
              /\ writer[l.answer] = l.key
              /\ ~l.cached => l.answer >= l.at

\* Every load is answered, also one that a full batch left behind.
EveryLoadAnswered ==
    (\E m \in DOMAIN loads : loads[m].answer = None) ~>
        (\A m \in DOMAIN loads : loads[m].answer # None)

\* A subscriber that asks for one event after the other has, received or
\* queued, exactly the events published since it subscribed, in that order,
\* and it waits only when it has received them all.
EventsInOrder ==
    \A j \in DOMAIN iterators :
        LET it == iterators[j]
        IN  /\ it.got \o it.queue =
                 SubSeq(published, it.from + 1, IF it.subscribed THEN Len(published) ELSE it.end)
            /\ it.waiting => it.queue = <<>>

=============================================================================
