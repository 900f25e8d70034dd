----------------------------- MODULE SyncEngine -----------------------------
(***************************************************************************)
(* The web client's SyncEngine: a log of local mutations that is pushed to *)
(* the server, and a cursor up to which the server's changes were pulled.  *)
(* The engine awaits sendFn and fetchFn, which its callers supply, and     *)
(* nothing keeps calls from overlapping, so requests and answers may pass  *)
(* one another.  A caller may throw an error it gets from either away.     *)
(* The data of mutations and changes, listeners and dates are left out.    *)
(***************************************************************************)
EXTENDS Naturals, Sequences, SequencesExt, FiniteSets

CONSTANTS
    MaxMutations, \* bound on mutations
    MaxPushes,    \* bound on pushes
    MaxPulls,     \* bound on pulls
    MaxChanges    \* bound on the server's own changes

ASSUME SyncAssumption ==
    MaxMutations \in Nat /\ MaxPushes \in Nat /\ MaxPulls \in Nat /\ MaxChanges \in Nat

VARIABLES
    log,       \* this.mutationLog; ids count up like generateId's
    conflicts, \* this.conflicts, each named by the mutation it is about
    cursor,    \* this.cursor, null being 0
    pushes,    \* the calls of pushToServer
    pulls,     \* the calls of pullFromServer
    created,   \* the counter of generateId
    changes,   \* how many changes the server has made
    received,  \* history: mutations in the order the server first got them
    accepted,  \* history: those it answered to be synced
    delivered  \* history: the server's changes handed to a caller

vars == <<log, conflicts, cursor, pushes, pulls, created, changes, received, accepted, delivered>>

serverVars == <<changes, received, accepted>>

Ids(entries) == [i \in DOMAIN entries |-> entries[i].id]

\* Array.filter: the elements of s at the indices I, in their order.
Kept(s, I) ==
    LET nth(j) == CHOOSE i \in I : Cardinality({x \in I : x <= i}) = j
    IN  [j \in 1..Cardinality(I) |-> s[nth(j)]]

Unsynced(entries) == Kept(entries, {i \in DOMAIN entries : ~entries[i].synced})

NoPush == [at |-> "done", batch |-> << >>, synced |-> {}, conflicts |-> << >>]
NoPull == [at |-> "done", from |-> 0, to |-> 0]

-----------------------------------------------------------------------------
(* Pushing *)

PushMutation ==
    /\ created < MaxMutations
    /\ created' = created + 1
    /\ log' = Append(log, [id |-> created + 1, synced |-> FALSE])
    /\ UNCHANGED <<conflicts, cursor, pushes, pulls, serverVars, delivered>>

PushToServer ==
    /\ Len(pushes) < MaxPushes
    /\ Unsynced(log) # << >>
    /\ pushes' = Append(pushes, [NoPush EXCEPT !.at = "sent", !.batch = Ids(Unsynced(log))])
    /\ UNCHANGED <<log, conflicts, cursor, pulls, created, serverVars, delivered>>

\* The server takes a batch whole and finds some mutations in conflict.
ServerTakes(p) ==
    /\ pushes[p].at = "sent"
    /\ LET batch == pushes[p].batch
       IN  \E synced \in SUBSET ToSet(batch) :
             /\ pushes' = [pushes EXCEPT ![p] =
                    [at |-> "answered", batch |-> batch, synced |-> synced,
                     conflicts |-> Kept(batch, {i \in DOMAIN batch : batch[i] \notin synced})]]
             /\ accepted' = accepted \union synced
             /\ received' = received \o Kept(batch, {i \in DOMAIN batch : batch[i] \notin ToSet(received)})
    /\ UNCHANGED <<log, conflicts, cursor, pulls, created, changes, delivered>>

\* Mutant: an answer is taken for the whole log.
MarkAll(entries, ids) == [i \in DOMAIN entries |-> [entries[i] EXCEPT !.synced = TRUE]]

Mark(entries, ids) ==
    [i \in DOMAIN entries |-> [entries[i] EXCEPT !.synced = @ \/ entries[i].id \in ids]]

PushReturns(p) ==
    /\ pushes[p].at = "answered"
    /\ log' = Mark(log, pushes[p].synced)
    /\ conflicts' = conflicts \o pushes[p].conflicts
    /\ pushes' = [pushes EXCEPT ![p] = NoPush]
    /\ UNCHANGED <<cursor, pulls, created, serverVars, delivered>>

\* sendFn rejects, whether or not the server took the batch.
PushFails(p) ==
    /\ pushes[p].at # "done"
    /\ pushes' = [pushes EXCEPT ![p] = NoPush]
    /\ UNCHANGED <<log, conflicts, cursor, pulls, created, serverVars, delivered>>

\* The choice that is made is not kept.
ResolveConflict(m) ==
    /\ m \in ToSet(conflicts)
    /\ conflicts' = Kept(conflicts, {i \in DOMAIN conflicts : conflicts[i] # m})
    /\ UNCHANGED <<log, cursor, pushes, pulls, created, serverVars, delivered>>

ClearSyncedMutations ==
    /\ log' = Unsynced(log)
    /\ UNCHANGED <<conflicts, cursor, pushes, pulls, created, serverVars, delivered>>

-----------------------------------------------------------------------------
(* Pulling *)

ServerChanges ==
    /\ changes < MaxChanges
    /\ changes' = changes + 1
    /\ UNCHANGED <<log, conflicts, cursor, pushes, pulls, created, received, accepted, delivered>>

PullFromServer ==
    /\ Len(pulls) < MaxPulls
    /\ pulls' = Append(pulls, [at |-> "sent", from |-> cursor, to |-> cursor])
    /\ UNCHANGED <<log, conflicts, cursor, pushes, created, serverVars, delivered>>

\* The server answers with the changes after the cursor, or a first part of them.
ServerAnswers(p) ==
    /\ pulls[p].at = "sent"
    /\ \E to \in pulls[p].from..changes :
         pulls' = [pulls EXCEPT ![p].at = "answered", ![p].to = to]
    /\ UNCHANGED <<log, conflicts, cursor, pushes, created, serverVars, delivered>>

\* Mutant: the cursor is advanced by the number of changes that came.
CursorAfterAdding(pull) == cursor + (pull.to - pull.from)

CursorAfter(pull) == pull.to

PullReturns(p) ==
    /\ pulls[p].at = "answered"
    /\ cursor' = CursorAfter(pulls[p])
    /\ delivered' = delivered \union (pulls[p].from + 1)..pulls[p].to
    /\ pulls' = [pulls EXCEPT ![p] = NoPull]
    /\ UNCHANGED <<log, conflicts, pushes, created, serverVars>>

PullFails(p) ==
    /\ pulls[p].at # "done"
    /\ pulls' = [pulls EXCEPT ![p] = NoPull]
    /\ UNCHANGED <<log, conflicts, cursor, pushes, created, serverVars, delivered>>

-----------------------------------------------------------------------------
Init ==
    /\ log = << >>
    /\ conflicts = << >>
    /\ cursor = 0
    /\ pushes = << >>
    /\ pulls = << >>
    /\ created = 0
    /\ changes = 0
    /\ received = << >>
    /\ accepted = {}
    /\ delivered = {}

PushNext ==
    \/ PushMutation \/ PushToServer \/ ClearSyncedMutations
    \/ \E p \in DOMAIN pushes : ServerTakes(p) \/ PushReturns(p) \/ PushFails(p)
    \/ \E m \in 1..MaxMutations : ResolveConflict(m)

PullNext ==
    \/ ServerChanges \/ PullFromServer
    \/ \E p \in DOMAIN pulls : ServerAnswers(p) \/ PullReturns(p) \/ PullFails(p)

Next == PushNext \/ PullNext

Spec == Init /\ [][Next]_vars

-----------------------------------------------------------------------------
(* Properties *)

\* "Local mutations are queued and sent to the server in order"
\* (sync-engine.ts:5): however pushes overlap, fail and overtake one another, the
\* server gets a mutation for the first time only after all the earlier ones, and
\* a mutation is forgotten by the client only once the server has accepted it
\* (sync-engine.ts:110-119, 179-181).
PushedInOrder ==
    /\ \A i \in DOMAIN received : received[i] = i
    /\ 1..created \subseteq ToSet(Ids(Unsynced(log))) \union accepted

\* Although overlapping pulls may set the cursor back, it never stands after a
\* change that no pull has handed to its caller, so none is skipped
\* (sync-engine.ts:136-140).
NoChangeSkipped == 1..cursor \subseteq delivered

=============================================================================
