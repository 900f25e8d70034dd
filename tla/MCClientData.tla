---------------------------- MODULE MCClientData ----------------------------
(* Instances of GraphQL, Realtime, SyncEngine and RemoteLoader for TLC: how  *)
(* data, events and plugins get to clients.  The four share no state, so a   *)
(* behaviour belongs to one of them, chosen at first.  The two halves of the *)
(* sync engine, pushing and pulling, share no state either, and of GraphQL   *)
(* the data loader sees of mutations only that they apply.                   *)
EXTENDS GraphQL, Realtime, SyncEngine, RemoteLoader

VARIABLE part

allVars == <<graphQLVars, realtimeVars, vars, remoteVars, part>>

ClientDataInit ==
    /\ GraphQLInit /\ RealtimeInit /\ Init /\ LoaderInit
    /\ part \in {"loads", "events", "realtime", "push", "pull", "loader"}

ClientDataNext ==
    \/ part = "loads" /\ (LoaderStep \/ \E k \in Keys : Apply(k))
                      /\ UNCHANGED <<realtimeVars, vars, remoteVars, part>>
    \/ part = "events" /\ (MutationStep \/ SubscriptionStep)
                       /\ UNCHANGED <<realtimeVars, vars, remoteVars, part>>
    \/ part = "realtime" /\ RealtimeNext /\ UNCHANGED <<graphQLVars, vars, remoteVars, part>>
    \/ part = "push" /\ PushNext /\ UNCHANGED <<graphQLVars, realtimeVars, remoteVars, part>>
    \/ part = "pull" /\ PullNext /\ UNCHANGED <<graphQLVars, realtimeVars, remoteVars, part>>
    \/ part = "loader" /\ LoaderNext /\ UNCHANGED <<graphQLVars, realtimeVars, vars, part>>

\* The fairness of a part asks for nothing where the part does not run: there
\* its variables keep their initial values, in which no fair action is enabled.
ClientDataSpec ==
    ClientDataInit /\ [][ClientDataNext]_allVars /\ GraphQLFairness /\ RealtimeFairness

CONSTANTS k1, k2, c1, c2

=============================================================================
