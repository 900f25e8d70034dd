---------------------------- MODULE RemoteLoader ----------------------------
(***************************************************************************)
(* The loader of remote plugins in packages/federation (remote-loader.ts). *)
(* load() awaits the resolver, under a timeout, and sleeps between its     *)
(* attempts; loads of one name may overlap, and unload() and reload() may  *)
(* come while a load waits.  An answer after the timeout is dropped.       *)
(***************************************************************************)
EXTENDS Integers, FiniteSets

CONSTANTS
    Remotes,       \* names of remote plugins
    Loads,         \* bound: load() calls in flight at the same time
    RetryAttempts  \* retryAttempts

ASSUME LoaderAssumption == RetryAttempts \in Nat /\ IsFiniteSet(Loads)

VARIABLES
    cached,   \* names in the cache
    status,   \* states: name -> status, "none" before its first load
    load,     \* call -> the name it loads, what it waits for, its attempt
    overlapped\* history: names two loads of which ran at once since their
              \* last unload with no load in flight

remoteVars == <<cached, status, load, overlapped>>

NoLoad == [at |-> "none"]
Loading(n) == {l \in Loads : load[l].at # "none" /\ load[l].name = n}

SetStatus(n, s) == status' = [status EXCEPT ![n] = s]

\* load() of a name that is not cached, up to its first await. One that is
\* cached returns at once.
StartLoad(l, n) ==
    /\ load[l].at = "none"
    /\ SetStatus(n, "loading")
    /\ load' = [load EXCEPT ![l] = [at |-> "resolver", name |-> n, attempt |-> 0]]
    /\ overlapped' = overlapped \union {m \in {n} : Loading(m) # {}}

LoadRemote(l, n) == n \notin cached /\ StartLoad(l, n) /\ UNCHANGED cached

\* reload() of a known name, which leaves the cache first.
Reload(l, n) ==
    /\ status[n] # "none"
    /\ StartLoad(l, n)
    /\ cached' = cached \ {n}

\* Mutant: the name leaves the cache and keeps its state.
UnloadSilently(n) ==
    /\ n \in cached
    /\ cached' = cached \ {n}
    /\ overlapped' = {m \in overlapped : m # n \/ Loading(n) # {}}
    /\ UNCHANGED <<status, load>>

\* unload(): only a cached name changes.
Unload(n) ==
    /\ n \in cached
    /\ cached' = cached \ {n}
    /\ SetStatus(n, "unloaded")
    /\ overlapped' = {m \in overlapped : m # n \/ Loading(n) # {}}
    /\ UNCHANGED load

\* The resolver answers with a module that exports a plugin.
Resolves(l) ==
    /\ load[l].at = "resolver"
    /\ cached' = cached \union {load[l].name}
    /\ SetStatus(load[l].name, "loaded")
    /\ load' = [load EXCEPT ![l] = NoLoad]
    /\ UNCHANGED overlapped

\* The resolver rejects, is late, or the module exports no plugin: the load
\* sleeps, or gives up after its last attempt.
ResolveFails(l) ==
    /\ load[l].at = "resolver"
    /\ \/ /\ load[l].attempt < RetryAttempts
          /\ load' = [load EXCEPT ![l].at = "sleep"]
          /\ UNCHANGED status
       \/ /\ load[l].attempt = RetryAttempts
          /\ load' = [load EXCEPT ![l] = NoLoad]
          /\ SetStatus(load[l].name, "error")
    /\ UNCHANGED <<cached, overlapped>>

WakesUp(l) ==
    /\ load[l].at = "sleep"
    /\ load' = [load EXCEPT ![l].at = "resolver", ![l].attempt = @ + 1]
    /\ UNCHANGED <<cached, status, overlapped>>

LoaderInit ==
    /\ cached = {} /\ overlapped = {}
    /\ status = [n \in Remotes |-> "none"]
    /\ load = [l \in Loads |-> NoLoad]

LoaderNext ==
    \/ \E l \in Loads : \/ Resolves(l) \/ ResolveFails(l) \/ WakesUp(l)
                        \/ \E n \in Remotes : LoadRemote(l, n) \/ Reload(l, n)
    \/ \E n \in Remotes : Unload(n)

LoaderSpec == LoaderInit /\ [][LoaderNext]_remoteVars

-----------------------------------------------------------------------------
\* The state that getState() tells is the truth about the cache and the loads
\* in flight, whatever fails and whatever calls overlap: what is "loaded" is in
\* the cache, what is "loading" has a load under way, and what is in the cache
\* is "loaded" unless loads of the name overlapped (remote-loader.ts:80-164).
StateTellsTheLoads ==
    \A n \in Remotes :
        /\ status[n] = "loaded" => n \in cached
        /\ status[n] = "loading" => Loading(n) # {}
        /\ n \in cached \ overlapped => status[n] = "loaded"

=============================================================================
