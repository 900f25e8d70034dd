-------------------------- MODULE MCKernelServices --------------------------
(* Instances of the modules of the kernel's services for TLC.  They share no *)
(* state, so a behaviour belongs to one of them, chosen at first.            *)
EXTENDS LruCache, Marketplace, Migrations, PluginHost, DeadLetters, Telemetry, TLC

VARIABLE part

cacheVars == vars

Parts == {"cache", "market", "migrations", "host", "letters", "spans"}

allVars == <<cacheVars, marketVars, migVars, hostVars, lettersVars, spanVars, part>>

ServicesInit ==
    /\ Init /\ MarketInit /\ MigInit /\ HostInit /\ LettersInit /\ TelemetryInit
    /\ part \in Parts

Others(p) ==
    /\ part = p
    /\ UNCHANGED part
    /\ p # "cache" => UNCHANGED cacheVars
    /\ p # "market" => UNCHANGED marketVars
    /\ p # "migrations" => UNCHANGED migVars
    /\ p # "host" => UNCHANGED hostVars
    /\ p # "letters" => UNCHANGED lettersVars
    /\ p # "spans" => UNCHANGED spanVars

ServicesNext ==
    \/ Others("cache") /\ Next
    \/ Others("market") /\ MarketNext
    \/ Others("migrations") /\ MigNext
    \/ Others("host") /\ HostNext
    \/ Others("letters") /\ LettersNext
    \/ Others("spans") /\ TelemetryNext

ServicesSpec == ServicesInit /\ [][ServicesNext]_allVars

-----------------------------------------------------------------------------
(* One key more than the cache can hold. *)

CONSTANTS k1, k2, k3, k4, k5, p1, p2, c1, c2, r1, r2

-----------------------------------------------------------------------------
(* A plugin, two that depend on it or on each other, ranges of each kind,    *)
(* a version for an engine to come and one that fails the security review.   *)

Manifest(p, v, deps) ==
    [id |-> p, version |-> v, engine |-> {[op |-> ">=", from |-> <<3, 0, 0>>]},
     safe |-> TRUE, deps |-> deps]

From(op, v) == [op |-> op, from |-> v]

MCPlugins == {"crm", "mail", "sales"}

MCManifests ==
    { Manifest("crm", <<1, 0, 0>>, <<>>), Manifest("crm", <<1, 1, 0>>, <<>>),
      Manifest("crm", <<0, 2, 1>>, <<>>),
      [Manifest("crm", <<2, 0, 0>>, <<>>) EXCEPT !.engine = {From("^", <<4, 0, 0>>)}],
      Manifest("sales", <<1, 0, 0>>, "crm" :> From("~", <<1, 0, 0>>)),
      Manifest("sales", <<1, 0, 1>>, "crm" :> From("^", <<1, 0, 0>>)),
      Manifest("sales", <<1, 1, 0>>, "mail" :> From("=", <<1, 0, 0>>)),
      Manifest("sales", <<1, 2, 0>>, "crm" :> From("<", <<2, 0, 0>>)),
      Manifest("mail", <<1, 0, 0>>, "crm" :> From("^", <<0, 2, 0>>)),
      [Manifest("mail", <<1, 0, 1>>, <<>>) EXCEPT !.safe = FALSE] }

MCEngine == <<3, 2, 0>>

-----------------------------------------------------------------------------
(* A migration that adds a column, and one that drops one, adds it again and *)
(* alters the column of the first.                                           *)

Change(type, column) == [type |-> type, column |-> column]

MCChanges ==
    << <<Change("add_column", "b")>>,
       <<Change("drop_column", "a"), Change("add_column", "a"), Change("alter_column", "b")>> >>

MCFirstColumns == {"a"}

\* They are changes as the differ makes them.
ASSUME MCChangesFit == ChangesFit

-----------------------------------------------------------------------------
(* Two jobs of one name. *)

MCFirstJobs == {[name |-> "mail", kind |-> "job", n |-> n] : n \in {0, 1}}

=============================================================================
