-------------------------- MODULE MCPluginWatchdog --------------------------
(* Instances of PluginWatchdog for TLC. *)
EXTENDS PluginWatchdog

CONSTANTS
    h1, h2,
    MaxActs \* bound: entries and children of the owner, twice each, and calls in use

\* Only the owner and new heartbeats add to what is counted, and they never have
\* to act, so the bound takes no step away that Fairness asks for.
Acts ==
    2 * (entries + Cardinality(Made(0)) + Cardinality(restarters \intersect {0}))
        + Cardinality({c \in Calls : call[c] # "idle"})

BoundedSpec == Init /\ [][Next /\ Acts' <= MaxActs]_vars /\ Fairness

=============================================================================
