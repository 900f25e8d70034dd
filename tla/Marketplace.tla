---------------------------- MODULE Marketplace -----------------------------
(***************************************************************************)
(* The plugin marketplace of packages/marketplace: the registry            *)
(* (registry.ts), the installer (installer.ts), the rules of versions and  *)
(* dependencies (manifest-validator.ts) and the checks that the install    *)
(* route makes (plugin.ts).  Every operation runs in one turn of the event *)
(* loop; what is hard is what a long sequence of them leaves behind.       *)
(*                                                                         *)
(* A version is <<major, minor, patch>> and a range [op, from], where "="  *)
(* is a bare version.  The validator also takes ranges with "<", "<=", ">" *)
(* and "==", which no version satisfies: the range's version is parsed     *)
(* with the operator before it.  Manifests are valid and registered once;  *)
(* download counts are left out.                                           *)
(***************************************************************************)
EXTENDS Integers, Sequences, SequencesExt, FiniteSets

CONSTANTS
    Plugins,      \* plugin ids
    Manifests,    \* manifests that may be registered: [id, version, engine, safe, deps],
                  \* with engine a set of at most one range, safe the outcome of
                  \* sandbox.review and deps a function from plugin ids to ranges
    EngineVersion,\* the runtime's engine version
    Blocked,      \* config.blockedPlugins
    Allowed,      \* config.allowedPlugins
    MaxPlugins,   \* config.maxPlugins
    Sandboxed,    \* config.sandboxed
    MaxHistory    \* bound: length of a version history

ASSUME MarketAssumption ==
    /\ MaxPlugins \in Nat /\ MaxHistory \in Nat
    /\ Sandboxed \in BOOLEAN
    /\ \A m \in Manifests : m.id \in Plugins /\ DOMAIN m.deps \subseteq Plugins

VARIABLES
    registry,  \* the registered manifests
    installed, \* plugin -> its installed record, if any, and its version history
    unchecked  \* history: <<p, d>> when p or d was upgraded or rolled back after
               \* p had been installed

marketVars == <<registry, installed, unchecked>>

IsInstalled(p) == installed[p].history # <<>>
NotInstalled == [manifest |-> {}, history |-> <<>>]
Of(p) == CHOOSE m \in installed[p].manifest : TRUE

-----------------------------------------------------------------------------
(* satisfiesRange *)

VersionNumber(v) == v[1] * 1000000 + v[2] * 1000 + v[3]

Satisfies(v, r) ==
    CASE r.op = ">=" -> VersionNumber(v) >= VersionNumber(r.from)
      [] r.op = "="  -> VersionNumber(v) = VersionNumber(r.from)
      [] r.op = "~" \/ (r.op = "^" /\ r.from[1] = 0) ->
            v[1] = r.from[1] /\ v[2] = r.from[2] /\ v[3] >= r.from[3]
      [] r.op = "^" /\ r.from[1] # 0 ->
            v[1] = r.from[1] /\ VersionNumber(v) >= VersionNumber(r.from)
      [] OTHER       -> FALSE

-----------------------------------------------------------------------------
(* The installer *)

\* checkCompatibility finds no issue.
Compatible(m) == \A r \in m.engine : Satisfies(EngineVersion, r)

\* resolveDependencies finds nothing missing and no conflict.
Resolved(m) ==
    \A d \in DOMAIN m.deps : IsInstalled(d) /\ Satisfies(Of(d).version, m.deps[d])

\* What the install route tests before it calls the installer.
Admitted(m) ==
    /\ m.id \notin Blocked
    /\ Allowed # {} => m.id \in Allowed
    /\ Cardinality({p \in Plugins : IsInstalled(p)}) < MaxPlugins
    /\ Sandboxed => m.safe

\* register: a version of a plugin is registered once.
Register(m) ==
    /\ \A r \in registry : <<r.id, r.version>> # <<m.id, m.version>>
    /\ registry' = registry \union {m}
    /\ UNCHANGED <<installed, unchecked>>

\* Any registered version may be asked for, the latest among them.
Install(m) ==
    /\ m \in registry /\ Admitted(m)
    /\ ~IsInstalled(m.id) /\ Compatible(m) /\ Resolved(m)
    /\ installed' = [installed EXCEPT ![m.id] = [manifest |-> {m}, history |-> <<m.version>>]]
    /\ unchecked' = unchecked \ ({m.id} \X Plugins)
    /\ UNCHANGED registry

\* Mutant: the plugins that depend on it are not looked for.
UninstallAny(p) ==
    /\ IsInstalled(p)
    /\ installed' = [installed EXCEPT ![p] = NotInstalled]
    /\ UNCHANGED <<registry, unchecked>>

Uninstall(p) ==
    /\ IsInstalled(p)
    /\ \A q \in Plugins \ {p} : IsInstalled(q) => p \notin DOMAIN Of(q).deps
    /\ installed' = [installed EXCEPT ![p] = NotInstalled]
    /\ UNCHANGED <<registry, unchecked>>

\* The manifest of p becomes m, with this history; no dependency is looked at,
\* neither p's nor those on p.
Exchange(p, m, history) ==
    /\ installed' = [installed EXCEPT ![p] = [manifest |-> {m}, history |-> history]]
    /\ unchecked' = unchecked \union ({p} \X Plugins) \union (Plugins \X {p})
    /\ UNCHANGED registry

\* upgrade, to any other registered version.
Upgrade(m) ==
    /\ m \in registry /\ IsInstalled(m.id)
    /\ m.version # Of(m.id).version /\ Compatible(m)
    /\ Len(installed[m.id].history) < MaxHistory
    /\ Exchange(m.id, m, Append(installed[m.id].history, m.version))

\* rollback to the version before, which the registry still has.
Rollback(p) ==
    /\ Len(installed[p].history) >= 2
    /\ LET history == Front(installed[p].history)
       IN  \E m \in registry : /\ m.id = p /\ m.version = Last(history)
                               /\ Exchange(p, m, history)

MarketInit ==
    /\ registry = {}
    /\ installed = [p \in Plugins |-> NotInstalled]
    /\ unchecked = {}

MarketNext ==
    \/ \E m \in Manifests : Register(m) \/ Install(m) \/ Upgrade(m)
    \/ \E p \in Plugins : Uninstall(p) \/ Rollback(p)

MarketSpec == MarketInit /\ [][MarketNext]_marketVars

-----------------------------------------------------------------------------
(* Properties *)

AtLeast(v, w) ==
    \/ v[1] > w[1]
    \/ v[1] = w[1] /\ (v[2] > w[2] \/ (v[2] = w[2] /\ v[3] >= w[3]))

\* What a range stands for, in terms of the order of versions
\* (manifest-validator.ts:206, 238-246).
InRange(v, r) ==
    LET kept == CASE r.op = "~" -> 2
                  [] r.op = "^" -> IF r.from[1] = 0 THEN 2 ELSE 1
                  [] r.op = "=" -> 3
                  [] OTHER -> 0
    IN  AtLeast(v, r.from) /\ SubSeq(v, 1, kept) = SubSeq(r.from, 1, kept)

\* Whatever plugins are registered, installed, upgraded, rolled back and
\* uninstalled, in whatever order: what an installed plugin depends on is
\* installed, in a version of the range it asks for, unless one of the two was
\* upgraded or rolled back after that plugin's installation (installer.ts:56-294).
DependenciesMet ==
    \A p \in {q \in Plugins : IsInstalled(q)} : \A d \in DOMAIN Of(p).deps :
        <<p, d>> \in unchecked \/ (IsInstalled(d) /\ InRange(Of(d).version, Of(p).deps[d]))

=============================================================================
