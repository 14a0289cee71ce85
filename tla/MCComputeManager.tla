-------------------------- MODULE MCComputeManager --------------------------
EXTENDS ComputeManagerProperties, TLC

CONSTANTS p1, p2, p3, junk

Cfg(first, list, strategy, fallback) ==
    [provider |-> first, providers |-> list, providerStrategy |-> strategy,
     fallbackOnError |-> fallback]

\* Only p1; then both, where p1 is given twice and a non-provider is skipped.
RoutingConfigs == {Cfg(p1, <<>>, "priority", TRUE), Cfg(p2, <<junk, p1, p2>>, "priority", TRUE)}
CreateConfigs == {Cfg(None, <<p1, p2, p3>>, "round-robin", TRUE),
                  Cfg(None, <<p1, p2>>, "round-robin", FALSE)}
ThreeNamed == [p \in Providers |-> CASE p = p1 -> "alpha" [] p = p2 -> "beta" [] OTHER -> None]
Nameless == [p \in Providers |-> None]

Perms == Permutations(Sandboxes) \cup Permutations(Calls) \cup Permutations(Snapshots)
=============================================================================
