----------------------- MODULE ComputeManagerProperties -----------------------
(***************************************************************************)
(* What ComputeManager promises, apart from the machine that keeps it.     *)
(***************************************************************************)
EXTENDS ComputeManager

Tried(c) == {call[c].candidates[i] : i \in 1..call[c].pos}
Configured == {providers[i] : i \in DOMAIN providers}

\* The state of an invocation is consistent with its phase.
CallsTypeOK ==
    /\ call \in [Calls -> Call]
    /\ \A c \in Calls :
          /\ call[c].phase \in {"asked", "answered"} => call[c].pos \in DOMAIN call[c].candidates
          /\ call[c].epoch <= epoch

\* The type invariant: every variable keeps its type, the cursor stays within the list
\* of providers it points into, and invocations are consistent (compute.ts:132-137).
TypeOK ==
    /\ WorldTypeOK
    /\ providers \in Seq(Providers)
    /\ providerStrategy \in Strategies
    /\ fallbackOnError \in BOOLEAN
    /\ roundRobinCursor \in Nat
    /\ roundRobinCursor # 0 => roundRobinCursor < Len(providers)
    /\ route \in [Ids -> Providers \cup {None}]
    /\ epoch \in 0..MaxConfigs
    /\ firstPicks \in [Providers -> Nat]
    /\ CallsTypeOK

\* A route names the provider that minted the id, whatever calls, answers and
\* reconfigurations interleaved (registerSandboxProvider, compute.ts:160, and the
\* snapshotProviders.set calls): affinity never sends a call to the wrong account.
RoutesLeadHome == \A i \in Ids : route[i] # None => route[i] = home[i]

\* Strengthening of RoutesLeadHome that makes it inductive: an answer that a call has not
\* taken up yet names only ids of the provider that gave it.
AnswersComeHome ==
    \A c \in Calls :
        call[c].phase = "answered" => \A i \in call[c].reply.ids : home[i] = Asking(c)

RoutingInv == TypeOK /\ AnswersComeHome /\ RoutesLeadHome

\* One call asks a provider at most once, even when the known provider is put in front
\* of the configured ones (compute.ts:185-212) or the list is rotated (compute.ts:177).
NoProviderAskedTwice == \A c \in Calls : IsInjective(call[c].candidates)

\* A call says "not found" or gives up only after it asked every provider that was
\* configured when it began and that has the method.  An abort, an uncaught exception
\* of a lookup or a listing, and fallbackOnError = false end a call early on purpose.
Eligible(c) ==
    IF call[c].method \in SnapshotMethods THEN Configured \cap Snapshotting ELSE Configured

GivesUpOnlyAfterAll ==
    \A c \in Calls :
        /\ call[c].epoch = epoch
        /\ call[c].preferred = None
        /\ \/ call[c].result = "absent"
           \/ call[c].result = "failed" /\ call[c].method \in {"destroy", "snapshotCreate", "snapshotDelete"}
           \/ call[c].result = "failed" /\ call[c].method = "create" /\ call[c].canFallback
        => Eligible(c) \subseteq Tried(c)

\* The loops over the candidates ask each of them, and none of them twice.
EveryCandidateOnce == NoProviderAskedTwice /\ GivesUpOnlyAfterAll

\* A create goes on to a second provider only to recover from an error, only where
\* fallback is on, and never from the provider the caller named (compute.ts:218-234); an
\* abort ends it at once (compute.ts:228).
FallbackIsConfined ==
    \A c \in Calls :
        call[c].method = "create" /\ call[c].pos > 1 =>
            /\ call[c].canFallback
            /\ call[c].preferred = None
            /\ call[c].phase = "asked" => call[c].reply.status = "error"

\* Round-robin is fair from the moment of setConfig: with the creates that began so far,
\* no provider was the first choice more often than one before it in the list, nor two
\* times more often than one after it (compute.ts:177-182, 248).
RoundRobinBalanced ==
    \A i, j \in DOMAIN providers :
        i < j => firstPicks[providers[i]] - firstPicks[providers[j]] \in {0, 1}

\* A sandbox whose create resolved under the present configuration stays routed to its
\* provider for as long as it lives and nobody destroyed it: no overlapping lookup,
\* listing or failed destroy makes the manager forget it.
CreatedStaysRouted ==
    \A c \in Calls, s \in Sandboxes :
        /\ call[c].method = "create" /\ call[c].result = "ok" /\ s \in call[c].reply.ids
        /\ call[c].epoch = epoch
        /\ s \in live /\ home[s] \notin Masking
        /\ \A d \in Calls : ~(call[d].method = "destroy" /\ call[d].result = "ok" /\ call[d].id = s)
        => route[s] = home[s]

\* The manager forgets a live sandbox of a configured provider only in setConfig, in a
\* destroy that resolved, or at the end of a lookup that began under an earlier
\* configuration (compute.ts:267, 296).
ForgottenForAReason ==
    \A s \in live \cap Sandboxes :
        /\ route[s] \in Configured \ Masking
        /\ route'[s] = None
        => \/ epoch' # epoch
           \/ \E c \in Calls :
                 /\ call[c].id = s /\ call[c].phase # "done" /\ call'[c].phase = "done"
                 /\ \/ call[c].method = "destroy"
                    \/ call[c].epoch < epoch

\* A live sandbox is not forgotten: not after its create, and not by whatever races.
LiveStaysRouted == [][ForgottenForAReason /\ CreatedStaysRouted']_vars

\* Affinity: a call about a sandbox or a snapshot with a route asks the provider that
\* holds it first, in any configuration (compute.ts:185-212).
AffinityFirst ==
    [][\A c \in Calls :
          LET id == call'[c].id
          IN  /\ call[c].phase = "idle" /\ call'[c].phase = "asked"
              /\ id # None /\ call'[c].preferred = None
              /\ route[id] # None
              /\ call'[c].method = "snapshotCreate" => route[id] \in Snapshotting
              => Asking(c)' = home[id]]_vars

\* Every call settles when the providers answer: no candidate loop runs for ever,
\* whatever setConfig does to the lists while the call is in flight.
EveryCallSettles ==
    \A c \in Calls : call[c].phase = "asked" ~> call[c].phase = "done"
=============================================================================
