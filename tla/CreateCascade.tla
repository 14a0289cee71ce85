---------------------------- MODULE CreateCascade ----------------------------
(***************************************************************************)
(* ComputeManager.createWithFallback (computesdk/src/compute.ts:214) over  *)
(* providers made by the factory: one call of compute.sandbox.create, its  *)
(* attempts at one provider after another, and one AbortSignal for all.    *)
(***************************************************************************)
EXTENDS SandboxCreate

CONSTANT N            \* the number of candidate providers

ASSUME CascadeAssumption == N \in Nat \ {0} /\ Attempts = 1..N

VARIABLES
    canFallback,      \* fallbackOnError, and no provider named by the caller
    final             \* what the caller of compute.sandbox.create sees

vars == <<createVars, canFallback, final>>

Init ==
    /\ CreateInit
    /\ canFallback \in BOOLEAN
    /\ final = "idle"

Start ==
    /\ final = "idle"
    /\ Create(1, queue)
    /\ final' = "pending"
    /\ UNCHANGED canFallback

\* The outcomes after which the loop goes on to the next candidate.
FallsBack == {"error"}

\* The continuation of `await provider.sandbox.create(...)`.
Told(a) ==
    /\ Running("caller", a)
    /\ \/ /\ outcome[a] \in FallsBack /\ canFallback /\ a < N
          /\ Create(a + 1, Tail(queue))
          /\ UNCHANGED final
       \/ /\ ~(outcome[a] \in FallsBack /\ canFallback /\ a < N)
          /\ final' = outcome[a]
          /\ queue' = Tail(queue)
          /\ UNCHANGED <<aborted, abortedBy, attemptVars>>
    /\ UNCHANGED canFallback

World(a) == (ProviderSettles(a) \/ DestroyServed(a)) /\ UNCHANGED <<canFallback, final>>

Microtask == \E a \in Attempts : (Handles(a) /\ UNCHANGED <<canFallback, final>>) \/ Told(a)

Next ==
    \/ Start
    \/ Abort /\ UNCHANGED <<canFallback, final>>
    \/ Microtask
    \/ \E a \in Attempts : World(a)

Spec == Init /\ [][Next]_vars

\* Microtasks run.  Nothing is assumed of providers, nor that anybody aborts.
FairSpec == Spec /\ WF_vars(Microtask)

----------------------------------------------------------------------------
\* The type invariant of the create race and of the loop around it (factory.ts:584-600,
\* compute.ts:214-223).
TypeOK ==
    /\ aborted \in BOOLEAN
    /\ abortedBy \in {"nobody"} \cup AbortSources
    /\ queue \in Seq(Task)
    /\ provider \in [Attempts -> {"none", "working", "made", "failed"}]
    /\ race \in [Attempts -> {"open", "value", "error", "abort"}]
    /\ outcome \in [Attempts -> {"idle", "waiting", "sandbox", "error", "abort"}]
    /\ cleanup \in [Attempts -> {"none", "asked", "gone", "failed"}]
    /\ canFallback \in BOOLEAN
    /\ final \in {"idle", "pending", "sandbox", "error", "abort"}

Over == final \in {"sandbox", "error", "abort"}

Queued(task, a) == \E i \in DOMAIN queue : queue[i] = <<task, a>>

\* The sandbox create resolved with is not one its own cleanup handler destroys: the
\* handler and the check after the race never disagree (factory.ts:593, 602).
ReturnedIsNotDestroyed ==
    \A a \in Attempts : outcome[a] = "sandbox" => cleanup[a] = "none"

\* Whatever the interleaving of abort, provider and fallback: once the call is over and the
\* late answers are handled, every sandbox that was made is either the one returned or was
\* asked to be destroyed (factory.ts:590-598).  An abort from a promise's continuation may
\* come between the handler and the check, and is left out.
NothingLeftBehind ==
    \A a \in Attempts :
        /\ Over /\ abortedBy # "promise"
        /\ provider[a] = "made" /\ ~Queued("settled", a)
        => cleanup[a] # "none" \/ (final = "sandbox" /\ outcome[a] = "sandbox")

\* After an abort no provider is asked to make a sandbox, not even the next candidate of a
\* call whose current one fails just then (factory.ts:585, compute.ts:228).
AbortStopsAsking ==
    [][\A a \in Attempts : aborted /\ provider[a] = "none" => provider'[a] = "none"]_vars

\* An abort settles the caller's promise although no provider ever answers: create does not
\* wait for the provider's promise (factory.ts:600).
AbortSettles == (aborted /\ final = "pending") ~> Over

\* The loop ends for every mix of failures, late answers and aborts, if no provider is
\* silent for ever (compute.ts:221-241).
CascadeSettles ==
    (\A a \in Attempts : provider[a] = "working" ~> provider[a] # "working")
    => (final = "pending" ~> Over)

\* The call ends, by an abort at once and without one in the end.
CallEnds == AbortSettles /\ CascadeSettles
=============================================================================
