---------------------------- MODULE SandboxCreate ----------------------------
(***************************************************************************)
(* GeneratedSandboxManager.create (provider/src/factory.ts:584): a         *)
(* provider's create raced against the caller's AbortSignal, with a        *)
(* handler that destroys a sandbox that arrives too late.                  *)
(*                                                                         *)
(* The reactions of promises are microtasks, run first in, first out;      *)
(* `queue` holds those of this code.  The provider's promise has two       *)
(* reactions, the cleanup handler and the race, queued together, so they   *)
(* run back to back: one element <<"settled", a>>.  An abort fired by a    *)
(* timer or an I/O callback finds the queue empty; one fired by another    *)
(* promise's continuation may come between any two microtasks.             *)
(***************************************************************************)
EXTENDS Naturals, Sequences

CONSTANTS
    Attempts,         \* the calls of create that share one signal, made one after another
    AbortSources      \* who may call controller.abort()

ASSUME CreateAssumption == AbortSources \subseteq {"timer", "promise"}

VARIABLES
    aborted,          \* signal.aborted
    abortedBy,        \* history: who called controller.abort()
    queue,            \* pending microtasks
    provider,         \* the provider's own create
    race,             \* how Promise.race was settled
    outcome,          \* what create gave its caller
    cleanup           \* the destroy the late handler asks for

attemptVars == <<provider, race, outcome, cleanup>>
createVars == <<aborted, abortedBy, queue, provider, race, outcome, cleanup>>

Task == {"settled", "raceAbort", "resume", "caller"} \X Attempts

CreateInit ==
    /\ aborted = FALSE
    /\ abortedBy = "nobody"
    /\ queue = <<>>
    /\ provider = [a \in Attempts |-> "none"]
    /\ race = [a \in Attempts |-> "open"]
    /\ outcome = [a \in Attempts |-> "idle"]
    /\ cleanup = [a \in Attempts |-> "none"]

\* Mutant: the signal is not looked at before the provider is asked.
CreateUnchecked(a, q) ==
    /\ outcome[a] = "idle"
    /\ outcome' = [outcome EXCEPT ![a] = "waiting"]
    /\ queue' = q
    /\ provider' = [provider EXCEPT ![a] = "working"]
    /\ UNCHANGED <<aborted, abortedBy, race, cleanup>>

\* The call, up to its await, in a task that leaves the queue as q.  An aborted signal
\* ends it before the provider is asked.
Create(a, q) ==
    /\ outcome[a] = "idle"
    /\ IF aborted
       THEN /\ outcome' = [outcome EXCEPT ![a] = "abort"]
            /\ queue' = Append(q, <<"caller", a>>)
            /\ UNCHANGED provider
       ELSE /\ outcome' = [outcome EXCEPT ![a] = "waiting"]
            /\ queue' = q
            /\ provider' = [provider EXCEPT ![a] = "working"]
    /\ UNCHANGED <<aborted, abortedBy, race, cleanup>>

\* The provider's promise is settled: it made a sandbox, or it failed and made none.
ProviderSettles(a) ==
    /\ provider[a] = "working"
    /\ \E result \in {"made", "failed"} : provider' = [provider EXCEPT ![a] = result]
    /\ queue' = Append(queue, <<"settled", a>>)
    /\ UNCHANGED <<aborted, abortedBy, race, outcome, cleanup>>

\* controller.abort(): the listener of abortPromise rejects it at once.  On a race that is
\* settled the rejection has no effect.
Racing(a) == outcome[a] = "waiting" /\ race[a] = "open"

Abort ==
    /\ ~aborted
    /\ abortedBy' \in AbortSources
    /\ abortedBy' = "timer" => queue = <<>>
    /\ aborted' = TRUE
    /\ \/ \E a \in Attempts : Racing(a) /\ queue' = Append(queue, <<"raceAbort", a>>)
       \/ (\A a \in Attempts : ~Racing(a)) /\ UNCHANGED queue
    /\ UNCHANGED attemptVars

\* Mutant: the late sandbox is left alone.
LeaveLate(a) == UNCHANGED cleanup

\* The cleanup handler of the provider's promise.
DestroyLate(a) ==
    cleanup' = [cleanup EXCEPT ![a] = IF provider[a] = "made" /\ aborted THEN "asked" ELSE @]

\* The first settlement of a race counts; it queues the continuation of create.
SettleRace(a, how) ==
    IF race[a] = "open"
    THEN race' = [race EXCEPT ![a] = how] /\ queue' = Append(Tail(queue), <<"resume", a>>)
    ELSE UNCHANGED race /\ queue' = Tail(queue)

Running(task, a) == queue # <<>> /\ Head(queue) = <<task, a>>

Settled(a) ==
    /\ Running("settled", a)
    /\ DestroyLate(a)
    /\ SettleRace(a, IF provider[a] = "made" THEN "value" ELSE "error")
    /\ UNCHANGED <<aborted, abortedBy, provider, outcome>>

\* Mutant: create waits for the provider whatever the signal says.
RaceNotAborted(a) ==
    /\ Running("raceAbort", a)
    /\ queue' = Tail(queue)
    /\ UNCHANGED <<aborted, abortedBy, provider, race, outcome, cleanup>>

RaceAborted(a) ==
    /\ Running("raceAbort", a)
    /\ SettleRace(a, "abort")
    /\ UNCHANGED <<aborted, abortedBy, provider, outcome, cleanup>>

\* Mutant: the signal is not looked at again after the race.
RaceOutcome(a) == CASE race[a] = "value" -> "sandbox" [] race[a] = "error" -> "error" [] OTHER -> "abort"

\* What create returns or throws once the race is settled.
Outcome(a) ==
    CASE race[a] = "value" -> IF aborted THEN "abort" ELSE "sandbox"
      [] race[a] = "error" -> "error"
      [] race[a] = "abort" -> "abort"

Resumed(a) ==
    /\ Running("resume", a)
    /\ outcome' = [outcome EXCEPT ![a] = Outcome(a)]
    /\ queue' = Append(Tail(queue), <<"caller", a>>)
    /\ UNCHANGED <<aborted, abortedBy, provider, race, cleanup>>

\* The destroy asked for succeeds or fails; its failure is swallowed.
DestroyServed(a) ==
    /\ cleanup[a] = "asked"
    /\ \E result \in {"gone", "failed"} : cleanup' = [cleanup EXCEPT ![a] = result]
    /\ UNCHANGED <<aborted, abortedBy, queue, provider, race, outcome>>

Handles(a) == Settled(a) \/ RaceAborted(a) \/ Resumed(a)
=============================================================================
