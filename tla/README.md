# A verification development for ComputeSDK

ComputeSDK gives one TypeScript interface to some sixty sandbox providers.  This directory
holds TLA+ models of the parts of it that keep state across awaits, sockets, processes and
timers, the TLC configurations that check them, and TLAPS proofs of the properties that
matter most.  Paths below are relative to `src/packages/` unless they begin with `docs/`.

## The system

| Component | Source | State | Operations | What makes it correct |
|---|---|---|---|---|
| Compute manager | `computesdk/src/compute.ts` | provider list, strategy, fallback flag, round-robin cursor, two affinity maps | `setConfig`, `sandbox.{create,getById,list,destroy}`, `snapshot.{create,list,delete}` | affinity names the owner; a live sandbox is not forgotten; no provider is asked twice or skipped; round-robin is fair; an abort ends the call |
| Sandbox factory: create | `provider/src/factory.ts` | the abort race of one create | `create`, the caller's abort, the provider's late answer | a cancelled create leaves no sandbox behind |
| Sandbox factory: streaming commands | `provider/src/factory.ts` | the daemon bridge of one sandbox, one SSE reader per command | `runCommand` with callbacks, `streamDaemonEvents`, `emitMissingOutput` | every chunk is delivered once and in order; the call ends |
| Process streaming | `provider/src/stream-process.ts` | two pumps, a deadline, the exit poll | `streamCommandViaProcess` | the exit code is the process's, 124 or 127; the deadline holds; output is not duplicated |
| Daemon | `daemond/src/runtime/seed-launcher.ts` | jobs, subscribers, SSE clients, sockets | exec, wait, status, kill, SSE, stop | a job ends once; waiters hear of it; a timed-out job is killed |
| Daemon launcher | `daemond/src/seed-script.ts` | state file, socket, daemon process | `ensureDaemon` | concurrent launchers agree on one daemon |
| Events client | `events/src/pubsub.ts`, `events/src/client.ts` | connection state, socket, reconnect timer, line buffer | `connect`, `disconnect`, `subscribe`, socket callbacks | one socket; a lost connection comes back |
| GiveMeANode client | `givemeanode/src/client.ts` | vended credential, HTTP/2 session, requests in flight | `request`, `prime`, `warm`, `close`, the session's events | a request acts once; a refused credential is not presented again; no session leaks or keeps an idle process alive |
| GiveMeANode operations | `givemeanode/src/operations.ts`, `index.ts` | prepared and preparing images | `prepareImage`, `template.create`, `create` from an image, `runCommand` | one preparation at a time; no expired snapshot; an exit code is the command's |
| Workbench | `workbench/src/cli/state.ts`, `commands.ts` | current provider, current sandbox | switch, restart, run, destroy | the current sandbox is the one commands reach; none is lost |
| Provider packages | `*/src/index.ts` | none or little | vendor calls | modelled as the environment of the components above |
| Factories for browsers and infrastructure, types, CLI, cmd, create-compute, test-utils | | none that outlives a call | pass-through, prompts, rendering | not modelled |

The manager calls provider objects; provider objects are made by the factory; the factory's
streaming commands talk to the daemon the launcher started inside the sandbox; the other
components stand alone.  All of it is single-threaded JavaScript, so everything between two
awaits is atomic and every await is a point where other calls run.

## Modelling conventions

* One action per stretch of code between two awaits.  A request and its answer are two
  further steps: the other side takes the request, with its effect, and the caller resumes
  later.  This is where the interesting overlaps are.
* Ids, payloads and names are model values.  Errors keep their kind, not their text.
* A definition that starts with `Mutant:` in its comment is a plausible bug, kept beside the
  definition it replaces to show that a property would notice it.  No specification uses it.
* Variables called *history* record what happened for the properties; no guard reads them,
  except as a bound.
* A property that is a conjunction (`EveryCandidateOnce`, `LiveStaysRouted`, `CallEnds`,
  `ExitIsFinal`, `TimersMatchJobs`, `EverythingEnds`, `LoneRepairs`, `RefusalsAreRetried`,
  `HandedLastsLongEnough`, `ConnectedIsSubscribed`) has named parts, each with its own comment.
* `TypeOK` is the type invariant of a module.  Those of `ComputeManager`, `CreateCascade`,
  `StreamProcess`, `PubSubClient`, `SeedDaemon`, `SeedLauncher`, `GmnClient` and
  `GmnOperations` are proved; no run repeats any of them.
* The invariants a proof adds to a property are in the `*Proofs` module, built from named parts
  with a comment each; TLC checked each of them on the instance of its component's run before
  it was proved.

## ComputeManager

`ProviderWorld.tla` is the world of the providers: which provider minted an id (`home`) and
which ids exist (`live`).  Its answers include plain failures, effects whose answer is lost,
and providers that hide their failures (`Masking`: e2b's `getById` returns `null` on any
error, `e2b/src/index.ts:90`; modal's `destroy` swallows errors, `modal/src/index.ts:213`).
Sandboxes also appear and disappear without the manager (`Elsewhere`).

`ComputeManager.tla` models `compute.ts`.  Every invocation of an async method is a record
`call[c]`; `Start*` runs to the first await, `Serve*` is the provider, `*Answered` resumes
after the await.  `route` holds both affinity maps, sandbox ids and snapshot ids being
disjoint.  Candidate lists are computed at the start of a call, as in the code, so a call in
flight goes on over the list of an older configuration after `setConfig`.  A candidate
without the method (no `list`, no `snapshot`) is passed over.

`ComputeManagerProperties.tla` states the properties, `MCComputeManager.tla` the instances.

| Run | Bounds | Shows |
|---|---|---|
| `manager_routing` | 2 providers, 1 sandbox, 3 calls of the sandbox methods, 2 reconfigurations among a one- and a two-provider list | an affinity names the provider that minted the id, comes first, and survives every race while the sandbox lives; nobody is asked twice; a call gives up only after all candidates |
| `manager_calls` | 3 providers, 1 sandbox, 1 snapshot, 2 calls of any method, 2 configurations with round-robin, over all providers or over two, one provider that hides failures | fallback only where it is allowed; round-robin starts with the first provider of each configuration and differs by at most one, also when their number changes; every call settles |

Three calls are enough for each pair of racing calls plus one that observes, or that created
the sandbox; two reconfigurations are enough for a call of an old configuration to meet one
of a new.  Two candidate providers have a first, a last and a known one; three are used where
the rotation of the list matters.  The snapshot methods run the same loops as the sandbox
methods over the same maps.

Fairness (`FairSpec`): a provider answers what it was asked, with success or failure, and a
settled promise's continuation runs.  No fairness is assumed of callers or of `setConfig`.

Proved in `ComputeManagerProofs.tla`, for any providers, ids, calls and configurations:

| Theorem | Property | Rests on |
|---|---|---|
| `TypeCorrect` | `TypeOK` | |
| `RoutesAlwaysLeadHome` | `RoutesLeadHome` | `AnswersComeHome`: an answer in flight names only ids of the provider that gave it, as an id never changes its provider; so the continuation registers the right one however late it runs |
| `EachCandidateIsAskedOnce` | `EveryCandidateOnce` | `CandidatesInv`: the candidates of a call are distinct (`ListsAreDistinct`) and, whatever the affinity or the cursor put first, cover the configuration they were computed from (`Covers`); what is asked has the method (`Asks`) |
| `FallbackStaysConfined` | `FallbackIsConfined` | `CandidatesInv`: where every candidate has the method, the first to ask is the first of the list |
| `RoundRobinIsFair` | `RoundRobinBalanced` | `RotationInv`: each provider before the cursor was the first choice once more often than the others |
| `AffinityComesFirst` | `AffinityFirst` | `RoutingInv` and the shape of the candidate lists |
| `LiveSandboxesStayRouted` | `LiveStaysRouted` | `AffinityInv`: where a lookup has looked in vain there is nothing any more (`LooksInVain`), and a sandbox is minted during its create, so that a call about it began no earlier (`MintedDuring`) |

The invariants are proved together (`ManagerInv`), since each uses what the others say of a
call in flight.  The proofs assume of the
configurations that `resolveProviders` returns a sequence of distinct providers
(`ManagerAssumption`): its definition is a fold, about which TLAPS cannot do induction, and
TLC evaluates the assumption for the configurations of every run.

Known divergences, which the model has and no run isolates:

* `destroy` ends at the first provider that does not throw (`compute.ts:295`).  For an id
  without a route it begins with the first configured provider; providers accept unknown
  ids, so it may resolve while the sandbox runs on at another configured provider, against
  `docs/reference/compute.sandbox.md:135`.
* A call in flight across `setConfig` puts its provider back into the affinity map that
  `setConfig` has cleared (`compute.ts:224`), against `docs/reference/compute.md:206`.

## SandboxCreate and CreateCascade

`SandboxCreate.tla` models `GeneratedSandboxManager.create` (`provider/src/factory.ts:584`):
the provider's promise raced against the abort signal, the cleanup handler, and the check of
the signal after the race.  The bug-prone part is the order of microtasks, so `queue` holds
the reactions of this code's promises in the order the engine runs them: the cleanup handler
and the race (`settled`), the race's rejection by the abort (`raceAbort`), create after its
await (`resume`), and create's caller (`caller`).  An abort by a timer finds the queue empty;
an abort by another promise's continuation may come between any two entries.

`CreateCascade.tla` puts `createWithFallback` (`computesdk/src/compute.ts:214`) around it: an
attempt per candidate, one signal for all.  This is the interaction of manager and factory
under aborts that `ComputeManager` leaves out.

| Run | Bounds | Shows |
|---|---|---|
| `cascade` | 3 candidates, aborts by timers and by promises, fallback allowed or not | the sandbox returned is not one the cleanup destroys; none is left behind; nobody is asked after an abort; an abort ends the call though no provider answers; the loop ends |

Three candidates have a first, a middle and a last; more only repeat the middle.
`NothingLeftBehind` leaves out the aborts by a promise's continuation, because of the
divergence below.  It asks that the destroy was asked for: the code swallows its failure.  Fairness is
only that microtasks run.  Of `CallEnds`, the part `CascadeSettles` has the premise that no
provider is silent for ever; the part `AbortSettles` has no premise.

Proved in `CreateCascadeProofs.tla`, for any number of candidates: type correctness,
`ReturnedIsNotDestroyed`, `NothingLeftBehind` and `AbortStopsAsking`.  The invariant
`CascadeInv` says what a queued microtask knows of its attempt, each being queued once
(`TaskInv`); that without an abort nothing is cleaned up and no race was lost to one
(`AbortInv`); that one attempt at a time is open (`OrderInv`); and that a sandbox which was
made, and which nothing is to destroy, is on its way to the caller (`KeptInv`): the reaction
that carries it is queued, and unless a promise's continuation aborts meanwhile nothing comes
between.

Known divergence: the cleanup handler reads `signal.aborted` when the provider's promise
settles, and create reads it again a few microtasks later (`factory.ts:602`).  An abort between the two makes create throw an
`AbortError`, while the handler has already let the sandbox be.

## StreamProcess

`StreamProcess.tla` models `streamCommandViaProcess` (`provider/src/stream-process.ts`).

| Model | Code |
|---|---|
| `pc` | the await the function is at: start, the two pumps, a status, the sleep, a buffer |
| `wire[s]` | how the follow stream of `s` went: ended by itself, failed, or cut by the deadline |
| `written`, `streamed`, `heard` | chunks the process wrote, the length of `stdout`/`stderr`, what the callback was given |
| `timer`, `timedOut` | the deadline; it aborts both streams and asks for the kill |
| `StatusAnswered`, `Woke` | the exit poll: `EXIT_POLL_ATTEMPTS` rounds, or until the deadline after a lost stream |
| `BufferAnswered`, `BackfillThrew` | what a lost stream did not deliver, from the provider's buffer |

A request and its answer are one step here, as nothing else reads what the answer says.  A
status can be unreadable and counts as running.  The environment assumption is that a follow
stream ends by itself only after the process has exited and everything was delivered; it may
fail at any time.  Text is a sequence of numbered chunks, which tells apart loss, duplication
and disorder.

| Run | Bounds | Shows |
|---|---|---|
| `stream` | 2 chunks per output, 2 poll attempts, callbacks that may throw, with and without timeout and buffers | output once and in order; complete on a reported exit; exits are real; a finished command is not timed out; a call with a timeout leaves nothing running; the call settles; the outputs are an `OutputChannels` |

Two chunks are enough for a stream that drops before, between and after them, and two
attempts for a poll that is answered first, last or never in time.

Fairness: `FairSpec` gives timers, delivered text and the end of a stream whose process has
exited or whose signal was aborted.  `AnsweredSpec` adds that the provider answers what it is
asked.  `CallSettles` holds only with the second: the deadline bounds the command, not the
provider's answers (see below).

Proved in `StreamProcessProofs.tla`, for any amount of output and any number of attempts:
type correctness, `DeliveredInOrder`, `CompleteOnExit`, `ExitIsReal`, `FinishedIsNotTimedOut`
and `NotLeftRunning`.  The properties are not inductive.  The invariant `StreamInv` adds what
holds at each stage of the function (`StageInv`: the pumps have ended once the poll begins),
what the last status entails (`EndInv`: an exit read is an exit that happened, and the timer
is disarmed only after clean ends or the poll), and what is still to be recovered
(`RecoveryInv`: a stream that ended by itself delivered all, one that failed is recovered
from its buffer or is marked as unread).

`StreamsAreChannels` is the refinement: with `written`, `heard` and the end of the call mapped
as in `StreamProcessProperties`, every behaviour is one of `OutputChannels` (below), whose
channels here are stdout and stderr.  `StreamsImplementChannels` proves it: `StreamInv`, by
which the callback has heard the first chunks, and `HeardInv` (how the call ended; nothing is
heard that was not written, also by a callback that throws) make each step a delivery, a
settlement or a stutter of each channel.

Known divergences that the model has and no run isolates: after the deadline the call still
awaits a status of the provider (`stream-process.ts:166`), so a provider that does not answer
holds it for ever; an error of a callback during the backfill is reported as exit code 127, which the header (`stream-process.ts:26`) keeps for a
command that could not be started; a stream lost in a call without a timeout is polled for as
long as after a clean end, so a command that runs longer is reported as -1.

## PubSubClient

`PubSubClient.tla` models `EventsPubSubClient` (`events/src/pubsub.ts`).  Several sockets can
be alive or dying at once, and the handlers of each act on the one state of the client: this
is what the properties are about.  `sock[k]` is a socket from the dial to its close event;
`Connect`, `Disconnect`, `Reconnect` are the caller and the timer; `Opened`, `Failed`,
`Closed`, `HungUp`, `SubscribeOK`, `SubscribeERR`, `BeginLine`, `EndLine`, `Overflow` are the
handlers.  A handler includes the continuations of the promise it settles that are the
client's own, which is where the timer's callback schedules the next attempt.  Listeners are
assumed to exist for `error` (Node throws otherwise) and not to call back into the client.

A socket's `error` and its `close` are two events, and so are the end of a connection, or its
destruction by `disconnect` or an overflow, and its `close`: in between the socket is
`destroyed` (`CloseIsDue`).  The caller whose `connect` was rejected by the error resumes
there, and so may the one who has just called `disconnect`.  A *hasty* caller dials again at
once; one that is not lets the close event come first.  The reconnect timer does too, by the
order in which Node runs close events and timers.

What may go wrong is chosen at the start (`env`, from `Worlds`): the faults (refused dials,
ends with and without error, a hangup before the subscription is answered, `-ERR`, a line cut
in two, a line without end) and whether the caller is hasty.  `Orderly` (nobody hasty, nobody
denied) and `Gentle` name the worlds in which a property is promised.

| Run | Bounds | Shows |
|---|---|---|
| `pubsub` | 3 sockets, three worlds up to the one where everything may happen | connected means subscribed, in every world on some socket that has not closed (`SomeSocketIsHeard`), in an orderly one on the socket held (`HeldSocketIsHeard`); no stray connection in an orderly world; quiet after disconnect, in every world; a connection that ends comes back |
| `pubsub_reconnect_doc` | a world with resets only | finding: after an error nothing reconnects |

A closed socket's name is used again, so three names stand for any sequence of sockets of
which three at a time are alive or closing: enough for a hasty caller to have one closing, one
that the first one's close event makes the client forget, and one dialled after that.
Fairness: close events come (weak); the timer fires, although other close events may be due
each time it could (strong); a server that can be dialled and subscribed to again and again
succeeds some time (strong).

Proved in `PubSubClientProofs.tla`, for any number of sockets in any worlds: type correctness
(with `OpeningIsPending`: the opening in progress is not settled) and `QuietAfterDisconnect`,
from `LeftForGood`: after disconnect neither flag nor timer is set, and everything that
could set the timer looks at the flag.  `SomeSocketIsHeard` is inductive beside the type
invariant, in any world: the state becomes `connected` only with an answered subscription, and
every close event, of whichever socket, takes it back.  `HeldSocketIsHeard` and
`NoStraySocket` follow from `OrderlyInv`: in an orderly world one socket at a time is alive or
closing (`OneSocket`), and it is the client's, or was let go of by `disconnect`, until it has
closed.

Findings and known gaps:

* The error handler leaves state `error`, so the close handler takes the connection for one
  that never was and does not reconnect: after a reset the client stays down
  (`pubsub_reconnect_doc`).  A hangup before the subscription is answered has the same end,
  with the promise of the opening never settled.
* The close handler of an old socket clears `this.socket` although a new one was stored
  (`pubsub.ts:105`).  A hasty caller, one that retries in the `catch` of its `connect` or
  connects right after `disconnect`, loses the socket it has just dialled: no later
  `disconnect` closes it; if it opens after the close event, no SUBSCRIBE is sent on it
  (`pubsub.ts:84-86`) and the promise of its opening is never settled.  The model does all
  this, `SomeSocketIsHeard` and `QuietAfterDisconnect` hold even so, and the worlds of
  `NoStraySocket` and `HeldSocketIsHeard` leave the hasty caller out.
* `-ERR` leaves the socket open; a half line of an old connection spoils the first line of the
  next.  Both are modelled, and the worlds of `NoStraySocket` and `ReconnectsAfterClose`
  leave them out.

## OutputChannels

`OutputChannels.tla` is the abstract promise that both ways of streaming a command make: the
callback of a channel hears a contiguous run of what was written, each chunk once and in
order, and nothing after the call has settled; as long as the channel is *whole* the run
begins at the first chunk and, when the call settles, ends at the last.  `StreamProcess`
implements it with one channel per output (`StreamsAreChannels`), `DaemonBridge` with one per
call (`CallsAreChannels`).  What excuses a gap is each module's own: a call that fails, an
output that was lost and has no buffer, a stream that joined late.

## SeedDaemon

`SeedDaemon.tla` models the requests, jobs, timers and event clients of
`daemond/src/runtime/seed-launcher.ts`; a handler runs in one go on the event loop.

| Model | Code |
|---|---|
| `job`, `jobs` | the Job objects and the map they are in, which they leave earlier than their child ends |
| `child` | the process group: it runs until its last member closes the pipes, `killed` after SIGKILL |
| `onExit` | the exit listeners, named by the request they answer |
| `timers` | deadline, the SIGKILL after it, retention, a wait's own, the exit of `stop` |
| `asked`, `conn`, `answers` | each request on its connection, and what was written to it |
| `log`, `joined`, `heard` | events published; how often a client is registered; what it was sent |
| `mayKill` | whether signals reach the group; a refused one is an `error` event of the child |
| `finish` | the end of a job: note of a timeout, event, listeners, timers |

| Run | Bounds | Shows |
|---|---|---|
| `daemon` | 1 job, 3 requests of any kind, 1 chunk | one answer per request; timers end with what they are for; `exit` is the last event; whoever is told of an exit is told all of it; a retained job is found; jobs with a deadline, attached execs and timed waits end; jobs are forgotten |

Jobs do not act on one another, so one is enough for the races of one; three requests are a
start and two that race about it (two waits, a wait and a kill, a kill and a stop).  Clients
are in the run of `bridge`, where somebody reads what they hear.  `SignalsSpareTheExited`,
a part of `TimersMatchJobs`, and `ExitIsLast` and `ExitedAnswersAreFinal`, the parts of
`ExitIsFinal`, are about groups that can be signalled: see below.

Fairness: timers fire, what SIGKILL reached closes its pipes, a failed spawn is reported.
This takes whoever holds a job's pipes to be in its process group; one that has left the group
keeps the job's child from closing.
Nothing is assumed of a job that is not killed, nor of the other ends of connections.

Proved in `SeedDaemonProofs.tla`, for any number of jobs, requests and clients: type
correctness, `AnsweredOnce`, `ExitIsFinal` and `TimersMatchJobs`.  At the centre is that a
listener of a job, an unanswered request about it and, if it waits with a limit, its timer
belong together: a handler that answers a request takes all three away, so that nothing
answers it a second time.  Of the jobs, a timer's kind follows from the status, and if signals
reach the groups, nothing changes a job that has exited: its child is closed, or was never
spawned, before `finish` runs.

Known divergence: a signal the group refuses (EPERM) arrives as the child's `error` event,
which `finish`es the running job as 127; what it goes on to write, and how it ends, is not
told.  The comment at `seed-launcher.ts:290` and `daemond/README.md:114` say an exit code is
never invented.

## DaemonBridge

`DaemonBridge.tla` composes the daemon with the factory's streaming `runCommand`
(`provider/src/factory.ts:400-560`).  It EXTENDS `SeedDaemon`: a call is a job and an SSE
client of the daemon, its request the daemon's `ExecAttached`, its reader the daemon's `Join`
and `Leave`; the remaining jobs are commands of somebody else, whose events the reader must
filter out.  `Start` to `Bootstrapped` is the first command, which only finds the daemon;
`stream[c]` is the event stream through its awaits (`getUrl`, `fetch`, `read`); `Result`,
`Failure`, `Cut`, `EmitMissing`, `Rejected` are the end, where the stream is aborted and
awaited and the missing output is emitted.  The launcher between the two either answers or
fails.

| Run | Bounds | Shows |
|---|---|---|
| `bridge` | 1 call of 2 chunks, 1 other command, callbacks that may throw | the call is an `OutputChannels`; once the command has answered the call settles |
| `bridge_late_doc` | 1 call | finding: a stream that joins late loses the beginning |

Two chunks are enough for what was streamed to be nothing, a prefix, a suffix and all of the
result; one more command is enough to be confused with.  Assumed: the daemon may signal its
children (`mayKill`), as a job that it took for ended would write on.  `CallsSettle` has an
exception, `getUrl`, which no signal aborts (`factory.ts:469`).  Fairness is of the
bridge's own microtasks only; the provider need never answer.

Proved in `SeedDaemonProofs.tla`, beside the daemon's own theorems, for any number of calls,
of other commands, of chunks and of clients (`BridgeAssumption`: a call is both a job and a
client of the daemon): type correctness, and `CallsAreChannels`, the refinement of
`OutputChannels`.  The invariant `BridgeInv` adds to the daemon's:

* `ExecsHearOfTheirExit`: what answers an attached exec is its job's exit.  As an exited job
  stays as it is (`AnExitIsFinal`), a result carries all that the command wrote.
* `InOrder` and `UpToDate`: a client is sent the chunks of its command consecutively, from the
  first unless it joined late, and up to the last written while it is registered.
* `ReadTo`: what the reader has passed on is a run of chunks `i..j`, all of the command's
  among the events up to its position, with `i = 1` unless the stream was late.

Then what `emitMissingOutput` adds is a matter of where that run begins and ends
(`MissingIs`): if it begins at the first chunk the rest after `j`, otherwise, as the run is
contained in the result without being its prefix, nothing.

A call that finds a daemon state another call has set, or two that set it at once, differ
from one only in the token of their event stream: every command goes through a launcher of
its own, and a stream that is refused is `ConnectFails`.

Finding: what a late stream has read is contained in the result without being a prefix of it,
and `emitMissingOutput` then emits nothing (`factory.ts:89`): neither the chunks before the
join nor those still under way at the abort reach the callback.

## SeedLauncher

`SeedLauncher.tla` models `main` and `ensureDaemon` of the launcher script
(`daemond/src/seed-script.ts`) and the start and exit of the daemon, as processes that share
a socket path (`socket`), a state file (`state`) and an SSE port (`port`).  A launcher and the
daemon it spawns bear one number, as does the token it mints; 0 is what a launcher of an
earlier protocol left.

| Model | Code |
|---|---|
| `RemoveSocket`, `ServeEvents`, `PersistState`, `Listen` | the daemon's start, each an await or a system call others can come between |
| `ReadState`, `Found`, `Spawn`, `Up`, `NotUp`, `WriteState` | `ensureDaemon`: token, health, spawn, wait, state file |
| `SendStop`, `KillOld`, `NotReplaced`, `FoundGone`, `UnlinkOld` | `replaceDaemon` |
| `Answered`, `NotAnswered` | the request over the socket |
| `Crash`, `CutShort` | a daemon killed from outside, a launcher given up |
| `SourceRewritten` | each launcher writes the daemon's source in place, under one that just starts |

| Run | Bounds | Shows |
|---|---|---|
| `launcher` | 2 launchers that overlap, then 1 alone; 1 daemon killed; strict port or not | a command runs on a daemon of its token and protocol; a launcher that runs alone succeeds whatever was left behind, and leaves the state file right; launchers in turn leave one daemon; launchers end |

Overlapping launchers can end with two daemons, or with none reachable: the code does not
prevent it, and the properties say what it does ensure, namely that nothing runs on the wrong
daemon meanwhile and that the next undisturbed launcher repairs it.  Two overlapping ones
meet in every pair of stages, and one that follows them finds every wreck they can leave.  A
state file is written whole in the model; one torn by the death of its writer is left out.

Time is not modelled; instead a daemon that can answer does so in a request's timeout, one
that was spawned has started or failed before its launcher gives up, and SIGKILL is sent
before a replacement is given up (`NotUp`, `NotReplaced`).  Fairness: every process is
scheduled.

Proved in `SeedLauncherProofs.tla`, for any number of launchers and daemons, overlapping or
not: type correctness, `RanOnItsOwn`, `OneDaemonInTurn` and `LoneRepairs`.

* `RanOnItsOwn` rests on `OldIsPast`: the daemon of an earlier protocol never comes back to the
  path, so it is enough that it was not there, dead or of another token when the launcher left
  its probe; and a daemon keeps the token it was spawned with.
* `OneDaemonInTurn` rests on `InTurn`, which says of undisturbed launchers what the probe is
  for: a daemon that lives has the path and the state file, or is the one its launcher waits
  for, and a launcher spawns only when none lives.
* `LoneRepairs` rests on `LoneStages`: what the lone launcher knows of path, state file and
  daemons at each stage, whatever it found.  Of the past it needs only that a daemon which
  listens has left a token in the state file (`StateIsKnown`) and that a port belongs to a
  daemon that came to serve (`PortIsServed`).

Known divergences: with a strict SSE port, a daemon that is out of reach and alive holds the
port, and every later launcher fails until it is killed (the exception in `LoneSucceeds`,
a part of `LoneRepairs`);
when two launchers replace one daemon at once, the `stop` of the slower may reach the new
daemon if it has the same token.

## GmnClient

`GmnClient.tla` models `givemeanode/src/client.ts`: `request` with its attempt and its retry,
`prime`, `warm`, `close`, the credential cache and the HTTP/2 session.

| Model | Code |
|---|---|
| `vended`, `usable`, `Absorb` | the module's credential and its margin; `absorb` |
| `priming`, `JoinPrime` | the single flight of `prime` |
| `h2`, `h2Unavailable`, `session[s]` | the promise of the session, the fallback to fetch, each session's life |
| `refd`, `inflight`, `Release`, `UnrefIdle` | `ref` and `unref` of sockets, and the count that decides about them |
| `Begin`, `Attempt`, `Send` | a request up to the wait for its session, and after it |
| `Serve` | the service: it refuses a bearer at the door or acts |
| `Receive`, `Break`, `Unsent`, `Abort` | the ways an attempt ends; `End` is what they share |
| `closing`, `idleChecks` | continuations of `close` and of `release` that await an opening |

Promise continuations run before the socket's events and timers: `Ready` says that one is
due, and the actions of the outside wait for it.

| Run | Bounds | Shows |
|---|---|---|
| `gmn_client` | 2 requests or primes, 2 sessions, 2 credentials | a request acts at most once; a 401 that reaches the caller is the key's, or that of a credential absorbed while the attempt waited; a retry presents another bearer; an idle client holds no reference; no session leaks; whoever joins a prime is told; requests settle |

Two requests are enough for one to change the credential, the session or the count under the
other; a session is lost only if another may follow.  Fairness: continuations run, connection
timeouts and deadlines expire.  Nothing is assumed of the service.

Proved in `GmnClientProofs.tla`, for any number of requests, sessions and credentials: type
correctness, `ActedOnAtMostOnce`, `RefusalsAreRetried`, `NoSessionLeaks` and
`IdleIsUnreferenced`.  A request may be sent twice only if its first bearer was refused at the
door, so that the service has not acted.  A credential that was refused does not come back to
the cache, because an offer still under way is of a credential nobody has presented yet
(`TokenInv`).  An attempt that began without a credential presents the key unless one was
absorbed between its `Begin` and its `Send` (`KeyUnlessMeanwhile`), which the history variable
`meanwhile` notes for the attempts that wait at that moment.  The
count that decides about references equals the number of attempts that hold the session
(`inflight`), and a session without any is unreferenced or has a check of it due.

Known divergences: `presentedSigned` is read before the wait for the session and the bearer
after it (`client.ts:547`, `:637`, `:666`), so a credential absorbed meanwhile and refused
gives a 401 that is not retried, against "never worse than not having one" (`client.ts:22`).
`RefusalIsTheKeys`, a part of `RefusalsAreRetried`, has exactly these attempts for its
exception: it does not say that they do no harm.  A retry deletes the credential held then,
which may be a newer one of another request.  A request whose session ends by `close` or a goaway while
it waits fails unsent.  A session whose peer falls silent is never forgotten; the deadlines
of its requests end them one by one.

## GmnOperations

`GmnOperations.tla` models the part of `givemeanode/src/operations.ts` that keeps state:
`prepareImage` with the caches `prepared` and `preparing`, then the template or the fork of a
sandbox, then `runCommand` with its retry.  A preparation, its request and its snapshot bear
the name of the caller that started it.  All callers name one image in one shape and differ
in `expires_after`, the only part of the key in which two callers of the same image could be
confused with harm; `age` is a snapshot's life against the reuse margin.

| Run | Bounds | Shows |
|---|---|---|
| `gmn_operations` | 2 callers, 1 of them runs a command, 1 retry, 1 reset of the caches; a client's timeout of 2 ticks, deadlines of 1 and 2, a headroom of 1 | one preparation at a time; no fork meets an expired snapshot; a template to keep does not expire; an exit code is that of the command of the last attempt; after a timeout no command of the call runs on, but one that was late; preparations and callers end |

Two callers share, follow or overtake one preparation; a third would join as the second does.
A request acts at most once, which is `ActedOnAtMostOnce` of `GmnClient`.  Of the cached
snapshots' time it is assumed that the reuse margin outlasts a fork's way to the service and
the delay of a preparation's answer.

The time of a command is counted, in ticks of each caller's own:

| Model | Code |
|---|---|
| `deadline[c]`, `Deadlines` | `deadlineMs`: the caller's, or the default |
| `RequestTimeout`, `Headroom` | `requestTimeoutMs`: the client's timeout or the deadline with `EXEC_DEADLINE_HEADROOM_MS`, whichever is longer |
| `StartTimer`, `timer[c]`, `TimesOut` | the request of each attempt and its timeout; `NextTry` makes a new one |
| `Deliver`, `left[c][n]`, `Finish` | the exec of any attempt reaches the sandbox, at any time after it was sent, also when the client has gone on to another attempt or has given up; there the command has `deadline_ms` from its start |
| `Tick` | a tick for the timer and for each command of the caller that runs; what has run out ends first |
| `late` | history: the commands, while they run, that started when the headroom had been spent, or when their answer was awaited no more |

The deadlines of the run are within the client's timeout and, with the headroom, beyond it,
so each branch of the maximum decides.  When the call has ended nobody compares its time with
anything, so what is left to its commands is not counted any more.  `GmnClient` may try
a request twice, after a 401; the timer is that of the try the service does not refuse.
Fairness: time passes for a caller that waits, a request ends by its timeout, a command by its
deadline, a preparation and a fork by theirs.  Nothing need be delivered or answered.

Proved in `GmnOperationsProofs.tla`, for any number of callers, retries and resets and any
timeout, deadlines and headroom: type
correctness with `CachesAreKeyed` (what a cache names is answered, or under way, for its own
key); `PreparedOnce`, from `RunsAreNoted`: until a reset, a run under way is the one noted
under its key; `HandedLastsLongEnough`, from `HandInv`: what a caller awaits or holds was
prepared for its own expiry (`GotTheirOwn`), and what expires was handed out before its margin
and has not expired since (`HandedInTime`), which the resets do not touch;
`ExitIsOfThisCommand`; and `TimedOutIsOver`, over all attempts of a call, from
`RequestOutlives`: a command that was not late has less left than the request.  When it starts
that is the choice of the timeout, as less than the headroom has been spent; a tick takes as
much from both; and a retry, whose request is new, has at least the timeout that
`LeftIsBounded` compares the older commands with.

Known divergences: a reset of the caches under a preparation lets the old run fill the new
cache and delete the entry of a newer run (`operations.ts:473`), so `PreparedOnce` excludes it
(`undisturbed`); `template.delete` leaves the id in `prepared`, and a later `template.create`
returns it although the snapshot is gone (`operations.ts:373` knows of no such end of an
entry); a preparation that runs out of time leaves its snapshot to nobody.

## Not modelled

* Workbench: a REPL whose commands share one current sandbox, provider and compute instance.
  Commands overlap (the REPL only holds its input for an `await`), and nothing guards the
  state between the check and the await: a second command before the first sandbox is ready
  makes a sandbox that is lost, a late `destroy` clears whatever is current.  One command at a
  time is sequential.  `PROJECT.json` lists both hazards.
* The provider packages are thin mappings of one vendor SDK each; their contract is
  `ProviderWorld`, and the follow streams, buffers and answers of `StreamProcess` and
  `DaemonBridge`.  The rest of `operations.ts` (listings, ports, snapshots of a sandbox,
  files) is one request per call without state.
* The events REST client is one fetch per call.  The browser and infrastructure factories and
  the type declarations hand calls on.  The CLI packages are prompts and rendering.
* In the modelled components: the parsing and wording of messages, filters of daemon
  subscriptions, the shell prelude of the launcher that finds a `node`, listeners of the
  events client that call back into it, a follow call that throws at once.

## Plan

The components with state are modelled, and every safety property of a passing run, the two
refinements of `OutputChannels` among them, is stated by a theorem.

What stays with TLC: liveness under fairness (`EveryCallSettles`, `CallEnds`, `CallSettles`,
`ReconnectsAfterClose`, `EverythingEnds`, `CallsSettle`, `LaunchersEnd`, `RequestsSettle`,
`CallersEnd`), which TLAPS cannot prove, and what a fold computes for every input
(`resolveProviders`, under `ManagerAssumption`).
