--------------------------- MODULE ComputeManager ---------------------------
(***************************************************************************)
(* computesdk/src/compute.ts: the ComputeManager behind `compute`.  It     *)
(* sends each call to one or more of the configured providers and          *)
(* remembers, in two maps, which provider answered for which sandbox and   *)
(* snapshot.                                                               *)
(*                                                                         *)
(* JavaScript runs one handler at a time, but every method awaits its      *)
(* providers one after another, so calls interleave at the awaits.  A call *)
(* is therefore three kinds of step: Start* runs up to the first await,    *)
(* Serve* is a provider taking the request and answering it, and           *)
(* *Answered resumes the method after the await, up to the next await or   *)
(* to its end.  setConfig is synchronous and may run between any two.      *)
(***************************************************************************)
EXTENDS ProviderWorld, SequencesExt

CONSTANTS
    Calls,            \* the invocations of async methods; each is made at most once
    Methods,          \* the methods the callers use
    Configs,          \* the arguments setConfig is called with
    NameOf,           \* a provider's `name`; None when it has none
    Listing,          \* providers that implement sandbox.list
    Snapshotting,     \* providers that implement snapshot
    MaxConfigs        \* bound on the number of setConfig calls

VARIABLES
    providers,        \* this.providers
    providerStrategy, \* this.providerStrategy
    fallbackOnError,  \* this.fallbackOnError
    roundRobinCursor, \* this.roundRobinCursor
    route,            \* this.sandboxProviders on Sandboxes, this.snapshotProviders on Snapshots
    call,             \* the local state of each invocation
    epoch,            \* history: how many times setConfig took effect
    firstPicks        \* history: rotated creates that began at each provider, this epoch

config == <<providers, providerStrategy, fallbackOnError>>
vars == <<world, config, roundRobinCursor, route, call, epoch, firstPicks>>

SandboxMethods == {"create", "getById", "list", "destroy"}
SnapshotMethods == {"snapshotCreate", "snapshotList", "snapshotDelete"}
Strategies == {"priority", "round-robin"}
Names == {NameOf[p] : p \in Providers} \ {None}

----------------------------------------------------------------------------
\* setConfig.

\* The later of two candidates that are the same instance, or share a name, is dropped.
SameProvider(p, q) == p = q \/ (NameOf[p] = NameOf[q] /\ NameOf[p] # None)

ResolveProviders(cfg) ==
    LET candidates == (IF cfg.provider = None THEN <<>> ELSE <<cfg.provider>>) \o cfg.providers
        Add(kept, p) ==
            IF p \notin Providers \/ \E i \in DOMAIN kept : SameProvider(kept[i], p)
            THEN kept ELSE Append(kept, p)
    IN  FoldLeft(Add, <<>>, candidates)

ASSUME ManagerAssumption ==
    /\ Methods \subseteq SandboxMethods \cup SnapshotMethods
    /\ Listing \subseteq Providers /\ Snapshotting \subseteq Providers
    /\ MaxConfigs \in Nat
    /\ \A cfg \in Configs :
          /\ cfg.providerStrategy \in Strategies /\ cfg.fallbackOnError \in BOOLEAN
          /\ ResolveProviders(cfg) \in Seq(Providers)
          /\ IsInjective(ResolveProviders(cfg))

\* Mutant: the cursor goes on from where the former providers left it.
KeepCursor == UNCHANGED roundRobinCursor

ResetCursor == roundRobinCursor' = 0

\* A configuration without a usable provider throws before anything is assigned.
SetConfig(cfg) ==
    /\ epoch < MaxConfigs
    /\ ResolveProviders(cfg) # <<>>
    /\ providers' = ResolveProviders(cfg)
    /\ providerStrategy' = cfg.providerStrategy
    /\ fallbackOnError' = cfg.fallbackOnError
    /\ ResetCursor
    /\ route' = [i \in Ids |-> None]
    /\ epoch' = epoch + 1
    /\ firstPicks' = [p \in Providers |-> 0]
    /\ UNCHANGED <<world, call>>

----------------------------------------------------------------------------
\* Candidate lists: the providers a call goes through, in order.  The loops pass over a
\* candidate without the method (see Askable), so the lists are not filtered for it.

\* getProviderByName, as a list: empty when the code throws.  Configured names differ.
ByName(name) ==
    IF \E i \in DOMAIN providers : NameOf[providers[i]] = name
    THEN <<providers[CHOOSE i \in DOMAIN providers : NameOf[providers[i]] = name]>>
    ELSE <<>>

Rotates(preferred) ==
    preferred = None /\ Len(providers) > 1 /\ providerStrategy = "round-robin"

Rotated(start) ==
    SubSeq(providers, start + 1, Len(providers)) \o SubSeq(providers, 1, start)

CreateCandidates(preferred) ==
    IF preferred # None THEN ByName(preferred)
    ELSE IF Rotates(preferred) THEN Rotated(roundRobinCursor % Len(providers))
    ELSE providers

\* Mutant: the known provider is not filtered out.
OthersUnfiltered(known) == providers

\* providers.filter((p) => p !== known); a configured provider occurs once.
Others(known) ==
    IF \E i \in DOMAIN providers : providers[i] = known
    THEN RemoveAt(providers, CHOOSE i \in DOMAIN providers : providers[i] = known)
    ELSE providers

\* Mutant: the known provider comes last.
KnownLast(known) ==
    IF providers = <<>> \/ known = None THEN providers ELSE Others(known) \o <<known>>

\* Nothing is configured: getProviders throws.
KnownFirst(known) ==
    IF providers = <<>> \/ known = None THEN providers ELSE <<known>> \o Others(known)

\* getByIdCandidates, also for destroy, and getSnapshotDeleteCandidates.
ByIdCandidates(i) == KnownFirst(route[i])

SnapshotCreateCandidates(s, preferred) ==
    IF preferred # None THEN ByName(preferred)
    ELSE IF route[s] \in Snapshotting THEN KnownFirst(route[s])
    ELSE providers

----------------------------------------------------------------------------
\* Invocations.

Call == [method : {"none"} \cup SandboxMethods \cup SnapshotMethods,
         id : Ids \cup {None},
         preferred : Names \cup {None},
         candidates : Seq(Providers),
         pos : Nat,                     \* candidates[pos] is being asked
         canFallback : BOOLEAN,
         epoch : Nat,                   \* history: the epoch the call began in
         phase : {"idle", "asked", "answered", "done"},
         reply : Reply,                 \* the last answer
         result : {"none", "ok", "absent", "failed", "aborted"}]

NoCall == [method |-> "none", id |-> None, preferred |-> None, candidates |-> <<>>, pos |-> 0,
           canFallback |-> FALSE, epoch |-> 0, phase |-> "idle", reply |-> NoReply,
           result |-> "none"]

\* The candidates with the method; the loops `continue` past the others.
Capable(method) ==
    CASE method = "list" -> Listing
      [] method \in SnapshotMethods -> Snapshotting
      [] OTHER -> Providers

Askable(method, candidates, after) ==
    {i \in DOMAIN candidates : i > after /\ candidates[i] \in Capable(method)}

IsFirst(i, positions) == i \in positions /\ \A j \in positions : i <= j

\* With nobody to ask the call ends where it began, with result ifNone.
Begin(c, method, id, preferred, candidates, canFallback, ifNone) ==
    /\ method \in Methods
    /\ call[c].phase = "idle"
    /\ LET Called(pos, phase, result) ==
              [method |-> method, id |-> id, preferred |-> preferred, candidates |-> candidates,
               pos |-> pos, canFallback |-> canFallback, epoch |-> epoch, phase |-> phase,
               reply |-> NoReply, result |-> result]
            positions == Askable(method, candidates, 0)
       IN  \/ \E i \in positions :
                 IsFirst(i, positions) /\ call' = [call EXCEPT ![c] = Called(i, "asked", "none")]
           \/ positions = {} /\ call' = [call EXCEPT ![c] = Called(0, "done", ifNone)]

Asking(c) == call[c].candidates[call[c].pos]
Pending(c, method) == call[c].phase = "asked" /\ call[c].method = method
Resumes(c, method, status) ==
    call[c].phase = "answered" /\ call[c].method = method /\ call[c].reply.status = status

Answer(c, r) == call' = [call EXCEPT ![c].phase = "answered", ![c].reply = r]
Finish(c, result) == call' = [call EXCEPT ![c].phase = "done", ![c].result = result]

\* Mutant: the loop asks the same candidate again.
RemainingRepeats(c) == Askable(call[c].method, call[c].candidates, call[c].pos - 1)

Remaining(c) == Askable(call[c].method, call[c].candidates, call[c].pos)

\* The loop goes on to the next candidate, or ends with result atEnd.
AskNext(c) ==
    \E i \in Remaining(c) :
        IsFirst(i, Remaining(c)) /\ call' = [call EXCEPT ![c].phase = "asked", ![c].pos = i]

AskNextOr(c, atEnd) == AskNext(c) \/ (Remaining(c) = {} /\ Finish(c, atEnd))

\* Mutant: the first configured provider is registered, not the one that answered.
RegisterFirst(ids, p) ==
    route' = [i \in Ids |-> IF i \in ids /\ providers # <<>> THEN providers[1] ELSE route[i]]

Register(ids, p) == route' = [i \in Ids |-> IF i \in ids THEN p ELSE route[i]]
Forget(i) == route' = [route EXCEPT ![i] = None]

Quiet == UNCHANGED <<config, roundRobinCursor, route, epoch, firstPicks>>
RouteStep == UNCHANGED <<world, config, roundRobinCursor, epoch, firstPicks>>

----------------------------------------------------------------------------
\* sandbox.create: createWithFallback.

AdvanceCursor(preferred, candidates) ==
    IF Rotates(preferred)
    THEN /\ roundRobinCursor' = (roundRobinCursor + 1) % Len(providers)
         /\ firstPicks' = [firstPicks EXCEPT ![Head(candidates)] = @ + 1]
    ELSE UNCHANGED <<roundRobinCursor, firstPicks>>

StartCreate(c) ==
    \E preferred \in Names \cup {None} :
        LET candidates == CreateCandidates(preferred)
        IN  /\ Begin(c, "create", None, preferred, candidates,
                     fallbackOnError /\ preferred = None, "failed")
            /\ AdvanceCursor(preferred, candidates)
            /\ UNCHANGED <<world, config, route, epoch>>

\* Only a create can be aborted: its options carry the caller's signal.
ServeCreate(c) ==
    /\ Pending(c, "create")
    /\ \/ \E s \in Sandboxes : \E r \in {Ok({s}), Failed} :
             CreateServed(Asking(c), {s}, r) /\ Answer(c, r)
       \/ UNCHANGED world /\ Answer(c, Aborted)
    /\ Quiet

\* Mutant: an abort is taken for a provider failure.
AbortIsFailure(c) ==
    \/ /\ Resumes(c, "create", "ok")
       /\ Register(call[c].reply.ids, Asking(c)) /\ RouteStep
       /\ Finish(c, "ok")
    \/ /\ Resumes(c, "create", "error") \/ Resumes(c, "create", "abort")
       /\ IF call[c].canFallback THEN AskNextOr(c, "failed") ELSE Finish(c, "failed")
       /\ UNCHANGED world /\ Quiet

CreateAnswered(c) ==
    \/ /\ Resumes(c, "create", "ok")
       /\ Register(call[c].reply.ids, Asking(c)) /\ RouteStep
       /\ Finish(c, "ok")
    \/ /\ Resumes(c, "create", "abort")
       /\ Finish(c, "aborted")
       /\ UNCHANGED world /\ Quiet
    \/ /\ Resumes(c, "create", "error")
       /\ IF call[c].canFallback THEN AskNextOr(c, "failed") ELSE Finish(c, "failed")
       /\ UNCHANGED world /\ Quiet

----------------------------------------------------------------------------
\* sandbox.getById.  An exception of a provider is not caught: it ends the scan.

StartGetById(c) ==
    \E s \in Minted(Sandboxes) :
        /\ Begin(c, "getById", s, None, ByIdCandidates(s), TRUE, "failed")
        /\ UNCHANGED world /\ Quiet

ServeGetById(c) ==
    /\ Pending(c, "getById")
    /\ \E r \in {Ok({call[c].id}), Ok({}), Failed} :
          LookupServed(Asking(c), call[c].id, r) /\ Answer(c, r)
    /\ Quiet

\* Mutant: a lookup that throws counts as a miss.
ThrowIsMiss(c) ==
    /\ Resumes(c, "getById", "ok") \/ Resumes(c, "getById", "error")
    /\ IF call[c].reply.ids # {}
       THEN Register(call[c].reply.ids, Asking(c)) /\ RouteStep /\ Finish(c, "ok")
       ELSE \/ AskNext(c) /\ UNCHANGED world /\ Quiet
            \/ Remaining(c) = {} /\ Forget(call[c].id) /\ RouteStep /\ Finish(c, "absent")

GetByIdAnswered(c) ==
    \/ /\ Resumes(c, "getById", "ok") /\ call[c].reply.ids # {}
       /\ Register(call[c].reply.ids, Asking(c)) /\ RouteStep
       /\ Finish(c, "ok")
    \/ /\ Resumes(c, "getById", "ok") /\ call[c].reply.ids = {}
       /\ AskNext(c)
       /\ UNCHANGED world /\ Quiet
    \/ /\ Resumes(c, "getById", "ok") /\ call[c].reply.ids = {} /\ Remaining(c) = {}
       /\ Forget(call[c].id) /\ RouteStep
       /\ Finish(c, "absent")
    \/ /\ Resumes(c, "getById", "error")
       /\ Finish(c, "failed")
       /\ UNCHANGED world /\ Quiet

----------------------------------------------------------------------------
\* sandbox.list and snapshot.list.

Lists == {"list", "snapshotList"}
Kind(method) == IF method = "list" THEN Sandboxes ELSE Snapshots

StartList(c) ==
    \E method \in Lists :
        /\ Begin(c, method, None, None, providers, TRUE,
                 IF providers = <<>> THEN "failed" ELSE "ok")
        /\ UNCHANGED world /\ Quiet

ServeList(c) ==
    \E method \in Lists :
        /\ Pending(c, method)
        /\ \E r \in {Ok(Held(Asking(c), Kind(method))), Ok({}), Failed} :
              ListServed(Asking(c), Kind(method), r) /\ Answer(c, r)
        /\ Quiet

ListAnswered(c) ==
    \E method \in Lists :
        \/ /\ Resumes(c, method, "ok")
           /\ Register(call[c].reply.ids, Asking(c)) /\ RouteStep
           /\ AskNextOr(c, "ok")
        \/ /\ Resumes(c, method, "error")
           /\ Finish(c, "failed")
           /\ UNCHANGED world /\ Quiet

----------------------------------------------------------------------------
\* sandbox.destroy and snapshot.delete: the first provider that succeeds ends the call.

Removals == {"destroy", "snapshotDelete"}

StartRemoval(c) ==
    \E method \in Removals :
        \E i \in Minted(IF method = "destroy" THEN Sandboxes ELSE Snapshots) :
            /\ Begin(c, method, i, None, ByIdCandidates(i), TRUE, "failed")
            /\ UNCHANGED world /\ Quiet

ServeRemoval(c) ==
    /\ \E method \in Removals : Pending(c, method)
    /\ \E r \in {Ok({}), Failed} : RemoveServed(Asking(c), call[c].id, r) /\ Answer(c, r)
    /\ Quiet

RemovalAnswered(c) ==
    \E method \in Removals :
        \/ /\ Resumes(c, method, "ok")
           /\ Forget(call[c].id) /\ RouteStep
           /\ Finish(c, "ok")
        \/ /\ Resumes(c, method, "error")
           /\ AskNextOr(c, "failed")
           /\ UNCHANGED world /\ Quiet

----------------------------------------------------------------------------
\* snapshot.create.  A provider refuses to snapshot a sandbox it does not hold.

StartSnapshotCreate(c) ==
    \E s \in Minted(Sandboxes), preferred \in Names \cup {None} :
        /\ Begin(c, "snapshotCreate", s, preferred, SnapshotCreateCandidates(s, preferred),
                 TRUE, "failed")
        /\ UNCHANGED world /\ Quiet

ServeSnapshotCreate(c) ==
    /\ Pending(c, "snapshotCreate")
    /\ \/ /\ Holds(Asking(c), call[c].id)
          /\ \E n \in Snapshots : \E r \in {Ok({n}), Failed} :
                CreateServed(Asking(c), {n}, r) /\ Answer(c, r)
       \/ UNCHANGED world /\ Answer(c, Failed)
    /\ Quiet

SnapshotCreateAnswered(c) ==
    \/ /\ Resumes(c, "snapshotCreate", "ok")
       /\ Register(call[c].reply.ids, Asking(c)) /\ RouteStep
       /\ Finish(c, "ok")
    \/ /\ Resumes(c, "snapshotCreate", "error")
       /\ AskNextOr(c, "failed")
       /\ UNCHANGED world /\ Quiet

----------------------------------------------------------------------------
Init ==
    /\ WorldInit
    /\ providers = <<>> /\ providerStrategy = "priority" /\ fallbackOnError = TRUE
    /\ roundRobinCursor = 0
    /\ route = [i \in Ids |-> None]
    /\ call = [c \in Calls |-> NoCall]
    /\ epoch = 0
    /\ firstPicks = [p \in Providers |-> 0]

Start(c) ==
    \/ StartCreate(c) \/ StartGetById(c) \/ StartList(c) \/ StartRemoval(c)
    \/ StartSnapshotCreate(c)

Serve(c) ==
    ServeCreate(c) \/ ServeGetById(c) \/ ServeList(c) \/ ServeRemoval(c) \/ ServeSnapshotCreate(c)

Resume(c) ==
    \/ CreateAnswered(c) \/ GetByIdAnswered(c) \/ ListAnswered(c) \/ RemovalAnswered(c)
    \/ SnapshotCreateAnswered(c)

Elsewhere == (MintedElsewhere \/ Expire) /\ UNCHANGED call /\ Quiet

Next ==
    \/ \E cfg \in Configs : SetConfig(cfg)
    \/ \E c \in Calls : Start(c) \/ Serve(c) \/ Resume(c)
    \/ Elsewhere

Spec == Init /\ [][Next]_vars

\* A provider answers what it was asked, one way or another, and the event loop runs
\* the continuation of a settled promise.  Nobody has to make a call or to reconfigure.
FairSpec == Spec /\ \A c \in Calls : WF_vars(Serve(c)) /\ WF_vars(Resume(c))
=============================================================================
