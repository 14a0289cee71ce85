--------------------------- MODULE ProviderWorld ---------------------------
(***************************************************************************)
(* The sandbox providers as ComputeManager uses them: remote services that *)
(* mint sandboxes and snapshots, look them up, list them and remove them.  *)
(* Their code is outside the manager, so this module holds only what       *)
(* computesdk/src/compute.ts relies on, with every failure it handles: a   *)
(* call that fails with no effect, a call that takes effect although its   *)
(* answer is lost, and a provider that reports its own failure as "there   *)
(* is nothing here" (the e2b and modal packages do).                       *)
(***************************************************************************)
EXTENDS Naturals, Sequences, FiniteSets

CONSTANTS
    Providers,        \* provider instances
    Sandboxes,        \* sandbox ids any provider may mint
    Snapshots,        \* snapshot ids any provider may mint
    Masking,          \* providers whose failed lookups and destroys look like successes
    None              \* "undefined" in the code

ASSUME WorldAssumption ==
    /\ Masking \subseteq Providers
    /\ None \notin Providers \cup Sandboxes \cup Snapshots
    /\ Sandboxes \cap Snapshots = {}

VARIABLES
    home,             \* home[i]: the provider that minted id i, None before
    live              \* the ids that exist at their provider now

world == <<home, live>>

Ids == Sandboxes \cup Snapshots

Reply == [status : {"none", "ok", "error", "abort"}, ids : SUBSET Ids]

NoReply == [status |-> "none", ids |-> {}]
Ok(ids) == [status |-> "ok", ids |-> ids]
Failed  == [status |-> "error", ids |-> {}]
Aborted == [status |-> "abort", ids |-> {}]

WorldTypeOK ==
    /\ home \in [Ids -> Providers \cup {None}]
    /\ live \subseteq Ids
    /\ \A i \in live : home[i] # None

WorldInit ==
    /\ home = [i \in Ids |-> None]
    /\ live = {}

Minted(kind) == {i \in kind : home[i] # None}
Holds(p, i)  == i \in live /\ home[i] = p
Held(p, kind) == {i \in kind : Holds(p, i)}

\* Provider p mints a fresh id i.
Mint(p, i) ==
    /\ home[i] = None
    /\ home' = [home EXCEPT ![i] = p]
    /\ live' = live \cup {i}

Removed(i) ==
    /\ live' = live \ {i}
    /\ UNCHANGED home

\* The answers of provider p, each with its effect: answer r is given.
CreateServed(p, kind, r) ==
    \/ \E i \in kind : Mint(p, i) /\ r \in {Ok({i}), Failed}
    \/ UNCHANGED world /\ r = Failed

LookupServed(p, i, r) ==
    /\ UNCHANGED world
    /\ \/ r = Ok({i} \cap Held(p, Ids))
       \/ r = Failed
       \/ p \in Masking /\ r = Ok({})

ListServed(p, kind, r) ==
    /\ UNCHANGED world
    /\ \/ r = Ok(Held(p, kind))
       \/ r = Failed
       \/ p \in Masking /\ r = Ok({})

RemoveServed(p, i, r) ==
    \/ Holds(p, i) /\ Removed(i) /\ r \in {Ok({}), Failed}
    \/ UNCHANGED world /\ r = Failed
    \/ UNCHANGED world /\ ~Holds(p, i) /\ r = Ok({})
    \/ UNCHANGED world /\ p \in Masking /\ r = Ok({})

\* Other programs create sandboxes too, and a sandbox reaches its time limit.
MintedElsewhere == \E p \in Providers, i \in Sandboxes : Mint(p, i)
Expire == \E i \in live \cap Sandboxes : Removed(i)
=============================================================================
