------------------------ MODULE ComputeManagerProofs ------------------------
(***************************************************************************)
(* Proofs about ComputeManager for any number of providers, sandboxes,     *)
(* calls and reconfigurations.                                             *)
(***************************************************************************)
EXTENDS ComputeManagerProperties, TLAPS

\* The known provider is removed from a sequence of providers, which stays one.
LEMMA OthersType ==
    ASSUME providers \in Seq(Providers), NEW known
    PROVE  Others(known) \in Seq(Providers)
BY DEF Others, RemoveAt

LEMMA KnownFirstType ==
    ASSUME providers \in Seq(Providers), NEW known \in Providers \cup {None}
    PROVE  KnownFirst(known) \in Seq(Providers)
  <1>1. CASE providers = <<>> \/ known = None
    BY <1>1 DEF KnownFirst
  <1>2. CASE providers # <<>> /\ known \in Providers
    <2>1. Others(known) \in Seq(Providers)  BY OthersType
    <2>2. <<known>> \o Others(known) \in Seq(Providers)  BY <1>2, <2>1
    <2> QED  BY <1>2, <2>2 DEF KnownFirst
  <1> QED  BY <1>1, <1>2

LEMMA ByNameType ==
    ASSUME providers \in Seq(Providers), NEW name
    PROVE  ByName(name) \in Seq(Providers)
BY DEF ByName

LEMMA CreateCandidatesType ==
    ASSUME TypeOK, NEW preferred
    PROVE  CreateCandidates(preferred) \in Seq(Providers)
  <1>1. CASE preferred # None
    BY <1>1, ByNameType DEF CreateCandidates, TypeOK
  <1>2. CASE preferred = None /\ Rotates(preferred)
    <2> DEFINE start == roundRobinCursor % Len(providers)
    <2>1. start \in 0..(Len(providers) - 1)
      BY <1>2 DEF Rotates, TypeOK
    <2>2. Rotated(start) \in Seq(Providers)
      BY <2>1 DEF Rotated, TypeOK
    <2> QED  BY <1>2, <2>2 DEF CreateCandidates
  <1>3. CASE preferred = None /\ ~Rotates(preferred)
    BY <1>3 DEF CreateCandidates, TypeOK
  <1> QED  BY <1>1, <1>2, <1>3

LEMMA SnapshotCreateCandidatesType ==
    ASSUME TypeOK, NEW s \in Ids, NEW preferred
    PROVE  SnapshotCreateCandidates(s, preferred) \in Seq(Providers)
BY ByNameType, KnownFirstType DEF SnapshotCreateCandidates, TypeOK

LEMMA ByIdCandidatesType ==
    ASSUME TypeOK, NEW i \in Ids
    PROVE  ByIdCandidates(i) \in Seq(Providers)
BY KnownFirstType DEF ByIdCandidates, TypeOK

----------------------------------------------------------------------------
\* The four ways in which an invocation changes.

LEMMA BeginType ==
    ASSUME TypeOK, UNCHANGED epoch, NEW c \in Calls,
           NEW method \in SandboxMethods \cup SnapshotMethods,
           NEW id \in Ids \cup {None}, NEW preferred \in Names \cup {None},
           NEW candidates \in Seq(Providers), NEW canFallback \in BOOLEAN,
           NEW ifNone \in {"ok", "failed"},
           Begin(c, method, id, preferred, candidates, canFallback, ifNone)
    PROVE  /\ CallsTypeOK'
           /\ call'[c].phase \in {"asked", "done"}
           /\ \A d \in Calls \ {c} : call'[d] = call[d]
  <1> DEFINE Called(pos, phase, result) ==
              [method |-> method, id |-> id, preferred |-> preferred, candidates |-> candidates,
               pos |-> pos, canFallback |-> canFallback, epoch |-> epoch, phase |-> phase,
               reply |-> NoReply, result |-> result]
  <1>1. NoReply \in Reply
    BY DEF NoReply, Reply
  <1>2. CASE \E i \in Askable(method, candidates, 0) :
                 call' = [call EXCEPT ![c] = Called(i, "asked", "none")]
    <2>1. PICK i \in DOMAIN candidates : call' = [call EXCEPT ![c] = Called(i, "asked", "none")]
      BY <1>2 DEF Askable
    <2>2. Called(i, "asked", "none") \in Call
      BY <1>1, <2>1 DEF Call, TypeOK
    <2> QED  BY <2>1, <2>2 DEF TypeOK, CallsTypeOK
  <1>3. CASE call' = [call EXCEPT ![c] = Called(0, "done", ifNone)]
    <2>1. Called(0, "done", ifNone) \in Call
      BY <1>1 DEF Call, TypeOK
    <2> QED  BY <1>3, <2>1 DEF TypeOK, CallsTypeOK
  <1> QED  BY <1>2, <1>3 DEF Begin

LEMMA AnswerType ==
    ASSUME TypeOK, UNCHANGED epoch, NEW c \in Calls, NEW r \in Reply,
           call[c].phase = "asked", Answer(c, r)
    PROVE  /\ CallsTypeOK'
           /\ call'[c] = [call[c] EXCEPT !.phase = "answered", !.reply = r]
           /\ \A d \in Calls \ {c} : call'[d] = call[d]
  <1>1. call[c] \in Call
    BY DEF TypeOK, CallsTypeOK
  <1>2. [call[c] EXCEPT !.phase = "answered", !.reply = r] \in Call
    BY <1>1 DEF Call
  <1> QED  BY <1>1, <1>2 DEF Answer, TypeOK, CallsTypeOK, Call

LEMMA FinishType ==
    ASSUME TypeOK, UNCHANGED epoch, NEW c \in Calls,
           NEW result \in {"ok", "absent", "failed", "aborted"}, Finish(c, result)
    PROVE  /\ CallsTypeOK'
           /\ call'[c].phase = "done"
           /\ \A d \in Calls \ {c} : call'[d] = call[d]
  <1>1. call[c] \in Call
    BY DEF TypeOK, CallsTypeOK
  <1>2. [call[c] EXCEPT !.phase = "done", !.result = result] \in Call
    BY <1>1 DEF Call
  <1> QED  BY <1>1, <1>2 DEF Finish, TypeOK, CallsTypeOK, Call

LEMMA AskNextType ==
    ASSUME TypeOK, UNCHANGED epoch, NEW c \in Calls, AskNext(c)
    PROVE  /\ CallsTypeOK'
           /\ call'[c].phase = "asked"
           /\ \A d \in Calls \ {c} : call'[d] = call[d]
  <1>1. call[c] \in Call
    BY DEF TypeOK, CallsTypeOK
  <1>2. PICK i \in DOMAIN call[c].candidates :
            call' = [call EXCEPT ![c].phase = "asked", ![c].pos = i]
    BY DEF AskNext, Remaining, Askable
  <1>3. i \in Nat
    BY <1>1, <1>2 DEF Call
  <1>4. [call[c] EXCEPT !.phase = "asked", !.pos = i] \in Call
    BY <1>1, <1>3 DEF Call
  <1> QED  BY <1>1, <1>2, <1>4 DEF TypeOK, CallsTypeOK, Call

LEMMA AskNextOrType ==
    ASSUME TypeOK, UNCHANGED epoch, NEW c \in Calls,
           NEW atEnd \in {"ok", "failed"}, AskNextOr(c, atEnd)
    PROVE  /\ CallsTypeOK'
           /\ call'[c].phase \in {"asked", "done"}
           /\ \A d \in Calls \ {c} : call'[d] = call[d]
BY AskNextType, FinishType DEF AskNextOr

----------------------------------------------------------------------------
\* The world: an id never changes its provider.

HomesKept == \A i \in Ids : home[i] # None => home'[i] = home[i]

LEMMA MintKeeps ==
    ASSUME WorldTypeOK, NEW p \in Providers, NEW i \in Ids, Mint(p, i)
    PROVE  WorldTypeOK' /\ HomesKept /\ home'[i] = p
BY WorldAssumption DEF WorldTypeOK, Mint, HomesKept

LEMMA RemovedKeeps ==
    ASSUME WorldTypeOK, NEW i, Removed(i)
    PROVE  WorldTypeOK' /\ HomesKept
BY DEF WorldTypeOK, Removed, HomesKept

LEMMA StillKeeps ==
    ASSUME WorldTypeOK, UNCHANGED world
    PROVE  WorldTypeOK' /\ HomesKept
BY DEF WorldTypeOK, world, HomesKept

\* An answer only names ids of the provider that gives it.
Honest(p, r) == r \in Reply /\ \A i \in r.ids : home'[i] = p

LEMMA CreateServedHonest ==
    ASSUME WorldTypeOK, NEW p \in Providers, NEW i \in Ids,
           NEW r \in {Ok({i}), Failed}, CreateServed(p, {i}, r)
    PROVE  WorldTypeOK' /\ HomesKept /\ Honest(p, r)
  <1>1. r \in Reply
    BY DEF Ok, Failed, Reply
  <1>2. CASE Mint(p, i)
    BY <1>1, <1>2, MintKeeps DEF Honest, Ok, Failed
  <1>3. CASE UNCHANGED world /\ r = Failed
    BY <1>1, <1>3, StillKeeps DEF Honest, Failed
  <1> QED  BY <1>2, <1>3 DEF CreateServed

LEMMA LookupServedHonest ==
    ASSUME WorldTypeOK, NEW p \in Providers, NEW i,
           NEW r, LookupServed(p, i, r)
    PROVE  WorldTypeOK' /\ HomesKept /\ Honest(p, r)
  <1>1. \A j \in {i} \cap Held(p, Ids) : j \in Ids /\ home[j] = p
    BY DEF Held, Holds
  <1> QED  BY <1>1, StillKeeps DEF LookupServed, Honest, Ok, Failed, Reply, world

LEMMA ListServedHonest ==
    ASSUME WorldTypeOK, NEW p \in Providers, NEW kind \in SUBSET Ids,
           NEW r, ListServed(p, kind, r)
    PROVE  WorldTypeOK' /\ HomesKept /\ Honest(p, r)
  <1>1. \A j \in Held(p, kind) : j \in Ids /\ home[j] = p
    BY DEF Held, Holds
  <1> QED  BY <1>1, StillKeeps DEF ListServed, Honest, Ok, Failed, Reply, world

LEMMA RemoveServedHonest ==
    ASSUME WorldTypeOK, NEW p \in Providers, NEW i,
           NEW r, RemoveServed(p, i, r)
    PROVE  WorldTypeOK' /\ HomesKept /\ Honest(p, r)
  <1>1. r = Ok({}) \/ r = Failed
    BY DEF RemoveServed
  <1>2. Honest(p, r)
    BY <1>1 DEF Honest, Ok, Failed, Reply
  <1>3. Removed(i) \/ UNCHANGED world
    BY DEF RemoveServed
  <1> QED  BY <1>2, <1>3, RemovedKeeps, StillKeeps

----------------------------------------------------------------------------
\* What the three kinds of step of an invocation do.

LEMMA StartStep ==
    ASSUME TypeOK, NEW c \in Calls, Start(c)
    PROVE  /\ TypeOK'
           /\ UNCHANGED <<world, route, config, epoch>>
           /\ call'[c].phase \in {"asked", "done"}
           /\ \A d \in Calls \ {c} : call'[d] = call[d]
  <1> DEFINE Done == /\ CallsTypeOK'
                     /\ call'[c].phase \in {"asked", "done"}
                     /\ \A d \in Calls \ {c} : call'[d] = call[d]
             Still == UNCHANGED <<world, config, roundRobinCursor, route, epoch, firstPicks>>
  <1> USE DEF Quiet
  <1>0. /\ Minted(Sandboxes) \subseteq Ids /\ Minted(Snapshots) \subseteq Ids
        /\ \A n \in Names \cup {None} : n \in Names \cup {None}
        /\ None \in Names \cup {None} /\ None \in Ids \cup {None}
        /\ TRUE \in BOOLEAN
    BY DEF Minted, Ids
  <1>1. CASE StartCreate(c)
    <2>1. PICK preferred \in Names \cup {None} :
             /\ Begin(c, "create", None, preferred, CreateCandidates(preferred),
                      fallbackOnError /\ preferred = None, "failed")
             /\ AdvanceCursor(preferred, CreateCandidates(preferred))
             /\ UNCHANGED <<world, config, route, epoch>>
      BY <1>1 DEF StartCreate
    <2>2. CreateCandidates(preferred) \in Seq(Providers)
      BY CreateCandidatesType
    <2>3. (fallbackOnError /\ preferred = None) \in BOOLEAN
      OBVIOUS
    <2>4. Done
      BY <2>1, <2>2, <2>3, BeginType DEF SandboxMethods
    <2>5. /\ roundRobinCursor' \in Nat
          /\ roundRobinCursor' # 0 => roundRobinCursor' < Len(providers)
          /\ firstPicks' \in [Providers -> Nat]
      <3>1. CASE Rotates(preferred)
        <4>1. roundRobinCursor' \in 0..(Len(providers) - 1)
          BY <2>1, <3>1 DEF AdvanceCursor, Rotates, TypeOK
        <4>2. firstPicks' \in [Providers -> Nat]
          BY <2>1, <3>1 DEF AdvanceCursor, TypeOK
        <4> QED  BY <4>1, <4>2 DEF TypeOK
      <3>2. CASE ~Rotates(preferred)
        BY <2>1, <3>2 DEF AdvanceCursor, TypeOK
      <3> QED  BY <3>1, <3>2
    <2> QED  BY <2>1, <2>4, <2>5, StillKeeps DEF TypeOK, config, world
  <1>2. CASE Done /\ Still
    BY <1>2, StillKeeps DEF TypeOK, config, world
  <1>3. CASE StartGetById(c)
    BY <1>0, <1>2, <1>3, BeginType, ByIdCandidatesType DEF StartGetById, SandboxMethods
  <1>4. CASE StartList(c)
    BY <1>0, <1>2, <1>4, BeginType DEF StartList, Lists, SandboxMethods, SnapshotMethods, TypeOK
  <1>5. CASE StartRemoval(c)
    BY <1>0, <1>2, <1>5, BeginType, ByIdCandidatesType
       DEF StartRemoval, Removals, SandboxMethods, SnapshotMethods
  <1>6. CASE StartSnapshotCreate(c)
    BY <1>0, <1>2, <1>6, BeginType, SnapshotCreateCandidatesType
       DEF StartSnapshotCreate, SnapshotMethods
  <1> QED  BY <1>1, <1>3, <1>4, <1>5, <1>6 DEF Start

LEMMA ServeStep ==
    ASSUME TypeOK, NEW c \in Calls, Serve(c)
    PROVE  /\ TypeOK' /\ HomesKept
           /\ UNCHANGED route
           /\ \A i \in call'[c].reply.ids : home'[i] = Asking(c)'
           /\ \A d \in Calls \ {c} : call'[d] = call[d]
  <1> DEFINE p == Asking(c)
             Served(r) == /\ WorldTypeOK' /\ HomesKept /\ Honest(p, r)
                          /\ call[c].phase = "asked" /\ Answer(c, r) /\ Quiet
  <1>0. WorldTypeOK
    BY DEF TypeOK
  <1>1. CASE \E r : Served(r)
    <2>1. PICK r : Served(r)
      BY <1>1
    <2>2. /\ CallsTypeOK'
          /\ call'[c] = [call[c] EXCEPT !.phase = "answered", !.reply = r]
          /\ \A d \in Calls \ {c} : call'[d] = call[d]
      BY <2>1, AnswerType DEF Honest, Quiet
    <2>3. call[c] \in Call
      BY DEF TypeOK, CallsTypeOK
    <2>4. Asking(c)' = p /\ call'[c].reply = r
      BY <2>2, <2>3 DEF Asking, Call
    <2> QED  BY <2>1, <2>2, <2>4 DEF TypeOK, Quiet, config, Honest
  <1>2. call[c].phase = "asked" => p \in Providers
    BY DEF TypeOK, CallsTypeOK, Call, Asking
  <1>3. CASE ServeCreate(c)
    <2>1. CASE UNCHANGED world /\ Answer(c, Aborted)
      <3>1. Served(Aborted)
        BY <1>0, <1>3, <2>1, StillKeeps DEF ServeCreate, Pending, Honest, Aborted, Reply
      <3> QED  BY <1>1, <3>1
    <2>2. CASE \E s \in Sandboxes : \E r \in {Ok({s}), Failed} :
                  CreateServed(p, {s}, r) /\ Answer(c, r)
      <3>0. PICK s \in Sandboxes : \E r \in {Ok({s}), Failed} :
                  CreateServed(p, {s}, r) /\ Answer(c, r)
        BY <2>2
      <3>1. PICK r \in {Ok({s}), Failed} : CreateServed(p, {s}, r) /\ Answer(c, r)
        BY <3>0
      <3>2. Served(r)
        BY <1>0, <1>2, <1>3, <3>1, CreateServedHonest DEF ServeCreate, Pending, Ids
      <3> QED  BY <1>1, <3>2
    <2> QED  BY <1>3, <2>1, <2>2 DEF ServeCreate
  <1>4. CASE ServeGetById(c)
    <2>1. PICK r : LookupServed(p, call[c].id, r) /\ Answer(c, r)
      BY <1>4 DEF ServeGetById
    <2>2. Served(r)
      BY <1>0, <1>2, <1>4, <2>1, LookupServedHonest DEF ServeGetById, Pending
    <2> QED  BY <1>1, <2>2
  <1>5. CASE ServeList(c)
    <2>0. PICK method \in Lists : \E r : ListServed(p, Kind(method), r) /\ Answer(c, r)
      BY <1>5 DEF ServeList
    <2>1. PICK r : ListServed(p, Kind(method), r) /\ Answer(c, r)
      BY <2>0
    <2>2. Kind(method) \in SUBSET Ids
      BY DEF Kind, Ids
    <2>3. call[c].phase = "asked" /\ Quiet
      BY <1>5 DEF ServeList, Pending
    <2>4. Served(r)
      BY <1>0, <1>2, <2>1, <2>2, <2>3, ListServedHonest
    <2> QED  BY <1>1, <2>4
  <1>6. CASE ServeRemoval(c)
    <2>1. PICK r : RemoveServed(p, call[c].id, r) /\ Answer(c, r)
      BY <1>6 DEF ServeRemoval
    <2>2. Served(r)
      BY <1>0, <1>2, <1>6, <2>1, RemoveServedHonest DEF ServeRemoval, Pending
    <2> QED  BY <1>1, <2>2
  <1>7. CASE ServeSnapshotCreate(c)
    <2>1. CASE UNCHANGED world /\ Answer(c, Failed)
      <3>1. Served(Failed)
        BY <1>0, <1>7, <2>1, StillKeeps DEF ServeSnapshotCreate, Pending, Honest, Failed, Reply
      <3> QED  BY <1>1, <3>1
    <2>2. CASE \E n \in Snapshots : \E r \in {Ok({n}), Failed} :
                  CreateServed(p, {n}, r) /\ Answer(c, r)
      <3>0. PICK n \in Snapshots : \E r \in {Ok({n}), Failed} :
                  CreateServed(p, {n}, r) /\ Answer(c, r)
        BY <2>2
      <3>1. PICK r \in {Ok({n}), Failed} : CreateServed(p, {n}, r) /\ Answer(c, r)
        BY <3>0
      <3>2. Served(r)
        BY <1>0, <1>2, <1>7, <3>1, CreateServedHonest DEF ServeSnapshotCreate, Pending, Ids
      <3> QED  BY <1>1, <3>2
    <2> QED  BY <1>7, <2>1, <2>2 DEF ServeSnapshotCreate
  <1> QED  BY <1>3, <1>4, <1>5, <1>6, <1>7 DEF Serve

LEMMA ResumeStep ==
    ASSUME TypeOK, NEW c \in Calls, Resume(c)
    PROVE  /\ TypeOK'
           /\ UNCHANGED world
           /\ call[c].phase = "answered" /\ call'[c].phase \in {"asked", "done"}
           /\ \A d \in Calls \ {c} : call'[d] = call[d]
           /\ \/ UNCHANGED route
              \/ Register(call[c].reply.ids, Asking(c))
              \/ Forget(call[c].id)
  <1> DEFINE Moved == /\ CallsTypeOK'
                      /\ call'[c].phase \in {"asked", "done"}
                      /\ \A d \in Calls \ {c} : call'[d] = call[d]
             Routed == \/ UNCHANGED route
                       \/ Register(call[c].reply.ids, Asking(c))
                       \/ Forget(call[c].id)
             Goal == Moved /\ Routed /\ call[c].phase = "answered" /\ RouteStep
  <1>0. TypeOK /\ call[c] \in Call
    BY DEF TypeOK, CallsTypeOK
  <1>1. Quiet => UNCHANGED <<epoch, route>>
    BY DEF Quiet
  <1>2. RouteStep => UNCHANGED epoch
    BY DEF RouteStep
  <1>3. UNCHANGED world /\ Quiet => RouteStep
    BY DEF Quiet, RouteStep
  <1>4. \A result \in {"ok", "absent", "failed", "aborted"} :
           UNCHANGED epoch /\ Finish(c, result) => Moved
    BY FinishType
  <1>5. UNCHANGED epoch /\ AskNext(c) => Moved
    BY AskNextType
  <1>6. \A atEnd \in {"ok", "failed"} : UNCHANGED epoch /\ AskNextOr(c, atEnd) => Moved
    BY AskNextOrType
  <1>7. CASE Goal
    <2>1. route' \in [Ids -> Providers \cup {None}]
      <3>1. Asking(c) \in Providers
        BY <1>0, <1>7 DEF TypeOK, CallsTypeOK, Call, Asking
      <3> QED  BY <1>7, <3>1 DEF TypeOK, Register, Forget
    <2>2. UNCHANGED world
      BY <1>7 DEF RouteStep
    <2>3. WorldTypeOK'
      BY <2>2, StillKeeps DEF TypeOK
    <2> QED  BY <1>7, <2>1, <2>2, <2>3 DEF TypeOK, RouteStep, config
  <1> HIDE DEF Moved
  <1>8. CASE CreateAnswered(c)
    <2>1. Goal
      BY <1>1, <1>2, <1>3, <1>4, <1>6, <1>8 DEF CreateAnswered, Resumes
    <2> QED  BY <1>7, <2>1
  <1>9. CASE GetByIdAnswered(c)
    <2>1. Goal
      BY <1>1, <1>2, <1>3, <1>4, <1>5, <1>9 DEF GetByIdAnswered, Resumes
    <2> QED  BY <1>7, <2>1
  <1>10. CASE ListAnswered(c)
    <2>1. Goal
      BY <1>1, <1>2, <1>3, <1>4, <1>6, <1>10 DEF ListAnswered, Resumes
    <2> QED  BY <1>7, <2>1
  <1>11. CASE RemovalAnswered(c)
    <2>1. Goal
      BY <1>1, <1>2, <1>3, <1>4, <1>6, <1>11 DEF RemovalAnswered, Resumes
    <2> QED  BY <1>7, <2>1
  <1>12. CASE SnapshotCreateAnswered(c)
    <2>1. Goal
      BY <1>1, <1>2, <1>3, <1>4, <1>6, <1>12 DEF SnapshotCreateAnswered, Resumes
    <2> QED  BY <1>7, <2>1
  <1> QED  BY <1>8, <1>9, <1>10, <1>11, <1>12 DEF Resume

LEMMA SetConfigStep ==
    ASSUME TypeOK, NEW cfg \in Configs, SetConfig(cfg)
    PROVE  TypeOK' /\ UNCHANGED <<world, call>> /\ route' = [i \in Ids |-> None]
  <1>1. /\ cfg.providerStrategy \in Strategies /\ cfg.fallbackOnError \in BOOLEAN
        /\ ResolveProviders(cfg) \in Seq(Providers) /\ MaxConfigs \in Nat
    BY ManagerAssumption
  <1>2. WorldTypeOK' /\ UNCHANGED <<world, call>> /\ route' = [i \in Ids |-> None]
    BY StillKeeps DEF SetConfig, ResetCursor, TypeOK
  <1>3. CallsTypeOK'
    BY <1>1 DEF SetConfig, ResetCursor, TypeOK, CallsTypeOK, Call
  <1> QED  BY <1>1, <1>2, <1>3 DEF SetConfig, ResetCursor, TypeOK

LEMMA ElsewhereStep ==
    ASSUME TypeOK, Elsewhere
    PROVE  TypeOK' /\ HomesKept /\ UNCHANGED <<route, call>>
  <1>1. WorldTypeOK' /\ HomesKept
    BY MintKeeps, RemovedKeeps DEF Elsewhere, MintedElsewhere, Expire, TypeOK, Ids
  <1> QED  BY <1>1 DEF Elsewhere, Quiet, TypeOK, CallsTypeOK, config

----------------------------------------------------------------------------
LEMMA InitTypeOK == Init => TypeOK
  <1> SUFFICES ASSUME Init PROVE TypeOK
    OBVIOUS
  <1>1. NoCall \in Call
    BY DEF NoCall, Call, NoReply, Reply
  <1>2. CallsTypeOK
    BY <1>1 DEF Init, CallsTypeOK, NoCall
  <1>3. MaxConfigs \in Nat
    BY ManagerAssumption
  <1> QED  BY <1>2, <1>3 DEF Init, TypeOK, WorldInit, WorldTypeOK, Strategies

\* TypeOK is an invariant: no interleaving of calls, answers and setConfig leaves the
\* manager, or an invocation, in a state its code does not expect (compute.ts:131-137).
THEOREM TypeCorrect == Spec => []TypeOK
  <1>1. Init => TypeOK
    BY InitTypeOK
  <1>2. TypeOK /\ [Next]_vars => TypeOK'
    <2> SUFFICES ASSUME TypeOK, [Next]_vars PROVE TypeOK'
      OBVIOUS
    <2>1. ASSUME NEW cfg \in Configs, SetConfig(cfg) PROVE TypeOK'
      BY <2>1, SetConfigStep
    <2>2. ASSUME NEW c \in Calls, Start(c) PROVE TypeOK'
      BY <2>2, StartStep
    <2>3. ASSUME NEW c \in Calls, Serve(c) PROVE TypeOK'
      BY <2>3, ServeStep
    <2>4. ASSUME NEW c \in Calls, Resume(c) PROVE TypeOK'
      BY <2>4, ResumeStep
    <2>5. CASE Elsewhere
      BY <2>5, ElsewhereStep
    <2>6. CASE UNCHANGED vars
      BY <2>6 DEF vars, config, world, TypeOK, WorldTypeOK, CallsTypeOK
    <2> QED  BY <2>1, <2>2, <2>3, <2>4, <2>5, <2>6 DEF Next
  <1> QED  BY <1>1, <1>2, PTL DEF Spec

LEMMA RoutingInvariant == Spec => []RoutingInv
  <1>1. Init => RoutingInv
    <2> SUFFICES ASSUME Init PROVE AnswersComeHome /\ RoutesLeadHome
      BY InitTypeOK DEF RoutingInv
    <2> QED  BY DEF Init, NoCall, AnswersComeHome, RoutesLeadHome
  <1>2. RoutingInv /\ TypeOK' /\ [Next]_vars => RoutingInv'
    <2> SUFFICES ASSUME RoutingInv, TypeOK', [Next]_vars
                 PROVE  AnswersComeHome' /\ RoutesLeadHome'
      BY DEF RoutingInv
    <2>0. TypeOK /\ AnswersComeHome /\ RoutesLeadHome /\ None \notin Providers
      BY WorldAssumption DEF RoutingInv
    \* Routes that stay keep leading home, because ids keep their provider.
    <2>1. HomesKept /\ UNCHANGED route => RoutesLeadHome'
      BY <2>0 DEF HomesKept, RoutesLeadHome, TypeOK, WorldTypeOK
    \* So do the answers of the invocations that do not move.
    <2>2. ASSUME HomesKept, NEW d \in Calls, call'[d] = call[d], call'[d].phase = "answered"
          PROVE  \A i \in call'[d].reply.ids : home'[i] = Asking(d)'
      <3>1. Asking(d)' = Asking(d) /\ Asking(d) \in Providers
        BY <2>0, <2>2 DEF Asking, TypeOK, CallsTypeOK, Call
      <3>2. call[d].reply.ids \subseteq Ids
        BY <2>0 DEF TypeOK, CallsTypeOK, Call, Reply
      <3> QED  BY <2>0, <2>2, <3>1, <3>2 DEF AnswersComeHome, HomesKept
    <2>3. UNCHANGED world => HomesKept
      BY DEF world, HomesKept
    <2>4. ASSUME NEW cfg \in Configs, SetConfig(cfg) PROVE AnswersComeHome' /\ RoutesLeadHome'
      <3>1. UNCHANGED <<world, call>> /\ route' = [i \in Ids |-> None]
        BY <2>0, <2>4, SetConfigStep
      <3> QED  BY <2>2, <2>3, <3>1 DEF AnswersComeHome, RoutesLeadHome
    <2>5. ASSUME NEW c \in Calls, Start(c) PROVE AnswersComeHome' /\ RoutesLeadHome'
      BY <2>0, <2>1, <2>2, <2>3, <2>5, StartStep DEF AnswersComeHome
    <2>6. ASSUME NEW c \in Calls, Serve(c) PROVE AnswersComeHome' /\ RoutesLeadHome'
      BY <2>0, <2>1, <2>2, <2>6, ServeStep DEF AnswersComeHome
    <2>7. ASSUME NEW c \in Calls, Resume(c) PROVE AnswersComeHome' /\ RoutesLeadHome'
      <3>0. call[c].phase = "answered" /\ home' = home /\ UNCHANGED world
        BY <2>0, <2>7, ResumeStep DEF world
      <3>1. HomesKept /\ AnswersComeHome'
        BY <2>0, <2>2, <2>3, <2>7, ResumeStep DEF AnswersComeHome
      <3>2. CASE UNCHANGED route
        BY <2>1, <3>1, <3>2
      <3>3. CASE Register(call[c].reply.ids, Asking(c))
        <4>1. \A i \in call[c].reply.ids : home'[i] = Asking(c)
          BY <2>0, <3>0 DEF AnswersComeHome
        <4> QED  BY <2>0, <3>0, <3>1, <3>3, <4>1 DEF Register, RoutesLeadHome
      <3>4. CASE Forget(call[c].id)
        <4>1. \A i \in Ids : route'[i] = route[i] \/ route'[i] = None
          BY <2>0, <3>4 DEF Forget, TypeOK
        <4> QED  BY <2>0, <3>0, <3>1, <4>1 DEF RoutesLeadHome
      <3> QED  BY <2>0, <2>7, <3>1, <3>2, <3>3, <3>4, ResumeStep
    <2>8. CASE Elsewhere
      BY <2>0, <2>1, <2>2, <2>8, ElsewhereStep DEF AnswersComeHome
    <2>9. CASE UNCHANGED vars
      BY <2>0, <2>1, <2>2, <2>3, <2>9 DEF vars, AnswersComeHome
    <2> QED  BY <2>4, <2>5, <2>6, <2>7, <2>8, <2>9 DEF Next
  <1> QED  BY <1>1, <1>2, TypeCorrect, PTL DEF Spec

\* Affinity is sound: whatever overlaps, a route leads to the provider that minted the
\* id.  A continuation registers the provider it asked (compute.ts:224, 262, 281, 325,
\* 348), and that is the id's own because answers in flight keep naming it.
THEOREM RoutesAlwaysLeadHome == Spec => []RoutesLeadHome
  <1>1. RoutingInv => RoutesLeadHome
    BY DEF RoutingInv
  <1> QED  BY <1>1, RoutingInvariant, PTL

----------------------------------------------------------------------------
\* Candidates: what a call was given to go through, and how far it has come.

Offered(c) == {call[c].candidates[i] : i \in DOMAIN call[c].candidates}

\* The configured providers are distinct, and so are the candidates of every call.
ListsAreDistinct == IsInjective(providers) /\ NoProviderAskedTwice

\* A call of the present configuration that names no provider goes through all of them, and
\* a create through no others.
Covers(c) ==
    /\ call[c].phase # "idle"
    /\ call[c].epoch = epoch
    => /\ call[c].preferred = None => Configured \subseteq Offered(c)
       /\ call[c].method = "create" => Offered(c) \subseteq Configured

\* What is asked can answer, and nothing has a result before its end.
Asks(c) ==
    /\ call[c].phase \in {"asked", "answered"} => Asking(c) \in Capable(call[c].method)
    /\ call[c].phase # "done" => call[c].result = "none"

\* What a call is about exists, or did: an id is of the method's kind and was minted.
About(c) ==
    /\ call[c].method \in {"getById", "destroy"} => call[c].id \in Sandboxes /\ call[c].preferred = None
    /\ call[c].method = "snapshotDelete" => call[c].id \in Snapshots
    /\ call[c].method = "create" /\ call[c].canFallback => call[c].preferred = None
    /\ call[c].id # None => home[call[c].id] # None

CandidatesInv ==
    /\ ListsAreDistinct
    /\ \A c \in Calls : Covers(c) /\ Asks(c) /\ About(c)
    /\ GivesUpOnlyAfterAll

----------------------------------------------------------------------------
\* Affinity: what a lookup has learnt, and which lookups know of a sandbox just created.

\* The candidates before this one have answered, and the present one if it found nothing.
Answered(c) ==
    IF call[c].phase = "answered" /\ call[c].reply.status = "ok" /\ call[c].reply.ids = {}
    THEN 1..call[c].pos ELSE 1..(call[c].pos - 1)

\* Where a lookup has looked in vain there is nothing to find any more.
LooksInVain(c) ==
    call[c].method = "getById" /\ call[c].phase \in {"asked", "answered"} =>
        \A i \in Answered(c) :
            call[c].candidates[i] = home[call[c].id] /\ home[call[c].id] \notin Masking
            => call[c].id \notin live

\* A sandbox is minted during its create: a call about it began no earlier.
MintedDuring(c) ==
    call[c].method = "create" /\ call[c].phase # "asked" =>
        \A s \in call[c].reply.ids :
            /\ home[s] = Asking(c)
            /\ Asking(c) \in Offered(c)
            /\ \A d \in Calls : call[d].id = s => call[c].epoch <= call[d].epoch

SnapshotsAtHome == \A n \in Snapshots : home[n] # None => home[n] \in Snapshotting

AffinityInv ==
    /\ SnapshotsAtHome
    /\ \A c \in Calls : LooksInVain(c) /\ MintedDuring(c)
    /\ CreatedStaysRouted

\* Round-robin: each provider before the cursor was the first choice once more often.
RotationInv ==
    \E rounds \in Nat :
        \A i \in DOMAIN providers :
            firstPicks[providers[i]] = IF i <= roundRobinCursor THEN rounds + 1 ELSE rounds

ManagerInv == RoutingInv /\ CandidatesInv /\ FallbackIsConfined /\ AffinityInv

----------------------------------------------------------------------------
\* The candidate lists: each is made of distinct providers, and which.

\* Without the known provider nobody else is missing.
LEMMA OthersAreTheOthers ==
    ASSUME providers \in Seq(Providers), IsInjective(providers), NEW known
    PROVE  /\ Others(known) \in Seq(Providers)
           /\ IsInjective(Others(known))
           /\ \A i \in DOMAIN Others(known) : Others(known)[i] # known /\ Others(known)[i] \in Configured
           /\ \A p \in Configured \ {known} : \E i \in DOMAIN Others(known) : Others(known)[i] = p
  <1>0. Others(known) \in Seq(Providers)
    BY OthersType
  <1>1. CASE \E i \in DOMAIN providers : providers[i] = known
    <2> DEFINE k == CHOOSE i \in DOMAIN providers : providers[i] = known
               o == Others(known)
    <2>1. k \in 1..Len(providers) /\ providers[k] = known
      BY <1>1
    <2>2. o = SubSeq(providers, 1, k - 1) \o SubSeq(providers, k + 1, Len(providers))
      BY <1>1 DEF Others, RemoveAt
    <2> HIDE DEF k, o
    <2>3. /\ Len(o) = Len(providers) - 1
          /\ \A j \in 1..Len(o) : o[j] = IF j < k THEN providers[j] ELSE providers[j + 1]
      <3> DEFINE front == SubSeq(providers, 1, k - 1)
                 back == SubSeq(providers, k + 1, Len(providers))
      <3>1. /\ front \in Seq(Providers) /\ Len(front) = k - 1
            /\ \A j \in 1..(k - 1) : front[j] = providers[j]
        BY <2>1
      <3>2. /\ back \in Seq(Providers) /\ Len(back) = Len(providers) - k
            /\ \A j \in 1..(Len(providers) - k) : back[j] = providers[k + j]
        BY <2>1
      <3> HIDE DEF front, back
      <3>3. /\ Len(o) = Len(front) + Len(back)
            /\ \A j \in 1..Len(o) : o[j] = IF j <= Len(front) THEN front[j] ELSE back[j - Len(front)]
        BY <2>2, <3>1, <3>2 DEF front, back
      <3>4. Len(o) = Len(providers) - 1
        BY <2>1, <3>1, <3>2, <3>3
      <3>5. ASSUME NEW j \in 1..Len(o), j < k PROVE o[j] = providers[j]
        <4>1. j \in 1..(k - 1) /\ j <= k - 1
          BY <2>1, <3>5
        <4>2. o[j] = front[j]
          BY <3>1, <3>3, <4>1
        <4> QED  BY <3>1, <4>1, <4>2
      <3>6. ASSUME NEW j \in 1..Len(o), j >= k PROVE o[j] = providers[j + 1]
        <4>1. j - (k - 1) \in 1..(Len(providers) - k) /\ k + (j - (k - 1)) = j + 1
          BY <2>1, <3>4, <3>6
        <4>2. o[j] = back[j - (k - 1)]
          BY <2>1, <3>1, <3>3, <3>6
        <4> QED  BY <3>2, <4>1, <4>2
      <3> QED  BY <2>1, <3>4, <3>5, <3>6
    <2>4. \A j \in 1..Len(providers) : providers[j] = known => j = k
      BY <2>1 DEF IsInjective
    <2>5. IsInjective(o)
      <3> SUFFICES ASSUME NEW i \in 1..Len(o), NEW j \in 1..Len(o), o[i] = o[j] PROVE i = j
        BY <1>0 DEF IsInjective, o
      <3>1. \A a, b \in 1..Len(providers) : providers[a] = providers[b] => a = b
        BY DEF IsInjective
      <3> QED  BY <2>1, <2>3, <3>1
    <2>6. \A i \in 1..Len(o) : o[i] # known /\ o[i] \in Configured
      BY <2>1, <2>3, <2>4 DEF Configured
    <2>7. ASSUME NEW p \in Configured \ {known} PROVE \E i \in 1..Len(o) : o[i] = p
      <3>1. PICK j \in 1..Len(providers) : providers[j] = p
        BY DEF Configured
      <3>2. j # k
        BY <2>1, <3>1
      <3>3. CASE j < k
        <4>1. j \in 1..Len(o) /\ o[j] = p
          BY <2>1, <2>3, <3>1, <3>3
        <4> QED  BY <4>1
      <3>4. CASE j > k
        <4>1. j - 1 \in 1..Len(o) /\ o[j - 1] = p
          BY <2>1, <2>3, <3>1, <3>4
        <4> QED  BY <4>1
      <3> QED  BY <2>1, <3>2, <3>3, <3>4
    <2> QED  BY <1>0, <2>5, <2>6, <2>7 DEF o
  <1>2. CASE ~\E i \in DOMAIN providers : providers[i] = known
    BY <1>2 DEF Others, Configured
  <1> QED  BY <1>1, <1>2

LEMMA KnownFirstLeads ==
    ASSUME providers \in Seq(Providers), IsInjective(providers),
           NEW known \in Providers \cup {None}
    PROVE  /\ IsInjective(KnownFirst(known))
           /\ \A p \in Configured : \E i \in DOMAIN KnownFirst(known) : KnownFirst(known)[i] = p
           /\ known # None /\ providers # <<>> => KnownFirst(known) # <<>> /\ KnownFirst(known)[1] = known
           /\ providers = <<>> => KnownFirst(known) = <<>>
  <1>1. CASE providers = <<>> \/ known = None
    BY <1>1 DEF KnownFirst, Configured
  <1>2. CASE providers # <<>> /\ known # None
    <2> DEFINE o == Others(known)
               k == KnownFirst(known)
    <2>1. k = <<known>> \o o
      BY <1>2 DEF KnownFirst
    <2>2. /\ o \in Seq(Providers) /\ IsInjective(o)
          /\ \A i \in DOMAIN o : o[i] # known
          /\ \A p \in Configured \ {known} : \E i \in DOMAIN o : o[i] = p
      BY OthersAreTheOthers
    <2> HIDE DEF o, k
    <2>3. /\ Len(k) = Len(o) + 1 /\ k[1] = known /\ DOMAIN k = 1..Len(k)
          /\ \A j \in 1..Len(o) : k[j + 1] = o[j]
      BY <1>2, <2>1, <2>2
    <2>4. \A a, b \in 1..Len(o) : o[a] = o[b] => a = b
      BY <2>2 DEF IsInjective
    <2>5. \A j \in 2..Len(k) : j - 1 \in 1..Len(o) /\ k[j] = o[j - 1]
      <3> TAKE j \in 2..Len(k)
      <3>1. j - 1 \in 1..Len(o) /\ j = (j - 1) + 1
        BY <2>2, <2>3
      <3> QED  BY <2>3, <3>1
    <2>6. IsInjective(k)
      <3> SUFFICES ASSUME NEW a \in 1..Len(k), NEW b \in 1..Len(k), k[a] = k[b] PROVE a = b
        BY <2>3 DEF IsInjective
      <3>1. CASE a = 1 /\ b = 1
        BY <3>1
      <3>2. CASE a = 1 /\ b # 1
        BY <2>2, <2>3, <2>5, <3>2
      <3>3. CASE a # 1 /\ b = 1
        BY <2>2, <2>3, <2>5, <3>3
      <3>4. CASE a # 1 /\ b # 1
        <4>0. a \in 2..Len(k) /\ b \in 2..Len(k)
          BY <3>4
        <4>1. a - 1 \in 1..Len(o) /\ b - 1 \in 1..Len(o) /\ o[a - 1] = o[b - 1]
          BY <2>5, <4>0
        <4>2. a - 1 = b - 1
          BY <2>4, <4>1
        <4> QED  BY <4>2
      <3> QED  BY <3>1, <3>2, <3>3, <3>4
    <2>7. ASSUME NEW p \in Configured PROVE \E i \in DOMAIN k : k[i] = p
      <3>1. CASE p = known
        <4>1. 1 \in DOMAIN k
          BY <2>2, <2>3
        <4> QED  BY <2>3, <3>1, <4>1
      <3>2. CASE p # known
        <4>1. PICK j \in 1..Len(o) : o[j] = p
          BY <2>2, <3>2
        <4>2. j + 1 \in DOMAIN k /\ k[j + 1] = p
          BY <2>2, <2>3, <4>1
        <4> QED  BY <4>2
      <3> QED  BY <3>1, <3>2
    <2>8. k # <<>>
      BY <2>2, <2>3
    <2> QED  BY <1>2, <2>3, <2>6, <2>7, <2>8 DEF k
  <1> QED  BY <1>1, <1>2

LEMMA RotatedTurns ==
    ASSUME providers \in Seq(Providers), IsInjective(providers),
           NEW start \in 0..(Len(providers) - 1)
    PROVE  /\ IsInjective(Rotated(start))
           /\ \A i \in DOMAIN Rotated(start) : Rotated(start)[i] \in Configured
           /\ \A p \in Configured : \E i \in DOMAIN Rotated(start) : Rotated(start)[i] = p
           /\ Head(Rotated(start)) = providers[start + 1]
  <1> DEFINE r == Rotated(start)
             n == Len(providers)
  <1>0. n \in Nat /\ n > 0
    OBVIOUS
  <1>1. /\ DOMAIN r = 1..n /\ r # <<>>
        /\ \A j \in 1..n : r[j] = IF j <= n - start THEN providers[start + j]
                                                   ELSE providers[j - (n - start)]
    BY DEF Rotated
  <1> HIDE DEF r
  <1>2. \A a, b \in 1..n : providers[a] = providers[b] => a = b
    BY DEF IsInjective
  <1>3. IsInjective(r)
    <2> SUFFICES ASSUME NEW a \in 1..n, NEW b \in 1..n, r[a] = r[b] PROVE a = b
      BY <1>1 DEF IsInjective
    <2> DEFINE At(j) == IF j <= n - start THEN start + j ELSE j - (n - start)
    <2>1. \A j \in 1..n : r[j] = providers[At(j)]
      BY <1>1
    <2>2. At(a) \in 1..n /\ At(b) \in 1..n /\ (At(a) = At(b) => a = b)
      BY <1>0
    <2> QED  BY <1>2, <2>1, <2>2
  <1>4. \A i \in 1..n : r[i] \in Configured
    BY <1>0, <1>1 DEF Configured
  <1>5. ASSUME NEW p \in Configured PROVE \E i \in 1..n : r[i] = p
    <2>1. PICK j \in 1..n : providers[j] = p
      BY DEF Configured
    <2>2. CASE j > start
      <3>1. j - start \in 1..n /\ r[j - start] = p
        BY <1>0, <1>1, <2>1, <2>2
      <3> QED  BY <3>1
    <2>3. CASE j <= start
      <3>1. /\ j + (n - start) \in 1..n /\ ~(j + (n - start) <= n - start)
            /\ (j + (n - start)) - (n - start) = j
        BY <1>0, <2>3
      <3>2. r[j + (n - start)] = p
        BY <1>1, <2>1, <3>1
      <3> QED  BY <3>1, <3>2
    <2> QED  BY <2>2, <2>3
  <1>6. r[1] = providers[start + 1]
    BY <1>0, <1>1
  <1>7. Head(r) = r[1]
    BY <1>0, <1>1
  <1> QED  BY <1>1, <1>3, <1>4, <1>5, <1>6, <1>7 DEF r

LEMMA ByNameIsOne ==
    ASSUME providers \in Seq(Providers), NEW name
    PROVE  /\ IsInjective(ByName(name))
           /\ \A i \in DOMAIN ByName(name) : ByName(name)[i] \in Configured
  <1>1. CASE \E i \in DOMAIN providers : NameOf[providers[i]] = name
    <2>1. PICK k \in DOMAIN providers : ByName(name) = <<providers[k]>>
      BY <1>1 DEF ByName
    <2>2. providers[k] \in Configured
      BY DEF Configured
    <2> QED  BY <2>1, <2>2 DEF IsInjective
  <1>2. CASE ~\E i \in DOMAIN providers : NameOf[providers[i]] = name
    BY <1>2 DEF ByName, IsInjective
  <1> QED  BY <1>1, <1>2

----------------------------------------------------------------------------
\* Each step of a call in terms of its record.

\* What a call was started with stays.
SameCall(c) ==
    /\ call'[c].method = call[c].method /\ call'[c].id = call[c].id
    /\ call'[c].preferred = call[c].preferred /\ call'[c].candidates = call[c].candidates
    /\ call'[c].canFallback = call[c].canFallback /\ call'[c].epoch = call[c].epoch

Began(c, method, id, preferred, candidates, canFallback, ifNone) ==
    /\ method \in Methods /\ call[c].phase = "idle"
    /\ call'[c].method = method /\ call'[c].id = id /\ call'[c].preferred = preferred
    /\ call'[c].candidates = candidates /\ call'[c].canFallback = canFallback
    /\ call'[c].epoch = epoch /\ call'[c].reply = NoReply
    /\ \/ /\ call'[c].phase = "asked" /\ call'[c].result = "none"
          /\ IsFirst(call'[c].pos, Askable(method, candidates, 0))
       \/ /\ call'[c].phase = "done" /\ call'[c].result = ifNone /\ call'[c].pos = 0
          /\ Askable(method, candidates, 0) = {}

LEMMA BeginIs ==
    ASSUME TypeOK, NEW c \in Calls, NEW method, NEW id, NEW preferred, NEW candidates,
           NEW canFallback, NEW ifNone,
           Begin(c, method, id, preferred, candidates, canFallback, ifNone)
    PROVE  Began(c, method, id, preferred, candidates, canFallback, ifNone)
  <1> DEFINE Called(pos, phase, result) ==
              [method |-> method, id |-> id, preferred |-> preferred, candidates |-> candidates,
               pos |-> pos, canFallback |-> canFallback, epoch |-> epoch, phase |-> phase,
               reply |-> NoReply, result |-> result]
             positions == Askable(method, candidates, 0)
  <1>1. /\ method \in Methods /\ call[c].phase = "idle" /\ call \in [Calls -> Call]
        /\ \/ \E i \in positions :
                 IsFirst(i, positions) /\ call' = [call EXCEPT ![c] = Called(i, "asked", "none")]
           \/ positions = {} /\ call' = [call EXCEPT ![c] = Called(0, "done", ifNone)]
    BY DEF Begin, TypeOK, CallsTypeOK
  <1> HIDE DEF positions
  <1>2. CASE \E i \in positions :
                 IsFirst(i, positions) /\ call' = [call EXCEPT ![c] = Called(i, "asked", "none")]
    <2>1. PICK i \in positions :
                 IsFirst(i, positions) /\ call' = [call EXCEPT ![c] = Called(i, "asked", "none")]
      BY <1>2
    <2>2. call'[c] = Called(i, "asked", "none")
      BY <1>1, <2>1
    <2> QED  BY <1>1, <2>1, <2>2 DEF Began, positions
  <1>3. CASE positions = {} /\ call' = [call EXCEPT ![c] = Called(0, "done", ifNone)]
    <2>1. call'[c] = Called(0, "done", ifNone)
      BY <1>1, <1>3
    <2> QED  BY <1>1, <1>3, <2>1 DEF Began, positions
  <1> QED  BY <1>1, <1>2, <1>3

\* The five ways in which a call starts.
Starts(c) ==
    \/ \E preferred \in Names \cup {None} :
          /\ Began(c, "create", None, preferred, CreateCandidates(preferred),
                   fallbackOnError /\ preferred = None, "failed")
          /\ AdvanceCursor(preferred, CreateCandidates(preferred))
    \/ /\ UNCHANGED <<roundRobinCursor, firstPicks>>
       /\ \/ \E s \in Minted(Sandboxes), method \in {"getById", "destroy"} :
                Began(c, method, s, None, KnownFirst(route[s]), TRUE, "failed")
          \/ \E n \in Minted(Snapshots) :
                Began(c, "snapshotDelete", n, None, KnownFirst(route[n]), TRUE, "failed")
          \/ \E method \in Lists, ifNone \in {"failed", "ok"} :
                Began(c, method, None, None, providers, TRUE, ifNone)
          \/ \E s \in Minted(Sandboxes), preferred \in Names \cup {None} :
                Began(c, "snapshotCreate", s, preferred, SnapshotCreateCandidates(s, preferred),
                      TRUE, "failed")

LEMMA StartIs ==
    ASSUME TypeOK, NEW c \in Calls, Start(c)
    PROVE  Starts(c)
  <1> USE DEF Quiet
  <1>1. CASE StartCreate(c)
    <2>1. PICK preferred \in Names \cup {None} :
             /\ Begin(c, "create", None, preferred, CreateCandidates(preferred),
                      fallbackOnError /\ preferred = None, "failed")
             /\ AdvanceCursor(preferred, CreateCandidates(preferred))
      BY <1>1 DEF StartCreate
    <2>2. Began(c, "create", None, preferred, CreateCandidates(preferred),
                fallbackOnError /\ preferred = None, "failed")
      BY <2>1, BeginIs
    <2> QED  BY <2>1, <2>2 DEF Starts
  <1>2. CASE StartGetById(c)
    <2>1. PICK s \in Minted(Sandboxes) :
             Begin(c, "getById", s, None, KnownFirst(route[s]), TRUE, "failed")
      BY <1>2 DEF StartGetById, ByIdCandidates
    <2>2. Began(c, "getById", s, None, KnownFirst(route[s]), TRUE, "failed")
      BY <2>1, BeginIs
    <2> QED  BY <1>2, <2>2 DEF Starts, StartGetById
  <1>3. CASE StartList(c)
    <2>1. PICK method \in Lists, ifNone \in {"failed", "ok"} :
             Begin(c, method, None, None, providers, TRUE, ifNone)
      BY <1>3 DEF StartList
    <2>2. Began(c, method, None, None, providers, TRUE, ifNone)
      BY <2>1, BeginIs
    <2> QED  BY <1>3, <2>2 DEF Starts, StartList
  <1>4. CASE StartRemoval(c)
    <2>1. PICK method \in Removals :
             \E i \in Minted(IF method = "destroy" THEN Sandboxes ELSE Snapshots) :
                Begin(c, method, i, None, KnownFirst(route[i]), TRUE, "failed")
      BY <1>4 DEF StartRemoval, ByIdCandidates
    <2>2. PICK i \in Minted(IF method = "destroy" THEN Sandboxes ELSE Snapshots) :
             Begin(c, method, i, None, KnownFirst(route[i]), TRUE, "failed")
      BY <2>1
    <2>3. Began(c, method, i, None, KnownFirst(route[i]), TRUE, "failed")
      BY <2>2, BeginIs
    <2>4. UNCHANGED <<roundRobinCursor, firstPicks>>
      BY <1>4 DEF StartRemoval
    <2> QED  BY <2>3, <2>4 DEF Starts, Removals
  <1>5. CASE StartSnapshotCreate(c)
    <2>1. PICK s \in Minted(Sandboxes), preferred \in Names \cup {None} :
             Begin(c, "snapshotCreate", s, preferred, SnapshotCreateCandidates(s, preferred),
                   TRUE, "failed")
      BY <1>5 DEF StartSnapshotCreate
    <2>2. Began(c, "snapshotCreate", s, preferred, SnapshotCreateCandidates(s, preferred),
                TRUE, "failed")
      BY <2>1, BeginIs
    <2> QED  BY <1>5, <2>2 DEF Starts, StartSnapshotCreate
  <1> QED  BY <1>1, <1>2, <1>3, <1>4, <1>5 DEF Start

\* An answer comes in.  Nothing comes to life but what was never minted.
Births ==
    /\ \A i \in live' : i \in live \/ home[i] = None
    /\ \A i \in Ids : home'[i] # home[i] => home[i] = None

Serves(c) ==
    /\ call[c].phase = "asked" /\ call'[c].phase = "answered"
    /\ SameCall(c) /\ call'[c].pos = call[c].pos /\ call'[c].result = call[c].result
    /\ UNCHANGED <<config, roundRobinCursor, route, epoch, firstPicks>>
    /\ Births
    /\ \A n \in Snapshots : home'[n] # home[n] => home'[n] = Asking(c) /\ call[c].method = "snapshotCreate"
    /\ call[c].method = "create" =>
          \A i \in call'[c].reply.ids : i \in Ids /\ home[i] = None /\ home'[i] = Asking(c)
    /\ call[c].method = "getById" =>
          /\ UNCHANGED world
          /\ call'[c].reply.status = "ok" /\ call'[c].reply.ids = {} /\ Asking(c) \notin Masking
             => ~Holds(Asking(c), call[c].id)

\* A continuation runs: the call ends, or asks the next candidate, and the reply stays.
Ends(c, result) ==
    call'[c].phase = "done" /\ call'[c].pos = call[c].pos /\ call'[c].result = result

GoesOn(c) ==
    /\ call'[c].phase = "asked" /\ call'[c].result = call[c].result
    /\ IsFirst(call'[c].pos, Remaining(c))

FoundNothing(c) == call[c].reply.status = "ok" /\ call[c].reply.ids = {}

Resumed(c) ==
    /\ call[c].phase = "answered"
    /\ SameCall(c) /\ call'[c].reply = call[c].reply
    /\ UNCHANGED <<world, config, roundRobinCursor, epoch, firstPicks>>
    /\ \/ /\ call[c].method = "create"
          /\ \/ Ends(c, "ok") /\ Register(call[c].reply.ids, Asking(c))
             \/ Ends(c, "aborted") /\ UNCHANGED route
             \/ Ends(c, "failed") /\ (call[c].canFallback => Remaining(c) = {}) /\ UNCHANGED route
             \/ GoesOn(c) /\ call[c].canFallback /\ call[c].reply.status = "error" /\ UNCHANGED route
       \/ /\ call[c].method = "getById"
          /\ \/ Ends(c, "ok") /\ Register(call[c].reply.ids, Asking(c))
             \/ GoesOn(c) /\ FoundNothing(c) /\ UNCHANGED route
             \/ Ends(c, "absent") /\ FoundNothing(c) /\ Remaining(c) = {} /\ Forget(call[c].id)
             \/ Ends(c, "failed") /\ UNCHANGED route
       \/ /\ call[c].method \in Lists
          /\ \/ GoesOn(c) /\ Register(call[c].reply.ids, Asking(c))
             \/ Ends(c, "ok") /\ Register(call[c].reply.ids, Asking(c))
             \/ Ends(c, "failed") /\ UNCHANGED route
       \/ /\ call[c].method \in Removals
          /\ \/ Ends(c, "ok") /\ Forget(call[c].id)
             \/ GoesOn(c) /\ UNCHANGED route
             \/ Ends(c, "failed") /\ Remaining(c) = {} /\ UNCHANGED route
       \/ /\ call[c].method = "snapshotCreate"
          /\ \/ Ends(c, "ok") /\ Register(call[c].reply.ids, Asking(c))
             \/ GoesOn(c) /\ UNCHANGED route
             \/ Ends(c, "failed") /\ Remaining(c) = {} /\ UNCHANGED route

LEMMA AnswerIs ==
    ASSUME TypeOK, NEW c \in Calls, NEW r, Answer(c, r)
    PROVE  /\ SameCall(c) /\ call'[c].phase = "answered" /\ call'[c].reply = r
           /\ call'[c].pos = call[c].pos /\ call'[c].result = call[c].result
  <1>1. call \in [Calls -> Call] /\ call[c] \in Call
    BY DEF TypeOK, CallsTypeOK
  <1>2. call'[c] = [call[c] EXCEPT !.phase = "answered", !.reply = r]
    BY <1>1 DEF Answer
  <1> QED  BY <1>1, <1>2 DEF SameCall, Call

LEMMA FinishIs ==
    ASSUME TypeOK, NEW c \in Calls, NEW result, Finish(c, result)
    PROVE  SameCall(c) /\ Ends(c, result) /\ call'[c].reply = call[c].reply
  <1>1. call \in [Calls -> Call] /\ call[c] \in Call
    BY DEF TypeOK, CallsTypeOK
  <1>2. call'[c] = [call[c] EXCEPT !.phase = "done", !.result = result]
    BY <1>1 DEF Finish
  <1> QED  BY <1>1, <1>2 DEF SameCall, Call, Ends

LEMMA AskNextIs ==
    ASSUME TypeOK, NEW c \in Calls, AskNext(c)
    PROVE  SameCall(c) /\ GoesOn(c) /\ call'[c].reply = call[c].reply
  <1>1. call \in [Calls -> Call] /\ call[c] \in Call
    BY DEF TypeOK, CallsTypeOK
  <1>2. PICK i \in Remaining(c) :
            IsFirst(i, Remaining(c)) /\ call' = [call EXCEPT ![c].phase = "asked", ![c].pos = i]
    BY DEF AskNext
  <1>3. call'[c] = [call[c] EXCEPT !.phase = "asked", !.pos = i]
    BY <1>1, <1>2
  <1> QED  BY <1>1, <1>2, <1>3 DEF SameCall, Call, GoesOn

\* Minting an id and removing one, in these terms.
LEMMA MintBirths ==
    ASSUME WorldTypeOK, NEW p, NEW i \in Ids, Mint(p, i)
    PROVE  Births /\ home[i] = None /\ home'[i] = p /\ \A j \in Ids \ {i} : home'[j] = home[j]
BY DEF Mint, Births, WorldTypeOK

LEMMA StillBirths ==
    ASSUME UNCHANGED world
    PROVE  Births /\ home' = home
BY DEF world, Births

LEMMA RemovedBirths ==
    ASSUME NEW i, Removed(i)
    PROVE  Births /\ home' = home
BY DEF Removed, Births

LEMMA ServeIs ==
    ASSUME TypeOK, NEW c \in Calls, Serve(c)
    PROVE  Serves(c)
  <1> DEFINE p == Asking(c)
             Homes == \A n \in Snapshots : home'[n] # home[n] =>
                          home'[n] = p /\ call[c].method = "snapshotCreate"
  <1> USE DEF Quiet
  <1>0. WorldTypeOK /\ None \notin Providers /\ Sandboxes \cap Snapshots = {}
    BY WorldAssumption DEF TypeOK
  <1>1. home' = home => Homes
    OBVIOUS
  <1>2. CASE ServeCreate(c)
    <2>1. Pending(c, "create") /\ Quiet
      BY <1>2 DEF ServeCreate
    <2>2. CASE UNCHANGED world /\ Answer(c, Aborted)
      BY <1>1, <2>1, <2>2, AnswerIs, StillBirths DEF Serves, Pending, Aborted
    <2>3. CASE \E s \in Sandboxes : \E r \in {Ok({s}), Failed} :
                  CreateServed(p, {s}, r) /\ Answer(c, r)
      <3>1. PICK s \in Sandboxes : \E r \in {Ok({s}), Failed} :
                  CreateServed(p, {s}, r) /\ Answer(c, r)
        BY <2>3
      <3>2. PICK r \in {Ok({s}), Failed} : CreateServed(p, {s}, r) /\ Answer(c, r)
        BY <3>1
      <3>3. call'[c].reply = r /\ s \in Ids
        BY <3>2, AnswerIs DEF Ids
      <3>4. CASE Mint(p, s)
        <4>1. Births /\ home[s] = None /\ home'[s] = p /\ \A j \in Ids \ {s} : home'[j] = home[j]
          BY <1>0, <3>3, <3>4, MintBirths
        <4>2. Homes
          BY <1>0, <4>1 DEF Ids
        <4>3. \A i \in r.ids : i = s
          BY <3>2 DEF Ok, Failed
        <4> QED  BY <2>1, <3>2, <3>3, <4>1, <4>2, <4>3, AnswerIs DEF Serves, Pending
      <3>5. CASE UNCHANGED world /\ r = Failed
        BY <1>1, <2>1, <3>2, <3>3, <3>5, AnswerIs, StillBirths DEF Serves, Pending, Failed
      <3> QED  BY <3>2, <3>4, <3>5 DEF CreateServed
    <2> QED  BY <1>2, <2>2, <2>3 DEF ServeCreate
  <1>3. CASE ServeGetById(c)
    <2>1. PICK r : LookupServed(p, call[c].id, r) /\ Answer(c, r)
      BY <1>3 DEF ServeGetById
    <2>2. Pending(c, "getById") /\ Quiet /\ UNCHANGED world
      BY <1>3, <2>1 DEF ServeGetById, LookupServed
    <2>3. call'[c].reply = r
      BY <2>1, AnswerIs
    <2>4. ASSUME r.status = "ok", r.ids = {}, p \notin Masking, Holds(p, call[c].id) PROVE FALSE
      <3>1. r = Ok({call[c].id} \cap Held(p, Ids))
        BY <2>1, <2>4 DEF LookupServed, Failed
      <3>2. call[c].id \in Ids
        BY <1>0, <2>4 DEF Holds, WorldTypeOK
      <3> QED  BY <2>4, <3>1, <3>2 DEF Ok, Held
    <2> QED  BY <1>1, <2>1, <2>2, <2>3, <2>4, AnswerIs, StillBirths DEF Serves, Pending
  <1>4. CASE ServeList(c)
    <2>1. PICK method \in Lists : /\ Pending(c, method) /\ Quiet
                                  /\ \E r : ListServed(p, Kind(method), r) /\ Answer(c, r)
      BY <1>4 DEF ServeList
    <2>2. PICK r : ListServed(p, Kind(method), r) /\ Answer(c, r)
      BY <2>1
    <2>3. UNCHANGED world
      BY <2>2 DEF ListServed
    <2>4. call[c].method \notin {"create", "getById"}
      BY <2>1 DEF Pending, Lists
    <2> QED  BY <1>1, <2>1, <2>2, <2>3, <2>4, AnswerIs, StillBirths DEF Serves, Pending
  <1>5. CASE ServeRemoval(c)
    <2>1. PICK method \in Removals : Pending(c, method)
      BY <1>5 DEF ServeRemoval
    <2>2. PICK r : RemoveServed(p, call[c].id, r) /\ Answer(c, r)
      BY <1>5 DEF ServeRemoval
    <2>3. Removed(call[c].id) \/ UNCHANGED world
      BY <2>2 DEF RemoveServed
    <2>4. Births /\ home' = home
      BY <2>3, RemovedBirths, StillBirths
    <2>5. call[c].method \notin {"create", "getById"} /\ Quiet
      BY <1>5, <2>1 DEF Pending, Removals, ServeRemoval
    <2> QED  BY <1>1, <2>1, <2>2, <2>4, <2>5, AnswerIs DEF Serves, Pending
  <1>6. CASE ServeSnapshotCreate(c)
    <2>1. Pending(c, "snapshotCreate") /\ Quiet
      BY <1>6 DEF ServeSnapshotCreate
    <2>2. CASE UNCHANGED world /\ Answer(c, Failed)
      BY <1>1, <2>1, <2>2, AnswerIs, StillBirths DEF Serves, Pending
    <2>3. CASE \E n \in Snapshots : \E r \in {Ok({n}), Failed} :
                  CreateServed(p, {n}, r) /\ Answer(c, r)
      <3>1. PICK n \in Snapshots : \E r \in {Ok({n}), Failed} :
                  CreateServed(p, {n}, r) /\ Answer(c, r)
        BY <2>3
      <3>2. PICK r \in {Ok({n}), Failed} : CreateServed(p, {n}, r) /\ Answer(c, r)
        BY <3>1
      <3>3. CASE Mint(p, n)
        <4>1. Births /\ home'[n] = p /\ \A j \in Ids \ {n} : home'[j] = home[j]
          BY <1>0, <3>3, MintBirths DEF Ids
        <4>2. Homes
          BY <2>1, <4>1 DEF Ids, Pending
        <4> QED  BY <2>1, <3>2, <4>1, <4>2, AnswerIs DEF Serves, Pending
      <3>4. CASE UNCHANGED world
        BY <1>1, <2>1, <3>2, <3>4, AnswerIs, StillBirths DEF Serves, Pending
      <3> QED  BY <3>2, <3>3, <3>4 DEF CreateServed
    <2> QED  BY <1>6, <2>2, <2>3 DEF ServeSnapshotCreate
  <1> QED  BY <1>2, <1>3, <1>4, <1>5, <1>6 DEF Serve

LEMMA ResumeIs ==
    ASSUME TypeOK, NEW c \in Calls, Resume(c)
    PROVE  Resumed(c)
  <1> DEFINE Stays == SameCall(c) /\ call'[c].reply = call[c].reply
             Rest == UNCHANGED <<world, config, roundRobinCursor, epoch, firstPicks>>
  <1>1. \A result : Finish(c, result) => Stays /\ Ends(c, result)
    BY FinishIs
  <1>2. AskNext(c) => Stays /\ GoesOn(c)
    BY AskNextIs
  <1>3. \A atEnd : AskNextOr(c, atEnd) =>
            Stays /\ (GoesOn(c) \/ (Ends(c, atEnd) /\ Remaining(c) = {}))
    BY <1>1, <1>2 DEF AskNextOr
  <1>4. (UNCHANGED world /\ Quiet => Rest /\ UNCHANGED route) /\ (RouteStep => Rest)
    BY DEF Quiet, RouteStep
  <1> HIDE DEF Stays, Rest
  <1>5. CASE CreateAnswered(c)
    <2>1. call[c].phase = "answered" /\ call[c].method = "create" /\ Stays /\ Rest
      BY <1>1, <1>3, <1>4, <1>5 DEF CreateAnswered, Resumes
    <2>2. \/ Ends(c, "ok") /\ Register(call[c].reply.ids, Asking(c))
          \/ Ends(c, "aborted") /\ UNCHANGED route
          \/ Ends(c, "failed") /\ (call[c].canFallback => Remaining(c) = {}) /\ UNCHANGED route
          \/ GoesOn(c) /\ call[c].canFallback /\ call[c].reply.status = "error" /\ UNCHANGED route
      BY <1>1, <1>3, <1>4, <1>5 DEF CreateAnswered, Resumes
    <2> QED  BY <2>1, <2>2 DEF Resumed, Stays, Rest
  <1>6. CASE GetByIdAnswered(c)
    <2>1. call[c].phase = "answered" /\ call[c].method = "getById" /\ Stays /\ Rest
      BY <1>1, <1>2, <1>4, <1>6 DEF GetByIdAnswered, Resumes
    <2>2. \/ Ends(c, "ok") /\ Register(call[c].reply.ids, Asking(c))
          \/ GoesOn(c) /\ FoundNothing(c) /\ UNCHANGED route
          \/ Ends(c, "absent") /\ FoundNothing(c) /\ Remaining(c) = {} /\ Forget(call[c].id)
          \/ Ends(c, "failed") /\ UNCHANGED route
      BY <1>1, <1>2, <1>4, <1>6 DEF GetByIdAnswered, Resumes, FoundNothing
    <2> QED  BY <2>1, <2>2 DEF Resumed, Stays, Rest
  <1>7. CASE ListAnswered(c)
    <2>1. call[c].phase = "answered" /\ call[c].method \in Lists /\ Stays /\ Rest
      BY <1>1, <1>3, <1>4, <1>7 DEF ListAnswered, Resumes
    <2>2. \/ GoesOn(c) /\ Register(call[c].reply.ids, Asking(c))
          \/ Ends(c, "ok") /\ Register(call[c].reply.ids, Asking(c))
          \/ Ends(c, "failed") /\ UNCHANGED route
      BY <1>1, <1>3, <1>4, <1>7 DEF ListAnswered, Resumes
    <2> QED  BY <2>1, <2>2 DEF Resumed, Stays, Rest
  <1>8. CASE RemovalAnswered(c)
    <2>1. call[c].phase = "answered" /\ call[c].method \in Removals /\ Stays /\ Rest
      BY <1>1, <1>3, <1>4, <1>8 DEF RemovalAnswered, Resumes
    <2>2. \/ Ends(c, "ok") /\ Forget(call[c].id)
          \/ GoesOn(c) /\ UNCHANGED route
          \/ Ends(c, "failed") /\ Remaining(c) = {} /\ UNCHANGED route
      BY <1>1, <1>3, <1>4, <1>8 DEF RemovalAnswered, Resumes
    <2> QED  BY <2>1, <2>2 DEF Resumed, Stays, Rest
  <1>9. CASE SnapshotCreateAnswered(c)
    <2>1. call[c].phase = "answered" /\ call[c].method = "snapshotCreate" /\ Stays /\ Rest
      BY <1>1, <1>3, <1>4, <1>9 DEF SnapshotCreateAnswered, Resumes
    <2>2. \/ Ends(c, "ok") /\ Register(call[c].reply.ids, Asking(c))
          \/ GoesOn(c) /\ UNCHANGED route
          \/ Ends(c, "failed") /\ Remaining(c) = {} /\ UNCHANGED route
      BY <1>1, <1>3, <1>4, <1>9 DEF SnapshotCreateAnswered, Resumes
    <2> QED  BY <2>1, <2>2 DEF Resumed, Stays, Rest
  <1> QED  BY <1>5, <1>6, <1>7, <1>8, <1>9 DEF Resume

\* A step is a reconfiguration, a step of one call, or something that happens elsewhere.
Reconfigured ==
    /\ UNCHANGED <<world, call>>
    /\ route' = [i \in Ids |-> None] /\ epoch' = epoch + 1
    /\ IsInjective(providers')
    /\ roundRobinCursor' = 0 /\ firstPicks' = [p \in Providers |-> 0]

Moves(c) ==
    /\ UNCHANGED <<config, epoch>>
    /\ \A d \in Calls \ {c} : call'[d] = call[d]
    /\ \/ Starts(c) /\ UNCHANGED <<world, route>>
       \/ Serves(c)
       \/ Resumed(c)

NobodyMoves ==
    /\ UNCHANGED <<config, roundRobinCursor, route, call, epoch, firstPicks>>
    /\ Births
    /\ \A n \in Snapshots : home'[n] = home[n]

LEMMA Steps ==
    ASSUME TypeOK, [Next]_vars
    PROVE  Reconfigured \/ (\E c \in Calls : Moves(c)) \/ NobodyMoves
  <1>1. ASSUME NEW cfg \in Configs, SetConfig(cfg) PROVE Reconfigured
    <2>1. IsInjective(ResolveProviders(cfg))
      BY ManagerAssumption
    <2> QED  BY <1>1, <2>1 DEF SetConfig, ResetCursor, Reconfigured
  <1>2. ASSUME NEW c \in Calls, Start(c) PROVE Moves(c)
    BY <1>2, StartStep, StartIs DEF Moves
  <1>3. ASSUME NEW c \in Calls, Serve(c) PROVE Moves(c)
    BY <1>3, ServeStep, ServeIs DEF Moves, Serves
  <1>4. ASSUME NEW c \in Calls, Resume(c) PROVE Moves(c)
    BY <1>4, ResumeStep, ResumeIs DEF Moves, Resumed
  <1>5. CASE Elsewhere
    <2>1. WorldTypeOK /\ Sandboxes \cap Snapshots = {}
      BY WorldAssumption DEF TypeOK
    <2>2. CASE MintedElsewhere
      <3>1. PICK p \in Providers, i \in Sandboxes : Mint(p, i)
        BY <2>2 DEF MintedElsewhere
      <3>2. Births /\ \A j \in Ids \ {i} : home'[j] = home[j]
        BY <2>1, <3>1, MintBirths DEF Ids
      <3> QED  BY <1>5, <2>1, <3>1, <3>2 DEF NobodyMoves, Elsewhere, Quiet, Ids
    <2>3. CASE Expire
      BY <1>5, <2>3, RemovedBirths DEF NobodyMoves, Elsewhere, Quiet, Expire
    <2> QED  BY <1>5, <2>2, <2>3 DEF Elsewhere
  <1>6. CASE UNCHANGED vars
    BY <1>6, StillBirths DEF vars, NobodyMoves
  <1> QED  BY <1>1, <1>2, <1>3, <1>4, <1>5, <1>6 DEF Next

----------------------------------------------------------------------------
\* CandidatesInv.

LEMMA CreateCandidatesAre ==
    ASSUME TypeOK, IsInjective(providers), NEW preferred,
           NEW list, list = CreateCandidates(preferred)
    PROVE  /\ IsInjective(list)
           /\ \A i \in DOMAIN list : list[i] \in Configured
           /\ preferred = None => \A p \in Configured : \E i \in DOMAIN list : list[i] = p
           /\ Rotates(preferred) => Head(list) = providers[roundRobinCursor + 1]
  <1>0. providers \in Seq(Providers)
    BY DEF TypeOK
  <1>1. CASE preferred # None
    BY <1>0, <1>1, ByNameIsOne DEF CreateCandidates, Rotates
  <1>2. CASE Rotates(preferred)
    <2>1. /\ roundRobinCursor % Len(providers) \in 0..(Len(providers) - 1)
          /\ roundRobinCursor % Len(providers) = roundRobinCursor
      <3>1. roundRobinCursor \in 0..(Len(providers) - 1)
        BY <1>2 DEF TypeOK, Rotates
      <3>2. \A a \in Nat, b \in Nat : a < b => a % b = a
        OBVIOUS
      <3>3. roundRobinCursor % Len(providers) = roundRobinCursor
        BY <1>0, <3>1, <3>2
      <3> QED  BY <3>1, <3>3
    <2>2. list = Rotated(roundRobinCursor) /\ preferred = None
      BY <1>2, <2>1 DEF CreateCandidates, Rotates
    <2> QED  BY <1>0, <1>2, <2>1, <2>2, RotatedTurns
  <1>3. CASE preferred = None /\ ~Rotates(preferred)
    BY <1>3 DEF CreateCandidates, Configured
  <1> QED  BY <1>1, <1>2, <1>3 DEF Rotates

LEMMA StartCandidates ==
    ASSUME TypeOK, IsInjective(providers), NEW c \in Calls, Starts(c),
           NEW list, list = call'[c].candidates
    PROVE  /\ IsInjective(list)
           /\ call'[c].preferred = None => \A p \in Configured : \E i \in DOMAIN list : list[i] = p
           /\ call'[c].method = "create" => \A i \in DOMAIN list : list[i] \in Configured
  <1>0. /\ providers \in Seq(Providers)
        /\ \A i \in Ids : route[i] \in Providers \cup {None}
        /\ Minted(Sandboxes) \subseteq Ids /\ Minted(Snapshots) \subseteq Ids
    BY DEF TypeOK, Minted, Ids
  <1>1. ASSUME NEW preferred \in Names \cup {None}, NEW canFallback,
               Began(c, "create", None, preferred, CreateCandidates(preferred), canFallback, "failed")
        PROVE  /\ IsInjective(list)
               /\ call'[c].preferred = None => \A p \in Configured : \E i \in DOMAIN list : list[i] = p
               /\ \A i \in DOMAIN list : list[i] \in Configured
    <2>1. list = CreateCandidates(preferred) /\ call'[c].preferred = preferred
      BY <1>1 DEF Began
    <2> QED  BY <2>1, CreateCandidatesAre
  <1>2. ASSUME NEW method, method # "create", NEW i \in Ids, NEW canFallback, NEW ifNone,
               Began(c, method, i, None, KnownFirst(route[i]), canFallback, ifNone)
        PROVE  /\ IsInjective(list) /\ call'[c].method # "create"
               /\ \A p \in Configured : \E j \in DOMAIN list : list[j] = p
    <2>1. list = KnownFirst(route[i]) /\ call'[c].method = method
      BY <1>2 DEF Began
    <2> QED  BY <1>0, <1>2, <2>1, KnownFirstLeads
  <1>3. ASSUME NEW method \in Lists, NEW ifNone,
               Began(c, method, None, None, providers, TRUE, ifNone)
        PROVE  /\ IsInjective(list) /\ call'[c].method # "create"
               /\ \A p \in Configured : \E j \in DOMAIN list : list[j] = p
    BY <1>3 DEF Began, Lists, Configured
  <1>4. ASSUME NEW s \in Ids, NEW preferred \in Names \cup {None},
               Began(c, "snapshotCreate", s, preferred, SnapshotCreateCandidates(s, preferred),
                     TRUE, "failed")
        PROVE  /\ IsInjective(list) /\ call'[c].method # "create"
               /\ call'[c].preferred = None => \A p \in Configured : \E j \in DOMAIN list : list[j] = p
    <2>1. /\ list = SnapshotCreateCandidates(s, preferred)
          /\ call'[c].preferred = preferred /\ call'[c].method = "snapshotCreate"
      BY <1>4 DEF Began
    <2>2. CASE preferred # None
      BY <1>0, <2>1, <2>2, ByNameIsOne DEF SnapshotCreateCandidates
    <2>3. CASE preferred = None /\ route[s] \in Snapshotting
      BY <1>0, <2>1, <2>3, KnownFirstLeads DEF SnapshotCreateCandidates
    <2>4. CASE preferred = None /\ route[s] \notin Snapshotting
      BY <2>1, <2>4 DEF SnapshotCreateCandidates, Configured
    <2> QED  BY <2>1, <2>2, <2>3, <2>4
  <1>5. CASE \E preferred \in Names \cup {None} :
                Began(c, "create", None, preferred, CreateCandidates(preferred),
                      fallbackOnError /\ preferred = None, "failed")
    BY <1>1, <1>5
  <1>6. CASE \E s \in Minted(Sandboxes), method \in {"getById", "destroy"} :
                Began(c, method, s, None, KnownFirst(route[s]), TRUE, "failed")
    BY <1>0, <1>2, <1>6
  <1>7. CASE \E n \in Minted(Snapshots) :
                Began(c, "snapshotDelete", n, None, KnownFirst(route[n]), TRUE, "failed")
    BY <1>0, <1>2, <1>7
  <1>8. CASE \E method \in Lists, ifNone \in {"failed", "ok"} :
                Began(c, method, None, None, providers, TRUE, ifNone)
    BY <1>3, <1>8
  <1>9. CASE \E s \in Minted(Sandboxes), preferred \in Names \cup {None} :
                Began(c, "snapshotCreate", s, preferred, SnapshotCreateCandidates(s, preferred),
                      TRUE, "failed")
    BY <1>0, <1>4, <1>9
  <1> QED  BY <1>5, <1>6, <1>7, <1>8, <1>9 DEF Starts

\* A loop with nobody left to ask has come past everyone who has the method.
LEMMA NobodyIsLeft ==
    ASSUME NEW list \in Seq(Providers), NEW pos \in Nat, NEW Wanted,
           NEW method \in (SandboxMethods \cup SnapshotMethods) \ {"list"},
           \A p \in Wanted : \E i \in DOMAIN list : list[i] = p,
           Askable(method, list, pos) = {}
    PROVE  (IF method \in SnapshotMethods THEN Wanted \cap Snapshotting ELSE Wanted)
               \subseteq {list[i] : i \in 1..pos}
  <1> SUFFICES ASSUME NEW p \in Wanted, method \in SnapshotMethods => p \in Snapshotting
               PROVE  \E i \in 1..pos : list[i] = p
    OBVIOUS
  <1>1. PICK i \in DOMAIN list : list[i] = p
    OBVIOUS
  <1>2. p \in Capable(method)
    BY <1>1 DEF Capable
  <1>3. ~(i > pos)
    BY <1>1, <1>2 DEF Askable
  <1> QED  BY <1>1, <1>3

\* The part of GivesUpOnlyAfterAll that is about one call.
GaveUp(c) ==
    \/ call[c].result = "absent"
    \/ call[c].result = "failed" /\ call[c].method \in {"destroy", "snapshotCreate", "snapshotDelete"}
    \/ call[c].result = "failed" /\ call[c].method = "create" /\ call[c].canFallback

LEMMA InitCandidates ==
    ASSUME Init
    PROVE  CandidatesInv
BY DEF Init, NoCall, CandidatesInv, ListsAreDistinct, NoProviderAskedTwice, IsInjective, Covers,
       Asks, About, GivesUpOnlyAfterAll

\* Which call, if any, is not as it was.
LEMMA CandidatesReconfigured ==
    ASSUME TypeOK, CandidatesInv, Reconfigured
    PROVE  CandidatesInv'
  <1>1. \A c \in Calls : call[c].epoch \in Nat /\ call[c].epoch <= epoch /\ epoch \in Nat
    BY ManagerAssumption DEF TypeOK, CallsTypeOK, Call
  <1>2. \A c \in Calls : call'[c].epoch # epoch'
    BY <1>1 DEF Reconfigured
  <1>3. \A c \in Calls : Covers(c)'
    BY <1>2 DEF Covers
  <1>4. \A c \in Calls : Asks(c)' /\ About(c)'
    BY DEF Reconfigured, CandidatesInv, Asks, About, Asking, world
  <1>5. GivesUpOnlyAfterAll'
    BY <1>2 DEF GivesUpOnlyAfterAll
  <1>6. ListsAreDistinct'
    BY DEF Reconfigured, CandidatesInv, ListsAreDistinct, NoProviderAskedTwice
  <1> QED  BY <1>3, <1>4, <1>5, <1>6 DEF CandidatesInv

\* A call that stands keeps what is said of it, whatever is minted.
LEMMA StandingCandidates ==
    ASSUME TypeOK, CandidatesInv, Births, UNCHANGED <<config, epoch>>,
           NEW d \in Calls, call'[d] = call[d]
    PROVE  /\ IsInjective(call'[d].candidates)
           /\ Covers(d)' /\ Asks(d)' /\ About(d)'
           /\ call'[d].epoch = epoch' /\ call'[d].preferred = None /\ GaveUp(d)'
              => (Eligible(d) \subseteq Tried(d))'
  <1>1. call[d].id \in Ids \cup {None}
    BY DEF TypeOK, CallsTypeOK, Call
  <1>2. About(d)'
    BY <1>1 DEF CandidatesInv, About, Births
  <1>3. Covers(d)' /\ Asks(d)'
    BY DEF CandidatesInv, Covers, Asks, Asking, Offered, Configured, config
  <1>4. IsInjective(call'[d].candidates)
    BY DEF CandidatesInv, ListsAreDistinct, NoProviderAskedTwice
  <1>5. call'[d].epoch = epoch' /\ call'[d].preferred = None /\ GaveUp(d)'
              => (Eligible(d) \subseteq Tried(d))'
    BY DEF CandidatesInv, GivesUpOnlyAfterAll, GaveUp, Eligible, Tried, Configured, config
  <1> QED  BY <1>2, <1>3, <1>4, <1>5

LEMMA StartedCandidates ==
    ASSUME TypeOK, TypeOK', CandidatesInv, NEW c \in Calls, Starts(c),
           UNCHANGED <<world, config, epoch>>
    PROVE  /\ IsInjective(call'[c].candidates)
           /\ Covers(c)' /\ Asks(c)' /\ About(c)'
           /\ call'[c].epoch = epoch' /\ call'[c].preferred = None /\ GaveUp(c)'
              => (Eligible(c) \subseteq Tried(c))'
  <1> DEFINE list == call'[c].candidates
             method == call'[c].method
  <1>0. /\ call'[c] \in Call /\ list \in Seq(Providers)
        /\ method \in {"none"} \cup SandboxMethods \cup SnapshotMethods
    BY DEF TypeOK, CallsTypeOK, Call
  <1>1. /\ IsInjective(list)
        /\ call'[c].preferred = None => \A p \in Configured : \E i \in DOMAIN list : list[i] = p
        /\ method = "create" => \A i \in DOMAIN list : list[i] \in Configured
    BY StartCandidates DEF CandidatesInv, ListsAreDistinct
  <1>2. /\ method \in Methods
        /\ \/ /\ call'[c].phase = "asked" /\ call'[c].result = "none"
              /\ IsFirst(call'[c].pos, Askable(method, list, 0))
           \/ call'[c].phase = "done" /\ call'[c].pos = 0 /\ Askable(method, list, 0) = {}
    BY DEF Starts, Began
  <1>3. About(c)'
    <2>1. \A i \in Minted(Sandboxes) : i \in Sandboxes /\ home[i] # None
      BY DEF Minted
    <2>2. \A i \in Minted(Snapshots) : i \in Snapshots /\ home[i] # None
      BY DEF Minted
    <2>3. home' = home
      BY DEF world
    <2> QED  BY <2>1, <2>2, <2>3 DEF Starts, Began, About, Lists
  <1>4. Covers(c)'
    BY <1>1 DEF Covers, Offered, Configured, config
  <1>5. Asks(c)'
    BY <1>2 DEF Asks, Asking, IsFirst, Askable
  <1>6. ASSUME call'[c].preferred = None, GaveUp(c)' PROVE (Eligible(c) \subseteq Tried(c))'
    <2>1. Askable(method, list, 0) = {} /\ call'[c].pos = 0
      BY <1>2, <1>6 DEF GaveUp
    <2>2. method \in (SandboxMethods \cup SnapshotMethods) \ {"list"}
      <3>1. method = "list" => call'[c].result \in {"none", "failed", "ok"}
        BY DEF Starts, Began, Lists
      <3>2. method \in SandboxMethods \cup SnapshotMethods
        BY <1>2, ManagerAssumption
      <3> QED  BY <1>6, <3>1, <3>2 DEF GaveUp
    <2>3. (IF method \in SnapshotMethods THEN Configured \cap Snapshotting ELSE Configured)
               \subseteq {list[i] : i \in 1..0}
      <3>1. list \in Seq(Providers) /\ 0 \in Nat /\ Askable(method, list, 0) = {}
        BY <1>0, <2>1
      <3>2. \A p \in Configured : \E i \in DOMAIN list : list[i] = p
        BY <1>1, <1>6
      <3> HIDE DEF list, method
      <3> QED  BY <2>2, <3>1, <3>2, NobodyIsLeft
    <2> QED  BY <2>1, <2>3 DEF Eligible, Tried, Configured, config
  <1> QED  BY <1>1, <1>3, <1>4, <1>5, <1>6

LEMMA ServedCandidates ==
    ASSUME TypeOK, CandidatesInv, NEW c \in Calls, Serves(c)
    PROVE  /\ IsInjective(call'[c].candidates)
           /\ Covers(c)' /\ Asks(c)' /\ About(c)'
           /\ ~GaveUp(c)'
  <1> USE DEF Serves, SameCall
  <1>1. call[c].id \in Ids \cup {None}
    BY DEF TypeOK, CallsTypeOK, Call
  <1>2. About(c)'
    BY <1>1 DEF CandidatesInv, About, Births
  <1>3. Covers(c)' /\ Asks(c)'
    BY DEF CandidatesInv, Covers, Asks, Asking, Offered, Configured, config
  <1>4. IsInjective(call'[c].candidates)
    BY DEF CandidatesInv, ListsAreDistinct, NoProviderAskedTwice
  <1>5. ~GaveUp(c)'
    BY DEF CandidatesInv, Asks, GaveUp
  <1> QED  BY <1>2, <1>3, <1>4, <1>5

LEMMA ResumedCandidates ==
    ASSUME TypeOK, CandidatesInv, NEW c \in Calls, Resumed(c), UNCHANGED <<config, epoch>>
    PROVE  /\ IsInjective(call'[c].candidates)
           /\ Covers(c)' /\ Asks(c)' /\ About(c)'
           /\ call'[c].epoch = epoch' /\ call'[c].preferred = None /\ GaveUp(c)'
              => (Eligible(c) \subseteq Tried(c))'
  <1>0. SameCall(c) /\ UNCHANGED world /\ call[c].phase = "answered"
    BY DEF Resumed
  <1>1. About(c)'
    BY <1>0 DEF CandidatesInv, About, SameCall, world
  <1>2. Covers(c)'
    <2>1. Offered(c)' = Offered(c) /\ Configured' = Configured
      BY <1>0 DEF SameCall, Offered, Configured, config
    <2>2. Covers(c)
      BY DEF CandidatesInv
    <2> QED  BY <1>0, <2>1, <2>2 DEF Covers, SameCall
  <1>3. IsInjective(call'[c].candidates)
    BY <1>0 DEF CandidatesInv, ListsAreDistinct, NoProviderAskedTwice, SameCall
  <1>4. call[c].result = "none"
    BY <1>0 DEF CandidatesInv, Asks
  <1>5. \/ \E result : Ends(c, result)
        \/ GoesOn(c)
    BY DEF Resumed
  <1>6. Asks(c)'
    BY <1>0, <1>4, <1>5 DEF Asks, Ends, GoesOn, IsFirst, Remaining, Askable, Asking, SameCall
  <1>7. ASSUME call'[c].epoch = epoch', call'[c].preferred = None, GaveUp(c)'
        PROVE  (Eligible(c) \subseteq Tried(c))'
    <2>1. Remaining(c) = {} /\ call'[c].pos = call[c].pos /\ call[c].method # "list"
      BY <1>0, <1>4, <1>7 DEF Resumed, GaveUp, Ends, GoesOn, SameCall, Lists, Removals
    <2>2. /\ call[c].candidates \in Seq(Providers) /\ call[c].pos \in Nat
          /\ call[c].method \in (SandboxMethods \cup SnapshotMethods) \ {"list"}
      <3>1. call[c] \in Call
        BY DEF TypeOK, CallsTypeOK
      <3>2. call[c].method # "none"
        BY DEF Resumed, Lists, Removals
      <3> QED  BY <2>1, <3>1, <3>2 DEF Call
    <2>3. \A p \in Configured : \E i \in DOMAIN call[c].candidates : call[c].candidates[i] = p
      BY <1>0, <1>7 DEF CandidatesInv, Covers, SameCall, Offered
    <2>4. (IF call[c].method \in SnapshotMethods THEN Configured \cap Snapshotting ELSE Configured)
               \subseteq {call[c].candidates[i] : i \in 1..call[c].pos}
      BY <2>1, <2>2, <2>3, NobodyIsLeft DEF Remaining
    <2> QED  BY <1>0, <2>1, <2>4 DEF Eligible, Tried, Configured, config, SameCall
  <1> QED  BY <1>1, <1>2, <1>3, <1>6, <1>7

LEMMA CandidatesStep ==
    ASSUME TypeOK, TypeOK', CandidatesInv, [Next]_vars
    PROVE  CandidatesInv'
  <1> DEFINE Good(d) == /\ IsInjective(call'[d].candidates)
                        /\ Covers(d)' /\ Asks(d)' /\ About(d)'
                        /\ call'[d].epoch = epoch' /\ call'[d].preferred = None /\ GaveUp(d)'
                           => (Eligible(d) \subseteq Tried(d))'
  <1>1. (\A d \in Calls : Good(d)) /\ UNCHANGED config => CandidatesInv'
    BY DEF CandidatesInv, ListsAreDistinct, NoProviderAskedTwice, GivesUpOnlyAfterAll, GaveUp, config
  <1> HIDE DEF Good
  <1>2. ASSUME Births, UNCHANGED <<config, epoch>>, NEW d \in Calls, call'[d] = call[d]
        PROVE  Good(d)
    BY <1>2, StandingCandidates DEF Good
  <1>3. ASSUME NEW c \in Calls, Moves(c) PROVE CandidatesInv'
    <2>1. UNCHANGED <<config, epoch>> /\ Births /\ \A d \in Calls \ {c} : call'[d] = call[d]
      BY <1>3, StillBirths DEF Moves, Serves, Resumed
    <2>2. Good(c)
      BY <1>3, StartedCandidates, ServedCandidates, ResumedCandidates DEF Moves, Good
    <2>3. \A d \in Calls : Good(d)
      BY <1>2, <2>1, <2>2
    <2> QED  BY <1>1, <2>1, <2>3
  <1>4. CASE NobodyMoves
    <2>1. \A d \in Calls : Good(d)
      BY <1>2, <1>4 DEF NobodyMoves
    <2> QED  BY <1>1, <1>4, <2>1 DEF NobodyMoves
  <1> QED  BY <1>3, <1>4, Steps, CandidatesReconfigured

----------------------------------------------------------------------------
\* FallbackIsConfined and RotationInv.

\* Where every candidate has the method, the first to ask is the next.
LEMMA NextIsFirst ==
    ASSUME NEW list \in Seq(Providers), NEW after \in Nat, NEW i,
           NEW method \in {"create", "getById", "destroy"},
           IsFirst(i, Askable(method, list, after))
    PROVE  i = after + 1
  <1>1. Capable(method) = Providers
    BY DEF Capable, SnapshotMethods
  <1>2. \A j \in DOMAIN list : j > after => j \in Askable(method, list, after)
    BY <1>1 DEF Askable
  <1>3. i \in 1..Len(list) /\ i > after
    BY DEF IsFirst, Askable
  <1>4. after + 1 \in DOMAIN list /\ after + 1 > after
    BY <1>3
  <1>5. i <= after + 1
    BY <1>2, <1>4 DEF IsFirst
  <1> QED  BY <1>3, <1>5

LEMMA FallbackStep ==
    ASSUME TypeOK, TypeOK', CandidatesInv, FallbackIsConfined, [Next]_vars
    PROVE  FallbackIsConfined'
  <1> DEFINE Confined(d) == call[d].method = "create" /\ call[d].pos > 1 =>
                               /\ call[d].canFallback
                               /\ call[d].preferred = None
                               /\ call[d].phase = "asked" => call[d].reply.status = "error"
  <1>1. \A d \in Calls : Confined(d)
    BY DEF FallbackIsConfined
  <1>2. ASSUME NEW d \in Calls, call'[d] = call[d] PROVE Confined(d)'
    BY <1>1, <1>2
  <1>3. ASSUME NEW c \in Calls, Starts(c) PROVE Confined(c)'
    <2> SUFFICES ASSUME call'[c].method = "create" PROVE ~(call'[c].pos > 1)
      OBVIOUS
    <2>1. call'[c].candidates \in Seq(Providers)
      BY DEF TypeOK, CallsTypeOK, Call
    <2>2. \/ IsFirst(call'[c].pos, Askable("create", call'[c].candidates, 0))
          \/ call'[c].pos = 0
      BY <1>3 DEF Starts, Began
    <2>3. call'[c].pos = 0 + 1 \/ call'[c].pos = 0
      BY <2>1, <2>2, NextIsFirst
    <2> QED  BY <2>3
  <1>4. ASSUME NEW c \in Calls, Serves(c) PROVE Confined(c)'
    BY <1>1, <1>4 DEF Serves, SameCall
  <1>5. ASSUME NEW c \in Calls, Resumed(c) PROVE Confined(c)'
    <2>1. About(c)
      BY DEF CandidatesInv
    <2> SUFFICES ASSUME call'[c].method = "create", call'[c].pos > 1
                 PROVE  /\ call'[c].canFallback /\ call'[c].preferred = None
                        /\ call'[c].phase = "asked" => call'[c].reply.status = "error"
      OBVIOUS
    <2>2. CASE GoesOn(c)
      BY <1>5, <2>1, <2>2 DEF Resumed, SameCall, About, Ends, GoesOn, Lists, Removals
    <2>3. CASE ~GoesOn(c)
      BY <1>1, <1>5, <2>3 DEF Resumed, SameCall, Ends
    <2> QED  BY <2>2, <2>3
  <1> HIDE DEF Confined
  <1>6. \A d \in Calls : Confined(d)'
    BY <1>2, <1>3, <1>4, <1>5, Steps DEF Reconfigured, Moves, NobodyMoves
  <1> QED  BY <1>6 DEF FallbackIsConfined, Confined

LEMMA RotationStep ==
    ASSUME TypeOK, CandidatesInv, RotationInv, [Next]_vars
    PROVE  RotationInv'
  <1>1. ASSUME UNCHANGED <<config, roundRobinCursor, firstPicks>> PROVE RotationInv'
    BY <1>1 DEF RotationInv, config
  <1>2. CASE Reconfigured
    <2>0. providers' \in Seq(Providers)
      <3>1. UNCHANGED providers \/ \E cfg \in Configs : providers' = ResolveProviders(cfg)
        BY DEF Next, SetConfig, Start, StartCreate, StartGetById, StartList, StartRemoval,
               StartSnapshotCreate, Serve, ServeCreate, ServeGetById, ServeList, ServeRemoval,
               ServeSnapshotCreate, Resume, CreateAnswered, GetByIdAnswered, ListAnswered,
               RemovalAnswered, SnapshotCreateAnswered, Elsewhere, Quiet, RouteStep, vars, config
      <3> QED  BY <3>1, ManagerAssumption DEF TypeOK
    <2>1. \A i \in DOMAIN providers' : firstPicks'[providers'[i]] = 0 /\ ~(i <= 0)
      BY <1>2, <2>0 DEF Reconfigured
    <2> QED  BY <1>2, <2>1 DEF RotationInv, Reconfigured
  <1>3. ASSUME NEW c \in Calls, Moves(c), NEW preferred \in Names \cup {None},
               AdvanceCursor(preferred, CreateCandidates(preferred))
        PROVE  RotationInv'
    <2>1. CASE Rotates(preferred)
      <3> DEFINE n == Len(providers)
                 k == roundRobinCursor
      <3>1. providers \in Seq(Providers) /\ n \in Nat /\ n > 1 /\ k \in 0..(n - 1)
        BY <2>1 DEF TypeOK, Rotates
      <3>2. \A a, b \in 1..n : providers[a] = providers[b] => a = b
        BY DEF CandidatesInv, ListsAreDistinct, IsInjective
      <3>3. Head(CreateCandidates(preferred)) = providers[k + 1]
        BY <2>1, CreateCandidatesAre DEF CandidatesInv, ListsAreDistinct
      <3>4. /\ providers' = providers
            /\ roundRobinCursor' = (k + 1) % n
            /\ firstPicks' = [firstPicks EXCEPT ![providers[k + 1]] = @ + 1]
        BY <1>3, <2>1, <3>3 DEF AdvanceCursor, Moves, config
      <3>5. firstPicks \in [Providers -> Nat]
        BY DEF TypeOK
      <3>6. PICK rounds \in Nat : \A i \in 1..n :
               firstPicks[providers[i]] = IF i <= k THEN rounds + 1 ELSE rounds
        <4>1. DOMAIN providers = 1..n
          BY <3>1
        <4> QED  BY <4>1 DEF RotationInv
      <3> HIDE DEF n, k
      <3>7. \A i \in 1..n : providers[i] \in Providers
        BY <3>1 DEF n
      <3>8. firstPicks[providers[k + 1]] = rounds
        BY <3>1, <3>6
      <3>9. \A i \in 1..n : firstPicks'[providers[i]] = IF i <= k + 1 THEN rounds + 1 ELSE rounds
        <4> TAKE i \in 1..n
        <4>1. CASE i = k + 1
          BY <3>1, <3>4, <3>5, <3>7, <3>8, <4>1
        <4>2. CASE i # k + 1
          <5>1. providers[i] # providers[k + 1]
            BY <3>1, <3>2, <4>2
          <5>2. firstPicks'[providers[i]] = firstPicks[providers[i]]
            BY <3>4, <3>5, <3>7, <5>1
          <5> QED  BY <3>1, <3>6, <4>2, <5>2
        <4> QED  BY <4>1, <4>2
      <3>10. DOMAIN providers' = 1..n
        BY <3>1, <3>4 DEF n
      <3>11. CASE k + 1 < n
        <4>1. \A a \in Nat, b \in Nat : a < b => a % b = a
          OBVIOUS
        <4>2. roundRobinCursor' = k + 1
          BY <3>1, <3>4, <3>11, <4>1
        <4>3. \A i \in DOMAIN providers' :
                 firstPicks'[providers'[i]] =
                     IF i <= roundRobinCursor' THEN rounds + 1 ELSE rounds
          BY <3>4, <3>9, <3>10, <4>2
        <4> QED  BY <4>3 DEF RotationInv
      <3>12. CASE k + 1 = n
        <4>1. n % n = 0
          BY <3>1
        <4>2. roundRobinCursor' = 0
          BY <3>4, <3>12, <4>1
        <4>3. \A i \in DOMAIN providers' :
                 firstPicks'[providers'[i]] = IF i <= 0 THEN (rounds + 1) + 1 ELSE rounds + 1
          BY <3>1, <3>4, <3>9, <3>10, <3>12
        <4> QED  BY <4>2, <4>3 DEF RotationInv
      <3> QED  BY <3>1, <3>11, <3>12
    <2>2. CASE ~Rotates(preferred)
      BY <1>1, <1>3, <2>2 DEF AdvanceCursor, Moves
    <2> QED  BY <2>1, <2>2
  <1>4. ASSUME NEW c \in Calls, Moves(c) PROVE RotationInv'
    <2>1. CASE UNCHANGED <<roundRobinCursor, firstPicks>>
      BY <1>1, <1>4, <2>1 DEF Moves
    <2>2. CASE ~UNCHANGED <<roundRobinCursor, firstPicks>>
      <3>1. Starts(c)
        BY <1>4, <2>2 DEF Moves, Serves, Resumed
      <3>2. PICK preferred \in Names \cup {None} : AdvanceCursor(preferred, CreateCandidates(preferred))
        BY <2>2, <3>1 DEF Starts
      <3> QED  BY <1>3, <1>4, <3>2
    <2> QED  BY <2>1, <2>2
  <1>5. CASE NobodyMoves
    BY <1>1, <1>5 DEF NobodyMoves
  <1> QED  BY <1>2, <1>4, <1>5, Steps

----------------------------------------------------------------------------
\* AffinityInv.

LEMMA SnapshotsStep ==
    ASSUME TypeOK, CandidatesInv, SnapshotsAtHome, [Next]_vars
    PROVE  SnapshotsAtHome'
  <1>1. ASSUME NEW c \in Calls, Serves(c) PROVE SnapshotsAtHome'
    <2>1. ASSUME NEW n \in Snapshots, home'[n] # home[n] PROVE home'[n] \in Snapshotting
      <3>1. home'[n] = Asking(c) /\ call[c].method = "snapshotCreate" /\ call[c].phase = "asked"
        BY <1>1, <2>1 DEF Serves
      <3>2. Asking(c) \in Capable(call[c].method)
        BY <3>1 DEF CandidatesInv, Asks
      <3> QED  BY <3>1, <3>2 DEF Capable, SnapshotMethods
    <2> QED  BY <2>1 DEF SnapshotsAtHome
  <1>2. CASE UNCHANGED world
    BY <1>2 DEF SnapshotsAtHome, world
  <1>3. CASE NobodyMoves
    BY <1>3 DEF SnapshotsAtHome, NobodyMoves
  <1> QED  BY <1>1, <1>2, <1>3, Steps DEF Reconfigured, Moves, Resumed

LEMMA LooksStep ==
    ASSUME TypeOK, TypeOK', CandidatesInv, \A c \in Calls : LooksInVain(c), [Next]_vars
    PROVE  \A c \in Calls : LooksInVain(c)'
  <1>1. ASSUME Births, NEW d \in Calls, call'[d] = call[d] PROVE LooksInVain(d)'
    <2>1. call[d].method = "getById" => call[d].id \in Ids /\ home[call[d].id] # None
      <3>1. None \notin Sandboxes
        BY WorldAssumption
      <3> QED  BY <3>1 DEF CandidatesInv, About, Ids
    <2>2. Answered(d)' = Answered(d)
      BY <1>1 DEF Answered
    <2> QED  BY <1>1, <2>1, <2>2 DEF LooksInVain, Births
  <1>2. ASSUME NEW c \in Calls, Starts(c) PROVE LooksInVain(c)'
    <2> SUFFICES ASSUME call'[c].method = "getById", call'[c].phase \in {"asked", "answered"}
                 PROVE  Answered(c)' = {}
      BY DEF LooksInVain
    <2>1. call'[c].candidates \in Seq(Providers)
      BY DEF TypeOK, CallsTypeOK, Call
    <2>2. call'[c].phase = "asked" /\ IsFirst(call'[c].pos, Askable("getById", call'[c].candidates, 0))
      BY <1>2 DEF Starts, Began
    <2>3. call'[c].pos = 0 + 1
      BY <2>1, <2>2, NextIsFirst
    <2> QED  BY <2>2, <2>3 DEF Answered
  <1>3. ASSUME NEW c \in Calls, Serves(c) PROVE LooksInVain(c)'
    <2> SUFFICES ASSUME call[c].method = "getById", NEW i \in Answered(c)',
                        call'[c].candidates[i] = home'[call'[c].id],
                        home'[call'[c].id] \notin Masking
                 PROVE  call'[c].id \notin live'
      BY <1>3 DEF LooksInVain, Serves, SameCall
    <2>1. /\ home' = home /\ live' = live /\ call'[c].id = call[c].id
          /\ call'[c].candidates = call[c].candidates /\ call'[c].pos = call[c].pos
          /\ call[c].phase = "asked"
      BY <1>3 DEF Serves, SameCall, world
    <2>2. call[c].pos \in Nat
      BY DEF TypeOK, CallsTypeOK, Call
    <2>3. CASE i \in 1..(call[c].pos - 1)
      <3>1. i \in Answered(c)
        BY <2>1, <2>3 DEF Answered
      <3> QED  BY <2>1, <3>1 DEF LooksInVain
    <2>4. CASE i \notin 1..(call[c].pos - 1)
      <3>1. /\ i = call[c].pos
            /\ call'[c].reply.status = "ok" /\ call'[c].reply.ids = {}
        BY <2>1, <2>2, <2>4 DEF Answered
      <3>2. ~Holds(Asking(c), call[c].id)
        BY <1>3, <2>1, <3>1 DEF Serves, Asking
      <3> QED  BY <2>1, <3>1, <3>2 DEF Holds, Asking
    <2> QED  BY <2>3, <2>4
  <1>4. ASSUME NEW c \in Calls, Resumed(c) PROVE LooksInVain(c)'
    <2> SUFFICES ASSUME call[c].method = "getById", call'[c].phase \in {"asked", "answered"}
                 PROVE  /\ call[c].phase = "answered" /\ Answered(c)' = Answered(c)
                        /\ UNCHANGED world /\ SameCall(c)
      BY <1>4 DEF LooksInVain, Resumed, SameCall, world
    <2>1. /\ call[c].phase = "answered" /\ SameCall(c) /\ UNCHANGED world
          /\ GoesOn(c) /\ FoundNothing(c)
      BY <1>4 DEF Resumed, Ends, Lists, Removals
    <2>2. call[c].candidates \in Seq(Providers) /\ call[c].pos \in Nat
      BY DEF TypeOK, CallsTypeOK, Call
    <2>3. call'[c].pos = call[c].pos + 1
      BY <2>1, <2>2, NextIsFirst DEF GoesOn, Remaining
    <2> QED  BY <2>1, <2>2, <2>3 DEF GoesOn, FoundNothing, Answered
  <1>5. CASE Reconfigured
    BY <1>1, <1>5, StillBirths DEF Reconfigured
  <1>6. ASSUME NEW c \in Calls, Moves(c) PROVE \A d \in Calls : LooksInVain(d)'
    <2>1. Births
      BY <1>6, StillBirths DEF Moves, Serves, Resumed
    <2> QED  BY <1>1, <1>2, <1>3, <1>4, <1>6, <2>1 DEF Moves
  <1>7. CASE NobodyMoves
    BY <1>1, <1>7 DEF NobodyMoves
  <1> QED  BY <1>5, <1>6, <1>7, Steps

\* A new call begins in the present epoch; any other keeps its id and its epoch.
LEMMA MintedStep ==
    ASSUME TypeOK, TypeOK', CandidatesInv, \A c \in Calls : MintedDuring(c), [Next]_vars
    PROVE  \A c \in Calls : MintedDuring(c)'
  <1>0. /\ \A c \in Calls : call[c].epoch <= epoch /\ call[c].epoch \in Nat
        /\ None \notin Providers /\ None \notin Ids /\ epoch \in Nat
    BY WorldAssumption, ManagerAssumption DEF TypeOK, CallsTypeOK, Call, Ids
  <1>1. \A d \in Calls : \/ call'[d].id = call[d].id /\ call'[d].epoch = call[d].epoch
                         \/ call'[d].epoch = epoch
    <2>1. ASSUME NEW c \in Calls, Starts(c) PROVE call'[c].epoch = epoch
      BY <2>1 DEF Starts, Began
    <2>2. ASSUME NEW c \in Calls, Serves(c) \/ Resumed(c) PROVE SameCall(c)
      BY <2>2 DEF Serves, Resumed
    <2>3. CASE Reconfigured \/ NobodyMoves
      BY <2>3 DEF Reconfigured, NobodyMoves
    <2>4. CASE \E c \in Calls : Moves(c)
      BY <2>1, <2>2, <2>4 DEF Moves, SameCall
    <2> QED  BY <2>3, <2>4, Steps
  <1>2. Births
    BY Steps, StillBirths DEF Reconfigured, Moves, NobodyMoves, Serves, Resumed
  \* Whoever has the reply of a create that does not move still knows all it says.
  <1>3. ASSUME NEW c \in Calls, call[c].phase # "asked",
               call[c].method = "create" => call'[c].reply = call[c].reply /\ Asking(c)' = Asking(c)
                                            /\ call'[c].epoch = call[c].epoch
                                            /\ Offered(c)' = Offered(c),
               call'[c].method = call[c].method
        PROVE  MintedDuring(c)'
    <2> SUFFICES ASSUME call[c].method = "create", NEW s \in call[c].reply.ids
                 PROVE  /\ home'[s] = Asking(c) /\ Asking(c) \in Offered(c)
                        /\ \A d \in Calls : call'[d].id = s => call[c].epoch <= call'[d].epoch
      BY <1>3 DEF MintedDuring
    <2>1. /\ home[s] = Asking(c) /\ Asking(c) \in Offered(c)
          /\ \A d \in Calls : call[d].id = s => call[c].epoch <= call[d].epoch
      BY <1>3 DEF MintedDuring
    <2>2. s \in Ids /\ Asking(c) \in Providers
      <3>1. call[c].reply \in Reply /\ call[c].candidates \in Seq(Providers)
        BY DEF TypeOK, CallsTypeOK, Call
      <3>2. Offered(c) \subseteq Providers
        BY <3>1 DEF Offered
      <3> QED  BY <2>1, <3>1, <3>2 DEF Reply
    <2>3. home'[s] = home[s]
      BY <1>0, <1>2, <2>1, <2>2 DEF Births
    <2> QED  BY <1>0, <1>1, <2>1, <2>3
  <1>4. ASSUME NEW c \in Calls, Starts(c) PROVE MintedDuring(c)'
    BY <1>4 DEF Starts, Began, MintedDuring, NoReply
  <1>5. ASSUME NEW c \in Calls, Serves(c) PROVE MintedDuring(c)'
    <2> SUFFICES ASSUME call[c].method = "create", NEW s \in call'[c].reply.ids
                 PROVE  /\ home'[s] = Asking(c)' /\ Asking(c)' \in Offered(c)'
                        /\ \A d \in Calls : call'[d].id = s => call'[c].epoch <= call'[d].epoch
      BY <1>5 DEF MintedDuring, Serves, SameCall
    <2>1. /\ s \in Ids /\ home[s] = None /\ home'[s] = Asking(c)
          /\ call'[c].pos = call[c].pos /\ call'[c].candidates = call[c].candidates
          /\ call[c].phase = "asked" /\ call'[c].epoch = call[c].epoch
      BY <1>5 DEF Serves, SameCall
    <2>2. Asking(c) \in Offered(c) /\ Asking(c)' = Asking(c) /\ Offered(c)' = Offered(c)
      BY <2>1 DEF Asking, Offered, TypeOK, CallsTypeOK
    <2>3. \A d \in Calls : call[d].id # s
      BY <1>0, <2>1 DEF CandidatesInv, About
    <2> QED  BY <1>0, <1>1, <2>1, <2>2, <2>3
  <1>6. ASSUME NEW c \in Calls, Resumed(c) PROVE MintedDuring(c)'
    <2>1. CASE call'[c].phase = "asked"
      BY <2>1 DEF MintedDuring
    <2>2. CASE call'[c].phase # "asked"
      <3>1. \E result : Ends(c, result)
        BY <1>6, <2>2 DEF Resumed, GoesOn
      <3>2. call'[c].pos = call[c].pos /\ call'[c].reply = call[c].reply /\ SameCall(c)
        BY <1>6, <3>1 DEF Resumed, Ends
      <3>3. Asking(c)' = Asking(c) /\ Offered(c)' = Offered(c)
        BY <3>2 DEF SameCall, Asking, Offered
      <3> QED  BY <1>3, <1>6, <3>2, <3>3 DEF Resumed, SameCall
    <2> QED  BY <2>1, <2>2
  <1>7. ASSUME NEW d \in Calls, call'[d] = call[d] PROVE MintedDuring(d)'
    <2>1. CASE call[d].phase = "asked"
      BY <1>7, <2>1 DEF MintedDuring
    <2>2. CASE call[d].phase # "asked"
      <3>1. Asking(d)' = Asking(d) /\ Offered(d)' = Offered(d)
        BY <1>7 DEF Asking, Offered
      <3> QED  BY <1>3, <1>7, <2>2, <3>1
    <2> QED  BY <2>1, <2>2
  <1> QED  BY <1>4, <1>5, <1>6, <1>7, Steps DEF Reconfigured, Moves, NobodyMoves

\* A lookup of the present configuration that ends in vain has asked the sandbox's own
\* provider, and it is gone.
LEMMA GoneWhenAbsent ==
    ASSUME TypeOK, CandidatesInv, NEW c \in Calls, LooksInVain(c),
           call[c].method = "getById", call[c].phase = "answered", FoundNothing(c),
           Remaining(c) = {}, call[c].epoch = epoch,
           home[call[c].id] \in Configured \ Masking
    PROVE  call[c].id \notin live
  <1>1. Configured \subseteq Offered(c)
    BY DEF CandidatesInv, Covers, About
  <1>2. PICK i \in DOMAIN call[c].candidates : call[c].candidates[i] = home[call[c].id]
    BY <1>1 DEF Offered
  <1>3. call[c].candidates \in Seq(Providers) /\ call[c].pos \in Nat
    BY DEF TypeOK, CallsTypeOK, Call
  <1>4. Capable(call[c].method) = Providers
    BY DEF Capable, SnapshotMethods
  <1>5. ~(i > call[c].pos)
    BY <1>2, <1>3, <1>4 DEF Remaining, Askable
  <1>6. i \in Answered(c)
    BY <1>2, <1>3, <1>5 DEF Answered, FoundNothing
  <1> QED  BY <1>2, <1>6 DEF LooksInVain

LEMMA ForgottenStep ==
    ASSUME TypeOK, CandidatesInv, RoutesLeadHome, \A c \in Calls : LooksInVain(c), [Next]_vars
    PROVE  ForgottenForAReason
  <1>0. None \notin Providers /\ Sandboxes \cap Snapshots = {} /\ epoch \in Nat
    BY WorldAssumption, ManagerAssumption DEF TypeOK
  <1> SUFFICES ASSUME NEW s \in live \cap Sandboxes, route[s] \in Configured \ Masking,
                      route'[s] = None, epoch' = epoch
               PROVE  \E c \in Calls :
                         /\ call[c].id = s /\ call[c].phase # "done" /\ call'[c].phase = "done"
                         /\ \/ call[c].method = "destroy"
                            \/ call[c].epoch < epoch
    BY DEF ForgottenForAReason
  <1>1. s \in Ids /\ route[s] \in Providers /\ route[s] = home[s]
    <2>1. s \in Ids
      BY DEF Ids
    <2>2. route[s] \in Providers
      BY DEF TypeOK, Configured
    <2> QED  BY <1>0, <2>1, <2>2 DEF RoutesLeadHome
  <1>2. route'[s] # route[s]
    BY <1>0, <1>1
  <1>3. PICK c \in Calls : Resumed(c)
    BY <1>0, <1>2, Steps DEF Reconfigured, Moves, NobodyMoves, Serves
  <1>4. ~Register(call[c].reply.ids, Asking(c))
    <2>1. Asking(c) \in Providers
      BY <1>3 DEF Resumed, TypeOK, CallsTypeOK, Call, Asking
    <2> QED  BY <1>0, <1>1, <2>1 DEF Register
  <1>5. /\ call[c].phase = "answered" /\ Forget(call[c].id)
        /\ \/ call[c].method \in Removals /\ Ends(c, "ok")
           \/ /\ call[c].method = "getById" /\ Ends(c, "absent")
              /\ FoundNothing(c) /\ Remaining(c) = {}
    BY <1>2, <1>3, <1>4 DEF Resumed
  <1>6. call[c].id = s
    BY <1>1, <1>2, <1>5 DEF Forget, TypeOK
  <1>7. call[c].method # "snapshotDelete"
    BY <1>0, <1>6 DEF CandidatesInv, About
  <1>8. CASE call[c].method \in Removals
    BY <1>5, <1>6, <1>7, <1>8 DEF Removals, Ends
  <1>9. CASE call[c].method = "getById" /\ FoundNothing(c) /\ Remaining(c) = {} /\ Ends(c, "absent")
    <2>1. call[c].epoch <= epoch /\ call[c].epoch \in Nat
      BY DEF TypeOK, CallsTypeOK, Call
    <2>2. call[c].epoch # epoch
      BY <1>1, <1>5, <1>6, <1>9, GoneWhenAbsent
    <2> QED  BY <1>0, <1>5, <1>6, <1>9, <2>1, <2>2 DEF Ends
  <1> QED  BY <1>5, <1>8, <1>9

LEMMA CreatedStep ==
    ASSUME TypeOK, TypeOK', CandidatesInv, RoutingInv, AffinityInv, [Next]_vars
    PROVE  CreatedStaysRouted'
  <1>0. /\ None \notin Providers /\ Sandboxes \cap Snapshots = {} /\ epoch \in Nat
        /\ \A d \in Calls : call[d].epoch <= epoch /\ call[d].epoch \in Nat
    BY WorldAssumption, ManagerAssumption DEF TypeOK, CallsTypeOK, Call
  <1>1. SUFFICES ASSUME NEW c \in Calls, NEW s \in Sandboxes,
                        call'[c].method = "create", call'[c].result = "ok",
                        s \in call'[c].reply.ids, call'[c].epoch = epoch',
                        s \in live', home'[s] \notin Masking,
                        \A d \in Calls : ~(call'[d].method = "destroy" /\ call'[d].result = "ok"
                                           /\ call'[d].id = s)
                 PROVE  route'[s] = home'[s]
    BY DEF CreatedStaysRouted
  <1>2. s \in Ids
    BY DEF Ids
  \* If the create had resolved before, only its route is in question.
  <1>3. ASSUME Births, epoch' = epoch, call'[c] = call[c],
               \A d \in Calls : call[d].method = "destroy" /\ call[d].result = "ok" =>
                   call'[d].method = "destroy" /\ call'[d].result = "ok" /\ call'[d].id = call[d].id
        PROVE  /\ s \in live /\ home'[s] = home[s] /\ route[s] = home[s]
               /\ home[s] = Asking(c) /\ Asking(c) \in Providers /\ Asking(c) \in Offered(c)
               /\ \A d \in Calls : call[d].id = s => call[c].epoch <= call[d].epoch
    <2>1. call[c].phase = "done"
      BY <1>1, <1>3 DEF CandidatesInv, Asks
    <2>2. /\ home[s] = Asking(c) /\ Asking(c) \in Offered(c)
          /\ \A d \in Calls : call[d].id = s => call[c].epoch <= call[d].epoch
      BY <1>1, <1>3, <2>1 DEF AffinityInv, MintedDuring
    <2>3. Asking(c) \in Providers
      <3>1. call[c].candidates \in Seq(Providers)
        BY DEF TypeOK, CallsTypeOK, Call
      <3> QED  BY <2>2, <3>1 DEF Offered
    <2>4. s \in live /\ home'[s] = home[s]
      BY <1>0, <1>1, <1>2, <1>3, <2>2, <2>3 DEF Births
    <2>5. route[s] = home[s]
      BY <1>1, <1>3, <2>4 DEF AffinityInv, CreatedStaysRouted
    <2> QED  BY <2>2, <2>3, <2>4, <2>5
  <1>4. CASE Reconfigured
    <2>1. call'[c].epoch # epoch'
      BY <1>0, <1>4 DEF Reconfigured
    <2> QED  BY <1>1, <2>1
  <1>5. CASE NobodyMoves
    BY <1>3, <1>5 DEF NobodyMoves
  <1>6. ASSUME NEW m \in Calls, Moves(m), Starts(m), UNCHANGED <<world, route>>
        PROVE  route'[s] = home'[s]
    <2>1. m # c
      BY <1>1, <1>6 DEF Starts, Began, Lists
    <2>2. call[m].result = "none"
      BY <1>6 DEF CandidatesInv, Asks, Starts, Began
    <2> QED  BY <1>3, <1>6, <2>1, <2>2, StillBirths DEF Moves
  <1>7. ASSUME NEW m \in Calls, Moves(m), Serves(m)
        PROVE  route'[s] = home'[s]
    <2>1. call[m].result = "none" /\ call'[m].result = "none"
      BY <1>7 DEF CandidatesInv, Asks, Serves
    <2>2. m # c
      BY <1>1, <2>1
    <2> QED  BY <1>3, <1>7, <2>1, <2>2 DEF Moves, Serves
  <1>8. ASSUME NEW m \in Calls, Moves(m), Resumed(m)
        PROVE  route'[s] = home'[s]
    <2>1. /\ call[m].result = "none" /\ call[m].phase = "answered" /\ SameCall(m)
          /\ UNCHANGED world /\ home' = home /\ epoch' = epoch
      BY <1>8 DEF CandidatesInv, Asks, Resumed, world
    <2>2. CASE m = c
      <3>1. Ends(c, "ok") /\ Register(call[c].reply.ids, Asking(c))
        BY <1>1, <1>8, <2>1, <2>2 DEF Resumed, Ends, GoesOn, SameCall, Lists, Removals
      <3>2. s \in call[c].reply.ids
        BY <1>1, <1>8, <2>2 DEF Resumed
      <3>3. home[s] = Asking(c)
        BY <2>1, <2>2, <3>2 DEF RoutingInv, AnswersComeHome
      <3> QED  BY <1>2, <2>1, <3>1, <3>2, <3>3 DEF Register
    <2>3. CASE m # c
      <3>1. /\ s \in live /\ home'[s] = home[s] /\ route[s] = home[s]
            /\ home[s] = Asking(c) /\ Asking(c) \in Providers /\ Asking(c) \in Offered(c)
            /\ \A d \in Calls : call[d].id = s => call[c].epoch <= call[d].epoch
        BY <1>3, <1>8, <2>1, <2>3, StillBirths DEF Moves
      <3>2. CASE UNCHANGED route
        BY <3>1, <3>2
      <3>3. CASE Register(call[m].reply.ids, Asking(m))
        <4>1. s \in call[m].reply.ids => home[s] = Asking(m)
          BY <2>1 DEF RoutingInv, AnswersComeHome
        <4> QED  BY <1>2, <3>1, <3>3, <4>1 DEF Register
      <3>4. CASE /\ Forget(call[m].id)
                 /\ \/ call[m].method \in Removals /\ Ends(m, "ok")
                    \/ /\ call[m].method = "getById" /\ FoundNothing(m) /\ Remaining(m) = {}
        <4>1. call[m].id # s
          <5> SUFFICES ASSUME call[m].id = s PROVE FALSE
            OBVIOUS
          <5>1. call[m].method # "snapshotDelete"
            BY <1>0 DEF CandidatesInv, About
          <5>2. ~(call[m].method = "destroy" /\ Ends(m, "ok"))
            BY <1>1, <2>1 DEF SameCall, Ends
          <5>3. call[m].method = "getById" /\ FoundNothing(m) /\ Remaining(m) = {}
            BY <3>4, <5>1, <5>2 DEF Removals
          <5>4. call[c].epoch = epoch /\ call[m].epoch = epoch
            <6>1. call[c].epoch = epoch
              BY <1>1, <1>8, <2>1, <2>3 DEF Moves
            <6> QED  BY <1>0, <3>1, <6>1
          <5>5. home[s] \in Configured \ Masking
            <6>1. call[c].method = "create" /\ call[c].phase # "idle"
              <7>1. call[c] = call'[c]
                BY <1>8, <2>3 DEF Moves
              <7>2. call[c].result # "none"
                BY <1>1, <7>1
              <7> QED  BY <1>1, <7>1, <7>2 DEF CandidatesInv, Asks
            <6>2. Offered(c) \subseteq Configured
              BY <5>4, <6>1 DEF CandidatesInv, Covers
            <6> QED  BY <1>1, <3>1, <6>2
          <5>6. call[m].id \notin live
            BY <2>1, <5>3, <5>4, <5>5, GoneWhenAbsent DEF AffinityInv
          <5> QED  BY <3>1, <5>6
        <4>2. route'[s] = route[s]
          BY <1>2, <3>4, <4>1 DEF Forget, TypeOK
        <4> QED  BY <3>1, <4>2
      <3> QED  BY <1>8, <3>2, <3>3, <3>4 DEF Resumed
    <2> QED  BY <2>2, <2>3
  <1> QED  BY <1>4, <1>5, <1>6, <1>7, <1>8, Steps DEF Moves

LEMMA AffinityStep ==
    ASSUME TypeOK, TypeOK', CandidatesInv, RoutingInv, AffinityInv, [Next]_vars
    PROVE  AffinityInv'
BY SnapshotsStep, LooksStep, MintedStep, CreatedStep DEF AffinityInv

\* A call about an id with a route asks the provider that the route names, if it can answer.
LEMMA FirstStep ==
    ASSUME TypeOK, TypeOK', CandidatesInv, RoutesLeadHome, SnapshotsAtHome, [Next]_vars,
           NEW c \in Calls, call[c].phase = "idle", call'[c].phase = "asked",
           call'[c].id # None, call'[c].preferred = None, route[call'[c].id] # None,
           call'[c].method = "snapshotCreate" => route[call'[c].id] \in Snapshotting
    PROVE  Asking(c)' = home[call'[c].id]
  <1> DEFINE id == call'[c].id
             list == call'[c].candidates
             method == call'[c].method
  <1>0. /\ None \notin Providers /\ providers \in Seq(Providers)
        /\ \A i \in Ids : route[i] \in Providers \cup {None}
        /\ Minted(Sandboxes) \subseteq Sandboxes /\ Minted(Snapshots) \subseteq Snapshots
        /\ IsInjective(providers) /\ list \in Seq(Providers)
    BY WorldAssumption DEF TypeOK, CandidatesInv, ListsAreDistinct, Minted, CallsTypeOK, Call
  <1>1. Starts(c)
    BY Steps DEF Reconfigured, Moves, NobodyMoves, Serves, Resumed
  <1>2. /\ list = KnownFirst(route[id])
        /\ \/ id \in Sandboxes /\ method \in {"getById", "destroy"}
           \/ id \in Snapshots /\ method = "snapshotDelete"
           \/ id \in Sandboxes /\ method = "snapshotCreate"
    BY <1>0, <1>1 DEF Starts, Began, SnapshotCreateCandidates, Lists
  <1>3. id \in Ids /\ route[id] \in Providers /\ route[id] = home[id]
    BY <1>0, <1>2 DEF RoutesLeadHome, Ids
  <1>4. IsFirst(call'[c].pos, Askable(method, list, 0))
    BY <1>1 DEF Starts, Began
  <1>5. route[id] \in Capable(method)
    BY <1>2, <1>3, <1>0 DEF Capable, SnapshotMethods, SnapshotsAtHome
  <1>6. list # <<>> /\ list[1] = route[id]
    <2>1. list # <<>>
      BY <1>4 DEF IsFirst, Askable
    <2> QED  BY <1>0, <1>2, <1>3, <2>1, KnownFirstLeads
  <1>7. 1 \in DOMAIN list
    BY <1>0, <1>6
  <1>8. 1 \in Askable(method, list, 0)
    BY <1>5, <1>6, <1>7 DEF Askable
  <1>9. call'[c].pos = 1
    <2>1. call'[c].pos <= 1 /\ call'[c].pos \in 1..Len(list) /\ call'[c].pos > 0
      BY <1>0, <1>4, <1>8 DEF IsFirst, Askable
    <2> QED  BY <1>0, <2>1
  <1> QED  BY <1>3, <1>6, <1>9 DEF Asking

----------------------------------------------------------------------------
\* The theorems.

LEMMA InitManager == Init => ManagerInv /\ RotationInv
  <1> SUFFICES ASSUME Init PROVE ManagerInv /\ RotationInv
    OBVIOUS
  <1>1. RoutingInv
    BY InitTypeOK DEF Init, NoCall, RoutingInv, AnswersComeHome, RoutesLeadHome
  <1>2. AffinityInv /\ FallbackIsConfined
    BY DEF Init, WorldInit, NoCall, NoReply, AffinityInv, SnapshotsAtHome, LooksInVain,
           MintedDuring, CreatedStaysRouted, FallbackIsConfined, Ids
  <1>3. RotationInv
    <2>1. 0 \in Nat /\ DOMAIN providers = {}
      BY DEF Init
    <2> QED  BY <2>1 DEF RotationInv
  <1> QED  BY <1>1, <1>2, <1>3, InitCandidates DEF ManagerInv

LEMMA ManagerInvariant == Spec => []ManagerInv
  <1>1. Init => ManagerInv
    BY InitManager
  <1>2. ManagerInv /\ TypeOK /\ TypeOK' /\ RoutingInv' /\ [Next]_vars => ManagerInv'
    BY CandidatesStep, FallbackStep, AffinityStep DEF ManagerInv
  <1> QED  BY <1>1, <1>2, TypeCorrect, RoutingInvariant, PTL DEF Spec

\* Whatever setConfig does meanwhile, a call asks no provider twice, and one that says "not
\* found" or gives up has asked every provider it could (compute.ts:177-212, 224-303).
THEOREM EachCandidateIsAskedOnce == Spec => []EveryCandidateOnce
  <1>1. ManagerInv => EveryCandidateOnce
    BY DEF ManagerInv, CandidatesInv, ListsAreDistinct, EveryCandidateOnce
  <1> QED  BY <1>1, ManagerInvariant, PTL

\* A create leaves its first provider only after an error, with fallback on, and never
\* the provider its caller named (compute.ts:218-234).
THEOREM FallbackStaysConfined == Spec => []FallbackIsConfined
  <1>1. ManagerInv => FallbackIsConfined
    BY DEF ManagerInv
  <1> QED  BY <1>1, ManagerInvariant, PTL

\* Round-robin is fair however many creates overlap: each provider before the cursor was
\* the first choice exactly once more often than the others (compute.ts:177-182).
THEOREM RoundRobinIsFair == Spec => []RoundRobinBalanced
  <1>1. Init => RotationInv
    BY InitManager
  <1>2. RotationInv /\ ManagerInv /\ TypeOK /\ [Next]_vars => RotationInv'
    BY RotationStep DEF ManagerInv
  <1>3. RotationInv /\ TypeOK => RoundRobinBalanced
    <2> SUFFICES ASSUME RotationInv, TypeOK, NEW i \in DOMAIN providers,
                        NEW j \in DOMAIN providers, i < j
                 PROVE  firstPicks[providers[i]] - firstPicks[providers[j]] \in {0, 1}
      BY DEF RoundRobinBalanced
    <2>1. PICK rounds \in Nat : \A k \in DOMAIN providers :
             firstPicks[providers[k]] = IF k <= roundRobinCursor THEN rounds + 1 ELSE rounds
      BY DEF RotationInv
    <2>2. i \in Nat /\ j \in Nat /\ roundRobinCursor \in Nat
      BY DEF TypeOK
    <2> QED  BY <2>1, <2>2
  <1> QED  BY <1>1, <1>2, <1>3, ManagerInvariant, TypeCorrect, PTL DEF Spec

\* Affinity: a call about an id with a route begins at the provider that minted it
\* (compute.ts:185-212).
THEOREM AffinityComesFirst == Spec => AffinityFirst
  <1> DEFINE First == \A c \in Calls :
          LET id == call'[c].id
          IN  /\ call[c].phase = "idle" /\ call'[c].phase = "asked"
              /\ id # None /\ call'[c].preferred = None
              /\ route[id] # None
              /\ call'[c].method = "snapshotCreate" => route[id] \in Snapshotting
              => Asking(c)' = home[id]
  <1>1. TypeOK /\ TypeOK' /\ ManagerInv /\ [Next]_vars => First
    BY FirstStep DEF ManagerInv, RoutingInv, AffinityInv
  <1>2. TypeOK /\ TypeOK' /\ ManagerInv /\ [Next]_vars => [First]_vars
    BY <1>1
  <1> QED  BY <1>2, ManagerInvariant, TypeCorrect, PTL DEF Spec, AffinityFirst

\* No race makes the manager forget a sandbox that lives: not the one a create just gave to
\* its caller, and none but for a reason (compute.ts:224, 267, 296).
THEOREM LiveSandboxesStayRouted == Spec => LiveStaysRouted
  <1>1. /\ TypeOK /\ ManagerInv /\ ManagerInv' /\ [Next]_vars
        => [ForgottenForAReason /\ CreatedStaysRouted']_vars
    BY ForgottenStep DEF ManagerInv, RoutingInv, AffinityInv
  <1> QED  BY <1>1, ManagerInvariant, TypeCorrect, PTL DEF Spec, LiveStaysRouted
=============================================================================
