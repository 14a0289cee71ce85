--------------------------- MODULE GmnClientProofs ----------------------------
(***************************************************************************)
(* Theorems about the givemeanode HTTP client, for any finite set of       *)
(* requests and any number of sessions and of credentials.                 *)
(***************************************************************************)
EXTENDS GmnClient, FiniteSetTheorems, TLAPS

\* Until an attempt of it was let in, the service has not acted on a request.
NotYetActed ==
    \A r \in Requests :
        \/ pc[r] \in {"idle", "joined", "waiting", "wire", "retrying"}
        \/ pc[r] = "answered" /\ reply[r].status = "401"
        => acted[r] = 0

\* A retry goes by the API key, and is the last one.
RetriesGoByTheKey ==
    \A r \in retried : presented[r] = Key /\ pc[r] \notin {"idle", "joined", "retrying"}

\* Every credential anyone knows of has been issued.
AllIssued ==
    /\ vended <= issued
    /\ \A r \in Requests :
          bearer[r] <= issued /\ refusedWith[r] <= issued /\ reply[r].offer <= issued

\* An offer that is still under way is known to nobody, and is made once.
OffersAreFresh ==
    \A r \in Requests : reply[r].offer # None =>
        /\ vended # reply[r].offer
        /\ \A q \in Requests : bearer[q] # reply[r].offer /\ refusedWith[q] # reply[r].offer
        /\ \A q \in Requests : q # r => reply[q].offer # reply[r].offer

\* What an attempt that began without a signed credential presents is the API key, unless
\* one came in while it waited.
KeyUnlessMeanwhile ==
    \A r \in Requests : presented[r] = Key /\ r \notin meanwhile =>
        /\ pc[r] = "waiting" => Bearer = Key
        /\ Riding(r) \/ pc[r] = "refused" => bearer[r] = Key

\* A refusal is never that of a signed credential that was to be presented.
RefusedBeganByTheKey == \A r \in Requests : pc[r] = "refused" => presented[r] = Key

\* What made a request retry never comes back into the cache.
RefusedIsDropped ==
    \A r \in retried : refusedWith[r] # Key => vended # refusedWith[r]

\* The session that is open at the end of the last request is due to be unreferenced.
IdleSessionIsChecked ==
    inflight = 0 /\ h2 # None /\ session[h2] = "open" /\ h2 \in refd => h2 \in idleChecks

TokenInv ==
    /\ RetriesGoByTheKey /\ AllIssued /\ OffersAreFresh /\ RefusedIsDropped
    /\ RetriesWithAnother

KeyInv == KeyUnlessMeanwhile /\ RefusedBeganByTheKey

ClientInv ==
    /\ TypeOK
    /\ NotYetActed /\ ActedOnAtMostOnce
    /\ TokenInv /\ KeyInv
    /\ NoSessionLeaks /\ IdleSessionIsChecked

----------------------------------------------------------------------------
\* Type correctness; the count of the attempts under way comes apart.

PcStates ==
    {"idle", "joined", "waiting", "wire", "answered", "retrying", "done", "refused", "failed"}

CacheTypes ==
    /\ vended \in {None} \cup Tokens /\ usable \in BOOLEAN
    /\ priming \in Requests \cup {NoRequest}

ServiceTypes ==
    /\ keyGood \in BOOLEAN /\ issued \in 0..MaxTokens /\ revoked \subseteq Tokens
    /\ acted \in [Requests -> Nat]

ConnectionTypes ==
    /\ h2 \in {None} \cup Sessions /\ h2Unavailable \in BOOLEAN
    /\ session \in [Sessions -> {"none", "connecting", "open", "closing", "unopened", "gone"}]
    /\ refd \subseteq Sessions /\ closing \subseteq Sessions /\ idleChecks \subseteq Sessions

RequestTypes ==
    /\ pc \in [Requests -> PcStates]
    /\ presented \in [Requests -> {Key} \cup Tokens]
    /\ bearer \in [Requests -> {Key} \cup Tokens]
    /\ refusedWith \in [Requests -> {Key} \cup Tokens]
    /\ meanwhile \subseteq Requests
    /\ on \in [Requests -> {None} \cup Sessions]
    /\ retried \subseteq Requests
    /\ reply \in [Requests -> [status : Statuses, offer : {None} \cup Tokens]]

Typed == CacheTypes /\ ServiceTypes /\ ConnectionTypes /\ RequestTypes
Counted == inflight = Cardinality({r \in Requests : UnderDeadline(r)})

LEMMA TypeParts == TypeOK <=> Typed /\ Counted
BY DEF TypeOK, Typed, Counted, CacheTypes, ServiceTypes, ConnectionTypes, RequestTypes,
       PcStates, UnderDeadline

LEMMA TypePartsNext == Typed' /\ Counted' => TypeOK'
BY DEF TypeOK, Typed, Counted, CacheTypes, ServiceTypes, ConnectionTypes, RequestTypes,
       PcStates, UnderDeadline, Riding

LEMMA Numbers ==
    /\ None \notin Sessions /\ None \notin Tokens /\ Key \notin Tokens
    /\ Sessions \subseteq Nat /\ Tokens \subseteq Nat /\ None \in Nat /\ Key \in Nat
    /\ 1 \in Sessions
BY ClientAssumption DEF ClientAssumption, None, Key, Sessions, Tokens

LEMMA Count ==
    ASSUME TypeOK
    PROVE  /\ inflight \in Nat
           /\ IsFiniteSet({r \in Requests : UnderDeadline(r)})
           /\ \A r \in Requests : UnderDeadline(r) => inflight > 0
<1> DEFINE A == {r \in Requests : UnderDeadline(r)}
<1>1. IsFiniteSet(A)
    <2>1. A \subseteq Requests
        OBVIOUS
    <2> QED
        BY <2>1, ClientAssumption, FS_Subset DEF ClientAssumption
<1>2. Cardinality(A) \in Nat /\ (Cardinality(A) = 0 <=> A = {})
    BY <1>1, FS_CardinalityType, FS_EmptySet
<1>3. inflight = Cardinality(A)
    BY TypeParts DEF Counted
<1> QED
    BY <1>1, <1>2, <1>3

LEMMA OneMore ==
    ASSUME TypeOK, NEW r \in Requests, ~UnderDeadline(r), inflight' = inflight + 1,
           \A q \in Requests : UnderDeadline(q)' <=> q = r \/ UnderDeadline(q)
    PROVE  Counted'
<1> DEFINE A == {q \in Requests : UnderDeadline(q)}
           B == {q \in Requests : UnderDeadline(q)'}
<1>1. B = A \cup {r} /\ r \notin A
    OBVIOUS
<1>2. Cardinality(B) = Cardinality(A) + 1
    BY <1>1, Count, FS_AddElement
<1> QED
    BY <1>2, TypeParts DEF Counted

LEMMA OneLess ==
    ASSUME TypeOK, NEW r \in Requests, UnderDeadline(r), inflight' = inflight - 1,
           \A q \in Requests : UnderDeadline(q)' <=> q # r /\ UnderDeadline(q)
    PROVE  Counted'
<1> DEFINE A == {q \in Requests : UnderDeadline(q)}
           B == {q \in Requests : UnderDeadline(q)'}
<1>1. B = A \ {r} /\ r \in A
    OBVIOUS
<1>2. Cardinality(B) = Cardinality(A) - 1
    BY <1>1, Count, FS_RemoveElement
<1> QED
    BY <1>2, TypeParts DEF Counted

LEMMA AsMany ==
    ASSUME TypeOK, inflight' = inflight,
           \A q \in Requests : UnderDeadline(q)' <=> UnderDeadline(q)
    PROVE  Counted'
<1>1. {q \in Requests : UnderDeadline(q)'} = {q \in Requests : UnderDeadline(q)}
    OBVIOUS
<1> QED
    BY <1>1, TypeParts DEF Counted

\* What an ending attempt leaves.
Reasons == {"2xx", "401", "error", "broken", "aborted"}

LEMMA Ends ==
    ASSUME TypeOK, NEW r \in Requests, UnderDeadline(r), NEW status, End(r, status)
    PROVE  /\ pc' \in [Requests -> PcStates]
           /\ \/ pc'[r] = "retrying" /\ RetriesAfter(r, status)
              \/ pc'[r] = Outcome(status) /\ ~RetriesAfter(r, status)
           /\ \A q \in Requests : q # r =>
                 pc'[q] = pc[q] \/ (pc[q] = "joined" /\ pc'[q] = "done")
           /\ reply' \in [Requests -> [status : Statuses, offer : {None} \cup Tokens]]
           /\ reply'[r] = Silence
           /\ \A q \in Requests : q # r => reply'[q] = reply[q]
           /\ priming' \in {priming, NoRequest}
           /\ inflight' = inflight - 1
           /\ refd' \in {refd, refd \ {on[r]}}
           /\ idleChecks' = IF inflight = 1 /\ h2 # None THEN idleChecks \cup {h2} ELSE idleChecks
           /\ UNCHANGED <<service, h2, h2Unavailable, session, closing, presented, bearer,
                          refusedWith, on, retried>>
<1>0. RequestTypes
    BY TypeParts DEF Typed
<1>1. Silence \in [status : Statuses, offer : {None} \cup Tokens]
    BY DEF Silence, Statuses
<1>2. Outcome(status) \in PcStates
    BY DEF Outcome, PcStates
<1>3. pc[r] # "joined"
    BY DEF UnderDeadline, Riding
<1>4. /\ pc' \in [Requests -> PcStates]
      /\ \/ pc'[r] = "retrying" /\ RetriesAfter(r, status)
         \/ pc'[r] = Outcome(status) /\ ~RetriesAfter(r, status)
      /\ \A q \in Requests : q # r =>
            pc'[q] = pc[q] \/ (pc[q] = "joined" /\ pc'[q] = "done")
    <2>1. CASE RetriesAfter(r, status)
        BY <1>0, <2>1 DEF End, RequestTypes, PcStates
    <2>2. CASE ~RetriesAfter(r, status)
        <3>1. pc' = [q \in Requests |->
                        CASE q = r -> Outcome(status)
                          [] priming = r /\ pc[q] = "joined" -> "done"
                          [] OTHER -> pc[q]]
            BY <2>2 DEF End
        <3>2. pc'[r] = Outcome(status)
            BY <1>3, <3>1
        <3>3. ASSUME NEW q \in Requests, q # r
              PROVE  pc'[q] = pc[q] \/ (pc[q] = "joined" /\ pc'[q] = "done")
            BY <3>1, <3>3
        <3>4. \A q \in Requests : pc'[q] \in PcStates
            BY <1>0, <1>2, <3>2, <3>3 DEF RequestTypes, PcStates
        <3> QED
            BY <2>2, <3>1, <3>2, <3>3, <3>4
    <2> QED
        BY <2>1, <2>2
<1>5. priming' \in {priming, NoRequest}
    BY DEF End, EndPrime
<1> QED
    BY <1>0, <1>1, <1>4, <1>5 DEF End, Release, RequestTypes

\* Obtaining a session keeps or sets the current one.
LEMMA Obtained ==
    ASSUME TypeOK, NEW s \in Sessions \cup {None}, ObtainSession(s)
    PROVE  /\ h2' \in {None} \cup Sessions
           /\ session' \in [Sessions -> {"none", "connecting", "open", "closing", "unopened", "gone"}]
           /\ refd' \subseteq Sessions
           /\ \/ UNCHANGED <<h2, session, refd>>
              \/ /\ h2 = None /\ h2' = s /\ s \in Sessions
                 /\ session' = [session EXCEPT ![s] = "connecting"]
                 /\ refd' = refd \cup {s}
<1>0. ConnectionTypes
    BY TypeParts DEF Typed
<1>1. CASE UNCHANGED <<h2, session, refd>>
    BY <1>0, <1>1 DEF ConnectionTypes
<1>2. CASE /\ ~h2Unavailable /\ h2 = None
           /\ s \in Spare
           /\ h2' = s
           /\ session' = [session EXCEPT ![s] = "connecting"]
           /\ refd' = refd \cup {s}
    BY <1>0, <1>2 DEF ConnectionTypes, Spare
<1> QED
    BY <1>1, <1>2 DEF ObtainSession

LEMMA SessionsTyped ==
    ASSUME TypeOK, NEW s \in Sessions,
           SessionStep(s) \/ Lost(s) \/ GoAway(s) \/ Warm \/ Close
    PROVE  TypeOK'
<1>0. Typed
    BY TypeParts
<1> USE DEF Typed
<1>1. /\ UNCHANGED <<cache, service, requests, inflight>>
    BY DEF SessionStep, Connect, GiveUp, CloseOpened, UnrefIdle, Drained, Lost, GoAway, Warm, Close
<1>2. CacheTypes' /\ ServiceTypes' /\ RequestTypes'
    BY <1>0, <1>1 DEF cache, service, requests, CacheTypes, ServiceTypes, RequestTypes
<1>3. Counted'
    BY <1>1, AsMany DEF requests, UnderDeadline, Riding
<1>4. ConnectionTypes'
    <2>1. CASE Warm
        BY <1>0, <2>1, Obtained DEF Warm, ConnectionTypes
    <2>2. CASE Connect(s) \/ UnrefIdle(s) \/ GoAway(s)
        BY <1>0, <2>2 DEF Connect, UnrefIdle, GoAway, Forget, ConnectionTypes
    <2>3. CASE GiveUp(s) \/ Lost(s) \/ Drained(s)
        BY <1>0, <2>3 DEF GiveUp, Lost, Drained, Forget, ConnectionTypes
    <2>4. CASE CloseOpened(s)
        BY <1>0, <2>4 DEF CloseOpened, ConnectionTypes
    <2>5. CASE Close
        BY <1>0, <2>5 DEF Close, ConnectionTypes
    <2> QED
        BY <2>1, <2>2, <2>3, <2>4, <2>5 DEF SessionStep
<1> QED
    BY <1>2, <1>3, <1>4, TypePartsNext

LEMMA AttemptTyped ==
    ASSUME TypeOK, NEW r \in Requests, ~UnderDeadline(r), Attempt(r)
    PROVE  /\ ConnectionTypes' /\ Counted'
           /\ pc' = [pc EXCEPT ![r] = "waiting"] /\ pc' \in [Requests -> PcStates]
           /\ on' \in [Requests -> {None} \cup Sessions]
           /\ inflight' = inflight + 1
<1>0. ConnectionTypes /\ RequestTypes
    BY TypeParts DEF Typed
<1>1. PICK s \in Sessions \cup {None} : ObtainSession(s) /\ on' = [on EXCEPT ![r] = s]
    BY DEF Attempt
<1>2. /\ pc' = [pc EXCEPT ![r] = "waiting"] /\ inflight' = inflight + 1
      /\ UNCHANGED <<h2Unavailable, closing, idleChecks>>
    BY DEF Attempt
<1>3. ConnectionTypes'
    BY <1>0, <1>1, <1>2, Obtained DEF ConnectionTypes
<1>4. pc' \in [Requests -> PcStates] /\ on' \in [Requests -> {None} \cup Sessions]
    BY <1>0, <1>1, <1>2 DEF RequestTypes, PcStates
<1>5. \A q \in Requests : UnderDeadline(q)' <=> q = r \/ UnderDeadline(q)
    BY <1>0, <1>2 DEF RequestTypes, UnderDeadline, Riding
<1>6. Counted'
    BY <1>2, <1>5, OneMore
<1> QED
    BY <1>2, <1>3, <1>4, <1>6

LEMMA EndTyped ==
    ASSUME TypeOK, NEW r \in Requests, UnderDeadline(r), NEW status, End(r, status),
           vended' \in {None} \cup Tokens, usable' \in BOOLEAN, meanwhile' \subseteq Requests
    PROVE  TypeOK'
<1>0. Typed
    BY TypeParts
<1> USE DEF Typed
<1>1. CacheTypes'
    BY <1>0, Ends DEF CacheTypes
<1>2. ServiceTypes'
    BY <1>0, Ends DEF ServiceTypes, service
<1>3. ConnectionTypes'
    BY <1>0, Ends DEF ConnectionTypes
<1>4. RequestTypes'
    BY <1>0, Ends DEF RequestTypes
<1>5. Counted'
    <2>1. ~UnderDeadline(r)'
        BY Ends DEF UnderDeadline, Riding, Outcome
    <2>2. \A q \in Requests : q # r => (UnderDeadline(q)' <=> UnderDeadline(q))
        BY Ends DEF UnderDeadline, Riding
    <2> QED
        BY <2>1, <2>2, Ends, OneLess
<1> QED
    BY <1>1, <1>2, <1>3, <1>4, <1>5, TypePartsNext

LEMMA RequestsTyped ==
    ASSUME TypeOK, NEW r \in Requests,
           RequestStep(r) \/ Request(r) \/ Prime(r) \/ JoinPrime(r) \/ Serve(r) \/ Receive(r) \/ Break(r)
    PROVE  TypeOK'
<1>0. Typed /\ CacheTypes /\ ServiceTypes /\ ConnectionTypes /\ RequestTypes
    BY TypeParts DEF Typed
<1> USE DEF Typed
<1>1. CASE Begin(r) /\ priming' \in {priming, r}
    <2>1. ~UnderDeadline(r) /\ Attempt(r)
        BY <1>1 DEF Begin, UnderDeadline, Riding
    <2>2. CacheTypes' /\ ServiceTypes'
        BY <1>0, <1>1 DEF Begin, CacheTypes, ServiceTypes, service
    <2>3. Bearer \in {Key} \cup Tokens
        BY <1>0 DEF Bearer, CacheTypes
    <2>4. RequestTypes'
        BY <1>0, <1>1, <2>1, <2>3, AttemptTyped DEF Begin, RequestTypes
    <2> QED
        BY <2>1, <2>2, <2>4, AttemptTyped, TypePartsNext
<1>2. CASE JoinPrime(r)
    <2>1. CacheTypes' /\ ServiceTypes' /\ ConnectionTypes'
        BY <1>0, <1>2 DEF JoinPrime, cache, service, connection, CacheTypes, ServiceTypes, ConnectionTypes
    <2>2. RequestTypes'
        BY <1>0, <1>2 DEF JoinPrime, RequestTypes, PcStates
    <2>3. Counted'
        BY <1>0, <1>2, AsMany DEF JoinPrime, connection, RequestTypes, UnderDeadline, Riding
    <2> QED
        BY <2>1, <2>2, <2>3, TypePartsNext
<1>3. CASE Send(r)
    <2>1. CacheTypes' /\ ServiceTypes' /\ ConnectionTypes'
        BY <1>0, <1>3 DEF Send, cache, service, CacheTypes, ServiceTypes, ConnectionTypes, RequestTypes
    <2>2. Bearer \in {Key} \cup Tokens
        BY <1>0 DEF Bearer, CacheTypes
    <2>3. RequestTypes'
        BY <1>0, <1>3, <2>2 DEF Send, RequestTypes, PcStates
    <2>4. Counted'
        BY <1>0, <1>3, AsMany DEF Send, RequestTypes, UnderDeadline, Riding
    <2> QED
        BY <2>1, <2>2, <2>3, <2>4, TypePartsNext
<1>4. CASE Serve(r)
    <2>1. CacheTypes' /\ ConnectionTypes'
        BY <1>0, <1>4 DEF Serve, cache, connection, CacheTypes, ConnectionTypes
    <2>2. ASSUME bearer[r] \in revoked \/ (bearer[r] = Key /\ ~keyGood)
          PROVE  ServiceTypes' /\ RequestTypes'
        <3>1. reply' = [reply EXCEPT ![r] = [status |-> "401", offer |-> None]]
              /\ UNCHANGED <<acted, issued>>
            BY <1>4, <2>2 DEF Serve
        <3>2. ServiceTypes' /\ RequestTypes'
            BY <1>0, <1>4, <3>1 DEF Serve, ServiceTypes, RequestTypes, PcStates, Statuses
        <3> QED
            BY <3>2
    <2>3. ASSUME ~(bearer[r] \in revoked \/ (bearer[r] = Key /\ ~keyGood))
          PROVE  ServiceTypes' /\ RequestTypes'
        <3>1. acted' = [acted EXCEPT ![r] = acted[r] + 1]
            BY <1>4, <2>3 DEF Serve
        <3>2. PICK status \in {"2xx", "error"}, n \in {issued, issued + 1} :
                 /\ n > issued => bearer[r] = Key /\ n <= MaxTokens
                 /\ issued' = n
                 /\ reply' = [reply EXCEPT ![r] =
                        [status |-> status, offer |-> IF n > issued THEN n ELSE None]]
            BY <1>4, <2>3 DEF Serve
        <3>3. n \in 0..MaxTokens /\ (IF n > issued THEN n ELSE None) \in {None} \cup Tokens
            BY <1>0, <3>2, ClientAssumption DEF ServiceTypes, Tokens, None, ClientAssumption
        <3>4. ServiceTypes'
            BY <1>0, <1>4, <3>1, <3>2, <3>3 DEF Serve, ServiceTypes
        <3>5. [status |-> status, offer |-> IF n > issued THEN n ELSE None]
                 \in [status : Statuses, offer : {None} \cup Tokens]
            BY <3>3 DEF Statuses
        <3>6. RequestTypes'
            BY <1>0, <1>4, <3>2, <3>5 DEF Serve, RequestTypes, PcStates
        <3> QED
            BY <3>4, <3>6
    <2>4. Counted'
        BY <1>0, <1>4, AsMany DEF Serve, connection, RequestTypes, UnderDeadline, Riding
    <2> QED
        BY <2>1, <2>2, <2>3, <2>4, TypePartsNext
<1>5. CASE Receive(r)
    <2>1. UnderDeadline(r) /\ End(r, reply[r].status)
        BY <1>5 DEF Receive, UnderDeadline, Riding
    <2>2. reply[r].offer \in {None} \cup Tokens
        BY <1>0 DEF RequestTypes
    <2>3. vended' \in {None} \cup Tokens /\ usable' \in BOOLEAN /\ meanwhile' \subseteq Requests
        BY <1>0, <1>5, <2>2 DEF Receive, Absorb, CacheTypes, RequestTypes
    <2> QED
        BY <2>1, <2>3, EndTyped
<1>6. CASE Break(r) \/ Unsent(r) \/ Abort(r)
    <2>1. PICK status \in {"broken", "aborted"} : UnderDeadline(r) /\ End(r, status)
        BY <1>6 DEF Break, Unsent, Abort, UnderDeadline
    <2>2. vended' \in {None} \cup Tokens /\ usable' \in BOOLEAN /\ meanwhile' \subseteq Requests
        BY <1>0, <1>6 DEF Break, Unsent, Abort, CacheTypes, RequestTypes
    <2> QED
        BY <2>1, <2>2, EndTyped
<1>7. CASE Retry(r)
    <2>1. ~UnderDeadline(r) /\ Attempt(r)
        BY <1>7 DEF Retry, UnderDeadline, Riding
    <2>2. CacheTypes' /\ ServiceTypes'
        BY <1>0, <1>7 DEF Retry, DropVended, CacheTypes, ServiceTypes, service
    <2>3. RequestTypes'
        BY <1>0, <1>7, <2>1, AttemptTyped DEF Retry, RequestTypes
    <2> QED
        BY <2>1, <2>2, <2>3, AttemptTyped, TypePartsNext
<1> QED
    BY <1>1, <1>2, <1>3, <1>4, <1>5, <1>6, <1>7 DEF RequestStep, Request, Prime

LEMMA CacheTyped ==
    ASSUME TypeOK, Expire \/ \E t \in Tokens : Revoke(t)
    PROVE  TypeOK'
<1>0. Typed /\ CacheTypes /\ ServiceTypes /\ ConnectionTypes /\ RequestTypes
    BY TypeParts DEF Typed
<1>1. Typed'
    <2>1. CASE Expire
        BY <1>0, <2>1 DEF Expire, service, connection, requests, Typed, CacheTypes, ServiceTypes,
                          ConnectionTypes, RequestTypes
    <2>2. ASSUME NEW t \in Tokens, Revoke(t)
          PROVE  Typed'
        BY <1>0, <2>2 DEF Revoke, cache, connection, requests, Typed, CacheTypes, ServiceTypes,
                          ConnectionTypes, RequestTypes
    <2> QED
        BY <2>1, <2>2
<1>2. Counted'
    BY AsMany DEF Expire, Revoke, connection, requests, UnderDeadline, Riding
<1> QED
    BY <1>1, <1>2, TypePartsNext

LEMMA TypeStep == TypeOK /\ Next => TypeOK'
BY SessionsTyped, RequestsTyped, CacheTyped, Numbers DEF Next

----------------------------------------------------------------------------
\* The service acts once.

LEMMA ActedStep ==
    ASSUME TypeOK, NotYetActed, ActedOnAtMostOnce, Next
    PROVE  NotYetActed' /\ ActedOnAtMostOnce'
<1>0. RequestTypes /\ acted \in [Requests -> Nat]
    BY TypeParts DEF Typed, ServiceTypes
<1> USE DEF NotYetActed, ActedOnAtMostOnce
<1>1. CASE UNCHANGED <<acted, pc, reply>>
    BY <1>1
<1>2. CASE Expire \/ Warm \/ Close \/ \E t \in Tokens : Revoke(t)
    BY <1>1, <1>2 DEF Expire, Warm, Close, Revoke, service, requests
<1>3. ASSUME NEW s \in Sessions, SessionStep(s) \/ Lost(s) \/ GoAway(s)
      PROVE  NotYetActed' /\ ActedOnAtMostOnce'
    BY <1>1, <1>3 DEF SessionStep, Connect, GiveUp, CloseOpened, UnrefIdle, Drained, Lost, GoAway,
                      service, requests
<1>4. ASSUME NEW r \in Requests, pc[r] \in {"idle", "waiting", "retrying"},
             pc'[r] \in {"joined", "waiting", "wire"},
             \A q \in Requests : q # r => pc'[q] = pc[q],
             UNCHANGED <<acted, reply>>
      PROVE  NotYetActed' /\ ActedOnAtMostOnce'
    BY <1>4
<1>5. ASSUME NEW r \in Requests, Request(r) \/ Prime(r) \/ JoinPrime(r) \/ Send(r) \/ Retry(r)
      PROVE  NotYetActed' /\ ActedOnAtMostOnce'
    BY <1>0, <1>4, <1>5 DEF Request, Prime, Begin, JoinPrime, Send, Retry, Attempt, service, RequestTypes
<1>6. ASSUME NEW r \in Requests, Serve(r)
      PROVE  NotYetActed' /\ ActedOnAtMostOnce'
    <2>1. /\ pc[r] = "wire" /\ pc'[r] = "answered"
          /\ \A q \in Requests : q # r => pc'[q] = pc[q]
        BY <1>0, <1>6 DEF Serve, RequestTypes
    <2>2. /\ \A q \in Requests : q # r => reply'[q] = reply[q] /\ acted'[q] = acted[q]
          /\ \/ acted' = acted
             \/ acted'[r] = acted[r] + 1 /\ reply'[r].status # "401"
        BY <1>0, <1>6 DEF Serve, RequestTypes
    <2>3. acted[r] = 0 /\ \A q \in Requests : acted[q] \in Nat
        BY <1>0, <2>1
    <2> QED
        BY <2>1, <2>2, <2>3
<1>7. ASSUME NEW r \in Requests, UnderDeadline(r), NEW status, End(r, status),
             status = "401" => pc[r] = "answered" /\ reply[r].status = "401"
      PROVE  NotYetActed' /\ ActedOnAtMostOnce'
    <2>1. /\ acted' = acted /\ pc'[r] # "answered"
          /\ pc'[r] = "retrying" \/ pc'[r] \notin {"idle", "joined", "waiting", "wire", "retrying"}
          /\ pc'[r] = "retrying" => status = "401"
        BY <1>7, Ends DEF service, Outcome, RetriesAfter
    <2>2. \A q \in Requests : q # r =>
              /\ pc'[q] = pc[q] \/ pc'[q] = "done"
              /\ reply'[q] = reply[q]
        BY <1>7, Ends
    <2> QED
        BY <1>7, <2>1, <2>2
<1>8. ASSUME NEW r \in Requests, Receive(r) \/ Break(r) \/ Unsent(r) \/ Abort(r)
      PROVE  NotYetActed' /\ ActedOnAtMostOnce'
    <2>1. CASE Receive(r)
        BY <1>7, <2>1 DEF Receive, UnderDeadline, Riding
    <2>2. CASE Break(r) \/ Unsent(r) \/ Abort(r)
        BY <1>7, <2>2 DEF Break, Unsent, Abort, UnderDeadline
    <2> QED
        BY <1>8, <2>1, <2>2
<1> QED
    BY <1>2, <1>3, <1>5, <1>6, <1>8 DEF Next, RequestStep

----------------------------------------------------------------------------
\* The sessions.

LEMMA SessionsStep ==
    ASSUME TypeOK, NoSessionLeaks, IdleSessionIsChecked, Next
    PROVE  NoSessionLeaks' /\ IdleSessionIsChecked'
<1>0. ConnectionTypes /\ None \notin Sessions
    BY TypeParts, Numbers DEF Typed
<1> USE DEF NoSessionLeaks, IdleSessionIsChecked, Live
<1>1. CASE UNCHANGED connection
    BY <1>1 DEF connection
<1>2. CASE Expire \/ \E t \in Tokens : Revoke(t)
    BY <1>1, <1>2 DEF Expire, Revoke
<1>3. ASSUME NEW s \in Sessions \cup {None}, ObtainSession(s),
             UNCHANGED <<closing, idleChecks>>, inflight' = inflight \/ inflight' # 0
      PROVE  NoSessionLeaks' /\ IdleSessionIsChecked'
    <2>1. CASE UNCHANGED <<h2, session, refd>>
        BY <1>3, <2>1
    <2>2. CASE /\ h2 = None /\ h2' = s /\ s \in Sessions
               /\ session' = [session EXCEPT ![s] = "connecting"]
        BY <1>0, <1>3, <2>2 DEF ConnectionTypes
    <2> QED
        BY <1>3, <2>1, <2>2, Obtained
<1>4. CASE Warm
    BY <1>3, <1>4 DEF Warm
<1>5. CASE Close
    BY <1>0, <1>5 DEF Close, ConnectionTypes
<1>6. ASSUME NEW s \in Sessions, Connect(s)
      PROVE  NoSessionLeaks' /\ IdleSessionIsChecked'
    BY <1>0, <1>6 DEF Connect, ConnectionTypes
<1>7. ASSUME NEW s \in Sessions, GiveUp(s) \/ Lost(s) \/ GoAway(s) \/ Drained(s)
      PROVE  NoSessionLeaks' /\ IdleSessionIsChecked'
    <2>1. PICK end \in {"unopened", "gone", "closing"} : session' = [session EXCEPT ![s] = end]
        BY <1>7 DEF GiveUp, Lost, GoAway, Drained
    <2>2. /\ h2' = IF h2 = s THEN None ELSE h2
          /\ refd' \subseteq refd
          /\ UNCHANGED <<closing, idleChecks, inflight>>
        BY <1>7 DEF GiveUp, Lost, GoAway, Drained, Forget
    <2> QED
        BY <1>0, <2>1, <2>2 DEF ConnectionTypes
<1>8. ASSUME NEW s \in Sessions, CloseOpened(s)
      PROVE  NoSessionLeaks' /\ IdleSessionIsChecked'
    BY <1>0, <1>8 DEF CloseOpened, ConnectionTypes
<1>9. ASSUME NEW s \in Sessions, UnrefIdle(s)
      PROVE  NoSessionLeaks' /\ IdleSessionIsChecked'
    BY <1>0, <1>9 DEF UnrefIdle, ConnectionTypes
<1>10. ASSUME NEW r \in Requests, Attempt(r)
       PROVE  NoSessionLeaks' /\ IdleSessionIsChecked'
    <2>1. inflight' # 0
        BY <1>10, Count DEF Attempt
    <2> QED
        BY <1>3, <1>10, <2>1 DEF Attempt
<1>11. ASSUME NEW r \in Requests, Send(r)
       PROVE  NoSessionLeaks' /\ IdleSessionIsChecked'
    <2>1. inflight > 0
        BY <1>11, Count DEF Send, UnderDeadline
    <2> QED
        BY <1>11, <2>1 DEF Send
<1>12. ASSUME NEW r \in Requests, JoinPrime(r) \/ Serve(r)
       PROVE  NoSessionLeaks' /\ IdleSessionIsChecked'
    BY <1>1, <1>12 DEF JoinPrime, Serve
<1>13. ASSUME NEW r \in Requests, UnderDeadline(r), NEW status, End(r, status)
       PROVE  NoSessionLeaks' /\ IdleSessionIsChecked'
    <2>1. /\ UNCHANGED <<h2, session, closing>>
          /\ inflight' = inflight - 1
          /\ idleChecks' = IF inflight = 1 /\ h2 # None THEN idleChecks \cup {h2} ELSE idleChecks
        BY <1>13, Ends
    <2>2. inflight \in Nat /\ inflight > 0
        BY <1>13, Count
    <2> QED
        BY <2>1, <2>2
<1>14. ASSUME NEW r \in Requests, Receive(r) \/ Break(r) \/ Unsent(r) \/ Abort(r)
       PROVE  NoSessionLeaks' /\ IdleSessionIsChecked'
    BY <1>13, <1>14 DEF Receive, Break, Unsent, Abort, UnderDeadline, Riding
<1>15. ASSUME NEW r \in Requests, Request(r) \/ Prime(r) \/ Retry(r)
       PROVE  NoSessionLeaks' /\ IdleSessionIsChecked'
    BY <1>10, <1>15 DEF Request, Prime, Begin, Retry
<1> QED
    BY <1>2, <1>4, <1>5, <1>6, <1>7, <1>8, <1>9, <1>11, <1>12, <1>14, <1>15
       DEF Next, SessionStep, RequestStep

----------------------------------------------------------------------------
\* The credentials.

LEMMA TokenStep ==
    ASSUME TypeOK, TokenInv, Next
    PROVE  TokenInv'
<1>0. /\ RequestTypes /\ retried \subseteq Requests
      /\ vended \in Nat /\ issued \in Nat /\ None = 0 /\ Key = 0
      /\ \A r \in Requests :
            bearer[r] \in Nat /\ refusedWith[r] \in Nat /\ reply[r].offer \in Nat
    <2>1. CacheTypes /\ ServiceTypes /\ RequestTypes
        BY TypeParts DEF Typed
    <2>2. Tokens \subseteq Nat /\ None = 0 /\ Key = 0
        BY Numbers DEF None, Key
    <2>3. ASSUME NEW r \in Requests
          PROVE  bearer[r] \in Nat /\ refusedWith[r] \in Nat /\ reply[r].offer \in Nat
        <3>1. /\ bearer[r] \in {Key} \cup Tokens /\ refusedWith[r] \in {Key} \cup Tokens
              /\ reply[r] \in [status : Statuses, offer : {None} \cup Tokens]
            BY <2>1 DEF RequestTypes
        <3>2. reply[r].offer \in {None} \cup Tokens
            BY <3>1
        <3> QED
            BY <3>1, <3>2, ClientAssumption DEF Key, None, Tokens, ClientAssumption
    <2>4. vended \in Nat /\ issued \in Nat /\ retried \subseteq Requests
        BY <2>1, <2>2 DEF CacheTypes, ServiceTypes, RequestTypes
    <2> QED
        BY <2>1, <2>2, <2>3, <2>4
<1> USE DEF TokenInv, RetriesGoByTheKey, AllIssued, OffersAreFresh, RefusedIsDropped,
            RetriesWithAnother, Riding
<1>1. CASE UNCHANGED <<requests, vended, issued>>
    BY <1>1 DEF requests
<1>2. CASE Expire \/ Warm \/ Close \/ \E t \in Tokens : Revoke(t)
    BY <1>1, <1>2 DEF Expire, Warm, Close, Revoke, cache, service
<1>3. ASSUME NEW s \in Sessions, SessionStep(s) \/ Lost(s) \/ GoAway(s)
      PROVE  TokenInv'
    BY <1>1, <1>3 DEF SessionStep, Connect, GiveUp, CloseOpened, UnrefIdle, Drained, Lost, GoAway,
                      cache, service
<1>4. ASSUME NEW r \in Requests, Request(r) \/ Prime(r) \/ JoinPrime(r)
      PROVE  TokenInv'
    <2>1. /\ pc[r] = "idle" /\ pc'[r] \in {"waiting", "joined"}
          /\ \A q \in Requests : q # r => pc'[q] = pc[q] /\ presented'[q] = presented[q]
          /\ UNCHANGED <<vended, issued, bearer, refusedWith, retried, reply>>
        BY <1>0, <1>4 DEF Request, Prime, Begin, JoinPrime, Attempt, cache, service, RequestTypes
    <2>2. r \notin retried
        BY <2>1
    <2>3. \A q \in retried : q \in Requests /\ q # r
        BY <1>0, <2>2
    <2>4. RetriesGoByTheKey'
        BY <2>1, <2>3
    <2>5. AllIssued' /\ OffersAreFresh' /\ RefusedIsDropped'
        BY <2>1
    <2>6. RetriesWithAnother'
        BY <2>1, <2>3
    <2> QED
        BY <2>4, <2>5, <2>6
<1>5. ASSUME NEW r \in Requests, Send(r)
      PROVE  TokenInv'
    <2>1. /\ pc[r] = "waiting" /\ pc'[r] = "wire" /\ bearer'[r] \in {vended, Key}
          /\ \A q \in Requests : q # r => pc'[q] = pc[q] /\ bearer'[q] = bearer[q]
          /\ UNCHANGED <<vended, issued, presented, refusedWith, retried, reply>>
        BY <1>0, <1>5 DEF Send, Bearer, cache, service, RequestTypes
    <2>2. RetriesGoByTheKey'
        BY <1>0, <2>1
    <2>3. AllIssued' /\ RefusedIsDropped'
        BY <1>0, <2>1
    <2>4. OffersAreFresh'
        BY <1>0, <2>1
    <2>5. RetriesWithAnother'
        BY <1>0, <2>1
    <2> QED
        BY <2>2, <2>3, <2>4, <2>5
<1>6. ASSUME NEW r \in Requests, Serve(r)
      PROVE  TokenInv'
    <2>1. /\ pc[r] = "wire" /\ pc'[r] = "answered"
          /\ \A q \in Requests : q # r => pc'[q] = pc[q] /\ reply'[q] = reply[q]
          /\ UNCHANGED <<vended, presented, bearer, refusedWith, retried>>
        BY <1>0, <1>6 DEF Serve, cache, RequestTypes
    <2>2. \/ issued' = issued /\ reply'[r].offer = None
          \/ issued' = issued + 1 /\ reply'[r].offer = issued + 1
        BY <1>0, <1>6 DEF Serve, RequestTypes
    <2>3. CASE issued' = issued /\ reply'[r].offer = None
        <3>1. RetriesGoByTheKey'
            BY <1>0, <2>1, <2>3
        <3>2. AllIssued' /\ RefusedIsDropped'
            BY <1>0, <2>1, <2>3
        <3>3. OffersAreFresh'
            BY <1>0, <2>1, <2>3
        <3>4. RetriesWithAnother'
            BY <1>0, <2>1, <2>3
        <3> QED
            BY <3>1, <3>2, <3>3, <3>4
    <2>4. CASE issued' = issued + 1 /\ reply'[r].offer = issued + 1
        <3>1. RetriesGoByTheKey'
            BY <1>0, <2>1, <2>4
        <3>2. AllIssued' /\ RefusedIsDropped'
            BY <1>0, <2>1, <2>4
        <3>3. OffersAreFresh'
            BY <1>0, <2>1, <2>4
        <3>4. RetriesWithAnother'
            BY <1>0, <2>1, <2>4
        <3> QED
            BY <3>1, <3>2, <3>3, <3>4
    <2> QED
        BY <2>2, <2>3, <2>4
<1>7. ASSUME NEW r \in Requests, UnderDeadline(r), NEW status, End(r, status),
             \/ vended' = vended
             \/ reply[r].offer # None /\ vended' = reply[r].offer
      PROVE  TokenInv'
    <2>1. /\ reply'[r].offer = None
          /\ \A q \in Requests : q # r => reply'[q] = reply[q]
          /\ UNCHANGED <<issued, presented, bearer, refusedWith, retried>>
        BY <1>7, Ends DEF service, Silence
    <2>2. \A q \in Requests : q # r =>
              pc'[q] = pc[q] \/ (pc[q] = "joined" /\ pc'[q] = "done")
        BY <1>7, Ends
    <2>3. /\ pc'[r] \in {"retrying", "done", "refused", "failed"}
          /\ pc'[r] = "retrying" => r \notin retried
        BY <1>7, Ends DEF Outcome, RetriesAfter
    <2>4. RetriesGoByTheKey'
        BY <1>0, <2>1, <2>2, <2>3
    <2>5. AllIssued' /\ RefusedIsDropped'
        <3>1. vended' <= issued
            BY <1>0, <1>7
        <3>2. \A q \in Requests : reply'[q].offer <= issued
            BY <1>0, <2>1
        <3>3. \A q \in retried : refusedWith[q] # Key => vended' # refusedWith[q]
            BY <1>0, <1>7
        <3> QED
            BY <2>1, <3>1, <3>2, <3>3
    <2>6. OffersAreFresh'
        BY <1>0, <1>7, <2>1
    <2>7. RetriesWithAnother'
        BY <1>0, <2>1, <2>2, <2>3
    <2> QED
        BY <2>4, <2>5, <2>6, <2>7
<1>8. ASSUME NEW r \in Requests, Receive(r) \/ Break(r) \/ Unsent(r) \/ Abort(r)
      PROVE  TokenInv'
    BY <1>7, <1>8 DEF Receive, Absorb, Break, Unsent, Abort, UnderDeadline
<1>9. ASSUME NEW r \in Requests, Retry(r)
      PROVE  TokenInv'
    <2>1. /\ pc'[r] = "waiting" /\ vended' = None /\ retried' = retried \cup {r}
          /\ presented'[r] = Key /\ refusedWith'[r] = bearer[r]
          /\ \A q \in Requests : q # r =>
                /\ pc'[q] = pc[q] /\ presented'[q] = presented[q]
                /\ refusedWith'[q] = refusedWith[q]
          /\ UNCHANGED <<issued, bearer, reply>>
        BY <1>0, <1>9 DEF Retry, DropVended, Attempt, service, RequestTypes
    <2>2. RetriesGoByTheKey'
        BY <1>0, <2>1
    <2>3. AllIssued' /\ RefusedIsDropped'
        BY <1>0, <2>1
    <2>4. OffersAreFresh'
        BY <1>0, <2>1
    <2>5. RetriesWithAnother'
        BY <1>0, <2>1
    <2> QED
        BY <2>2, <2>3, <2>4, <2>5
<1> QED
    BY <1>2, <1>3, <1>4, <1>5, <1>6, <1>8, <1>9 DEF Next, RequestStep

----------------------------------------------------------------------------
\* What an attempt presents.

LEMMA KeyStep ==
    ASSUME TypeOK, TokenInv, KeyInv, Next
    PROVE  KeyInv'
<1>0. RequestTypes /\ None = 0 /\ Key = 0
    BY TypeParts DEF Typed, None, Key
<1> USE DEF KeyInv, KeyUnlessMeanwhile, RefusedBeganByTheKey, Riding
<1>1. ASSUME UNCHANGED <<requests, vended>>, usable' => usable
      PROVE  KeyInv'
    BY <1>1 DEF requests, Bearer
<1>2. CASE Expire \/ Warm \/ Close \/ \E t \in Tokens : Revoke(t)
    BY <1>1, <1>2 DEF Expire, Warm, Close, Revoke, cache
<1>3. ASSUME NEW s \in Sessions, SessionStep(s) \/ Lost(s) \/ GoAway(s)
      PROVE  KeyInv'
    BY <1>1, <1>3 DEF SessionStep, Connect, GiveUp, CloseOpened, UnrefIdle, Drained, Lost, GoAway,
                      cache
\* A request that begins, or joins a prime.
<1>4. ASSUME NEW r \in Requests, Request(r) \/ Prime(r) \/ JoinPrime(r)
      PROVE  KeyInv'
    <2>1. /\ \A q \in Requests : q # r =>
                pc'[q] = pc[q] /\ presented'[q] = presented[q] /\ (q \in meanwhile' <=> q \in meanwhile)
          /\ UNCHANGED <<vended, usable, bearer>>
          /\ \/ pc'[r] = "waiting" /\ presented'[r] = Bearer
             \/ pc'[r] = "joined"
        BY <1>0, <1>4 DEF Request, Prime, Begin, JoinPrime, Attempt, cache, RequestTypes
    <2>2. Bearer' = Bearer
        BY <2>1 DEF Bearer
    <2> QED
        BY <2>1, <2>2
\* A request that is sent presents what the cache holds.
<1>5. ASSUME NEW r \in Requests, Send(r)
      PROVE  KeyInv'
    <2>1. /\ pc[r] = "waiting" /\ pc'[r] = "wire" /\ bearer'[r] = Bearer
          /\ \A q \in Requests : q # r => pc'[q] = pc[q] /\ bearer'[q] = bearer[q]
          /\ UNCHANGED <<vended, usable, presented, meanwhile>>
        BY <1>0, <1>5 DEF Send, cache, RequestTypes
    <2>2. Bearer' = Bearer
        BY <2>1 DEF Bearer
    <2> QED
        BY <2>1, <2>2
<1>6. ASSUME NEW r \in Requests, Serve(r)
      PROVE  KeyInv'
    <2>1. /\ pc[r] = "wire" /\ pc'[r] = "answered"
          /\ \A q \in Requests : q # r => pc'[q] = pc[q]
          /\ UNCHANGED <<vended, usable, presented, bearer, meanwhile>>
        BY <1>0, <1>6 DEF Serve, cache, RequestTypes
    <2>2. Bearer' = Bearer
        BY <2>1 DEF Bearer
    <2> QED
        BY <2>1, <2>2
\* An attempt that ends; whoever waits as a credential is absorbed is noted.
<1>7. ASSUME NEW r \in Requests, UnderDeadline(r), NEW status, End(r, status),
             status = "401" => Riding(r),
             \/ UNCHANGED <<vended, usable, meanwhile>>
             \/ meanwhile' = meanwhile \cup {q \in Requests : pc[q] = "waiting"}
      PROVE  KeyInv'
    <2>1. /\ pc'[r] \in {"retrying", "done", "refused", "failed"}
          /\ pc'[r] = "refused" =>
                status = "401" /\ (presented[r] = Key \/ r \in retried)
          /\ \A q \in Requests : q # r => pc'[q] = pc[q] \/ pc'[q] = "done"
          /\ UNCHANGED <<presented, bearer>>
        BY <1>7, Ends DEF Outcome, RetriesAfter
    <2>2. pc'[r] = "refused" => presented[r] = Key
        BY <2>1 DEF TokenInv, RetriesGoByTheKey
    <2>3. RefusedBeganByTheKey'
        BY <2>1, <2>2
    <2>4. CASE UNCHANGED <<vended, usable, meanwhile>>
        <3>1. Bearer' = Bearer
            BY <2>4 DEF Bearer
        <3> QED
            BY <1>7, <2>1, <2>2, <2>3, <2>4, <3>1
    <2>5. CASE meanwhile' = meanwhile \cup {q \in Requests : pc[q] = "waiting"}
        <3>1. ASSUME NEW q \in Requests, presented'[q] = Key, q \notin meanwhile'
              PROVE  /\ pc'[q] # "waiting"
                     /\ Riding(q)' \/ pc'[q] = "refused" => bearer'[q] = Key
            <4>1. pc[q] # "waiting" /\ q \notin meanwhile /\ presented[q] = Key
                BY <2>1, <2>5, <3>1
            <4> QED
                BY <1>7, <2>1, <4>1
        <3> QED
            BY <2>3, <3>1
    <2> QED
        BY <1>7, <2>4, <2>5
<1>8. ASSUME NEW r \in Requests, Receive(r) \/ Break(r) \/ Unsent(r) \/ Abort(r)
      PROVE  KeyInv'
    <2>1. CASE Receive(r)
        BY <1>7, <2>1 DEF Receive, Absorb, UnderDeadline
    <2>2. CASE Break(r) \/ Unsent(r) \/ Abort(r)
        BY <1>7, <2>2 DEF Break, Unsent, Abort, UnderDeadline
    <2> QED
        BY <1>8, <2>1, <2>2
\* A retry finds the cache empty.
<1>9. ASSUME NEW r \in Requests, Retry(r)
      PROVE  KeyInv'
    <2>1. /\ pc'[r] = "waiting" /\ vended' = None
          /\ \A q \in Requests : q # r =>
                pc'[q] = pc[q] /\ presented'[q] = presented[q] /\ (q \in meanwhile' <=> q \in meanwhile)
          /\ UNCHANGED bearer
        BY <1>0, <1>9 DEF Retry, DropVended, Attempt, RequestTypes
    <2>2. Bearer' = Key
        BY <2>1 DEF Bearer
    <2> QED
        BY <2>1, <2>2
<1> QED
    BY <1>2, <1>3, <1>4, <1>5, <1>6, <1>8, <1>9 DEF Next, RequestStep

----------------------------------------------------------------------------
\* The inductive invariant and what it says.

LEMMA ClientInit == Init => ClientInv
<1> SUFFICES ASSUME Init PROVE ClientInv
    OBVIOUS
<1>1. \A r \in Requests : pc[r] = "idle" /\ acted[r] = 0 /\ reply[r] = Silence
    BY DEF Init
<1>2. TypeOK
    <2>1. CacheTypes /\ ConnectionTypes
        BY DEF Init, CacheTypes, ConnectionTypes
    <2>2. ServiceTypes
        BY ClientAssumption DEF Init, ServiceTypes, ClientAssumption
    <2>3. RequestTypes
        BY DEF Init, RequestTypes, PcStates, Silence, Statuses
    <2>4. {r \in Requests : UnderDeadline(r)} = {}
        BY <1>1 DEF UnderDeadline, Riding
    <2>5. Counted
        BY <2>4, FS_EmptySet DEF Init, Counted
    <2> QED
        BY <2>1, <2>2, <2>3, <2>5, TypeParts DEF Typed
<1>3. NotYetActed /\ ActedOnAtMostOnce
    BY <1>1 DEF NotYetActed, ActedOnAtMostOnce
<1>4. TokenInv /\ KeyInv
    BY <1>1, ClientAssumption
       DEF Init, TokenInv, RetriesGoByTheKey, AllIssued, OffersAreFresh, RefusedIsDropped,
           RetriesWithAnother, KeyInv, KeyUnlessMeanwhile, RefusedBeganByTheKey, Riding,
           Silence, None, Key
<1>5. NoSessionLeaks /\ IdleSessionIsChecked
    BY DEF Init, NoSessionLeaks, IdleSessionIsChecked, Live
<1> QED
    BY <1>2, <1>3, <1>4, <1>5 DEF ClientInv

LEMMA ClientStep ==
    ASSUME ClientInv, [Next]_vars
    PROVE  ClientInv'
<1>1. CASE Next
    BY <1>1, TypeStep, ActedStep, TokenStep, KeyStep, SessionsStep DEF ClientInv
<1>2. CASE UNCHANGED vars
    <2> USE <1>2 DEF ClientInv, vars, cache, service, connection, requests
    <2>1. TypeOK'
        <3>1. Typed'
            BY TypeParts DEF Typed, CacheTypes, ServiceTypes, ConnectionTypes, RequestTypes
        <3>2. Counted'
            BY AsMany DEF UnderDeadline, Riding
        <3> QED
            BY <3>1, <3>2, TypePartsNext
    <2>2. NotYetActed' /\ ActedOnAtMostOnce'
        BY DEF NotYetActed, ActedOnAtMostOnce
    <2>3. TokenInv' /\ KeyInv'
        BY DEF TokenInv, RetriesGoByTheKey, AllIssued, OffersAreFresh, RefusedIsDropped,
               RetriesWithAnother, KeyInv, KeyUnlessMeanwhile, RefusedBeganByTheKey, Riding, Bearer
    <2>4. NoSessionLeaks' /\ IdleSessionIsChecked'
        BY DEF NoSessionLeaks, IdleSessionIsChecked, Live
    <2> QED
        BY <2>1, <2>2, <2>3, <2>4
<1> QED
    BY <1>1, <1>2

LEMMA ClientInvariant == Spec => []ClientInv
BY ClientInit, ClientStep, PTL DEF Spec

\* Every reachable state of the client is well typed, and `inflight` is at every moment the
\* number of attempts under way: no path out of an attempt releases twice or not at all
\* (client.ts:318-324).
THEOREM ClientTypeCorrect == Spec => []TypeOK
<1>1. ClientInv => TypeOK
    BY DEF ClientInv
<1> QED
    BY <1>1, ClientInvariant, PTL

\* A request that is sent again after a 401 is acted on once at most, whatever was lost,
\* aborted or revoked in between (client.ts:545-556).
THEOREM RequestsActOnce == Spec => []ActedOnAtMostOnce
<1>1. ClientInv => ActedOnAtMostOnce
    BY DEF ClientInv
<1> QED
    BY <1>1, ClientInvariant, PTL

\* What made a request retry is dropped for good, whatever others absorb, and no retry presents
\* it again; and a 401 reaches the caller for the API key alone, or for a credential absorbed
\* while that very attempt waited for its session (client.ts:547-556, 637, 666).
THEOREM RefusedCredentialsAreRetried == Spec => []RefusalsAreRetried
<1>1. ClientInv => RefusalsAreRetried
    BY DEF ClientInv, TokenInv, KeyInv, KeyUnlessMeanwhile, RefusedBeganByTheKey,
           RefusalsAreRetried, RefusalIsTheKeys
<1> QED
    BY <1>1, ClientInvariant, PTL

\* Whichever of its sessions end, in whatever order, the client never holds an open session
\* it has forgotten (client.ts:456).
THEOREM SessionsDoNotLeak == Spec => []NoSessionLeaks
<1>1. ClientInv => NoSessionLeaks
    BY DEF ClientInv
<1> QED
    BY <1>1, ClientInvariant, PTL

\* With nothing under way and nothing left to run, no open session keeps the process alive:
\* a session other than the current one is about to be closed, and the current one was
\* unreferenced by the last release or by its own connection (client.ts:477, 616-626).
THEOREM IdleSessionsAreUnreferenced == Spec => []IdleIsUnreferenced
<1>1. ClientInv => IdleIsUnreferenced
    <2> SUFFICES ASSUME ClientInv, inflight = 0, NEW s \in refd, session[s] = "open"
                 PROVE  Ready
        BY DEF IdleIsUnreferenced
    <2>1. s \in Sessions
        BY TypeParts DEF ClientInv, Typed, ConnectionTypes
    <2>2. CASE s \in closing
        BY <2>2 DEF Ready
    <2>3. CASE s = h2
        <3>1. s \in idleChecks
            BY <2>1, <2>3, Numbers DEF ClientInv, IdleSessionIsChecked
        <3> QED
            BY <3>1 DEF Ready
    <2> QED
        BY <2>1, <2>2, <2>3 DEF ClientInv, NoSessionLeaks, Live
<1> QED
    BY <1>1, ClientInvariant, PTL
=============================================================================
