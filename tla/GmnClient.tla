------------------------------ MODULE GmnClient ------------------------------
(***************************************************************************)
(* The givemeanode HTTP client (givemeanode/src/client.ts): requests that  *)
(* share one HTTP/2 session, opened when needed and forgotten when it      *)
(* ends, and one signed credential, absorbed from a response to the API    *)
(* key and presented until it is about to expire or is refused.            *)
(*                                                                         *)
(* A bearer is a signed credential in 1..MaxTokens or the Key.  What the   *)
(* program reaches with microtasks alone (Ready) precedes what the socket  *)
(* and the timers bring.                                                   *)
(***************************************************************************)
EXTENDS Naturals, FiniteSets

CONSTANTS
    Requests,
    NoRequest,
    MaxSessions,      \* sessions opened in all: one is lost only if another may follow
    MaxTokens         \* credentials the service offers in all

ASSUME ClientAssumption ==
    /\ IsFiniteSet(Requests) /\ NoRequest \notin Requests
    /\ MaxSessions \in Nat \ {0} /\ MaxTokens \in Nat

Sessions == 1..MaxSessions
Tokens == 1..MaxTokens
Key == 0             \* the bearer that is not a signed credential
None == 0            \* no session, no credential, no offer

VARIABLES
    \* the credential cache, of module level in the code
    vended,           \* the credential held
    usable,           \* it has margin left
    priming,          \* the request that primes the cache for all its callers
    \* the service
    keyGood,          \* it accepts the API key
    issued,           \* credentials offered so far
    revoked,          \* credentials it does not accept (any more)
    acted,            \* history: how often it acted on each request
    \* the connection of the client
    h2,               \* the session being opened or open
    h2Unavailable,    \* no session could be opened, or fetch was chosen
    session,          \* what has become of each session
    refd,             \* the sessions that keep the process alive
    closing,          \* sessions close() awaits the opening of
    idleChecks,       \* sessions a release awaits the opening of
    inflight,
    \* each request
    pc,
    presented,        \* history: the credential held as each attempt began
    bearer,           \* what each attempt presented
    refusedWith,      \* history: the bearer of the attempt that was retried
    meanwhile,        \* history: a credential came into the cache during the attempt's wait
    on,               \* the session it awaits or rides
    retried,
    reply             \* the answer under way, with the credential it offers

cache == <<vended, usable, priming>>
service == <<keyGood, issued, revoked, acted>>
connection == <<h2, h2Unavailable, session, refd, closing, idleChecks, inflight>>
requests == <<pc, presented, bearer, refusedWith, meanwhile, on, retried, reply>>
vars == <<cache, service, connection, requests>>

Silence == [status |-> "none", offer |-> None]

Init ==
    /\ vended = None /\ usable = FALSE /\ priming = NoRequest
    /\ keyGood \in BOOLEAN
    /\ issued = 0 /\ revoked = {} /\ acted = [r \in Requests |-> 0]
    /\ h2 = None /\ h2Unavailable \in BOOLEAN
    /\ session = [s \in Sessions |-> "none"]
    /\ refd = {} /\ closing = {} /\ idleChecks = {} /\ inflight = 0
    /\ pc = [r \in Requests |-> "idle"]
    /\ presented = [r \in Requests |-> Key]
    /\ bearer = [r \in Requests |-> Key]
    /\ refusedWith = [r \in Requests |-> Key]
    /\ meanwhile = {}
    /\ on = [r \in Requests |-> None]
    /\ retried = {}
    /\ reply = [r \in Requests |-> Silence]

----------------------------------------------------------------------------
\* The credential.

Bearer == IF vended # None /\ usable THEN vended ELSE Key
HasFastToken == Bearer # Key

Settled(r) == pc[r] \in {"done", "refused", "failed"}
Riding(r) == pc[r] \in {"wire", "answered"}

\* The margin of the credential held runs out.
Expire ==
    /\ HasFastToken
    /\ usable' = FALSE
    /\ UNCHANGED <<vended, priming, service, connection, requests>>

Revoke(t) ==
    /\ t <= issued /\ t \notin revoked
    /\ revoked' = revoked \cup {t}
    /\ UNCHANGED <<cache, keyGood, issued, acted, connection, requests>>

\* absorb: an offer is taken, unless it has no usable life left.
Absorb(offer) ==
    \/ /\ offer # None
       /\ vended' = offer /\ usable' = TRUE
       /\ meanwhile' = meanwhile \cup {q \in Requests : pc[q] = "waiting"}
    \/ UNCHANGED <<vended, usable, meanwhile>>

----------------------------------------------------------------------------
\* The session.

Spare == {s \in Sessions : session[s] = "none"}
Live(s) == session[s] \in {"connecting", "open"}

\* What has been resolved and not yet acted upon.
Ready ==
    \/ \E s \in closing \cup idleChecks : session[s] # "connecting"
    \/ \E r \in Requests :
          \/ pc[r] = "waiting" /\ (on[r] = None \/ session[on[r]] # "connecting")
          \/ pc[r] = "retrying"

\* session(): none over fetch, the one there is, or a new one.
ObtainSession(s) ==
    \/ /\ h2Unavailable
       /\ s = None
       /\ UNCHANGED <<h2, session, refd>>
    \/ /\ ~h2Unavailable /\ h2 # None
       /\ s = h2
       /\ UNCHANGED <<h2, session, refd>>
    \/ /\ ~h2Unavailable /\ h2 = None
       /\ s \in Spare /\ \A k \in Spare : s <= k
       /\ h2' = s
       /\ session' = [session EXCEPT ![s] = "connecting"]
       /\ refd' = refd \cup {s}

\* warm(): a session ahead of the first request.
Warm ==
    /\ \E s \in Sessions : ObtainSession(s)
    /\ UNCHANGED <<cache, service, h2Unavailable, closing, idleChecks, inflight, requests>>

\* Mutant: whichever session there is goes when any session does.
ForgetAny(s) == h2' = None

Forget(s) == h2' = IF h2 = s THEN None ELSE h2

Connect(s) ==
    /\ ~Ready
    /\ session[s] = "connecting"
    /\ session' = [session EXCEPT ![s] = "open"]
    /\ refd' = IF inflight = 0 THEN refd \ {s} ELSE refd
    /\ UNCHANGED <<cache, service, h2, h2Unavailable, closing, idleChecks, inflight, requests>>

\* giveUp: an error before the connection, or connectTimeout.
GiveUp(s) ==
    /\ ~Ready
    /\ session[s] = "connecting"
    /\ session' = [session EXCEPT ![s] = "unopened"]
    /\ Forget(s)
    /\ h2Unavailable' = TRUE
    /\ refd' = refd \ {s}
    /\ UNCHANGED <<cache, service, closing, idleChecks, inflight, requests>>

\* error, close: the session is destroyed and its streams with it.
Lost(s) ==
    /\ ~Ready
    /\ session[s] = "open" /\ Spare # {}
    /\ session' = [session EXCEPT ![s] = "gone"]
    /\ Forget(s)
    /\ refd' = refd \ {s}
    /\ UNCHANGED <<cache, service, h2Unavailable, closing, idleChecks, inflight, requests>>

GoAway(s) ==
    /\ ~Ready
    /\ session[s] = "open" /\ Spare # {}
    /\ session' = [session EXCEPT ![s] = "closing"]
    /\ Forget(s)
    /\ UNCHANGED <<cache, service, h2Unavailable, refd, closing, idleChecks, inflight, requests>>

\* A closing session ends with its last stream.
Drained(s) ==
    /\ session[s] = "closing"
    /\ \A r \in Requests : Riding(r) => on[r] # s
    /\ session' = [session EXCEPT ![s] = "gone"]
    /\ Forget(s)
    /\ refd' = refd \ {s}
    /\ UNCHANGED <<cache, service, h2Unavailable, closing, idleChecks, inflight, requests>>

\* close(), at once for the next request, and for the session once it is opened.
Close ==
    /\ h2 # None /\ Spare # {}
    /\ closing' = closing \cup {h2}
    /\ h2' = None
    /\ UNCHANGED <<cache, service, h2Unavailable, session, refd, idleChecks, inflight, requests>>

CloseOpened(s) ==
    /\ s \in closing /\ session[s] # "connecting"
    /\ closing' = closing \ {s}
    /\ session' = [session EXCEPT ![s] = IF @ = "open" THEN "closing" ELSE @]
    /\ UNCHANGED <<cache, service, h2, h2Unavailable, refd, idleChecks, inflight, requests>>

\* The continuation of release, on the session that was current then.
UnrefIdle(s) ==
    /\ s \in idleChecks /\ session[s] # "connecting"
    /\ idleChecks' = idleChecks \ {s}
    /\ refd' = IF inflight = 0 THEN refd \ {s} ELSE refd
    /\ UNCHANGED <<cache, service, h2, h2Unavailable, session, closing, inflight, requests>>

----------------------------------------------------------------------------
\* A request.

\* attempt, up to the wait for the session.
Attempt(r) ==
    /\ \E s \in Sessions \cup {None} :
          /\ ObtainSession(s)
          /\ on' = [on EXCEPT ![r] = s]
    /\ inflight' = inflight + 1
    /\ pc' = [pc EXCEPT ![r] = "waiting"]
    /\ UNCHANGED <<h2Unavailable, closing, idleChecks>>

\* request: whether a signed credential will be presented is noted before the wait.
Begin(r) ==
    /\ pc[r] = "idle"
    /\ presented' = [presented EXCEPT ![r] = Bearer]
    /\ meanwhile' = meanwhile \ {r}
    /\ Attempt(r)
    /\ UNCHANGED <<vended, usable, service, bearer, refusedWith, retried, reply>>

Request(r) == Begin(r) /\ UNCHANGED priming

\* prime: the caller's own request, or the one under way.
Prime(r) ==
    /\ ~HasFastToken
    /\ priming = NoRequest
    /\ Begin(r)
    /\ priming' = r

JoinPrime(r) ==
    /\ pc[r] = "idle"
    /\ ~HasFastToken
    /\ priming # NoRequest
    /\ pc' = [pc EXCEPT ![r] = "joined"]
    /\ UNCHANGED <<cache, service, connection, presented, bearer, refusedWith, meanwhile, on, retried,
                   reply>>

\* The session is there, or is known not to be: the request is sent, with the bearer of now.
Send(r) ==
    /\ pc[r] = "waiting"
    /\ on[r] # None => session[on[r]] \in {"open", "unopened"}
    /\ refd' = IF on[r] # None /\ session[on[r]] = "open" THEN refd \cup {on[r]} ELSE refd
    /\ bearer' = [bearer EXCEPT ![r] = Bearer]
    /\ pc' = [pc EXCEPT ![r] = "wire"]
    /\ UNCHANGED <<cache, service, h2, h2Unavailable, session, closing, idleChecks, inflight,
                   presented, refusedWith, meanwhile, on, retried, reply>>

\* The service: a credential it does not accept is refused at the door; else it acts.
Serve(r) ==
    /\ pc[r] = "wire"
    /\ on[r] # None => session[on[r]] # "gone"
    /\ pc' = [pc EXCEPT ![r] = "answered"]
    /\ IF bearer[r] \in revoked \/ (bearer[r] = Key /\ ~keyGood)
       THEN /\ reply' = [reply EXCEPT ![r] = [status |-> "401", offer |-> None]]
            /\ UNCHANGED <<acted, issued>>
       ELSE /\ acted' = [acted EXCEPT ![r] = @ + 1]
            /\ \E status \in {"2xx", "error"}, n \in {issued, issued + 1} :
                  /\ n > issued => bearer[r] = Key /\ n <= MaxTokens
                  /\ issued' = n
                  /\ reply' = [reply EXCEPT ![r] =
                        [status |-> status, offer |-> IF n > issued THEN n ELSE None]]
    /\ UNCHANGED <<cache, keyGood, revoked, connection, presented, bearer, refusedWith,
                   meanwhile, on, retried>>

\* Mutant: release unreferences the session the request rode, and no other.
ReleaseUsed(r) ==
    /\ inflight' = inflight - 1
    /\ refd' = IF inflight = 1 THEN refd \ {on[r]} ELSE refd
    /\ UNCHANGED idleChecks

\* release: at zero, the session it rode and, as soon as it is open, the current one.
Release(r) ==
    /\ inflight' = inflight - 1
    /\ refd' = IF inflight = 1 /\ Riding(r) THEN refd \ {on[r]} ELSE refd
    /\ idleChecks' = IF inflight = 1 /\ h2 # None THEN idleChecks \cup {h2} ELSE idleChecks

\* Mutant: the entry of the prime is left behind.
StillPriming(r) == UNCHANGED priming

EndPrime(r) == priming' = IF priming = r THEN NoRequest ELSE priming

\* Mutant: any attempt that fails is made once more.
AfterAnyFailure(r, status) == presented[r] # Key /\ status # "2xx" /\ r \notin retried

RetriesAfter(r, status) == presented[r] # Key /\ status = "401" /\ r \notin retried

Outcome(status) ==
    CASE status = "2xx" -> "done" [] status = "401" -> "refused" [] OTHER -> "failed"

\* The attempt ends: another is due, or the request is settled, and the callers it primed for.
End(r, status) ==
    /\ IF RetriesAfter(r, status)
       THEN pc' = [pc EXCEPT ![r] = "retrying"] /\ UNCHANGED priming
       ELSE /\ pc' = [q \in Requests |->
                         CASE q = r -> Outcome(status)
                           [] priming = r /\ pc[q] = "joined" -> "done"
                           [] OTHER -> pc[q]]
            /\ EndPrime(r)
    /\ Release(r)
    /\ reply' = [reply EXCEPT ![r] = Silence]
    /\ UNCHANGED <<service, h2, h2Unavailable, session, closing, presented, bearer, refusedWith,
                   on, retried>>

Receive(r) ==
    /\ ~Ready
    /\ pc[r] = "answered"
    /\ on[r] # None => session[on[r]] # "gone"
    /\ Absorb(reply[r].offer)
    /\ End(r, reply[r].status)

\* A stream or a fetch that breaks, whether or not the service has acted.
Break(r) ==
    /\ ~Ready
    /\ Riding(r)
    /\ End(r, "broken")
    /\ UNCHANGED <<vended, usable, meanwhile>>

\* session.request on a session that ended while the request waited.  The reference it
\* takes first goes with that session.
Unsent(r) ==
    /\ pc[r] = "waiting"
    /\ on[r] # None /\ session[on[r]] \in {"closing", "gone"}
    /\ End(r, "broken")
    /\ UNCHANGED <<vended, usable, meanwhile>>

UnderDeadline(r) == pc[r] = "waiting" \/ Riding(r)

\* The caller's signal or the deadline, in the wait as on the wire.
Abort(r) ==
    /\ UnderDeadline(r)
    /\ End(r, "aborted")
    /\ UNCHANGED <<vended, usable, meanwhile>>

\* Mutant: the credential that was refused is kept.
KeepVended == UNCHANGED vended

DropVended == vended' = None

Retry(r) ==
    /\ pc[r] = "retrying"
    /\ DropVended
    /\ retried' = retried \cup {r}
    /\ refusedWith' = [refusedWith EXCEPT ![r] = bearer[r]]
    /\ presented' = [presented EXCEPT ![r] = Key]
    /\ meanwhile' = meanwhile \ {r}
    /\ Attempt(r)
    /\ UNCHANGED <<usable, priming, service, bearer, reply>>

----------------------------------------------------------------------------
SessionStep(s) ==
    Connect(s) \/ GiveUp(s) \/ CloseOpened(s) \/ UnrefIdle(s) \/ Drained(s)

RequestStep(r) ==
    Send(r) \/ Unsent(r) \/ Retry(r) \/ Abort(r)

Next ==
    \/ \E s \in Sessions : SessionStep(s) \/ Lost(s) \/ GoAway(s)
    \/ \E r \in Requests :
          RequestStep(r) \/ Request(r) \/ Prime(r) \/ JoinPrime(r) \/ Serve(r) \/ Receive(r) \/ Break(r)
    \/ \E t \in Tokens : Revoke(t)
    \/ Expire \/ Warm \/ Close

\* Microtasks run, and the connection timeout and the deadline of a request expire.
Spec ==
    /\ Init /\ [][Next]_vars
    /\ \A s \in Sessions : WF_vars(SessionStep(s))
    /\ \A r \in Requests : WF_vars(RequestStep(r))

----------------------------------------------------------------------------
Statuses == {"none", "2xx", "401", "error"}

\* Type correctness: inflight counts the attempts under way, and nothing else does.
TypeOK ==
    /\ vended \in {None} \cup Tokens /\ usable \in BOOLEAN
    /\ priming \in Requests \cup {NoRequest}
    /\ keyGood \in BOOLEAN /\ issued \in 0..MaxTokens /\ revoked \subseteq Tokens
    /\ acted \in [Requests -> Nat]
    /\ h2 \in {None} \cup Sessions /\ h2Unavailable \in BOOLEAN
    /\ session \in [Sessions -> {"none", "connecting", "open", "closing", "unopened", "gone"}]
    /\ refd \subseteq Sessions /\ closing \subseteq Sessions /\ idleChecks \subseteq Sessions
    /\ pc \in [Requests -> {"idle", "joined", "waiting", "wire", "answered", "retrying",
                             "done", "refused", "failed"}]
    /\ presented \in [Requests -> {Key} \cup Tokens]
    /\ bearer \in [Requests -> {Key} \cup Tokens]
    /\ refusedWith \in [Requests -> {Key} \cup Tokens]
    /\ meanwhile \subseteq Requests
    /\ on \in [Requests -> {None} \cup Sessions]
    /\ retried \subseteq Requests
    /\ reply \in [Requests -> [status : Statuses, offer : {None} \cup Tokens]]
    /\ inflight = Cardinality({r \in Requests : pc[r] = "waiting" \/ Riding(r)})

\* "a 401 is refused at the door: the request had no effect, so there is nothing to
\* duplicate" (client.ts:545): the service acts on a request once at most, although it may
\* be sent twice and its answers be lost.
ActedOnAtMostOnce == \A r \in Requests : acted[r] <= 1

\* A 401 that reaches the caller is the API key's own, in the first attempt and in the
\* retry, whatever expires, is revoked or absorbed on the way.  The one exception is an
\* attempt that began without a signed credential and presented one that came into the
\* cache while it waited for its session (client.ts:547 reads the cache before the wait,
\* :637 and :666 after it).
RefusalIsTheKeys ==
    \A r \in Requests : pc[r] = "refused" => bearer[r] = Key \/ r \in meanwhile

\* A credential that was refused and caused a retry is not presented again by it
\* (client.ts:552), whatever others absorb meanwhile.
RetriesWithAnother ==
    \A r \in retried :
        Riding(r) => bearer[r] = Key \/ bearer[r] # refusedWith[r]

\* What becomes of a 401: the caller's, or a retry's with something else.
RefusalsAreRetried == RefusalIsTheKeys /\ RetriesWithAnother

\* "an idle session never keeps a process alive that has nothing left to do" (client.ts:321),
\* through sessions that are opened, go away and are replaced under requests.
IdleIsUnreferenced ==
    inflight = 0 /\ ~Ready => \A s \in refd : session[s] # "open"

\* A session that is open and forgotten is about to be closed: no session leaks, whichever
\* of an earlier session's events come late (client.ts:456).
NoSessionLeaks ==
    \A s \in Sessions : Live(s) => s = h2 \/ s \in closing

\* Every request is settled, the wait for a session that never opens included
\* (client.ts:583).
RequestsSettle == \A r \in Requests : pc[r] # "idle" ~> Settled(r)
=============================================================================
