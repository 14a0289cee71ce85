---------------------------- MODULE PubSubClient -----------------------------
(***************************************************************************)
(* EventsPubSubClient (events/src/pubsub.ts): one subscription over a TCP  *)
(* connection that is opened again when it is lost.                        *)
(*                                                                         *)
(* The handlers of every socket ever opened act on the one state of the    *)
(* client.  A handler runs to its end together with the continuations of   *)
(* the promise it settles, which no other event can precede.  A socket's   *)
(* close event comes in a later phase of the event loop than whatever      *)
(* destroyed it.  Listeners of the client's events do not call back.       *)
(***************************************************************************)
EXTENDS FiniteSets

CONSTANTS
    Socks,            \* sockets; a closed one whose promise is settled is used again
    None,             \* null
    Worlds            \* the worlds to consider: what may go wrong in each, and whether its
                      \* caller is hasty and connects again before a close event that is due

\* refuse: a dial, or the wait for the answer to the subscription, fails with an error.
\* close: a subscribed connection ends.  reset: it ends with an error.
\* hangup: a connection ends before its subscription is answered.  deny: the subscription is
\* answered -ERR.  split: a connection ends in the middle of a line.  flood: a line without
\* an end grows past MAX_BUFFER_SIZE.
Fault == {"refuse", "close", "reset", "hangup", "deny", "split", "flood"}

World == [faults: SUBSET Fault, hasty: BOOLEAN]

ASSUME PubSubAssumption == None \notin Socks /\ Worlds \subseteq World

VARIABLES
    env,              \* the world this is
    state,
    socket,
    connectionPromise, \* the socket whose opening it stands for
    partial,          \* whether `buffer` holds the beginning of a line
    autoReconnect,
    reconnectTimer,   \* whether it is set
    retrying,         \* the sockets a reconnect timer's callback awaits
    sock,             \* each socket: dialing, open, destroyed with its close event to come...
    asked,            \* whether SUBSCRIBE reached the server
    subscribed,       \* whether the server answered +OK
    settled,          \* the promise of its opening
    left,             \* history: the last call of the caller was disconnect
    wasUp             \* history: the client has been connected

client == <<state, socket, connectionPromise, autoReconnect>>
network == <<asked, subscribed>>
history == <<left, wasUp>>
vars == <<env, client, partial, reconnectTimer, retrying, sock, network, settled, history>>

Init ==
    /\ env \in Worlds
    /\ state = "disconnected"
    /\ socket = None
    /\ connectionPromise = None
    /\ partial = FALSE
    /\ autoReconnect \in BOOLEAN
    /\ reconnectTimer = FALSE
    /\ retrying = {}
    /\ sock = [k \in Socks |-> "none"]
    /\ asked = [k \in Socks |-> FALSE]
    /\ subscribed = [k \in Socks |-> FALSE]
    /\ settled = [k \in Socks |-> "none"]
    /\ left = FALSE
    /\ wasUp = FALSE

Live(k) == sock[k] \in {"dialing", "open"}

CloseIsDue == \E k \in Socks : sock[k] = "destroyed"

Free(k) == sock[k] \in {"none", "closed"} /\ settled[k] # "pending"

----------------------------------------------------------------------------
\* connect

\* The branch that opens a socket.
Dial(k) ==
    /\ Free(k)
    /\ state' = "connecting"
    /\ socket' = k
    /\ connectionPromise' = k
    /\ sock' = [sock EXCEPT ![k] = "dialing"]
    /\ asked' = [asked EXCEPT ![k] = FALSE]
    /\ subscribed' = [subscribed EXCEPT ![k] = FALSE]
    /\ settled' = [settled EXCEPT ![k] = "pending"]

\* Mutant: an opening in progress is not looked for.
MustDialAlways == state # "connected"

\* Neither connected nor in progress.
MustDial == state # "connected" /\ connectionPromise = None

\* The caller's connect that opens a socket; one that does not changes nothing.
Connect ==
    /\ env.hasty \/ ~CloseIsDue
    /\ MustDial
    /\ \E k \in Socks : Dial(k)
    /\ left' = FALSE
    /\ UNCHANGED <<env, partial, autoReconnect, reconnectTimer, retrying, wasUp>>

\* The timer's callback up to its await.  Timers come after the close events of whatever a turn
\* of the event loop has destroyed.
Reconnect ==
    /\ reconnectTimer /\ ~CloseIsDue
    /\ reconnectTimer' = FALSE
    /\ \/ /\ MustDial
          /\ \E k \in Socks : Dial(k) /\ retrying' = retrying \cup {k}
          /\ UNCHANGED autoReconnect
       \/ /\ ~MustDial
          /\ retrying' = IF state = "connected" THEN retrying ELSE retrying \cup {connectionPromise}
          /\ UNCHANGED <<client, sock, network, settled>>
    /\ UNCHANGED <<env, partial, history>>

\* Mutant: a lost connection stays lost.
NeverAgain == UNCHANGED reconnectTimer

scheduleReconnect == reconnectTimer' = (reconnectTimer \/ autoReconnect)

\* What follows the end of a promise that is pending: the finally of connect and the
\* continuation of the timer's callback.
Resolve(k) ==
    /\ settled' = [settled EXCEPT ![k] = "resolved"]
    /\ connectionPromise' = None
    /\ retrying' = retrying \ {k}

Reject(k) ==
    /\ settled' = [settled EXCEPT ![k] = "rejected"]
    /\ connectionPromise' = None
    /\ retrying' = retrying \ {k}
    /\ IF k \in retrying THEN scheduleReconnect ELSE UNCHANGED reconnectTimer

----------------------------------------------------------------------------
\* disconnect

\* Mutant: the timer stays set.
KeepTimer == UNCHANGED reconnectTimer

clearReconnectTimer == reconnectTimer' = FALSE

Disconnect ==
    /\ ~left
    /\ autoReconnect' = FALSE
    /\ clearReconnectTimer
    /\ sock' = IF socket = None THEN sock ELSE [sock EXCEPT ![socket] = "destroyed"]
    /\ socket' = None
    /\ state' = "disconnected"
    /\ left' = TRUE
    /\ UNCHANGED <<env, connectionPromise, partial, retrying, network, settled, wasUp>>

----------------------------------------------------------------------------
\* The handlers of socket k.

\* The connection is made: SUBSCRIBE goes to the current socket, if there is one.
Opened(k) ==
    /\ sock[k] = "dialing"
    /\ sock' = [sock EXCEPT ![k] = "open"]
    /\ asked' = IF socket = None THEN asked ELSE [asked EXCEPT ![socket] = TRUE]
    /\ UNCHANGED <<env, client, partial, reconnectTimer, retrying, subscribed, settled, history>>

\* Mutant: the state is left as it was.
ForgetSocket == socket' = None /\ connectionPromise' = None /\ UNCHANGED state

Forget == socket' = None /\ connectionPromise' = None /\ state' = "disconnected"

\* "close": the socket may be of the past, the state it resets is the client's.
Closed(k) ==
    /\ sock[k] = "destroyed"
    /\ sock' = [sock EXCEPT ![k] = "closed"]
    /\ Forget
    /\ IF state = "connected" THEN scheduleReconnect ELSE UNCHANGED reconnectTimer
    /\ UNCHANGED <<env, autoReconnect, partial, retrying, network, settled, history>>

\* "error": the socket is destroyed, and stays the client's until its close event.
Failed(k) ==
    /\ Live(k)
    /\ IF subscribed[k] THEN "reset" \in env.faults ELSE "refuse" \in env.faults
    /\ sock' = [sock EXCEPT ![k] = "destroyed"]
    /\ state' = "error"
    /\ connectionPromise' = None
    /\ IF settled[k] = "pending"
       THEN Reject(k)
       ELSE UNCHANGED <<settled, retrying, reconnectTimer>>
    /\ UNCHANGED <<env, socket, autoReconnect, partial, network, history>>

\* The other side ends the connection.
HungUp(k) ==
    /\ sock[k] = "open"
    /\ \/ subscribed[k] /\ "close" \in env.faults
       \/ ~subscribed[k] /\ "hangup" \in env.faults
    /\ sock' = [sock EXCEPT ![k] = "destroyed"]
    /\ UNCHANGED <<env, client, partial, reconnectTimer, retrying, network, settled, history>>

----------------------------------------------------------------------------
\* handleData: lines that socket k brings.  A line that begins in the buffer of an earlier
\* connection is none the client knows.

Answers(k) == sock[k] = "open" /\ asked[k] /\ ~subscribed[k]

SubscribeOK(k) ==
    /\ Answers(k)
    /\ subscribed' = [subscribed EXCEPT ![k] = TRUE]
    /\ partial' = FALSE
    /\ IF state = "connecting" /\ ~partial
       THEN /\ state' = "connected"
            /\ wasUp' = TRUE
            /\ Resolve(k)
       ELSE UNCHANGED <<state, wasUp, settled, connectionPromise, retrying>>
    /\ UNCHANGED <<env, socket, autoReconnect, reconnectTimer, sock, asked, left>>

\* -ERR leaves the state and the socket as they are.
SubscribeERR(k) ==
    /\ Answers(k)
    /\ "deny" \in env.faults
    /\ asked' = [asked EXCEPT ![k] = FALSE]
    /\ partial' = FALSE
    /\ IF state = "connecting" /\ ~partial /\ settled[k] = "pending"
       THEN Reject(k)
       ELSE UNCHANGED <<settled, connectionPromise, retrying, reconnectTimer>>
    /\ UNCHANGED <<env, state, socket, autoReconnect, sock, subscribed, history>>

\* A part of a line, and the rest of it.
BeginLine(k) ==
    /\ sock[k] = "open" /\ subscribed[k]
    /\ "split" \in env.faults
    /\ ~partial
    /\ partial' = TRUE
    /\ UNCHANGED <<env, client, reconnectTimer, retrying, sock, network, settled, history>>

EndLine(k) ==
    /\ sock[k] = "open" /\ subscribed[k]
    /\ partial
    /\ partial' = FALSE
    /\ UNCHANGED <<env, client, reconnectTimer, retrying, sock, network, settled, history>>

\* The buffer overflows: the current socket is destroyed, whichever brought the data.
Overflow(k) ==
    /\ sock[k] = "open" /\ subscribed[k]
    /\ "flood" \in env.faults
    /\ sock' = IF socket = None THEN sock ELSE [sock EXCEPT ![socket] = "destroyed"]
    /\ partial' = FALSE
    /\ \/ settled[k] = "pending" /\ Reject(k)
       \/ settled[k] # "pending" /\ UNCHANGED <<settled, connectionPromise, retrying, reconnectTimer>>
    /\ UNCHANGED <<env, state, socket, autoReconnect, network, history>>

----------------------------------------------------------------------------
Caller == Connect \/ Disconnect

Lines(k) == SubscribeOK(k) \/ SubscribeERR(k) \/ BeginLine(k) \/ EndLine(k) \/ Overflow(k)

Next ==
    \/ Caller
    \/ Reconnect
    \/ \E k \in Socks : Opened(k) \/ Closed(k) \/ Failed(k) \/ HungUp(k) \/ Lines(k)

Spec == Init /\ [][Next]_vars

\* Timers fire, and close events come.  A timer that is due may find a close event due again
\* and again, and is not kept waiting forever.  The server can be reached and subscribed to
\* again and again, not always.
FairSpec ==
    /\ Spec
    /\ SF_vars(Reconnect)
    /\ \A k \in Socks : WF_vars(Closed(k)) /\ SF_vars(Opened(k)) /\ SF_vars(SubscribeOK(k))

----------------------------------------------------------------------------
\* The type invariant; a timer's callback awaits only a promise that is pending
\* (pubsub.ts:259-266).
TypeOK ==
    /\ env \in World
    /\ state \in {"disconnected", "connecting", "connected", "error"}
    /\ socket \in Socks \cup {None}
    /\ connectionPromise \in Socks \cup {None}
    /\ partial \in BOOLEAN
    /\ autoReconnect \in BOOLEAN
    /\ reconnectTimer \in BOOLEAN
    /\ retrying \subseteq {k \in Socks : settled[k] = "pending"}
    /\ sock \in [Socks -> {"none", "dialing", "open", "destroyed", "closed"}]
    /\ asked \in [Socks -> BOOLEAN]
    /\ subscribed \in [Socks -> BOOLEAN]
    /\ settled \in [Socks -> {"none", "pending", "resolved", "rejected"}]
    /\ left \in BOOLEAN
    /\ wasUp \in BOOLEAN

\* Worlds where the server denies nobody and the caller lets a close event come before it
\* connects again; and those where a connection ends only after its subscription, without an
\* error and at the end of a line.
Orderly == ~env.hasty /\ "deny" \notin env.faults
Gentle == Orderly /\ env.faults \cap {"reset", "hangup", "split"} = {}

\* In every world, a hasty caller's too, a client that says it is connected hears one of its
\* sockets, whichever sockets of the past still close, fail or answer (pubsub.ts:102-106, 208).
SomeSocketIsHeard ==
    state = "connected" => \E k \in Socks : subscribed[k] /\ sock[k] \in {"open", "destroyed"}

\* In an orderly world it is the socket the client holds.
HeldSocketIsHeard == Orderly /\ state = "connected" => socket # None /\ subscribed[socket]

ConnectedIsSubscribed == SomeSocketIsHeard /\ HeldSocketIsHeard

\* In an orderly world no connection lives that the client does not hold and could not close,
\* although the handlers of a socket forget whichever socket the client holds (pubsub.ts:81,
\* 95-106): the one that failed stays the client's until it has closed.
NoStraySocket == Orderly => \A k \in Socks : Live(k) => socket = k

\* After disconnect no connection is opened until the caller connects again, in any world and
\* also when a reconnect was under way (pubsub.ts:126, 255).
QuietAfterDisconnect ==
    [][left /\ left' => \A k \in Socks : sock'[k] = "dialing" => sock[k] = "dialing"]_vars

\* A client that was connected and is no more is connected again, unless the caller
\* disconnects, however often dials are refused and connections end (pubsub.ts:108-110, 263).
ReconnectsAfterClose == Gentle => ((wasUp /\ autoReconnect) ~> (state = "connected" \/ ~autoReconnect))

\* events/README.md:96: a client that is disconnected "will auto-reconnect", in any world.
AutoReconnects == (wasUp /\ autoReconnect) ~> (state = "connected" \/ ~autoReconnect)
=============================================================================
