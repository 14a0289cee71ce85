------------------------- MODULE PubSubClientProofs --------------------------
(***************************************************************************)
(* Theorems about EventsPubSubClient, for any sockets and any worlds.      *)
(***************************************************************************)
EXTENDS PubSubClient, TLAPS

\* The type invariant is not inductive: the timer's callback adds the socket of an opening in
\* progress to those it awaits, which has to be pending.
OpeningIsPending == connectionPromise # None => settled[connectionPromise] = "pending"

TypeInv == TypeOK /\ OpeningIsPending

LEMMA TypeInit == Init => TypeInv
BY PubSubAssumption DEF Init, TypeInv, TypeOK, OpeningIsPending, World, PubSubAssumption

\* Dial opens a socket whose promise nobody awaits.
LEMMA DialTypes ==
    ASSUME TypeInv, NEW k \in Socks, Dial(k)
    PROVE  /\ state' = "connecting" /\ socket' = k /\ connectionPromise' = k
           /\ sock' \in [Socks -> {"none", "dialing", "open", "destroyed", "closed"}]
           /\ asked' \in [Socks -> BOOLEAN]
           /\ subscribed' \in [Socks -> BOOLEAN]
           /\ settled' \in [Socks -> {"none", "pending", "resolved", "rejected"}]
           /\ settled'[k] = "pending"
           /\ retrying \subseteq {j \in Socks : settled'[j] = "pending"}
BY DEF Dial, TypeInv, TypeOK

LEMMA TypeStep == TypeInv /\ [Next]_vars => TypeInv'
<1> SUFFICES ASSUME TypeInv, [Next]_vars PROVE TypeInv'
    OBVIOUS
<1> USE PubSubAssumption
        DEF PubSubAssumption, TypeInv, TypeOK, OpeningIsPending, client, network, history
<1>1. CASE Connect
    <2>1. PICK k \in Socks : Dial(k)
        BY <1>1 DEF Connect
    <2> QED
        BY <1>1, <2>1, DialTypes DEF Connect
<1>2. CASE Disconnect
    BY <1>2 DEF Disconnect, clearReconnectTimer
<1>3. CASE Reconnect
    <2>1. ASSUME NEW k \in Socks, Dial(k), retrying' = retrying \cup {k} PROVE TypeInv'
        BY <1>3, <2>1, DialTypes DEF Reconnect
    <2>2. CASE UNCHANGED <<client, sock, network, settled>> /\ ~MustDial
        BY <1>3, <2>2 DEF Reconnect, MustDial
    <2> QED
        BY <1>3, <2>1, <2>2 DEF Reconnect
<1>4. ASSUME NEW k \in Socks, Opened(k) PROVE TypeInv'
    BY <1>4 DEF Opened
<1>5. ASSUME NEW k \in Socks, Closed(k) PROVE TypeInv'
    BY <1>5 DEF Closed, Forget, scheduleReconnect
<1>6. ASSUME NEW k \in Socks, Failed(k) PROVE TypeInv'
    BY <1>6 DEF Failed, Reject, scheduleReconnect
<1>7. ASSUME NEW k \in Socks, HungUp(k) PROVE TypeInv'
    BY <1>7 DEF HungUp
<1>8. ASSUME NEW k \in Socks, Lines(k) PROVE TypeInv'
    <2>1. CASE SubscribeOK(k)
        <3>1. CASE state = "connecting" /\ ~partial
            <4>1. \A j \in Socks : j # k => settled'[j] = settled[j]
                BY <2>1, <3>1 DEF SubscribeOK, Resolve
            <4>2. retrying' \subseteq {j \in Socks : settled'[j] = "pending"}
                BY <2>1, <3>1, <4>1 DEF SubscribeOK, Resolve
            <4>3. settled' \in [Socks -> {"none", "pending", "resolved", "rejected"}]
                BY <2>1, <3>1 DEF SubscribeOK, Resolve
            <4>4. subscribed' \in [Socks -> BOOLEAN]
                BY <2>1 DEF SubscribeOK
            <4> QED
                BY <2>1, <3>1, <4>2, <4>3, <4>4 DEF SubscribeOK, Resolve
        <3>2. CASE ~(state = "connecting" /\ ~partial)
            BY <2>1, <3>2 DEF SubscribeOK
        <3> QED
            BY <3>1, <3>2
    <2>2. CASE SubscribeERR(k)
        <3>1. asked' \in [Socks -> BOOLEAN]
            BY <2>2 DEF SubscribeERR
        <3>2. UNCHANGED <<env, state, socket, autoReconnect, sock, subscribed, left, wasUp>>
            BY <2>2 DEF SubscribeERR
        <3>3. partial' = FALSE
            BY <2>2 DEF SubscribeERR
        <3>4. CASE Reject(k)
            BY <3>1, <3>2, <3>3, <3>4 DEF Reject, scheduleReconnect
        <3>5. CASE UNCHANGED <<settled, connectionPromise, retrying, reconnectTimer>>
            BY <3>1, <3>2, <3>3, <3>5
        <3> QED
            BY <2>2, <3>4, <3>5 DEF SubscribeERR
    <2>3. CASE BeginLine(k)
        BY <2>3 DEF BeginLine
    <2>4. CASE EndLine(k)
        BY <2>4 DEF EndLine
    <2>5. CASE Overflow(k)
        BY <2>5 DEF Overflow, Reject, scheduleReconnect
    <2> QED
        BY <1>8, <2>1, <2>2, <2>3, <2>4, <2>5 DEF Lines
<1>9. CASE UNCHANGED vars
    BY <1>9 DEF vars
<1> QED
    BY <1>1, <1>2, <1>3, <1>4, <1>5, <1>6, <1>7, <1>8, <1>9 DEF Next, Caller

\* The variables keep their types, and a timer's callback awaits only an opening that is not
\* settled (pubsub.ts:259-266), for any number of sockets and in any worlds.
THEOREM PubSubTypeCorrect == Spec => []TypeOK
<1>1. TypeInv => TypeOK
    BY DEF TypeInv
<1> QED
    BY TypeInit, TypeStep, <1>1, PTL DEF Spec

----------------------------------------------------------------------------
\* Quiet after disconnect.  Disconnect clears the timer and the flag; afterwards only a
\* rejected opening or a late close event could set the timer, and both look at the flag.
LeftForGood == left => ~autoReconnect /\ ~reconnectTimer

QuietInv == TypeInv /\ LeftForGood

LEMMA QuietStep ==
    ASSUME QuietInv, [Next]_vars
    PROVE  /\ LeftForGood'
           /\ left /\ left' => \A j \in Socks : sock'[j] = "dialing" => sock[j] = "dialing"
<1> DEFINE Quiet == left /\ left' => \A j \in Socks : sock'[j] = "dialing" => sock[j] = "dialing"
<1> USE DEF QuietInv, TypeInv, TypeOK, LeftForGood, client, network, history
<1>1. CASE Connect
    BY <1>1 DEF Connect
<1>2. CASE Disconnect
    BY <1>2 DEF Disconnect, clearReconnectTimer
<1>3. CASE Reconnect
    BY <1>3 DEF Reconnect, Dial
<1>4. ASSUME NEW k \in Socks, Opened(k) \/ Closed(k) \/ Failed(k) \/ HungUp(k)
      PROVE  LeftForGood' /\ Quiet
    <2>1. CASE Opened(k)
        BY <2>1 DEF Opened
    <2>2. CASE Closed(k)
        BY <2>2 DEF Closed, Forget, scheduleReconnect
    <2>3. CASE Failed(k)
        BY <2>3 DEF Failed, Reject, scheduleReconnect
    <2>4. CASE HungUp(k)
        BY <2>4 DEF HungUp
    <2> QED
        BY <1>4, <2>1, <2>2, <2>3, <2>4
<1>5. ASSUME NEW k \in Socks, Lines(k) PROVE LeftForGood' /\ Quiet
    <2>1. CASE SubscribeOK(k)
        BY <2>1 DEF SubscribeOK, Resolve
    <2>2. CASE SubscribeERR(k)
        BY <2>2 DEF SubscribeERR, Reject, scheduleReconnect
    <2>3. CASE BeginLine(k) \/ EndLine(k)
        BY <2>3 DEF BeginLine, EndLine
    <2>4. CASE Overflow(k)
        BY <2>4 DEF Overflow, Reject, scheduleReconnect
    <2> QED
        BY <1>5, <2>1, <2>2, <2>3, <2>4 DEF Lines
<1>6. CASE UNCHANGED vars
    BY <1>6 DEF vars
<1> QED
    BY <1>1, <1>2, <1>3, <1>4, <1>5, <1>6 DEF Next, Caller

\* After disconnect no connection is opened until the caller connects again, for any number
\* of sockets and in any worlds: neither the reconnect timer nor the callback of one that had
\* fired before opens another (pubsub.ts:124-130, 255-266).
THEOREM DisconnectIsQuiet == Spec => QuietAfterDisconnect
<1>1. Init => QuietInv
    BY TypeInit DEF QuietInv, LeftForGood, Init
<1>2. QuietInv /\ [Next]_vars => QuietInv'
    BY TypeStep, QuietStep DEF QuietInv
<1>3. QuietInv /\ [Next]_vars
        => [left /\ left' => \A k \in Socks : sock'[k] = "dialing" => sock[k] = "dialing"]_vars
    BY QuietStep
<1> QED
    BY <1>1, <1>2, <1>3, PTL DEF Spec, QuietAfterDisconnect

----------------------------------------------------------------------------
\* One socket in an orderly world.  A socket whose close event is to come is still the
\* client's, if it failed or was ended, or was let go of by disconnect; in both cases no other
\* is opened before the event, so that what its handler forgets is nothing.
DueIsHeldOrLeft ==
    \A k \in Socks : sock[k] = "destroyed" =>
        \/ socket = k
        \/ left /\ state = "disconnected" /\ socket = None

\* What the state says of the socket.
Disconnected == state = "disconnected" => socket = None
Erring == state = "error" => socket # None /\ sock[socket] = "destroyed"
Connecting ==
    state = "connecting" =>
        /\ socket # None /\ sock[socket] \in {"dialing", "open", "destroyed"}
        /\ connectionPromise = socket \/ sock[socket] = "destroyed"
Connected ==
    state = "connected" =>
        /\ socket # None /\ sock[socket] \in {"open", "destroyed"}
        /\ subscribed[socket]

StatesMean == Disconnected /\ Erring /\ Connecting /\ Connected

OneSocket == DueIsHeldOrLeft /\ StatesMean /\ NoStraySocket

OrderlyInv == Orderly => OneSocket

\* Only a client whose sockets have all been closed opens one.
LEMMA DialStep ==
    ASSUME QuietInv, Orderly, OrderlyInv, MustDial, ~CloseIsDue, NEW k \in Socks, Dial(k),
           env' = env
    PROVE  OneSocket'
<1> USE PubSubAssumption DEF QuietInv, TypeInv, TypeOK, OpeningIsPending, OrderlyInv, OneSocket, StatesMean
<1>1. \A j \in Socks : sock[j] # "destroyed"
    BY DEF CloseIsDue
<1>2. state = "disconnected" /\ socket = None
    BY <1>1 DEF MustDial, Connecting, Disconnected, Erring
<1>3. \A j \in Socks : sock[j] \notin {"dialing", "open", "destroyed"}
    BY <1>1, <1>2 DEF NoStraySocket, Live
<1>4. /\ state' = "connecting" /\ socket' = k /\ connectionPromise' = k
      /\ sock'[k] = "dialing" /\ \A j \in Socks \ {k} : sock'[j] = sock[j]
    BY DEF Dial
<1>5. DueIsHeldOrLeft' /\ StatesMean'
    BY <1>3, <1>4 DEF DueIsHeldOrLeft, Disconnected, Erring, Connecting, Connected
<1>6. NoStraySocket'
    BY <1>3, <1>4 DEF NoStraySocket, Live
<1> QED
    BY <1>5, <1>6

LEMMA OrderlyStep ==
    ASSUME QuietInv, OrderlyInv, [Next]_vars
    PROVE  OrderlyInv'
<1>0. env' = env
    BY DEF Next, Caller, Connect, Disconnect, Reconnect, Opened, Closed, Failed, HungUp, Lines,
           SubscribeOK, SubscribeERR, BeginLine, EndLine, Overflow, vars
<1> SUFFICES ASSUME Orderly PROVE OneSocket'
    BY <1>0 DEF OrderlyInv, Orderly
<1> USE PubSubAssumption
        DEF QuietInv, TypeInv, TypeOK, LeftForGood, client, network, history
<1>1. DueIsHeldOrLeft /\ Disconnected /\ Erring /\ Connecting /\ Connected /\ NoStraySocket
    BY DEF OrderlyInv, OneSocket, StatesMean
<1>2. \A k \in Socks : Live(k) => socket = k
    BY <1>1 DEF NoStraySocket
<1>3. \A k \in Socks : Live(k) /\ state # "connected" => state = "connecting"
    BY <1>1, <1>2 DEF Disconnected, Erring, Live
<1>4. "deny" \notin env.faults /\ ~env.hasty
    BY DEF Orderly
\* Nothing that this is about has changed.
<1>5. ASSUME UNCHANGED <<state, socket, connectionPromise, sock, left>>,
             \A k \in Socks : subscribed[k] => subscribed'[k]
      PROVE  OneSocket'
    BY <1>1, <1>5 DEF OneSocket, StatesMean, DueIsHeldOrLeft, Disconnected, Erring, Connecting,
                      Connected, NoStraySocket, Live
\* A socket ends in the client's hands, its close event to come.
<1>6. ASSUME NEW k \in Socks, socket = k, sock' = [sock EXCEPT ![k] = "destroyed"],
             UNCHANGED <<socket, subscribed, left>>,
             state' = state \/ state' = "error", state = "connecting" \/ state = "connected"
      PROVE  OneSocket'
    <2>1. sock'[k] = "destroyed" /\ \A j \in Socks \ {k} : sock'[j] = sock[j] /\ ~Live(j)
        BY <1>2, <1>6
    <2> QED
        BY <1>1, <1>6, <2>1 DEF OneSocket, StatesMean, DueIsHeldOrLeft, Disconnected, Erring,
                                Connecting, Connected, NoStraySocket, Live
<1>7. CASE Connect
    BY <1>4, <1>7, DialStep DEF Connect
<1>8. CASE Reconnect
    <2>1. CASE MustDial
        BY <1>8, <2>1, DialStep DEF Reconnect
    <2>2. CASE ~MustDial
        BY <1>5, <1>8, <2>2 DEF Reconnect
    <2> QED
        BY <2>1, <2>2
<1>9. CASE Disconnect
    <2>1. \A k \in Socks : sock'[k] \notin {"dialing", "open"}
        BY <1>2, <1>9 DEF Disconnect, Live
    <2> QED
        BY <1>9, <2>1 DEF Disconnect, OneSocket, StatesMean, DueIsHeldOrLeft, Disconnected, Erring,
                          Connecting, Connected, NoStraySocket, Live
<1>10. ASSUME NEW k \in Socks, Opened(k) PROVE OneSocket'
    <2>1. socket = k
        BY <1>2, <1>10 DEF Opened, Live
    <2>2. sock'[k] = "open" /\ \A j \in Socks \ {k} : sock'[j] = sock[j]
        BY <1>10 DEF Opened
    <2> QED
        BY <1>1, <1>10, <2>1, <2>2
           DEF Opened, OneSocket, StatesMean, DueIsHeldOrLeft, Disconnected, Erring, Connecting,
               Connected, NoStraySocket, Live
<1>11. ASSUME NEW k \in Socks, Closed(k) PROVE OneSocket'
    <2>1. sock[k] = "destroyed" /\ socket \in {k, None}
        BY <1>1, <1>11 DEF Closed, DueIsHeldOrLeft
    <2>2. sock'[k] = "closed" /\ \A j \in Socks \ {k} : sock'[j] = sock[j]
        BY <1>11 DEF Closed
    <2>3. \A j \in Socks : sock'[j] \notin {"dialing", "open"}
        BY <1>2, <2>1, <2>2 DEF Live
    <2>4. DueIsHeldOrLeft'
        BY <1>1, <1>11, <2>1, <2>2 DEF Closed, Forget, DueIsHeldOrLeft
    <2> QED
        BY <1>11, <2>3, <2>4
           DEF Closed, Forget, OneSocket, StatesMean, Disconnected, Erring, Connecting, Connected,
               NoStraySocket, Live
<1>12. ASSUME NEW k \in Socks, Failed(k) PROVE OneSocket'
    <2>1. socket = k /\ (state = "connecting" \/ state = "connected")
        BY <1>2, <1>3, <1>12 DEF Failed
    <2> QED
        BY <1>6, <1>12, <2>1 DEF Failed
<1>13. ASSUME NEW k \in Socks, HungUp(k) PROVE OneSocket'
    <2>1. socket = k /\ (state = "connecting" \/ state = "connected")
        BY <1>2, <1>3, <1>13 DEF HungUp, Live
    <2> QED
        BY <1>6, <1>13, <2>1 DEF HungUp
<1>14. ASSUME NEW k \in Socks, Lines(k) PROVE OneSocket'
    <2>1. CASE SubscribeOK(k)
        <3>1. socket = k /\ sock[k] = "open" /\ sock' = sock /\ socket' = socket /\ left' = left
            BY <1>2, <2>1 DEF SubscribeOK, Answers, Live
        <3>2. subscribed'[k] /\ \A j \in Socks : subscribed[j] => subscribed'[j]
            BY <2>1 DEF SubscribeOK
        <3>3. CASE state = "connecting" /\ ~partial
            <4>1. state' = "connected"
                BY <2>1, <3>3 DEF SubscribeOK
            <4> QED
                BY <1>1, <3>1, <3>2, <3>3, <4>1
                   DEF OneSocket, StatesMean, DueIsHeldOrLeft, Disconnected, Erring, Connecting,
                       Connected, NoStraySocket, Live
        <3>4. CASE ~(state = "connecting" /\ ~partial)
            BY <1>5, <2>1, <3>1, <3>2, <3>4 DEF SubscribeOK
        <3> QED
            BY <3>3, <3>4
    <2>2. CASE SubscribeERR(k)
        BY <1>4, <2>2 DEF SubscribeERR
    <2>3. CASE BeginLine(k) \/ EndLine(k)
        BY <1>5, <2>3 DEF BeginLine, EndLine
    <2>4. CASE Overflow(k)
        <3>1. socket = k /\ (state = "connecting" \/ state = "connected")
            BY <1>2, <1>3, <2>4 DEF Overflow, Live
        <3> QED
            BY <1>6, <2>4, <3>1 DEF Overflow
    <2> QED
        BY <1>14, <2>1, <2>2, <2>3, <2>4 DEF Lines
<1>15. CASE UNCHANGED vars
    BY <1>5, <1>15 DEF vars
<1> QED
    BY <1>7, <1>8, <1>9, <1>10, <1>11, <1>12, <1>13, <1>14, <1>15 DEF Next, Caller

----------------------------------------------------------------------------
\* In any world, what made the client connected is still subscribed: the end of any socket, of
\* the present or of the past, takes the state back, and a socket is opened anew only once it
\* has closed.
LEMMA HeardStep ==
    ASSUME QuietInv, SomeSocketIsHeard, [Next]_vars
    PROVE  SomeSocketIsHeard'
<1> USE DEF QuietInv, TypeInv, TypeOK, client, network, history
<1> DEFINE Hears(k) == subscribed[k] /\ sock[k] \in {"open", "destroyed"}
<1>1. state = "connected" => \E k \in Socks : Hears(k)
    BY DEF SomeSocketIsHeard
\* The state says nothing, or is as it was and who was heard is still.
<1>2. ASSUME \/ state' # "connected"
             \/ state' = state /\ \A k \in Socks : Hears(k) => Hears(k)'
      PROVE  SomeSocketIsHeard'
    BY <1>1, <1>2 DEF SomeSocketIsHeard
<1>3. CASE Connect
    BY <1>2, <1>3 DEF Connect, Dial
<1>4. CASE Disconnect
    BY <1>2, <1>4 DEF Disconnect
<1>5. CASE Reconnect
    BY <1>2, <1>5 DEF Reconnect, Dial
<1>6. ASSUME NEW k \in Socks, Opened(k) PROVE SomeSocketIsHeard'
    <2>1. state' = state /\ \A j \in Socks : Hears(j) => Hears(j)'
        BY <1>6 DEF Opened
    <2> QED
        BY <1>2, <2>1
<1>7. ASSUME NEW k \in Socks, Closed(k) \/ Failed(k) PROVE SomeSocketIsHeard'
    BY <1>2, <1>7 DEF Closed, Forget, Failed
<1>8. ASSUME NEW k \in Socks, HungUp(k) PROVE SomeSocketIsHeard'
    <2>1. state' = state /\ \A j \in Socks : Hears(j) => Hears(j)'
        BY <1>8 DEF HungUp
    <2> QED
        BY <1>2, <2>1
<1>9. ASSUME NEW k \in Socks, SubscribeOK(k) PROVE SomeSocketIsHeard'
    <2>1. k \in Socks /\ Hears(k)'
        BY <1>9 DEF SubscribeOK, Answers
    <2> QED
        BY <2>1 DEF SomeSocketIsHeard
<1>10. ASSUME NEW k \in Socks, SubscribeERR(k) \/ BeginLine(k) \/ EndLine(k)
       PROVE  SomeSocketIsHeard'
    <2>1. state' = state /\ sock' = sock /\ subscribed' = subscribed
        BY <1>10 DEF SubscribeERR, BeginLine, EndLine
    <2> QED
        BY <1>2, <2>1
<1>11. ASSUME NEW k \in Socks, Overflow(k) PROVE SomeSocketIsHeard'
    <2>1. state' = state /\ \A j \in Socks : Hears(j) => Hears(j)'
        BY <1>11 DEF Overflow
    <2> QED
        BY <1>2, <2>1
<1>12. CASE UNCHANGED vars
    BY <1>2, <1>12 DEF vars
<1> QED
    BY <1>3, <1>4, <1>5, <1>6, <1>7, <1>8, <1>9, <1>10, <1>11, <1>12 DEF Next, Caller, Lines

SocketInv == QuietInv /\ OrderlyInv /\ SomeSocketIsHeard

LEMMA SocketInvariant == Spec => []SocketInv
<1>1. Init => SocketInv
    BY TypeInit, PubSubAssumption
       DEF SocketInv, QuietInv, LeftForGood, Init, OrderlyInv, OneSocket, StatesMean,
           DueIsHeldOrLeft, Disconnected, Erring, Connecting, Connected, NoStraySocket, Live,
           SomeSocketIsHeard
<1>2. SocketInv /\ [Next]_vars => SocketInv'
    BY TypeStep, QuietStep, OrderlyStep, HeardStep DEF SocketInv, QuietInv
<1> QED
    BY <1>1, <1>2, PTL DEF Spec

\* A client that says it is connected hears one of its sockets, for any number of sockets and
\* in any world, with sockets of the past that close, fail or answer while another is under
\* way; in an orderly world it is the socket the client holds (pubsub.ts:95-106, 208).
THEOREM ConnectedMeansSubscribed == Spec => []ConnectedIsSubscribed
<1>1. SocketInv => ConnectedIsSubscribed
    BY DEF SocketInv, OrderlyInv, OneSocket, StatesMean, Connected, ConnectedIsSubscribed,
           HeldSocketIsHeard
<1> QED
    BY <1>1, SocketInvariant, PTL

\* Where nobody is denied and the caller lets a close event come before it connects again, no
\* connection lives that the client does not hold, for any number of sockets, however they fail
\* and whatever comes between an error and its close event (pubsub.ts:81, 95-106).
THEOREM NoSocketStrays == Spec => []NoStraySocket
<1>1. SocketInv => NoStraySocket
    BY DEF SocketInv, OrderlyInv, OneSocket, NoStraySocket
<1> QED
    BY <1>1, SocketInvariant, PTL
=============================================================================
