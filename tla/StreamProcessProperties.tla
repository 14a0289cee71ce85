----------------------- MODULE StreamProcessProperties -----------------------
(***************************************************************************)
(* What streamCommandViaProcess promises.                                  *)
(***************************************************************************)
EXTENDS StreamProcess

\* The type invariant; the deadline's timer exists only for calls with a timeout
\* (stream-process.ts:126).
TypeOK ==
    /\ timeout \in BOOLEAN
    /\ buffered \subseteq Streams
    /\ proc \in {"none", "running", "exited"}
    /\ written \in [Streams -> 0..MaxOutput]
    /\ pc \in {"starting", "pumping", "status", "sleeping", "done"} \cup Streams
    /\ wire \in [Streams -> {"open", "ended", "failed", "cut"}]
    /\ streamed \in [Streams -> 0..MaxOutput]
    /\ heard \in [Streams -> Seq(1..MaxOutput)]
    /\ timer \in {"off", "armed", "fired"}
    /\ timedOut \in BOOLEAN
    /\ info \in {"running", "code", "exited"}
    /\ attempt \in 0..PollAttempts
    /\ exitCode \in {"none", "code", "0", "-1", "124", "127"}
    /\ unread \subseteq buffered
    /\ timer # "off" \/ timedOut => timeout

FirstChunks(n) == [i \in 1..n |-> i]

\* Each callback hears the output of the process once and in order, whatever part of it
\* came over the follow stream and whatever part out of the buffer (stream-process.ts:80).
DeliveredInOrder ==
    \A s \in Streams :
        /\ heard[s] = FirstChunks(Len(heard[s]))
        /\ exitCode # "127" => Len(heard[s]) = streamed[s]

Recovered(s) ==
    streamed[s] = written[s] \/ (wire[s] = "failed" /\ s \notin buffered \ unread)

\* A result that carries the exit of the process carries all it wrote, unless a stream was
\* lost that the provider has no readable buffer of (stream-process.ts:161, 183).
CompleteOnExit ==
    exitCode \in {"code", "0"} => \A s \in Streams : Recovered(s)

\* An exit is reported only of a process that has exited, however often its state could not
\* be read (stream-process.ts:164, 192).
ExitIsReal == exitCode \in {"code", "0"} => proc = "exited"

\* Once both streams have ended by themselves, no late deadline claims the command
\* (stream-process.ts:123, 162).
FinishedIsNotTimedOut == (\A s \in Streams : wire[s] = "ended") => ~timedOut

\* A call with a timeout does not end with its process running and no kill asked for
\* (stream-process.ts:155-163, 169).
NotLeftRunning == pc = "done" /\ timeout /\ ~timedOut => proc # "running"

\* The call ends: at its deadline at the latest, and without one after the process
\* (stream-process.ts:122, 172).
CallSettles == (pc = "pumping" /\ (timeout \/ proc = "exited")) ~> pc = "done"

\* streamCommandViaProcess implements OutputChannels, as the bridge over the daemon does:
\* each callback hears the chunks once and in order, nothing after the call has settled,
\* and all of them unless the deadline passed, the exit could not be read, a callback threw
\* in the backfill or a lost stream has no readable buffer (stream-process.ts:143-198).
Channels == INSTANCE OutputChannels WITH
    Channels <- Streams,
    closed <- IF pc = "done" THEN Streams ELSE {},
    whole <- {s \in Streams :
                /\ ~timedOut
                /\ exitCode \notin {"-1", "127"}
                /\ wire[s] # "failed" \/ s \in buffered \ unread}

StreamsAreChannels == Channels!Spec
=============================================================================
