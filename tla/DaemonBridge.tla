----------------------------- MODULE DaemonBridge -----------------------------
(***************************************************************************)
(* The streaming runCommand of a sandbox whose provider cannot stream       *)
(* (provider/src/factory.ts): the command runs as an attached exec of the  *)
(* seed daemon, whose events are followed over SSE meanwhile; what was not *)
(* streamed is emitted out of the result.                                  *)
(*                                                                         *)
(* A call is the job and the SSE client of SeedDaemon that bear its name;  *)
(* the other jobs are commands somebody else runs on the same daemon.  The *)
(* launcher between the two is an exec that is answered or fails.  stdout  *)
(* and stderr are treated alike, so one output stands for both; its chunks *)
(* are told apart.                                                         *)
(***************************************************************************)
EXTENDS SeedDaemon, SequencesExt

CONSTANTS
    Calls,            \* the streaming calls, some of Jobs
    CallbackThrows    \* whether onStdout and onStderr may throw

ASSUME BridgeAssumption ==
    Calls \subseteq Jobs /\ Calls \subseteq Clients /\ CallbackThrows \in BOOLEAN

VARIABLES
    known,            \* whether daemonStreamState is set
    pc,               \* where each runCommand awaits
    request,          \* its exec request, 0 before there is one
    stream,           \* streamPromise
    position,         \* events of the stream handled so far
    emitted,          \* streamStdout: the chunks marked as streamed
    delivered,        \* the chunks the callback was given
    late              \* history: calls whose stream joined after output was written

bridge == <<known, pc, request, stream, position, emitted, delivered, late>>
bridgeVars == <<vars, bridge>>

\* The daemon may signal its children: a job it took for ended writes nothing more.
BridgeInit ==
    /\ Init /\ mayKill
    /\ known = FALSE
    /\ pc = [c \in Calls |-> "idle"]
    /\ request = [c \in Calls |-> 0]
    /\ stream = [c \in Calls |-> "none"]
    /\ position = [c \in Calls |-> 0]
    /\ emitted = [c \in Calls |-> <<>>]
    /\ delivered = [c \in Calls |-> <<>>]
    /\ late = {}

Goto(c, stage) == pc' = [pc EXCEPT ![c] = stage]

----------------------------------------------------------------------------
\* The start.

\* The event stream is opened and the command sent, neither waiting for the other.
Launch(c) == Goto(c, "running") /\ stream' = [stream EXCEPT ![c] = "resolving"]

Start(c) ==
    /\ pc[c] = "idle"
    /\ IF known THEN Launch(c) ELSE Goto(c, "bootstrapping") /\ UNCHANGED stream
    /\ UNCHANGED <<vars, known, request, position, emitted, delivered, late>>

\* The bootstrap answers for its own call, whoever set the state meanwhile.
Bootstrapped(c) ==
    /\ pc[c] = "bootstrapping"
    /\ \/ known' = TRUE /\ Launch(c)
       \/ Goto(c, "failed") /\ UNCHANGED <<known, stream>>
    /\ UNCHANGED <<vars, request, position, emitted, delivered, late>>

Exec(c) ==
    /\ pc[c] = "running" /\ request[c] = 0
    /\ \E r \in Requests : ExecAttached(r, c) /\ request' = [request EXCEPT ![c] = r]
    /\ UNCHANGED <<known, pc, stream, position, emitted, delivered, late>>

----------------------------------------------------------------------------
\* The event stream.

Aborted(c) == pc[c] \notin {"idle", "bootstrapping", "running"}

EndStream(c) == stream' = [stream EXCEPT ![c] = "ended"]

\* resolveDaemonSseUrl: getUrl is not told of an abort, the fetch after it is.
Resolved(c) ==
    /\ stream[c] = "resolving"
    /\ \/ ~Aborted(c) /\ stream' = [stream EXCEPT ![c] = "connecting"]
       \/ EndStream(c)
    /\ UNCHANGED <<vars, known, pc, request, position, emitted, delivered, late>>

Connect(c) ==
    /\ stream[c] = "connecting"
    /\ Join(c)
    /\ stream' = [stream EXCEPT ![c] = "open"]
    /\ late' = IF job[c].chunks > 0 THEN late \cup {c} ELSE late
    /\ UNCHANGED <<known, pc, request, position, emitted, delivered>>

ConnectFails(c) ==
    /\ stream[c] = "connecting"
    /\ EndStream(c)
    /\ UNCHANGED <<vars, known, pc, request, position, emitted, delivered, late>>

\* The client hangs up, or finds that the daemon did.
HangUp(c) ==
    /\ EndStream(c)
    /\ Leave(c) \/ (joined[c] = 0 /\ UNCHANGED vars)

\* The filter by requestId, for the events that carry output.
OwnOutput(c, e) == e[1] = c /\ Len(e) = 3

\* Mutant: a streamed chunk is handed on but not marked.
NotMarked(c, e) == UNCHANGED emitted

\* markStdout, before the callback.
Mark(c, e) == emitted' = [emitted EXCEPT ![c] = Append(@, e)]

Hand(c, chunks) == delivered' = [delivered EXCEPT ![c] = @ \o chunks]

\* The next event; a callback that throws ends the stream, and nobody is told.
ReadEvent(c) ==
    /\ stream[c] = "open"
    /\ position[c] < Len(heard[c])
    /\ position' = [position EXCEPT ![c] = @ + 1]
    /\ LET e == heard[c][position[c] + 1]
       IN  IF OwnOutput(c, e)
           THEN /\ Mark(c, e)
                /\ Hand(c, <<e>>)
                /\ \/ UNCHANGED <<vars, stream>>
                   \/ CallbackThrows /\ HangUp(c)
           ELSE UNCHANGED <<vars, stream, emitted, delivered>>
    /\ UNCHANGED <<known, pc, request, late>>

\* The connection drops, or the daemon is gone and everything was read.
Dropped(c) ==
    /\ stream[c] = "open"
    /\ HangUp(c)
    /\ UNCHANGED <<known, pc, request, position, emitted, delivered, late>>

----------------------------------------------------------------------------
\* The end.

\* The result comes back through the launcher and the provider.
Result(c) ==
    /\ pc[c] = "running"
    /\ request[c] # 0
    /\ answers[request[c]] # <<>>
    /\ known' = TRUE
    /\ Goto(c, "finalizing")
    /\ UNCHANGED <<vars, request, stream, position, emitted, delivered, late>>

\* The provider's runCommand throws, or its output is no answer of the launcher.
Failure(c) ==
    /\ pc[c] = "running"
    /\ Goto(c, "failing")
    /\ UNCHANGED <<vars, known, request, stream, position, emitted, delivered, late>>

\* Mutant: the signal is given to the fetch and not heeded by the reader.
FetchOnly(c) == stream[c] = "connecting"

\* Where the abort of finalizeStream reaches the stream: every await but that of getUrl.
Abortable(c) == stream[c] \in {"connecting", "open"}

Cut(c) ==
    /\ pc[c] \in {"finalizing", "failing"}
    /\ Abortable(c)
    /\ HangUp(c)
    /\ UNCHANGED <<known, pc, request, position, emitted, delivered, late>>

StreamAwaited(c) == stream[c] \in {"none", "ended"}

\* The chunks of the result, the note of a timeout and the text of an error among them.
FinalOutput(c) ==
    LET a == answers[request[c]][1] IN [k \in 1..a.output |-> <<c, "data", k>>]

Includes(s, t) == t \in SubSeqs(s)

\* emitMissingOutput
Missing(c) ==
    LET final == FinalOutput(c)
    IN  CASE final = <<>> -> <<>>
          [] emitted[c] = <<>> -> final
          [] emitted[c] # <<>> /\ IsPrefix(emitted[c], final) ->
                SubSeq(final, Len(emitted[c]) + 1, Len(final))
          [] OTHER ->
                IF Includes(final, emitted[c]) \/ Includes(emitted[c], final)
                THEN <<>> ELSE final

\* What the stream did not bring is emitted out of the result; there a callback that throws
\* fails the call.
EmitMissing(c) ==
    /\ pc[c] = "finalizing"
    /\ StreamAwaited(c)
    /\ Hand(c, Missing(c))
    /\ \/ Goto(c, "done")
       \/ CallbackThrows /\ Missing(c) # <<>> /\ Goto(c, "failed")
    /\ UNCHANGED <<vars, known, request, stream, position, emitted, late>>

Rejected(c) ==
    /\ pc[c] = "failing"
    /\ StreamAwaited(c)
    /\ Goto(c, "failed")
    /\ UNCHANGED <<vars, known, request, stream, position, emitted, delivered, late>>

----------------------------------------------------------------------------
StreamStep(c) == Resolved(c) \/ Connect(c) \/ ConnectFails(c) \/ ReadEvent(c) \/ Dropped(c)

CallStep(c) ==
    Start(c) \/ Bootstrapped(c) \/ Exec(c) \/ Result(c) \/ Failure(c) \/ Cut(c)
        \/ EmitMissing(c) \/ Rejected(c)

\* The daemon's steps while a call is under way, and a command of somebody else, whose
\* output is bounded by one chunk.  An attached job is out of the map once it is answered,
\* so nothing of the bridge depends on Forget.
DaemonStep ==
    /\ \E c \in Calls : pc[c] \notin {"idle", "done", "failed"}
    /\ \/ Exit
       \/ \E j \in Jobs : Deadline(j) \/ KillTimer(j) \/ ChildClose(j) \/ SpawnError(j)
       \/ \E j \in Jobs : (j \in Calls \/ job[j].chunks = 0) /\ Data(j)
       \/ \E r \in Requests, j \in Jobs \ Calls : ExecDetached(r, j, FALSE)
    /\ UNCHANGED bridge

BridgeNext == DaemonStep \/ \E c \in Calls : StreamStep(c) \/ CallStep(c)

\* The promises of the bridge settle; the provider's answers may never come.
BridgeFairness ==
    \A c \in Calls :
        WF_bridgeVars(Cut(c)) /\ WF_bridgeVars(EmitMissing(c)) /\ WF_bridgeVars(Rejected(c))

BridgeSpec == BridgeInit /\ [][BridgeNext]_bridgeVars /\ BridgeFairness

----------------------------------------------------------------------------
BridgeTypeOK ==
    /\ known \in BOOLEAN
    /\ pc \in [Calls -> {"idle", "bootstrapping", "running", "finalizing", "failing",
                         "done", "failed"}]
    /\ request \in [Calls -> {0} \cup Requests]
    /\ stream \in [Calls -> {"none", "resolving", "connecting", "open", "ended"}]
    /\ \A c \in Calls :
          /\ position[c] \in 0..Len(heard[c])
          /\ stream[c] = "open" \/ joined[c] = 0
          /\ request[c] # 0 => asked[request[c]] = <<"exec", c>>
    /\ late \subseteq Calls

\* A streaming call implements OutputChannels: over the event stream and out of the result
\* the callback hears each chunk of its own command once and in order, nothing after the
\* call has settled, and everything unless the call failed or its stream came late
\* (factory.ts:74-98, 475-526).
Channels == INSTANCE OutputChannels WITH
    Channels <- Calls,
    written <- [c \in Calls |-> job[c].chunks + job[c].notes],
    heard <- [c \in Calls |-> [i \in DOMAIN delivered[c] |->
                IF delivered[c][i][1] = c THEN delivered[c][i][3] ELSE 0]],
    closed <- {c \in Calls : pc[c] \in {"done", "failed"}},
    whole <- {c \in Calls : c \notin late /\ pc[c] \notin {"failing", "failed"}}

CallsAreChannels == Channels!Spec

\* Once the command has answered, the call settles, whatever the event stream is doing,
\* unless the provider's getUrl, which nothing aborts, never answers (factory.ts:469-473).
CallsSettle ==
    \A c \in Calls :
        pc[c] \in {"finalizing", "failing"} ~>
            pc[c] \in {"done", "failed"} \/ stream[c] = "resolving"

\* docs/reference/Sandbox.md:111 and 150: a callback "fires once per output chunk", and where
\* nothing can be streamed it carries "the full output".  Here: a call that resolved has
\* handed all of its output on, once.
ResolvedHeardAll ==
    \A c \in Calls : pc[c] = "done" => delivered[c] = FinalOutput(c)
=============================================================================
