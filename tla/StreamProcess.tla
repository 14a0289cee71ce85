---------------------------- MODULE StreamProcess ----------------------------
(***************************************************************************)
(* streamCommandViaProcess (provider/src/stream-process.ts): one command,  *)
(* two follow streams, a deadline and the exit poll after the streams.     *)
(*                                                                         *)
(* The provider is the world of this module: its process writes numbered   *)
(* chunks, its follow streams deliver them, drop or end, and its answers   *)
(* may be late, unreadable or missing.  A stream ends by itself only once  *)
(* the process has exited and everything was delivered; a caller's         *)
(* callback may throw.                                                     *)
(***************************************************************************)
EXTENDS Naturals, Sequences

CONSTANTS
    MaxOutput,        \* chunks the process writes to each of its outputs
    PollAttempts,     \* EXIT_POLL_ATTEMPTS
    CallbackThrows    \* whether onStdout and onStderr may throw

ASSUME StreamAssumption ==
    /\ MaxOutput \in Nat
    /\ PollAttempts \in Nat
    /\ CallbackThrows \in BOOLEAN

Streams == {"stdout", "stderr"}

VARIABLES
    timeout,          \* whether options.timeout is given
    buffered,         \* the outputs the provider keeps a buffer of
    proc,             \* the process
    written,          \* chunks the process wrote so far
    pc,               \* where streamCommandViaProcess awaits
    wire,             \* the follow stream of each output
    streamed,         \* the length of `stdout` and of `stderr`
    heard,            \* the chunks given to each callback
    timer,            \* the deadline's timer
    timedOut,
    info,             \* the last status read
    attempt,
    exitCode,         \* of the result: "code" the process's own, else as in the source
    unread            \* history: buffers that could not be read

settings == <<timeout, buffered>>
world == <<proc, written>>
output == <<wire, streamed, heard>>
deadline == <<timer, timedOut>>
poll == <<info, attempt>>
vars == <<settings, world, pc, output, deadline, poll, exitCode, unread>>

Init ==
    /\ timeout \in BOOLEAN
    /\ buffered \in SUBSET Streams
    /\ proc = "none"
    /\ written = [s \in Streams |-> 0]
    /\ pc = "starting"
    /\ wire = [s \in Streams |-> "open"]
    /\ streamed = [s \in Streams |-> 0]
    /\ heard = [s \in Streams |-> <<>>]
    /\ timer = "off"
    /\ timedOut = FALSE
    /\ info = "running"
    /\ attempt = 0
    /\ exitCode = "none"
    /\ unread = {}

----------------------------------------------------------------------------
\* The process, on its own.

Write(s) ==
    /\ proc = "running"
    /\ written[s] < MaxOutput
    /\ written' = [written EXCEPT ![s] = @ + 1]
    /\ UNCHANGED <<settings, proc, pc, output, deadline, poll, exitCode, unread>>

Exit ==
    /\ proc = "running"
    /\ proc' = "exited"
    /\ UNCHANGED <<settings, written, pc, output, deadline, poll, exitCode, unread>>

----------------------------------------------------------------------------
\* The start.

ArmTimer == timer' = IF timeout THEN "armed" ELSE "off"

Started ==
    /\ pc = "starting"
    /\ \/ /\ proc' = "running"
          /\ pc' = "pumping"
          /\ ArmTimer
          /\ UNCHANGED exitCode
       \/ /\ pc' = "done"
          /\ exitCode' = "127"
          /\ UNCHANGED <<proc, timer>>
    /\ UNCHANGED <<settings, written, output, timedOut, poll, unread>>

----------------------------------------------------------------------------
\* The pumps.

Pumping(s) == pc = "pumping" /\ wire[s] = "open"

\* A chunk is appended and handed on; a callback that throws ends the pump as failed.
Chunk(s) ==
    /\ Pumping(s)
    /\ streamed[s] < written[s]
    /\ streamed' = [streamed EXCEPT ![s] = @ + 1]
    /\ heard' = [heard EXCEPT ![s] = Append(@, streamed[s] + 1)]
    /\ \/ UNCHANGED wire
       \/ CallbackThrows /\ wire' = [wire EXCEPT ![s] = "failed"]
    /\ UNCHANGED <<settings, world, pc, deadline, poll, exitCode, unread>>

\* A stream ends: by itself, because its connection dropped, or because the deadline
\* aborted it, with or without an error.
EndOfStream(s) ==
    /\ Pumping(s)
    /\ \/ proc = "exited" /\ streamed[s] = written[s] /\ ~timedOut
          /\ wire' = [wire EXCEPT ![s] = "ended"]
       \/ wire' = [wire EXCEPT ![s] = "failed"]
       \/ timedOut /\ wire' = [wire EXCEPT ![s] = "cut"]
    /\ UNCHANGED <<settings, world, pc, streamed, heard, deadline, poll, exitCode, unread>>

PumpsEnded == pc = "pumping" /\ \A s \in Streams : wire[s] # "open"

\* lostStream
LostStream == \E s \in Streams : wire[s] = "failed"

\* Mutants: the deadline is disarmed whatever ended the streams; it is never disarmed here.
DisarmAlways == timer' = "off"
DisarmNever == UNCHANGED timer

\* A dropped stream leaves the deadline in force.
DisarmIfClean == timer' = IF LostStream THEN timer ELSE "off"

Pumped ==
    /\ PumpsEnded
    /\ DisarmIfClean
    /\ pc' = "status"
    /\ UNCHANGED <<settings, world, output, timedOut, poll, exitCode, unread>>

\* The timer: it aborts both streams, then asks for the kill.  The reactions to the end of
\* the last stream are microtasks, which no timer interrupts.
Deadline ==
    /\ timer = "armed"
    /\ ~PumpsEnded
    /\ timer' = "fired"
    /\ timedOut' = TRUE
    /\ UNCHANGED <<settings, world, pc, output, poll, exitCode, unread>>

----------------------------------------------------------------------------
\* The exit poll.

ReadsBuffer(s) == wire[s] = "failed" /\ s \in buffered

\* Mutant: the tail of stderr is not looked for.
StdoutOnly == "done"

\* The stage after the poll, and after the backfill of stdout.
AfterStdout == IF ReadsBuffer("stderr") THEN "stderr" ELSE "done"
AfterPoll == IF ReadsBuffer("stdout") THEN "stdout" ELSE AfterStdout

\* timedOut ? 124 : info.exitCode ?? (info.running ? -1 : 0)
ExitCode(reading) ==
    CASE timedOut -> "124"
      [] ~timedOut /\ reading = "running" -> "-1"
      [] ~timedOut /\ reading = "exited" -> "0"
      [] OTHER -> reading

Goto(stage, reading) ==
    /\ pc' = stage
    /\ exitCode' = IF stage = "done" THEN ExitCode(reading) ELSE exitCode

\* Mutant: a lost stream is given no more time than a clean end.
CountedOnly == attempt < PollAttempts

\* The condition of the loop, but for info.running.
MayPoll == (LostStream /\ timeout) \/ attempt < PollAttempts

\* What a status call can say: an exit only after it, with a code or without one;
\* "running" also when the state is unknown or the call failed.
Readings == IF proc = "exited" THEN {"code", "exited", "running"} ELSE {"running"}

StatusAnswered ==
    /\ pc = "status"
    /\ \E reading \in Readings :
          /\ info' = reading
          /\ \/ /\ ~timedOut /\ MayPoll /\ reading = "running"
                /\ pc' = "sleeping"
                /\ UNCHANGED <<timer, exitCode>>
             \/ /\ timedOut \/ ~MayPoll \/ reading # "running"
                /\ Goto(AfterPoll, reading)
                /\ timer' = "off"
    /\ UNCHANGED <<settings, world, output, timedOut, attempt, unread>>

\* The counter stops where it no longer matters.
Woke ==
    /\ pc = "sleeping"
    /\ pc' = "status"
    /\ attempt' = IF attempt < PollAttempts THEN attempt + 1 ELSE attempt
    /\ UNCHANGED <<settings, world, output, deadline, info, exitCode, unread>>

----------------------------------------------------------------------------
\* The backfill.

\* buffered.slice(streamed.length)
Rest(s, length) == [i \in 1..(length - streamed[s]) |-> streamed[s] + i]

Backfill(s, length) ==
    IF length <= streamed[s]
    THEN UNCHANGED <<streamed, heard>>
    ELSE /\ heard' = [heard EXCEPT ![s] = @ \o Rest(s, length)]
         /\ streamed' = [streamed EXCEPT ![s] = length]

\* The buffer is read, or cannot be and counts as empty.
BufferAnswered(s) ==
    /\ pc = s
    /\ \/ Backfill(s, written[s]) /\ UNCHANGED unread
       \/ unread' = unread \cup {s} /\ UNCHANGED <<streamed, heard>>
    /\ Goto(IF s = "stdout" THEN AfterStdout ELSE "done", info)
    /\ UNCHANGED <<settings, world, wire, deadline, poll>>

\* A callback throws at what the backfill emits: the catch of the whole function.  The text
\* was not appended to the result.
BackfillThrew(s) ==
    /\ pc = s
    /\ CallbackThrows
    /\ written[s] > streamed[s]
    /\ heard' = [heard EXCEPT ![s] = @ \o Rest(s, written[s])]
    /\ pc' = "done"
    /\ exitCode' = "127"
    /\ UNCHANGED <<settings, world, wire, streamed, deadline, poll, unread>>

----------------------------------------------------------------------------
Process == Exit \/ \E s \in Streams : Write(s)
Pumps == Pumped \/ \E s \in Streams : Chunk(s) \/ EndOfStream(s)
Answers == Started \/ StatusAnswered \/ \E s \in Streams : BufferAnswered(s) \/ BackfillThrew(s)

Next == Process \/ Pumps \/ Answers \/ Deadline \/ Woke

Spec == Init /\ [][Next]_vars

\* Timers fire, delivered text is handled, and a follow stream ends once the process has
\* exited or its signal is aborted.
FairSpec ==
    /\ Spec
    /\ WF_vars(Deadline) /\ WF_vars(Woke) /\ WF_vars(Pumped)
    /\ \A s \in Streams : WF_vars(Chunk(s))
    /\ \A s \in Streams : WF_vars((proc = "exited" \/ timedOut) /\ EndOfStream(s))

\* And the provider answers what it is asked.
AnsweredSpec == FairSpec /\ WF_vars(Answers)
=============================================================================
