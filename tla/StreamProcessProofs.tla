------------------------- MODULE StreamProcessProofs -------------------------
(***************************************************************************)
(* Proofs about streamCommandViaProcess, for any amount of output and any  *)
(* number of polls.                                                        *)
(***************************************************************************)
EXTENDS StreamProcessProperties, SequenceTheorems, TLAPS

----------------------------------------------------------------------------
\* What is delivered.

LEMMA FirstChunksType ==
  ASSUME NEW n \in Nat
  PROVE  FirstChunks(n) \in Seq(Nat) /\ Len(FirstChunks(n)) = n
  BY DEF FirstChunks

\* One more chunk from the wire.
LEMMA FirstChunksAppend ==
  ASSUME NEW n \in Nat
  PROVE  Append(FirstChunks(n), n + 1) = FirstChunks(n + 1)
<1>1. Append(FirstChunks(n), n + 1) \in Seq(Nat)
  BY FirstChunksType
<1> QED BY <1>1, FirstChunksType, SeqEqual DEF FirstChunks

\* A concatenation whose two parts are known element by element.
LEMMA ConcatIsFirstChunks ==
  ASSUME NEW n \in Nat, NEW m \in Nat, n <= m,
         NEW h \in Seq(Nat), Len(h) = n, \A i \in 1..n : h[i] = i,
         NEW r \in Seq(Nat), Len(r) = m - n, \A i \in 1..(m - n) : r[i] = n + i
  PROVE  h \o r = FirstChunks(m)
<1>1. /\ h \o r \in Seq(Nat)
      /\ Len(h \o r) = Len(h) + Len(r)
      /\ \A i \in 1..(Len(h) + Len(r)) : (h \o r)[i] = IF i <= Len(h) THEN h[i] ELSE r[i - Len(h)]
  BY ConcatProperties
<1>2. Len(h) + Len(r) = m
  OBVIOUS
<1>3. ASSUME NEW i \in 1..m PROVE (h \o r)[i] = FirstChunks(m)[i]
  <2>1. FirstChunks(m)[i] = i
    BY DEF FirstChunks
  <2>2. CASE i <= n
    <3>1. (h \o r)[i] = h[i]
      BY <1>1, <1>2, <2>2
    <3> QED BY <2>1, <2>2, <3>1
  <2>3. CASE ~(i <= n)
    <3>1. (h \o r)[i] = r[i - n]
      BY <1>1, <1>2, <2>3
    <3>2. i - n \in 1..(m - n) /\ n + (i - n) = i
      BY <2>3
    <3> QED BY <2>1, <3>1, <3>2
  <2> QED BY <2>2, <2>3
<1> QED BY <1>1, <1>2, <1>3, SeqEqual, FirstChunksType

\* The rest out of the buffer.
LEMMA FirstChunksRest ==
  ASSUME NEW n \in Nat, NEW m \in Nat, n <= m
  PROVE  FirstChunks(n) \o [i \in 1..(m - n) |-> n + i] = FirstChunks(m)
<1> DEFINE rest == [i \in 1..(m - n) |-> n + i]
<1>1. rest \in Seq(Nat) /\ Len(rest) = m - n /\ \A i \in 1..(m - n) : rest[i] = n + i
  OBVIOUS
<1> DEFINE head == FirstChunks(n)
<1>2. head \in Seq(Nat) /\ Len(head) = n
  BY FirstChunksType
<1>3. \A i \in 1..n : head[i] = i
  BY DEF FirstChunks
<1> HIDE DEF rest, head
<1>4. head \o rest = FirstChunks(m)
  BY <1>1, <1>2, <1>3, ConcatIsFirstChunks
<1> QED BY <1>4 DEF rest, head

\* A sequence of first chunks that is no longer than the output has the type of `heard`.
LEMMA HeardType ==
  ASSUME NEW n \in 0..MaxOutput
  PROVE  FirstChunks(n) \in Seq(1..MaxOutput)
  BY StreamAssumption DEF FirstChunks
----------------------------------------------------------------------------
\* The inductive invariant.

\* What the stages of the call know of the streams and of the process.
StageInv ==
    /\ pc # "done" => exitCode = "none"
    /\ pc = "starting" => timer = "off" /\ proc = "none" /\ ~timedOut
    /\ pc \in {"status", "sleeping"} \cup Streams => \A s \in Streams : wire[s] # "open"
    /\ pc \in Streams => wire[pc] = "failed" /\ pc \in buffered
    /\ info # "running" => proc = "exited"
    /\ pc \in Streams /\ timeout /\ ~timedOut => proc = "exited"

\* What the end of a stream tells, and that the deadline is off once both have ended.
EndInv ==
    /\ \A s \in Streams : wire[s] = "ended" => proc = "exited" /\ streamed[s] = written[s]
    /\ \A s \in Streams : wire[s] = "cut" => timedOut
    /\ pc # "pumping" /\ (\A s \in Streams : wire[s] = "ended") => timer # "armed"

\* stdout is recovered before stderr is looked at.
RecoveryInv ==
    /\ \A s \in Streams : streamed[s] <= written[s]
    /\ pc = "stderr" /\ info # "running" /\ ~timedOut => Recovered("stdout")

StreamInv ==
    /\ TypeOK
    /\ StageInv
    /\ EndInv
    /\ RecoveryInv
    /\ DeliveredInOrder
    /\ CompleteOnExit
    /\ ExitIsReal
    /\ FinishedIsNotTimedOut
    /\ NotLeftRunning

LEMMA InvInit == Init => StreamInv
<1> SUFFICES ASSUME Init PROVE StreamInv
  OBVIOUS
<1> USE StreamAssumption DEF Init
<1>1. TypeOK
  <2>1. <<>> \in Seq(1..MaxOutput)
    BY EmptySeq
  <2>2. heard \in [Streams -> Seq(1..MaxOutput)]
    BY <2>1
  <2>3. /\ written \in [Streams -> 0..MaxOutput]
        /\ streamed \in [Streams -> 0..MaxOutput]
    OBVIOUS
  <2>4. wire \in [Streams -> {"open", "ended", "failed", "cut"}]
    OBVIOUS
  <2>5. timeout \in BOOLEAN /\ buffered \subseteq Streams /\ timedOut \in BOOLEAN /\ unread \subseteq buffered
    OBVIOUS
  <2>6. timer # "off" \/ timedOut => timeout
    OBVIOUS
  <2> QED BY <2>2, <2>3, <2>4, <2>5, <2>6 DEF TypeOK
<1>2. StageInv /\ EndInv /\ RecoveryInv
  BY DEF StageInv, EndInv, RecoveryInv, Streams
<1>3. DeliveredInOrder
  <2>1. <<>> = FirstChunks(0) /\ Len(<<>>) = 0
    BY FirstChunksType, EmptySeq
  <2> QED BY <2>1 DEF DeliveredInOrder, Streams
<1>4. CompleteOnExit /\ ExitIsReal /\ FinishedIsNotTimedOut /\ NotLeftRunning
  BY DEF CompleteOnExit, ExitIsReal, FinishedIsNotTimedOut, NotLeftRunning, Streams
<1> QED BY <1>1, <1>2, <1>3, <1>4 DEF StreamInv

\* What is heard when the wire or the buffer delivers.
LEMMA ChunkHeard ==
  ASSUME TypeOK, DeliveredInOrder, exitCode = "none", NEW s \in Streams, Chunk(s)
  PROVE  /\ streamed[s] + 1 \in 1..MaxOutput
         /\ heard'[s] = FirstChunks(streamed[s] + 1)
         /\ \A t \in Streams \ {s} : heard'[t] = heard[t]
<1>0. heard \in [Streams -> Seq(1..MaxOutput)]
  BY DEF TypeOK
<1>1. streamed[s] \in Nat /\ written[s] \in 0..MaxOutput /\ streamed[s] < written[s]
  BY StreamAssumption DEF Chunk, TypeOK
<1>2. heard[s] = FirstChunks(streamed[s])
  BY DEF DeliveredInOrder
<1>3. heard' = [heard EXCEPT ![s] = Append(heard[s], streamed[s] + 1)]
  BY DEF Chunk
<1>4. heard'[s] = Append(FirstChunks(streamed[s]), streamed[s] + 1)
  BY <1>0, <1>2, <1>3
<1>5. heard'[s] = FirstChunks(streamed[s] + 1)
  BY <1>1, <1>4, FirstChunksAppend
<1>6. \A t \in Streams \ {s} : heard'[t] = heard[t]
  BY <1>0, <1>3
<1> QED BY <1>1, <1>5, <1>6, StreamAssumption

LEMMA RestHeard ==
  ASSUME TypeOK, DeliveredInOrder, exitCode = "none", NEW s \in Streams,
         streamed[s] < written[s],
         heard' = [heard EXCEPT ![s] = @ \o Rest(s, written[s])]
  PROVE  /\ heard'[s] = FirstChunks(written[s])
         /\ \A t \in Streams \ {s} : heard'[t] = heard[t]
<1>0. heard \in [Streams -> Seq(1..MaxOutput)]
  BY DEF TypeOK
<1>1. streamed[s] \in Nat /\ written[s] \in Nat
  BY StreamAssumption DEF TypeOK
<1>2. heard[s] = FirstChunks(streamed[s])
  BY DEF DeliveredInOrder
<1>3. heard'[s] = FirstChunks(streamed[s]) \o Rest(s, written[s])
  BY <1>0, <1>2
<1>4. heard'[s] = FirstChunks(written[s])
  <2>0. streamed[s] <= written[s]
    BY <1>1
  <2>1. FirstChunks(streamed[s]) \o [i \in 1..(written[s] - streamed[s]) |-> streamed[s] + i]
        = FirstChunks(written[s])
    BY <1>1, <2>0, FirstChunksRest, Zenon
  <2> QED BY <1>3, <2>1 DEF Rest
<1> QED BY <1>0, <1>4

\* What is heard of a buffer keeps its type.
LEMMA RestType ==
  ASSUME TypeOK, DeliveredInOrder, exitCode = "none", NEW s \in Streams,
         streamed[s] < written[s],
         heard' = [heard EXCEPT ![s] = @ \o Rest(s, written[s])]
  PROVE  heard' \in [Streams -> Seq(1..MaxOutput)]
<1>1. heard \in [Streams -> Seq(1..MaxOutput)] /\ written[s] \in 0..MaxOutput
  BY DEF TypeOK
<1>2. heard'[s] \in Seq(1..MaxOutput)
  BY <1>1, RestHeard, HeardType
<1> QED BY <1>1, <1>2

----------------------------------------------------------------------------
\* Every step keeps the invariant, part by part.

LEMMA TypeStep == StreamInv /\ [Next]_vars => TypeOK'
<1> SUFFICES ASSUME StreamInv, [Next]_vars PROVE TypeOK'
  OBVIOUS
<1> USE StreamAssumption DEF StreamInv, TypeOK, settings, world, output, deadline, poll
<1>1. ASSUME NEW s \in Streams, Write(s) PROVE TypeOK'
  BY <1>1 DEF Write
<1>2. CASE Exit
  BY <1>2 DEF Exit
<1>3. CASE Started
  BY <1>3 DEF Started, ArmTimer
<1>4. ASSUME NEW s \in Streams, Chunk(s) PROVE TypeOK'
  <2>1. /\ streamed[s] + 1 \in 1..MaxOutput
        /\ heard'[s] = FirstChunks(streamed[s] + 1)
        /\ \A t \in Streams \ {s} : heard'[t] = heard[t]
    BY <1>4, ChunkHeard DEF StageInv, Chunk, Pumping
  <2>2. heard'[s] \in Seq(1..MaxOutput)
    BY <2>1, HeardType
  <2>3. heard' \in [Streams -> Seq(1..MaxOutput)]
    BY <1>4, <2>1, <2>2 DEF Chunk
  <2>4. streamed' \in [Streams -> 0..MaxOutput]
    BY <1>4, <2>1 DEF Chunk
  <2>5. wire' \in [Streams -> {"open", "ended", "failed", "cut"}]
    BY <1>4 DEF Chunk
  <2>6. UNCHANGED <<settings, world, pc, deadline, poll, exitCode, unread>>
    BY <1>4 DEF Chunk
  <2> QED BY <2>3, <2>4, <2>5, <2>6
<1>5. ASSUME NEW s \in Streams, EndOfStream(s) PROVE TypeOK'
  BY <1>5 DEF EndOfStream, Pumping
<1>6. CASE Pumped
  BY <1>6 DEF Pumped, DisarmIfClean, PumpsEnded, LostStream
<1>7. CASE Deadline
  BY <1>7 DEF Deadline, PumpsEnded
<1>8. CASE StatusAnswered
  <2>1. info' \in {"running", "code", "exited"} /\ timer' \in {"off", timer}
    BY <1>8 DEF StatusAnswered, Readings
  <2>2. pc' \in {"sleeping", "stdout", "stderr", "done"}
    BY <1>8 DEF StatusAnswered, Goto, AfterPoll, AfterStdout
  <2>3. exitCode' \in {exitCode, "code", "0", "-1", "124"}
    BY <1>8 DEF StatusAnswered, Goto, ExitCode, Readings
  <2> QED BY <1>8, <2>1, <2>2, <2>3 DEF StatusAnswered, Streams
<1>9. CASE Woke
  BY <1>9 DEF Woke
<1>10. ASSUME NEW s \in Streams, BufferAnswered(s) PROVE TypeOK'
  <2>1. pc' \in {"stderr", "done"} /\ exitCode' \in {exitCode, "code", "0", "-1", "124"}
    BY <1>10 DEF BufferAnswered, Goto, AfterStdout, ExitCode
  <2>2. streamed' \in [Streams -> 0..MaxOutput]
    BY <1>10 DEF BufferAnswered, Backfill
  <2>3. heard' \in [Streams -> Seq(1..MaxOutput)]
    <3>1. pc = s /\ exitCode = "none"
      BY <1>10 DEF BufferAnswered, StageInv, Streams
    <3>2. CASE UNCHANGED heard
      BY <3>2
    <3>3. CASE /\ heard' = [heard EXCEPT ![s] = @ \o Rest(s, written[s])]
               /\ ~(written[s] <= streamed[s])
      <4>1. streamed[s] < written[s]
        BY <3>3
      <4> QED BY <3>1, <3>3, <4>1, RestType
    <3> QED BY <1>10, <3>2, <3>3 DEF BufferAnswered, Backfill
  <2>4. unread' \subseteq buffered
    BY <1>10 DEF BufferAnswered, StageInv
  <2> QED BY <1>10, <2>1, <2>2, <2>3, <2>4 DEF BufferAnswered, Streams
<1>11. ASSUME NEW s \in Streams, BackfillThrew(s) PROVE TypeOK'
  <2>1. pc = s /\ exitCode = "none"
    BY <1>11 DEF BackfillThrew, StageInv, Streams
  <2>2. /\ heard' = [heard EXCEPT ![s] = @ \o Rest(s, written[s])]
        /\ streamed[s] < written[s]
    BY <1>11 DEF BackfillThrew
  <2>3. heard' \in [Streams -> Seq(1..MaxOutput)]
    BY <2>1, <2>2, RestType
  <2> QED BY <1>11, <2>3 DEF BackfillThrew
<1>12. CASE UNCHANGED vars
  BY <1>12 DEF vars
<1> QED
  BY <1>1, <1>2, <1>3, <1>4, <1>5, <1>6, <1>7, <1>8, <1>9, <1>10, <1>11, <1>12
  DEF Next, Process, Pumps, Answers

LEMMA StageStep == StreamInv /\ [Next]_vars => StageInv'
<1> SUFFICES ASSUME StreamInv, [Next]_vars PROVE StageInv'
  OBVIOUS
<1> USE StreamAssumption DEF StreamInv, TypeOK, StageInv, EndInv, Streams, settings, world, output, deadline, poll
<1>1. ASSUME NEW s \in Streams, Write(s) PROVE StageInv'
  BY <1>1 DEF Write
<1>2. CASE Exit
  BY <1>2 DEF Exit
<1>3. CASE Started
  BY <1>3 DEF Started, ArmTimer
<1>4. ASSUME NEW s \in Streams, Chunk(s) PROVE StageInv'
  BY <1>4 DEF Chunk, Pumping
<1>5. ASSUME NEW s \in Streams, EndOfStream(s) PROVE StageInv'
  BY <1>5 DEF EndOfStream, Pumping
<1>6. CASE Pumped
  BY <1>6 DEF Pumped, DisarmIfClean, PumpsEnded, LostStream
<1>7. CASE Deadline
  BY <1>7 DEF Deadline, PumpsEnded
<1>8. CASE StatusAnswered
  BY <1>8 DEF StatusAnswered, Goto, AfterPoll, AfterStdout, ReadsBuffer, Readings, MayPoll, LostStream, ExitCode
<1>9. CASE Woke
  BY <1>9 DEF Woke
<1>10. ASSUME NEW s \in Streams, BufferAnswered(s) PROVE StageInv'
  BY <1>10 DEF BufferAnswered, Goto, AfterStdout, ReadsBuffer, Backfill, ExitCode
<1>11. ASSUME NEW s \in Streams, BackfillThrew(s) PROVE StageInv'
  BY <1>11 DEF BackfillThrew
<1>12. CASE UNCHANGED vars
  BY <1>12 DEF vars
<1> QED
  BY <1>1, <1>2, <1>3, <1>4, <1>5, <1>6, <1>7, <1>8, <1>9, <1>10, <1>11, <1>12
  DEF Next, Process, Pumps, Answers

LEMMA EndStep == StreamInv /\ [Next]_vars => EndInv'
<1> SUFFICES ASSUME StreamInv, [Next]_vars PROVE EndInv'
  OBVIOUS
<1> USE StreamAssumption DEF StreamInv, TypeOK, StageInv, EndInv, RecoveryInv, Streams, settings, world, output, deadline, poll
<1>1. ASSUME NEW s \in Streams, Write(s) PROVE EndInv'
  BY <1>1 DEF Write
<1>2. CASE Exit
  BY <1>2 DEF Exit
<1>3. CASE Started
  BY <1>3 DEF Started, ArmTimer
<1>4. ASSUME NEW s \in Streams, Chunk(s) PROVE EndInv'
  BY <1>4 DEF Chunk, Pumping
<1>5. ASSUME NEW s \in Streams, EndOfStream(s) PROVE EndInv'
  BY <1>5 DEF EndOfStream, Pumping
<1>6. CASE Pumped
  BY <1>6 DEF Pumped, DisarmIfClean, PumpsEnded, LostStream
<1>7. CASE Deadline
  BY <1>7 DEF Deadline, PumpsEnded
<1>8. CASE StatusAnswered
  BY <1>8 DEF StatusAnswered, Goto, AfterPoll, AfterStdout, ReadsBuffer, Readings, MayPoll, LostStream, ExitCode
<1>9. CASE Woke
  BY <1>9 DEF Woke
<1>10. ASSUME NEW s \in Streams, BufferAnswered(s) PROVE EndInv'
  BY <1>10 DEF BufferAnswered, Goto, AfterStdout, ReadsBuffer, Backfill, ExitCode
<1>11. ASSUME NEW s \in Streams, BackfillThrew(s) PROVE EndInv'
  BY <1>11 DEF BackfillThrew
<1>12. CASE UNCHANGED vars
  BY <1>12 DEF vars
<1> QED
  BY <1>1, <1>2, <1>3, <1>4, <1>5, <1>6, <1>7, <1>8, <1>9, <1>10, <1>11, <1>12
  DEF Next, Process, Pumps, Answers

\* A buffer that was asked for recovers its output, or is known to be unreadable.
LEMMA BufferRecovers ==
  ASSUME StreamInv, NEW s \in Streams, BufferAnswered(s)
  PROVE  /\ \A t \in Streams : streamed'[t] <= written[t]
         /\ Recovered(s)'
         /\ \A t \in Streams : Recovered(t) => Recovered(t)'
<1> USE DEF StreamInv, settings, world
<1>1. /\ streamed \in [Streams -> Nat] /\ written \in [Streams -> Nat]
      /\ \A t \in Streams : streamed[t] <= written[t]
  BY StreamAssumption DEF TypeOK, RecoveryInv
<1>2. UNCHANGED <<wire, written, buffered>> /\ wire[s] = "failed"
  BY DEF BufferAnswered, StageInv
<1>3. CASE Backfill(s, written[s]) /\ UNCHANGED unread
  <2>1. streamed' \in [Streams -> Nat] /\ streamed'[s] = written[s]
        /\ \A t \in Streams \ {s} : streamed'[t] = streamed[t]
    <3>1. CASE written[s] <= streamed[s]
      <4>1. streamed[s] = written[s]
        BY <1>1, <3>1
      <4> QED BY <1>1, <1>3, <3>1, <4>1 DEF Backfill
    <3>2. CASE ~(written[s] <= streamed[s])
      <4>1. streamed' = [streamed EXCEPT ![s] = written[s]]
        BY <1>3, <3>2 DEF Backfill
      <4> QED BY <1>1, <4>1
    <3> QED BY <3>1, <3>2
  <2> QED BY <1>1, <1>2, <1>3, <2>1 DEF Recovered
<1>4. CASE unread' = unread \cup {s} /\ UNCHANGED <<streamed, heard>>
  BY <1>1, <1>2, <1>4 DEF Recovered
<1> QED BY <1>3, <1>4 DEF BufferAnswered

LEMMA RecoveryStep == StreamInv /\ [Next]_vars => RecoveryInv'
<1> SUFFICES ASSUME StreamInv, [Next]_vars PROVE RecoveryInv'
  OBVIOUS
<1> USE StreamAssumption DEF StreamInv, TypeOK, StageInv, EndInv, RecoveryInv, Recovered, Streams, settings, world, output, deadline, poll
<1>1. ASSUME NEW s \in Streams, Write(s) PROVE RecoveryInv'
  BY <1>1 DEF Write
<1>2. CASE Exit
  BY <1>2 DEF Exit
<1>3. CASE Started
  BY <1>3 DEF Started, ArmTimer
<1>4. ASSUME NEW s \in Streams, Chunk(s) PROVE RecoveryInv'
  BY <1>4 DEF Chunk, Pumping
<1>5. ASSUME NEW s \in Streams, EndOfStream(s) PROVE RecoveryInv'
  BY <1>5 DEF EndOfStream, Pumping
<1>6. CASE Pumped
  BY <1>6 DEF Pumped, DisarmIfClean, PumpsEnded, LostStream
<1>7. CASE Deadline
  BY <1>7 DEF Deadline, PumpsEnded
<1>8. CASE StatusAnswered
  BY <1>8 DEF StatusAnswered, Goto, AfterPoll, AfterStdout, ReadsBuffer, Readings, MayPoll, LostStream, ExitCode
<1>9. CASE Woke
  BY <1>9 DEF Woke
<1>10. ASSUME NEW s \in Streams, BufferAnswered(s) PROVE RecoveryInv'
  <2>1. pc' = "stderr" => s = "stdout"
    BY <1>10 DEF BufferAnswered, Goto
  <2> QED BY <1>10, <2>1, BufferRecovers DEF BufferAnswered
<1>11. ASSUME NEW s \in Streams, BackfillThrew(s) PROVE RecoveryInv'
  BY <1>11 DEF BackfillThrew
<1>12. CASE UNCHANGED vars
  BY <1>12 DEF vars
<1> QED
  BY <1>1, <1>2, <1>3, <1>4, <1>5, <1>6, <1>7, <1>8, <1>9, <1>10, <1>11, <1>12
  DEF Next, Process, Pumps, Answers

LEMMA CompleteStep == StreamInv /\ [Next]_vars => CompleteOnExit'
<1> SUFFICES ASSUME StreamInv, [Next]_vars PROVE CompleteOnExit'
  OBVIOUS
<1> USE StreamAssumption DEF StreamInv, TypeOK, StageInv, EndInv, RecoveryInv, Recovered, CompleteOnExit, ExitIsReal, Streams, settings, world, output, deadline, poll
<1>1. ASSUME NEW s \in Streams, Write(s) PROVE CompleteOnExit'
  BY <1>1 DEF Write
<1>2. CASE Exit
  BY <1>2 DEF Exit
<1>3. CASE Started
  BY <1>3 DEF Started, ArmTimer
<1>4. ASSUME NEW s \in Streams, Chunk(s) PROVE CompleteOnExit'
  BY <1>4 DEF Chunk, Pumping
<1>5. ASSUME NEW s \in Streams, EndOfStream(s) PROVE CompleteOnExit'
  BY <1>5 DEF EndOfStream, Pumping
<1>6. CASE Pumped
  BY <1>6 DEF Pumped, DisarmIfClean, PumpsEnded, LostStream
<1>7. CASE Deadline
  BY <1>7 DEF Deadline, PumpsEnded
<1>8. CASE StatusAnswered
  BY <1>8 DEF StatusAnswered, Goto, AfterPoll, AfterStdout, ReadsBuffer, Readings, MayPoll, LostStream, ExitCode
<1>9. CASE Woke
  BY <1>9 DEF Woke
<1>10. ASSUME NEW s \in Streams, BufferAnswered(s) PROVE CompleteOnExit'
  <2> SUFFICES ASSUME exitCode' \in {"code", "0"} PROVE \A t \in Streams : Recovered(t)'
    OBVIOUS
  <2>1. ~timedOut /\ info # "running" /\ pc' = "done"
    BY <1>10 DEF BufferAnswered, Goto, ExitCode
  <2>2. CASE s = "stdout"
    <3>1. ~ReadsBuffer("stderr")
      BY <1>10, <2>1, <2>2 DEF BufferAnswered, Goto, AfterStdout
    <3>2. Recovered("stderr")
      BY <1>10, <2>1, <3>1 DEF BufferAnswered, ReadsBuffer
    <3> QED BY <1>10, <2>2, <3>2, BufferRecovers
  <2>3. CASE s = "stderr"
    <3>1. Recovered("stdout")
      BY <1>10, <2>1, <2>3 DEF BufferAnswered
    <3> QED BY <1>10, <2>3, <3>1, BufferRecovers
  <2> QED BY <2>2, <2>3
<1>11. ASSUME NEW s \in Streams, BackfillThrew(s) PROVE CompleteOnExit'
  BY <1>11 DEF BackfillThrew
<1>12. CASE UNCHANGED vars
  BY <1>12 DEF vars
<1> QED
  BY <1>1, <1>2, <1>3, <1>4, <1>5, <1>6, <1>7, <1>8, <1>9, <1>10, <1>11, <1>12
  DEF Next, Process, Pumps, Answers

LEMMA HonestStep == StreamInv /\ [Next]_vars => (ExitIsReal /\ FinishedIsNotTimedOut /\ NotLeftRunning)'
<1> SUFFICES ASSUME StreamInv, [Next]_vars PROVE (ExitIsReal /\ FinishedIsNotTimedOut /\ NotLeftRunning)'
  OBVIOUS
<1> USE StreamAssumption DEF StreamInv, TypeOK, StageInv, EndInv, ExitIsReal, FinishedIsNotTimedOut, NotLeftRunning, Streams, settings, world, output, deadline, poll
<1>1. ASSUME NEW s \in Streams, Write(s) PROVE (ExitIsReal /\ FinishedIsNotTimedOut /\ NotLeftRunning)'
  BY <1>1 DEF Write
<1>2. CASE Exit
  BY <1>2 DEF Exit
<1>3. CASE Started
  BY <1>3 DEF Started, ArmTimer
<1>4. ASSUME NEW s \in Streams, Chunk(s) PROVE (ExitIsReal /\ FinishedIsNotTimedOut /\ NotLeftRunning)'
  BY <1>4 DEF Chunk, Pumping
<1>5. ASSUME NEW s \in Streams, EndOfStream(s) PROVE (ExitIsReal /\ FinishedIsNotTimedOut /\ NotLeftRunning)'
  BY <1>5 DEF EndOfStream, Pumping
<1>6. CASE Pumped
  BY <1>6 DEF Pumped, DisarmIfClean, PumpsEnded, LostStream
<1>7. CASE Deadline
  BY <1>7 DEF Deadline, PumpsEnded
<1>8. CASE StatusAnswered
  BY <1>8 DEF StatusAnswered, Goto, AfterPoll, AfterStdout, ReadsBuffer, Readings, MayPoll, LostStream, ExitCode
<1>9. CASE Woke
  BY <1>9 DEF Woke
<1>10. ASSUME NEW s \in Streams, BufferAnswered(s) PROVE (ExitIsReal /\ FinishedIsNotTimedOut /\ NotLeftRunning)'
  BY <1>10 DEF BufferAnswered, Goto, AfterStdout, ReadsBuffer, Backfill, ExitCode
<1>11. ASSUME NEW s \in Streams, BackfillThrew(s) PROVE (ExitIsReal /\ FinishedIsNotTimedOut /\ NotLeftRunning)'
  BY <1>11 DEF BackfillThrew
<1>12. CASE UNCHANGED vars
  BY <1>12 DEF vars
<1> QED
  BY <1>1, <1>2, <1>3, <1>4, <1>5, <1>6, <1>7, <1>8, <1>9, <1>10, <1>11, <1>12
  DEF Next, Process, Pumps, Answers

LEMMA DeliveryStep == StreamInv /\ [Next]_vars => DeliveredInOrder'
<1> SUFFICES ASSUME StreamInv, [Next]_vars PROVE DeliveredInOrder'
  OBVIOUS
<1> USE DEF StreamInv, settings, world, output, deadline, poll
\* Nothing delivered and no new failure: nothing to show.
<1>1. ASSUME UNCHANGED <<streamed, heard>>, exitCode' = "127" \/ exitCode # "127" PROVE DeliveredInOrder'
  BY <1>1 DEF DeliveredInOrder
\* A delivery to one callback that hears what the result holds.
<1>2. ASSUME NEW s \in Streams, NEW n \in Nat,
             heard'[s] = FirstChunks(n), \A t \in Streams \ {s} : heard'[t] = heard[t],
             exitCode = "none",
             \/ streamed'[s] = n /\ \A t \in Streams \ {s} : streamed'[t] = streamed[t]
             \/ exitCode' = "127"
      PROVE  DeliveredInOrder'
  BY <1>2, FirstChunksType DEF DeliveredInOrder
<1>3. ASSUME NEW s \in Streams, Write(s) PROVE DeliveredInOrder'
  BY <1>1, <1>3 DEF Write
<1>4. CASE Exit
  BY <1>1, <1>4 DEF Exit
<1>5. CASE Started
  BY <1>1, <1>5 DEF Started, StageInv
<1>6. ASSUME NEW s \in Streams, Chunk(s) PROVE DeliveredInOrder'
  <2>1. exitCode = "none"
    BY <1>6 DEF Chunk, Pumping, StageInv
  <2>2. streamed \in [Streams -> 0..MaxOutput] /\ streamed' = [streamed EXCEPT ![s] = @ + 1]
    BY <1>6 DEF Chunk, TypeOK
  <2>3. streamed[s] + 1 \in Nat
    BY <2>2, StreamAssumption
  <2> QED BY <1>2, <1>6, <2>1, <2>2, <2>3, ChunkHeard
<1>7. ASSUME NEW s \in Streams, EndOfStream(s) PROVE DeliveredInOrder'
  BY <1>1, <1>7 DEF EndOfStream
<1>8. CASE Pumped
  BY <1>1, <1>8 DEF Pumped
<1>9. CASE Deadline
  BY <1>1, <1>9 DEF Deadline
<1>10. CASE StatusAnswered
  <2>1. exitCode = "none"
    BY <1>10 DEF StatusAnswered, StageInv
  <2> QED BY <1>1, <1>10, <2>1 DEF StatusAnswered
<1>11. CASE Woke
  BY <1>1, <1>11 DEF Woke
<1>12. ASSUME NEW s \in Streams, BufferAnswered(s) PROVE DeliveredInOrder'
  <2>1. exitCode = "none"
    BY <1>12 DEF BufferAnswered, StageInv, Streams
  <2>2. CASE UNCHANGED <<streamed, heard>>
    BY <1>1, <2>1, <2>2
  <2>3. CASE /\ ~(written[s] <= streamed[s])
             /\ heard' = [heard EXCEPT ![s] = @ \o Rest(s, written[s])]
             /\ streamed' = [streamed EXCEPT ![s] = written[s]]
    <3>1. streamed \in [Streams -> Nat] /\ written \in [Streams -> Nat]
      BY StreamAssumption DEF TypeOK
    <3>2. streamed[s] < written[s]
      BY <2>3, <3>1
    <3> QED BY <1>2, <2>1, <2>3, <3>1, <3>2, RestHeard
  <2> QED BY <1>12, <2>2, <2>3 DEF BufferAnswered, Backfill
<1>13. ASSUME NEW s \in Streams, BackfillThrew(s) PROVE DeliveredInOrder'
  <2>1. exitCode = "none"
    BY <1>13 DEF BackfillThrew, StageInv, Streams
  <2>2. written \in [Streams -> Nat] /\ streamed \in [Streams -> Nat]
    BY StreamAssumption DEF TypeOK
  <2>3. /\ heard' = [heard EXCEPT ![s] = @ \o Rest(s, written[s])]
        /\ streamed[s] < written[s] /\ exitCode' = "127"
    BY <1>13, <2>2 DEF BackfillThrew
  <2> QED BY <1>2, <2>1, <2>2, <2>3, RestHeard
<1>14. CASE UNCHANGED vars
  BY <1>1, <1>14 DEF vars
<1> QED
  BY <1>3, <1>4, <1>5, <1>6, <1>7, <1>8, <1>9, <1>10, <1>11, <1>12, <1>13, <1>14
  DEF Next, Process, Pumps, Answers

----------------------------------------------------------------------------
LEMMA InvStep == StreamInv /\ [Next]_vars => StreamInv'
  BY TypeStep, StageStep, EndStep, RecoveryStep, CompleteStep, HonestStep, DeliveryStep DEF StreamInv

LEMMA InvAlways == Spec => []StreamInv
  BY InvInit, InvStep, PTL DEF Spec

\* The types hold in every reachable state.
THEOREM StreamTypeCorrect == Spec => []TypeOK
<1>1. StreamInv => TypeOK
  BY DEF StreamInv
<1> QED BY <1>1, InvAlways, PTL

\* Each callback hears the output of the process once and in order, however the streams drop
\* and whatever the buffer holds (stream-process.ts:80).
THEOREM OutputDeliveredInOrder == Spec => []DeliveredInOrder
<1>1. StreamInv => DeliveredInOrder
  BY DEF StreamInv
<1> QED BY <1>1, InvAlways, PTL

\* An exit that is reported is real, and comes with all the output that could be had
\* (stream-process.ts:164, 183, 192).
THEOREM ExitsAreRealAndComplete == Spec => [](ExitIsReal /\ CompleteOnExit)
<1>1. StreamInv => ExitIsReal /\ CompleteOnExit
  BY DEF StreamInv
<1> QED BY <1>1, InvAlways, PTL

\* A call with a timeout does not end and leave a command running that nobody kills
\* (stream-process.ts:123, 155-163).
THEOREM DeadlineIsExact == Spec => []NotLeftRunning
<1>1. StreamInv => NotLeftRunning
  BY DEF StreamInv
<1> QED BY <1>1, InvAlways, PTL

\* A late deadline does not claim a command both of whose streams have ended by themselves
\* (stream-process.ts:123, 162).
THEOREM FinishedIsNeverTimedOut == Spec => []FinishedIsNotTimedOut
<1>1. StreamInv => FinishedIsNotTimedOut
  BY DEF StreamInv
<1> QED BY <1>1, InvAlways, PTL

----------------------------------------------------------------------------
\* The refinement.

\* How the call ended, and that nothing is heard that was not written, what a callback threw
\* at included.
HeardInv ==
    /\ pc = "done" => exitCode # "none"
    /\ exitCode = "124" => timedOut
    /\ \A s \in Streams : Len(heard[s]) <= written[s]

\* The values the refinement mapping gives the variables of OutputChannels.
ClosedBar == IF pc = "done" THEN Streams ELSE {}
WholeBar == {s \in Streams :
               /\ ~timedOut
               /\ exitCode \notin {"-1", "127"}
               /\ wire[s] # "failed" \/ s \in buffered \ unread}

\* What a step does to a channel: the call stays settled, no excuse is taken back, and the
\* output and what is heard of it only grow.
Grows ==
    /\ pc = "done" => pc' = "done" /\ UNCHANGED heard
    /\ WholeBar' \subseteq WholeBar
    /\ \A s \in Streams : written[s] <= written'[s] /\ Len(heard[s]) <= Len(heard'[s])

LEMMA HeardInit == Init => HeardInv
BY DEF Init, HeardInv, Streams

LEMMA HeardTypes ==
  ASSUME TypeOK
  PROVE  /\ written \in [Streams -> Nat] /\ streamed \in [Streams -> Nat]
         /\ \A s \in Streams : Len(heard[s]) \in Nat
BY StreamAssumption DEF TypeOK

LEMMA HeardStep ==
  ASSUME StreamInv, HeardInv, [Next]_vars
  PROVE  HeardInv' /\ Grows
<1>0. TypeOK /\ TypeOK' /\ DeliveredInOrder /\ StageInv /\ RecoveryInv
  BY InvStep DEF StreamInv
<1> USE DEF HeardInv, Grows, WholeBar, settings, world, output, deadline, poll
<1>1. /\ \A s \in Streams : Len(heard[s]) \in Nat /\ written[s] \in Nat /\ streamed[s] \in Nat
      /\ \A s \in Streams : streamed[s] <= written[s]
  BY <1>0, HeardTypes DEF RecoveryInv
<1>2. exitCode = "none" => \A s \in Streams : Len(heard[s]) = streamed[s]
  BY <1>0 DEF DeliveredInOrder
<1>3. pc = "done" \/ exitCode = "none"
  BY <1>0 DEF StageInv
\* One more chunk, or all that is left, is heard while the call goes on.
<1>4. ASSUME NEW s \in Streams, NEW n \in Nat, exitCode = "none", pc # "done",
             heard'[s] = FirstChunks(n), streamed[s] <= n, n <= written[s],
             \A t \in Streams \ {s} : heard'[t] = heard[t], UNCHANGED written
      PROVE  \A t \in Streams : Len(heard[t]) <= Len(heard'[t]) /\ Len(heard'[t]) <= written'[t]
  <2>1. Len(heard'[s]) = n
    BY <1>4, FirstChunksType
  <2> QED BY <1>1, <1>2, <1>4, <2>1
<1>5. ASSUME NEW s \in Streams, Write(s) PROVE HeardInv' /\ Grows
  <2>1. /\ UNCHANGED <<timeout, buffered, pc, wire, heard, exitCode, unread, timedOut>>
        /\ \A t \in Streams : written'[t] \in Nat /\ written[t] <= written'[t]
    BY <1>0, <1>1, <1>5, HeardTypes DEF Write
  <2> QED BY <1>1, <2>1
<1>6. CASE Exit \/ Pumped \/ Woke \/ UNCHANGED vars
  <2>1. /\ UNCHANGED <<timeout, buffered, written, wire, heard, exitCode, unread, timedOut>>
        /\ pc' # pc => pc # "done" /\ pc' # "done"
    BY <1>6 DEF Exit, Pumped, PumpsEnded, Woke, vars
  <2> QED BY <1>1, <2>1
<1>7. CASE Started
  BY <1>1, <1>3, <1>7 DEF Started
<1>8. ASSUME NEW s \in Streams, Chunk(s) PROVE HeardInv' /\ Grows
  <2>1. /\ UNCHANGED <<timeout, buffered, written, pc, exitCode, unread, timedOut>>
        /\ pc = "pumping" /\ wire[s] = "open" /\ streamed[s] < written[s]
        /\ UNCHANGED wire \/ wire' = [wire EXCEPT ![s] = "failed"]
    BY <1>8 DEF Chunk, Pumping
  <2>2. exitCode = "none"
    BY <1>3, <2>1
  <2>3. \A t \in Streams : wire[t] = "failed" => wire'[t] = "failed"
    BY <1>0, <2>1 DEF TypeOK
  <2>4. \A t \in Streams : Len(heard[t]) <= Len(heard'[t]) /\ Len(heard'[t]) <= written'[t]
    <3>1. /\ streamed[s] + 1 \in Nat /\ heard'[s] = FirstChunks(streamed[s] + 1)
          /\ \A t \in Streams \ {s} : heard'[t] = heard[t]
      BY <1>0, <1>1, <1>8, <2>2, ChunkHeard
    <3> QED BY <1>1, <1>4, <2>1, <2>2, <3>1
  <2> QED BY <1>1, <2>1, <2>2, <2>3, <2>4
<1>9. ASSUME NEW s \in Streams, EndOfStream(s) PROVE HeardInv' /\ Grows
  <2>1. /\ UNCHANGED <<timeout, buffered, written, pc, heard, exitCode, unread, timedOut>>
        /\ wire[s] = "open" /\ \E w \in {"ended", "failed", "cut"} : wire' = [wire EXCEPT ![s] = w]
    BY <1>9 DEF EndOfStream, Pumping
  <2>2. \A t \in Streams : wire[t] = "failed" => wire'[t] = "failed"
    BY <1>0, <2>1 DEF TypeOK
  <2> QED BY <1>1, <2>1, <2>2
<1>10. CASE Deadline
  BY <1>1, <1>10 DEF Deadline
<1>11. CASE StatusAnswered
  <2>1. /\ UNCHANGED <<timeout, buffered, written, wire, heard, unread, timedOut>>
        /\ pc = "status"
        /\ pc' = "done" => exitCode' \in {"code", "0", "-1", "124"} /\ (exitCode' = "124" <=> timedOut)
        /\ pc' # "done" => exitCode' = exitCode
    BY <1>11 DEF StatusAnswered, Goto, ExitCode, Readings
  <2> QED BY <1>1, <1>3, <2>1
<1>12. ASSUME NEW s \in Streams, BufferAnswered(s) PROVE HeardInv' /\ Grows
  <2>1. /\ UNCHANGED <<timeout, buffered, written, wire, timedOut>>
        /\ pc = s /\ unread \subseteq unread' /\ pc # "done"
        /\ pc' = "done" => exitCode' \in {"code", "0", "-1", "124"} /\ (exitCode' = "124" => timedOut)
        /\ pc' # "done" => exitCode' = exitCode
    BY <1>0, <1>12 DEF BufferAnswered, Goto, ExitCode, TypeOK, Streams
  <2>2. \A t \in Streams : Len(heard[t]) <= Len(heard'[t]) /\ Len(heard'[t]) <= written'[t]
    <3>1. CASE UNCHANGED heard
      BY <1>1, <1>2, <1>3, <2>1, <3>1
    <3>2. CASE heard' = [heard EXCEPT ![s] = @ \o Rest(s, written[s])] /\ ~(written[s] <= streamed[s])
      <4>1. streamed[s] < written[s] /\ exitCode = "none"
        BY <1>1, <1>3, <2>1, <3>2
      <4>2. heard'[s] = FirstChunks(written[s]) /\ \A t \in Streams \ {s} : heard'[t] = heard[t]
        BY <1>0, <3>2, <4>1, RestHeard
      <4> QED BY <1>1, <1>4, <2>1, <4>1, <4>2
    <3> QED BY <1>12, <3>1, <3>2 DEF BufferAnswered, Backfill
  <2> QED BY <1>1, <1>3, <2>1, <2>2
<1>13. ASSUME NEW s \in Streams, BackfillThrew(s) PROVE HeardInv' /\ Grows
  <2>1. /\ UNCHANGED <<timeout, buffered, written, wire, unread, timedOut>>
        /\ pc = s /\ pc # "done" /\ pc' = "done" /\ exitCode' = "127" /\ written[s] > streamed[s]
        /\ heard' = [heard EXCEPT ![s] = @ \o Rest(s, written[s])]
    BY <1>13 DEF BackfillThrew, Streams
  <2>2. exitCode = "none" /\ streamed[s] < written[s]
    BY <1>1, <1>3, <2>1
  <2>3. heard'[s] = FirstChunks(written[s]) /\ \A t \in Streams \ {s} : heard'[t] = heard[t]
    BY <1>0, <2>1, <2>2, RestHeard
  <2>4. \A t \in Streams : Len(heard[t]) <= Len(heard'[t]) /\ Len(heard'[t]) <= written'[t]
    <3>1. written[s] \in Nat /\ streamed[s] <= written[s] /\ written[s] <= written[s] /\ UNCHANGED written
      BY <1>1, <2>1
    <3> HIDE DEF Grows, HeardInv, WholeBar
    <3> QED BY <1>4, <2>1, <2>2, <2>3, <3>1, Zenon
  <2>5. HeardInv'
    BY <2>1, <2>4
  <2>6. WholeBar' = {}
    BY <2>1
  <2>7. \A t \in Streams : written[t] <= written'[t]
    BY <1>1, <2>1
  <2>8. WholeBar' \subseteq WholeBar /\ pc # "done"
    BY <2>1, <2>6
  <2> HIDE DEF WholeBar, HeardInv
  <2> QED BY <2>4, <2>5, <2>7, <2>8
<1> QED
  BY <1>5, <1>6, <1>7, <1>8, <1>9, <1>10, <1>11, <1>12, <1>13 DEF Next, Process, Pumps, Answers

\* What is first heard of a channel, or heard next, is a run of it.
LEMMA RunExtends ==
  ASSUME NEW n \in Nat, NEW m \in Nat, n <= m
  PROVE  FirstChunks(m) = FirstChunks(n) \o Channels!Run(n + 1, m)
<1>1. Channels!Run(n + 1, m) = [i \in 1..(m - n) |-> n + i]
  BY DEF Channels!Run
<1> QED BY <1>1, FirstChunksRest, Zenon

LEMMA WholeRun == ASSUME NEW n \in Nat PROVE FirstChunks(n) = Channels!Run(1, n)
BY DEF FirstChunks, Channels!Run

LEMMA StepDelivers ==
  ASSUME StreamInv, HeardInv, StreamInv', HeardInv', Grows, NEW s \in Streams
  PROVE  Channels!Deliver(s)
<1> DEFINE n == Len(heard[s])
           m == Len(heard'[s])
<1>1. n \in Nat /\ m \in Nat /\ written'[s] \in Nat
  BY HeardTypes DEF StreamInv, TypeOK
<1>2. n <= m /\ m <= written'[s]
  BY DEF Grows, HeardInv
<1>3. heard[s] = FirstChunks(n) /\ heard'[s] = FirstChunks(m)
  BY DEF StreamInv, DeliveredInOrder
<1>4. heard'[s] = heard[s] \o Channels!Run(n + 1, m)
  BY <1>1, <1>2, <1>3, RunExtends
<1>5. heard[s] # <<>> => n + 1 = heard[s][Len(heard[s])] + 1
  BY <1>1, <1>3 DEF FirstChunks
<1>6. heard[s] = <<>> => n + 1 = 1
  OBVIOUS
<1>7. n + 1 \in 1..(written'[s] + 1) /\ m \in (n + 1 - 1)..written'[s]
  BY <1>1, <1>2
<1> HIDE DEF n, m
<1>8. \E i \in 1..(written'[s] + 1) : \E j \in (i - 1)..written'[s] :
        /\ heard'[s] = heard[s] \o Channels!Run(i, j)
        /\ heard[s] # <<>> => i = heard[s][Len(heard[s])] + 1
        /\ heard[s] = <<>> => i = 1
  <2> USE <1>1, <1>7
  <2> WITNESS n + 1 \in 1..(written'[s] + 1)
  <2> WITNESS m \in (n + 1 - 1)..written'[s]
  <2> QED BY <1>4, <1>5, <1>6
<1> QED BY <1>8 DEF Channels!Deliver

\* A call that ends leaves nothing unheard of a channel that nothing excuses.
LEMMA EndHeardAll ==
  ASSUME StreamInv', HeardInv', pc' = "done", NEW s \in Streams, s \in WholeBar'
  PROVE  heard'[s] = Channels!Run(1, written'[s])
<1>1. exitCode' \in {"code", "0"}
  BY DEF StreamInv, TypeOK, HeardInv, WholeBar
<1>2. streamed'[s] = written'[s]
  BY <1>1 DEF StreamInv, CompleteOnExit, Recovered, WholeBar
<1>3. heard'[s] = FirstChunks(written'[s])
  BY <1>1, <1>2 DEF StreamInv, DeliveredInOrder
<1>4. written'[s] \in Nat
  BY HeardTypes DEF StreamInv, TypeOK
<1> QED BY <1>3, <1>4, WholeRun

\* streamCommandViaProcess implements OutputChannels, for any amount of output: each callback
\* hears the chunks once and in order, nothing once the call has settled, and all of them
\* unless one of the excuses of the mapping applies (stream-process.ts:143-198).
THEOREM StreamsImplementChannels == Spec => StreamsAreChannels
<1>1. Init => Channels!Init
  BY DEF Init, Channels!Init, Streams
<1>2. StreamInv /\ HeardInv /\ [Next]_vars => [Channels!Next]_Channels!vars
  <2> SUFFICES ASSUME StreamInv, HeardInv, [Next]_vars PROVE Channels!Next
    OBVIOUS
  <2>1. StreamInv' /\ HeardInv' /\ Grows
    BY InvStep, HeardStep
  <2>2. ClosedBar \subseteq ClosedBar' /\ WholeBar' \subseteq WholeBar
    BY <2>1 DEF Grows, ClosedBar
  <2>3. ASSUME NEW s \in Streams
        PROVE  /\ written'[s] >= written[s]
               /\ Channels!Silent(s) \/ Channels!Goes(s) \/ Channels!Settles(s)
    <3>1. written'[s] >= written[s]
      BY <2>1, HeardTypes DEF Grows, StreamInv
    <3>2. CASE pc = "done"
      BY <2>1, <3>1, <3>2 DEF Grows, Channels!Silent
    <3>3. CASE pc' # "done"
      BY <2>1, <3>1, <3>3, StepDelivers DEF Channels!Goes
    <3>4. CASE pc # "done" /\ pc' = "done"
      <4>1. s \in WholeBar' => heard'[s] = Channels!Run(1, written'[s])
        BY <2>1, <3>4, EndHeardAll
      <4> QED BY <2>1, <3>1, <3>4, <4>1, StepDelivers DEF Channels!Settles, WholeBar
    <3> QED BY <3>2, <3>3, <3>4
  <2> QED BY <2>2, <2>3 DEF Channels!Next, ClosedBar, WholeBar
<1>3. StreamInv /\ HeardInv /\ [Next]_vars => HeardInv'
  BY HeardStep
<1> QED
  BY <1>1, <1>2, <1>3, HeardInit, InvAlways, PTL DEF Spec, StreamsAreChannels, Channels!Spec
=============================================================================
