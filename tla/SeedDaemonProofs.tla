--------------------------- MODULE SeedDaemonProofs ---------------------------
(***************************************************************************)
(* Theorems about the seed daemon, for any set of jobs and of clients and  *)
(* any number of requests, and about the streaming calls that run their    *)
(* commands on it (DaemonBridge).                                          *)
(***************************************************************************)
EXTENDS SeedDaemonProperties, DaemonBridge, TLAPS

\* Before its end a job has no note.
NotesComeLast == \A j \in Jobs : job[j].status # "exited" => job[j].notes = 0

\* Who listens to a job asked about that job, has no answer yet, and the job runs.
ListenersWait ==
    \A j \in Jobs : \A r \in onExit[j] :
        /\ asked[r] \in {<<"exec", j>>, <<"wait", j>>}
        /\ answers[r] = <<>>
        /\ job[j].status = "running"

\* The timer of a wait runs only beside its listener.
WaitTimersHaveListeners ==
    \A r \in Requests :
        <<"wait", r>> \in timers => \E j \in Jobs : asked[r] = <<"wait", j>> /\ r \in onExit[j]

NothingAskedNothingAnswered ==
    \A r \in Requests : asked[r] = <<"nothing">> => answers[r] = <<>>

AskingInv == ListenersWait /\ WaitTimersHaveListeners /\ NothingAskedNothingAnswered

\* What the process group of a job says of the job.
ChildrenMatchJobs ==
    \A j \in Jobs :
        /\ child[j] = "none" <=> job[j].status = "none"
        /\ child[j] = "unspawned" => job[j].status = "running"
        /\ mayKill /\ child[j] \in {"running", "killed"} => job[j].status = "running"

\* What its timers say of a job.
TimersMeanJobs ==
    \A j \in Jobs :
        /\ <<"retention", j>> \in timers => job[j].status = "exited"
        /\ \A k \in {"deadline", "kill"} :
              <<k, j>> \in timers =>
                  /\ job[j].status # "none"
                  /\ mayKill => job[j].status = "running"

\* A job belongs to the one exec that started it, attached or not.
OneExecPerJob ==
    \A r \in Requests, j \in Jobs :
        /\ asked[r] \in {<<"exec", j>>, <<"detach", j>>} => job[j].status # "none"
        /\ asked[r] = <<"detach", j>> => \A q \in Requests : asked[q] # <<"exec", j>>

\* What the log tells of a job has happened to it.
LogMatchesJobs ==
    mayKill => \A i \in DOMAIN log : log[i][2] = "exit" => job[log[i][1]].status = "exited"

TypeInv == TypeOK /\ NotesComeLast
JobInv == ChildrenMatchJobs /\ TimersMeanJobs /\ OneExecPerJob

DaemonInv ==
    /\ TypeInv /\ AskingInv /\ JobInv
    /\ AnsweredOnce
    /\ LogMatchesJobs /\ ExitIsFinal
    /\ RetrievableUntilForgotten

----------------------------------------------------------------------------
(* The steps, by what they do to the state.  A `what` that neither starts a job nor     *)
(* waits for one is answered at once.                                                   *)

SameJobs == UNCHANGED <<job, jobs, log>>
SameClients == UNCHANGED <<mayKill, daemon, conn, joined>>

\* A request that is answered on the spot.
Answers(r, what, a) ==
    /\ Asks(r, what)
    /\ what \in Asked /\ what # <<"nothing">>
    /\ \A j \in Jobs : what \notin {<<"exec", j>>, <<"detach", j>>}
    /\ a \in Answer
    /\ a.type = "result" => a = jobSnapshot(a.job, job[a.job])
    /\ answers' = reply(answers, {r}, a)
    /\ child' \in {child} \cup {SIGKILLed(j) : j \in Jobs}
    /\ timers' \in {timers, timers \cup {<<"exit", "daemon">>}}
    /\ UNCHANGED onExit
    /\ SameJobs /\ SameClients

Attached(r, j) ==
    /\ Asks(r, <<"exec", j>>)
    /\ onExit' = [onExit EXCEPT ![j] = {r}]
    /\ UNCHANGED answers

Detached(r, j) ==
    /\ Asks(r, <<"detach", j>>)
    /\ answers' = reply(answers, {r}, jobSnapshot(j, job'[j]))
    /\ UNCHANGED onExit

\* A job that starts, with the exec that asked for it.
Starts(r, j) ==
    /\ job[j].status = "none"
    /\ job' \in [Jobs -> Job]
    /\ job'[j] = [job[j] EXCEPT !.status = "running"]
    /\ job'[j].status = "running" /\ job'[j].code = job[j].code /\ job'[j].notes = job[j].notes
    /\ \A i \in Jobs : i # j => job'[i] = job[i]
    /\ jobs' = jobs \cup {j}
    /\ child'[j] \in {"running", "unspawned"}
    /\ \A i \in Jobs : i # j => child'[i] = child[i]
    /\ timers' \in {timers, timers \cup {<<"deadline", j>>}}
    /\ log' = Append(log, <<j, "started">>)
    /\ SameClients
    /\ Attached(r, j) \/ Detached(r, j)

\* A running job that ends; rs are the requests answered beside its listeners.
Finishes(j, rs) ==
    /\ job[j].status = "running"
    /\ job' \in [Jobs -> Job]
    /\ job'[j].status = "exited" /\ job'[j].code # "none"
    /\ \A i \in Jobs : i # j => job'[i] = job[i]
    /\ onExit' = [onExit EXCEPT ![j] = {}]
    /\ answers' = reply(answers, onExit[j] \cup rs, jobSnapshot(j, job'[j]))
    /\ jobs' = Kept(j)
    /\ timers' \in {TimersAfter(j), TimersAfter(j) \cup {<<"kill", j>>}}
    /\ mayKill => timers' = TimersAfter(j)
    /\ child'[j] \in {"running", "closed"}
    /\ mayKill => child'[j] = "closed"
    /\ \A i \in Jobs : i # j => child'[i] = child[i]
    /\ log' = Append(log, <<j, "exit">>)
    /\ SameClients
    /\ \/ rs = {} /\ UNCHANGED asked
       \/ \E r \in Requests : rs = {r} /\ Asks(r, <<"kill", j>>)

\* What Ended makes of the Job of a running child, be it late or with the text of an error.
LEMMA EndedJobs ==
    ASSUME TypeInv, NEW j \in Jobs, job[j].status = "running",
           NEW o \in {job[j], WithErrorText(job[j]),
                      WithErrorText([job[j] EXCEPT !.timedOut = TRUE])},
           NEW code \in {"own", "127"}
    PROVE  /\ Ended(o, code) \in Job
           /\ Ended(o, code).status = "exited"
           /\ Ended(o, code).code = code
<1>1. job[j] \in Job /\ job[j].notes = 0
    BY DEF TypeInv, TypeOK, NotesComeLast
<1>2. ASSUME NEW p \in Job, p.notes = 0
      PROVE  WithErrorText(p) \in Job /\ WithErrorText(p).notes = 1
    <2>1. WithErrorText(p) = [p EXCEPT !.notes = 1]
        BY <1>2 DEF Job, WithErrorText
    <2> QED
        BY <1>2, <2>1 DEF Job
<1>3. [job[j] EXCEPT !.timedOut = TRUE] \in Job /\ [job[j] EXCEPT !.timedOut = TRUE].notes = 0
    BY <1>1 DEF Job
<1>4. o \in Job /\ o.notes \in {0, 1}
    BY <1>1, <1>2, <1>3
<1>5. PICK n \in 0..2 :
          Ended(o, code) = [o EXCEPT !.status = "exited", !.code = code, !.notes = n]
    <2>1. o.notes \in 0..2 /\ o.notes + 1 \in 0..2
        BY <1>4
    <2> QED
        BY <1>4, <2>1 DEF Ended, Job
<1> QED
    BY <1>4, <1>5 DEF Job

LEMMA Snapshots ==
    ASSUME TypeOK, NEW j \in Jobs, NEW o \in Job, o.status # "none"
    PROVE  /\ jobSnapshot(j, o) \in Answer
           /\ jobSnapshot(j, o).type = "result"
           /\ jobSnapshot(j, o).job = j
           /\ jobSnapshot(j, o).status = o.status
<1>1. o.chunks + o.notes \in 0..MaxChunks + 2
    BY DaemonAssumption DEF DaemonAssumption, Job
<1> QED
    BY <1>1 DEF jobSnapshot, Answer, Job

LEMMA AnsweredRequests ==
    ASSUME TypeInv, NEW r \in Requests,
           \/ ExecWithoutCommand(r)
           \/ handleStop(r)
           \/ \E j \in Jobs :
                 \/ \E kind \in {"wait", "status", "kill"} : handleUnknown(r, j, kind)
                 \/ \E kind \in {"wait", "status"} : AnswerNow(r, j, kind)
                 \/ ~Refused(j) /\ \E signal \in {"SIGTERM", "SIGKILL"} : handleKill(r, j, signal)
    PROVE  \E what \in Asked, a \in Answer : Answers(r, what, a)
<1>1. CASE ExecWithoutCommand(r)
    <2>1. Answers(r, <<"exec">>, [type |-> "no command"])
        BY <1>1 DEF ExecWithoutCommand, Answers, Asks, state, events, SameJobs, SameClients, Answer, Asked
    <2>2. <<"exec">> \in Asked /\ [type |-> "no command"] \in Answer
        BY <2>1 DEF Answers
    <2> QED
        BY <2>1, <2>2
<1>2. CASE handleStop(r)
    <2>1. Answers(r, <<"stop">>, [type |-> "stopped"])
        BY <1>2 DEF handleStop, Answers, Asks, events, SameJobs, SameClients, Answer, Asked
    <2>2. <<"stop">> \in Asked /\ [type |-> "stopped"] \in Answer
        BY <2>1 DEF Answers
    <2> QED
        BY <2>1, <2>2
<1>3. ASSUME NEW j \in Jobs, NEW kind \in {"wait", "status", "kill"}, handleUnknown(r, j, kind)
      PROVE  \E what \in Asked, a \in Answer : Answers(r, what, a)
    <2>1. Answers(r, <<kind, j>>, [type |-> "unknown", job |-> j])
        BY <1>3 DEF handleUnknown, Answers, Asks, state, events, SameJobs, SameClients, Answer, Asked
    <2>2. <<kind, j>> \in Asked /\ [type |-> "unknown", job |-> j] \in Answer
        BY <2>1 DEF Answers
    <2> QED
        BY <2>1, <2>2
<1>4. ASSUME NEW j \in jobs
      PROVE  jobSnapshot(j, job[j]) \in Answer /\ j \in Jobs /\ jobSnapshot(j, job[j]).job = j
    BY Snapshots DEF TypeInv, TypeOK
<1>5. ASSUME NEW j \in Jobs, NEW kind \in {"wait", "status"}, AnswerNow(r, j, kind)
      PROVE  \E what \in Asked, a \in Answer : Answers(r, what, a)
    <2>1. Answers(r, <<kind, j>>, jobSnapshot(j, job[j]))
        BY <1>4, <1>5 DEF AnswerNow, Answers, Asks, state, events, SameJobs, SameClients, Asked
    <2>2. <<kind, j>> \in Asked /\ jobSnapshot(j, job[j]) \in Answer
        BY <2>1 DEF Answers
    <2> QED
        BY <2>1, <2>2
<1>6. ASSUME NEW j \in Jobs, ~Refused(j),
             NEW signal \in {"SIGTERM", "SIGKILL"}, handleKill(r, j, signal)
      PROVE  \E what \in Asked, a \in Answer : Answers(r, what, a)
    <2>1. Answers(r, <<"kill", j>>, jobSnapshot(j, job[j]))
        BY <1>4, <1>6 DEF handleKill, Answers, Asks, publish, state, events, SameJobs, SameClients, Asked
    <2>2. <<"kill", j>> \in Asked /\ jobSnapshot(j, job[j]) \in Answer
        BY <2>1 DEF Answers
    <2> QED
        BY <2>1, <2>2
<1> QED
    BY <1>1, <1>2, <1>3, <1>5, <1>6

LEMMA StartedJobs ==
    ASSUME TypeInv, NEW r \in Requests, NEW j \in Jobs,
           ExecAttached(r, j) \/ \E timed \in BOOLEAN : ExecDetached(r, j, timed)
    PROVE  Starts(r, j)
<1>1. /\ job \in [Jobs -> Job] /\ child \in [Jobs -> {"none", "running", "unspawned", "killed", "closed"}]
      /\ onExit \in [Jobs -> SUBSET Requests]
    BY DEF TypeInv, TypeOK
<1>2. ASSUME NEW timed \in BOOLEAN, startJob(j, timed)
      PROVE  /\ job[j].status = "none"
             /\ job' \in [Jobs -> Job]
             /\ job'[j] = [job[j] EXCEPT !.status = "running"]
             /\ \A i \in Jobs : i # j => job'[i] = job[i]
             /\ jobs' = jobs \cup {j}
             /\ child'[j] \in {"running", "unspawned"}
             /\ \A i \in Jobs : i # j => child'[i] = child[i]
             /\ timers' \in {timers, timers \cup {<<"deadline", j>>}}
             /\ log' = Append(log, <<j, "started">>)
             /\ UNCHANGED joined
    BY <1>1, <1>2 DEF startJob, publish, Job
<1>3. CASE ExecAttached(r, j)
    <2>1. Asks(r, <<"exec", j>>) /\ startJob(j, TRUE) /\ onExit' = [onExit EXCEPT ![j] = {r}]
          /\ UNCHANGED answers
        BY <1>3 DEF ExecAttached
    <2> QED
        BY <2>1, <1>1, <1>2 DEF Starts, Attached, Detached, Asks, SameClients, Job
<1>4. ASSUME NEW timed \in BOOLEAN, ExecDetached(r, j, timed)
      PROVE  Starts(r, j)
    <2>1. /\ Asks(r, <<"detach", j>>) /\ startJob(j, timed)
          /\ answers' = reply(answers, {r}, jobSnapshot(j, [job[j] EXCEPT !.status = "running"]))
          /\ UNCHANGED onExit
        BY <1>4 DEF ExecDetached
    <2> QED
        BY <2>1, <1>2 DEF Starts, Attached, Detached, Asks, SameClients, Job
<1> QED
    BY <1>3, <1>4

LEMMA FinishedJobs ==
    ASSUME TypeInv, JobInv, NEW j \in Jobs,
           \/ \E r \in Requests, signal \in {"SIGTERM", "SIGKILL"} :
                 Refused(j) /\ handleKill(r, j, signal)
           \/ Deadline(j) /\ Refused(j)
           \/ ChildClose(j) /\ Unfinished(j)
           \/ SpawnError(j)
    PROVE  \E rs \in SUBSET Requests : Finishes(j, rs)
<1>1. /\ job \in [Jobs -> Job] /\ child \in [Jobs -> {"none", "running", "unspawned", "killed", "closed"}]
      /\ onExit \in [Jobs -> SUBSET Requests]
    BY DEF TypeInv, TypeOK
<1> DEFINE Late == [job[j] EXCEPT !.timedOut = TRUE]
<1>2. ASSUME job[j].status = "running",
             NEW o \in {job[j], WithErrorText(job[j]), WithErrorText(Late)},
             NEW code \in {"own", "127"}, job' = [job EXCEPT ![j] = Ended(o, code)]
      PROVE  /\ job' \in [Jobs -> Job] /\ job'[j] = Ended(o, code)
             /\ job'[j].status = "exited" /\ job'[j].code # "none"
             /\ \A i \in Jobs : i # j => job'[i] = job[i]
    BY <1>1, <1>2, EndedJobs
<1>4. ASSUME job[j].status = "running",
             NEW o \in {job[j], WithErrorText(job[j]), WithErrorText(Late)},
             NEW code \in {"own", "127"}, finish(j, o, code),
             timers' \in {TimersAfter(j), TimersAfter(j) \cup {<<"kill", j>>}},
             mayKill => timers' = TimersAfter(j),
             child'[j] \in {"running", "closed"},
             mayKill => child'[j] = "closed",
             \A i \in Jobs : i # j => child'[i] = child[i],
             UNCHANGED <<mayKill, daemon, asked, conn>>
      PROVE  Finishes(j, {})
    <2>1. /\ job' = [job EXCEPT ![j] = Ended(o, code)] /\ onExit' = [onExit EXCEPT ![j] = {}]
          /\ answers' = reply(answers, onExit[j], jobSnapshot(j, Ended(o, code)))
          /\ jobs' = Kept(j)
          /\ log' = Append(log, <<j, "exit">>) /\ UNCHANGED joined
        BY <1>4 DEF finish, publish
    <2>2. onExit[j] = onExit[j] \cup {}
        OBVIOUS
    <2>3. /\ job' \in [Jobs -> Job] /\ job'[j] = Ended(o, code)
          /\ job'[j].status = "exited" /\ job'[j].code # "none"
          /\ \A i \in Jobs : i # j => job'[i] = job[i]
        BY <1>2, <1>4, <2>1
    <2> QED
        BY <1>4, <2>1, <2>2, <2>3 DEF Finishes, SameClients
<1>5. ASSUME NEW r \in Requests, NEW signal \in {"SIGTERM", "SIGKILL"},
             Refused(j), handleKill(r, j, signal)
      PROVE  Finishes(j, {r})
    <2> DEFINE ended == Ended(WithErrorText(job[j]), "127")
    <2>1. job[j].status = "running" /\ ~mayKill /\ child[j] = "running"
        BY <1>5 DEF Refused
    <2>2. /\ Asks(r, <<"kill", j>>)
          /\ job' = [job EXCEPT ![j] = ended]
          /\ answers' = reply(answers, onExit[j] \cup {r}, jobSnapshot(j, ended))
          /\ onExit' = [onExit EXCEPT ![j] = {}]
          /\ jobs' = Kept(j) /\ timers' = TimersAfter(j)
          /\ log' = Append(log, <<j, "exit">>) /\ UNCHANGED joined
        BY <1>5 DEF handleKill, publish
    <2>3. child' = child /\ UNCHANGED <<mayKill, daemon, conn>>
        BY <1>5, <2>1 DEF handleKill, SIGKILLed, Asks
    <2>4. /\ job' \in [Jobs -> Job] /\ job'[j] = ended
          /\ job'[j].status = "exited" /\ job'[j].code # "none"
          /\ \A i \in Jobs : i # j => job'[i] = job[i]
        BY <1>2, <2>1, <2>2
    <2> QED
        BY <2>1, <2>2, <2>3, <2>4 DEF Finishes, SameClients
<1>6. ASSUME Deadline(j), Refused(j)
      PROVE  Finishes(j, {})
    <2>1. /\ finish(j, WithErrorText(Late), "127")
          /\ timers' = TimersAfter(j) \cup {<<"kill", j>>}
          /\ UNCHANGED <<mayKill, daemon, child, asked, conn>>
        BY <1>6 DEF Deadline
    <2> QED
        BY <1>4, <1>6, <2>1 DEF Refused
<1>7. ASSUME ChildClose(j), Unfinished(j)
      PROVE  Finishes(j, {})
    <2>1. /\ finish(j, job[j], "own") /\ timers' = TimersAfter(j)
          /\ child' = [child EXCEPT ![j] = "closed"]
          /\ UNCHANGED <<mayKill, daemon, asked, conn>>
        BY <1>7 DEF ChildClose, PipesClose
    <2> QED
        BY <1>1, <1>4, <1>7, <2>1 DEF Unfinished
<1>8. ASSUME SpawnError(j)
      PROVE  Finishes(j, {})
    <2>1. /\ finish(j, WithErrorText(job[j]), "127") /\ timers' = TimersAfter(j)
          /\ child[j] = "unspawned" /\ child' = [child EXCEPT ![j] = "closed"]
          /\ UNCHANGED <<mayKill, daemon, asked, conn>>
        BY <1>8 DEF SpawnError
    <2>2. job[j].status = "running"
        BY <2>1 DEF JobInv, ChildrenMatchJobs
    <2> QED
        BY <1>1, <1>4, <2>1, <2>2
<1> QED
    BY <1>5, <1>6, <1>7, <1>8

\* The steps of a running daemon.
LEMMA Steps ==
    ASSUME TypeInv, JobInv, Next
    PROVE  \/ \E r \in Requests, what \in Asked, a \in Answer : Answers(r, what, a)
           \/ \E r \in Requests, j \in Jobs : Starts(r, j)
           \/ \E j \in Jobs, rs \in SUBSET Requests : Finishes(j, rs)
           \/ \E r \in Requests, j \in Jobs, timed \in BOOLEAN : handleWait(r, j, timed)
           \/ \E r \in Requests : Close(r) \/ WaitTimer(r)
           \/ \E j \in Jobs :
                 \/ KillTimer(j) \/ Forget(j) \/ Data(j)
                 \/ Deadline(j) /\ ~Refused(j)
                 \/ ChildClose(j) /\ ~Unfinished(j)
           \/ Exit
           \/ \E c \in Clients : Join(c) \/ Leave(c)
<1>1. ASSUME NEW r \in Requests, Request(r)
      PROVE  \/ \E what \in Asked, a \in Answer : Answers(r, what, a)
             \/ \E j \in Jobs : Starts(r, j)
             \/ \E j \in Jobs, rs \in SUBSET Requests : Finishes(j, rs)
             \/ \E j \in Jobs, timed \in BOOLEAN : handleWait(r, j, timed)
    <2>1. ASSUME NEW j \in Jobs, NEW signal \in {"SIGTERM", "SIGKILL"}, handleKill(r, j, signal)
          PROVE  \/ \E what \in Asked, a \in Answer : Answers(r, what, a)
                 \/ \E rs \in SUBSET Requests : Finishes(j, rs)
        BY <2>1, AnsweredRequests, FinishedJobs
    <2> QED
        BY <1>1, <2>1, AnsweredRequests, StartedJobs DEF Request
<1>2. ASSUME NEW j \in Jobs, JobStep(j)
      PROVE  \/ \E rs \in SUBSET Requests : Finishes(j, rs)
             \/ KillTimer(j) \/ Forget(j) \/ Data(j)
             \/ Deadline(j) /\ ~Refused(j)
             \/ ChildClose(j) /\ ~Unfinished(j)
    BY <1>2, FinishedJobs DEF JobStep
<1> QED
    BY <1>1, <1>2 DEF Next, ExitTimer

----------------------------------------------------------------------------
\* A request is asked once: until then nobody listens, waits or was answered for it.
LEMMA Asking ==
    ASSUME TypeInv, AskingInv, NEW r \in Requests, NEW what \in Asked, Asks(r, what)
    PROVE  /\ asked[r] = <<"nothing">> /\ asked'[r] = what
           /\ \A q \in Requests : q # r => asked'[q] = asked[q]
           /\ asked' \in [Requests -> Asked]
           /\ answers[r] = <<>>
           /\ \A j \in Jobs : r \notin onExit[j]
           /\ <<"wait", r>> \notin timers
<1>1. asked \in [Requests -> Asked]
    BY DEF TypeInv, TypeOK
<1>2. asked[r] = <<"nothing">> /\ asked' = [asked EXCEPT ![r] = what]
    BY DEF Asks
<1>3. \A j \in Jobs, k \in {"exec", "wait"} : asked[r] # <<k, j>>
    BY <1>2
<1> QED
    BY <1>1, <1>2, <1>3
       DEF AskingInv, ListenersWait, WaitTimersHaveListeners, NothingAskedNothingAnswered

LEMMA Replies ==
    ASSUME TypeInv, NEW rs \in SUBSET Requests, NEW a \in Answer,
           answers' = reply(answers, rs, a)
    PROVE  /\ answers' \in [Requests -> Seq(Answer)]
           /\ \A r \in Requests : answers'[r] \in {answers[r], Append(answers[r], a)}
           /\ \A r \in Requests : r \notin rs => answers'[r] = answers[r]
<1>1. answers \in [Requests -> Seq(Answer)]
    BY DEF TypeInv, TypeOK
<1> QED
    BY <1>1 DEF reply

\* What an ending leaves of the timers.
LEMMA TimersAtTheEnd ==
    ASSUME TypeInv, NEW j \in Jobs, NEW rs, Finishes(j, rs)
    PROVE  /\ timers' \subseteq Timer
           /\ \A i \in Jobs, k \in {"deadline", "kill", "retention"} :
                 i # j => (<<k, i>> \in timers' <=> <<k, i>> \in timers)
           /\ <<"deadline", j>> \notin timers' /\ <<"retention", j>> \in timers'
           /\ mayKill => <<"kill", j>> \notin timers'
           /\ \A r \in Requests :
                 <<"wait", r>> \in timers' <=> <<"wait", r>> \in timers /\ r \notin onExit[j]
<1>1. timers \subseteq Timer /\ onExit[j] \subseteq Requests
    BY DEF TypeInv, TypeOK
<1>2. /\ timers' \in {TimersAfter(j), TimersAfter(j) \cup {<<"kill", j>>}}
      /\ mayKill => timers' = TimersAfter(j)
    BY DEF Finishes
<1> QED
    BY <1>1, <1>2 DEF TimersAfter, Timer

LEMMA WaitTyped ==
    ASSUME TypeInv, AskingInv, NEW r \in Requests, WaitTimer(r)
    PROVE  \E j \in Jobs :
              /\ asked[r] = <<"wait", j>>
              /\ job[j].status = "running"
              /\ jobSnapshot(j, job[j]) \in Answer
              /\ jobSnapshot(j, job[j]).job = j
              /\ jobSnapshot(j, job[j]).status = "running"
              /\ answers' = reply(answers, {r}, jobSnapshot(j, job[j]))
<1>1. PICK j \in Jobs : asked[r] = <<"wait", j>> /\ r \in onExit[j]
    BY DEF AskingInv, WaitTimersHaveListeners, WaitTimer, Fires
<1>2. job[j].status = "running" /\ job[j] \in Job
    BY <1>1 DEF AskingInv, ListenersWait, TypeInv, TypeOK
<1>3. answers' = reply(answers, {r}, jobSnapshot(j, job[j]))
    BY <1>1 DEF WaitTimer
<1> QED
    BY <1>1, <1>2, <1>3, Snapshots DEF TypeInv

----------------------------------------------------------------------------
\* Type correctness.

Control ==
    /\ mayKill \in BOOLEAN
    /\ daemon \in {"running", "gone"}
    /\ conn \in [Requests -> {"open", "closed"}]
    /\ joined \in [Clients -> 0..MaxJoins]

ChildTypes == child \in [Jobs -> {"none", "running", "unspawned", "killed", "closed"}]

JobTypes ==
    /\ job \in [Jobs -> Job]
    /\ \A j \in Jobs : job[j].code # "none" <=> job[j].status = "exited"
    /\ NotesComeLast
    /\ jobs \subseteq {j \in Jobs : job[j].status # "none"}

RequestTypes ==
    /\ onExit \in [Jobs -> SUBSET Requests]
    /\ timers \subseteq Timer
    /\ asked \in [Requests -> Asked]
    /\ answers \in [Requests -> Seq(Answer)]
    /\ log \in Seq(Event)

LEMMA TypeParts == TypeInv <=> Control /\ ChildTypes /\ JobTypes /\ RequestTypes
BY DEF TypeInv, TypeOK, Control, ChildTypes, JobTypes, RequestTypes

LEMMA ControlTypes ==
    ASSUME TypeInv, JobInv, Next
    PROVE  Control'
<1> USE DEF Control
<1>0. Control
    BY TypeParts
<1>1. CASE SameClients
    BY <1>0, <1>1 DEF SameClients
<1>2. CASE \E r \in Requests, what \in Asked, a \in Answer : Answers(r, what, a)
    BY <1>1, <1>2 DEF Answers
<1>3. CASE \E r \in Requests, j \in Jobs : Starts(r, j)
    BY <1>1, <1>3 DEF Starts
<1>4. CASE \E j \in Jobs, rs \in SUBSET Requests : Finishes(j, rs)
    BY <1>1, <1>4 DEF Finishes
<1>5. CASE \E r \in Requests, j \in Jobs, timed \in BOOLEAN : handleWait(r, j, timed)
    BY <1>1, <1>5 DEF handleWait, Asks, events, SameClients
<1>6. CASE \E r \in Requests : Close(r)
    BY <1>0, <1>6 DEF Close, events
<1>7. CASE \E r \in Requests : WaitTimer(r)
    BY <1>1, <1>7 DEF WaitTimer, events, SameClients
<1>8. CASE \E j \in Jobs : KillTimer(j) \/ Forget(j) \/ Data(j)
    BY <1>1, <1>8 DEF KillTimer, Forget, Data, publish, requests, events, SameClients
<1>9. CASE \E j \in Jobs : Deadline(j) /\ ~Refused(j)
    BY <1>1, <1>9 DEF Deadline, events, SameClients
<1>10. CASE \E j \in Jobs : ChildClose(j) /\ ~Unfinished(j)
    BY <1>1, <1>10 DEF ChildClose, events, SameClients
<1>11. CASE Exit
    BY <1>0, <1>11, DaemonAssumption DEF Exit, DaemonAssumption
<1>12. CASE \E c \in Clients : Join(c) \/ Leave(c)
    BY <1>0, <1>12, DaemonAssumption DEF Join, Leave, requests, DaemonAssumption
<1> QED
    BY Steps, <1>2, <1>3, <1>4, <1>5, <1>6, <1>7, <1>8, <1>9, <1>10, <1>11, <1>12

LEMMA ChildrenTyped ==
    ASSUME TypeInv, JobInv, Next
    PROVE  ChildTypes'
<1> USE DEF ChildTypes
<1>0. ChildTypes
    BY TypeParts
<1>1. ASSUME NEW j \in Jobs, child' \in {child, SIGKILLed(j)}
      PROVE  ChildTypes'
    BY <1>0, <1>1 DEF SIGKILLed
<1>2. ASSUME NEW j \in Jobs
      PROVE  /\ SpawnError(j) => ChildTypes'
             /\ ChildClose(j) => ChildTypes'
             /\ Deadline(j) => ChildTypes'
             /\ KillTimer(j) => ChildTypes'
             /\ Forget(j) => ChildTypes'
             /\ Data(j) => ChildTypes'
    BY <1>0, <1>1
       DEF SpawnError, ChildClose, PipesClose, Deadline, KillTimer, ForceKill, Forget, Data
<1>3. ASSUME NEW r \in Requests, NEW j \in Jobs
      PROVE  /\ ExecAttached(r, j) => ChildTypes'
             /\ \A timed \in BOOLEAN : ExecDetached(r, j, timed) => ChildTypes'
             /\ \A timed \in BOOLEAN : handleWait(r, j, timed) => ChildTypes'
    BY <1>0 DEF ExecAttached, ExecDetached, startJob, handleWait
<1>4. ASSUME NEW r \in Requests, NEW j \in Jobs
      PROVE  /\ \A kind \in {"wait", "status", "kill"} : handleUnknown(r, j, kind) => ChildTypes'
             /\ \A kind \in {"wait", "status"} : AnswerNow(r, j, kind) => ChildTypes'
             /\ \A signal \in {"SIGTERM", "SIGKILL"} : handleKill(r, j, signal) => ChildTypes'
    BY <1>0, <1>1 DEF handleUnknown, AnswerNow, handleKill
<1>5. ASSUME NEW r \in Requests
      PROVE  /\ Request(r) => ChildTypes'
             /\ Close(r) => ChildTypes'
             /\ WaitTimer(r) => ChildTypes'
    BY <1>0, <1>3, <1>4 DEF Request, Close, WaitTimer, ExecWithoutCommand, handleStop
<1>6. Exit => ChildTypes'
    BY <1>0 DEF Exit
<1>7. \A c \in Clients : Join(c) \/ Leave(c) => ChildTypes'
    BY <1>0 DEF Join, Leave
<1> QED
    BY <1>2, <1>5, <1>6, <1>7 DEF Next, JobStep, ExitTimer

LEMMA JobsTyped ==
    ASSUME TypeInv, JobInv, Next
    PROVE  JobTypes'
<1>0. /\ JobTypes /\ ChildTypes
      /\ onExit \in [Jobs -> SUBSET Requests]
    BY TypeParts DEF RequestTypes
<1>1. CASE UNCHANGED job /\ jobs' \subseteq jobs
    BY <1>0, <1>1 DEF JobTypes, NotesComeLast
<1>2. ASSUME NEW r \in Requests, NEW j \in Jobs, Starts(r, j)
      PROVE  JobTypes'
    <2>1. /\ job' \in [Jobs -> Job] /\ jobs' = jobs \cup {j}
          /\ \A i \in Jobs : i # j => job'[i] = job[i]
          /\ job[j].status = "none"
          /\ job'[j].status = "running" /\ job'[j].code = job[j].code /\ job'[j].notes = job[j].notes
        BY <1>2 DEF Starts
    <2> QED
        BY <1>0, <2>1 DEF JobTypes, NotesComeLast
<1>3. ASSUME NEW j \in Jobs, NEW rs, Finishes(j, rs)
      PROVE  JobTypes'
    <2>1. /\ job' \in [Jobs -> Job] /\ jobs' \subseteq jobs
          /\ \A i \in Jobs : i # j => job'[i] = job[i]
          /\ job'[j].status = "exited" /\ job'[j].code # "none"
        BY <1>3 DEF Finishes, Kept
    <2> QED
        BY <1>0, <2>1 DEF JobTypes, NotesComeLast
<1>4. ASSUME NEW j \in Jobs, NEW n \in 0..MaxChunks, NEW overdue \in BOOLEAN,
             job' = [job EXCEPT ![j] = [job[j] EXCEPT !.chunks = n, !.timedOut = overdue]],
             jobs' = jobs
      PROVE  JobTypes'
    <2>1. /\ job'[j] \in Job /\ job'[j].status = job[j].status /\ job'[j].code = job[j].code
          /\ job'[j].notes = job[j].notes
          /\ \A i \in Jobs : i # j => job'[i] = job[i]
          /\ job' \in [Jobs -> Job]
        BY <1>0, <1>4 DEF JobTypes, Job
    <2> QED
        BY <1>0, <1>4, <2>1 DEF JobTypes, NotesComeLast
<1>5. ASSUME NEW j \in Jobs, Data(j)
      PROVE  JobTypes'
    <2>1. job[j] \in Job /\ job[j].chunks + 1 \in 0..MaxChunks
        BY <1>0, <1>5, DaemonAssumption DEF Data, JobTypes, Job, DaemonAssumption
    <2>2. job' = [job EXCEPT ![j] = [job[j] EXCEPT !.chunks = job[j].chunks + 1,
                                                  !.timedOut = job[j].timedOut]]
        BY <1>0, <1>5, <2>1 DEF Data, Job, JobTypes
    <2>3. job[j].timedOut \in BOOLEAN /\ jobs' = jobs
        BY <1>5, <2>1 DEF Data, Job
    <2> QED
        BY <1>4, <2>1, <2>2, <2>3
<1>6. ASSUME NEW j \in Jobs, Deadline(j), ~Refused(j)
      PROVE  JobTypes'
    <2>1. job[j] \in Job
        BY <1>0 DEF JobTypes
    <2>2. job' = [job EXCEPT ![j] = [job[j] EXCEPT !.chunks = job[j].chunks, !.timedOut = TRUE]]
        BY <1>0, <1>6, <2>1 DEF Deadline, Job, JobTypes
    <2> QED
        BY <1>4, <1>6, <2>1, <2>2 DEF Deadline, Job
<1>7. ASSUME NEW j \in Jobs, KillTimer(j) \/ Forget(j) \/ (ChildClose(j) /\ ~Unfinished(j))
      PROVE  JobTypes'
    BY <1>1, <1>7 DEF KillTimer, Forget, ChildClose, state
<1>8. ASSUME NEW r \in Requests, NEW j \in Jobs, NEW timed \in BOOLEAN, handleWait(r, j, timed)
      PROVE  JobTypes'
    BY <1>1, <1>8 DEF handleWait
<1>9. ASSUME NEW r \in Requests, Close(r) \/ WaitTimer(r)
      PROVE  JobTypes'
    BY <1>1, <1>9 DEF Close, WaitTimer
<1>10. ASSUME NEW r \in Requests, NEW what \in Asked, NEW a \in Answer, Answers(r, what, a)
       PROVE  JobTypes'
    BY <1>1, <1>10 DEF Answers, SameJobs
<1>11. CASE Exit
    BY <1>1, <1>11 DEF Exit
<1>12. CASE \E c \in Clients : Join(c) \/ Leave(c)
    BY <1>1, <1>12 DEF Join, Leave, state
<1> QED
    BY Steps, <1>2, <1>3, <1>5, <1>6, <1>7, <1>8, <1>9, <1>10, <1>11, <1>12

LEMMA RequestsTyped ==
    ASSUME TypeInv, AskingInv, JobInv, Next
    PROVE  RequestTypes'
<1>0. RequestTypes /\ JobTypes
    BY TypeParts
<1> USE DEF RequestTypes
<1>1. ASSUME NEW r \in Requests, NEW what \in Asked, NEW a \in Answer, Answers(r, what, a)
      PROVE  RequestTypes'
    <2>1. /\ onExit' = onExit /\ log' = log /\ Asks(r, what)
          /\ timers' \subseteq timers \cup {<<"exit", "daemon">>}
          /\ answers' = reply(answers, {r}, a)
        BY <1>1 DEF Answers, SameJobs
    <2> QED
        BY <1>0, <2>1, Asking, Replies DEF Timer
<1>2. ASSUME NEW r \in Requests, NEW j \in Jobs, Starts(r, j)
      PROVE  RequestTypes'
    <2>1. /\ timers' \subseteq timers \cup {<<"deadline", j>>}
          /\ log' = Append(log, <<j, "started">>) /\ <<j, "started">> \in Event
        BY <1>2 DEF Starts, Event
    <2>2. timers' \subseteq Timer /\ log' \in Seq(Event)
        BY <1>0, <2>1 DEF Timer
    <2>3. CASE Attached(r, j)
        <3>1. onExit' \in [Jobs -> SUBSET Requests] /\ <<"exec", j>> \in Asked
            BY <1>0, <2>3 DEF Attached, Asked
        <3> QED
            BY <1>0, <2>2, <2>3, <3>1, Asking DEF Attached
    <2>4. CASE Detached(r, j)
        <3>1. <<"detach", j>> \in Asked /\ jobSnapshot(j, job'[j]) \in Answer
            <4>1. job'[j] \in Job /\ job'[j].status = "running"
                BY <1>2 DEF Starts
            <4> QED
                BY <4>1, Snapshots DEF Asked, TypeInv
        <3> QED
            BY <1>0, <2>2, <2>4, <3>1, Asking, Replies DEF Detached
    <2> QED
        BY <1>2, <2>3, <2>4 DEF Starts
<1>3. ASSUME NEW j \in Jobs, NEW rs \in SUBSET Requests, Finishes(j, rs)
      PROVE  RequestTypes'
    <2>1. /\ answers' = reply(answers, onExit[j] \cup rs, jobSnapshot(j, job'[j]))
          /\ job'[j] \in Job /\ job'[j].status = "exited"
          /\ log' = Append(log, <<j, "exit">>) /\ <<j, "exit">> \in Event
        BY <1>3 DEF Finishes, Event
    <2>2. answers' \in [Requests -> Seq(Answer)]
        <3>1. onExit[j] \cup rs \in SUBSET Requests
            BY <1>0
        <3> QED
            BY <2>1, <3>1, Snapshots, Replies DEF TypeInv
    <2>3. asked' \in [Requests -> Asked]
        <3>1. ASSUME NEW r \in Requests, Asks(r, <<"kill", j>>)
              PROVE  asked' \in [Requests -> Asked]
            BY <3>1, Asking DEF Asked
        <3> QED
            BY <1>0, <1>3, <3>1 DEF Finishes
    <2>4. onExit' \in [Jobs -> SUBSET Requests]
        BY <1>0, <1>3 DEF Finishes
    <2>5. timers' \subseteq Timer
        BY <1>3, TimersAtTheEnd
    <2>6. log' \in Seq(Event)
        BY <1>0, <2>1
    <2> QED
        BY <2>2, <2>3, <2>4, <2>5, <2>6
<1>4. ASSUME NEW r \in Requests, NEW j \in Jobs, NEW timed \in BOOLEAN, handleWait(r, j, timed)
      PROVE  RequestTypes'
    <2>1. Asks(r, <<"wait", j>>) /\ <<"wait", j>> \in Asked
        BY <1>4 DEF handleWait, Asked
    <2>2. asked' \in [Requests -> Asked]
        BY <2>1, Asking
    <2>3. timers' \subseteq Timer
        BY <1>0, <1>4 DEF handleWait, Timer
    <2>4. onExit' \in [Jobs -> SUBSET Requests]
        BY <1>0, <1>4 DEF handleWait
    <2> QED
        BY <1>0, <1>4, <2>2, <2>3, <2>4 DEF handleWait, events
<1>5. ASSUME NEW r \in Requests, Close(r)
      PROVE  RequestTypes'
    BY <1>0, <1>5 DEF Close, events
<1>6. ASSUME NEW r \in Requests, WaitTimer(r)
      PROVE  RequestTypes'
    BY <1>0, <1>6, WaitTyped, Replies DEF WaitTimer, DropListener, events
<1>7. ASSUME NEW j \in Jobs,
             \/ KillTimer(j) \/ Forget(j)
             \/ Deadline(j) /\ ~Refused(j)
             \/ ChildClose(j) /\ ~Unfinished(j)
      PROVE  RequestTypes'
    BY <1>0, <1>7 DEF KillTimer, Forget, Deadline, ChildClose, requests, state, events, Timer
<1>8. ASSUME NEW j \in Jobs, Data(j)
      PROVE  RequestTypes'
    <2>1. job[j].chunks + 1 \in 1..MaxChunks
        BY <1>0, <1>8, DaemonAssumption DEF Data, JobTypes, Job, DaemonAssumption
    <2>2. <<j, "data", job[j].chunks + 1>> \in Event
        BY <2>1 DEF Event
    <2> QED
        BY <1>0, <1>8, <2>2 DEF Data, publish, requests
<1>9. CASE Exit
    BY <1>0, <1>9 DEF Exit
<1>10. CASE \E c \in Clients : Join(c) \/ Leave(c)
    BY <1>0, <1>10 DEF Join, Leave, state, requests
<1> QED
    BY Steps, <1>1, <1>2, <1>3, <1>4, <1>5, <1>6, <1>7, <1>8, <1>9, <1>10

----------------------------------------------------------------------------
\* Who waits for an answer.

LEMMA AskingStep ==
    ASSUME TypeInv, AskingInv, JobInv, Next
    PROVE  AskingInv'
<1>0. /\ onExit \in [Jobs -> SUBSET Requests] /\ job \in [Jobs -> Job]
      /\ asked \in [Requests -> Asked] /\ answers \in [Requests -> Seq(Answer)]
    BY DEF TypeInv, TypeOK
<1> USE DEF AskingInv, ListenersWait, WaitTimersHaveListeners, NothingAskedNothingAnswered
<1>1. ASSUME NEW r \in Requests, NEW what \in Asked, NEW a \in Answer, Answers(r, what, a)
      PROVE  AskingInv'
    <2>1. /\ onExit' = onExit /\ job' = job
          /\ \A q \in Requests : <<"wait", q>> \in timers' <=> <<"wait", q>> \in timers
          /\ what # <<"nothing">>
        BY <1>1 DEF Answers, SameJobs
    <2>2. \A q \in Requests : q # r => answers'[q] = answers[q]
        <3>1. answers' = reply(answers, {r}, a) /\ {r} \in SUBSET Requests
            BY <1>1 DEF Answers
        <3> QED
            BY <3>1, Replies
    <2>3. /\ asked'[r] = what /\ \A q \in Requests : q # r => asked'[q] = asked[q]
          /\ \A j \in Jobs : r \notin onExit[j]
          /\ <<"wait", r>> \notin timers
        BY <1>1, Asking DEF Answers
    <2>4. ListenersWait'
        BY <1>0, <2>1, <2>2, <2>3
    <2>5. WaitTimersHaveListeners'
        BY <1>0, <2>1, <2>2, <2>3
    <2>6. NothingAskedNothingAnswered'
        BY <1>0, <2>1, <2>2, <2>3
    <2> QED
        BY <2>4, <2>5, <2>6
<1>2. ASSUME NEW r \in Requests, NEW j \in Jobs, Starts(r, j)
      PROVE  AskingInv'
    <2>1. /\ job[j].status = "none" /\ job'[j].status = "running"
          /\ \A i \in Jobs : i # j => job'[i] = job[i]
          /\ \A q \in Requests : <<"wait", q>> \in timers' <=> <<"wait", q>> \in timers
        BY <1>2 DEF Starts
    <2>2. onExit[j] = {}
        BY <1>0, <2>1
    <2>3. CASE Attached(r, j)
        <3>1. /\ onExit'[j] = {r} /\ \A i \in Jobs : i # j => onExit'[i] = onExit[i]
              /\ answers' = answers /\ <<"exec", j>> \in Asked
            BY <1>0, <2>3 DEF Attached, Asked
        <3>2. /\ asked'[r] = <<"exec", j>> /\ \A q \in Requests : q # r => asked'[q] = asked[q]
              /\ answers[r] = <<>>
              /\ \A i \in Jobs : r \notin onExit[i]
              /\ <<"wait", r>> \notin timers
            BY <2>3, <3>1, Asking DEF Attached
        <3>3. ListenersWait'
            <4> SUFFICES ASSUME NEW i \in Jobs, NEW q \in onExit'[i]
                         PROVE  /\ asked'[q] \in {<<"exec", i>>, <<"wait", i>>}
                                /\ answers'[q] = <<>>
                                /\ job'[i].status = "running"
                OBVIOUS
            <4>1. CASE i = j
                BY <2>1, <3>1, <3>2, <4>1
            <4>2. CASE i # j
                <5>1. q \in onExit[i] /\ q \in Requests /\ q # r
                    BY <1>0, <3>1, <3>2, <4>2
                <5> QED
                    BY <2>1, <3>1, <3>2, <4>2, <5>1
            <4> QED
                BY <4>1, <4>2
        <3>4. WaitTimersHaveListeners'
            BY <1>0, <2>1, <2>2, <3>1, <3>2
        <3>5. NothingAskedNothingAnswered'
            BY <1>0, <2>1, <2>2, <3>1, <3>2
        <3> QED
            BY <3>3, <3>4, <3>5
    <2>4. CASE Detached(r, j)
        <3>1. onExit' = onExit /\ <<"detach", j>> \in Asked
            BY <2>4 DEF Detached, Asked
        <3>2. /\ asked'[r] = <<"detach", j>> /\ \A q \in Requests : q # r => asked'[q] = asked[q]
              /\ \A i \in Jobs : r \notin onExit[i]
              /\ <<"wait", r>> \notin timers
            BY <2>4, <3>1, Asking DEF Detached
        <3>3. \A q \in Requests : q # r => answers'[q] = answers[q]
            <4>1. jobSnapshot(j, job'[j]) \in Answer
                BY <1>2, Snapshots DEF Starts, TypeInv
            <4>2. answers' = reply(answers, {r}, jobSnapshot(j, job'[j])) /\ {r} \in SUBSET Requests
                BY <2>4 DEF Detached
            <4> QED
                BY <4>1, <4>2, Replies
        <3>4. ListenersWait'
            <4> SUFFICES ASSUME NEW i \in Jobs, NEW q \in onExit'[i]
                         PROVE  /\ asked'[q] \in {<<"exec", i>>, <<"wait", i>>}
                                /\ answers'[q] = <<>>
                                /\ job'[i].status = "running"
                OBVIOUS
            <4>1. i # j /\ q \in onExit[i] /\ q \in Requests /\ q # r
                BY <1>0, <2>2, <3>1, <3>2
            <4> QED
                BY <2>1, <3>2, <3>3, <4>1
        <3>5. WaitTimersHaveListeners'
            BY <1>0, <2>1, <2>2, <3>1, <3>2, <3>3
        <3>6. NothingAskedNothingAnswered'
            <4>1. asked'[r] # <<"nothing">>
                BY <3>2
            <4> QED
                BY <3>2, <3>3, <4>1
        <3> QED
            BY <3>4, <3>5, <3>6
    <2> QED
        BY <1>2, <2>3, <2>4 DEF Starts
<1>3. ASSUME NEW j \in Jobs, NEW rs \in SUBSET Requests, Finishes(j, rs)
      PROVE  AskingInv'
    <2>1. /\ \A i \in Jobs : i # j => job'[i] = job[i]
          /\ onExit'[j] = {} /\ \A i \in Jobs : i # j => onExit'[i] = onExit[i]
        BY <1>0, <1>3 DEF Finishes
    <2>2. \A q \in Requests : q \notin onExit[j] \cup rs => answers'[q] = answers[q]
        <3>1. jobSnapshot(j, job'[j]) \in Answer
            BY <1>3, Snapshots DEF Finishes, TypeInv
        <3> QED
            BY <1>0, <1>3, <3>1, Replies DEF Finishes
    <2>3. /\ \A q \in rs : asked'[q] # <<"nothing">>
          /\ \A q \in Requests : q \notin rs => asked'[q] = asked[q]
          /\ \A q \in rs : /\ \A i \in Jobs : q \notin onExit[i]
                           /\ <<"wait", q>> \notin timers
        <3>1. ASSUME NEW r \in Requests, rs = {r}, Asks(r, <<"kill", j>>)
              PROVE  /\ asked'[r] # <<"nothing">>
                     /\ \A q \in Requests : q # r => asked'[q] = asked[q]
                     /\ \A i \in Jobs : r \notin onExit[i]
                     /\ <<"wait", r>> \notin timers
            BY <3>1, Asking DEF Asked
        <3> QED
            BY <1>3, <3>1 DEF Finishes
    <2>4. \A q \in Requests :
              <<"wait", q>> \in timers' <=> <<"wait", q>> \in timers /\ q \notin onExit[j]
        BY <1>3, TimersAtTheEnd
    <2>5. \A i \in Jobs : i # j => onExit[i] \cap onExit[j] = {}
        BY <1>0
    <2>6. ListenersWait'
        BY <1>0, <2>1, <2>2, <2>3, <2>5
    <2>7. WaitTimersHaveListeners'
        BY <1>0, <2>1, <2>3, <2>4
    <2>8. NothingAskedNothingAnswered'
        BY <1>0, <2>2, <2>3
    <2> QED
        BY <2>6, <2>7, <2>8
<1>4. ASSUME NEW r \in Requests, NEW j \in Jobs, NEW timed \in BOOLEAN, handleWait(r, j, timed)
      PROVE  AskingInv'
    <2>1. /\ Asks(r, <<"wait", j>>) /\ <<"wait", j>> \in Asked
          /\ job[j].status = "running" /\ job' = job /\ answers' = answers
          /\ onExit'[j] = onExit[j] \cup {r} /\ \A i \in Jobs : i # j => onExit'[i] = onExit[i]
          /\ \A q \in Requests : q # r => (<<"wait", q>> \in timers' <=> <<"wait", q>> \in timers)
        BY <1>0, <1>4 DEF handleWait, WaitForRunning, Asked
    <2>2. /\ asked'[r] = <<"wait", j>> /\ \A q \in Requests : q # r => asked'[q] = asked[q]
          /\ answers[r] = <<>>
          /\ \A i \in Jobs : r \notin onExit[i]
        BY <2>1, Asking
    <2>3. ListenersWait'
        <3> SUFFICES ASSUME NEW i \in Jobs, NEW q \in onExit'[i]
                     PROVE  /\ asked'[q] \in {<<"exec", i>>, <<"wait", i>>}
                            /\ answers'[q] = <<>>
                            /\ job'[i].status = "running"
            OBVIOUS
        <3>1. CASE q = r
            <4>1. i = j
                BY <2>1, <2>2, <3>1
            <4> QED
                BY <2>1, <2>2, <3>1, <4>1
        <3>2. CASE q # r
            <4>1. onExit'[i] \subseteq onExit[i] \cup {r} /\ onExit[i] \subseteq Requests
                BY <1>0, <2>1
            <4>2. q \in onExit[i] /\ q \in Requests
                BY <3>2, <4>1
            <4> QED
                BY <2>1, <2>2, <3>2, <4>2
        <3> QED
            BY <3>1, <3>2
    <2>4. WaitTimersHaveListeners'
        <3> SUFFICES ASSUME NEW q \in Requests, <<"wait", q>> \in timers'
                     PROVE  \E i \in Jobs : asked'[q] = <<"wait", i>> /\ q \in onExit'[i]
            OBVIOUS
        <3>1. CASE q = r
            BY <2>1, <2>2, <3>1
        <3>2. CASE q # r
            BY <2>1, <2>2, <3>2
        <3> QED
            BY <3>1, <3>2
    <2>5. NothingAskedNothingAnswered'
        <3>1. asked'[r] # <<"nothing">>
            BY <2>2
        <3> QED
            BY <2>1, <2>2, <3>1
    <2> QED
        BY <2>3, <2>4, <2>5
<1>5. ASSUME NEW r \in Requests, Close(r)
      PROVE  AskingInv'
    <2>1. /\ UNCHANGED <<job, asked, answers>>
          /\ \A j \in Jobs : onExit'[j] \in {onExit[j], onExit[j] \ {r}}
          /\ timers' = timers \ {<<"wait", r>>}
        BY <1>5 DEF Close
    <2>2. ListenersWait'
        BY <1>0, <2>1
    <2>3. WaitTimersHaveListeners'
        BY <1>0, <2>1
    <2>4. NothingAskedNothingAnswered'
        BY <1>0, <2>1
    <2> QED
        BY <2>2, <2>3, <2>4
<1>6. ASSUME NEW r \in Requests, WaitTimer(r)
      PROVE  AskingInv'
    <2>1. /\ UNCHANGED <<job, asked>>
          /\ \A j \in Jobs : onExit'[j] = onExit[j] \ {r}
          /\ timers' = timers \ {<<"wait", r>>}
        BY <1>6 DEF WaitTimer, DropListener
    <2>2. PICK j \in Jobs :
              /\ asked[r] = <<"wait", j>>
              /\ jobSnapshot(j, job[j]) \in Answer
              /\ answers' = reply(answers, {r}, jobSnapshot(j, job[j]))
        BY <1>6, WaitTyped
    <2>3. asked[r] # <<"nothing">> /\ {r} \in SUBSET Requests
        BY <2>2
    <2>4. \A q \in Requests : q # r => answers'[q] = answers[q]
        BY <2>2, <2>3, Replies
    <2>5. ListenersWait'
        BY <1>0, <2>1, <2>4
    <2>6. WaitTimersHaveListeners'
        BY <1>0, <2>1
    <2>7. NothingAskedNothingAnswered'
        BY <1>0, <2>1, <2>3, <2>4
    <2> QED
        BY <2>5, <2>6, <2>7
<1>7. ASSUME UNCHANGED <<onExit, asked, answers>>,
             \A j \in Jobs : job'[j].status = job[j].status,
             \A r \in Requests : <<"wait", r>> \in timers' => <<"wait", r>> \in timers
      PROVE  AskingInv'
    BY <1>0, <1>7
<1>8. ASSUME NEW j \in Jobs,
             \/ KillTimer(j) \/ Forget(j) \/ Data(j)
             \/ Deadline(j) /\ ~Refused(j)
             \/ ChildClose(j) /\ ~Unfinished(j)
      PROVE  AskingInv'
    <2>1. CASE KillTimer(j) \/ Forget(j) \/ (ChildClose(j) /\ ~Unfinished(j))
        BY <1>7, <2>1 DEF KillTimer, Forget, ChildClose, requests, state
    <2>2. CASE Data(j)
        BY <1>0, <1>7, <2>2 DEF Data, requests, Job
    <2>3. CASE Deadline(j) /\ ~Refused(j)
        <3>1. /\ job' = [job EXCEPT ![j] = [job[j] EXCEPT !.timedOut = TRUE]]
              /\ timers' = (timers \ {<<"deadline", j>>}) \cup {<<"kill", j>>}
              /\ UNCHANGED <<onExit, asked, answers>>
            BY <2>3 DEF Deadline
        <3>2. \A i \in Jobs : job'[i].status = job[i].status
            BY <1>0, <3>1 DEF Job
        <3> QED
            BY <1>7, <3>1, <3>2
    <2> QED
        BY <1>8, <2>1, <2>2, <2>3
<1>9. CASE Exit
    BY <1>7, <1>9 DEF Exit
<1>10. CASE \E c \in Clients : Join(c) \/ Leave(c)
    BY <1>7, <1>10 DEF Join, Leave, state, requests
<1> QED
    BY Steps, <1>1, <1>2, <1>3, <1>4, <1>5, <1>6, <1>8, <1>9, <1>10

----------------------------------------------------------------------------
\* The child, the timers and the exec of each job.

LEMMA ChildrenStep ==
    ASSUME TypeInv, JobInv, Next
    PROVE  ChildrenMatchJobs'
<1>0. /\ job \in [Jobs -> Job]
      /\ child \in [Jobs -> {"none", "running", "unspawned", "killed", "closed"}]
    BY DEF TypeInv, TypeOK
<1> USE DEF JobInv, ChildrenMatchJobs
<1>1. ASSUME NEW j \in Jobs, child' \in {child, SIGKILLed(j)},
             mayKill' = mayKill, \A i \in Jobs : job'[i].status = job[i].status
      PROVE  ChildrenMatchJobs'
    BY <1>0, <1>1 DEF SIGKILLed
<1>2. ASSUME child' = child, mayKill' = mayKill, job' = job
      PROVE  ChildrenMatchJobs'
    BY <1>0, <1>2
<1>3. ASSUME NEW r \in Requests, NEW what \in Asked, NEW a \in Answer, Answers(r, what, a)
      PROVE  ChildrenMatchJobs'
    BY <1>1, <1>2, <1>3 DEF Answers, SameJobs, SameClients
<1>4. ASSUME NEW r \in Requests, NEW j \in Jobs, Starts(r, j)
      PROVE  ChildrenMatchJobs'
    <2>1. /\ job[j].status = "none" /\ job'[j].status = "running"
          /\ \A i \in Jobs : i # j => job'[i] = job[i] /\ child'[i] = child[i]
          /\ child'[j] \in {"running", "unspawned"} /\ mayKill' = mayKill
        BY <1>4 DEF Starts, SameClients
    <2> SUFFICES ASSUME NEW i \in Jobs
                 PROVE  /\ child'[i] = "none" <=> job'[i].status = "none"
                        /\ child'[i] = "unspawned" => job'[i].status = "running"
                        /\ mayKill' /\ child'[i] \in {"running", "killed"}
                              => job'[i].status = "running"
        OBVIOUS
    <2>2. CASE i = j
        BY <2>1, <2>2
    <2>3. CASE i # j
        BY <2>1, <2>3
    <2> QED
        BY <2>2, <2>3
<1>5. ASSUME NEW j \in Jobs, NEW rs \in SUBSET Requests, Finishes(j, rs)
      PROVE  ChildrenMatchJobs'
    <2>1. /\ job'[j].status = "exited"
          /\ \A i \in Jobs : i # j => job'[i] = job[i] /\ child'[i] = child[i]
          /\ child'[j] \in {"running", "closed"}
          /\ mayKill => child'[j] = "closed"
          /\ mayKill' = mayKill
        BY <1>5 DEF Finishes, SameClients
    <2> QED
        BY <2>1
<1>6. ASSUME NEW r \in Requests, NEW j \in Jobs, NEW timed \in BOOLEAN, handleWait(r, j, timed)
      PROVE  ChildrenMatchJobs'
    BY <1>2, <1>6 DEF handleWait, Asks
<1>7. ASSUME NEW r \in Requests, Close(r) \/ WaitTimer(r)
      PROVE  ChildrenMatchJobs'
    BY <1>2, <1>7 DEF Close, WaitTimer
<1>8. ASSUME NEW j \in Jobs, KillTimer(j) \/ Forget(j)
      PROVE  ChildrenMatchJobs'
    BY <1>1, <1>8 DEF KillTimer, ForceKill, Forget
<1>9. ASSUME NEW j \in Jobs, Data(j) \/ (Deadline(j) /\ ~Refused(j))
      PROVE  ChildrenMatchJobs'
    <2>1. child' = child /\ mayKill' = mayKill
        BY <1>9 DEF Data, Deadline
    <2>2. \A i \in Jobs : job'[i].status = job[i].status
        BY <1>0, <1>9 DEF Data, Deadline, Job
    <2> QED
        BY <1>1, <2>1, <2>2
<1>10. ASSUME NEW j \in Jobs, ChildClose(j), ~Unfinished(j)
       PROVE  ChildrenMatchJobs'
    <2>1. /\ child' = [child EXCEPT ![j] = "closed"] /\ job' = job /\ mayKill' = mayKill
          /\ child[j] # "none"
        BY <1>10 DEF ChildClose, PipesClose, state
    <2> QED
        BY <1>0, <2>1
<1>11. CASE Exit
    BY <1>2, <1>11 DEF Exit
<1>12. CASE \E c \in Clients : Join(c) \/ Leave(c)
    BY <1>2, <1>12 DEF Join, Leave, state
<1> QED
    BY Steps, <1>3, <1>4, <1>5, <1>6, <1>7, <1>8, <1>9, <1>10, <1>11, <1>12

LEMMA TimersStep ==
    ASSUME TypeInv, JobInv, Next
    PROVE  TimersMeanJobs'
<1>0. job \in [Jobs -> Job]
    BY DEF TypeInv, TypeOK
<1> USE DEF JobInv, TimersMeanJobs
<1>1. ASSUME mayKill' = mayKill, \A i \in Jobs : job'[i].status = job[i].status,
             \A i \in Jobs, k \in {"deadline", "kill", "retention"} :
                 <<k, i>> \in timers' => <<k, i>> \in timers
      PROVE  TimersMeanJobs'
    BY <1>1
<1>2. ASSUME NEW r \in Requests, NEW what \in Asked, NEW a \in Answer, Answers(r, what, a)
      PROVE  TimersMeanJobs'
    BY <1>1, <1>2 DEF Answers, SameJobs, SameClients
<1>3. ASSUME NEW r \in Requests, NEW j \in Jobs, Starts(r, j)
      PROVE  TimersMeanJobs'
    <2>1. /\ job[j].status = "none" /\ job'[j].status = "running"
          /\ \A i \in Jobs : i # j => job'[i] = job[i]
          /\ timers' \in {timers, timers \cup {<<"deadline", j>>}}
          /\ mayKill' = mayKill
        BY <1>3 DEF Starts, SameClients
    <2>2. \A i \in Jobs, k \in {"deadline", "kill", "retention"} :
              <<k, i>> \in timers' => <<k, i>> \in timers \/ (i = j /\ k = "deadline")
        BY <2>1
    <2>3. \A k \in {"deadline", "kill", "retention"} : <<k, j>> \notin timers
        BY <2>1
    <2>4. ASSUME NEW i \in Jobs, i # j, NEW k \in {"deadline", "kill", "retention"}
          PROVE  <<k, i>> \in timers' => <<k, i>> \in timers
        BY <2>2, <2>4
    <2>5. <<"retention", j>> \notin timers'
        BY <2>2, <2>3
    <2> QED
        BY <2>1, <2>4, <2>5
<1>4. ASSUME NEW j \in Jobs, NEW rs \in SUBSET Requests, Finishes(j, rs)
      PROVE  TimersMeanJobs'
    <2>1. /\ job'[j].status = "exited"
          /\ \A i \in Jobs : i # j => job'[i] = job[i]
          /\ mayKill' = mayKill
        BY <1>4 DEF Finishes, SameClients
    <2> QED
        BY <1>4, <2>1, TimersAtTheEnd
<1>5. ASSUME NEW r \in Requests, NEW j \in Jobs, NEW timed \in BOOLEAN, handleWait(r, j, timed)
      PROVE  TimersMeanJobs'
    BY <1>1, <1>5 DEF handleWait, Asks
<1>6. ASSUME NEW r \in Requests, Close(r) \/ WaitTimer(r)
      PROVE  TimersMeanJobs'
    BY <1>1, <1>6 DEF Close, WaitTimer
<1>7. ASSUME NEW j \in Jobs, KillTimer(j) \/ Forget(j) \/ (ChildClose(j) /\ ~Unfinished(j))
      PROVE  TimersMeanJobs'
    BY <1>1, <1>7 DEF KillTimer, Forget, ChildClose, state
<1>8. ASSUME NEW j \in Jobs, Data(j)
      PROVE  TimersMeanJobs'
    <2>1. \A i \in Jobs : job'[i].status = job[i].status
        BY <1>0, <1>8 DEF Data, Job
    <2> QED
        BY <1>1, <1>8, <2>1 DEF Data
<1>9. ASSUME NEW j \in Jobs, Deadline(j), ~Refused(j)
      PROVE  TimersMeanJobs'
    <2>1. \A i \in Jobs : job'[i].status = job[i].status
        BY <1>0, <1>9 DEF Deadline, Job
    <2>2. /\ <<"deadline", j>> \in timers /\ mayKill' = mayKill
          /\ timers' = (timers \ {<<"deadline", j>>}) \cup {<<"kill", j>>}
        BY <1>9 DEF Deadline, Fires
    <2> QED
        BY <2>1, <2>2
<1>10. CASE Exit
    BY <1>1, <1>10 DEF Exit
<1>11. CASE \E c \in Clients : Join(c) \/ Leave(c)
    BY <1>1, <1>11 DEF Join, Leave, state
<1> QED
    BY Steps, <1>2, <1>3, <1>4, <1>5, <1>6, <1>7, <1>8, <1>9, <1>10, <1>11

LEMMA ExecStep ==
    ASSUME TypeInv, AskingInv, JobInv, Next
    PROVE  OneExecPerJob'
<1>0. job \in [Jobs -> Job]
    BY DEF TypeInv, TypeOK
<1> USE DEF JobInv, OneExecPerJob
<1>1. ASSUME asked' = asked, \A i \in Jobs : job[i].status # "none" => job'[i].status # "none"
      PROVE  OneExecPerJob'
    BY <1>1
<1>2. ASSUME NEW r \in Requests, NEW what \in Asked, Asks(r, what),
             \A j \in Jobs : what \notin {<<"exec", j>>, <<"detach", j>>},
             \A i \in Jobs : job[i].status # "none" => job'[i].status # "none"
      PROVE  OneExecPerJob'
    <2>1. asked'[r] = what /\ \A q \in Requests : q # r => asked'[q] = asked[q]
        BY <1>2, Asking
    <2>2. ASSUME NEW q \in Requests, NEW j \in Jobs, asked'[q] \in {<<"exec", j>>, <<"detach", j>>}
          PROVE  q # r /\ asked[q] = asked'[q]
        BY <1>2, <2>1, <2>2
    <2> QED
        BY <1>2, <2>2
<1>3. ASSUME NEW r \in Requests, NEW what \in Asked, NEW a \in Answer, Answers(r, what, a)
      PROVE  OneExecPerJob'
    BY <1>2, <1>3 DEF Answers, SameJobs
<1>4. ASSUME NEW r \in Requests, NEW j \in Jobs, Starts(r, j)
      PROVE  OneExecPerJob'
    <2>1. /\ job[j].status = "none" /\ job'[j].status = "running"
          /\ \A i \in Jobs : i # j => job'[i] = job[i]
        BY <1>4 DEF Starts
    <2>2. PICK k \in {"exec", "detach"} : Asks(r, <<k, j>>)
        BY <1>4 DEF Starts, Attached, Detached
    <2>3. <<k, j>> \in Asked
        BY DEF Asked
    <2>4. asked'[r] = <<k, j>> /\ \A q \in Requests : q # r => asked'[q] = asked[q]
        BY <2>2, <2>3, Asking
    <2>5. \A q \in Requests : asked[q] \notin {<<"exec", j>>, <<"detach", j>>}
        BY <2>1
    <2>6. ASSUME NEW q \in Requests, NEW i \in Jobs
          PROVE  asked'[q] \in {<<"exec", i>>, <<"detach", i>>} => job'[i].status # "none"
        BY <2>1, <2>4, <2>6
    <2>7. ASSUME NEW q \in Requests, NEW p \in Requests, NEW i \in Jobs
          PROVE  ~(asked'[q] = <<"detach", i>> /\ asked'[p] = <<"exec", i>>)
        <3>1. CASE i = j
            <4> SUFFICES ASSUME asked'[q] = <<"detach", j>>, asked'[p] = <<"exec", j>>
                         PROVE  FALSE
                BY <3>1
            <4>1. q = r /\ p = r
                BY <2>4, <2>5
            <4>2. <<"detach", j>> # <<"exec", j>>
                OBVIOUS
            <4> QED
                BY <4>1, <4>2
        <3>2. CASE i # j
            BY <2>4, <3>2
        <3> QED
            BY <3>1, <3>2
    <2> QED
        BY <2>6, <2>7
<1>5. ASSUME NEW j \in Jobs, NEW rs \in SUBSET Requests, Finishes(j, rs)
      PROVE  OneExecPerJob'
    <2>1. \A i \in Jobs : job[i].status # "none" => job'[i].status # "none"
        BY <1>5 DEF Finishes
    <2>2. \A i \in Jobs : <<"kill", j>> \in Asked /\ <<"kill", j>> \notin {<<"exec", i>>, <<"detach", i>>}
        BY DEF Asked
    <2> QED
        BY <1>1, <1>2, <1>5, <2>1, <2>2 DEF Finishes
<1>6. ASSUME NEW r \in Requests, NEW j \in Jobs, NEW timed \in BOOLEAN, handleWait(r, j, timed)
      PROVE  OneExecPerJob'
    <2>1. \A i \in Jobs : <<"wait", j>> \in Asked /\ <<"wait", j>> \notin {<<"exec", i>>, <<"detach", i>>}
        BY DEF Asked
    <2> QED
        BY <1>2, <1>6, <2>1 DEF handleWait
<1>7. ASSUME NEW r \in Requests, Close(r) \/ WaitTimer(r)
      PROVE  OneExecPerJob'
    BY <1>1, <1>7 DEF Close, WaitTimer
<1>8. ASSUME NEW j \in Jobs,
             \/ KillTimer(j) \/ Forget(j) \/ Data(j)
             \/ Deadline(j) /\ ~Refused(j)
             \/ ChildClose(j) /\ ~Unfinished(j)
      PROVE  OneExecPerJob'
    <2>1. asked' = asked
        BY <1>8 DEF KillTimer, Forget, Data, Deadline, ChildClose, requests
    <2>2. \A i \in Jobs : job'[i].status = job[i].status
        BY <1>0, <1>8 DEF KillTimer, Forget, Data, Deadline, ChildClose, state, Job
    <2> QED
        BY <1>1, <2>1, <2>2
<1>9. CASE Exit
    BY <1>1, <1>9 DEF Exit
<1>10. CASE \E c \in Clients : Join(c) \/ Leave(c)
    BY <1>1, <1>10 DEF Join, Leave, state, requests
<1> QED
    BY Steps, <1>3, <1>4, <1>5, <1>6, <1>7, <1>8, <1>9, <1>10

----------------------------------------------------------------------------
\* What is told of a job, and when.

\* A step answers a request at most once, and only one that had no answer; what it tells
\* of a job is what the job is after the step.
Told(r) ==
    \/ answers'[r] = answers[r]
    \/ \E a \in Answer :
          /\ answers[r] = <<>> /\ answers'[r] = <<a>>
          /\ a.type = "result" => a = jobSnapshot(a.job, job'[a.job])

LEMMA Tells ==
    ASSUME TypeInv, NEW rs \in SUBSET Requests, NEW a \in Answer,
           answers' = reply(answers, rs, a),
           \A r \in rs : answers[r] = <<>>,
           a.type = "result" => a = jobSnapshot(a.job, job'[a.job])
    PROVE  \A r \in Requests : Told(r)
<1>1. \A r \in Requests : r \notin rs => answers'[r] = answers[r]
    BY Replies
<1>2. Append(<<>>, a) = <<a>>
    OBVIOUS
<1>3. \A r \in rs : answers'[r] \in {answers[r], <<a>>}
    <2>1. \A r \in Requests : answers'[r] \in {answers[r], Append(answers[r], a)}
        BY Replies
    <2> QED
        BY <1>2, <2>1
<1> QED
    BY <1>1, <1>3 DEF Told

LEMMA ToldOnce ==
    ASSUME TypeInv, AskingInv, JobInv, Next
    PROVE  \A r \in Requests : Told(r)
<1>0. /\ onExit \in [Jobs -> SUBSET Requests] /\ job \in [Jobs -> Job]
    BY DEF TypeInv, TypeOK
<1>1. CASE answers' = answers
    BY <1>1 DEF Told
<1>2. ASSUME NEW r \in Requests, NEW what \in Asked, NEW a \in Answer, Answers(r, what, a)
      PROVE  \A q \in Requests : Told(q)
    <2>1. answers[r] = <<>>
        BY <1>2, Asking DEF Answers
    <2>2. /\ answers' = reply(answers, {r}, a)
          /\ a.type = "result" => a = jobSnapshot(a.job, job'[a.job])
        BY <1>2 DEF Answers, SameJobs
    <2> QED
        BY <2>1, <2>2, Tells
<1>3. ASSUME NEW r \in Requests, NEW j \in Jobs, Starts(r, j)
      PROVE  \A q \in Requests : Told(q)
    <2>1. CASE Attached(r, j)
        BY <1>1, <2>1 DEF Attached
    <2>2. CASE Detached(r, j)
        <3>1. answers[r] = <<>>
            <4>1. <<"detach", j>> \in Asked
                BY DEF Asked
            <4> QED
                BY <2>2, <4>1, Asking DEF Detached
        <3>2. /\ jobSnapshot(j, job'[j]) \in Answer
              /\ jobSnapshot(j, job'[j]).job = j
            BY <1>3, Snapshots DEF Starts, TypeInv
        <3>3. answers' = reply(answers, {r}, jobSnapshot(j, job'[j]))
            BY <2>2 DEF Detached
        <3> QED
            BY <3>1, <3>2, <3>3, Tells
    <2> QED
        BY <1>3, <2>1, <2>2 DEF Starts
<1>4. ASSUME NEW j \in Jobs, NEW rs \in SUBSET Requests, Finishes(j, rs)
      PROVE  \A q \in Requests : Told(q)
    <2>1. /\ jobSnapshot(j, job'[j]) \in Answer
          /\ jobSnapshot(j, job'[j]).job = j
        BY <1>4, Snapshots DEF Finishes, TypeInv
    <2>2. answers' = reply(answers, onExit[j] \cup rs, jobSnapshot(j, job'[j]))
        BY <1>4 DEF Finishes
    <2>3. \A r \in onExit[j] : answers[r] = <<>>
        BY DEF AskingInv, ListenersWait
    <2>4. \A r \in rs : answers[r] = <<>>
        <3>1. ASSUME NEW r \in Requests, Asks(r, <<"kill", j>>)
              PROVE  answers[r] = <<>>
            BY <3>1, Asking DEF Asked
        <3> QED
            BY <1>4, <3>1 DEF Finishes
    <2>5. onExit[j] \cup rs \in SUBSET Requests
        BY <1>0
    <2> QED
        BY <2>1, <2>2, <2>3, <2>4, <2>5, Tells
<1>5. ASSUME NEW r \in Requests, WaitTimer(r)
      PROVE  \A q \in Requests : Told(q)
    <2>1. PICK j \in Jobs :
              /\ asked[r] = <<"wait", j>>
              /\ jobSnapshot(j, job[j]) \in Answer
              /\ jobSnapshot(j, job[j]).job = j
              /\ answers' = reply(answers, {r}, jobSnapshot(j, job[j]))
        BY <1>5, WaitTyped
    <2>2. answers[r] = <<>>
        BY <1>5 DEF AskingInv, WaitTimersHaveListeners, ListenersWait, WaitTimer, Fires
    <2>3. job' = job
        BY <1>5 DEF WaitTimer
    <2> QED
        BY <2>1, <2>2, <2>3, Tells
<1>6. ASSUME NEW r \in Requests, NEW j \in Jobs, NEW timed \in BOOLEAN, handleWait(r, j, timed)
      PROVE  answers' = answers
    BY <1>6 DEF handleWait
<1>7. ASSUME NEW r \in Requests, Close(r)
      PROVE  answers' = answers
    BY <1>7 DEF Close
<1>8. ASSUME NEW j \in Jobs,
             \/ KillTimer(j) \/ Forget(j) \/ Data(j)
             \/ Deadline(j) /\ ~Refused(j)
             \/ ChildClose(j) /\ ~Unfinished(j)
      PROVE  answers' = answers
    BY <1>8 DEF KillTimer, Forget, Data, Deadline, ChildClose, requests
<1>9. ASSUME Exit \/ \E c \in Clients : Join(c) \/ Leave(c)
      PROVE  answers' = answers
    BY <1>9 DEF Exit, Join, Leave, requests
<1> QED
    BY Steps, <1>1, <1>2, <1>3, <1>4, <1>5, <1>6, <1>7, <1>8, <1>9

\* A job that has exited stays as it is, once its signals reach it.
LEMMA ExitedStays ==
    ASSUME TypeInv, JobInv, Next, mayKill, NEW j \in Jobs, job[j].status = "exited"
    PROVE  job'[j] = job[j]
<1>0. job \in [Jobs -> Job]
    BY DEF TypeInv, TypeOK
<1>1. ASSUME NEW r \in Requests, NEW i \in Jobs, Starts(r, i)
      PROVE  job'[j] = job[j]
    BY <1>1 DEF Starts
<1>2. ASSUME NEW i \in Jobs, NEW rs \in SUBSET Requests, Finishes(i, rs)
      PROVE  job'[j] = job[j]
    BY <1>2 DEF Finishes
<1>3. ASSUME NEW i \in Jobs, Data(i)
      PROVE  job'[j] = job[j]
    <2>1. i # j
        BY <1>3 DEF Data, JobInv, ChildrenMatchJobs
    <2> QED
        BY <1>0, <1>3, <2>1 DEF Data
<1>4. ASSUME NEW i \in Jobs, Deadline(i), ~Refused(i)
      PROVE  job'[j] = job[j]
    <2>1. i # j
        BY <1>4 DEF Deadline, Fires, JobInv, TimersMeanJobs
    <2> QED
        BY <1>0, <1>4, <2>1 DEF Deadline
<1>5. ASSUME NEW i \in Jobs, KillTimer(i) \/ Forget(i) \/ (ChildClose(i) /\ ~Unfinished(i))
      PROVE  job' = job
    BY <1>5 DEF KillTimer, Forget, ChildClose, state
<1>6. ASSUME NEW r \in Requests,
             \/ \E what \in Asked, a \in Answer : Answers(r, what, a)
             \/ \E i \in Jobs, timed \in BOOLEAN : handleWait(r, i, timed)
             \/ Close(r) \/ WaitTimer(r)
      PROVE  job' = job
    BY <1>6 DEF Answers, SameJobs, handleWait, Close, WaitTimer
<1>7. ASSUME Exit \/ \E c \in Clients : Join(c) \/ Leave(c)
      PROVE  job' = job
    BY <1>7 DEF Exit, Join, Leave, state
<1> QED
    BY Steps, <1>1, <1>2, <1>3, <1>4, <1>5, <1>6, <1>7

\* What is published of a job is published before its exit; an exit when it has exited.
LEMMA Publishes ==
    ASSUME TypeInv, JobInv, Next
    PROVE  \/ log' = log
           \/ \E e \in Event :
                 /\ log' = Append(log, e)
                 /\ mayKill => job[e[1]].status # "exited"
                 /\ e[2] = "exit" => job'[e[1]].status = "exited"
<1> DEFINE Published ==
        \/ log' = log
        \/ \E e \in Event :
              /\ log' = Append(log, e)
              /\ mayKill => job[e[1]].status # "exited"
              /\ e[2] = "exit" => job'[e[1]].status = "exited"
<1>1. ASSUME NEW r \in Requests, NEW j \in Jobs, Starts(r, j)
      PROVE  Published
    <2>1. <<j, "started">> \in Event
        BY DEF Event
    <2> QED
        BY <1>1, <2>1 DEF Starts
<1>2. ASSUME NEW j \in Jobs, NEW rs \in SUBSET Requests, Finishes(j, rs)
      PROVE  Published
    <2>1. <<j, "exit">> \in Event
        BY DEF Event
    <2> QED
        BY <1>2, <2>1 DEF Finishes
<1>3. ASSUME NEW j \in Jobs, Data(j)
      PROVE  Published
    <2> DEFINE e == <<j, "data", job[j].chunks + 1>>
    <2>1. job[j].chunks + 1 \in 1..MaxChunks
        BY <1>3, DaemonAssumption DEF Data, TypeInv, TypeOK, Job, DaemonAssumption
    <2>2. e \in Event /\ e[1] = j /\ e[2] = "data"
        BY <2>1 DEF Event
    <2>3. mayKill => job[j].status # "exited"
        BY <1>3 DEF Data, JobInv, ChildrenMatchJobs
    <2>4. log' = Append(log, e)
        BY <1>3 DEF Data, publish
    <2> QED
        BY <2>2, <2>3, <2>4
<1>4. ASSUME NEW j \in Jobs,
             \/ KillTimer(j) \/ Forget(j)
             \/ Deadline(j) /\ ~Refused(j)
             \/ ChildClose(j) /\ ~Unfinished(j)
      PROVE  log' = log
    BY <1>4 DEF KillTimer, Forget, Deadline, ChildClose, events
<1>5. ASSUME NEW r \in Requests,
             \/ \E what \in Asked, a \in Answer : Answers(r, what, a)
             \/ \E i \in Jobs, timed \in BOOLEAN : handleWait(r, i, timed)
             \/ Close(r) \/ WaitTimer(r)
      PROVE  log' = log
    BY <1>5 DEF Answers, SameJobs, handleWait, Close, WaitTimer, events
<1>6. ASSUME Exit \/ \E c \in Clients : Join(c) \/ Leave(c)
      PROVE  log' = log
    BY <1>6 DEF Exit, Join, Leave
<1> QED
    BY Steps, <1>1, <1>2, <1>3, <1>4, <1>5, <1>6

LEMMA AnsweredOnceStep ==
    ASSUME TypeInv, AskingInv, JobInv, AnsweredOnce, Next
    PROVE  AnsweredOnce'
<1>1. \A r \in Requests : answers'[r] = answers[r] \/ \E a \in Answer : answers'[r] = <<a>>
    BY ToldOnce DEF Told
<1>2. \A a \in Answer : Len(<<a>>) = 1
    OBVIOUS
<1>3. ASSUME NEW r \in Requests
      PROVE  Len(answers'[r]) <= 1
    <2>1. CASE answers'[r] = answers[r]
        BY <2>1 DEF AnsweredOnce
    <2>2. ASSUME NEW a \in Answer, answers'[r] = <<a>>
          PROVE  Len(answers'[r]) <= 1
        <3>1. Len(answers'[r]) = 1
            BY <2>2, <1>2
        <3> QED
            BY <3>1
    <2> QED
        BY <1>1, <2>1, <2>2
<1> QED
    BY <1>3 DEF AnsweredOnce

LEMMA SignalsAreFixed ==
    ASSUME TypeInv, JobInv, Next
    PROVE  mayKill' = mayKill
<1>1. CASE SameClients
    BY <1>1 DEF SameClients
<1>2. ASSUME NEW r \in Requests,
             \/ \E what \in Asked, a \in Answer : Answers(r, what, a)
             \/ \E i \in Jobs : Starts(r, i)
             \/ \E i \in Jobs, timed \in BOOLEAN : handleWait(r, i, timed)
             \/ Close(r) \/ WaitTimer(r)
      PROVE  mayKill' = mayKill
    BY <1>1, <1>2 DEF Answers, Starts, handleWait, Asks, Close, WaitTimer
<1>3. ASSUME NEW j \in Jobs,
             \/ \E rs \in SUBSET Requests : Finishes(j, rs)
             \/ KillTimer(j) \/ Forget(j) \/ Data(j)
             \/ Deadline(j) /\ ~Refused(j)
             \/ ChildClose(j) /\ ~Unfinished(j)
      PROVE  mayKill' = mayKill
    BY <1>1, <1>3 DEF Finishes, KillTimer, Forget, Data, Deadline, ChildClose
<1>4. ASSUME Exit \/ \E c \in Clients : Join(c) \/ Leave(c)
      PROVE  mayKill' = mayKill
    BY <1>4 DEF Exit, Join, Leave
<1> QED
    BY Steps, <1>2, <1>3, <1>4

LEMMA FinalAnswersStep ==
    ASSUME TypeInv, AskingInv, JobInv, ExitedAnswersAreFinal, Next
    PROVE  ExitedAnswersAreFinal'
<1> SUFFICES ASSUME mayKill', NEW r \in Requests, NEW i \in DOMAIN answers'[r],
                    answers'[r][i].type = "result", answers'[r][i].status = "exited"
             PROVE  answers'[r][i] = jobSnapshot(answers'[r][i].job, job'[answers'[r][i].job])
    BY DEF ExitedAnswersAreFinal, jobSnapshot
<1>1. mayKill
    BY SignalsAreFixed
<1>2. answers \in [Requests -> Seq(Answer)]
    BY DEF TypeInv, TypeOK
<1>3. CASE answers'[r] = answers[r]
    <2> DEFINE a == answers[r][i]
    <2>1. /\ a \in Answer /\ a.type = "result" /\ a.status = "exited"
          /\ a = jobSnapshot(a.job, job[a.job])
        BY <1>1, <1>2, <1>3 DEF ExitedAnswersAreFinal
    <2>2. a.job \in Jobs
        <3>1. a \notin [type : {"no command", "stopped"}]
            BY <2>1
        <3>2. a \notin [type : {"unknown"}, job : Jobs]
            BY <2>1
        <3> QED
            BY <2>1, <3>1, <3>2 DEF Answer
    <2>3. job[a.job].status = "exited"
        BY <2>1 DEF jobSnapshot
    <2>4. job'[a.job] = job[a.job]
        BY <1>1, <2>2, <2>3, ExitedStays
    <2> QED
        BY <1>3, <2>1, <2>4
<1>4. ASSUME NEW a \in Answer, answers'[r] = <<a>>,
             a.type = "result" => a = jobSnapshot(a.job, job'[a.job])
      PROVE  answers'[r][i] = jobSnapshot(answers'[r][i].job, job'[answers'[r][i].job])
    BY <1>4
<1> QED
    BY <1>3, <1>4, ToldOnce DEF Told

LEMMA LogStep ==
    ASSUME TypeInv, JobInv, LogMatchesJobs, ExitIsLast, Next
    PROVE  LogMatchesJobs' /\ ExitIsLast'
<1>1. log \in Seq(Event) /\ mayKill' = mayKill
    BY SignalsAreFixed DEF TypeInv, TypeOK
<1>2. CASE ~mayKill
    BY <1>1, <1>2 DEF LogMatchesJobs, ExitIsLast
<1>3. \A i \in DOMAIN log : log[i][1] \in Jobs
    BY <1>1 DEF Event
<1>4. ASSUME mayKill, NEW i \in DOMAIN log, log[i][2] = "exit"
      PROVE  job[log[i][1]].status = "exited" /\ job'[log[i][1]].status = "exited"
    BY <1>3, <1>4, ExitedStays DEF LogMatchesJobs
<1>5. CASE mayKill /\ log' = log
    BY <1>1, <1>4, <1>5 DEF LogMatchesJobs, ExitIsLast
<1>6. ASSUME mayKill, NEW e \in Event, log' = Append(log, e),
             job[e[1]].status # "exited",
             e[2] = "exit" => job'[e[1]].status = "exited"
      PROVE  LogMatchesJobs' /\ ExitIsLast'
    <2> DEFINE n == Len(log) + 1
    <2>1. /\ DOMAIN log' = 1..n /\ log'[n] = e /\ DOMAIN log = 1..(n - 1) /\ n \in Nat
          /\ \A i \in DOMAIN log : log'[i] = log[i]
        BY <1>1, <1>6
    <2>2. LogMatchesJobs'
        <3> SUFFICES ASSUME NEW i \in DOMAIN log', log'[i][2] = "exit"
                     PROVE  job'[log'[i][1]].status = "exited"
            BY DEF LogMatchesJobs
        <3>1. CASE i = n
            BY <1>6, <2>1, <3>1
        <3>2. CASE i # n
            BY <1>4, <1>6, <2>1, <3>2
        <3> QED
            BY <3>1, <3>2
    <2>3. ExitIsLast'
        <3> SUFFICES ASSUME NEW i \in DOMAIN log', NEW k \in DOMAIN log',
                            log'[i][2] = "exit", i < k
                     PROVE  log'[k][1] # log'[i][1]
            BY DEF ExitIsLast
        <3>1. i \in DOMAIN log /\ log'[i] = log[i]
            BY <2>1
        <3>2. CASE k = n
            BY <1>4, <1>6, <2>1, <3>1, <3>2
        <3>3. CASE k # n
            BY <1>6, <2>1, <3>1, <3>3 DEF ExitIsLast
        <3> QED
            BY <3>2, <3>3
    <2> QED
        BY <2>2, <2>3
<1> QED
    BY <1>2, <1>5, <1>6, Publishes

LEMMA MapStep ==
    ASSUME TypeInv, AskingInv, JobInv, RetrievableUntilForgotten, Next
    PROVE  RetrievableUntilForgotten'
<1>0. job \in [Jobs -> Job] /\ jobs \subseteq Jobs
    BY DEF TypeInv, TypeOK
<1> USE DEF RetrievableUntilForgotten
<1>1. ASSUME \A r \in Requests, j \in Jobs : asked'[r] = <<"detach", j>> => asked[r] = <<"detach", j>>,
             \A j \in Jobs : job'[j].status = job[j].status,
             \A j \in Jobs : <<"retention", j>> \in timers' => <<"retention", j>> \in timers,
             jobs' = jobs
      PROVE  RetrievableUntilForgotten'
    BY <1>1
<1>2. ASSUME NEW r \in Requests, NEW what \in Asked, Asks(r, what),
             \A j \in Jobs : what # <<"detach", j>>
      PROVE  \A q \in Requests, j \in Jobs : asked'[q] = <<"detach", j>> => asked[q] = <<"detach", j>>
    BY <1>2, Asking
<1>3. ASSUME NEW r \in Requests, NEW what \in Asked, NEW a \in Answer, Answers(r, what, a)
      PROVE  RetrievableUntilForgotten'
    <2>1. \A j \in Jobs : what # <<"detach", j>>
        BY <1>3 DEF Answers
    <2>2. \A j \in Jobs : <<"retention", j>> \in timers' => <<"retention", j>> \in timers
        BY <1>3 DEF Answers
    <2> QED
        BY <1>1, <1>2, <1>3, <2>1, <2>2 DEF Answers, SameJobs
<1>4. ASSUME NEW r \in Requests, NEW j \in Jobs, Starts(r, j)
      PROVE  RetrievableUntilForgotten'
    <2>1. PICK k \in {"exec", "detach"} : Asks(r, <<k, j>>)
        BY <1>4 DEF Starts, Attached, Detached
    <2>2. asked'[r] = <<k, j>> /\ \A q \in Requests : q # r => asked'[q] = asked[q]
        <3>1. <<k, j>> \in Asked
            BY DEF Asked
        <3> QED
            BY <2>1, <3>1, Asking
    <2>3. /\ \A i \in Jobs : i # j => job'[i] = job[i]
          /\ jobs' = jobs \cup {j}
          /\ \A i \in Jobs : <<"retention", i>> \in timers' => <<"retention", i>> \in timers
        BY <1>4 DEF Starts
    <2> SUFFICES ASSUME NEW i \in Jobs, i # j, NEW q \in Requests, asked'[q] = <<"detach", i>>,
                        job'[i].status = "running" \/ <<"retention", i>> \in timers'
                 PROVE  i \in jobs
        BY <2>3
    <2>4. q # r
        BY <2>2
    <2> QED
        BY <2>2, <2>3, <2>4
<1>5. ASSUME NEW j \in Jobs, NEW rs \in SUBSET Requests, Finishes(j, rs)
      PROVE  RetrievableUntilForgotten'
    <2> SUFFICES ASSUME NEW i \in Jobs, NEW q \in Requests, asked'[q] = <<"detach", i>>,
                        job'[i].status = "running" \/ <<"retention", i>> \in timers'
                 PROVE  i \in jobs'
        OBVIOUS
    <2>1. asked[q] = <<"detach", i>>
        <3>1. <<"kill", j>> \in Asked /\ \A x \in Jobs : <<"kill", j>> # <<"detach", x>>
            BY DEF Asked
        <3> QED
            BY <1>2, <1>5, <3>1 DEF Finishes
    <2>2. job[i].status = "running" \/ <<"retention", i>> \in timers
        <3>1. CASE i = j
            BY <1>5, <3>1 DEF Finishes
        <3>2. CASE i # j
            <4>1. job'[i] = job[i]
                BY <1>5, <3>2 DEF Finishes
            <4> QED
                BY <1>5, <3>2, <4>1, TimersAtTheEnd
        <3> QED
            BY <3>1, <3>2
    <2>3. i \in jobs
        BY <2>1, <2>2
    <2>4. CASE i = j
        <3>1. \A p \in Requests : asked[p] # <<"exec", j>>
            BY <2>1, <2>4 DEF JobInv, OneExecPerJob
        <3>2. \A p \in onExit[j] : asked[p] = <<"wait", j>>
            <4>1. onExit[j] \subseteq Requests
                BY DEF TypeInv, TypeOK
            <4> QED
                BY <3>1, <4>1 DEF AskingInv, ListenersWait
        <3>3. jobs' = jobs
            BY <1>5, <3>2 DEF Finishes, Kept
        <3> QED
            BY <2>3, <3>3
    <2>5. CASE i # j
        BY <1>5, <2>3, <2>5 DEF Finishes, Kept
    <2> QED
        BY <2>4, <2>5
<1>6. ASSUME NEW r \in Requests, NEW j \in Jobs, NEW timed \in BOOLEAN, handleWait(r, j, timed)
      PROVE  RetrievableUntilForgotten'
    <2>1. /\ Asks(r, <<"wait", j>>) /\ job' = job /\ jobs' = jobs
          /\ \A i \in Jobs : <<"retention", i>> \in timers' => <<"retention", i>> \in timers
        BY <1>6 DEF handleWait
    <2>2. <<"wait", j>> \in Asked /\ \A x \in Jobs : <<"wait", j>> # <<"detach", x>>
        BY DEF Asked
    <2> QED
        BY <1>1, <1>2, <2>1, <2>2
<1>7. ASSUME NEW r \in Requests, Close(r) \/ WaitTimer(r)
      PROVE  RetrievableUntilForgotten'
    BY <1>1, <1>7 DEF Close, WaitTimer
<1>8. ASSUME NEW j \in Jobs, KillTimer(j) \/ (ChildClose(j) /\ ~Unfinished(j))
      PROVE  RetrievableUntilForgotten'
    BY <1>1, <1>8 DEF KillTimer, ChildClose, state, requests
<1>9. ASSUME NEW j \in Jobs, Data(j) \/ (Deadline(j) /\ ~Refused(j))
      PROVE  RetrievableUntilForgotten'
    <2>1. \A i \in Jobs : job'[i].status = job[i].status
        BY <1>0, <1>9 DEF Data, Deadline, Job
    <2>2. \A i \in Jobs : <<"retention", i>> \in timers' => <<"retention", i>> \in timers
        BY <1>9 DEF Data, Deadline
    <2>3. asked' = asked /\ jobs' = jobs
        BY <1>9 DEF Data, Deadline, requests
    <2> QED
        BY <1>1, <2>1, <2>2, <2>3
<1>10. ASSUME NEW j \in Jobs, Forget(j)
       PROVE  RetrievableUntilForgotten'
    <2>1. /\ job' = job /\ asked' = asked /\ jobs' = jobs \ {j}
          /\ <<"retention", j>> \in timers /\ timers' = timers \ {<<"retention", j>>}
        BY <1>10 DEF Forget, Fires, requests
    <2>2. job[j].status = "exited"
        BY <2>1 DEF JobInv, TimersMeanJobs
    <2> QED
        BY <2>1, <2>2
<1>11. CASE Exit
    BY <1>1, <1>11 DEF Exit
<1>12. CASE \E c \in Clients : Join(c) \/ Leave(c)
    BY <1>1, <1>12 DEF Join, Leave, state, requests
<1> QED
    BY Steps, <1>3, <1>4, <1>5, <1>6, <1>7, <1>8, <1>9, <1>10, <1>11, <1>12

----------------------------------------------------------------------------
\* The inductive invariant and what it says.

LEMMA DaemonInit == Init => DaemonInv
<1> SUFFICES ASSUME Init PROVE DaemonInv
    OBVIOUS
<1>1. NoJob \in Job /\ NoJob.status = "none" /\ NoJob.code = "none" /\ NoJob.notes = 0
    BY DaemonAssumption DEF NoJob, Job, DaemonAssumption
<1>2. \A j \in Jobs : job[j] = NoJob /\ child[j] = "none" /\ onExit[j] = {}
    BY DEF Init
<1>3. \A r \in Requests : asked[r] = <<"nothing">> /\ answers[r] = <<>>
    BY DEF Init
<1>4. TypeInv
    <2>1. Control /\ ChildTypes
        BY DaemonAssumption DEF Init, Control, ChildTypes, DaemonAssumption
    <2>2. JobTypes
        BY <1>1, <1>2 DEF Init, JobTypes, NotesComeLast
    <2>3. RequestTypes
        BY DEF Init, RequestTypes, Asked
    <2> QED
        BY <2>1, <2>2, <2>3, TypeParts
<1>5. AskingInv
    BY <1>2, <1>3 DEF Init, AskingInv, ListenersWait, WaitTimersHaveListeners,
                      NothingAskedNothingAnswered
<1>6. JobInv
    BY <1>1, <1>2, <1>3 DEF Init, JobInv, ChildrenMatchJobs, TimersMeanJobs, OneExecPerJob
<1>7. AnsweredOnce /\ ExitedAnswersAreFinal
    BY <1>3 DEF AnsweredOnce, ExitedAnswersAreFinal
<1>8. LogMatchesJobs /\ ExitIsLast
    BY DEF Init, LogMatchesJobs, ExitIsLast
<1>9. RetrievableUntilForgotten
    BY <1>3 DEF RetrievableUntilForgotten
<1> QED
    BY <1>4, <1>5, <1>6, <1>7, <1>8, <1>9 DEF DaemonInv, ExitIsFinal

LEMMA DaemonInvStep ==
    ASSUME DaemonInv, [Next]_vars
    PROVE  DaemonInv'
<1>1. CASE Next
    <2>1. TypeInv /\ AskingInv /\ JobInv
        BY DEF DaemonInv
    <2>2. TypeInv'
        <3>1. TypeInv' <=> (Control /\ ChildTypes /\ JobTypes /\ RequestTypes)'
            BY TypeParts DEF TypeInv, TypeOK, Control, ChildTypes, JobTypes, RequestTypes
        <3> QED
            BY <1>1, <2>1, <3>1, ControlTypes, ChildrenTyped, JobsTyped, RequestsTyped
    <2>3. AskingInv' /\ JobInv'
        BY <1>1, <2>1, AskingStep, ChildrenStep, TimersStep, ExecStep DEF JobInv
    <2> QED
        BY <1>1, <2>1, <2>2, <2>3, AnsweredOnceStep, FinalAnswersStep, LogStep, MapStep
           DEF DaemonInv, ExitIsFinal
<1>2. CASE UNCHANGED vars
    <2>1. UNCHANGED <<mayKill, daemon, child, job, jobs, onExit, timers, asked, conn, answers, log, joined>>
        BY <1>2 DEF vars, state, requests, events
    <2>2. TypeInv' /\ AskingInv' /\ JobInv'
        <3>1. TypeInv'
            BY <2>1 DEF DaemonInv, TypeInv, TypeOK, NotesComeLast
        <3>2. AskingInv'
            BY <2>1 DEF DaemonInv, AskingInv, ListenersWait, WaitTimersHaveListeners,
                        NothingAskedNothingAnswered
        <3>3. JobInv'
            BY <2>1 DEF DaemonInv, JobInv, ChildrenMatchJobs, TimersMeanJobs, OneExecPerJob
        <3> QED
            BY <3>1, <3>2, <3>3
    <2>3. AnsweredOnce' /\ RetrievableUntilForgotten'
        BY <2>1 DEF DaemonInv, AnsweredOnce, RetrievableUntilForgotten
    <2>4. LogMatchesJobs' /\ ExitIsLast'
        BY <2>1 DEF DaemonInv, LogMatchesJobs, ExitIsFinal, ExitIsLast
    <2>5. ExitedAnswersAreFinal'
        BY <2>1 DEF DaemonInv, ExitIsFinal, ExitedAnswersAreFinal, jobSnapshot
    <2> QED
        BY <2>2, <2>3, <2>4, <2>5 DEF DaemonInv, ExitIsFinal
<1> QED
    BY <1>1, <1>2

LEMMA DaemonInvariant == Spec => []DaemonInv
BY DaemonInit, DaemonInvStep, PTL DEF Spec

\* Every reachable state of the daemon is well typed, whatever the number of jobs, requests
\* and clients: a job has a code exactly when it has exited, at most two notes follow its
\* output, and the map holds started jobs only.
THEOREM DaemonTypeCorrect == Spec => []TypeOK
<1>1. DaemonInv => TypeOK
    BY DEF DaemonInv, TypeInv
<1> QED
    BY <1>1, DaemonInvariant, PTL

\* No request is answered twice, whichever of the exit, the wait's timer, the kill that is
\* refused and the close of its connection come, and in which order (seed-launcher.ts:347-363).
THEOREM EachRequestIsAnsweredOnce == Spec => []AnsweredOnce
<1>1. DaemonInv => AnsweredOnce
    BY DEF DaemonInv
<1> QED
    BY <1>1, DaemonInvariant, PTL

\* Where signals reach the children, an exit is the last event of its job, and whoever is
\* told that a job exited was told all of it (seed-launcher.ts:230-298).
THEOREM AnExitIsFinal == Spec => []ExitIsFinal
<1>1. DaemonInv => ExitIsFinal
    BY DEF DaemonInv
<1> QED
    BY <1>1, DaemonInvariant, PTL

\* No timer signals the group of a job that has exited, and a detached job is in the map
\* from its start until its retention has elapsed (seed-launcher.ts:123, 233-264).
THEOREM TimersAndMapGoTogether == Spec => []TimersMatchJobs
<1>1. DaemonInv => TimersMatchJobs
    BY DEF DaemonInv, TimersMatchJobs, SignalsSpareTheExited, JobInv, TimersMeanJobs
<1> QED
    BY <1>1, DaemonInvariant, PTL

----------------------------------------------------------------------------
(* The bridge: what a streaming call hears of its command.  s is what its client heard, *)
(* n how much the command wrote, L the calls whose stream came late.                    *)

\* The chunks of its command among the first events.
Before(c, s, p) == {q \in 1..(p - 1) : OwnOutput(c, s[q])}

\* They come one after the other, the first one first unless the stream came late.
InOrder(c, s, n, L) ==
    \A p \in 1..Len(s) : OwnOutput(c, s[p]) =>
        /\ s[p][3] \in 1..n
        /\ \A q \in Before(c, s, p) : s[q][3] < s[p][3]
        /\ \/ \E q \in Before(c, s, p) : s[q][3] = s[p][3] - 1
           \/ Before(c, s, p) = {} /\ (c \in L \/ s[p][3] = 1)

\* The last one written was heard.
UpToDate(c, s, n, L) ==
    \/ \E p \in 1..Len(s) : OwnOutput(c, s[p]) /\ s[p][3] = n
    \/ Before(c, s, Len(s) + 1) = {} /\ (c \in L \/ n = 0)

Output(c) == {c} \X {"data"} \X Nat
Chunks(c, i, j) == [k \in 1..(j + 1 - i) |-> <<c, "data", i + k - 1>>]

\* The chunks i..j are marked once the first k events are read.
ReadTo(c, s, k, n, L, i, j) ==
    /\ i \in Nat /\ i # 0 /\ j \in Nat /\ i <= j + 1 /\ j <= n
    /\ c \in L \/ i = 1
    /\ \A q \in Before(c, s, k + 1) : s[q][3] <= j
    /\ \/ i <= j /\ \E q \in Before(c, s, k + 1) : s[q][3] = j
       \/ i = 1 /\ j = 0 /\ Before(c, s, k + 1) = {}

LEMMA OwnEvent ==
    ASSUME NEW c \in Calls, NEW e \in Event, OwnOutput(c, e)
    PROVE  e = <<c, "data", e[3]>> /\ e[3] \in Nat
BY DEF OwnOutput, Event

LEMMA ChunksSeq ==
    ASSUME NEW c, NEW i \in Nat, NEW j \in Nat, i <= j + 1
    PROVE  /\ Chunks(c, i, j) \in Seq(Output(c))
           /\ Len(Chunks(c, i, j)) = j + 1 - i
           /\ \A k \in 1..(j + 1 - i) : Chunks(c, i, j)[k] = <<c, "data", i + k - 1>>
<1>1. j + 1 - i \in Nat
    OBVIOUS
<1>2. \A k \in 1..(j + 1 - i) : i + k - 1 \in Nat
    OBVIOUS
<1>3. Chunks(c, i, j) \in Seq(Output(c)) /\ Len(Chunks(c, i, j)) = j + 1 - i
    <2>1. \A k \in 1..(j + 1 - i) : <<c, "data", i + k - 1>> \in Output(c)
        BY <1>2 DEF Output
    <2> QED
        BY <1>1, <2>1 DEF Chunks
<1>4. \A k \in 1..(j + 1 - i) : Chunks(c, i, j)[k] = <<c, "data", i + k - 1>>
    BY DEF Chunks
<1> QED
    BY <1>1, <1>3, <1>4

LEMMA ConcatIs ==
    ASSUME NEW S, NEW a \in Seq(S), NEW b \in Seq(S), NEW d \in Seq(S),
           Len(d) = Len(a) + Len(b),
           \A k \in 1..Len(a) : a[k] = d[k],
           \A k \in 1..Len(b) : b[k] = d[Len(a) + k]
    PROVE  a \o b = d
<1>1. a \o b \in Seq(S) /\ Len(a \o b) = Len(d)
    OBVIOUS
<1>2. ASSUME NEW k \in 1..Len(d) PROVE (a \o b)[k] = d[k]
    <2>1. CASE k <= Len(a)
        BY <2>1
    <2>2. CASE k > Len(a)
        <3>1. k - Len(a) \in 1..Len(b) /\ Len(a) + (k - Len(a)) = k
            BY <2>2
        <3>2. (a \o b)[k] = b[k - Len(a)]
            BY <2>2
        <3> QED
            BY <3>1, <3>2
    <2> QED
        BY <2>1, <2>2
<1> QED
    BY <1>1, <1>2

LEMMA ChunksConcat ==
    ASSUME NEW c, NEW i \in Nat, NEW j \in Nat, NEW m \in Nat, i # 0, i <= j + 1, j <= m
    PROVE  Chunks(c, i, j) \o Chunks(c, j + 1, m) = Chunks(c, i, m)
<1> DEFINE Is(s, x, y) == /\ s \in Seq(Output(c)) /\ Len(s) = y + 1 - x
                             /\ \A k \in 1..(y + 1 - x) : s[k] = <<c, "data", x + k - 1>>
           a == Chunks(c, i, j)
           b == Chunks(c, j + 1, m)
           d == Chunks(c, i, m)
<1>0. ASSUME NEW x \in Nat, NEW y \in Nat, x <= y + 1
      PROVE  Is(Chunks(c, x, y), x, y)
    <2>1. Chunks(c, x, y) \in Seq(Output(c))
        BY <1>0, ChunksSeq
    <2>2. Len(Chunks(c, x, y)) = y + 1 - x
        BY <1>0, ChunksSeq
    <2>3. \A k \in 1..(y + 1 - x) : Chunks(c, x, y)[k] = <<c, "data", x + k - 1>>
        BY <1>0, ChunksSeq
    <2> QED
        BY <2>1, <2>2, <2>3
<1>1. Is(a, i, j)
    BY <1>0
<1>2. Is(b, j + 1, m)
    <2>1. j + 1 \in Nat /\ j + 1 <= m + 1
        OBVIOUS
    <2> HIDE DEF Is
    <2> QED
        BY <1>0, <2>1
<1>3. Is(d, i, m)
    <2>1. i <= m + 1
        OBVIOUS
    <2> HIDE DEF Is
    <2> QED
        BY <1>0, <2>1
<1> HIDE DEF a, b, d
<1>4. Len(d) = Len(a) + Len(b)
    BY <1>1, <1>2, <1>3
<1>5. \A k \in 1..Len(a) : a[k] = d[k]
    <2>1. \A k \in 1..Len(a) : k \in 1..(m + 1 - i)
        BY <1>1
    <2> QED
        BY <1>1, <1>3, <2>1
<1>6. \A k \in 1..Len(b) : b[k] = d[Len(a) + k]
    <2> SUFFICES ASSUME NEW k \in 1..Len(b) PROVE b[k] = d[Len(a) + k]
        OBVIOUS
    <2>1. Len(a) + k \in 1..(m + 1 - i) /\ i + (Len(a) + k) - 1 = j + 1 + k - 1
        BY <1>1, <1>2
    <2>2. d[Len(a) + k] = <<c, "data", i + (Len(a) + k) - 1>>
        BY <1>3, <2>1
    <2> QED
        BY <1>2, <2>1, <2>2
<1>7. a \o b = d
    BY <1>1, <1>2, <1>3, <1>4, <1>5, <1>6, ConcatIs
<1> QED
    BY <1>7 DEF a, b, d

LEMMA OneChunk == ASSUME NEW c, NEW n \in Nat PROVE Chunks(c, n, n) = << <<c, "data", n>> >>
BY DEF Chunks

LEMMA OneMoreChunk ==
    ASSUME NEW c, NEW i \in Nat, NEW j \in Nat, i # 0, i <= j + 1
    PROVE  /\ Append(Chunks(c, i, j), <<c, "data", j + 1>>) = Chunks(c, i, j + 1)
           /\ Chunks(c, i, j) \o << <<c, "data", j + 1>> >> = Chunks(c, i, j + 1)
<1>1. Chunks(c, i, j) \o << <<c, "data", j + 1>> >> = Chunks(c, i, j + 1)
    <2>1. Chunks(c, i, j) \o Chunks(c, j + 1, j + 1) = Chunks(c, i, j + 1)
        <3>1. j + 1 \in Nat /\ j <= j + 1
            OBVIOUS
        <3> QED
            BY <3>1, ChunksConcat
    <2>2. Chunks(c, j + 1, j + 1) = << <<c, "data", j + 1>> >>
        BY OneChunk
    <2> QED
        BY <2>1, <2>2
<1>2. Append(Chunks(c, i, j), <<c, "data", j + 1>>) = Chunks(c, i, j) \o << <<c, "data", j + 1>> >>
    <2> DEFINE s == Chunks(c, i, j)
               e == <<c, "data", j + 1>>
    <2>1. s \in Seq(Output(c))
        BY ChunksSeq
    <2>3. e \in Output(c)
        BY DEF Output
    <2> HIDE DEF s, e
    <2>2. Append(s, e) = s \o <<e>>
        BY <2>1, <2>3
    <2> QED
        BY <2>2 DEF s, e
<1> QED
    BY <1>1, <1>2

\* Somebody else's event, or one without output, changes none of this.
LEMMA OthersEvent ==
    ASSUME NEW c, NEW s \in Seq(Event), NEW e \in Event, ~OwnOutput(c, e), NEW n \in Nat, NEW L
    PROVE  /\ InOrder(c, s, n, L) => InOrder(c, Append(s, e), n, L)
           /\ UpToDate(c, s, n, L) => UpToDate(c, Append(s, e), n, L)
<1> DEFINE t == Append(s, e)
<1>1. Len(s) \in Nat /\ Len(t) = Len(s) + 1 /\ t[Len(s) + 1] = e
      /\ \A p \in 1..Len(s) : t[p] = s[p]
    OBVIOUS
<1>2. \A p \in 1..(Len(s) + 1) : Before(c, t, p) = Before(c, s, p)
    BY <1>1 DEF Before
<1>3. Before(c, t, Len(t) + 1) = Before(c, s, Len(s) + 1)
    BY <1>1 DEF Before
<1> HIDE DEF t
<1>4. InOrder(c, s, n, L) => InOrder(c, t, n, L)
    <2> SUFFICES ASSUME InOrder(c, s, n, L), NEW p \in 1..Len(t), OwnOutput(c, t[p])
                 PROVE  /\ t[p][3] \in 1..n
                        /\ \A q \in Before(c, t, p) : t[q][3] < t[p][3]
                        /\ \/ \E q \in Before(c, t, p) : t[q][3] = t[p][3] - 1
                           \/ Before(c, t, p) = {} /\ (c \in L \/ t[p][3] = 1)
        BY DEF InOrder
    <2>1. p \in 1..Len(s) /\ t[p] = s[p]
        BY <1>1
    <2>2. Before(c, t, p) = Before(c, s, p)
        BY <1>2, <1>1, <2>1
    <2>3. \A q \in Before(c, s, p) : q \in 1..Len(s) /\ t[q] = s[q]
        BY <1>1, <2>1 DEF Before
    <2> QED
        BY <2>1, <2>2, <2>3 DEF InOrder
<1>5. UpToDate(c, s, n, L) => UpToDate(c, t, n, L)
    BY <1>1, <1>3 DEF UpToDate
<1> QED
    BY <1>4, <1>5 DEF t

\* The next chunk follows the last one.
LEMMA OwnNextEvent ==
    ASSUME NEW c, NEW s \in Seq(Event), NEW n \in Nat, NEW L,
           <<c, "data", n + 1>> \in Event,
           InOrder(c, s, n, L), UpToDate(c, s, n, L)
    PROVE  /\ InOrder(c, Append(s, <<c, "data", n + 1>>), n + 1, L)
           /\ UpToDate(c, Append(s, <<c, "data", n + 1>>), n + 1, L)
<1> DEFINE e == <<c, "data", n + 1>>
           t == Append(s, e)
<1>0. OwnOutput(c, e) /\ e[3] = n + 1 /\ e \in Event
    BY DEF OwnOutput
<1> HIDE DEF e
<1>1. Len(s) \in Nat /\ Len(t) = Len(s) + 1 /\ t[Len(s) + 1] = e
      /\ \A p \in 1..Len(s) : t[p] = s[p]
    BY <1>0
<1>2. \A p \in 1..(Len(s) + 1) : Before(c, t, p) = Before(c, s, p)
    BY <1>1 DEF Before
<1> HIDE DEF t
<1>3. UpToDate(c, t, n + 1, L)
    BY <1>0, <1>1 DEF UpToDate
<1>4. ASSUME NEW p \in 1..Len(t), OwnOutput(c, t[p])
      PROVE  /\ t[p][3] \in 1..(n + 1)
             /\ \A q \in Before(c, t, p) : t[q][3] < t[p][3]
             /\ \/ \E q \in Before(c, t, p) : t[q][3] = t[p][3] - 1
                \/ Before(c, t, p) = {} /\ (c \in L \/ t[p][3] = 1)
    <2>1. CASE p <= Len(s)
        <3>1. p \in 1..Len(s) /\ t[p] = s[p]
            BY <1>1, <2>1
        <3>2. Before(c, t, p) = Before(c, s, p)
            BY <1>2, <1>1, <3>1
        <3>3. \A q \in Before(c, s, p) : q \in 1..Len(s) /\ t[q] = s[q]
            BY <1>1, <3>1 DEF Before
        <3>4. /\ s[p][3] \in 1..n
              /\ \A q \in Before(c, s, p) : s[q][3] < s[p][3]
              /\ \/ \E q \in Before(c, s, p) : s[q][3] = s[p][3] - 1
                 \/ Before(c, s, p) = {} /\ (c \in L \/ s[p][3] = 1)
            BY <1>4, <3>1 DEF InOrder
        <3>5. t[p][3] \in 1..(n + 1)
            BY <3>1, <3>4
        <3>6. \A q \in Before(c, t, p) : t[q][3] < t[p][3]
            BY <3>1, <3>2, <3>3, <3>4
        <3>7. \/ \E q \in Before(c, t, p) : t[q][3] = t[p][3] - 1
              \/ Before(c, t, p) = {} /\ (c \in L \/ t[p][3] = 1)
            BY <3>1, <3>2, <3>3, <3>4
        <3> QED
            BY <3>5, <3>6, <3>7
    <2>2. CASE p = Len(s) + 1
        <3>1. t[p] = e /\ t[p][3] = n + 1 /\ Before(c, t, p) = Before(c, s, Len(s) + 1)
            BY <1>0, <1>1, <1>2, <2>2
        <3>2. \A q \in Before(c, s, Len(s) + 1) : q \in 1..Len(s) /\ t[q] = s[q] /\ s[q][3] \in 1..n
            BY <1>1 DEF Before, InOrder
        <3>3. \A q \in 1..Len(s) : OwnOutput(c, s[q]) => q \in Before(c, s, Len(s) + 1)
            BY <1>1 DEF Before
        <3>4. CASE \E q \in 1..Len(s) : OwnOutput(c, s[q]) /\ s[q][3] = n
            BY <3>1, <3>2, <3>3, <3>4
        <3>5. CASE Before(c, s, Len(s) + 1) = {} /\ (c \in L \/ n = 0)
            BY <3>1, <3>5
        <3> QED
            BY <3>4, <3>5 DEF UpToDate
    <2> QED
        BY <1>1, <2>1, <2>2
<1> QED
    BY <1>3, <1>4 DEF InOrder, t, e

LEMMA InOrderGrows ==
    ASSUME NEW c, NEW s \in Seq(Event), NEW n \in Nat, NEW m \in Nat, n <= m,
           NEW L, NEW M, L \subseteq M, InOrder(c, s, n, L)
    PROVE  InOrder(c, s, m, M)
BY DEF InOrder

\* What was read stays read, whatever comes after it.
LEMMA ReadToGrows ==
    ASSUME NEW c, NEW s \in Seq(Event), NEW k \in 0..Len(s), NEW n \in Nat, NEW L,
           NEW i, NEW j, ReadTo(c, s, k, n, L, i, j),
           NEW m \in Nat, n <= m, NEW M, L \subseteq M,
           NEW t, t = s \/ \E e \in Event : t = Append(s, e)
    PROVE  ReadTo(c, t, k, m, M, i, j)
<1>1. \A q \in 1..Len(s) : t[q] = s[q]
    OBVIOUS
<1>2. Before(c, t, k + 1) = Before(c, s, k + 1) /\ \A q \in Before(c, s, k + 1) : t[q] = s[q]
    BY <1>1 DEF Before
<1> QED
    BY <1>2 DEF ReadTo

LEMMA ReadAnother ==
    ASSUME NEW c, NEW s \in Seq(Event), NEW k \in 0..Len(s), k < Len(s), NEW n \in Nat, NEW L,
           NEW i, NEW j, ReadTo(c, s, k, n, L, i, j), ~OwnOutput(c, s[k + 1])
    PROVE  ReadTo(c, s, k + 1, n, L, i, j)
<1>1. Before(c, s, k + 1 + 1) = Before(c, s, k + 1)
    BY DEF Before
<1> QED
    BY <1>1 DEF ReadTo

\* The chunk read next is the one after the last one read.
LEMMA ReadNext ==
    ASSUME NEW c \in Calls, NEW s \in Seq(Event), NEW k \in 0..Len(s), k < Len(s),
           NEW n \in Nat, NEW L, InOrder(c, s, n, L), OwnOutput(c, s[k + 1]),
           NEW i, NEW j, ReadTo(c, s, k, n, L, i, j)
    PROVE  \E a, b \in Nat :
              /\ a # 0 /\ a <= b + 1
              /\ Chunks(c, a, b) = Chunks(c, i, j)
              /\ s[k + 1] = <<c, "data", b + 1>>
              /\ ReadTo(c, s, k + 1, n, L, a, b + 1)
<1> DEFINE x == s[k + 1][3]
           A == Before(c, s, k + 1)
           B == Before(c, s, k + 1 + 1)
<1>1. s[k + 1] = <<c, "data", x>> /\ x \in Nat
    BY OwnEvent
<1>2. B = A \cup {k + 1}
    BY DEF Before
<1>3. /\ x \in 1..n
      /\ \A q \in A : s[q][3] < x
      /\ \/ \E q \in A : s[q][3] = x - 1
         \/ A = {} /\ (c \in L \/ x = 1)
    BY DEF InOrder
<1>4. \A q \in A : s[q][3] \in 1..n
    BY DEF Before, InOrder
<1> HIDE DEF x, A, B
<1>5. CASE i <= j
    <2>1. x = j + 1
        BY <1>3, <1>4, <1>5 DEF ReadTo, A
    <2>2. ReadTo(c, s, k + 1, n, L, i, j + 1)
        BY <1>2, <1>3, <1>4, <1>5, <2>1 DEF ReadTo, A, B, x
    <2>3. i \in Nat /\ j \in Nat /\ i # 0 /\ i <= j + 1
        BY DEF ReadTo
    <2> QED
        BY <1>1, <2>1, <2>2, <2>3
<1>6. CASE ~(i <= j)
    <2>1. A = {} /\ i = 1 /\ j = 0 /\ (c \in L \/ x = 1)
        BY <1>3, <1>6 DEF ReadTo, A
    <2>2. x - 1 \in Nat /\ x # 0 /\ x <= (x - 1) + 1 /\ (x - 1) + 1 = x
        BY <1>1, <1>3
    <2>3. ReadTo(c, s, k + 1, n, L, x, x)
        <3>1. B = {k + 1} /\ s[k + 1][3] = x
            BY <1>2, <2>1 DEF x
        <3>2. \A q \in B : s[q][3] <= x
            BY <1>1, <3>1
        <3>3. x <= x /\ \E q \in B : s[q][3] = x
            BY <1>1, <3>1
        <3>4. x \in Nat /\ x # 0 /\ x <= x + 1 /\ x <= n
            BY <1>1, <1>3
        <3> QED
            BY <2>1, <3>2, <3>3, <3>4 DEF ReadTo, B
    <2>4. Chunks(c, x, x - 1) = Chunks(c, i, j)
        <3>1. x - 1 + 1 - x = 0 /\ j + 1 - i = 0
            BY <1>1, <2>1
        <3> QED
            BY <3>1 DEF Chunks
    <2>5. x \in Nat
        BY <1>1
    <2> QED
        BY <1>1, <2>2, <2>3, <2>4, <2>5
<1> QED
    BY <1>5, <1>6

LEMMA NoChunks ==
    ASSUME NEW c, NEW i \in Nat, NEW j \in Nat, i <= j + 1
    PROVE  Chunks(c, i, j) = <<>> <=> i = j + 1
<1> DEFINE s == Chunks(c, i, j)
<1>1. s \in Seq(Output(c)) /\ Len(s) = j + 1 - i
    BY ChunksSeq
<1> HIDE DEF s
<1>2. s = <<>> <=> Len(s) = 0
    BY <1>1
<1> QED
    BY <1>1, <1>2 DEF s

----------------------------------------------------------------------------
\* What a step of the daemon is to a call: the next chunk of its command, or nothing.

Announces(e) ==
    /\ heard' = [d \in Clients |-> heard[d] \o Repeat(e, joined[d])]
    /\ UNCHANGED joined

DaemonSteps ==
    \/ Exit
    \/ \E j \in Jobs : KillTimer(j) \/ Deadline(j) \/ ChildClose(j) \/ SpawnError(j) \/ Data(j)
    \/ \E r \in Requests, j \in Jobs : ExecAttached(r, j) \/ ExecDetached(r, j, FALSE)

Quiet == \A j \in Jobs : job'[j].chunks = job[j].chunks

LEMMA EndedKeeps ==
    ASSUME TypeInv, NEW j \in Jobs, NEW o \in {job[j], WithErrorText(job[j])}, NEW code
    PROVE  /\ Ended(o, code).chunks = job[j].chunks
           /\ Ended(o, code).notes >= job[j].notes
<1>1. job[j] \in Job
    BY DEF TypeInv, TypeOK
<1>2. o.chunks = job[j].chunks /\ o.notes \in {job[j].notes, job[j].notes + 1} /\ o.timedOut = job[j].timedOut
      /\ DOMAIN o = {"status", "code", "chunks", "notes", "timedOut"}
    BY <1>1 DEF Job, WithErrorText
<1>3. Ended(o, code).chunks = o.chunks /\ Ended(o, code).notes \in {o.notes, o.notes + 1}
    BY <1>2 DEF Ended
<1>4. job[j].notes \in Nat
    BY <1>1 DEF Job
<1> QED
    BY <1>2, <1>3, <1>4

LEMMA Announcing ==
    ASSUME TypeInv, mayKill, DaemonSteps
    PROVE  /\ \A j \in Jobs : job'[j].notes >= job[j].notes
           /\ \/ UNCHANGED heard /\ Quiet /\ \A d \in Clients : joined'[d] \in {0, joined[d]}
              \/ \E e \in Event : Len(e) = 2 /\ Announces(e) /\ Quiet
              \/ \E j \in Jobs :
                    /\ <<j, "data", job[j].chunks + 1>> \in Event
                    /\ Announces(<<j, "data", job[j].chunks + 1>>)
                    /\ job'[j].chunks = job[j].chunks + 1
                    /\ \A i \in Jobs : i # j => job'[i].chunks = job[i].chunks
<1> DEFINE Notes == \A j \in Jobs : job'[j].notes >= job[j].notes
           Silence == UNCHANGED heard /\ Quiet /\ \A d \in Clients : joined'[d] \in {0, joined[d]}
           Notice == \E e \in Event : Len(e) = 2 /\ Announces(e) /\ Quiet
<1>0. /\ job \in [Jobs -> Job] /\ joined \in [Clients -> 0..MaxJoins]
      /\ \A j \in Jobs : job[j].notes \in Nat /\ job[j].chunks \in Nat
    <2>1. job \in [Jobs -> Job] /\ joined \in [Clients -> 0..MaxJoins]
        BY DEF TypeInv, TypeOK
    <2>2. \A o \in Job : o.notes \in Nat /\ o.chunks \in Nat
        BY DEF Job
    <2> QED
        BY <2>1, <2>2
<1>1. CASE job' = job /\ UNCHANGED heard /\ \A d \in Clients : joined'[d] \in {0, joined[d]}
    BY <1>0, <1>1 DEF Quiet
<1>2. CASE Exit
    BY <1>0, <1>1, <1>2 DEF Exit
<1>3. ASSUME NEW j \in Jobs, KillTimer(j)
      PROVE  Notes /\ Silence
    BY <1>0, <1>1, <1>3 DEF KillTimer, events, Quiet
<1>4. ASSUME NEW j \in Jobs, Deadline(j)
      PROVE  Notes /\ Silence
    <2>1. job' = [job EXCEPT ![j] = [job[j] EXCEPT !.timedOut = TRUE]] /\ UNCHANGED events
        BY <1>4 DEF Deadline, Refused
    <2>2. \A i \in Jobs : job'[i].chunks = job[i].chunks /\ job'[i].notes = job[i].notes
        BY <1>0, <2>1 DEF Job
    <2> QED
        BY <1>0, <2>1, <2>2 DEF events, Quiet
<1>5. ASSUME NEW j \in Jobs, NEW o \in {job[j], WithErrorText(job[j])}, NEW code, finish(j, o, code)
      PROVE  Notes /\ Notice
    <2>1. job' = [job EXCEPT ![j] = Ended(o, code)] /\ Announces(<<j, "exit">>)
        BY <1>5 DEF finish, publish, Announces
    <2>2. \A i \in Jobs : job'[i].chunks = job[i].chunks /\ job'[i].notes >= job[i].notes
        BY <1>0, <2>1, EndedKeeps
    <2>3. <<j, "exit">> \in Event /\ Len(<<j, "exit">>) = 2
        BY DEF Event
    <2> QED
        BY <2>1, <2>2, <2>3 DEF Quiet
<1>6. ASSUME NEW j \in Jobs, ChildClose(j)
      PROVE  Notes /\ (Silence \/ Notice)
    <2>1. CASE finish(j, job[j], "own")
        BY <1>5, <2>1
    <2>2. CASE UNCHANGED <<state, events>>
        BY <1>0, <2>2 DEF state, events, Quiet
    <2> QED
        BY <1>6, <2>1, <2>2 DEF ChildClose
<1>7. ASSUME NEW j \in Jobs, SpawnError(j)
      PROVE  Notes /\ Notice
    BY <1>5, <1>7 DEF SpawnError
<1>8. ASSUME NEW j \in Jobs, NEW timed, startJob(j, timed)
      PROVE  Notes /\ Notice
    <2>1. job' = [job EXCEPT ![j].status = "running"] /\ Announces(<<j, "started">>)
        BY <1>8 DEF startJob, publish, Announces
    <2>2. \A i \in Jobs : job'[i].chunks = job[i].chunks /\ job'[i].notes = job[i].notes
        BY <1>0, <2>1 DEF Job
    <2>3. <<j, "started">> \in Event /\ Len(<<j, "started">>) = 2
        BY DEF Event
    <2> QED
        BY <1>0, <2>1, <2>2, <2>3 DEF Quiet
<1>9. ASSUME NEW j \in Jobs, Data(j)
      PROVE  /\ Notes
             /\ <<j, "data", job[j].chunks + 1>> \in Event
             /\ Announces(<<j, "data", job[j].chunks + 1>>)
             /\ job'[j].chunks = job[j].chunks + 1
             /\ \A i \in Jobs : i # j => job'[i].chunks = job[i].chunks
    <2>1. /\ job[j].chunks < MaxChunks /\ job' = [job EXCEPT ![j].chunks = @ + 1]
          /\ Announces(<<j, "data", job[j].chunks + 1>>)
        BY <1>9 DEF Data, publish, Announces
    <2>2. job[j].chunks + 1 \in 1..MaxChunks
        BY <1>0, <2>1, DaemonAssumption DEF DaemonAssumption
    <2>3. <<j, "data", job[j].chunks + 1>> \in Event
        BY <2>2 DEF Event
    <2>4. job'[j].chunks = job[j].chunks + 1 /\ \A i \in Jobs : i # j => job'[i] = job[i]
        BY <1>0, <2>1 DEF Job
    <2>5. \A i \in Jobs : job'[i].notes = job[i].notes
        BY <1>0, <2>1 DEF Job
    <2> QED
        BY <1>0, <2>1, <2>3, <2>4, <2>5
<1>10. ASSUME NEW r \in Requests, NEW j \in Jobs, ExecAttached(r, j) \/ ExecDetached(r, j, FALSE)
      PROVE  Notes /\ Notice
    BY <1>8, <1>10 DEF ExecAttached, ExecDetached
<1> HIDE DEF Quiet, Announces
<1> QED
    BY <1>2, <1>3, <1>4, <1>6, <1>7, <1>9, <1>10, <1>1, <1>0 DEF DaemonSteps, Exit

LEMMA Repeated ==
    ASSUME NEW s \in Seq(Event), NEW e \in Event, NEW n \in Nat
    PROVE  /\ s \o Repeat(e, n) \in Seq(Event)
           /\ n = 0 => s \o Repeat(e, n) = s
           /\ n = 1 => s \o Repeat(e, n) = Append(s, e)
<1>1. Repeat(e, n) \in Seq(Event) /\ Len(Repeat(e, n)) = n
    BY DEF Repeat
<1>2. n = 0 => Repeat(e, n) = <<>>
    BY DEF Repeat
<1>3. n = 1 => Repeat(e, n) = <<e>>
    BY DEF Repeat
<1> QED
    BY <1>1, <1>2, <1>3

\* Nothing is heard of the command, and it writes nothing.
Muted(c) ==
    /\ job'[c].chunks = job[c].chunks
    /\ joined'[c] \in {0, joined[c]}
    /\ \/ heard'[c] = heard[c]
       \/ /\ joined[c] # 0
          /\ \E e \in Event : ~OwnOutput(c, e) /\ heard'[c] = Append(heard[c], e)

\* It writes a chunk, and who has joined hears it.
Speaks(c) ==
    LET e == <<c, "data", job[c].chunks + 1>>
    IN  /\ job'[c].chunks = job[c].chunks + 1
        /\ e \in Event
        /\ joined'[c] = joined[c]
        /\ heard'[c] = IF joined[c] = 0 THEN heard[c] ELSE Append(heard[c], e)

LEMMA Hearing ==
    ASSUME TypeInv, mayKill, heard \in [Clients -> Seq(Event)], DaemonSteps,
           NEW c \in Calls, joined[c] \in {0, 1}
    PROVE  Muted(c) \/ Speaks(c)
<1>1. c \in Jobs /\ c \in Clients /\ heard[c] \in Seq(Event)
    BY BridgeAssumption DEF BridgeAssumption
<1>2. ASSUME NEW e \in Event, Announces(e)
      PROVE  /\ joined'[c] = joined[c]
             /\ heard'[c] = IF joined[c] = 0 THEN heard[c] ELSE Append(heard[c], e)
    <2>1. /\ joined'[c] = joined[c]
          /\ heard'[c] = heard[c] \o Repeat(e, joined[c])
        BY <1>1, <1>2 DEF Announces
    <2>2. CASE joined[c] = 0
        <3>1. heard[c] \o Repeat(e, 0) = heard[c]
            BY <1>1, Repeated
        <3> QED
            BY <2>1, <2>2, <3>1
    <2>3. CASE joined[c] = 1
        <3>1. heard[c] \o Repeat(e, 1) = Append(heard[c], e)
            BY <1>1, Repeated
        <3> QED
            BY <2>1, <2>3, <3>1
    <2> QED
        BY <2>2, <2>3
<1>3. CASE UNCHANGED heard /\ Quiet /\ \A d \in Clients : joined'[d] \in {0, joined[d]}
    BY <1>1, <1>3 DEF Quiet, Muted
<1>4. ASSUME NEW e \in Event, Len(e) = 2, Announces(e), Quiet
      PROVE  Muted(c)
    <2>1. ~OwnOutput(c, e)
        BY <1>4 DEF OwnOutput
    <2> QED
        BY <1>1, <1>2, <1>4, <2>1 DEF Quiet, Muted
<1>5. ASSUME NEW j \in Jobs,
             <<j, "data", job[j].chunks + 1>> \in Event,
             Announces(<<j, "data", job[j].chunks + 1>>),
             job'[j].chunks = job[j].chunks + 1,
             \A i \in Jobs : i # j => job'[i].chunks = job[i].chunks
      PROVE  Muted(c) \/ Speaks(c)
    <2>1. CASE j = c
        BY <1>1, <1>2, <1>5, <2>1 DEF Speaks
    <2>2. CASE j # c
        <3>1. ~OwnOutput(c, <<j, "data", job[j].chunks + 1>>)
            BY <2>2 DEF OwnOutput
        <3> QED
            BY <1>1, <1>2, <1>5, <2>2, <3>1 DEF Muted
    <2> QED
        BY <2>1, <2>2
<1> QED
    BY Announcing, <1>3, <1>4, <1>5

LEMMA HeardTyped ==
    ASSUME TypeInv, mayKill, heard \in [Clients -> Seq(Event)], DaemonSteps
    PROVE  heard' \in [Clients -> Seq(Event)]
<1>1. \A d \in Clients : joined[d] \in Nat /\ heard[d] \in Seq(Event)
    BY DEF TypeInv, TypeOK
<1>2. ASSUME NEW e \in Event, Announces(e)
      PROVE  heard' \in [Clients -> Seq(Event)]
    <2>1. \A d \in Clients : heard[d] \o Repeat(e, joined[d]) \in Seq(Event)
        BY <1>1, Repeated
    <2> QED
        BY <1>2, <2>1 DEF Announces
<1> QED
    BY Announcing, <1>2

----------------------------------------------------------------------------
\* An exec that is attached is answered when its job has exited, about that job.

ExitAnswer(r, j) ==
    \A i \in DOMAIN answers[r] :
        /\ answers[r][i].type = "result"
        /\ answers[r][i].job = j
        /\ answers[r][i].status = "exited"

ExecsHearOfTheirExit ==
    \A r \in Requests, j \in Jobs : asked[r] = <<"exec", j>> => ExitAnswer(r, j)

LEMMA ExecAnswersStep ==
    ASSUME TypeInv, AskingInv, JobInv, ExecsHearOfTheirExit, Next
    PROVE  ExecsHearOfTheirExit'
<1> SUFFICES ASSUME NEW q \in Requests, NEW g \in Jobs, asked'[q] = <<"exec", g>>
             PROVE  ExitAnswer(q, g)'
    BY DEF ExecsHearOfTheirExit
<1>0. onExit \in [Jobs -> SUBSET Requests] /\ answers \in [Requests -> Seq(Answer)]
    BY DEF TypeInv, TypeOK
<1>1. CASE asked'[q] = asked[q] /\ answers'[q] = answers[q]
    BY <1>1 DEF ExecsHearOfTheirExit, ExitAnswer
<1>2. CASE answers'[q] = <<>>
    BY <1>2 DEF ExitAnswer
<1>3. ASSUME NEW r \in Requests, NEW what \in Asked, Asks(r, what)
      PROVE  /\ q # r => asked'[q] = asked[q]
             /\ q = r => answers[q] = <<>> /\ asked'[q] = what
    <2>1. AskingInv /\ TypeInv
        OBVIOUS
    <2> QED
        BY <1>3, <2>1, Asking
<1>other. ASSUME NEW r \in Requests, NEW a \in Answer, q # r, answers' = reply(answers, {r}, a)
         PROVE  answers'[q] = answers[q]
    <2>1. {r} \in SUBSET Requests /\ q \notin {r}
        BY <1>other
    <2> QED
        BY <1>other, <2>1, Replies
<1>4. ASSUME NEW r \in Requests, NEW what \in Asked, NEW a \in Answer, Answers(r, what, a)
      PROVE  ExitAnswer(q, g)'
    <2>1. /\ Asks(r, what) /\ answers' = reply(answers, {r}, a)
          /\ what # <<"exec", g>>
        BY <1>4 DEF Answers
    <2>2. q # r
        BY <1>3, <2>1
    <2>3. answers'[q] = answers[q]
        BY <1>other, <2>1, <2>2
    <2> QED
        BY <1>1, <1>3, <2>1, <2>2, <2>3
<1>5. ASSUME NEW r \in Requests, NEW j \in Jobs, Starts(r, j)
      PROVE  ExitAnswer(q, g)'
    <2>1. CASE Attached(r, j)
        <3>1. <<"exec", j>> \in Asked /\ Asks(r, <<"exec", j>>) /\ answers' = answers
            BY <2>1 DEF Attached, Asked
        <3> QED
            BY <1>1, <1>2, <1>3, <3>1
    <2>2. CASE Detached(r, j)
        <3>1. /\ <<"detach", j>> \in Asked /\ Asks(r, <<"detach", j>>)
              /\ answers' = reply(answers, {r}, jobSnapshot(j, job'[j]))
            BY <2>2 DEF Detached, Asked
        <3>2. q # r
            BY <1>3, <3>1
        <3>3. jobSnapshot(j, job'[j]) \in Answer
            BY <1>5, Snapshots DEF Starts, TypeInv
        <3>4. answers'[q] = answers[q]
            BY <1>other, <3>1, <3>2, <3>3
        <3> QED
            BY <1>1, <1>3, <3>1, <3>2, <3>4
    <2> QED
        BY <1>5, <2>1, <2>2 DEF Starts
<1>6. ASSUME NEW j \in Jobs, NEW rs \in SUBSET Requests, Finishes(j, rs)
      PROVE  ExitAnswer(q, g)'
    <2> DEFINE a == jobSnapshot(j, job'[j])
    <2>1. a \in Answer /\ a.type = "result" /\ a.job = j /\ a.status = "exited"
        BY <1>6, Snapshots DEF Finishes, TypeInv
    <2>2. answers' = reply(answers, onExit[j] \cup rs, a)
        BY <1>6 DEF Finishes
    <2> HIDE DEF a
    <2>3. onExit[j] \cup rs \in SUBSET Requests
        BY <1>0
    <2>4. /\ answers'[q] \in {answers[q], Append(answers[q], a)}
          /\ q \notin onExit[j] \cup rs => answers'[q] = answers[q]
        BY <2>1, <2>2, <2>3, Replies
    <2>5. q \notin rs /\ asked'[q] = asked[q]
        <3>1. CASE rs = {} /\ UNCHANGED asked
            BY <3>1
        <3>2. ASSUME NEW r \in Requests, rs = {r}, Asks(r, <<"kill", j>>)
              PROVE  q \notin rs /\ asked'[q] = asked[q]
            <4>1. <<"kill", j>> \in Asked
                BY DEF Asked
            <4> QED
                BY <1>3, <3>2, <4>1
        <3> QED
            BY <1>6, <3>1, <3>2 DEF Finishes
    <2>6. CASE q \in onExit[j]
        <3>1. answers[q] = <<>> /\ j = g
            BY <2>5, <2>6 DEF AskingInv, ListenersWait
        <3>2. answers'[q] \in {<<>>, <<a>>}
            BY <2>1, <2>4, <3>1
        <3> QED
            BY <1>2, <2>1, <3>1, <3>2 DEF ExitAnswer
    <2> QED
        BY <1>1, <2>4, <2>5, <2>6
<1>7. ASSUME NEW r \in Requests, NEW j \in Jobs, NEW timed \in BOOLEAN, handleWait(r, j, timed)
      PROVE  ExitAnswer(q, g)'
    <2>1. <<"wait", j>> \in Asked /\ Asks(r, <<"wait", j>>) /\ answers' = answers
        BY <1>7 DEF handleWait, Asked
    <2> QED
        BY <1>1, <1>2, <1>3, <2>1
<1>8. ASSUME NEW r \in Requests, WaitTimer(r)
      PROVE  ExitAnswer(q, g)'
    <2>1. PICK j \in Jobs :
              /\ asked[r] = <<"wait", j>>
              /\ jobSnapshot(j, job[j]) \in Answer
              /\ answers' = reply(answers, {r}, jobSnapshot(j, job[j]))
        BY <1>8, WaitTyped
    <2>2. asked' = asked
        BY <1>8 DEF WaitTimer
    <2>3. q # r
        BY <2>1, <2>2
    <2>4. answers'[q] = answers[q]
        BY <1>other, <2>1, <2>3
    <2> QED
        BY <1>1, <2>2, <2>4
<1>9. ASSUME \/ \E r \in Requests : Close(r)
             \/ \E j \in Jobs :
                   \/ KillTimer(j) \/ Forget(j) \/ Data(j)
                   \/ Deadline(j) /\ ~Refused(j)
                   \/ ChildClose(j) /\ ~Unfinished(j)
             \/ Exit
             \/ \E c \in Clients : Join(c) \/ Leave(c)
      PROVE  UNCHANGED <<asked, answers>>
    BY <1>9 DEF Close, KillTimer, Forget, Data, Deadline, ChildClose, Exit, Join, Leave, requests
<1> QED
    BY Steps, <1>1, <1>4, <1>5, <1>6, <1>7, <1>8, <1>9

----------------------------------------------------------------------------
\* The invariant of the bridge.

\* What the stream has brought so far, and what was read of it.
HearInv(c) ==
    /\ position[c] \in 0..Len(heard[c])
    /\ InOrder(c, heard[c], job[c].chunks, late)
    /\ joined[c] # 0 => UpToDate(c, heard[c], job[c].chunks, late)
    /\ \E i, j \in Nat :
          /\ ReadTo(c, heard[c], position[c], job[c].chunks, late, i, j)
          /\ emitted[c] = Chunks(c, i, j)

\* Where the stream and the request of a call are when the call is where it is.
StagesMatch(c) ==
    /\ pc[c] \in {"idle", "bootstrapping"} => stream[c] = "none"
    /\ pc[c] \in {"done", "failed"} => stream[c] \in {"none", "ended"}
    /\ stream[c] \in {"none", "resolving", "connecting"} => heard[c] = <<>>
    /\ joined[c] = 0 \/ (joined[c] = 1 /\ stream[c] = "open")
    /\ request[c] # 0 => asked[request[c]] = <<"exec", c>>
    /\ pc[c] = "finalizing" => request[c] # 0 /\ answers[request[c]] # <<>>

Open(c) == pc[c] \notin {"done", "failed"}

CallInv(c) == StagesMatch(c) /\ HearInv(c) /\ (Open(c) => delivered[c] = emitted[c])

CallFunctions ==
    /\ known \in BOOLEAN /\ late \subseteq Calls
    /\ pc \in [Calls -> {"idle", "bootstrapping", "running", "finalizing", "failing", "done", "failed"}]
    /\ request \in [Calls -> {0} \cup Requests]
    /\ stream \in [Calls -> {"none", "resolving", "connecting", "open", "ended"}]
    /\ position \in [Calls -> Nat]
    /\ DOMAIN emitted = Calls /\ DOMAIN delivered = Calls

CallTypes == CallFunctions /\ heard \in [Clients -> Seq(Event)]

BridgeInv ==
    /\ DaemonInv /\ mayKill /\ ExecsHearOfTheirExit /\ CallTypes
    /\ \A c \in Calls : CallInv(c)

LEMMA CallTyped ==
    ASSUME BridgeInv, NEW c \in Calls
    PROVE  /\ c \in Jobs /\ c \in Clients
           /\ heard[c] \in Seq(Event)
           /\ job[c].chunks \in Nat /\ job[c].notes \in Nat
           /\ joined[c] \in {0, 1}
<1>1. c \in Jobs /\ c \in Clients
    BY BridgeAssumption DEF BridgeAssumption
<1>2. job[c] \in Job
    BY <1>1 DEF BridgeInv, DaemonInv, TypeInv, TypeOK
<1>3. \A o \in Job : o.notes \in Nat /\ o.chunks \in Nat
    BY DEF Job
<1>4. joined[c] \in {0, 1} /\ heard[c] \in Seq(Event)
    BY <1>1 DEF BridgeInv, CallInv, StagesMatch, CallTypes, CallFunctions
<1> QED
    BY <1>1, <1>2, <1>3, <1>4

\* What the daemon does leaves the hearing of a call as it should be.
LEMMA HearKept ==
    ASSUME BridgeInv, NEW c \in Calls, Muted(c) \/ Speaks(c), late \subseteq late',
           position'[c] = position[c], emitted'[c] = emitted[c]
    PROVE  HearInv(c)'
<1>1. heard[c] \in Seq(Event) /\ job[c].chunks \in Nat /\ joined[c] \in {0, 1} /\ HearInv(c)
    BY CallTyped DEF BridgeInv, CallInv
<1>2. PICK i, j \in Nat :
          /\ ReadTo(c, heard[c], position[c], job[c].chunks, late, i, j)
          /\ emitted[c] = Chunks(c, i, j)
    BY <1>1 DEF HearInv
<1>3. ASSUME NEW n \in Nat, NEW m \in Nat, n = job[c].chunks, m = job'[c].chunks, n <= m,
             \/ heard'[c] = heard[c]
             \/ \E e \in Event : heard'[c] = Append(heard[c], e)
      PROVE  /\ position'[c] \in 0..Len(heard'[c])
             /\ \E x, y \in Nat :
                   /\ ReadTo(c, heard'[c], position'[c], job'[c].chunks, late', x, y)
                   /\ emitted'[c] = Chunks(c, x, y)
    <2>1. position[c] \in 0..Len(heard[c])
        BY <1>1 DEF HearInv
    <2>2. position[c] \in 0..Len(heard'[c])
        BY <1>1, <1>3, <2>1
    <2>3. ReadTo(c, heard'[c], position[c], m, late', i, j)
        BY <1>1, <1>2, <1>3, <2>1, ReadToGrows
    <2> QED
        BY <1>2, <1>3, <2>2, <2>3
<1>4. CASE Muted(c)
    <2>1. /\ InOrder(c, heard[c], job[c].chunks, late')
          /\ joined[c] # 0 => UpToDate(c, heard[c], job[c].chunks, late')
        BY <1>1, InOrderGrows DEF HearInv, UpToDate
    <2>2. /\ InOrder(c, heard'[c], job[c].chunks, late')
          /\ joined[c] # 0 => UpToDate(c, heard'[c], job[c].chunks, late')
        BY <1>1, <1>4, <2>1, OthersEvent DEF Muted
    <2>3. job'[c].chunks = job[c].chunks /\ (joined'[c] # 0 => joined[c] # 0)
        BY <1>4 DEF Muted
    <2>4. \/ heard'[c] = heard[c]
          \/ \E e \in Event : heard'[c] = Append(heard[c], e)
        BY <1>4 DEF Muted
    <2> QED
        BY <1>1, <1>3, <2>2, <2>3, <2>4 DEF HearInv
<1>5. CASE Speaks(c)
    <2> DEFINE n == job[c].chunks
               e == <<c, "data", n + 1>>
    <2>1. /\ job'[c].chunks = n + 1 /\ e \in Event /\ joined'[c] = joined[c] /\ n \in Nat
          /\ heard'[c] = IF joined[c] = 0 THEN heard[c] ELSE Append(heard[c], e)
        BY <1>1, <1>5 DEF Speaks
    <2>2. /\ InOrder(c, heard[c], n, late')
          /\ joined[c] # 0 => UpToDate(c, heard[c], n, late')
        BY <1>1, InOrderGrows DEF HearInv, UpToDate
    <2> HIDE DEF n
    <2>3. CASE joined[c] = 0
        <3>1. InOrder(c, heard[c], n + 1, late')
            BY <1>1, <2>1, <2>2, InOrderGrows
        <3> QED
            BY <1>1, <1>3, <2>1, <2>3, <3>1 DEF HearInv, n
    <2>4. CASE joined[c] # 0
        <3>1. InOrder(c, Append(heard[c], e), n + 1, late') /\ UpToDate(c, Append(heard[c], e), n + 1, late')
            BY <1>1, <2>1, <2>2, <2>4, OwnNextEvent
        <3>2. /\ position'[c] \in 0..Len(heard'[c])
              /\ \E x, y \in Nat :
                    /\ ReadTo(c, heard'[c], position'[c], job'[c].chunks, late', x, y)
                    /\ emitted'[c] = Chunks(c, x, y)
            <4>1. heard'[c] = Append(heard[c], e)
                BY <2>1, <2>4
            <4>2. n + 1 \in Nat /\ n <= n + 1
                BY <2>1
            <4> HIDE DEF e
            <4> QED
                BY <1>3, <2>1, <4>1, <4>2 DEF n
        <3>3. heard'[c] = Append(heard[c], e) /\ job'[c].chunks = n + 1
            BY <2>1, <2>4
        <3> HIDE DEF e
        <3> QED
            BY <3>1, <3>2, <3>3 DEF HearInv
    <2> QED
        BY <2>3, <2>4
<1> QED
    BY <1>4, <1>5

----------------------------------------------------------------------------
\* What happens to the daemon, its log and its clients in a step of the bridge.

World == DaemonSteps \/ (\E d \in Calls : Join(d) \/ Leave(d)) \/ UNCHANGED vars

\* The steps in which a call hears as HearKept has it.
LEMMA Overhears ==
    ASSUME BridgeInv, NEW c \in Calls,
           \/ DaemonSteps
           \/ \E d \in Calls : Leave(d) \/ (d # c /\ Join(d))
           \/ UNCHANGED vars
    PROVE  Muted(c) \/ Speaks(c)
<1>1. /\ c \in Clients /\ joined[c] \in {0, 1} /\ joined \in [Clients -> 0..MaxJoins]
      /\ Calls \subseteq Clients
    BY CallTyped, BridgeAssumption DEF BridgeAssumption, BridgeInv, DaemonInv, TypeInv, TypeOK
<1>2. CASE DaemonSteps
    BY <1>1, <1>2, Hearing DEF BridgeInv, DaemonInv, CallTypes, CallFunctions
<1>3. ASSUME NEW d \in Calls, Leave(d) \/ (d # c /\ Join(d))
      PROVE  Muted(c)
    <2>1. UNCHANGED <<job, heard>>
        BY <1>3 DEF Leave, Join, state
    <2>2. joined'[c] \in {0, joined[c]}
        BY <1>1, <1>3 DEF Leave, Join
    <2> QED
        BY <2>1, <2>2 DEF Muted
<1>4. CASE UNCHANGED vars
    BY <1>4 DEF vars, state, events, Muted
<1> QED
    BY <1>2, <1>3, <1>4

LEMMA WorldIsNext ==
    ASSUME World
    PROVE  [Next]_vars
<1>1. DaemonSteps => Next
    BY DEF DaemonSteps, Next, JobStep, Request
<1>2. ASSUME NEW d \in Calls, Join(d) \/ Leave(d)
      PROVE  Next
    BY <1>2, BridgeAssumption DEF BridgeAssumption, Next
<1> QED
    BY <1>1, <1>2 DEF World

LEMMA WorldStep ==
    ASSUME BridgeInv, World
    PROVE  /\ DaemonInv' /\ mayKill' /\ ExecsHearOfTheirExit'
           /\ heard' \in [Clients -> Seq(Event)]
           /\ \A j \in Jobs : job'[j].notes >= job[j].notes /\ job'[j].chunks >= job[j].chunks
<1>1. TypeInv /\ AskingInv /\ JobInv /\ mayKill /\ ExecsHearOfTheirExit /\ [Next]_vars
    BY WorldIsNext DEF BridgeInv, DaemonInv
<1>2. DaemonInv'
    BY <1>1, DaemonInvStep DEF BridgeInv
<1>3. mayKill'
    BY <1>1, SignalsAreFixed DEF vars
<1>4. ExecsHearOfTheirExit'
    <2>1. CASE UNCHANGED vars
        BY <1>1, <2>1 DEF vars, requests, ExecsHearOfTheirExit, ExitAnswer
    <2> QED
        BY <1>1, <2>1, ExecAnswersStep
<1>5. heard \in [Clients -> Seq(Event)]
    BY DEF BridgeInv, CallTypes, CallFunctions
<1>6. \A j \in Jobs : job[j].notes \in Nat /\ job[j].chunks \in Nat
    <2>1. job \in [Jobs -> Job]
        BY <1>1 DEF TypeInv, TypeOK
    <2>2. \A o \in Job : o.notes \in Nat /\ o.chunks \in Nat
        BY DEF Job
    <2> QED
        BY <2>1, <2>2
<1>7. CASE DaemonSteps
    <2>1. heard' \in [Clients -> Seq(Event)]
        BY <1>1, <1>5, <1>7, HeardTyped
    <2>2. \A j \in Jobs : job'[j].notes >= job[j].notes
        BY <1>1, <1>7, Announcing
    <2>3. \A j \in Jobs : job'[j].chunks >= job[j].chunks
        <3>1. \A j \in Jobs : job'[j].chunks \in {job[j].chunks, job[j].chunks + 1}
            BY <1>1, <1>7, Announcing DEF Quiet
        <3> QED
            BY <1>6, <3>1
    <2> QED
        BY <1>2, <1>3, <1>4, <2>1, <2>2, <2>3
<1>8. CASE UNCHANGED <<job, heard>>
    BY <1>2, <1>3, <1>4, <1>5, <1>6, <1>8
<1>9. (\E d \in Calls : Join(d) \/ Leave(d)) \/ UNCHANGED vars => UNCHANGED <<job, heard>>
    BY DEF Join, Leave, vars, state, events
<1> QED
    BY <1>7, <1>8, <1>9 DEF World

\* What was asked stays asked, and what was answered, answered.
LEMMA RequestsKept ==
    ASSUME BridgeInv, World, NEW r \in Requests
    PROVE  /\ asked[r] # <<"nothing">> => asked'[r] = asked[r]
           /\ answers[r] # <<>> => answers'[r] # <<>>
<1>0. TypeInv /\ AskingInv /\ JobInv /\ [Next]_vars
    BY WorldIsNext DEF BridgeInv, DaemonInv
<1>1. answers[r] # <<>> => answers'[r] # <<>>
    <2>1. CASE UNCHANGED vars
        BY <2>1 DEF vars, requests
    <2>2. CASE Next
        BY <1>0, <2>2, ToldOnce DEF Told
    <2> QED
        BY <1>0, <2>1, <2>2
<1>2. CASE UNCHANGED vars
    BY <1>1, <1>2 DEF vars, requests
<1>4. ASSUME NEW q \in Requests, NEW what, Asks(q, what)
      PROVE  asked[r] # <<"nothing">> => asked'[r] = asked[r]
    <2>1. asked[q] = <<"nothing">> /\ asked' = [asked EXCEPT ![q] = what] /\ asked \in [Requests -> Asked]
        BY <1>0, <1>4 DEF Asks, TypeInv, TypeOK
    <2> QED
        BY <2>1
<1>5. ASSUME NEW q \in Requests, NEW j \in Jobs, ExecAttached(q, j) \/ ExecDetached(q, j, FALSE)
      PROVE  asked[r] # <<"nothing">> => asked'[r] = asked[r]
    BY <1>4, <1>5 DEF ExecAttached, ExecDetached
<1>6. ASSUME \/ Exit
             \/ \E j \in Jobs : KillTimer(j) \/ Deadline(j) \/ ChildClose(j) \/ SpawnError(j) \/ Data(j)
             \/ \E d \in Calls : Join(d) \/ Leave(d)
      PROVE  asked' = asked
    BY <1>6 DEF Exit, KillTimer, Deadline, ChildClose, SpawnError, Data, Join, Leave, requests
<1> QED
    BY <1>1, <1>2, <1>5, <1>6 DEF World, DaemonSteps

----------------------------------------------------------------------------
\* The calls that a step leaves alone.

Same(c) ==
    /\ pc'[c] = pc[c] /\ request'[c] = request[c] /\ stream'[c] = stream[c]
    /\ position'[c] = position[c] /\ emitted'[c] = emitted[c] /\ delivered'[c] = delivered[c]

LEMMA RequestMatches ==
    ASSUME BridgeInv, World, NEW c \in Calls, request'[c] = request[c]
    PROVE  /\ request'[c] # 0 => asked'[request'[c]] = <<"exec", c>>
           /\ pc[c] = "finalizing" => request'[c] # 0 /\ answers'[request'[c]] # <<>>
<1>1. StagesMatch(c) /\ request[c] \in {0} \cup Requests
    BY DEF BridgeInv, CallTypes, CallFunctions, CallInv
<1>2. CASE request[c] = 0
    BY <1>1, <1>2 DEF StagesMatch
<1>3. CASE request[c] \in Requests
    <2>1. asked[request[c]] = <<"exec", c>> \/ request[c] = 0
        BY <1>1 DEF StagesMatch
    <2>2. <<"exec", c>> # <<"nothing">>
        OBVIOUS
    <2> QED
        BY <1>1, <1>2, <1>3, <2>1, <2>2, RequestsKept DEF StagesMatch
<1> QED
    BY <1>1, <1>2, <1>3

LEMMA LeftAlone ==
    ASSUME BridgeInv, World, NEW c \in Calls, Muted(c) \/ Speaks(c), late \subseteq late', Same(c)
    PROVE  CallInv(c)'
<1>1. StagesMatch(c) /\ (Open(c) => delivered[c] = emitted[c]) /\ joined[c] \in {0, 1}
    BY CallTyped DEF BridgeInv, CallInv
<1>2. HearInv(c)'
    BY HearKept DEF Same
<1>3. StagesMatch(c)'
    <2>1. joined'[c] \in {0, joined[c]} /\ (joined[c] = 0 => heard'[c] = heard[c])
        BY <1>1 DEF Muted, Speaks
    <2>2. stream[c] \in {"none", "resolving", "connecting"} => heard'[c] = <<>>
        BY <1>1, <2>1 DEF StagesMatch
    <2>3. /\ request'[c] # 0 => asked'[request'[c]] = <<"exec", c>>
          /\ pc[c] = "finalizing" => request'[c] # 0 /\ answers'[request'[c]] # <<>>
        BY RequestMatches DEF Same
    <2> QED
        BY <1>1, <2>1, <2>2, <2>3 DEF StagesMatch, Same
<1> QED
    BY <1>1, <1>2, <1>3 DEF CallInv, Open, Same

----------------------------------------------------------------------------
\* A step of a call touches that call only.

Touches(c) ==
    /\ CallFunctions' /\ late \subseteq late'
    /\ \A d \in Calls : d # c => Same(d)

LEMMA StartTouches ==
    ASSUME CallFunctions, NEW c \in Calls,
           Start(c) \/ Bootstrapped(c) \/ Exec(c) \/ Result(c) \/ Failure(c) \/ Rejected(c)
    PROVE  Touches(c)
<1> USE DEF CallFunctions, Touches, Same, Goto
<1>1. CASE Start(c)
    BY <1>1 DEF Start, Launch
<1>2. CASE Bootstrapped(c)
    BY <1>2 DEF Bootstrapped, Launch
<1>3. CASE Exec(c)
    BY <1>3 DEF Exec
<1>4. CASE Result(c)
    BY <1>4 DEF Result
<1>5. CASE Failure(c)
    BY <1>5 DEF Failure
<1>6. CASE Rejected(c)
    BY <1>6 DEF Rejected
<1> QED
    BY <1>1, <1>2, <1>3, <1>4, <1>5, <1>6

LEMMA StreamTouches ==
    ASSUME CallFunctions, NEW c \in Calls,
           \/ Resolved(c) \/ Connect(c) \/ ConnectFails(c) \/ Dropped(c) \/ Cut(c)
           \/ ReadEvent(c) \/ EmitMissing(c)
    PROVE  Touches(c)
<1> USE DEF CallFunctions, Touches, Same, Goto, EndStream, HangUp
<1>1. CASE Resolved(c)
    BY <1>1 DEF Resolved
<1>2. CASE Connect(c)
    BY <1>2 DEF Connect
<1>3. CASE ConnectFails(c)
    BY <1>3 DEF ConnectFails
<1>4. CASE Dropped(c)
    BY <1>4 DEF Dropped
<1>5. CASE Cut(c)
    BY <1>5 DEF Cut
<1>6. CASE ReadEvent(c)
    <2>1. /\ position' = [position EXCEPT ![c] = @ + 1]
          /\ emitted' = emitted \/ \E e : emitted' = [emitted EXCEPT ![c] = Append(@, e)]
          /\ delivered' = delivered \/ \E e : delivered' = [delivered EXCEPT ![c] = @ \o <<e>>]
          /\ stream' = stream \/ stream' = [stream EXCEPT ![c] = "ended"]
          /\ UNCHANGED <<known, pc, request, late>>
        BY <1>6 DEF ReadEvent, Mark, Hand
    <2>2. DOMAIN emitted' = Calls /\ \A d \in Calls : d # c => emitted'[d] = emitted[d]
        BY <2>1
    <2>3. DOMAIN delivered' = Calls /\ \A d \in Calls : d # c => delivered'[d] = delivered[d]
        BY <2>1
    <2>4. stream' \in [Calls -> {"none", "resolving", "connecting", "open", "ended"}]
          /\ \A d \in Calls : d # c => stream'[d] = stream[d]
        BY <2>1
    <2>5. position' \in [Calls -> Nat] /\ \A d \in Calls : d # c => position'[d] = position[d]
        BY <2>1
    <2> QED
        BY <2>1, <2>2, <2>3, <2>4, <2>5
<1>7. CASE EmitMissing(c)
    BY <1>7 DEF EmitMissing, Hand
<1> QED
    BY <1>1, <1>2, <1>3, <1>4, <1>5, <1>6, <1>7

LEMMA CallWorld ==
    ASSUME NEW c \in Calls
    PROVE  /\ Start(c) \/ Bootstrapped(c) \/ Result(c) \/ Failure(c) \/ Rejected(c) \/ EmitMissing(c)
                 \/ Resolved(c) \/ ConnectFails(c) => UNCHANGED vars
           /\ Dropped(c) \/ Cut(c) \/ ReadEvent(c) => Leave(c) \/ UNCHANGED vars
           /\ Exec(c) => DaemonSteps
           /\ Connect(c) => Join(c)
<1>1. Start(c) \/ Bootstrapped(c) \/ Result(c) \/ Failure(c) \/ Rejected(c) \/ EmitMissing(c)
            \/ Resolved(c) \/ ConnectFails(c) => UNCHANGED vars
    BY DEF Start, Bootstrapped, Result, Failure, Rejected, EmitMissing, Resolved, ConnectFails
<1>2. Dropped(c) \/ Cut(c) \/ ReadEvent(c) => Leave(c) \/ UNCHANGED vars
    BY DEF Dropped, Cut, ReadEvent, HangUp
<1>3. Exec(c) => DaemonSteps
    BY BridgeAssumption DEF BridgeAssumption, Exec, DaemonSteps
<1>4. Connect(c) => Join(c)
    BY DEF Connect
<1> QED
    BY <1>1, <1>2, <1>3, <1>4

\* What is left to check of the stages when a call moves on.
LEMMA Stages ==
    ASSUME BridgeInv, World, NEW c \in Calls, Muted(c) \/ Speaks(c),
           request'[c] = request[c],
           pc'[c] \in {"idle", "bootstrapping"} => stream'[c] = "none",
           pc'[c] \in {"done", "failed"} => stream'[c] \in {"none", "ended"},
           stream'[c] \in {"none", "resolving", "connecting"} =>
               stream[c] \in {"none", "resolving", "connecting"},
           stream'[c] = stream[c] \/ joined'[c] = 0,
           pc'[c] = "finalizing" =>
               pc[c] = "finalizing" \/ (request[c] # 0 /\ answers[request[c]] # <<>>)
    PROVE  StagesMatch(c)'
<1>1. StagesMatch(c) /\ joined[c] \in {0, 1} /\ request[c] \in {0} \cup Requests
    BY CallTyped DEF BridgeInv, CallInv, CallTypes, CallFunctions
<1>2. joined'[c] \in {0, joined[c]} /\ (joined[c] = 0 => heard'[c] = heard[c])
    BY <1>1 DEF Muted, Speaks
<1>3. stream'[c] \in {"none", "resolving", "connecting"} => heard'[c] = <<>>
    BY <1>1, <1>2 DEF StagesMatch
<1>4. request'[c] # 0 => asked'[request'[c]] = <<"exec", c>>
    BY RequestMatches
<1>5. pc'[c] = "finalizing" => request'[c] # 0 /\ answers'[request'[c]] # <<>>
    <2>1. CASE pc[c] = "finalizing"
        BY <2>1, RequestMatches
    <2>2. CASE request[c] # 0 /\ answers[request[c]] # <<>>
        BY <1>1, <2>2, RequestsKept
    <2> QED
        BY <2>1, <2>2
<1>6. joined'[c] = 0 \/ (joined'[c] = 1 /\ stream'[c] = "open")
    BY <1>1, <1>2 DEF StagesMatch
<1> QED
    BY <1>3, <1>4, <1>5, <1>6 DEF StagesMatch

----------------------------------------------------------------------------
\* What a step means to the callback of a call.

Written(c) == job[c].chunks + job[c].notes

\* It is handed the chunks that follow those it has, perhaps none.
Continues(c) ==
    \E i, j, m \in Nat :
        /\ i # 0 /\ i <= j + 1 /\ j <= m /\ m <= Written(c)'
        /\ c \in late' \/ i = 1
        /\ delivered[c] = Chunks(c, i, j) /\ delivered'[c] = Chunks(c, i, m)

Moves(c) ==
    IF Open(c)
    THEN /\ Continues(c)
         /\ pc[c] = "failing" => pc'[c] \in {"failing", "failed"}
         /\ pc'[c] = "done" => c \in late' \/ delivered'[c] = Chunks(c, 1, Written(c)')
    ELSE pc'[c] = pc[c] /\ delivered'[c] = delivered[c]

LEMMA StillContinues ==
    ASSUME BridgeInv, World, NEW c \in Calls, Open(c), late \subseteq late', delivered'[c] = delivered[c]
    PROVE  Continues(c)
<1>1. PICK i, j \in Nat :
          /\ ReadTo(c, heard[c], position[c], job[c].chunks, late, i, j)
          /\ delivered[c] = Chunks(c, i, j)
    BY DEF BridgeInv, CallInv, HearInv
<1>2. /\ c \in Jobs /\ job[c].chunks \in Nat
      /\ job'[c].chunks >= job[c].chunks /\ job'[c].notes >= job[c].notes /\ job[c].notes \in Nat
    BY CallTyped, WorldStep
<1>3. job'[c].chunks \in Nat /\ job'[c].notes \in Nat
    <2>1. job'[c] \in Job
        BY <1>2, WorldStep DEF DaemonInv, TypeInv, TypeOK
    <2>2. \A o \in Job : o.notes \in Nat /\ o.chunks \in Nat
        BY DEF Job
    <2> QED
        BY <2>1, <2>2
<1>4. /\ i # 0 /\ i <= j + 1 /\ j <= Written(c)'
      /\ c \in late' \/ i = 1
    BY <1>1, <1>2, <1>3 DEF ReadTo, Written
<1> QED
    BY <1>1, <1>4 DEF Continues

LEMMA Rests ==
    ASSUME BridgeInv, World, NEW c \in Calls, late \subseteq late', Same(c)
    PROVE  Moves(c)
BY StillContinues DEF Moves, Same, Open

\* A call that goes on, or fails, with nothing read or handed over.
LEMMA Passes ==
    ASSUME BridgeInv, World, NEW c \in Calls, Muted(c) \/ Speaks(c), late \subseteq late',
           StagesMatch(c)', Open(c), pc'[c] # "done",
           pc[c] = "failing" => pc'[c] \in {"failing", "failed"},
           position'[c] = position[c], emitted'[c] = emitted[c], delivered'[c] = delivered[c]
    PROVE  CallInv(c)' /\ Moves(c)
<1>1. Moves(c)
    BY StillContinues DEF Moves
<1>2. HearInv(c)'
    BY HearKept
<1>3. delivered[c] = emitted[c]
    BY DEF BridgeInv, CallInv
<1> QED
    BY <1>1, <1>2, <1>3 DEF CallInv

LEMMA CallMoves ==
    ASSUME BridgeInv, World, NEW c \in Calls, Muted(c) \/ Speaks(c),
           Start(c) \/ Bootstrapped(c) \/ Result(c) \/ Failure(c) \/ Rejected(c)
    PROVE  CallInv(c)' /\ Moves(c)
<1>0. CallFunctions /\ StagesMatch(c)
    BY DEF CallFunctions, BridgeInv, CallTypes, CallInv
<1>1. UNCHANGED <<request, position, emitted, delivered, late>>
    BY DEF Start, Bootstrapped, Result, Failure, Rejected
<1>2. ASSUME pc'[c] # "done", Open(c),
             pc[c] = "failing" => pc'[c] \in {"failing", "failed"},
             pc'[c] \in {"idle", "bootstrapping"} => stream'[c] = "none",
             pc'[c] = "failed" => stream'[c] \in {"none", "ended"},
             stream'[c] = stream[c] \/ (stream[c] = "none" /\ stream'[c] = "resolving"),
             pc'[c] = "finalizing" => request[c] # 0 /\ answers[request[c]] # <<>>
      PROVE  CallInv(c)' /\ Moves(c)
    <2>1. stream[c] = "none" => joined'[c] = 0
        BY <1>0, CallTyped DEF StagesMatch, Muted, Speaks
    <2>2. StagesMatch(c)'
        BY <1>1, <1>2, <2>1, Stages
    <2> QED
        BY <1>1, <1>2, <2>2, Passes
<1> USE DEF Goto, Open
<1>3. CASE Start(c)
    <2>1. /\ pc[c] = "idle"
          /\ \/ pc'[c] = "running" /\ stream' = [stream EXCEPT ![c] = "resolving"]
             \/ pc'[c] = "bootstrapping" /\ stream' = stream
        BY <1>0, <1>3 DEF Start, Launch, CallFunctions
    <2> QED
        BY <1>0, <1>2, <2>1 DEF CallFunctions, StagesMatch
<1>4. CASE Bootstrapped(c)
    <2>1. /\ pc[c] = "bootstrapping"
          /\ \/ pc'[c] = "running" /\ stream' = [stream EXCEPT ![c] = "resolving"]
             \/ pc'[c] = "failed" /\ stream' = stream
        BY <1>0, <1>4 DEF Bootstrapped, Launch, CallFunctions
    <2> QED
        BY <1>0, <1>2, <2>1 DEF CallFunctions, StagesMatch
<1>5. CASE Result(c)
    <2>1. /\ pc[c] = "running" /\ pc'[c] = "finalizing" /\ stream' = stream
          /\ request[c] # 0 /\ answers[request[c]] # <<>>
        BY <1>0, <1>5 DEF Result, CallFunctions
    <2> QED
        BY <1>2, <2>1
<1>6. CASE Failure(c)
    <2>1. pc[c] = "running" /\ pc'[c] = "failing" /\ stream' = stream
        BY <1>0, <1>6 DEF Failure, CallFunctions
    <2> QED
        BY <1>2, <2>1
<1>7. CASE Rejected(c)
    <2>1. pc[c] = "failing" /\ pc'[c] = "failed" /\ stream' = stream /\ stream[c] \in {"none", "ended"}
        BY <1>0, <1>7 DEF Rejected, CallFunctions, StreamAwaited
    <2> QED
        BY <1>2, <2>1
<1> QED
    BY <1>3, <1>4, <1>5, <1>6, <1>7

LEMMA ExecMoves ==
    ASSUME BridgeInv, NEW c \in Calls, Exec(c)
    PROVE  CallInv(c)' /\ Moves(c)
<1>0. CallFunctions /\ StagesMatch(c) /\ World /\ (Muted(c) \/ Speaks(c))
    BY CallWorld, Overhears DEF CallFunctions, BridgeInv, CallTypes, CallInv, World
<1>1. PICK r \in Requests : ExecAttached(r, c) /\ request' = [request EXCEPT ![c] = r]
    BY DEF Exec
<1>2. UNCHANGED <<pc, stream, position, emitted, delivered, late>> /\ pc[c] = "running"
    BY DEF Exec
<1>3. request'[c] = r /\ r # 0
    BY <1>0, <1>1 DEF CallFunctions, Requests
<1>4. asked'[r] = <<"exec", c>>
    <2>1. asked \in [Requests -> Asked]
        BY DEF BridgeInv, DaemonInv, TypeInv, TypeOK
    <2>2. asked' = [asked EXCEPT ![r] = <<"exec", c>>]
        BY <1>1 DEF ExecAttached, Asks
    <2> QED
        BY <2>1, <2>2
<1>5. joined'[c] \in {0, joined[c]} /\ (joined[c] = 0 => heard'[c] = heard[c])
    BY <1>0, CallTyped DEF Muted, Speaks
<1>6. StagesMatch(c)'
    BY <1>0, <1>2, <1>3, <1>4, <1>5 DEF StagesMatch
<1> QED
    BY <1>0, <1>2, <1>6, Passes DEF Open

LEMMA HangUpLeaves ==
    ASSUME BridgeInv, NEW c \in Calls, HangUp(c)
    PROVE  /\ World /\ Muted(c) /\ joined'[c] = 0 /\ stream'[c] = "ended"
           /\ UNCHANGED <<job, heard>>
<1>1. c \in Clients /\ joined \in [Clients -> 0..MaxJoins] /\ c \in DOMAIN stream
    BY CallTyped DEF BridgeInv, DaemonInv, TypeInv, TypeOK, CallTypes, CallFunctions
<1>2. Leave(c) \/ (joined[c] = 0 /\ UNCHANGED vars)
    BY DEF HangUp
<1>3. UNCHANGED <<job, heard>> /\ joined'[c] = 0
    BY <1>1, <1>2 DEF Leave, vars, state, events
<1>4. stream'[c] = "ended"
    BY <1>1 DEF HangUp, EndStream
<1> QED
    BY <1>2, <1>3, <1>4 DEF World, Muted

LEMMA StreamMoves ==
    ASSUME BridgeInv, NEW c \in Calls,
           Resolved(c) \/ ConnectFails(c) \/ Dropped(c) \/ Cut(c)
    PROVE  CallInv(c)' /\ Moves(c)
<1>0. CallFunctions /\ StagesMatch(c)
    BY DEF CallFunctions, BridgeInv, CallTypes, CallInv
<1>1. UNCHANGED <<pc, request, position, emitted, delivered, late>>
    BY DEF Resolved, ConnectFails, Dropped, Cut
<1>2. ASSUME World, Muted(c), stream[c] \notin {"none", "ended"},
             stream'[c] # "none",
             stream'[c] \in {"resolving", "connecting"} => stream[c] \in {"resolving", "connecting"},
             stream'[c] = stream[c] \/ joined'[c] = 0
      PROVE  CallInv(c)' /\ Moves(c)
    <2>1. pc[c] \notin {"idle", "bootstrapping", "done", "failed"}
        BY <1>0, <1>2 DEF StagesMatch
    <2>2. StagesMatch(c)'
        BY <1>1, <1>2, <2>1, Stages
    <2> QED
        BY <1>1, <1>2, <2>1, <2>2, Passes DEF Open
<1>3. CASE Resolved(c) \/ ConnectFails(c)
    <2>1. UNCHANGED vars
        BY <1>3, CallWorld
    <2>2. World /\ Muted(c) /\ joined'[c] = joined[c]
        BY <2>1 DEF World, vars, state, events, Muted
    <2>3. /\ stream[c] \in {"resolving", "connecting"}
          /\ stream'[c] \in {"connecting", "ended"}
        BY <1>0, <1>3 DEF Resolved, ConnectFails, EndStream, CallFunctions
    <2>4. joined[c] = 0
        BY <1>0, <2>3 DEF StagesMatch
    <2> QED
        BY <1>2, <2>2, <2>3, <2>4
<1>4. CASE Dropped(c) \/ Cut(c)
    <2>1. HangUp(c) /\ stream[c] \notin {"none", "ended"}
        BY <1>4 DEF Dropped, Cut, Abortable
    <2> QED
        BY <1>2, <2>1, HangUpLeaves
<1> QED
    BY <1>3, <1>4

LEMMA ConnectMoves ==
    ASSUME BridgeInv, NEW c \in Calls, Connect(c)
    PROVE  CallInv(c)' /\ Moves(c)
<1>0. CallFunctions /\ CallInv(c) /\ StagesMatch(c) /\ HearInv(c) /\ job[c].chunks \in Nat
    BY CallTyped DEF CallFunctions, BridgeInv, CallTypes, CallInv
<1>1. /\ stream[c] = "connecting" /\ stream'[c] = "open"
      /\ UNCHANGED <<pc, request, position, emitted, delivered, job, heard, asked, answers>>
      /\ late' = IF job[c].chunks > 0 THEN late \cup {c} ELSE late
    BY <1>0 DEF Connect, Join, CallFunctions, state, requests
<1>2. heard[c] = <<>> /\ joined[c] = 0
    BY <1>0, <1>1 DEF StagesMatch
<1>3. joined'[c] = 1
    <2>1. c \in Clients /\ joined \in [Clients -> 0..MaxJoins]
        BY CallTyped DEF BridgeInv, DaemonInv, TypeInv, TypeOK
    <2>2. joined' = [joined EXCEPT ![c] = @ + 1]
        BY DEF Connect, Join
    <2> QED
        BY <1>2, <2>1, <2>2
<1>4. World /\ late \subseteq late'
    BY <1>1 DEF World, Connect
<1>5. StagesMatch(c)'
    BY <1>0, <1>1, <1>3 DEF StagesMatch
<1>6. HearInv(c)'
    <2>1. InOrder(c, <<>>, job[c].chunks, late')
        BY DEF InOrder
    <2>2. UpToDate(c, <<>>, job[c].chunks, late')
        <3>1. Before(c, <<>>, Len(<<>>) + 1) = {}
            BY DEF Before
        <3>2. c \in late' \/ job[c].chunks = 0
            BY <1>0, <1>1
        <3> QED
            BY <3>1, <3>2 DEF UpToDate
    <2>3. PICK i, j \in Nat :
              /\ ReadTo(c, heard[c], position[c], job[c].chunks, late, i, j)
              /\ emitted[c] = Chunks(c, i, j)
        BY <1>0 DEF HearInv
    <2>4. ReadTo(c, heard[c], position[c], job[c].chunks, late', i, j)
        BY <1>4, <2>3 DEF ReadTo
    <2> QED
        BY <1>0, <1>1, <1>2, <2>1, <2>2, <2>3, <2>4 DEF HearInv
<1>7. Open(c)
    BY <1>0, <1>1 DEF StagesMatch, Open
<1>8. CallInv(c)'
    BY <1>0, <1>1, <1>5, <1>6 DEF CallInv, Open
<1>9. Moves(c)
    BY <1>1, <1>4, <1>7, StillContinues DEF Moves, Open
<1> QED
    BY <1>8, <1>9

\* What a call reads it hands on, and it reads the chunk after the last one.
LEMMA ReadMoves ==
    ASSUME BridgeInv, NEW c \in Calls, ReadEvent(c)
    PROVE  CallInv(c)' /\ Moves(c)
<1> DEFINE s == heard[c]
           k == position[c]
           n == job[c].chunks
           e == s[k + 1]
<1>0. /\ CallFunctions /\ CallInv(c) /\ StagesMatch(c) /\ HearInv(c)
      /\ n \in Nat /\ job[c].notes \in Nat /\ s \in Seq(Event)
    BY CallTyped DEF CallFunctions, BridgeInv, CallTypes, CallInv
<1>1. /\ stream[c] = "open" /\ k \in 0..Len(s) /\ k < Len(s)
      /\ position'[c] = k + 1
      /\ UNCHANGED <<pc, request, late>>
    BY <1>0 DEF ReadEvent, HearInv, CallFunctions
<1>2. /\ World /\ Muted(c) /\ UNCHANGED <<job, heard>>
      /\ joined'[c] = 0 \/ (joined'[c] = joined[c] /\ stream'[c] = "open")
      /\ stream'[c] \in {"open", "ended"}
    <2>1. CASE HangUp(c)
        BY <2>1, HangUpLeaves
    <2>2. CASE UNCHANGED <<vars, stream>>
        BY <1>1, <2>2 DEF World, vars, state, events, Muted
    <2> QED
        BY <2>1, <2>2 DEF ReadEvent
<1>3. Open(c) /\ delivered[c] = emitted[c]
    BY <1>0, <1>1 DEF StagesMatch, Open, CallInv
<1>4. StagesMatch(c)'
    <2>1. stream'[c] = stream[c] \/ joined'[c] = 0
        BY <1>1, <1>2
    <2>2. pc[c] \notin {"idle", "bootstrapping", "done", "failed"}
        BY <1>0, <1>1 DEF StagesMatch
    <2> QED
        BY <1>1, <1>2, <2>1, <2>2, Stages
<1>5. PICK i, j \in Nat : ReadTo(c, s, k, n, late, i, j) /\ emitted[c] = Chunks(c, i, j)
    BY <1>0 DEF HearInv
<1>6. ASSUME NEW x \in Nat, NEW y \in Nat,
             ReadTo(c, s, k + 1, n, late, x, y), emitted'[c] = Chunks(c, x, y)
      PROVE  HearInv(c)'
    <2>1. k + 1 \in 0..Len(s)
        BY <1>0, <1>1
    <2>2. /\ InOrder(c, s, n, late)
          /\ joined'[c] # 0 => UpToDate(c, s, n, late)
        BY <1>0, <1>2 DEF HearInv
    <2>3. heard'[c] = s /\ job'[c].chunks = n /\ position'[c] = k + 1 /\ late' = late
        BY <1>1, <1>2
    <2> HIDE DEF s, k, n
    <2> QED
        BY <1>6, <2>1, <2>2, <2>3 DEF HearInv
<1>7. CASE ~OwnOutput(c, e)
    <2>1. UNCHANGED <<emitted, delivered>>
        BY <1>7 DEF ReadEvent
    <2>2. ReadTo(c, s, k + 1, n, late, i, j)
        BY <1>0, <1>1, <1>5, <1>7, ReadAnother
    <2>3. HearInv(c)'
        BY <1>5, <1>6, <2>1, <2>2
    <2>4. CallInv(c)'
        BY <1>3, <1>4, <2>1, <2>3 DEF CallInv
    <2>5. Moves(c)
        BY <1>1, <1>2, <1>3, <2>1, StillContinues DEF Moves, Open
    <2> QED
        BY <2>4, <2>5
<1>8. CASE OwnOutput(c, e)
    <2>1. /\ emitted'[c] = Append(emitted[c], e)
          /\ delivered'[c] = delivered[c] \o <<e>>
        BY <1>0, <1>8 DEF ReadEvent, Mark, Hand, CallFunctions
    <2>2. PICK a, b \in Nat :
              /\ a # 0 /\ a <= b + 1
              /\ Chunks(c, a, b) = Chunks(c, i, j)
              /\ e = <<c, "data", b + 1>>
              /\ ReadTo(c, s, k + 1, n, late, a, b + 1)
        <3>1. InOrder(c, s, n, late)
            BY <1>0 DEF HearInv
        <3>2. s \in Seq(Event) /\ k \in 0..Len(s) /\ k < Len(s) /\ n \in Nat
            BY <1>0, <1>1
        <3>3. OwnOutput(c, s[k + 1]) /\ ReadTo(c, s, k, n, late, i, j)
            BY <1>5, <1>8
        <3> HIDE DEF s, k, n
        <3> QED
            BY <3>1, <3>2, <3>3, ReadNext
    <2> HIDE DEF e, s, k, n
    <2>3. emitted'[c] = Chunks(c, a, b + 1) /\ delivered'[c] = Chunks(c, a, b + 1)
        <3>1. /\ Append(Chunks(c, a, b), <<c, "data", b + 1>>) = Chunks(c, a, b + 1)
              /\ Chunks(c, a, b) \o << <<c, "data", b + 1>> >> = Chunks(c, a, b + 1)
            BY <2>2, OneMoreChunk
        <3>2. emitted[c] = Chunks(c, a, b) /\ delivered[c] = Chunks(c, a, b)
            BY <1>3, <1>5, <2>2
        <3> QED
            BY <2>1, <2>2, <3>1, <3>2
    <2>4. b + 1 \in Nat /\ b <= b + 1
        BY <2>2
    <2>5. HearInv(c)'
        BY <1>6, <2>2, <2>3, <2>4
    <2>6. CallInv(c)'
        BY <1>4, <2>3, <2>5 DEF CallInv
    <2>7. b + 1 <= Written(c)' /\ (c \in late' \/ a = 1)
        <3>1. b + 1 <= n /\ (c \in late \/ a = 1)
            BY <2>2 DEF ReadTo
        <3>2. Written(c)' = n + job[c].notes
            BY <1>2 DEF Written, n
        <3> QED
            BY <1>0, <1>1, <3>1, <3>2
    <2>8. Continues(c)
        BY <1>3, <1>5, <2>2, <2>3, <2>4, <2>7 DEF Continues
    <2>9. Moves(c)
        BY <1>1, <1>3, <2>8 DEF Moves, Open
    <2> QED
        BY <2>6, <2>9
<1> QED
    BY <1>7, <1>8

----------------------------------------------------------------------------
\* What is missing when the call ends is what follows the chunks that were read.

LEMMA SubChunks ==
    ASSUME NEW c, NEW w \in Nat, NEW i \in Nat, NEW j \in Nat, i # 0, i <= j + 1, j <= w
    PROVE  SubSeq(Chunks(c, 1, w), i, j) = Chunks(c, i, j)
<1>1. \A k \in 1..(j + 1 - i) : i + k - 1 \in 1..w
    OBVIOUS
<1>2. \A x \in 1..w : Chunks(c, 1, w)[x] = <<c, "data", x>>
    <2>1. \A x \in 1..w : 1 + x - 1 = x
        OBVIOUS
    <2>2. 1..(w + 1 - 1) = 1..w
        OBVIOUS
    <2> QED
        BY <2>1, <2>2 DEF Chunks
<1>3. SubSeq(Chunks(c, 1, w), i, j) = [k \in 1..(j - i + 1) |-> Chunks(c, 1, w)[i + k - 1]]
    OBVIOUS
<1>4. \A k \in 1..(j + 1 - i) : Chunks(c, 1, w)[i + k - 1] = <<c, "data", i + k - 1>>
    BY <1>1, <1>2
<1>5. j - i + 1 = j + 1 - i
    OBVIOUS
<1> QED
    BY <1>3, <1>4, <1>5 DEF Chunks

LEMMA MissingIs ==
    ASSUME NEW c, NEW w \in Nat, NEW i \in Nat, NEW j \in Nat,
           i # 0, i <= j + 1, j <= w, i > j => i = 1 /\ j = 0,
           emitted[c] = Chunks(c, i, j), FinalOutput(c) = Chunks(c, 1, w)
    PROVE  \E m \in Nat :
              /\ j <= m /\ m <= w
              /\ Missing(c) = Chunks(c, j + 1, m)
              /\ i = 1 => m = w
<1> DEFINE out == Chunks(c, i, j)
           final == Chunks(c, 1, w)
<1>1. /\ Len(out) = j + 1 - i /\ Len(final) = w
      /\ out = <<>> <=> i = j + 1
      /\ final = <<>> <=> w = 0
    <2>1. 1 <= w + 1 /\ w + 1 - 1 = w
        OBVIOUS
    <2>2. Len(out) = j + 1 - i /\ (out = <<>> <=> i = j + 1)
        BY ChunksSeq, NoChunks
    <2>3. Len(final) = w + 1 - 1
        BY <2>1, ChunksSeq, Zenon
    <2>4. final = <<>> <=> 1 = w + 1
        BY <2>1, NoChunks
    <2> QED
        BY <2>1, <2>2, <2>3, <2>4
<1>2. out = SubSeq(final, i, j) /\ final = SubSeq(final, 1, w)
    BY SubChunks
<1>3. Missing(c) =
        CASE final = <<>> -> <<>>
          [] out = <<>> -> final
          [] out # <<>> /\ IsPrefix(out, final) -> SubSeq(final, Len(out) + 1, Len(final))
          [] OTHER -> IF Includes(final, out) \/ Includes(out, final) THEN <<>> ELSE final
    BY DEF Missing
<1>4. CASE w = 0
    <2>1. j = 0 /\ i = 1
        BY <1>4
    <2>2. Missing(c) = <<>>
        BY <1>1, <1>3, <1>4, <2>1
    <2>3. Chunks(c, 1, 0) = <<>>
        BY NoChunks
    <2> QED
        BY <1>4, <2>1, <2>2, <2>3
<1>5. CASE w # 0 /\ i > j
    <2>1. Missing(c) = Chunks(c, 1, w) /\ j = 0
        BY <1>1, <1>3, <1>5
    <2> QED
        BY <2>1
<1>6. CASE w # 0 /\ i <= j /\ i = 1
    <2>1. SubSeq(out, 1, Len(out)) = SubSeq(final, 1, Len(out)) /\ Len(out) = j
        <3>1. Len(out) = j /\ j <= j
            BY <1>1, <1>6
        <3>2. SubSeq(Chunks(c, 1, j), 1, j) = Chunks(c, 1, j) /\ SubSeq(Chunks(c, 1, w), 1, j) = Chunks(c, 1, j)
            BY <1>6, SubChunks
        <3> QED
            BY <1>6, <3>1, <3>2
    <2>2. IsPrefix(out, final)
        BY <1>1, <2>1 DEF IsPrefix
    <2>3. out # <<>> /\ final # <<>>
        BY <1>1, <1>6
    <2> HIDE DEF out, final
    <2>4. Missing(c) = SubSeq(final, j + 1, w)
        BY <1>1, <1>3, <2>1, <2>2, <2>3
    <2>5. SubSeq(Chunks(c, 1, w), j + 1, w) = Chunks(c, j + 1, w)
        <3>1. j + 1 \in Nat /\ j + 1 # 0 /\ j + 1 <= w + 1 /\ w <= w
            OBVIOUS
        <3> QED
            BY <3>1, SubChunks
    <2> QED
        BY <2>4, <2>5 DEF final
<1>7. CASE w # 0 /\ i <= j /\ i # 1
    <2>1. ~IsPrefix(out, final)
        <3>1. out[1] = <<c, "data", i>> /\ final[1] = <<c, "data", 1>>
            BY <1>7 DEF Chunks
        <3>2. SubSeq(out, 1, Len(out))[1] = out[1] /\ SubSeq(final, 1, Len(out))[1] = final[1]
            <4>1. 1 \in 1..Len(out)
                BY <1>1, <1>7
            <4> HIDE DEF out, final
            <4> QED
                BY <4>1
        <3>3. <<c, "data", i>> # <<c, "data", 1>>
            BY <1>7
        <3> HIDE DEF out, final
        <3> QED
            BY <3>1, <3>2, <3>3 DEF IsPrefix
    <2>2. Includes(final, out)
        <3>1. i - 1 \in 0..Len(final) /\ j \in 0..Len(final) /\ i - 1 + 1 = i
            BY <1>1, <1>7
        <3> HIDE DEF out, final
        <3>2. out = SubSeq(final, i - 1 + 1, j)
            BY <1>2, <3>1
        <3>3. \E x, y \in 0..Len(final) : out = SubSeq(final, x + 1, y)
            BY <3>1, <3>2
        <3> QED
            BY <3>3 DEF Includes, SubSeqs
    <2>3. out # <<>> /\ final # <<>>
        BY <1>1, <1>7
    <2> HIDE DEF out, final
    <2>4. Missing(c) = <<>>
        BY <1>3, <2>1, <2>2, <2>3
    <2>5. Chunks(c, j + 1, j) = <<>>
        BY NoChunks
    <2> QED
        BY <1>7, <2>4, <2>5
<1> QED
    BY <1>4, <1>5, <1>6, <1>7

\* The result of a call carries all that its command wrote.
LEMMA FinalIs ==
    ASSUME BridgeInv, NEW c \in Calls, pc[c] = "finalizing"
    PROVE  FinalOutput(c) = Chunks(c, 1, Written(c))
<1> DEFINE r == request[c]
           a == answers[r][1]
<1>1. r \in Requests /\ asked[r] = <<"exec", c>> /\ answers[r] # <<>>
    BY DEF BridgeInv, CallTypes, CallFunctions, CallInv, StagesMatch
<1>2. c \in Jobs /\ job[c].chunks \in Nat /\ job[c].notes \in Nat
    BY CallTyped
<1>3. 1 \in DOMAIN answers[r]
    <2>1. answers[r] \in Seq(Answer)
        BY <1>1 DEF BridgeInv, DaemonInv, TypeInv, TypeOK
    <2> QED
        BY <1>1, <2>1
<1>4. a.type = "result" /\ a.job = c /\ a.status = "exited"
    BY <1>1, <1>2, <1>3 DEF BridgeInv, ExecsHearOfTheirExit, ExitAnswer
<1>5. a = jobSnapshot(a.job, job[a.job])
    BY <1>1, <1>3, <1>4 DEF BridgeInv, DaemonInv, ExitIsFinal, ExitedAnswersAreFinal, jobSnapshot
<1>6. a.output = Written(c)
    BY <1>4, <1>5 DEF jobSnapshot, Written
<1>7. FinalOutput(c) = [k \in 1..Written(c) |-> <<c, "data", k>>]
    BY <1>6 DEF FinalOutput
<1>8. Written(c) \in Nat
    BY <1>2 DEF Written
<1>9. \A k \in 1..Written(c) : 1 + k - 1 = k
    BY <1>8
<1>10. Written(c) + 1 - 1 = Written(c)
    BY <1>8
<1> QED
    BY <1>7, <1>9, <1>10 DEF Chunks

LEMMA EmitMoves ==
    ASSUME BridgeInv, NEW c \in Calls, EmitMissing(c)
    PROVE  CallInv(c)' /\ Moves(c)
<1>0. CallFunctions /\ CallInv(c) /\ HearInv(c) /\ World /\ Muted(c)
    BY CallWorld DEF CallFunctions, BridgeInv, CallTypes, CallInv, World, vars, state, events, Muted
<1>1. /\ pc[c] = "finalizing" /\ stream[c] \in {"none", "ended"}
      /\ pc'[c] \in {"done", "failed"}
      /\ delivered'[c] = delivered[c] \o Missing(c)
      /\ UNCHANGED <<request, stream, position, emitted, late, job, joined, heard>>
    BY <1>0 DEF EmitMissing, StreamAwaited, Hand, Goto, CallFunctions, vars, state, events
<1>2. Open(c) /\ delivered[c] = emitted[c] /\ ~Open(c)'
    BY <1>0, <1>1 DEF CallInv, Open
<1>3. CallInv(c)'
    <2>1. HearInv(c)'
        BY <1>0, <1>1, HearKept
    <2>2. StagesMatch(c)'
        BY <1>0, <1>1, Stages
    <2> QED
        BY <1>2, <2>1, <2>2 DEF CallInv
<1>4. PICK i, j \in Nat :
          /\ ReadTo(c, heard[c], position[c], job[c].chunks, late, i, j)
          /\ emitted[c] = Chunks(c, i, j)
    BY <1>0 DEF HearInv
<1> DEFINE w == Written(c)
<1>5. w \in Nat /\ Written(c)' = w /\ job[c].chunks <= w /\ job[c].chunks \in Nat
    BY <1>1, CallTyped DEF Written
<1>6. FinalOutput(c) = Chunks(c, 1, w)
    BY <1>1, FinalIs
<1> HIDE DEF w
<1>7. /\ i # 0 /\ i <= j + 1 /\ j <= w
      /\ c \in late \/ i = 1
      /\ i > j => i = 1 /\ j = 0
    BY <1>4, <1>5 DEF ReadTo
<1>8. PICK m \in Nat :
          /\ j <= m /\ m <= w
          /\ Missing(c) = Chunks(c, j + 1, m)
          /\ i = 1 => m = w
    BY <1>4, <1>5, <1>6, <1>7, MissingIs
<1>9. delivered[c] = Chunks(c, i, j) /\ delivered'[c] = Chunks(c, i, m)
    <2>1. Chunks(c, i, j) \o Chunks(c, j + 1, m) = Chunks(c, i, m)
        BY <1>7, <1>8, ChunksConcat
    <2> QED
        BY <1>1, <1>2, <1>4, <1>8, <2>1
<1>10. Continues(c)
    BY <1>1, <1>5, <1>7, <1>8, <1>9 DEF Continues
<1>11. c \in late' \/ delivered'[c] = Chunks(c, 1, Written(c)')
    BY <1>1, <1>5, <1>7, <1>8, <1>9
<1> QED
    BY <1>1, <1>2, <1>3, <1>10, <1>11 DEF Moves

----------------------------------------------------------------------------
\* The invariant holds, and every step moves each call or leaves it where it is.

LEMMA BridgeStarts ==
    ASSUME BridgeInit
    PROVE  BridgeInv
<1>1. DaemonInv
    BY DaemonInit DEF BridgeInit
<1>2. mayKill /\ CallTypes
    <2>1. CallFunctions
        BY DEF BridgeInit, CallFunctions
    <2>2. heard \in [Clients -> Seq(Event)]
        BY DEF BridgeInit, Init
    <2> QED
        BY <2>1, <2>2 DEF BridgeInit, CallTypes
<1>3. ExecsHearOfTheirExit
    BY DEF BridgeInit, Init, ExecsHearOfTheirExit
<1>4. ASSUME NEW c \in Calls
      PROVE  CallInv(c)
    <2>1. /\ c \in Jobs /\ c \in Clients /\ job[c].chunks = 0
          /\ heard[c] = <<>> /\ joined[c] = 0
          /\ pc[c] = "idle" /\ stream[c] = "none" /\ request[c] = 0 /\ position[c] = 0
          /\ emitted[c] = <<>> /\ delivered[c] = <<>>
        BY BridgeAssumption DEF BridgeAssumption, BridgeInit, Init, NoJob
    <2>2. StagesMatch(c)
        BY <2>1 DEF StagesMatch
    <2>3. InOrder(c, <<>>, 0, late)
        BY DEF InOrder
    <2>4. ReadTo(c, <<>>, 0, 0, late, 1, 0)
        BY DEF ReadTo, Before
    <2>5. Chunks(c, 1, 0) = <<>>
        BY NoChunks
    <2>6. HearInv(c)
        BY <2>1, <2>3, <2>4, <2>5 DEF HearInv
    <2> QED
        BY <2>1, <2>2, <2>6 DEF CallInv
<1> QED
    BY <1>1, <1>2, <1>3, <1>4 DEF BridgeInv

\* What a step of the bridge comes to.
Fares(c) == CallInv(c)' /\ Moves(c)

LEMMA OwnStep ==
    ASSUME BridgeInv, NEW c \in Calls, StreamStep(c) \/ CallStep(c)
    PROVE  /\ World /\ Touches(c)
           /\ \A d \in Calls : Fares(d)
<1>1. CallFunctions
    BY DEF BridgeInv, CallTypes, CallFunctions
<1>2. Touches(c)
    BY <1>1, StartTouches, StreamTouches DEF StreamStep, CallStep
<1>3. DaemonSteps \/ Leave(c) \/ Connect(c) \/ UNCHANGED vars
    BY CallWorld DEF StreamStep, CallStep
<1>4. World
    BY <1>3, CallWorld DEF World
<1>5. ASSUME NEW d \in Calls, d # c
      PROVE  Fares(d)
    <2>1. Muted(d) \/ Speaks(d)
        BY <1>3, <1>5, CallWorld, Overhears
    <2>2. Same(d) /\ late \subseteq late'
        BY <1>2, <1>5 DEF Touches
    <2> QED
        BY <1>4, <2>1, <2>2, LeftAlone, Rests DEF Fares
<1>6. Fares(c)
    <2>1. CASE Start(c) \/ Bootstrapped(c) \/ Result(c) \/ Failure(c) \/ Rejected(c)
        <3>1. UNCHANGED vars
            BY <2>1, CallWorld
        <3>2. Muted(c) \/ Speaks(c)
            BY <3>1, Overhears
        <3> QED
            BY <1>4, <2>1, <3>2, CallMoves DEF Fares
    <2>2. CASE Exec(c)
        BY <2>2, ExecMoves DEF Fares
    <2>3. CASE Resolved(c) \/ ConnectFails(c) \/ Dropped(c) \/ Cut(c)
        BY <2>3, StreamMoves DEF Fares
    <2>4. CASE Connect(c)
        BY <2>4, ConnectMoves DEF Fares
    <2>5. CASE ReadEvent(c)
        BY <2>5, ReadMoves DEF Fares
    <2>6. CASE EmitMissing(c)
        BY <2>6, EmitMoves DEF Fares
    <2> QED
        BY <2>1, <2>2, <2>3, <2>4, <2>5, <2>6 DEF StreamStep, CallStep
<1> QED
    BY <1>2, <1>4, <1>5, <1>6

LEMMA BridgeStep ==
    ASSUME BridgeInv, [BridgeNext]_bridgeVars
    PROVE  /\ BridgeInv' /\ World /\ late \subseteq late'
           /\ \A c \in Calls : Moves(c)
<1>1. /\ World /\ CallFunctions' /\ late \subseteq late'
      /\ \A c \in Calls : Fares(c)
    <2>1. ASSUME UNCHANGED bridge, DaemonSteps \/ UNCHANGED vars
          PROVE  /\ World /\ CallFunctions' /\ late \subseteq late'
                 /\ \A c \in Calls : Fares(c)
        <3>1. World
            BY <2>1 DEF World
        <3>2. CallFunctions' /\ late \subseteq late'
            BY <2>1 DEF bridge, BridgeInv, CallTypes, CallFunctions
        <3>3. ASSUME NEW c \in Calls
              PROVE  Fares(c)
            <4>1. Same(c)
                BY <2>1 DEF bridge, Same
            <4>2. Muted(c) \/ Speaks(c)
                BY <2>1, Overhears
            <4> QED
                BY <3>1, <3>2, <4>1, <4>2, LeftAlone, Rests DEF Fares
        <3> QED
            BY <3>1, <3>2, <3>3
    <2>2. CASE DaemonStep
        <3>1. UNCHANGED bridge /\ DaemonSteps
            BY <2>2 DEF DaemonStep, DaemonSteps
        <3> QED
            BY <2>1, <3>1
    <2>3. ASSUME NEW c \in Calls, StreamStep(c) \/ CallStep(c)
          PROVE  /\ World /\ CallFunctions' /\ late \subseteq late'
                 /\ \A d \in Calls : Fares(d)
        BY <2>3, OwnStep DEF Touches
    <2>4. CASE UNCHANGED bridgeVars
        BY <2>1, <2>4 DEF bridgeVars
    <2> QED
        BY <2>2, <2>3, <2>4 DEF BridgeNext
<1>2. /\ DaemonInv' /\ mayKill' /\ ExecsHearOfTheirExit'
      /\ heard' \in [Clients -> Seq(Event)]
    BY <1>1, WorldStep
<1>3. CallTypes'
    BY <1>1, <1>2 DEF CallTypes, CallFunctions
<1>4. \A c \in Calls : CallInv(c)'
    BY <1>1 DEF Fares
<1> QED
    BY <1>1, <1>2, <1>3, <1>4 DEF BridgeInv, Fares

LEMMA BridgeInvariant == BridgeInit /\ [][BridgeNext]_bridgeVars => []BridgeInv
<1>1. BridgeInit => BridgeInv
    BY BridgeStarts
<1>2. BridgeInv /\ [BridgeNext]_bridgeVars => BridgeInv'
    BY BridgeStep
<1> QED
    BY <1>1, <1>2, PTL

----------------------------------------------------------------------------
\* The callback of a call as a channel.

HeardBar(c) == [i \in DOMAIN delivered[c] |->
                  IF delivered[c][i][1] = c THEN delivered[c][i][3] ELSE 0]
ClosedBar == {c \in Calls : pc[c] \in {"done", "failed"}}
WholeBar == {c \in Calls : c \notin late /\ pc[c] \notin {"failing", "failed"}}

LEMMA RunSeq ==
    ASSUME NEW i \in Nat, NEW j \in Nat, i <= j + 1
    PROVE  /\ Channels!Run(i, j) \in Seq(Int)
           /\ Len(Channels!Run(i, j)) = j + 1 - i
           /\ \A k \in 1..(j + 1 - i) : Channels!Run(i, j)[k] = i + k - 1
<1>1. j + 1 - i \in Nat /\ \A k \in 1..(j + 1 - i) : i + k - 1 \in Int
    OBVIOUS
<1> QED
    BY <1>1 DEF Channels!Run

LEMMA RunConcat ==
    ASSUME NEW i \in Nat, NEW j \in Nat, NEW m \in Nat, i # 0, i <= j + 1, j <= m
    PROVE  Channels!Run(i, j) \o Channels!Run(j + 1, m) = Channels!Run(i, m)
<1> DEFINE Is(s, x, y) == /\ s \in Seq(Int) /\ Len(s) = y + 1 - x
                          /\ \A k \in 1..(y + 1 - x) : s[k] = x + k - 1
           a == Channels!Run(i, j)
           b == Channels!Run(j + 1, m)
           d == Channels!Run(i, m)
<1>1. Is(a, i, j)
    BY RunSeq
<1>2. Is(b, j + 1, m)
    <2>1. j + 1 \in Nat /\ j + 1 <= m + 1
        OBVIOUS
    <2> QED
        BY <2>1, RunSeq
<1>3. Is(d, i, m)
    <2>1. i <= m + 1
        OBVIOUS
    <2> QED
        BY <2>1, RunSeq
<1> HIDE DEF a, b, d
<1>4. Len(d) = Len(a) + Len(b)
    BY <1>1, <1>2, <1>3
<1>5. \A k \in 1..Len(a) : a[k] = d[k]
    <2>1. \A k \in 1..Len(a) : k \in 1..(m + 1 - i)
        BY <1>1
    <2> QED
        BY <1>1, <1>3, <2>1
<1>6. \A k \in 1..Len(b) : b[k] = d[Len(a) + k]
    <2> SUFFICES ASSUME NEW k \in 1..Len(b) PROVE b[k] = d[Len(a) + k]
        OBVIOUS
    <2>1. Len(a) + k \in 1..(m + 1 - i) /\ i + (Len(a) + k) - 1 = j + 1 + k - 1
        BY <1>1, <1>2
    <2> QED
        BY <1>2, <1>3, <2>1
<1>7. a \o b = d
    BY <1>1, <1>2, <1>3, <1>4, <1>5, <1>6, ConcatIs
<1> QED
    BY <1>7 DEF a, b, d

LEMMA ChunksAreRuns ==
    ASSUME NEW c, NEW i \in Nat, NEW j \in Nat, i <= j + 1
    PROVE  [k \in DOMAIN Chunks(c, i, j) |->
                IF Chunks(c, i, j)[k][1] = c THEN Chunks(c, i, j)[k][3] ELSE 0]
           = Channels!Run(i, j)
<1>1. DOMAIN Chunks(c, i, j) = 1..(j + 1 - i)
    BY DEF Chunks
<1>2. \A k \in 1..(j + 1 - i) : Chunks(c, i, j)[k][1] = c /\ Chunks(c, i, j)[k][3] = i + k - 1
    BY DEF Chunks
<1> QED
    BY <1>1, <1>2 DEF Channels!Run

LEMMA CallDelivers ==
    ASSUME NEW c \in Calls, Continues(c), Written(c)' \in Nat
    PROVE  Channels!Deliver(c)
<1> DEFINE w == Written(c)'
           WB == WholeBar'
           H == HeardBar(c)
           G == HeardBar(c)'
<1>1. PICK i, j, m \in Nat :
          /\ i # 0 /\ i <= j + 1 /\ j <= m /\ m <= w
          /\ c \in late' \/ i = 1
          /\ delivered[c] = Chunks(c, i, j) /\ delivered'[c] = Chunks(c, i, m)
    BY DEF Continues
<1>2. i <= m + 1 /\ w \in Nat
    BY <1>1
<1>3. H = Channels!Run(i, j) /\ G = Channels!Run(i, m)
    BY <1>1, <1>2, ChunksAreRuns DEF HeardBar
<1>4. c \in WB => i = 1
    BY <1>1 DEF WholeBar
<1>5. \E a \in 1..(w + 1) : \E b \in (a - 1)..w :
          /\ G = H \o Channels!Run(a, b)
          /\ H # <<>> => a = H[Len(H)] + 1
          /\ c \in WB /\ H = <<>> => a = 1
    <2> HIDE DEF w, WB, H, G
    <2>1. /\ H \in Seq(Int) /\ Len(H) = j + 1 - i
          /\ \A k \in 1..(j + 1 - i) : H[k] = i + k - 1
        BY <1>1, <1>3, RunSeq
    <2>2. G \in Seq(Int)
        BY <1>2, <1>3, RunSeq
    <2>3. CASE i <= j
        <3>1. H[Len(H)] = j /\ H # <<>>
            <4>1. j + 1 - i \in 1..(j + 1 - i) /\ i + (j + 1 - i) - 1 = j
                BY <1>1, <2>3
            <4> QED
                BY <2>1, <4>1
        <3>2. G = H \o Channels!Run(j + 1, m)
            BY <1>1, <1>3, RunConcat
        <3>3. j + 1 \in 1..(w + 1) /\ m \in (j + 1 - 1)..w
            BY <1>1, <1>2
        <3> USE <3>3
        <3> WITNESS j + 1 \in 1..(w + 1)
        <3> WITNESS m \in (j + 1 - 1)..w
        <3> QED
            BY <3>1, <3>2
    <2>4. CASE ~(i <= j)
        <3>1. H = <<>>
            BY <1>1, <2>1, <2>4
        <3>2. G = H \o Channels!Run(i, m)
            BY <1>3, <2>2, <3>1
        <3>3. i \in 1..(w + 1) /\ m \in (i - 1)..w
            BY <1>1, <1>2, <2>4
        <3> USE <3>3
        <3> WITNESS i \in 1..(w + 1)
        <3> WITNESS m \in (i - 1)..w
        <3> QED
            BY <1>4, <3>1, <3>2
    <2> QED
        BY <2>3, <2>4
<1> QED
    BY <1>5 DEF Channels!Deliver, HeardBar, WholeBar, Written

\* Every reachable state of the bridge is well typed: a call is registered for events only
\* while its stream is open, and its request is the exec of its own command.
THEOREM BridgeTypeCorrect == BridgeSpec => []BridgeTypeOK
<1>1. BridgeInv => BridgeTypeOK
    <2> SUFFICES ASSUME BridgeInv PROVE BridgeTypeOK
        OBVIOUS
    <2>1. \A c \in Calls : StagesMatch(c) /\ position[c] \in 0..Len(heard[c])
        BY DEF BridgeInv, CallInv, HearInv
    <2> QED
        BY <2>1 DEF BridgeInv, CallTypes, CallFunctions, StagesMatch, BridgeTypeOK
<1> QED
    BY <1>1, BridgeInvariant, PTL DEF BridgeSpec

\* A streaming call implements OutputChannels, for any number of calls, of other commands
\* and of chunks, and whatever is lost, delayed or aborted: over the event stream and out of
\* the result the callback hears each chunk of its own command once and in order, nothing
\* after the call has settled, and everything unless the call failed or its stream came late
\* (factory.ts:74-98, 475-526).
THEOREM CallsImplementChannels == BridgeSpec => CallsAreChannels
<1>1. BridgeInit => Channels!Init
    <2> SUFFICES ASSUME BridgeInit PROVE Channels!Init
        OBVIOUS
    <2>1. \A c \in Calls : c \in Jobs /\ job[c].chunks = 0 /\ job[c].notes = 0
        BY BridgeAssumption DEF BridgeAssumption, BridgeInit, Init, NoJob
    <2>2. \A c \in Calls : delivered[c] = <<>> /\ pc[c] = "idle" /\ c \notin late
        BY DEF BridgeInit
    <2>3. \A c \in Calls : HeardBar(c) = <<>>
        BY <2>2 DEF HeardBar
    <2> QED
        BY <2>1, <2>2, <2>3 DEF Channels!Init, HeardBar
<1>2. BridgeInv /\ [BridgeNext]_bridgeVars => [Channels!Next]_Channels!vars
    <2> SUFFICES ASSUME BridgeInv, [BridgeNext]_bridgeVars PROVE Channels!Next
        OBVIOUS
    <2>1. /\ BridgeInv' /\ World /\ late \subseteq late'
          /\ \A c \in Calls : Moves(c)
        BY BridgeStep
    <2>2. \A c \in Calls : pc'[c] \in {"idle", "bootstrapping", "running", "finalizing", "failing", "done", "failed"}
        BY <2>1 DEF BridgeInv, CallTypes, CallFunctions
    <2>3. ClosedBar \subseteq ClosedBar'
        BY <2>1 DEF ClosedBar, Moves, Open
    <2>4. WholeBar' \subseteq WholeBar
        BY <2>1 DEF WholeBar, Moves, Open
    <2>5. ASSUME NEW c \in Calls
          PROVE  Written(c)' \in Nat /\ Written(c) \in Nat /\ Written(c)' >= Written(c)
        <3>1. /\ job[c].chunks \in Nat /\ job[c].notes \in Nat /\ c \in Jobs
              /\ job'[c].chunks \in Nat /\ job'[c].notes \in Nat
            <4>1. \A o \in Job : o.notes \in Nat /\ o.chunks \in Nat
                BY DEF Job
            <4>2. c \in Jobs /\ job'[c] \in Job
                BY <2>1, CallTyped DEF BridgeInv, DaemonInv, TypeInv, TypeOK
            <4> QED
                BY <4>1, <4>2, CallTyped
        <3>2. job'[c].notes >= job[c].notes /\ job'[c].chunks >= job[c].chunks
            BY <2>1, <3>1, WorldStep
        <3> QED
            BY <3>1, <3>2 DEF Written
    <2>6. ASSUME NEW c \in Calls
          PROVE  Channels!Silent(c) \/ Channels!Goes(c) \/ Channels!Settles(c)
        <3>1. CASE ~Open(c)
            <4>1. c \in ClosedBar /\ HeardBar(c)' = HeardBar(c)
                BY <2>1, <3>1 DEF ClosedBar, Moves, Open, HeardBar
            <4> QED
                BY <4>1 DEF Channels!Silent, ClosedBar, HeardBar
        <3>2. CASE Open(c)
            <4>1. Channels!Deliver(c)
                BY <2>1, <2>5, <3>2, CallDelivers DEF Moves
            <4>2. CASE Open(c)'
                <5>1. c \notin ClosedBar'
                    BY <4>2 DEF ClosedBar, Open
                <5> QED
                    BY <4>1, <5>1 DEF Channels!Goes, ClosedBar
            <4>3. CASE ~Open(c)'
                <5>1. c \in ClosedBar' /\ c \notin ClosedBar
                    BY <3>2, <4>3 DEF ClosedBar, Open
                <5>2. c \in WholeBar' => HeardBar(c)' = Channels!Run(1, Written(c)')
                    <6> SUFFICES ASSUME c \in WholeBar' PROVE HeardBar(c)' = Channels!Run(1, Written(c)')
                        OBVIOUS
                    <6>1. delivered'[c] = Chunks(c, 1, Written(c)')
                        BY <2>1, <3>2, <4>3 DEF WholeBar, Moves, Open
                    <6>2. 1 <= Written(c)' + 1 /\ Written(c)' \in Nat
                        BY <2>5
                    <6> QED
                        BY <6>1, <6>2, ChunksAreRuns DEF HeardBar
                <5> QED
                    BY <4>1, <5>1, <5>2 DEF Channels!Settles, ClosedBar, WholeBar, HeardBar, Written
            <4> QED
                BY <4>2, <4>3
        <3> QED
            BY <3>1, <3>2
    <2> QED
        BY <2>3, <2>4, <2>5, <2>6 DEF Channels!Next, ClosedBar, WholeBar, Written
<1> QED
    BY <1>1, <1>2, BridgeInvariant, PTL DEF BridgeSpec, CallsAreChannels, Channels!Spec
=============================================================================
