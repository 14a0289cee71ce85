------------------------------ MODULE SeedDaemon ------------------------------
(***************************************************************************)
(* The seed daemon (daemond/src/runtime/seed-launcher.ts): jobs, the        *)
(* requests about them and the clients that follow its events.             *)
(*                                                                         *)
(* Each request has a connection of its own, as the launcher makes them; a *)
(* handler is one step of the daemon's event loop.  A job's child is its   *)
(* whole process group: it runs until the last member closes the output    *)
(* pipes.  SIGTERM may be ignored and SIGKILL may not, and a group that    *)
(* changed its user may refuse both (mayKill).  Output is counted in       *)
(* chunks; the note of a timeout and the text of an error count as one.    *)
(***************************************************************************)
EXTENDS Naturals, Sequences

CONSTANTS
    Jobs,             \* jobs the daemon may start
    MaxRequests,      \* requests, each on its own connection
    Clients,          \* SSE clients and subscribed connections
    MaxChunks,        \* chunks a job writes
    MaxJoins          \* registrations of one client at a time

ASSUME DaemonAssumption ==
    /\ MaxRequests \in Nat
    /\ MaxChunks \in Nat
    /\ MaxJoins \in Nat

\* Requests are numbered in the order in which they arrive.
Requests == 1..MaxRequests

VARIABLES
    mayKill,          \* whether signals reach the process groups
    daemon,
    child,            \* the process group of each job
    job,              \* the Job objects, with the timedOut of their closure
    jobs,             \* the keys of the jobs map
    onExit,           \* the listeners of each job: the requests they answer
    timers,           \* what is scheduled, as <<kind, subject>>
    asked,            \* what each request was, as <<kind, job>>
    conn,
    answers,          \* what was written to each connection
    log,              \* the events published: <<job, type>>, a chunk with its number
    joined,           \* how often each client is registered
    heard             \* what each client was sent

requests == <<asked, conn, answers>>
events == <<log, joined, heard>>
state == <<job, jobs, onExit, timers>>
vars == <<mayKill, daemon, child, state, requests, events>>

NoJob == [status |-> "none", code |-> "none", chunks |-> 0, notes |-> 0, timedOut |-> FALSE]

Init ==
    /\ mayKill \in BOOLEAN
    /\ daemon = "running"
    /\ child = [j \in Jobs |-> "none"]
    /\ job = [j \in Jobs |-> NoJob]
    /\ jobs = {}
    /\ onExit = [j \in Jobs |-> {}]
    /\ timers = {}
    /\ asked = [r \in Requests |-> <<"nothing">>]
    /\ conn = [r \in Requests |-> "open"]
    /\ answers = [r \in Requests |-> <<>>]
    /\ log = <<>>
    /\ joined = [c \in Clients |-> 0]
    /\ heard = [c \in Clients |-> <<>>]

----------------------------------------------------------------------------
\* What the handlers share.

jobSnapshot(j, o) ==
    [type |-> "result", job |-> j, status |-> o.status, code |-> o.code,
     output |-> o.chunks + o.notes]

\* writeLine to each of the requests rs, on top of what `before` holds.
reply(before, rs, a) ==
    [r \in Requests |-> IF r \in rs /\ conn[r] = "open" THEN Append(before[r], a) ELSE before[r]]

Repeat(e, n) == [i \in 1..n |-> e]

publish(event) ==
    /\ log' = Append(log, event)
    /\ heard' = [c \in Clients |-> heard[c] \o Repeat(event, joined[c])]
    /\ UNCHANGED joined

\* The Job at the end, the deadline's note included.
Ended(o, code) ==
    [o EXCEPT !.status = "exited", !.code = code, !.notes = IF o.timedOut THEN @ + 1 ELSE @]

\* Mutant: the listener of a wait leaves its timer running.
WaitTimersStay(j) ==
    (timers \ {<<"deadline", j>>, <<"kill", j>>}) \cup {<<"retention", j>>}

TimersAfter(j) ==
    (timers \ ({<<"deadline", j>>, <<"kill", j>>} \cup {<<"wait", r>> : r \in onExit[j]}))
        \cup {<<"retention", j>>}

\* Mutant: every exited job is deleted, whoever waited for it.
DeletedAtOnce(j) == jobs \ {j}

\* The listener of an attached exec deletes the job it answered.
Kept(j) == IF \E r \in onExit[j] : asked[r][1] = "exec" THEN jobs \ {j} ELSE jobs

\* Mutant: the listeners are told before the note of the timeout is added.
ToldBeforeTheNote(j, o, code) ==
    /\ job' = [job EXCEPT ![j] = Ended(o, code)]
    /\ publish(<<j, "exit">>)
    /\ answers' = reply(answers, onExit[j],
                        jobSnapshot(j, [o EXCEPT !.status = "exited", !.code = code]))
    /\ onExit' = [onExit EXCEPT ![j] = {}]
    /\ jobs' = Kept(j)

\* finish of a job that has not finished; its timers are the caller's to set.
finish(j, o, code) ==
    /\ job' = [job EXCEPT ![j] = Ended(o, code)]
    /\ publish(<<j, "exit">>)
    /\ answers' = reply(answers, onExit[j], jobSnapshot(j, Ended(o, code)))
    /\ onExit' = [onExit EXCEPT ![j] = {}]
    /\ jobs' = Kept(j)

\* A signal the group refuses comes back as the child's `error` event, which finishes a
\* running job as if it had not been spawned.
Refused(j) == ~mayKill /\ child[j] = "running" /\ job[j].status = "running"

WithErrorText(o) == [o EXCEPT !.notes = @ + 1]

SIGKILLed(j) ==
    IF mayKill /\ child[j] = "running" THEN [child EXCEPT ![j] = "killed"] ELSE child

----------------------------------------------------------------------------
\* The requests.

Asks(r, what) ==
    /\ daemon = "running"
    /\ conn[r] = "open" /\ asked[r] = <<"nothing">>
    /\ \A q \in 1..(r - 1) : asked[q] # <<"nothing">>
    /\ asked' = [asked EXCEPT ![r] = what]
    /\ UNCHANGED <<mayKill, daemon, conn>>

\* startJob: an attached job always has a deadline.
startJob(j, timed) ==
    /\ job[j].status = "none"
    /\ job' = [job EXCEPT ![j].status = "running"]
    /\ jobs' = jobs \cup {j}
    /\ child' \in {[child EXCEPT ![j] = s] : s \in {"running", "unspawned"}}
    /\ timers' = timers \cup (IF timed THEN {<<"deadline", j>>} ELSE {})
    /\ publish(<<j, "started">>)

ExecWithoutCommand(r) ==
    /\ Asks(r, <<"exec">>)
    /\ answers' = reply(answers, {r}, [type |-> "no command"])
    /\ UNCHANGED <<child, state, events>>

ExecAttached(r, j) ==
    /\ Asks(r, <<"exec", j>>)
    /\ startJob(j, TRUE)
    /\ onExit' = [onExit EXCEPT ![j] = {r}]
    /\ UNCHANGED answers

ExecDetached(r, j, timed) ==
    /\ Asks(r, <<"detach", j>>)
    /\ startJob(j, timed)
    /\ answers' = reply(answers, {r}, jobSnapshot(j, [job[j] EXCEPT !.status = "running"]))
    /\ UNCHANGED onExit

handleUnknown(r, j, kind) ==
    /\ Asks(r, <<kind, j>>)
    /\ j \notin jobs
    /\ answers' = reply(answers, {r}, [type |-> "unknown", job |-> j])
    /\ UNCHANGED <<child, state, events>>

\* handleStatus, and handleWait of an exited job.
AnswerNow(r, j, kind) ==
    /\ Asks(r, <<kind, j>>)
    /\ j \in jobs
    /\ kind = "wait" => job[j].status = "exited"
    /\ answers' = reply(answers, {r}, jobSnapshot(j, job[j]))
    /\ UNCHANGED <<child, state, events>>

\* Mutant: a wait that comes after the exit waits for it too.
WaitForAnyJob(j) == j \in jobs

WaitForRunning(j) == j \in jobs /\ job[j].status = "running"

handleWait(r, j, timed) ==
    /\ Asks(r, <<"wait", j>>)
    /\ WaitForRunning(j)
    /\ onExit' = [onExit EXCEPT ![j] = @ \cup {r}]
    /\ timers' = timers \cup (IF timed THEN {<<"wait", r>>} ELSE {})
    /\ UNCHANGED <<child, job, jobs, answers, events>>

\* handleKill: the group is signalled also when the job has exited.
handleKill(r, j, signal) ==
    /\ Asks(r, <<"kill", j>>)
    /\ j \in jobs
    /\ child' = IF signal = "SIGKILL" THEN SIGKILLed(j) ELSE child
    /\ IF Refused(j)
       THEN LET ended == Ended(WithErrorText(job[j]), "127")
            IN  /\ job' = [job EXCEPT ![j] = ended]
                /\ publish(<<j, "exit">>)
                /\ answers' = reply(answers, onExit[j] \cup {r}, jobSnapshot(j, ended))
                /\ onExit' = [onExit EXCEPT ![j] = {}]
                /\ jobs' = Kept(j)
                /\ timers' = TimersAfter(j)
       ELSE /\ answers' = reply(answers, {r}, jobSnapshot(j, job[j]))
            /\ UNCHANGED <<state, events>>

\* stop: answered now, carried out by a timer; whatever arrives before is still handled.
handleStop(r) ==
    /\ Asks(r, <<"stop">>)
    /\ answers' = reply(answers, {r}, [type |-> "stopped"])
    /\ timers' = timers \cup {<<"exit", "daemon">>}
    /\ UNCHANGED <<child, job, jobs, onExit, events>>

\* A connection closes before its answer: a wait is forgotten, an exec goes on without a
\* reader.  (After the answer nothing is left to forget, and an open one hears repeats.)
Close(r) ==
    /\ daemon = "running" /\ conn[r] = "open"
    /\ asked[r] # <<"nothing">> /\ answers[r] = <<>>
    /\ conn' = [conn EXCEPT ![r] = "closed"]
    /\ onExit' = [j \in Jobs |-> IF asked[r][1] = "wait" THEN onExit[j] \ {r} ELSE onExit[j]]
    /\ timers' = timers \ {<<"wait", r>>}
    /\ UNCHANGED <<mayKill, daemon, child, job, jobs, asked, answers, events>>

----------------------------------------------------------------------------
\* Timers and the child's events.

Fires(kind, x) == daemon = "running" /\ <<kind, x>> \in timers

\* The deadline of a job; its signal may be refused, which ends the job on the spot.
Deadline(j) ==
    /\ Fires("deadline", j)
    /\ LET late == [job[j] EXCEPT !.timedOut = TRUE]
       IN  \/ /\ ~Refused(j)
              /\ job' = [job EXCEPT ![j] = late]
              /\ timers' = (timers \ {<<"deadline", j>>}) \cup {<<"kill", j>>}
              /\ UNCHANGED <<jobs, onExit, answers, events>>
           \/ /\ Refused(j)
              /\ finish(j, WithErrorText(late), "127")
              /\ timers' = TimersAfter(j) \cup {<<"kill", j>>}
    /\ UNCHANGED <<mayKill, daemon, child, asked, conn>>

ForceKill(j) == child' = SIGKILLed(j)

KillTimer(j) ==
    /\ Fires("kill", j)
    /\ ForceKill(j)
    /\ timers' = timers \ {<<"kill", j>>}
    /\ UNCHANGED <<mayKill, daemon, job, jobs, onExit, requests, events>>

DropListener(r) == onExit' = [j \in Jobs |-> onExit[j] \ {r}]

WaitTimer(r) ==
    /\ Fires("wait", r)
    /\ answers' = reply(answers, {r}, jobSnapshot(asked[r][2], job[asked[r][2]]))
    /\ DropListener(r)
    /\ timers' = timers \ {<<"wait", r>>}
    /\ UNCHANGED <<mayKill, daemon, child, job, jobs, asked, conn, events>>

Forget(j) ==
    /\ Fires("retention", j)
    /\ jobs' = jobs \ {j}
    /\ timers' = timers \ {<<"retention", j>>}
    /\ UNCHANGED <<mayKill, daemon, child, job, onExit, requests, events>>

\* data: the chunk is kept and published; a job that was finished early still has a child.
Data(j) ==
    /\ daemon = "running"
    /\ child[j] \in {"running", "killed"}
    /\ job[j].chunks < MaxChunks
    /\ job' = [job EXCEPT ![j].chunks = @ + 1]
    /\ publish(<<j, "data", job[j].chunks + 1>>)
    /\ UNCHANGED <<mayKill, daemon, child, jobs, onExit, timers, requests>>

Unfinished(j) == job[j].status = "running"

PipesClose(j) == child' = [child EXCEPT ![j] = "closed"]

\* close, after the last data; only the first of error and close finishes the job.
ChildClose(j) ==
    /\ daemon = "running"
    /\ child[j] \in {"running", "killed"}
    /\ PipesClose(j)
    /\ \/ /\ Unfinished(j)
          /\ finish(j, job[j], "own")
          /\ timers' = TimersAfter(j)
       \/ /\ ~Unfinished(j)
          /\ UNCHANGED <<state, answers, events>>
    /\ UNCHANGED <<mayKill, daemon, asked, conn>>

SpawnError(j) ==
    /\ daemon = "running"
    /\ child[j] = "unspawned"
    /\ child' = [child EXCEPT ![j] = "closed"]
    /\ finish(j, WithErrorText(job[j]), "127")
    /\ timers' = TimersAfter(j)
    /\ UNCHANGED <<mayKill, daemon, asked, conn>>

\* The timer of stop, or SIGTERM: every connection closes, the children are left alone.
Exit ==
    /\ daemon = "running"
    /\ daemon' = "gone"
    /\ conn' = [r \in Requests |-> "closed"]
    /\ timers' = {}
    /\ joined' = [c \in Clients |-> 0]
    /\ UNCHANGED <<mayKill, child, job, jobs, onExit, asked, answers, log, heard>>

ExitTimer == Fires("exit", "daemon") /\ Exit

----------------------------------------------------------------------------
\* Clients: an SSE request, or subscribe; and their end.

Join(c) ==
    /\ daemon = "running"
    /\ joined[c] < MaxJoins
    /\ joined' = [joined EXCEPT ![c] = @ + 1]
    /\ UNCHANGED <<mayKill, daemon, child, state, requests, log, heard>>

\* unsubscribe and close drop every registration of the connection.
Leave(c) ==
    /\ daemon = "running"
    /\ joined[c] > 0
    /\ joined' = [joined EXCEPT ![c] = 0]
    /\ UNCHANGED <<mayKill, daemon, child, state, requests, log, heard>>

----------------------------------------------------------------------------
Request(r) ==
    \/ ExecWithoutCommand(r)
    \/ handleStop(r)
    \/ \E j \in Jobs :
          \/ ExecAttached(r, j)
          \/ \E timed \in BOOLEAN : ExecDetached(r, j, timed) \/ handleWait(r, j, timed)
          \/ \E kind \in {"wait", "status", "kill"} : handleUnknown(r, j, kind)
          \/ \E kind \in {"wait", "status"} : AnswerNow(r, j, kind)
          \/ \E signal \in {"SIGTERM", "SIGKILL"} : handleKill(r, j, signal)

JobStep(j) ==
    \/ Deadline(j) \/ KillTimer(j) \/ Forget(j)
    \/ Data(j) \/ ChildClose(j) \/ SpawnError(j)

Next ==
    \/ \E r \in Requests : Request(r) \/ Close(r) \/ WaitTimer(r)
    \/ \E j \in Jobs : JobStep(j)
    \/ \E c \in Clients : Join(c) \/ Leave(c)
    \/ ExitTimer
    \/ Exit

\* The event loop runs its timers and the operating system ends what SIGKILL reached.
Fairness ==
    /\ \A j \in Jobs :
          /\ WF_vars(Deadline(j)) /\ WF_vars(KillTimer(j)) /\ WF_vars(Forget(j))
          /\ WF_vars(SpawnError(j))
          /\ WF_vars(child[j] = "killed" /\ ChildClose(j))
    /\ \A r \in Requests : WF_vars(WaitTimer(r))
    /\ WF_vars(ExitTimer)

Spec == Init /\ [][Next]_vars /\ Fairness
=============================================================================
