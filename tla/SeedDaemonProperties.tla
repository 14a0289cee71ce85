------------------------ MODULE SeedDaemonProperties ------------------------
(***************************************************************************)
(* What the seed daemon promises to the launchers that talk to it.         *)
(***************************************************************************)
EXTENDS SeedDaemon

Answer ==
    [type : {"no command", "stopped"}]
        \cup [type : {"unknown"}, job : Jobs]
        \cup [type : {"result"}, job : Jobs, status : {"running", "exited"},
              code : {"none", "own", "127"}, output : 0..MaxChunks + 2]

Job == [status : {"none", "running", "exited"}, code : {"none", "own", "127"},
        chunks : 0..MaxChunks, notes : 0..2, timedOut : BOOLEAN]

Asked ==
    {<<k>> : k \in {"nothing", "exec", "stop"}}
        \cup ({"exec", "detach", "wait", "status", "kill"} \X Jobs)

Timer ==
    ({"deadline", "kill", "retention"} \X Jobs) \cup ({"wait"} \X Requests)
        \cup {<<"exit", "daemon">>}

Event == (Jobs \X {"started", "exit"}) \cup (Jobs \X {"data"} \X (1..MaxChunks))

\* Type correctness, with what the fields mean to each other: a job has a code exactly
\* when it has exited, at most two notes, and only started jobs are in the map.
TypeOK ==
    /\ mayKill \in BOOLEAN
    /\ daemon \in {"running", "gone"}
    /\ child \in [Jobs -> {"none", "running", "unspawned", "killed", "closed"}]
    /\ job \in [Jobs -> Job]
    /\ \A j \in Jobs : job[j].code # "none" <=> job[j].status = "exited"
    /\ jobs \subseteq {j \in Jobs : job[j].status # "none"}
    /\ onExit \in [Jobs -> SUBSET Requests]
    /\ timers \subseteq Timer
    /\ asked \in [Requests -> Asked]
    /\ conn \in [Requests -> {"open", "closed"}]
    /\ answers \in [Requests -> Seq(Answer)]
    /\ log \in Seq(Event)
    /\ joined \in [Clients -> 0..MaxJoins]

\* A request is answered at most once: the exit of a job, the timer of a wait and the
\* close of its connection never each answer the same wait (seed-launcher.ts:347-363).
AnsweredOnce == \A r \in Requests : Len(answers[r]) <= 1

\* A timer that would signal a job is armed only while the job runs: the SIGKILL that
\* follows a deadline never outlives the exit between the two (233-236, 255-260).
SignalsSpareTheExited ==
    mayKill => \A j \in Jobs, k \in {"deadline", "kill"} :
        <<k, j>> \in timers => job[j].status = "running"

\* The exit of a job is its last event and comes once, after everything the job wrote:
\* what follows the events needs nothing else to know that the job is over.
ExitIsLast ==
    mayKill => \A i, k \in DOMAIN log :
        log[i][2] = "exit" /\ i < k => log[k][1] # log[i][1]

\* Whoever is told that a job exited is told all of it: its final code, everything it
\* wrote and the note of a timeout, however the deadline, the close and the wait raced.
ExitedAnswersAreFinal ==
    mayKill => \A r \in Requests : \A i \in DOMAIN answers[r] :
        LET a == answers[r][i]
        IN  a.type = "result" /\ a.status = "exited" => a = jobSnapshot(a.job, job[a.job])

\* However an exit is learnt, by an event or by an answer, nothing of the job comes after it.
ExitIsFinal == ExitIsLast /\ ExitedAnswersAreFinal

\* "How long an exited detached job stays retrievable" (123): while the retention of a
\* detached job has not elapsed it is in the map, whoever asked about it before.
RetrievableUntilForgotten ==
    \A j \in Jobs :
        /\ \E r \in Requests : asked[r] = <<"detach", j>>
        /\ job[j].status = "running" \/ <<"retention", j>> \in timers
        => j \in jobs

\* The timers of a job and its place in the map go together, from the start to the retention.
TimersMatchJobs == SignalsSpareTheExited /\ RetrievableUntilForgotten

\* Answered, or left by one of its two ends.
Over(r) == answers[r] # <<>> \/ conn[r] = "closed"

\* A job with a deadline ends: SIGTERM may be ignored, the SIGKILL 1.5 s later may not.
TimedJobEnds ==
    \A j \in Jobs :
        <<"deadline", j>> \in timers ~> job[j].status = "exited" \/ daemon = "gone"

\* An attached exec, and a wait with a timeout of its own, is answered or loses its
\* connection, whenever it came: also after the exit, also when the job never ends.
RequestsEnd ==
    \A r \in Requests :
        \/ asked[r][1] = "exec"
        \/ <<"wait", r>> \in timers
        \/ asked[r][1] = "wait" /\ job[asked[r][2]].status = "exited"
        ~> Over(r)

\* An exited job is forgotten in the end, attached or not: the map does not grow forever.
ExitedJobsAreForgotten ==
    \A j \in Jobs : job[j].status = "exited" ~> j \notin jobs \/ daemon = "gone"

\* Jobs, requests and the entries of the map all have an end.
EverythingEnds == TimedJobEnds /\ RequestsEnd /\ ExitedJobsAreForgotten
=============================================================================
