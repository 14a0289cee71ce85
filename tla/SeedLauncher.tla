----------------------------- MODULE SeedLauncher -----------------------------
(***************************************************************************)
(* The launchers of the seed daemon (the script daemond/src/seed-script.ts *)
(* makes) and the daemon's start and exit: processes that share a socket   *)
(* path and a state file and find, replace or spawn a daemon over them.    *)
(*                                                                         *)
(* Launcher Old left a daemon of another protocol; the launchers 1..N all  *)
(* speak VERSION and each spawns at most one daemon, which bears its       *)
(* number, as does the token it mints.  Launcher N runs alone, after the   *)
(* others have ended and the dust has settled; a daemon may be killed and  *)
(* a launcher be cut short before that.                                    *)
(*                                                                         *)
(* Time: a daemon that can answer does so within a request's timeout, a    *)
(* spawned one has started (or failed) before its launcher gives up, and   *)
(* SIGKILL is sent before a replacement is given up.                       *)
(***************************************************************************)
EXTENDS Naturals

CONSTANTS
    N,                \* launchers
    MaxCrashes        \* daemons killed from outside

ASSUME LauncherAssumption == N \in Nat \ {0} /\ MaxCrashes \in Nat

Old == 0
Launchers == 1..N
Daemons == 0..N
Lone == N
Nobody == N + 1     \* no daemon, no token

VARIABLES
    strict,           \* sseStrictPort
    socket,           \* whose socket the path is, if any; it may be dead
    state,            \* the token in the state file
    port,             \* who took the configured SSE port
    phase,            \* each daemon process
    tokenOf,          \* the token each daemon was given
    pc,               \* where each launcher awaits
    token,            \* the token each launcher goes by
    health,           \* the daemon whose health it read last
    ran,              \* the daemon that ran its command
    crashes,          \* daemons killed so far
    overlapped        \* history: two launchers ran at a time, or one was cut short

files == <<socket, state, port>>
daemons == <<phase, tokenOf>>
launchers == <<pc, token, health, ran>>
vars == <<strict, files, daemons, launchers, crashes, overlapped>>

Starting == {"spawned", "unlinked", "served", "persisted"}
Alive(d) == phase[d] \in Starting \cup {"listening", "stopping"}
Ended(l) == pc[l] \in {"done", "failed"}

\* Nothing was ever started here, or a daemon of another protocol listens.
Init ==
    /\ strict \in BOOLEAN
    /\ phase \in {[d \in Daemons |-> IF d = Old THEN p ELSE "none"] : p \in {"none", "listening"}}
    /\ LET first == IF phase[Old] = "none" THEN Nobody ELSE Old
       IN  socket = first /\ state = first /\ port = first
    /\ tokenOf = [d \in Daemons |-> d]
    /\ pc = [l \in Launchers |-> "idle"]
    /\ token = [l \in Launchers |-> Nobody]
    /\ health = [l \in Launchers |-> Nobody]
    /\ ran = [l \in Launchers |-> Nobody]
    /\ crashes = 0
    /\ overlapped = FALSE

----------------------------------------------------------------------------
\* The daemon's own steps.

\* Mutant: the socket of whoever was there before is left in place.
LeavesSocket(d) == UNCHANGED socket

Unlink(d) == socket' = Nobody

RemoveSocket(d) ==
    /\ phase[d] = "spawned"
    /\ phase' = [phase EXCEPT ![d] = "unlinked"]
    /\ Unlink(d)
    /\ UNCHANGED <<strict, state, port, tokenOf, launchers, crashes, overlapped>>

PortFree == port = Nobody \/ ~Alive(port)

\* createSseServer: a busy port is fatal if strict, else any other will do.
ServeEvents(d) ==
    /\ phase[d] = "unlinked"
    /\ phase' = [phase EXCEPT ![d] = IF ~PortFree /\ strict THEN "dead" ELSE "served"]
    /\ port' = IF PortFree THEN d ELSE port
    /\ UNCHANGED <<strict, socket, state, tokenOf, launchers, crashes, overlapped>>

PersistState(d) ==
    /\ phase[d] = "served"
    /\ phase' = [phase EXCEPT ![d] = "persisted"]
    /\ state' = tokenOf[d]
    /\ UNCHANGED <<strict, socket, port, tokenOf, launchers, crashes, overlapped>>

\* listen: a path that exists, stale or not, is EADDRINUSE, which nobody handles.
Listen(d) ==
    /\ phase[d] = "persisted"
    /\ phase' = [phase EXCEPT ![d] = IF socket = Nobody THEN "listening" ELSE "dead"]
    /\ socket' = IF socket = Nobody THEN d ELSE socket
    /\ UNCHANGED <<strict, state, port, tokenOf, launchers, crashes, overlapped>>

\* The timer of stop: whatever socket is at the path goes with the daemon.
ExitTimer(d) ==
    /\ phase[d] = "stopping"
    /\ phase' = [phase EXCEPT ![d] = "dead"]
    /\ Unlink(d)
    /\ UNCHANGED <<strict, state, port, tokenOf, launchers, crashes, overlapped>>

\* Killed from outside: the socket stays behind.
Crash(d) ==
    /\ crashes < MaxCrashes
    /\ pc[Lone] = "idle"
    /\ Alive(d)
    /\ phase' = [phase EXCEPT ![d] = "dead"]
    /\ crashes' = crashes + 1
    /\ UNCHANGED <<strict, files, tokenOf, launchers, overlapped>>

----------------------------------------------------------------------------
\* ensureDaemon.

Reachable(d) == d # Nobody /\ phase[d] \in {"listening", "stopping"}

\* A `health` reply to the launcher's token.
Healthy(l) == Reachable(socket) /\ tokenOf[socket] = token[l]

Goto(l, stage) == pc' = [pc EXCEPT ![l] = stage]

\* A state file that is just being written may read as none.
BeingWritten ==
    (\E d \in Daemons : phase[d] = "served") \/ (\E l \in Launchers : pc[l] = "writing")

Running(l) == pc[l] # "idle" /\ ~Ended(l)

Settled == \A d \in Daemons : phase[d] \in {"none", "listening", "dead"}

ReadToken(l) ==
    IF state = Nobody THEN {l}
    ELSE {state} \cup (IF BeingWritten THEN {l} ELSE {})

\* The daemon's source is written in place: a daemon that just starts may find it cut, and exit.
SourceRewritten ==
    \E cut \in SUBSET {d \in Daemons : phase[d] = "spawned"} :
        phase' = [d \in Daemons |-> IF d \in cut THEN "dead" ELSE phase[d]]

ReadState(l) ==
    /\ pc[l] = "idle"
    /\ l = Lone => Settled /\ \A k \in Launchers \ {l} : Ended(k)
    /\ SourceRewritten
    /\ token' \in {[token EXCEPT ![l] = t] : t \in ReadToken(l)}
    /\ Goto(l, "probing")
    /\ overlapped' = (overlapped \/ \E k \in Launchers : Running(k))
    /\ UNCHANGED <<strict, files, tokenOf, health, ran, crashes>>

\* Mutant: whatever daemon is healthy is good enough.
AnyProtocol(d) == TRUE

SpeaksVersion(d) == d # Old

\* waitForHealthy(token, 500) succeeds.
Found(l) ==
    /\ pc[l] = "probing"
    /\ Healthy(l)
    /\ health' = [health EXCEPT ![l] = socket]
    /\ Goto(l, IF SpeaksVersion(socket) THEN "requesting" ELSE "stopping")
    /\ UNCHANGED <<strict, files, daemons, token, ran, crashes, overlapped>>

\* Nothing answered to the token in time: a daemon is spawned.
Spawn(l) ==
    /\ \/ pc[l] = "probing" /\ ~Healthy(l)
       \/ pc[l] = "replaced"
    /\ phase' = [phase EXCEPT ![l] = "spawned"]
    /\ tokenOf' = [tokenOf EXCEPT ![l] = token[l]]
    /\ Goto(l, "waiting")
    /\ UNCHANGED <<strict, files, token, health, ran, crashes, overlapped>>

\* waitForHealthy(token, 8000): whichever daemon it is that answers.
Up(l) ==
    /\ pc[l] = "waiting"
    /\ Healthy(l)
    /\ health' = [health EXCEPT ![l] = socket]
    /\ Goto(l, "writing")
    /\ UNCHANGED <<strict, files, daemons, token, ran, crashes, overlapped>>

NotUp(l) ==
    /\ pc[l] = "waiting"
    /\ ~Healthy(l)
    /\ \A d \in Daemons : tokenOf[d] = token[l] => phase[d] \notin Starting
    /\ Goto(l, "failed")
    /\ UNCHANGED <<strict, files, daemons, token, health, ran, crashes, overlapped>>

WriteState(l) ==
    /\ pc[l] = "writing"
    /\ state' = token[l]
    /\ Goto(l, "requesting")
    /\ UNCHANGED <<strict, socket, port, daemons, token, health, ran, crashes, overlapped>>

----------------------------------------------------------------------------
\* replaceDaemon.

\* stop goes to whoever listens now; another token's daemon refuses it.
SendStop(l) ==
    /\ pc[l] = "stopping"
    /\ phase' = IF Healthy(l) /\ phase[socket] = "listening"
                THEN [phase EXCEPT ![socket] = "stopping"] ELSE phase
    /\ Goto(l, "replacing")
    /\ UNCHANGED <<strict, files, tokenOf, token, health, ran, crashes, overlapped>>

\* Any answer means alive: the process whose health was read is killed, with SIGTERM, on
\* which it removes the socket, or with SIGKILL.
KillOld(l) ==
    /\ pc[l] = "replacing"
    /\ Reachable(socket)
    /\ Alive(health[l])
    /\ phase' = [phase EXCEPT ![health[l]] = "dead"]
    /\ socket' \in {socket, Nobody}
    /\ UNCHANGED <<strict, state, port, tokenOf, launchers, crashes, overlapped>>

NotReplaced(l) ==
    /\ pc[l] = "replacing"
    /\ Reachable(socket)
    /\ ~Alive(health[l])
    /\ Goto(l, "failed")
    /\ UNCHANGED <<strict, files, daemons, token, health, ran, crashes, overlapped>>

\* Mutant: the old daemon is gone when its socket is.
PathGone == socket = Nobody

\* Mutant: the old daemon is taken for gone once stop was sent.
StopIsEnough == TRUE

NoAnswer == ~Reachable(socket)

\* No answer: the path is unlinked, a moment later.
FoundGone(l) ==
    /\ pc[l] = "replacing"
    /\ NoAnswer
    /\ Goto(l, "unlinking")
    /\ UNCHANGED <<strict, files, daemons, token, health, ran, crashes, overlapped>>

UnlinkOld(l) ==
    /\ pc[l] = "unlinking"
    /\ socket' = Nobody
    /\ Goto(l, "replaced")
    /\ UNCHANGED <<strict, state, port, daemons, token, health, ran, crashes, overlapped>>

----------------------------------------------------------------------------
\* The request.

Authorised(l) == Healthy(l)

Answered(l) ==
    /\ pc[l] = "requesting"
    /\ Authorised(l)
    /\ ran' = [ran EXCEPT ![l] = socket]
    /\ Goto(l, "done")
    /\ UNCHANGED <<strict, files, daemons, token, health, crashes, overlapped>>

\* No daemon, another one, or one that exits before it has answered.
NotAnswered(l) ==
    /\ pc[l] = "requesting"
    /\ Authorised(l) => phase[socket] = "stopping"
    /\ Goto(l, "failed")
    /\ UNCHANGED <<strict, files, daemons, token, health, ran, crashes, overlapped>>

\* The exec that runs the launcher is given up, or its process killed.
CutShort(l) ==
    /\ l # Lone
    /\ Running(l)
    /\ Goto(l, "failed")
    /\ overlapped' = TRUE
    /\ UNCHANGED <<strict, files, daemons, token, health, ran, crashes>>

----------------------------------------------------------------------------
DaemonStep(d) ==
    RemoveSocket(d) \/ ServeEvents(d) \/ PersistState(d) \/ Listen(d) \/ ExitTimer(d)

LauncherStep(l) ==
    \/ ReadState(l) \/ Found(l) \/ Spawn(l) \/ Up(l) \/ NotUp(l) \/ WriteState(l)
    \/ SendStop(l) \/ KillOld(l) \/ NotReplaced(l) \/ FoundGone(l) \/ UnlinkOld(l)
    \/ Answered(l) \/ NotAnswered(l)

Next ==
    \/ \E d \in Daemons : DaemonStep(d) \/ Crash(d)
    \/ \E l \in Launchers : LauncherStep(l) \/ CutShort(l)

\* Every process that has a step to take is scheduled.
Spec ==
    /\ Init /\ [][Next]_vars
    /\ \A d \in Daemons : WF_vars(DaemonStep(d))
    /\ \A l \in Launchers : WF_vars(LauncherStep(l))

----------------------------------------------------------------------------
\* Type correctness: the path leads to a daemon that listened, and a launcher has run its
\* command exactly if it is done.
TypeOK ==
    /\ strict \in BOOLEAN
    /\ socket \in 0..Nobody /\ state \in 0..Nobody /\ port \in 0..Nobody
    /\ phase \in [Daemons -> Starting \cup {"none", "listening", "stopping", "dead"}]
    /\ tokenOf \in [Daemons -> Daemons]
    /\ pc \in [Launchers -> {"idle", "probing", "stopping", "replacing", "unlinking", "replaced",
                             "waiting", "writing", "requesting", "done", "failed"}]
    /\ token \in [Launchers -> 0..Nobody]
    /\ health \in [Launchers -> 0..Nobody]
    /\ ran \in [Launchers -> 0..Nobody]
    /\ crashes \in 0..MaxCrashes
    /\ overlapped \in BOOLEAN
    /\ socket # Nobody => phase[socket] \in {"listening", "stopping", "dead"}
    /\ \A l \in Launchers : ran[l] # Nobody <=> pc[l] = "done"

\* A command runs only on a daemon that speaks the launcher's protocol and was given the
\* launcher's token, whatever was replaced, spawned or killed around it (seed-script.ts:55).
RanOnItsOwn ==
    \A l \in Launchers :
        ran[l] # Nobody => ran[l] # Old /\ tokenOf[ran[l]] = token[l]

\* The races of earlier launchers, a killed daemon, a stale socket or state file and a
\* daemon of another protocol never keep a launcher that runs alone from its command, but
\* for a strict port that a daemon out of reach still holds (daemond/README.md:35).
LoneSucceeds ==
    pc[Lone] = "failed" => strict /\ port \notin {Nobody, socket, Lone} /\ Alive(port)

\* "keeps a stable token per workspace daemon" (daemond/README.md:14): once a lone launcher has its answer, the
\* state file names the token of the daemon on the socket, so the next one finds it.
TokenIsStable ==
    pc[Lone] = "done" =>
        Reachable(socket) /\ state = tokenOf[socket] /\ socket # Old

\* One launcher alone mends what the races before it left, for itself and for the next.
LoneRepairs == LoneSucceeds /\ TokenIsStable

\* Launchers that run one after the other, undisturbed, leave one daemon, the reachable one.
OneDaemonInTurn ==
    ~overlapped /\ crashes = 0 =>
        \A d, e \in Daemons : Alive(d) /\ Alive(e) => d = e

\* Every launcher ends, replacing and waiting included.
LaunchersEnd == \A l \in Launchers : Running(l) ~> Ended(l)
=============================================================================
