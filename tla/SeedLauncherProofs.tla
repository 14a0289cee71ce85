-------------------------- MODULE SeedLauncherProofs ---------------------------
(***************************************************************************)
(* Theorems about the launchers of the seed daemon, for any number of      *)
(* launchers and of daemons killed under them.                             *)
(***************************************************************************)
EXTENDS SeedLauncher, TLAPS

BeforeSpawn == {"idle", "probing", "stopping", "replacing", "unlinking", "replaced"}
AfterProbe == {"replaced", "waiting", "writing", "requesting"}

\* A launcher spawns once, so a daemon never starts anew under a path that leads to it.
SpawnsOnce == \A l \in Launchers : pc[l] \in BeforeSpawn => phase[l] = "none"

\* Once it has read the state file a launcher goes by a token.
GoesByToken == \A l \in Launchers : pc[l] # "idle" => token[l] \in Daemons

TypeInv == TypeOK /\ SpawnsOnce /\ GoesByToken

LEMMA Numbers ==
    /\ Old \in Daemons /\ Old \notin Launchers
    /\ Launchers \subseteq Daemons
    /\ Lone \in Launchers
    /\ Nobody \notin Daemons /\ Nobody \in 0..Nobody /\ Daemons \subseteq 0..Nobody
    /\ \A d \in 0..Nobody : d # Nobody => d \in Daemons
BY LauncherAssumption DEF LauncherAssumption, Old, Launchers, Daemons, Lone, Nobody

LEMMA TypeInit == Init => TypeInv
<1> SUFFICES ASSUME Init PROVE TypeInv
    OBVIOUS
<1> USE Numbers
<1>1. PICK p \in {"none", "listening"} : phase = [d \in Daemons |-> IF d = Old THEN p ELSE "none"]
    BY DEF Init
<1>2. phase \in [Daemons -> Starting \cup {"none", "listening", "stopping", "dead"}]
    BY <1>1
<1>3. /\ socket \in {Nobody, Old} /\ state \in {Nobody, Old} /\ port \in {Nobody, Old}
      /\ socket # Nobody => phase[Old] # "none"
    BY DEF Init
<1>4. phase[Old] \in {"none", "listening"}
    BY <1>1
<1>5. 0 \in 0..MaxCrashes
    BY LauncherAssumption DEF LauncherAssumption
<1>6. TypeOK
    BY <1>2, <1>3, <1>4, <1>5 DEF Init, TypeOK
<1>7. SpawnsOnce
    BY <1>1 DEF SpawnsOnce
<1> QED
    BY <1>6, <1>7 DEF Init, TypeInv, GoesByToken

\* A daemon's step touches neither the launchers nor a daemon that was never spawned.
LEMMA DaemonTypes ==
    ASSUME TypeInv, NEW d \in Daemons, DaemonStep(d) \/ Crash(d)
    PROVE  TypeInv'
<1> USE Numbers DEF TypeInv, TypeOK, SpawnsOnce, GoesByToken, launchers, files
<1>1. CASE RemoveSocket(d)
    BY <1>1 DEF RemoveSocket, Unlink, Starting
<1>2. CASE ServeEvents(d)
    BY <1>2 DEF ServeEvents, Starting
<1>3. CASE PersistState(d)
    BY <1>3 DEF PersistState, Starting
<1>4. CASE Listen(d)
    BY <1>4 DEF Listen, Starting
<1>5. CASE ExitTimer(d)
    BY <1>5 DEF ExitTimer, Unlink, Starting
<1>6. CASE Crash(d)
    BY <1>6, LauncherAssumption DEF LauncherAssumption, Crash, Alive, Starting
<1> QED
    BY <1>1, <1>2, <1>3, <1>4, <1>5, <1>6 DEF DaemonStep

LEMMA LauncherTypes ==
    ASSUME TypeInv, NEW l \in Launchers, LauncherStep(l) \/ CutShort(l)
    PROVE  TypeInv'
<1> USE Numbers DEF TypeInv, TypeOK, SpawnsOnce, GoesByToken, BeforeSpawn, files, daemons, Goto
<1>1. CASE ReadState(l)
    <2>1. PICK cut \in SUBSET {d \in Daemons : phase[d] = "spawned"} :
              phase' = [d \in Daemons |-> IF d \in cut THEN "dead" ELSE phase[d]]
        BY <1>1 DEF ReadState, SourceRewritten
    <2>2. phase' \in [Daemons -> Starting \cup {"none", "listening", "stopping", "dead"}]
        BY <2>1
    <2>3. \A d \in Daemons : phase[d] # "spawned" => phase'[d] = phase[d]
        BY <2>1
    <2>4. PICK t \in ReadToken(l) : token' = [token EXCEPT ![l] = t]
        BY <1>1 DEF ReadState
    <2>5. t \in Daemons
        BY DEF ReadToken
    <2>6. pc[l] = "idle" /\ pc' = [pc EXCEPT ![l] = "probing"]
        BY <1>1 DEF ReadState
    <2>7. TypeOK'
        <3>1. overlapped' \in BOOLEAN
            BY <1>1 DEF ReadState
        <3>2. socket # Nobody => phase'[socket] \in {"listening", "stopping", "dead"}
            BY <2>3
        <3> QED
            BY <1>1, <2>2, <2>4, <2>5, <2>6, <3>1, <3>2 DEF ReadState
    <2>8. SpawnsOnce'
        BY <2>3, <2>6
    <2>9. GoesByToken'
        BY <2>4, <2>5, <2>6
    <2> QED
        BY <2>7, <2>8, <2>9
<1>2. CASE Found(l)
    BY <1>2 DEF Found
<1>3. CASE Spawn(l)
    <2>1. phase[l] = "none" /\ phase' = [phase EXCEPT ![l] = "spawned"]
        BY <1>3 DEF Spawn
    <2> QED
        BY <1>3, <2>1 DEF Spawn, Starting
<1>4. CASE Up(l)
    BY <1>4 DEF Up
<1>5. CASE NotUp(l)
    BY <1>5 DEF NotUp
<1>6. CASE WriteState(l)
    BY <1>6 DEF WriteState
<1>7. CASE SendStop(l)
    BY <1>7 DEF SendStop, Healthy, Reachable
<1>8. CASE KillOld(l)
    BY <1>8 DEF KillOld, Alive, Starting, launchers
<1>9. CASE NotReplaced(l) \/ FoundGone(l) \/ UnlinkOld(l)
    BY <1>9 DEF NotReplaced, FoundGone, UnlinkOld
<1>10. CASE Answered(l)
    BY <1>10 DEF Answered, Authorised, Healthy, Reachable
<1>11. CASE NotAnswered(l) \/ CutShort(l)
    BY <1>11 DEF NotAnswered, CutShort, Running, Ended
<1> QED
    BY <1>1, <1>2, <1>3, <1>4, <1>5, <1>6, <1>7, <1>8, <1>9, <1>10, <1>11 DEF LauncherStep

LEMMA TypeStep == TypeInv /\ [Next]_vars => TypeInv'
<1>1. TypeInv /\ UNCHANGED vars => TypeInv'
    BY DEF TypeInv, TypeOK, SpawnsOnce, GoesByToken, vars, files, daemons, launchers
<1> QED
    BY <1>1, DaemonTypes, LauncherTypes DEF Next

\* Every variable keeps its type, the path leads to a daemon that listened, and a launcher
\* has run its command exactly if it is done (seed-script.ts:55, seed-launcher.ts:610).
THEOREM LauncherTypeCorrect == Spec => []TypeOK
<1>1. TypeInv => TypeOK
    BY DEF TypeInv
<1> QED
    BY TypeInit, TypeStep, <1>1, PTL DEF Spec

----------------------------------------------------------------------------
\* No command runs on a daemon of another launcher's token or of another protocol.  The old
\* daemon never comes back to the path, so it is enough that it was not there, dead, or of
\* another token when the launcher left its probe; and a daemon keeps the token it was
\* spawned with, so it still is the launcher's when the command has run.
OldIsPast ==
    /\ tokenOf[Old] = Old
    /\ phase[Old] \notin Starting
    /\ \A l \in Launchers :
          pc[l] \in AfterProbe => token[l] # Old \/ socket # Old \/ ~Reachable(Old)

RanOnSpawned == \A l \in Launchers : ran[l] # Nobody => phase[ran[l]] # "none"

RunInv == TypeInv /\ OldIsPast /\ RanOnSpawned /\ RanOnItsOwn

LEMMA RunInit == Init => RunInv
BY TypeInit, Numbers
   DEF Init, RunInv, OldIsPast, RanOnSpawned, RanOnItsOwn, AfterProbe, Starting

\* What the daemons do makes no daemon reachable that is 0, and changes no token.
LEMMA DaemonRuns ==
    ASSUME RunInv, NEW d \in Daemons, DaemonStep(d) \/ Crash(d)
    PROVE  OldIsPast' /\ RanOnSpawned' /\ RanOnItsOwn'
<1> USE Numbers DEF RunInv, TypeInv, TypeOK, OldIsPast, RanOnSpawned, RanOnItsOwn, Reachable,
        Starting, launchers, files
<1>1. CASE RemoveSocket(d)
    BY <1>1 DEF RemoveSocket, Unlink
<1>2. CASE ServeEvents(d)
    BY <1>2 DEF ServeEvents
<1>3. CASE PersistState(d)
    BY <1>3 DEF PersistState
<1>4. CASE Listen(d)
    BY <1>4 DEF Listen
<1>5. CASE ExitTimer(d)
    BY <1>5 DEF ExitTimer, Unlink
<1>6. CASE Crash(d)
    BY <1>6 DEF Crash
<1> QED
    BY <1>1, <1>2, <1>3, <1>4, <1>5, <1>6 DEF DaemonStep

LEMMA LauncherRuns ==
    ASSUME RunInv, NEW l \in Launchers, LauncherStep(l) \/ CutShort(l)
    PROVE  OldIsPast' /\ RanOnSpawned' /\ RanOnItsOwn'
<1> USE Numbers DEF RunInv, TypeInv, TypeOK, OldIsPast, RanOnSpawned, RanOnItsOwn, AfterProbe,
        Reachable, Starting, files, daemons, Goto
<1>1. CASE ReadState(l)
    <2>1. PICK cut \in SUBSET {d \in Daemons : phase[d] = "spawned"} :
              phase' = [d \in Daemons |-> IF d \in cut THEN "dead" ELSE phase[d]]
        BY <1>1 DEF ReadState, SourceRewritten
    <2>2. PICK t \in ReadToken(l) : token' = [token EXCEPT ![l] = t]
        BY <1>1 DEF ReadState
    <2>3. ran[l] = Nobody /\ pc' = [pc EXCEPT ![l] = "probing"]
        BY <1>1 DEF ReadState
    <2>4. \A d \in Daemons : phase'[d] = "none" <=> phase[d] = "none"
        BY <2>1
    <2>5. \A d \in Daemons : phase'[d] \in {"listening", "stopping"} => phase'[d] = phase[d]
        BY <2>1
    <2>6. UNCHANGED <<socket, ran, tokenOf>>
        BY <1>1 DEF ReadState
    <2>7. OldIsPast'
        BY <2>1, <2>2, <2>3, <2>5, <2>6
    <2>8. RanOnSpawned' /\ RanOnItsOwn'
        BY <2>2, <2>3, <2>4, <2>6
    <2> QED
        BY <2>7, <2>8
<1>2. CASE Found(l)
    BY <1>2 DEF Found, SpeaksVersion
<1>3. CASE Spawn(l)
    <2>1. phase[l] = "none"
        BY <1>3 DEF Spawn, SpawnsOnce, BeforeSpawn
    <2>2. \A k \in Launchers : ran[k] # Nobody => ran[k] # l
        BY <2>1
    <2>3. tokenOf' = [tokenOf EXCEPT ![l] = token[l]] /\ phase' = [phase EXCEPT ![l] = "spawned"]
        BY <1>3 DEF Spawn
    <2>4. RanOnSpawned' /\ RanOnItsOwn'
        BY <1>3, <2>2, <2>3 DEF Spawn
    <2>5. token[l] # Old \/ socket # Old \/ ~Reachable(Old)
        BY <1>3 DEF Spawn, Healthy
    <2> QED
        BY <1>3, <2>3, <2>4, <2>5 DEF Spawn
<1>4. CASE Up(l)
    BY <1>4 DEF Up
<1>5. CASE NotUp(l)
    BY <1>5 DEF NotUp
<1>6. CASE WriteState(l)
    BY <1>6 DEF WriteState
<1>7. CASE SendStop(l)
    BY <1>7 DEF SendStop, Healthy
<1>8. CASE KillOld(l)
    BY <1>8 DEF KillOld, launchers
<1>9. CASE NotReplaced(l) \/ FoundGone(l) \/ UnlinkOld(l)
    BY <1>9 DEF NotReplaced, FoundGone, UnlinkOld
<1>10. CASE Answered(l)
    <2>1. Reachable(socket) /\ tokenOf[socket] = token[l] /\ socket \in Daemons
        BY <1>10 DEF Answered, Authorised, Healthy
    <2>2. socket # Old
        BY <1>10, <2>1 DEF Answered
    <2> QED
        BY <1>10, <2>1, <2>2 DEF Answered
<1>11. CASE NotAnswered(l) \/ CutShort(l)
    BY <1>11 DEF NotAnswered, CutShort
<1> QED
    BY <1>1, <1>2, <1>3, <1>4, <1>5, <1>6, <1>7, <1>8, <1>9, <1>10, <1>11 DEF LauncherStep

LEMMA RunStep == RunInv /\ [Next]_vars => RunInv'
<1>1. RunInv /\ UNCHANGED vars => RunInv'
    BY DEF RunInv, TypeInv, TypeOK, SpawnsOnce, GoesByToken, OldIsPast, RanOnSpawned,
           RanOnItsOwn, Reachable, vars, files, daemons, launchers
<1> QED
    BY <1>1, TypeStep, DaemonRuns, LauncherRuns DEF Next, RunInv

\* However many launchers find, replace, spawn and kill at once, a command runs only on a
\* daemon that speaks the launcher's protocol and was given its token (seed-script.ts:55).
THEOREM RunsOnItsOwn == Spec => []RanOnItsOwn
<1>1. RunInv => RanOnItsOwn
    BY DEF RunInv
<1> QED
    BY RunInit, RunStep, <1>1, PTL DEF Spec
----------------------------------------------------------------------------
\* Launchers in turn leave one daemon.  Undisturbed, one launcher runs at a time; a daemon
\* that starts is the one it waits for and no other lives; one that has started has the path
\* and the state file; and a launcher spawns only when no daemon lives, which its probe, or
\* the end of the one it replaces, has told it.
Undisturbed == ~overlapped /\ crashes = 0

OneRuns == \A k, l \in Launchers : Running(k) /\ Running(l) => k = l

StartsAlone ==
    \A d \in Daemons : phase[d] \in Starting =>
        /\ d \in Launchers /\ pc[d] = "waiting"
        /\ \A e \in Daemons : Alive(e) => e = d
        /\ phase[d] # "spawned" => socket = Nobody
        /\ phase[d] = "persisted" => state = tokenOf[d]

OthersReachable ==
    \A d \in Daemons : phase[d] \in {"listening", "stopping"} =>
        socket = d /\ state = tokenOf[d]

KnowsTheLiving ==
    \A l \in Launchers, d \in Daemons : Alive(d) =>
        /\ pc[l] \in {"probing", "waiting", "writing"} => tokenOf[d] = token[l]
        /\ pc[l] = "waiting" => d = l
        /\ pc[l] \in {"stopping", "replacing"} => health[l] = d
        /\ pc[l] \notin {"unlinking", "replaced"}

InTurn == OneRuns /\ StartsAlone /\ OthersReachable /\ KnowsTheLiving
TurnInv == TypeInv /\ (Undisturbed => InTurn)

LEMMA TurnInit == Init => TurnInv
<1> SUFFICES ASSUME Init PROVE TurnInv
    OBVIOUS
<1> USE Numbers
<1>1. PICK p \in {"none", "listening"} : phase = [d \in Daemons |-> IF d = Old THEN p ELSE "none"]
    BY DEF Init
<1>2. \A d \in Daemons : phase[d] \in {"none", "listening"} /\ (phase[d] = "listening" => d = Old)
    BY <1>1
<1>3. phase[Old] = "listening" => socket = Old /\ state = Old /\ tokenOf[Old] = Old
    BY DEF Init
<1>4. \A l \in Launchers : pc[l] = "idle"
    BY DEF Init
<1>5. InTurn
    BY <1>2, <1>3, <1>4
       DEF InTurn, OneRuns, Running, StartsAlone, OthersReachable, KnowsTheLiving, Starting
<1> QED
    BY <1>5, TypeInit DEF TurnInv

LEMMA DaemonTurns ==
    ASSUME TurnInv, Undisturbed, InTurn, NEW d \in Daemons, DaemonStep(d)
    PROVE  InTurn'
<1> USE Numbers DEF TurnInv, TypeInv, TypeOK, InTurn, OneRuns, StartsAlone, OthersReachable,
        KnowsTheLiving, Alive, Starting, Running, Ended, launchers, files
<1>1. CASE RemoveSocket(d)
    BY <1>1 DEF RemoveSocket, Unlink
<1>2. CASE ServeEvents(d)
    BY <1>2 DEF ServeEvents
<1>3. CASE PersistState(d)
    BY <1>3 DEF PersistState
<1>4. CASE Listen(d)
    BY <1>4 DEF Listen
<1>5. CASE ExitTimer(d)
    BY <1>5 DEF ExitTimer, Unlink
<1> QED
    BY <1>1, <1>2, <1>3, <1>4, <1>5 DEF DaemonStep

\* While a launcher is not waiting, every daemon that lives has the path and answers.
LEMMA LivingAnswer ==
    ASSUME TypeInv, InTurn, NEW l \in Launchers, Running(l), pc[l] # "waiting",
           NEW d \in Daemons, Alive(d)
    PROVE  phase[d] \notin Starting /\ Reachable(socket) /\ socket = d /\ state = tokenOf[d]
<1> USE Numbers
<1>1. phase[d] \notin Starting
    <2> SUFFICES ASSUME phase[d] \in Starting PROVE FALSE
        OBVIOUS
    <2>1. d \in Launchers /\ pc[d] = "waiting"
        BY DEF InTurn, StartsAlone
    <2>2. d = l
        BY <2>1 DEF InTurn, OneRuns, Running, Ended
    <2> QED
        BY <2>1, <2>2
<1>2. phase[d] \in {"listening", "stopping"}
    BY <1>1 DEF Alive
<1> QED
    BY <1>1, <1>2 DEF InTurn, OthersReachable, Reachable

LEMMA LauncherTurns ==
    ASSUME TurnInv, Undisturbed, InTurn, NEW l \in Launchers, LauncherStep(l), Undisturbed'
    PROVE  InTurn'
<1> USE Numbers DEF TurnInv, TypeInv, TypeOK, files, daemons, Goto
<1>a. \A d \in Daemons : Running(l) /\ pc[l] # "waiting" /\ Alive(d) =>
          phase[d] \notin Starting /\ Reachable(socket) /\ socket = d /\ state = tokenOf[d]
    BY LivingAnswer
<1>1. CASE ReadState(l)
    <2>1. pc[l] = "idle" /\ pc' = [pc EXCEPT ![l] = "probing"]
        BY <1>1 DEF ReadState
    <2>2. \A k \in Launchers : ~Running(k)
        BY <1>1 DEF ReadState, Undisturbed
    <2>3. \A d \in Daemons : phase[d] \notin Starting
        BY <2>2 DEF InTurn, StartsAlone, Running, Ended
    <2>4. phase' = phase
        <3>1. PICK cut \in SUBSET {d \in Daemons : phase[d] = "spawned"} :
                  phase' = [d \in Daemons |-> IF d \in cut THEN "dead" ELSE phase[d]]
            BY <1>1 DEF ReadState, SourceRewritten
        <3> QED
            BY <2>3, <3>1 DEF Starting
    <2>5. ~BeingWritten
        BY <2>2, <2>3 DEF BeingWritten, Running, Ended, Starting
    <2>6. PICK t \in ReadToken(l) : token' = [token EXCEPT ![l] = t]
        BY <1>1 DEF ReadState
    <2>7. \A d \in Daemons : Alive(d) => t = tokenOf[d]
        <3> SUFFICES ASSUME NEW d \in Daemons, Alive(d) PROVE t = tokenOf[d]
            OBVIOUS
        <3>1. state = tokenOf[d]
            BY <2>3 DEF InTurn, OthersReachable, Alive
        <3> QED
            BY <2>5, <2>6, <3>1 DEF ReadToken
    <2>8. UNCHANGED <<socket, state, tokenOf, health>>
        BY <1>1 DEF ReadState
    <2>9. OneRuns'
        BY <2>1, <2>2 DEF OneRuns, Running, Ended
    <2>10. StartsAlone' /\ OthersReachable'
        BY <2>3, <2>4, <2>8 DEF InTurn, StartsAlone, OthersReachable
    <2>11. KnowsTheLiving'
        <3> SUFFICES ASSUME NEW k \in Launchers, NEW d \in Daemons, Alive(d)'
                     PROVE  /\ pc'[k] \in {"probing", "waiting", "writing"} => tokenOf[d] = token'[k]
                            /\ pc'[k] = "waiting" => d = k
                            /\ pc'[k] \in {"stopping", "replacing"} => health[k] = d
                            /\ pc'[k] \notin {"unlinking", "replaced"}
            BY <2>8 DEF KnowsTheLiving
        <3>1. Alive(d)
            BY <2>4 DEF Alive
        <3>2. CASE k = l
            BY <2>1, <2>6, <2>7, <3>1, <3>2
        <3>3. CASE k # l
            BY <2>1, <2>2, <3>3 DEF Running, Ended
        <3> QED
            BY <3>2, <3>3
    <2> QED
        BY <2>9, <2>10, <2>11 DEF InTurn
<1>2. CASE Found(l)
    BY <1>2, <1>a DEF Found, InTurn, OneRuns, StartsAlone, OthersReachable, KnowsTheLiving, Alive,
           Running, Ended
<1>3. CASE Spawn(l)
    <2>1. \A d \in Daemons : ~Alive(d)
        BY <1>3, <1>a DEF Spawn, Healthy, InTurn, KnowsTheLiving, Running, Ended
    <2>2. /\ phase' = [phase EXCEPT ![l] = "spawned"]
          /\ tokenOf' = [tokenOf EXCEPT ![l] = token[l]]
          /\ pc' = [pc EXCEPT ![l] = "waiting"]
          /\ Running(l)
          /\ UNCHANGED <<socket, state, token, health>>
        BY <1>3 DEF Spawn, Running, Ended
    <2>3. \A d \in Daemons : Alive(d)' => d = l
        BY <2>1, <2>2 DEF Alive
    <2>4. OneRuns'
        BY <2>2 DEF InTurn, OneRuns, Running, Ended
    <2>5. StartsAlone'
        BY <2>2, <2>3 DEF StartsAlone, Alive, Starting
    <2>6. OthersReachable'
        BY <2>2, <2>3 DEF OthersReachable, Alive
    <2>7. KnowsTheLiving'
        BY <2>2, <2>3, <2>4 DEF KnowsTheLiving, OneRuns, Running, Ended
    <2> QED
        BY <2>4, <2>5, <2>6, <2>7 DEF InTurn
<1>4. CASE Up(l)
    BY <1>4 DEF Up, Healthy, Reachable, InTurn, OneRuns, StartsAlone, OthersReachable,
           KnowsTheLiving, Alive, Running, Ended, Starting
<1>5. CASE NotUp(l)
    BY <1>5 DEF NotUp, InTurn, OneRuns, StartsAlone, OthersReachable,
           KnowsTheLiving, Alive, Running, Ended, Starting
<1>6. CASE WriteState(l)
    BY <1>6, <1>a DEF WriteState, InTurn, OneRuns, StartsAlone, OthersReachable,
           KnowsTheLiving, Alive, Running, Ended, Starting
<1>7. CASE SendStop(l)
    BY <1>7, <1>a DEF SendStop, Healthy, Reachable, InTurn, OneRuns, StartsAlone, OthersReachable,
           KnowsTheLiving, Alive, Running, Ended, Starting
<1>8. CASE KillOld(l)
    BY <1>8, <1>a DEF KillOld, launchers, InTurn, OneRuns, StartsAlone, OthersReachable,
           KnowsTheLiving, Alive, Running, Ended, Starting
<1>9. CASE NotReplaced(l)
    BY <1>9, <1>a DEF NotReplaced, InTurn, OneRuns, StartsAlone, OthersReachable,
           KnowsTheLiving, Alive, Running, Ended, Starting
<1>10. CASE FoundGone(l)
    BY <1>10, <1>a DEF FoundGone, NoAnswer, InTurn, OneRuns, StartsAlone, OthersReachable,
           KnowsTheLiving, Alive, Running, Ended, Starting
<1>11. CASE UnlinkOld(l)
    BY <1>11, <1>a DEF UnlinkOld, InTurn, OneRuns, StartsAlone, OthersReachable,
           KnowsTheLiving, Alive, Running, Ended, Starting
<1>12. CASE Answered(l) \/ NotAnswered(l)
    BY <1>12, <1>a DEF Answered, NotAnswered, InTurn, OneRuns, StartsAlone, OthersReachable,
           KnowsTheLiving, Alive, Running, Ended, Starting
<1> QED
    BY <1>1, <1>2, <1>3, <1>4, <1>5, <1>6, <1>7, <1>8, <1>9, <1>10, <1>11, <1>12
       DEF LauncherStep

LEMMA TurnStep == TurnInv /\ [Next]_vars => TurnInv'
<1> SUFFICES ASSUME TurnInv, [Next]_vars, Undisturbed' PROVE InTurn'
    BY TypeStep DEF TurnInv
<1>1. CASE UNCHANGED vars
    BY <1>1 DEF TurnInv, Undisturbed, InTurn, OneRuns, StartsAlone, OthersReachable,
           KnowsTheLiving, Alive, Running, Ended, vars, files, daemons, launchers
<1>2. CASE \E d \in Daemons : DaemonStep(d)
    <2>1. Undisturbed
        BY <1>2 DEF Undisturbed, DaemonStep, RemoveSocket, ServeEvents, PersistState, Listen,
               ExitTimer
    <2> QED
        BY <1>2, <2>1, DaemonTurns DEF TurnInv
<1>3. CASE \E d \in Daemons : Crash(d)
    BY <1>3, LauncherAssumption
       DEF Crash, Undisturbed, TurnInv, TypeInv, TypeOK, LauncherAssumption
<1>4. CASE \E l \in Launchers : LauncherStep(l)
    <2>1. PICK l \in Launchers : LauncherStep(l)
        BY <1>4
    <2>2. crashes' = crashes /\ (overlapped => overlapped')
        <3>1. CASE ReadState(l)
            BY <3>1 DEF ReadState
        <3>2. CASE ~ReadState(l)
            BY <2>1, <3>2
               DEF LauncherStep, Found, Spawn, Up, NotUp, WriteState, SendStop, KillOld, NotReplaced,
                   FoundGone, UnlinkOld, Answered, NotAnswered
        <3> QED
            BY <3>1, <3>2
    <2>3. Undisturbed
        BY <2>2 DEF Undisturbed
    <2> QED
        BY <2>1, <2>3, LauncherTurns DEF TurnInv
<1>5. CASE \E l \in Launchers : CutShort(l)
    BY <1>5 DEF CutShort, Undisturbed
<1> QED
    BY <1>1, <1>2, <1>3, <1>4, <1>5 DEF Next

\* Launchers that run one after the other, undisturbed, leave one daemon, however many they
\* are and whichever daemon the first of them found (seed-launcher.ts:610, seed-script.ts:55).
THEOREM TurnsLeaveOneDaemon == Spec => []OneDaemonInTurn
<1>1. TurnInv => OneDaemonInTurn
    BY DEF TurnInv, Undisturbed, InTurn, StartsAlone, OthersReachable, OneDaemonInTurn, Alive
<1> QED
    BY TurnInit, TurnStep, <1>1, PTL DEF Spec

----------------------------------------------------------------------------
\* A lone launcher mends what it finds.  Whatever that is, a daemon that listens has left a
\* token in the state file, and a port is taken by a daemon that has come to serve.
StateIsKnown == state = Nobody => \A d \in Daemons : phase[d] \notin {"persisted", "listening", "stopping"}

PortIsServed == \A d \in Daemons : port = d => phase[d] \notin {"none", "spawned", "unlinked"}

SettledBut(D) == \A d \in Daemons \ D : phase[d] \in {"none", "listening", "dead"}

InUse == Reachable(socket) /\ state = tokenOf[socket] /\ socket # Old

\* The strict port is held by a daemon out of reach.
PortIsLost == strict /\ port \notin {Nobody, socket, Lone} /\ Alive(port)

\* What the lone launcher knows of the path, the state file and the daemons at each stage.
LoneProbes == SettledBut({}) /\ (state # Nobody => token[Lone] = state)

LoneReplaces ==
    /\ SettledBut({Old})
    /\ health[Lone] = Old /\ socket \in {Old, Nobody}
    /\ phase[Old] = "stopping" => socket = Old
    /\ pc[Lone] = "stopping" => phase[Old] = "listening" /\ socket = Old /\ tokenOf[Old] = token[Lone]
    /\ pc[Lone] = "replacing" => phase[Old] \in {"stopping", "dead"}
    /\ pc[Lone] \in {"unlinking", "replaced"} => phase[Old] = "dead"
    /\ pc[Lone] = "replaced" => socket = Nobody

LoneWaits ==
    /\ SettledBut({Lone})
    /\ tokenOf[Lone] = token[Lone]
    /\ phase[Lone] = "spawned" => ~Healthy(Lone)
    /\ phase[Lone] \in {"unlinked", "served", "persisted", "dead"} => socket = Nobody
    /\ phase[Lone] = "persisted" => state = token[Lone]
    /\ phase[Lone] = "listening" => socket = Lone /\ state = token[Lone]
    /\ phase[Lone] = "dead" => PortIsLost
    /\ phase[Lone] \in Starting \cup {"listening", "dead"}

LoneRequests == SettledBut({}) /\ InUse /\ tokenOf[socket] = token[Lone]

LoneStages ==
    /\ \A k \in Launchers \ {Lone} : Ended(k)
    /\ pc[Lone] = "probing" => LoneProbes
    /\ pc[Lone] \in {"stopping", "replacing", "unlinking", "replaced"} => LoneReplaces
    /\ pc[Lone] = "waiting" => LoneWaits
    /\ pc[Lone] \in {"writing", "requesting"} => LoneRequests
    /\ pc[Lone] = "done" => SettledBut({}) /\ InUse
    /\ pc[Lone] = "failed" => SettledBut({}) /\ PortIsLost

LoneInv == TypeInv /\ StateIsKnown /\ PortIsServed /\ (pc[Lone] # "idle" => LoneStages)

LEMMA LoneInit == Init => LoneInv
<1> SUFFICES ASSUME Init PROVE LoneInv
    OBVIOUS
<1> USE Numbers
<1>1. PICK p \in {"none", "listening"} : phase = [d \in Daemons |-> IF d = Old THEN p ELSE "none"]
    BY DEF Init
<1>2. \A d \in Daemons : phase[d] = "none" \/ (phase[d] = "listening" /\ d = Old)
    BY <1>1
<1>3. phase[Old] = "none" => port = Nobody
    BY DEF Init
<1>4. phase[Old] # "none" => state = Old /\ port = Old
    BY DEF Init
<1>5. StateIsKnown
    BY <1>2, <1>4 DEF StateIsKnown
<1>6. PortIsServed
    BY <1>2, <1>3, <1>4 DEF PortIsServed
<1> QED
    BY <1>5, <1>6, TypeInit DEF LoneInv, Init

\* A token is never taken out of the state file, nor is a port served before it is taken.
LEMMA DaemonFacts ==
    ASSUME TypeInv, StateIsKnown, PortIsServed, NEW d \in Daemons, DaemonStep(d) \/ Crash(d)
    PROVE  StateIsKnown' /\ PortIsServed'
<1> USE Numbers DEF TypeInv, TypeOK, StateIsKnown, PortIsServed, Starting, files
<1>1. CASE RemoveSocket(d)
    BY <1>1 DEF RemoveSocket
<1>2. CASE ServeEvents(d)
    BY <1>2 DEF ServeEvents
<1>3. CASE PersistState(d)
    BY <1>3 DEF PersistState
<1>4. CASE Listen(d)
    BY <1>4 DEF Listen
<1>5. CASE ExitTimer(d)
    BY <1>5 DEF ExitTimer
<1>6. CASE Crash(d)
    BY <1>6 DEF Crash, Alive
<1> QED
    BY <1>1, <1>2, <1>3, <1>4, <1>5, <1>6 DEF DaemonStep

LEMMA LauncherFacts ==
    ASSUME TypeInv, StateIsKnown, PortIsServed, NEW l \in Launchers, LauncherStep(l) \/ CutShort(l)
    PROVE  StateIsKnown' /\ PortIsServed'
<1> USE Numbers DEF TypeInv, TypeOK, SpawnsOnce, BeforeSpawn, GoesByToken, StateIsKnown,
        PortIsServed, Starting, files, daemons
<1>1. CASE ReadState(l)
    <2>1. PICK cut \in SUBSET {d \in Daemons : phase[d] = "spawned"} :
              phase' = [d \in Daemons |-> IF d \in cut THEN "dead" ELSE phase[d]]
        BY <1>1 DEF ReadState, SourceRewritten
    <2>2. \A d \in Daemons : phase'[d] = phase[d] \/ (phase'[d] = "dead" /\ phase[d] = "spawned")
        BY <2>1
    <2> QED
        BY <1>1, <2>2 DEF ReadState
<1>2. CASE Spawn(l)
    BY <1>2 DEF Spawn
<1>3. CASE WriteState(l)
    BY <1>3 DEF WriteState
<1>4. CASE SendStop(l)
    BY <1>4 DEF SendStop
<1>5. CASE KillOld(l)
    BY <1>5 DEF KillOld, Alive
<1>6. CASE Found(l) \/ Up(l) \/ NotUp(l) \/ NotReplaced(l) \/ FoundGone(l) \/ UnlinkOld(l)
    BY <1>6 DEF Found, Up, NotUp, NotReplaced, FoundGone, UnlinkOld
<1>7. CASE Answered(l) \/ NotAnswered(l) \/ CutShort(l)
    BY <1>7 DEF Answered, NotAnswered, CutShort
<1> QED
    BY <1>1, <1>2, <1>3, <1>4, <1>5, <1>6, <1>7 DEF LauncherStep

----------------------------------------------------------------------------
\* While a launcher runs alone, only the daemon it spawned starts and only the old one stops.
LEMMA LoneDaemons ==
    ASSUME LoneInv, pc[Lone] # "idle", LoneStages, NEW d \in Daemons, DaemonStep(d)
    PROVE  LoneStages'
<1> USE Numbers DEF LoneInv, TypeInv, TypeOK, LoneStages, LoneProbes, LoneReplaces, LoneWaits,
        LoneRequests, SettledBut, InUse, PortIsLost, Reachable, Healthy, Alive, Starting, Ended,
        launchers, files
<1>1. CASE RemoveSocket(d)
    BY <1>1 DEF RemoveSocket, Unlink
<1>2. CASE ServeEvents(d)
    BY <1>2 DEF ServeEvents, PortFree, PortIsServed
<1>3. CASE PersistState(d)
    BY <1>3 DEF PersistState
<1>4. CASE Listen(d)
    BY <1>4 DEF Listen
<1>5. CASE ExitTimer(d)
    BY <1>5 DEF ExitTimer, Unlink
<1> QED
    BY <1>1, <1>2, <1>3, <1>4, <1>5 DEF DaemonStep

LEMMA LoneLaunches ==
    ASSUME LoneInv, pc[Lone] # "idle" => LoneStages, LauncherStep(Lone)
    PROVE  LoneStages'
<1> USE Numbers DEF LoneInv, TypeInv, TypeOK, LoneStages, Goto, files, daemons
<1>1. CASE ReadState(Lone)
    <2>1. pc[Lone] = "idle" /\ pc' = [pc EXCEPT ![Lone] = "probing"]
        BY <1>1 DEF ReadState
    <2>2. Settled /\ \A k \in Launchers \ {Lone} : Ended(k)
        BY <1>1 DEF ReadState
    <2>3. phase' = phase
        <3>1. PICK cut \in SUBSET {d \in Daemons : phase[d] = "spawned"} :
                  phase' = [d \in Daemons |-> IF d \in cut THEN "dead" ELSE phase[d]]
            BY <1>1 DEF ReadState, SourceRewritten
        <3> QED
            BY <2>2, <3>1 DEF Settled
    <2>4. ~BeingWritten
        BY <2>1, <2>2 DEF BeingWritten, Settled, Ended
    <2>5. PICK t \in ReadToken(Lone) : token' = [token EXCEPT ![Lone] = t]
        BY <1>1 DEF ReadState
    <2>6. state # Nobody => t = state
        BY <2>4, <2>5 DEF ReadToken
    <2>7. UNCHANGED state
        BY <1>1 DEF ReadState
    <2>8. LoneProbes'
        BY <2>2, <2>3, <2>5, <2>6, <2>7 DEF LoneProbes, SettledBut, Settled
    <2>9. \A k \in Launchers \ {Lone} : Ended(k)'
        BY <2>1, <2>2 DEF Ended
    <2>10. pc'[Lone] = "probing"
        BY <2>1
    <2> QED
        BY <2>8, <2>9, <2>10
<1>2. CASE Found(Lone)
    BY <1>2 DEF Found, Healthy, Reachable, SpeaksVersion, LoneProbes, LoneReplaces, LoneRequests,
           SettledBut, InUse, StateIsKnown, Ended
<1>3. CASE Spawn(Lone)
    BY <1>3 DEF Spawn, SpawnsOnce, BeforeSpawn, Healthy, Reachable, LoneProbes, LoneReplaces,
           LoneWaits, SettledBut, Starting, Ended
<1>4. CASE Up(Lone)
    BY <1>4 DEF Up, Healthy, Reachable, LoneWaits, LoneRequests, SettledBut, InUse, Starting, Ended
<1>5. CASE NotUp(Lone)
    BY <1>5 DEF NotUp, Healthy, Reachable, LoneWaits, SettledBut, PortIsLost, Starting, Alive, Ended
<1>6. CASE WriteState(Lone)
    BY <1>6 DEF WriteState, LoneRequests, SettledBut, InUse, Reachable, Ended
<1>7. CASE SendStop(Lone)
    BY <1>7 DEF SendStop, Healthy, Reachable, LoneReplaces, SettledBut, Ended
<1>8. CASE KillOld(Lone)
    BY <1>8 DEF KillOld, launchers, LoneReplaces, SettledBut, Ended
<1>9. CASE NotReplaced(Lone)
    BY <1>9 DEF NotReplaced, Reachable, Alive, LoneReplaces
<1>10. CASE FoundGone(Lone)
    BY <1>10 DEF FoundGone, NoAnswer, Reachable, LoneReplaces, SettledBut, Ended
<1>11. CASE UnlinkOld(Lone)
    BY <1>11 DEF UnlinkOld, LoneReplaces, SettledBut, Ended
<1>12. CASE Answered(Lone)
    BY <1>12 DEF Answered, LoneRequests, SettledBut, InUse, Reachable, Ended
<1>13. CASE NotAnswered(Lone)
    BY <1>13 DEF NotAnswered, Authorised, Healthy, Reachable, LoneRequests, SettledBut, InUse
<1> QED
    BY <1>1, <1>2, <1>3, <1>4, <1>5, <1>6, <1>7, <1>8, <1>9, <1>10, <1>11, <1>12, <1>13
       DEF LauncherStep

\* Those that have ended stay so, and those that run beforehand leave the lone one idle.
LEMMA OthersRest ==
    ASSUME TypeInv, NEW l \in Launchers \ {Lone}, LauncherStep(l) \/ CutShort(l)
    PROVE  ~Ended(l) /\ pc'[Lone] = pc[Lone]
<1>1. CASE KillOld(l)
    BY <1>1 DEF KillOld, Ended, launchers
<1>2. CASE ReadState(l)
    BY <1>2, Numbers DEF ReadState, Ended, Goto, TypeInv, TypeOK
<1>3. CASE ~KillOld(l) /\ ~ReadState(l)
    BY <1>3, Numbers
       DEF LauncherStep, CutShort, Found, Spawn, Up, NotUp, WriteState, SendStop, NotReplaced,
           FoundGone, UnlinkOld, Answered, NotAnswered, Goto, Running, Ended, TypeInv, TypeOK
<1> QED
    BY <1>1, <1>2, <1>3

LEMMA LoneStep == LoneInv /\ [Next]_vars => LoneInv'
<1> SUFFICES ASSUME LoneInv, [Next]_vars PROVE LoneInv'
    OBVIOUS
<1>1. CASE UNCHANGED vars
    <2>1. TypeInv'
        BY TypeStep DEF LoneInv
    <2>2. StateIsKnown' /\ PortIsServed'
        BY <1>1 DEF LoneInv, StateIsKnown, PortIsServed, vars, files, daemons
    <2>3. (pc[Lone] # "idle" => LoneStages)'
        BY <1>1 DEF LoneInv, LoneStages, LoneProbes, LoneReplaces, LoneWaits, LoneRequests, InUse,
               SettledBut, PortIsLost, Reachable, Healthy, Alive, Ended, vars, files, daemons, launchers
    <2> QED
        BY <2>1, <2>2, <2>3 DEF LoneInv
<1>2. ASSUME NEW d \in Daemons, DaemonStep(d) \/ Crash(d) PROVE LoneInv'
    <2>1. TypeInv' /\ StateIsKnown' /\ PortIsServed'
        BY <1>2, TypeStep, DaemonFacts DEF LoneInv
    <2>2. pc' = pc
        BY <1>2 DEF DaemonStep, RemoveSocket, ServeEvents, PersistState, Listen, ExitTimer, Crash,
               launchers
    <2>3. pc[Lone] # "idle" => DaemonStep(d)
        BY <1>2 DEF Crash
    <2> QED
        BY <2>1, <2>2, <2>3, LoneDaemons DEF LoneInv
<1>3. ASSUME NEW l \in Launchers, LauncherStep(l) \/ CutShort(l) PROVE LoneInv'
    <2>1. TypeInv' /\ StateIsKnown' /\ PortIsServed'
        BY <1>3, TypeStep, LauncherFacts DEF LoneInv
    <2>2. CASE l = Lone
        BY <1>3, <2>1, <2>2, LoneLaunches DEF LoneInv, CutShort
    <2>3. CASE l # Lone
        BY <1>3, <2>1, <2>3, OthersRest DEF LoneInv, LoneStages
    <2> QED
        BY <2>2, <2>3
<1> QED
    BY <1>1, <1>2, <1>3 DEF Next

\* The races of any number of launchers, killed daemons, stale sockets and state files and a
\* daemon of another protocol never keep a launcher that runs alone from its command, but
\* for a strict port that a daemon out of reach holds, and the state file then names the
\* daemon on the path (daemond/README.md:14, 35).
THEOREM LoneLauncherRepairs == Spec => []LoneRepairs
<1>1. LoneInv => LoneRepairs
    BY DEF LoneInv, LoneStages, InUse, PortIsLost, LoneRepairs, LoneSucceeds, TokenIsStable
<1> QED
    BY LoneInit, LoneStep, <1>1, PTL DEF Spec
=============================================================================
