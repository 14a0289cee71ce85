-------------------------- MODULE GmnOperationsProofs --------------------------
(***************************************************************************)
(* Theorems about prepared images, for any number of callers, retries and  *)
(* resets of the caches.                                                   *)
(***************************************************************************)
EXTENDS GmnOperations, TLAPS

\* What the caches name was answered, or is under way, for its own key, and a caller that has
\* not begun has started no run.
CachesAreKeyed ==
    /\ \A k \in Lives :
          /\ prepared[k] # None => run[prepared[k]] = "ended" /\ life[prepared[k]] = k
          /\ preparing[k] # None => UnderWay(preparing[k]) /\ life[preparing[k]] = k
    /\ \A c \in Callers : pc[c] = "idle" => run[c] = "none"

TypeInv == TypeOK /\ CachesAreKeyed

TimeTypes ==
    /\ deadline \in [Callers -> Nat] /\ timer \in [Callers -> Nat]
    /\ left \in [Callers -> [Attempts -> Nat]] /\ late \subseteq Callers \X Attempts

LEMMA TypeInit == Init => TypeInv
BY OperationsAssumption
   DEF OperationsAssumption, Init, TypeInv, TypeOK, CachesAreKeyed, Lives, Stages, Attempts, UnderWay

\* A request is given no less than its command, and the headroom on top.
LEMMA OutlivesItsCommand ==
    ASSUME NEW c \in Callers, deadline[c] \in Nat
    PROVE  /\ RequestTimeout(c) \in Nat /\ RequestTimeout(c) >= deadline[c] + Headroom
           /\ Headroom \in Nat /\ Headroom > 0
BY OperationsAssumption DEF OperationsAssumption, RequestTimeout

LEMMA Ids == None \notin Callers /\ \A c \in Callers : c # None
BY OperationsAssumption DEF OperationsAssumption

LEMMA CallTypes ==
    ASSUME TypeOK
    PROVE  /\ pc \in [Callers -> Stages]
           /\ cmd \in [Callers -> [Attempts -> {"unsent", "running", "ended"}]]
           /\ tries \in [Callers -> 0..(ExecRetries + 1)]
BY DEF TypeOK

\* The last attempt is given up.
LEMMA LastTry ==
    ASSUME TypeOK, NEW c \in Callers, Undelivered(c)
    PROVE  /\ tries[c] > ExecRetries => GiveUp(c)
           /\ ~(tries[c] > ExecRetries) =>
                 /\ NextTry(c) /\ StartTimer(c) /\ tries[c] + 1 \in 1..(ExecRetries + 1)
                 /\ UNCHANGED <<caches, service, callers, cmd, deadline, left, late, resets, undisturbed>>
<1>1. tries[c] \in Nat /\ ExecRetries \in Nat
    BY CallTypes, OperationsAssumption DEF OperationsAssumption
<1> QED
    BY <1>1 DEF Undelivered

\* A caller that takes its next step leaves the runs and the caches alone.
LEMMA GotoTypes ==
    ASSUME TypeInv, NEW c \in Callers, NEW stage \in Stages \ {"idle"}, Goto(c, stage),
           tries' \in [Callers -> 0..(ExecRetries + 1)], UNCHANGED cmd, TimeTypes'
    PROVE  TypeInv'
<1>1. /\ UNCHANGED <<prepared, preparing, run, age, deleted, wants, life, resets, undisturbed, cmd>>
      /\ pc' = [pc EXCEPT ![c] = stage] /\ got' = [got EXCEPT ![c] = None]
      /\ margin' = margin \ {c}
    BY DEF Goto, caches, service
<1>2. TypeOK'
    BY <1>1 DEF TypeInv, TypeOK, TimeTypes
<1>3. \A a \in Callers : pc'[a] = "idle" => pc[a] = "idle"
    BY <1>1 DEF TypeInv, TypeOK
<1>4. CachesAreKeyed'
    BY <1>1, <1>3 DEF TypeInv, CachesAreKeyed, UnderWay
<1> QED
    BY <1>2, <1>4 DEF TypeInv

LEMMA HandTypes ==
    ASSUME TypeInv, NEW i \in Callers, NEW to \in SUBSET Callers, Hand(i, to)
    PROVE  /\ pc' \in [Callers -> Stages] /\ got' \in [Callers -> Callers \cup {None}]
           /\ margin' \subseteq Callers
           /\ \A c \in Callers : pc'[c] = "idle" => pc[c] = "idle"
<1> USE DEF Hand, TypeInv, TypeOK
<1>1. pc' \in [Callers -> Stages]
    BY DEF Stages
<1>2. got' \in [Callers -> Callers \cup {None}]
    OBVIOUS
<1>3. margin' \subseteq Callers
    OBVIOUS
<1>4. \A c \in Callers : pc'[c] = "idle" => pc[c] = "idle"
    OBVIOUS
<1> QED
    BY <1>1, <1>2, <1>3, <1>4

\* The end of a run takes off an entry of its own key, so whatever else is noted is under way.
LEMMA EndOfRunTypes ==
    ASSUME TypeInv, NEW c \in Callers, UnderWay(c), TakeOff(c),
           NEW how \in {"ended", "failed"}, run' = [run EXCEPT ![c] = how],
           UNCHANGED life
    PROVE  /\ preparing' \in [Lives -> Callers \cup {None}]
           /\ run' \in [Callers -> {"none", "baking", "made", "ended", "failed"}]
           /\ \A k \in Lives : preparing'[k] # None =>
                 life[preparing'[k]] = k /\ run'[preparing'[k]] \in {"baking", "made"}
           /\ \A k \in Lives : prepared[k] # None => prepared[k] # c
           /\ \A a \in Callers : run'[a] = "none" <=> run[a] = "none"
BY Ids DEF TypeInv, TypeOK, CachesAreKeyed, TakeOff, Key, UnderWay

LEMMA CallerTypes ==
    ASSUME TypeInv, NEW c \in Callers, CallerStep(c)
    PROVE  TypeInv'
<1> USE Ids DEF TypeInv, TypeOK, CachesAreKeyed, caches, service, callers, command, time
<1>1. CASE Reuse(c)
    <2>1. prepared[Key(c)] \in Callers /\ {c} \in SUBSET Callers /\ Hand(prepared[Key(c)], {c})
        BY <1>1 DEF Reuse, Key
    <2> QED
        BY <1>1, <2>1, HandTypes DEF Reuse, UnderWay
<1>2. CASE Join(c)
    <2>1. /\ prepared' = [prepared EXCEPT ![Key(c)] = None] /\ Key(c) \in Lives
          /\ pc' = [pc EXCEPT ![c] = "awaiting"]
          /\ got' = [got EXCEPT ![c] = preparing[Key(c)]] /\ preparing[Key(c)] \in Callers
        BY <1>2 DEF Join, Key
    <2>2. /\ prepared' \in [Lives -> Callers \cup {None}]
          /\ got' \in [Callers -> Callers \cup {None}]
          /\ \A k \in Lives : prepared'[k] # None => prepared'[k] = prepared[k]
        BY <2>1
    <2>3. pc' \in [Callers -> Stages]
        BY <2>1 DEF Stages
    <2>4. \A a \in Callers : pc'[a] = "idle" => pc[a] = "idle"
        BY <2>1
    <2> QED
        BY <1>2, <2>2, <2>3, <2>4 DEF Join, UnderWay
<1>3. CASE Prepare(c)
    <2>1. /\ prepared' = [prepared EXCEPT ![Key(c)] = None] /\ Key(c) \in Lives
          /\ preparing' = [preparing EXCEPT ![Key(c)] = c]
          /\ pc' = [pc EXCEPT ![c] = "awaiting"] /\ got' = [got EXCEPT ![c] = c]
          /\ run' = [run EXCEPT ![c] = "baking"] /\ run[c] = "none"
        BY <1>3 DEF Prepare, Note, Key
    <2>2. /\ prepared' \in [Lives -> Callers \cup {None}]
          /\ got' \in [Callers -> Callers \cup {None}]
          /\ preparing' \in [Lives -> Callers \cup {None}]
          /\ run' \in [Callers -> {"none", "baking", "made", "ended", "failed"}]
        BY <2>1
    <2>3. pc' \in [Callers -> Stages]
        BY <2>1 DEF Stages
    <2>4. \A k \in Lives : prepared'[k] # None =>
              run'[prepared'[k]] = "ended" /\ life[prepared'[k]] = k
        BY <2>1
    <2>5. \A k \in Lives : preparing'[k] # None =>
              run'[preparing'[k]] \in {"baking", "made"} /\ life[preparing'[k]] = k
        BY <2>1 DEF Key, UnderWay
    <2>6. \A a \in Callers : pc'[a] = "idle" => run'[a] = "none"
        BY <2>1
    <2> QED
        BY <1>3, <2>2, <2>3, <2>4, <2>5, <2>6 DEF Prepare, UnderWay
<1>4. ASSUME NEW stage \in Stages \ {"idle"}, Goto(c, stage), UNCHANGED command, TimeTypes'
      PROVE  TypeInv'
    BY <1>4, GotoTypes
<1>5. CASE Fork(c)
    <2>1. 1 \in 0..(ExecRetries + 1)
        BY OperationsAssumption DEF OperationsAssumption
    <2>2. CASE c \in Runners
        <3>1. /\ Goto(c, "executing") /\ StartTimer(c) /\ UNCHANGED <<cmd, left, late>>
              /\ tries' = [tries EXCEPT ![c] = 1]
            BY <1>5, <2>2 DEF Fork
        <3>2. PICK d \in Deadlines : deadline' = [deadline EXCEPT ![c] = d]
            BY <1>5, <2>2 DEF Fork
        <3>3. deadline' \in [Callers -> Nat]
            BY <3>2, OperationsAssumption DEF OperationsAssumption
        <3>4. RequestTimeout(c)' \in Nat
            BY <3>3, OperationsAssumption DEF OperationsAssumption, RequestTimeout
        <3>5. TimeTypes' /\ tries' \in [Callers -> 0..(ExecRetries + 1)]
            BY <2>1, <3>1, <3>3, <3>4 DEF StartTimer, TimeTypes
        <3> QED
            BY <3>1, <3>5, GotoTypes DEF Stages
    <2>3. CASE c \notin Runners
        <3>1. Goto(c, "forked") /\ UNCHANGED <<tries, cmd, time>>
            BY <1>5, <2>3 DEF Fork
        <3> QED
            BY <1>4, <3>1 DEF Stages, TimeTypes
    <2> QED
        BY <2>2, <2>3
<1>6. CASE Template(c) \/ NoSuchSnapshot(c) \/ ForkFails(c)
    <2>1. /\ Goto(c, "template") \/ Goto(c, "gone") \/ Goto(c, "failed")
          /\ UNCHANGED <<command, time>>
        BY <1>6 DEF Template, NoSuchSnapshot, ForkFails
    <2> QED
        BY <1>4, <2>1 DEF Stages, TimeTypes
<1>7. ASSUME NEW stage \in {"exited", "failed", "timed out"}, EndCall(c, stage) PROVE TypeInv'
    <2>1. TimeTypes'
        BY <1>7 DEF EndCall, TimeTypes
    <2> QED
        BY <1>4, <1>7, <2>1 DEF EndCall, Stages
<1>8. CASE Exited(c) \/ ExecFails(c) \/ TimesOut(c)
    BY <1>7, <1>8 DEF Exited, ExecFails, GiveUp, TimesOut
<1>9. CASE Undelivered(c)
    <2>1. CASE ~(tries[c] > ExecRetries)
        <3>1. tries[c] + 1 \in 0..(ExecRetries + 1)
            BY <1>9, <2>1, LastTry
        <3>2. /\ tries' = [tries EXCEPT ![c] = tries[c] + 1] /\ StartTimer(c) /\ UNCHANGED deadline
              /\ UNCHANGED <<caches, service, callers, cmd, left, late, resets, undisturbed>>
            BY <1>9, <2>1, LastTry DEF NextTry
        <3>3. tries' \in [Callers -> 0..(ExecRetries + 1)]
            BY <3>1, <3>2
        <3>4. RequestTimeout(c)' \in Nat
            BY <3>2, OperationsAssumption DEF OperationsAssumption, RequestTimeout
        <3>5. timer' \in [Callers -> Nat]
            BY <3>2, <3>4 DEF StartTimer
        <3> QED
            BY <3>2, <3>3, <3>5 DEF UnderWay
    <2>2. CASE tries[c] > ExecRetries
        BY <1>7, <1>9, <2>2, LastTry DEF GiveUp
    <2> QED
        BY <2>1, <2>2
<1> QED
    BY <1>1, <1>2, <1>3, <1>5, <1>6, <1>8, <1>9 DEF CallerStep, Begin, ForkEnds, Answer

LEMMA ServiceTypes ==
    ASSUME TypeInv, NEW c \in Callers,
           Bake(c) \/ Prepared(c) \/ NotPrepared(c) \/ Tick(c) \/ Age(c) \/ Delete(c)
                \/ \E n \in Attempts : SandboxStep(c, n)
    PROVE  TypeInv'
<1> USE Ids DEF TypeInv, TypeOK, CachesAreKeyed, caches, service, callers, command, time
<1>1. CASE Bake(c)
    BY <1>1 DEF Bake, UnderWay
<1>2. CASE Prepared(c)
    <2>1. UnderWay(c) /\ Awaiting(c) \in SUBSET Callers /\ Hand(c, Awaiting(c))
        BY <1>2 DEF Prepared, UnderWay, Awaiting
    <2>2. TakeOff(c) /\ run' = [run EXCEPT ![c] = "ended"] /\ UNCHANGED life
        BY <1>2 DEF Prepared
    <2>3. prepared' = [prepared EXCEPT ![life[c]] = c]
        BY <1>2 DEF Prepared, Key
    <2>4. /\ preparing' \in [Lives -> Callers \cup {None}]
          /\ run' \in [Callers -> {"none", "baking", "made", "ended", "failed"}]
          /\ \A k \in Lives : preparing'[k] # None =>
                life[preparing'[k]] = k /\ run'[preparing'[k]] \in {"baking", "made"}
          /\ \A a \in Callers : run'[a] = "none" <=> run[a] = "none"
        BY <2>1, <2>2, EndOfRunTypes
    <2>5. /\ prepared' \in [Lives -> Callers \cup {None}]
          /\ \A k \in Lives : prepared'[k] # None =>
                life[prepared'[k]] = k /\ run'[prepared'[k]] = "ended"
        BY <2>2, <2>3
    <2>6. /\ pc' \in [Callers -> Stages] /\ got' \in [Callers -> Callers \cup {None}]
          /\ margin' \subseteq Callers
          /\ \A a \in Callers : pc'[a] = "idle" => pc[a] = "idle"
        BY <2>1, HandTypes
    <2> QED
        BY <1>2, <2>4, <2>5, <2>6 DEF Prepared, UnderWay
<1>3. CASE NotPrepared(c)
    <2>1. /\ UnderWay(c) /\ TakeOff(c) /\ run' = [run EXCEPT ![c] = "failed"]
          /\ UNCHANGED <<life, prepared>>
        BY <1>3 DEF NotPrepared
    <2>2. /\ preparing' \in [Lives -> Callers \cup {None}]
          /\ run' \in [Callers -> {"none", "baking", "made", "ended", "failed"}]
          /\ \A k \in Lives : preparing'[k] # None =>
                life[preparing'[k]] = k /\ run'[preparing'[k]] \in {"baking", "made"}
          /\ \A k \in Lives : prepared[k] # None => prepared[k] # c
          /\ \A a \in Callers : run'[a] = "none" <=> run[a] = "none"
        BY <2>1, EndOfRunTypes
    <2>3. \A k \in Lives : prepared'[k] # None =>
                life[prepared'[k]] = k /\ run'[prepared'[k]] = "ended"
        BY <2>1, <2>2
    <2>4. /\ pc' \in [Callers -> Stages] /\ got' \in [Callers -> Callers \cup {None}]
          /\ age' \in [Callers -> {"none", "young", "late", "expired"}]
          /\ \A a \in Callers : pc'[a] = "idle" => pc[a] = "idle"
        BY <1>3 DEF NotPrepared, Stages
    <2> QED
        BY <1>3, <2>1, <2>2, <2>3, <2>4 DEF NotPrepared, UnderWay
<1>4. CASE Tick(c)
    <2>1. timer' \in [Callers -> Nat]
        BY <1>4 DEF Tick
    <2>2. \A n \in Attempts :
              (IF n \in Running(c) THEN left[c][n] - 1 ELSE left[c][n]) \in Nat
        BY <1>4 DEF Tick
    <2>3. left' \in [Callers -> [Attempts -> Nat]]
        BY <1>4, <2>2 DEF Tick
    <2> QED
        BY <1>4, <2>1, <2>3 DEF Tick, UnderWay
<1>5. CASE Age(c)
    <2>1. age' \in [Callers -> {"none", "young", "late", "expired"}]
        BY <1>5 DEF Age
    <2> QED
        BY <1>5, <2>1 DEF Age, UnderWay
<1>6. CASE Delete(c)
    BY <1>6 DEF Delete, UnderWay
<1>7. ASSUME NEW n \in Attempts, SandboxStep(c, n) PROVE TypeInv'
    <2>1. PICK phase \in {"running", "ended"} : cmd' = [cmd EXCEPT ![c][n] = phase]
        BY <1>7 DEF SandboxStep, Deliver, Finish
    <2>2. PICK rest \in Nat : left' = [left EXCEPT ![c][n] = rest]
        BY <1>7 DEF SandboxStep, Deliver, Finish
    <2>3. late' \subseteq Callers \X Attempts
        BY <1>7 DEF SandboxStep, Deliver, Finish
    <2>4. /\ cmd' \in [Callers -> [Attempts -> {"unsent", "running", "ended"}]]
          /\ left' \in [Callers -> [Attempts -> Nat]]
        BY <2>1, <2>2
    <2> QED
        BY <1>7, <2>3, <2>4 DEF SandboxStep, Deliver, Finish, UnderWay
<1> QED
    BY <1>1, <1>2, <1>3, <1>4, <1>5, <1>6, <1>7

LEMMA TypeStep == TypeInv /\ [Next]_vars => TypeInv'
<1> USE Ids DEF TypeInv, TypeOK, CachesAreKeyed, caches, service, callers, command, time
<1>1. TypeInv /\ Reset => TypeInv'
    BY OperationsAssumption DEF OperationsAssumption, Reset, UnderWay
<1>2. TypeInv /\ UNCHANGED vars => TypeInv'
    BY DEF vars, UnderWay
<1> QED
    BY <1>1, <1>2, CallerTypes, ServiceTypes DEF Next

\* Every variable keeps its type (operations.ts:348-473, 783-842).
THEOREM OperationsTypeCorrect == Spec => []TypeOK
<1>1. TypeInv => TypeOK
    BY DEF TypeInv
<1> QED
    BY TypeInit, TypeStep, <1>1, PTL DEF Spec

----------------------------------------------------------------------------
\* One preparation at a time.

\* Until the caches are reset, a run that is under way is noted under its key.
RunsAreNoted == undisturbed => \A c \in Callers : UnderWay(c) => preparing[life[c]] = c

NotedInv == TypeInv /\ RunsAreNoted

LEMMA NotedInit == Init => NotedInv
BY TypeInit DEF Init, NotedInv, RunsAreNoted, UnderWay

LEMMA NotedStep == NotedInv /\ [Next]_vars => NotedInv'
<1> SUFFICES ASSUME NotedInv, [Next]_vars PROVE RunsAreNoted'
    BY TypeStep DEF NotedInv
<1> USE Ids DEF NotedInv, RunsAreNoted
<1>0. TypeOK /\ CachesAreKeyed
    BY DEF TypeInv
<1>1. ASSUME NEW c \in Callers, Prepare(c) PROVE RunsAreNoted'
    <2>1. /\ preparing' = [preparing EXCEPT ![life[c]] = c] /\ preparing[life[c]] = None
          /\ run' = [run EXCEPT ![c] = "baking"] /\ UNCHANGED <<life, undisturbed>>
          /\ life[c] \in Lives
        BY <1>0, <1>1 DEF TypeOK, Prepare, Note, Key
    <2> QED
        BY <1>0, <2>1 DEF TypeOK, UnderWay
<1>2. ASSUME NEW c \in Callers, Prepared(c) \/ NotPrepared(c) PROVE RunsAreNoted'
    <2>1. /\ preparing' = [preparing EXCEPT ![life[c]] = None] /\ UnderWay(c)
          /\ run' = [run EXCEPT ![c] = "ended"] \/ run' = [run EXCEPT ![c] = "failed"]
          /\ UNCHANGED <<life, undisturbed>> /\ life[c] \in Lives
        BY <1>0, <1>2 DEF TypeOK, Prepared, NotPrepared, TakeOff, Key, UnderWay
    <2> QED
        BY <1>0, <2>1 DEF TypeOK, UnderWay
<1>3. ASSUME NEW c \in Callers, Bake(c) PROVE RunsAreNoted'
    <2>1. /\ run[c] = "baking" /\ run' = [run EXCEPT ![c] = "made"]
          /\ UNCHANGED <<preparing, life, undisturbed>>
        BY <1>3 DEF Bake, caches, callers
    <2> QED
        BY <1>0, <2>1 DEF TypeOK, UnderWay
<1>4. CASE Reset
    BY <1>4 DEF Reset, UnderWay, service, callers
<1>5. CASE UNCHANGED <<preparing, run, life, undisturbed>>
    BY <1>5 DEF UnderWay
<1>6. ASSUME NEW c \in Callers, CallerStep(c), ~Prepare(c)
      PROVE  UNCHANGED <<preparing, run, life, undisturbed>>
    BY <1>6 DEF CallerStep, Begin, Reuse, Join, Template, ForkEnds, Fork, NoSuchSnapshot, ForkFails,
                Answer, Exited, Undelivered, ExecFails, TimesOut, GiveUp, EndCall, Goto, caches,
                service, callers
<1>7. ASSUME NEW c \in Callers,
             Tick(c) \/ Age(c) \/ Delete(c) \/ \E n \in Attempts : SandboxStep(c, n)
      PROVE  UNCHANGED <<preparing, run, life, undisturbed>>
    BY <1>7 DEF Tick, Age, Delete, SandboxStep, Deliver, Finish, caches, service, callers
<1>8. UNCHANGED vars => UNCHANGED <<preparing, run, life, undisturbed>>
    BY DEF vars, caches, service, callers
<1> QED
    BY <1>1, <1>2, <1>3, <1>4, <1>5, <1>6, <1>7, <1>8 DEF Next

\* However many callers start together, an image is prepared once for each expiry, unless the
\* caches are reset under a preparation (operations.ts:348-353, 412-418).
THEOREM PreparesOnce == Spec => []PreparedOnce
<1>1. NotedInv => PreparedOnce
    BY DEF NotedInv, RunsAreNoted, PreparedOnce, TypeInv, TypeOK
<1> QED
    BY NotedInit, NotedStep, <1>1, PTL DEF Spec

----------------------------------------------------------------------------
\* What a caller is handed lives as long as the caller needs it.

\* A snapshot ages once its run is answered, and a sandbox asks for one that expires.
SnapshotsAge ==
    /\ \A c \in Callers : wants[c] = "sandbox" => life[c] = "24h"
    /\ \A i \in Callers :
          /\ run[i] = "made" => age[i] = "young"
          /\ run[i] = "ended" => age[i] # "none"

\* A caller awaits, or holds, a preparation for its own expiry.
GotTheirOwn ==
    \A c \in Callers :
        pc[c] \in {"awaiting", "handed"} => got[c] \in Callers /\ life[got[c]] = life[c]

\* A snapshot that is handed out was answered; what expires was handed out before its margin,
\* and has not expired since.
HandedInTime ==
    \A c \in Callers : pc[c] = "handed" =>
        /\ run[got[c]] = "ended"
        /\ life[c] = "24h" => c \in margin /\ age[got[c]] # "expired"

HandInv == TypeInv /\ SnapshotsAge /\ GotTheirOwn /\ HandedInTime

LEMMA HandInit == Init => HandInv
BY TypeInit DEF Init, HandInv, SnapshotsAge, GotTheirOwn, HandedInTime

\* Handing out a snapshot that is answered, and young if it expires, keeps the promise.
LEMMA HandKeeps ==
    ASSUME HandInv, NEW i \in Callers, NEW to \in SUBSET Callers, Hand(i, to),
           \A c \in to : life[c] = life[i], life[i] = "24h" => age[i] = "young",
           run'[i] = "ended", \A j \in Callers : run[j] = "ended" => run'[j] = "ended",
           UNCHANGED <<age, life>>
    PROVE  GotTheirOwn' /\ HandedInTime'
<1>1. \A c \in Callers :
          /\ pc'[c] = (IF c \in to THEN "handed" ELSE pc[c])
          /\ got'[c] = (IF c \in to THEN i ELSE got[c])
    BY DEF Hand
<1>2. life[i] = "24h" => margin' = margin \cup to
    BY DEF Hand
<1>3. margin \subseteq margin'
    BY DEF Hand
<1>4. GotTheirOwn'
    BY <1>1 DEF HandInv, GotTheirOwn
<1>5. HandedInTime'
    BY <1>1, <1>2, <1>3 DEF HandInv, GotTheirOwn, HandedInTime
<1> QED
    BY <1>4, <1>5

\* What a caller does with its snapshot is its own matter.
LEMMA GotoKeeps ==
    ASSUME HandInv, NEW c \in Callers, NEW stage \in Stages \ {"awaiting", "handed"}, Goto(c, stage)
    PROVE  SnapshotsAge' /\ GotTheirOwn' /\ HandedInTime'
<1>1. /\ UNCHANGED <<run, age, wants, life>>
      /\ pc' = [pc EXCEPT ![c] = stage] /\ got' = [got EXCEPT ![c] = None]
      /\ margin' = margin \ {c}
    BY DEF Goto, caches, service
<1>2. \A a \in Callers :
          pc'[a] \in {"awaiting", "handed"} => a # c /\ pc'[a] = pc[a] /\ got'[a] = got[a]
    BY <1>1 DEF HandInv, TypeInv, TypeOK
<1>3. SnapshotsAge'
    BY <1>1 DEF HandInv, SnapshotsAge
<1>4. GotTheirOwn'
    BY <1>1, <1>2 DEF HandInv, GotTheirOwn
<1>5. HandedInTime'
    BY <1>1, <1>2 DEF HandInv, GotTheirOwn, HandedInTime
<1> QED
    BY <1>3, <1>4, <1>5

LEMMA CallerHands ==
    ASSUME HandInv, NEW c \in Callers, CallerStep(c)
    PROVE  SnapshotsAge' /\ GotTheirOwn' /\ HandedInTime'
<1>0. TypeOK /\ CachesAreKeyed /\ SnapshotsAge /\ GotTheirOwn /\ HandedInTime
    BY DEF HandInv, TypeInv
<1>1. CASE Reuse(c)
    <2> DEFINE i == prepared[life[c]]
    <2>1. /\ i \in Callers /\ run[i] = "ended" /\ life[i] = life[c]
          /\ Reusable(i) /\ Hand(i, {c})
        BY <1>0, <1>1, Ids DEF Reuse, Key, CachesAreKeyed, TypeOK
    <2>2. UNCHANGED <<run, age, wants, life>>
        BY <1>1 DEF Reuse, service
    <2>3. life[i] = "24h" => age[i] = "young"
        BY <1>0, <2>1 DEF Reusable, SnapshotsAge, TypeOK
    <2>4. GotTheirOwn' /\ HandedInTime'
        BY <2>1, <2>2, <2>3, HandKeeps
    <2> QED
        BY <1>0, <2>2, <2>4 DEF SnapshotsAge
<1>2. CASE Join(c) \/ Prepare(c)
    <2>1. /\ pc[c] = "idle" /\ run[c] = "none" /\ UNCHANGED <<wants, life, age, margin>>
          /\ pc' = [pc EXCEPT ![c] = "awaiting"]
          /\ run' = run \/ run' = [run EXCEPT ![c] = "baking"]
        BY <1>0, <1>2, Ids DEF Join, Prepare, CachesAreKeyed, service
    <2>2. /\ got'[c] \in Callers /\ life[got'[c]] = life[c]
          /\ \A a \in Callers : a # c => got'[a] = got[a]
        BY <1>0, <1>2, Ids DEF Join, Prepare, Key, CachesAreKeyed, TypeOK
    <2>3. \A a \in Callers :
              /\ pc'[a] = "handed" => a # c /\ pc[a] = "handed"
              /\ pc'[a] = "awaiting" => a = c \/ pc[a] = "awaiting"
        BY <1>0, <2>1 DEF TypeOK
    <2>4. \A j \in Callers : run'[j] \in {"made", "ended"} <=> run[j] \in {"made", "ended"}
        BY <1>0, <2>1 DEF TypeOK
    <2>5. \A j \in Callers : run[j] \in {"made", "ended"} => run'[j] = run[j]
        BY <1>0, <2>1 DEF TypeOK
    <2>6. SnapshotsAge'
        BY <1>0, <2>1, <2>4, <2>5 DEF SnapshotsAge
    <2>7. GotTheirOwn'
        BY <1>0, <2>1, <2>2, <2>3 DEF GotTheirOwn
    <2>8. HandedInTime'
        BY <1>0, <2>1, <2>2, <2>3, <2>5 DEF GotTheirOwn, HandedInTime
    <2> QED
        BY <2>6, <2>7, <2>8
<1>3. CASE \E stage \in Stages \ {"awaiting", "handed"} : Goto(c, stage)
    BY <1>3, GotoKeeps
<1>4. Template(c) \/ NoSuchSnapshot(c) \/ ForkFails(c) \/ Fork(c) \/ Exited(c) \/ ExecFails(c)
          \/ TimesOut(c) \/ (Undelivered(c) /\ tries[c] > ExecRetries)
      => \E stage \in Stages \ {"awaiting", "handed"} : Goto(c, stage)
    <2>1. Template(c) \/ NoSuchSnapshot(c) \/ ForkFails(c) \/ Fork(c)
          => \E stage \in {"template", "gone", "failed", "executing", "forked"} : Goto(c, stage)
        BY DEF Template, NoSuchSnapshot, ForkFails, Fork
    <2>2. Exited(c) \/ ExecFails(c) \/ TimesOut(c) \/ (Undelivered(c) /\ tries[c] > ExecRetries)
          => \E stage \in {"exited", "failed", "timed out"} : Goto(c, stage)
        <3>1. Undelivered(c) /\ tries[c] > ExecRetries => GiveUp(c)
            BY <1>0, LastTry
        <3> QED
            BY <3>1 DEF Exited, ExecFails, TimesOut, GiveUp, EndCall
    <2> QED
        BY <2>1, <2>2 DEF Stages
<1>5. CASE Undelivered(c) /\ ~(tries[c] > ExecRetries)
    <2>1. UNCHANGED <<pc, got, margin, run, age, wants, life>>
        BY <1>5 DEF Undelivered, service, callers
    <2> QED
        BY <1>0, <2>1 DEF SnapshotsAge, GotTheirOwn, HandedInTime
<1> QED
    BY <1>1, <1>2, <1>3, <1>4, <1>5 DEF CallerStep, Begin, ForkEnds, Answer

LEMMA ServiceHands ==
    ASSUME HandInv, NEW c \in Callers,
           Bake(c) \/ Prepared(c) \/ NotPrepared(c) \/ Tick(c) \/ Age(c) \/ Delete(c)
                \/ \E n \in Attempts : SandboxStep(c, n)
    PROVE  SnapshotsAge' /\ GotTheirOwn' /\ HandedInTime'
<1>0. TypeOK /\ CachesAreKeyed /\ SnapshotsAge /\ GotTheirOwn /\ HandedInTime
    BY DEF HandInv, TypeInv
<1>1. CASE Bake(c)
    <2>1. /\ run[c] = "baking" /\ run' = [run EXCEPT ![c] = "made"]
          /\ age' = [age EXCEPT ![c] = "young"] /\ UNCHANGED <<pc, got, margin, wants, life>>
        BY <1>1 DEF Bake, callers
    <2> QED
        BY <1>0, <2>1 DEF TypeOK, SnapshotsAge, GotTheirOwn, HandedInTime
<1>2. CASE Prepared(c)
    <2>1. /\ run[c] = "made" /\ run' = [run EXCEPT ![c] = "ended"]
          /\ Hand(c, Awaiting(c)) /\ UNCHANGED <<age, wants, life>>
        BY <1>2 DEF Prepared
    <2>2. /\ Awaiting(c) \in SUBSET Callers
          /\ \A a \in Awaiting(c) : life[a] = life[c]
        BY <1>0 DEF Awaiting, GotTheirOwn
    <2>3. age[c] = "young"
        BY <1>0, <2>1 DEF SnapshotsAge
    <2>4. /\ run'[c] = "ended"
          /\ \A j \in Callers : run[j] = "ended" => run'[j] = "ended"
        BY <1>0, <2>1 DEF TypeOK
    <2>5. GotTheirOwn' /\ HandedInTime'
        BY <2>1, <2>2, <2>3, <2>4, HandKeeps
    <2>6. SnapshotsAge'
        BY <1>0, <2>1, <2>3 DEF TypeOK, SnapshotsAge
    <2> QED
        BY <2>5, <2>6
<1>3. CASE NotPrepared(c)
    <2>1. /\ run[c] \in {"baking", "made"} /\ run' = [run EXCEPT ![c] = "failed"]
          /\ age' = [age EXCEPT ![c] = "none"] /\ UNCHANGED <<margin, wants, life>>
          /\ pc' = [a \in Callers |-> IF a \in Awaiting(c) THEN "failed" ELSE pc[a]]
          /\ got' = [a \in Callers |-> IF a \in Awaiting(c) THEN None ELSE got[a]]
        BY <1>3 DEF NotPrepared, UnderWay
    <2>2. \A a \in Callers :
              pc'[a] \in {"awaiting", "handed"} => pc'[a] = pc[a] /\ got'[a] = got[a]
        BY <2>1
    <2>3. \A j \in Callers : j # c => run'[j] = run[j] /\ age'[j] = age[j]
        BY <1>0, <2>1 DEF TypeOK
    <2>4. run'[c] = "failed"
        BY <1>0, <2>1 DEF TypeOK
    <2>5. SnapshotsAge'
        BY <1>0, <2>1, <2>3, <2>4 DEF SnapshotsAge
    <2>6. GotTheirOwn'
        BY <1>0, <2>1, <2>2 DEF GotTheirOwn
    <2>7. HandedInTime'
        BY <1>0, <2>1, <2>2, <2>3 DEF GotTheirOwn, HandedInTime
    <2> QED
        BY <2>5, <2>6, <2>7
<1>4. CASE Age(c)
    <2>1. /\ life[c] # "keep" /\ UNCHANGED <<run, pc, got, margin, wants, life>>
          /\ \/ run[c] = "ended" /\ age' = [age EXCEPT ![c] = "late"]
             \/ /\ \A a \in margin : pc[a] = "handed" => got[a] # c
                /\ age[c] = "late" /\ age' = [age EXCEPT ![c] = "expired"]
        BY <1>4 DEF Age, callers
    <2>2. \A j \in Callers : j # c => age'[j] = age[j]
        BY <1>0, <2>1 DEF TypeOK
    <2>3. age'[c] = "late" \/ (age'[c] = "expired" /\ age[c] = "late")
        BY <1>0, <2>1 DEF TypeOK
    <2>4. run[c] # "made"
        BY <1>0, <2>1 DEF SnapshotsAge
    <2>5. SnapshotsAge'
        BY <1>0, <2>1, <2>2, <2>3, <2>4 DEF SnapshotsAge
    <2>6. GotTheirOwn'
        BY <1>0, <2>1 DEF GotTheirOwn
    <2>7. age'[c] = "expired" => \A a \in margin : pc[a] = "handed" => got[a] # c
        BY <1>0, <2>1 DEF TypeOK
    <2>8. HandedInTime'
        BY <1>0, <2>1, <2>2, <2>7 DEF GotTheirOwn, HandedInTime
    <2> QED
        BY <2>5, <2>6, <2>8
<1>5. CASE Tick(c) \/ Delete(c) \/ \E n \in Attempts : SandboxStep(c, n)
    <2>1. UNCHANGED <<pc, got, margin, run, age, wants, life>>
        BY <1>5 DEF Tick, Delete, SandboxStep, Deliver, Finish, service, callers
    <2> QED
        BY <1>0, <2>1 DEF SnapshotsAge, GotTheirOwn, HandedInTime
<1> QED
    BY <1>1, <1>2, <1>3, <1>4, <1>5

LEMMA HandStep == HandInv /\ [Next]_vars => HandInv'
<1> SUFFICES ASSUME HandInv, [Next]_vars PROVE SnapshotsAge' /\ GotTheirOwn' /\ HandedInTime'
    BY TypeStep DEF HandInv
<1>1. CASE Reset \/ UNCHANGED vars
    <2>1. UNCHANGED <<pc, got, margin, run, age, wants, life>>
        BY <1>1 DEF Reset, vars, service, callers
    <2> QED
        BY <2>1 DEF HandInv, SnapshotsAge, GotTheirOwn, HandedInTime
<1> QED
    BY <1>1, CallerHands, ServiceHands DEF Next

\* A fork meets no snapshot that expired, and a template the caller asked to keep is not one
\* that expires, however callers and resets interleave (operations.ts:388-391, 426-441).
THEOREM HandsWhatLasts == Spec => []HandedLastsLongEnough
<1>1. HandInv => HandedLastsLongEnough
    <2> SUFFICES ASSUME HandInv, NEW c \in Callers, pc[c] = "handed"
                 PROVE  /\ wants[c] = "sandbox" => Alive(got[c]) \/ got[c] \in deleted
                        /\ life[c] = "keep" => life[got[c]] = "keep"
        BY DEF HandedLastsLongEnough, ForksFindTheirs, KeptIsKept
    <2>1. got[c] \in Callers /\ life[got[c]] = life[c] /\ run[got[c]] = "ended"
        BY DEF HandInv, GotTheirOwn, HandedInTime
    <2>2. wants[c] = "sandbox" => age[got[c]] \in {"young", "late"}
        BY <2>1 DEF HandInv, SnapshotsAge, HandedInTime, TypeInv, TypeOK
    <2> QED
        BY <2>1, <2>2 DEF Alive
<1> QED
    BY HandInit, HandStep, <1>1, PTL DEF Spec

----------------------------------------------------------------------------
\* The first command.

\* A command that is under way has an attempt, and one that exited had ended.
CommandInv ==
    /\ TypeInv
    /\ \A c \in Callers : pc[c] \in {"executing", "exited"} => tries[c] \in Attempts
    /\ ExitIsOfThisCommand

LEMMA CommandInit == Init => CommandInv
BY TypeInit DEF Init, CommandInv, ExitIsOfThisCommand

LEMMA CommandStep == CommandInv /\ [Next]_vars => CommandInv'
<1> DEFINE TriesInv == \A c \in Callers : pc[c] \in {"executing", "exited"} => tries[c] \in Attempts
<1> SUFFICES ASSUME CommandInv, [Next]_vars PROVE TriesInv' /\ ExitIsOfThisCommand'
    BY TypeStep DEF CommandInv
<1>0. TypeOK /\ TriesInv /\ ExitIsOfThisCommand
    BY DEF CommandInv, TypeInv
<1>calls. /\ pc \in [Callers -> Stages]
      /\ cmd \in [Callers -> [Attempts -> {"unsent", "running", "ended"}]]
      /\ tries \in [Callers -> 0..(ExecRetries + 1)]
    BY <1>0, CallTypes
<1> DEFINE Calm == /\ UNCHANGED command
                   /\ \A a \in Callers : pc'[a] \in {"executing", "exited"} => pc'[a] = pc[a]
<1>1. CASE Calm
    BY <1>0, <1>1 DEF command, ExitIsOfThisCommand
<1>2. ASSUME NEW c \in Callers, Reuse(c) \/ Prepared(c) PROVE Calm
    BY <1>2 DEF Reuse, Prepared, Hand
<1>3. ASSUME NEW c \in Callers, Join(c) \/ Prepare(c) \/ NotPrepared(c) PROVE Calm
    BY <1>0, <1>3 DEF Join, Prepare, NotPrepared, TypeOK
<1>4. ASSUME NEW c \in Callers,
             Template(c) \/ NoSuchSnapshot(c) \/ ForkFails(c) \/ ExecFails(c) \/ TimesOut(c)
                 \/ (Undelivered(c) /\ tries[c] > ExecRetries)
      PROVE  Calm
    <2>1. Undelivered(c) /\ tries[c] > ExecRetries => GiveUp(c)
        BY <1>0, LastTry
    <2>2. PICK stage \in {"template", "gone", "failed", "timed out"} :
              Goto(c, stage) /\ UNCHANGED command
        BY <1>4, <2>1 DEF Template, NoSuchSnapshot, ForkFails, ExecFails, TimesOut, GiveUp, EndCall
    <2> QED
        BY <1>calls, <2>2 DEF Goto
<1>5. ASSUME NEW c \in Callers, Bake(c) \/ Age(c) \/ Delete(c) \/ Tick(c) PROVE Calm
    BY <1>5 DEF Bake, Age, Delete, Tick, callers
<1>6. Reset \/ UNCHANGED vars => Calm
    BY DEF Reset, vars, callers
<1>7. ASSUME NEW c \in Callers, Fork(c) PROVE TriesInv' /\ ExitIsOfThisCommand'
    <2>1. /\ UNCHANGED cmd
          /\ \/ pc' = [pc EXCEPT ![c] = "executing"] /\ tries' = [tries EXCEPT ![c] = 1]
             \/ pc' = [pc EXCEPT ![c] = "forked"] /\ UNCHANGED tries
        BY <1>7 DEF Fork, Goto
    <2>2. 1 \in Attempts
        BY OperationsAssumption DEF OperationsAssumption, Attempts
    <2> QED
        BY <1>0, <1>calls, <2>1, <2>2 DEF ExitIsOfThisCommand
<1>8. ASSUME NEW c \in Callers, Exited(c) PROVE TriesInv' /\ ExitIsOfThisCommand'
    <2>1. /\ pc[c] = "executing" /\ cmd[c][tries[c]] = "ended"
          /\ UNCHANGED <<tries, cmd>> /\ pc' = [pc EXCEPT ![c] = "exited"]
        BY <1>8 DEF Exited, Executing, EndCall, Goto, command
    <2> QED
        BY <1>0, <1>calls, <2>1 DEF ExitIsOfThisCommand
<1>9. ASSUME NEW c \in Callers, Undelivered(c), ~(tries[c] > ExecRetries)
      PROVE  TriesInv' /\ ExitIsOfThisCommand'
    <2>1. /\ pc[c] = "executing" /\ tries' = [tries EXCEPT ![c] = tries[c] + 1]
          /\ UNCHANGED <<pc, cmd>>
        BY <1>0, <1>9, LastTry DEF Undelivered, Executing, NextTry, callers
    <2>2. tries[c] + 1 \in Attempts
        BY <1>0, <1>9, LastTry DEF Attempts
    <2>3. \A a \in Callers : a # c => tries'[a] = tries[a]
        BY <1>calls, <2>1
    <2>4. tries'[c] \in Attempts
        BY <1>0, <1>calls, <2>1, <2>2
    <2> QED
        BY <1>0, <2>1, <2>3, <2>4 DEF ExitIsOfThisCommand
<1>10. ASSUME NEW c \in Callers, NEW n \in Attempts, SandboxStep(c, n)
       PROVE  TriesInv' /\ ExitIsOfThisCommand'
    <2>1. /\ UNCHANGED <<pc, tries>>
          /\ \/ cmd[c][n] = "unsent" /\ cmd' = [cmd EXCEPT ![c][n] = "running"]
             \/ cmd' = [cmd EXCEPT ![c][n] = "ended"]
        BY <1>10 DEF SandboxStep, Deliver, Finish, callers
    <2>2. \A a \in Callers, m \in Attempts : cmd[a][m] = "ended" => cmd'[a][m] = "ended"
        <3>1. CASE cmd[c][n] = "unsent" /\ cmd' = [cmd EXCEPT ![c][n] = "running"]
            BY <1>calls, <3>1
        <3>2. CASE cmd' = [cmd EXCEPT ![c][n] = "ended"]
            BY <1>calls, <3>2
        <3> QED
            BY <2>1, <3>1, <3>2
    <2> QED
        BY <1>0, <1>calls, <2>1, <2>2 DEF ExitIsOfThisCommand
<1> QED
    BY <1>1, <1>2, <1>3, <1>4, <1>5, <1>6, <1>7, <1>8, <1>9, <1>10
       DEF Next, CallerStep, Begin, ForkEnds, Answer

\* An exit code is that of the command of the last attempt, however many went undelivered
\* (operations.ts:802-842).
THEOREM ExitsAreReal == Spec => []ExitIsOfThisCommand
<1>1. CommandInv => ExitIsOfThisCommand
    BY DEF CommandInv
<1> QED
    BY CommandInit, CommandStep, <1>1, PTL DEF Spec

----------------------------------------------------------------------------
\* The deadlines.

\* What is left to a command is never more than its deadline, which is noted while a call lasts.
LeftIsBounded ==
    \A c \in Callers :
        /\ \A n \in Attempts : left[c][n] <= deadline[c]
        /\ ~Executing(c) => deadline[c] = 0

\* What reached the sandbox within the headroom ends before the request does.
RequestOutlives ==
    \A c \in Callers, n \in Attempts :
        Executing(c) /\ cmd[c][n] = "running" /\ <<c, n>> \notin late => left[c][n] < timer[c]

TimeInv == TypeInv /\ LeftIsBounded /\ RequestOutlives /\ TimedOutIsOver

LEMMA TimeInit == Init => TimeInv
BY TypeInit DEF Init, TimeInv, LeftIsBounded, RequestOutlives, TimedOutIsOver, Executing

LEMMA TimeStep == TimeInv /\ [Next]_vars => TimeInv'
<1> SUFFICES ASSUME TimeInv, [Next]_vars
             PROVE  LeftIsBounded' /\ RequestOutlives' /\ TimedOutIsOver'
    BY TypeStep DEF TimeInv
<1> DEFINE Kept == LeftIsBounded' /\ RequestOutlives' /\ TimedOutIsOver'
<1> USE DEF LeftIsBounded, RequestOutlives, TimedOutIsOver, Executing
<1>0. TypeOK /\ TimeTypes /\ LeftIsBounded /\ RequestOutlives /\ TimedOutIsOver
    BY DEF TimeInv, TypeInv, TypeOK, TimeTypes
<1>1. TimeTypes'
    BY TypeStep DEF TimeInv, TypeInv, TypeOK, TimeTypes
<1>nat. \A a \in Callers :
          deadline[a] \in Nat /\ timer[a] \in Nat /\ deadline'[a] \in Nat /\ timer'[a] \in Nat
    BY <1>0, <1>1 DEF TimeTypes
<1>left. \A a \in Callers, m \in Attempts : left[a][m] \in Nat /\ left'[a][m] \in Nat
    BY <1>0, <1>1 DEF TimeTypes
<1>bound. \A a \in Callers, m \in Attempts : left[a][m] <= deadline[a]
    BY <1>0
<1>outlives. \A a \in Callers, m \in Attempts :
          pc[a] = "executing" /\ cmd[a][m] = "running" /\ <<a, m>> \notin late => left[a][m] < timer[a]
    BY <1>0 DEF Executing
\* Steps that end no call and begin none.
<1> DEFINE Calm == /\ UNCHANGED <<cmd, deadline, timer, left, late>>
                   /\ \A a \in Callers : /\ pc'[a] = "executing" <=> pc[a] = "executing"
                                         /\ pc'[a] = "timed out" => pc[a] = "timed out"
<1>2. CASE Calm
    BY <1>0, <1>2
<1>3. ASSUME NEW c \in Callers, Begin(c) PROVE Calm
    <2>1. CASE Reuse(c)
        BY <2>1 DEF Reuse, Hand, command, time
    <2>2. CASE Join(c) \/ Prepare(c)
        BY <1>0, <2>2 DEF Join, Prepare, command, time, TypeOK
    <2> QED
        BY <1>3, <2>1, <2>2 DEF Begin
<1>4. ASSUME NEW c \in Callers, Prepared(c) \/ NotPrepared(c) PROVE Calm
    <2>1. CASE Prepared(c)
        BY <2>1 DEF Prepared, Hand, Awaiting, command, time
    <2>2. CASE NotPrepared(c)
        BY <2>2 DEF NotPrepared, Awaiting, command, time
    <2> QED
        BY <1>4, <2>1, <2>2
<1>5. ASSUME NEW c \in Callers, Template(c) \/ NoSuchSnapshot(c) \/ ForkFails(c) PROVE Calm
    BY <1>0, <1>5 DEF Template, NoSuchSnapshot, ForkFails, Goto, command, time, TypeOK
<1>6. ASSUME NEW c \in Callers, Bake(c) \/ Age(c) \/ Delete(c) PROVE Calm
    BY <1>6 DEF Bake, Age, Delete, callers, command, time
<1>7. Reset \/ UNCHANGED vars => Calm
    BY DEF Reset, vars, callers, command, time
\* A request that is made is given more than any of the commands has left.
<1>8. ASSUME NEW c \in Callers, StartTimer(c), UNCHANGED <<cmd, left, late>>,
             pc'[c] = "executing", \A n \in Attempts : left[c][n] <= deadline'[c],
             \A a \in Callers : a # c => deadline'[a] = deadline[a] /\ pc'[a] = pc[a]
      PROVE  Kept
    <2>1. /\ RequestTimeout(c)' >= deadline'[c] + Headroom
          /\ Headroom \in Nat /\ Headroom > 0 /\ deadline'[c] \in Nat
        BY <1>1, OperationsAssumption DEF TimeTypes, OperationsAssumption, RequestTimeout
    <2>2. timer'[c] = RequestTimeout(c)' /\ \A a \in Callers : a # c => timer'[a] = timer[a]
        BY <1>0, <1>8 DEF StartTimer, TimeTypes
    <2>3. \A n \in Attempts : left[c][n] \in Nat /\ left[c][n] < timer'[c]
        BY <1>nat, <1>left, <1>bound, <1>outlives, <1>8, <2>1, <2>2
    <2> QED
        BY <1>0, <1>8, <2>2, <2>3
<1>9. ASSUME NEW c \in Callers, Fork(c) PROVE Kept
    <2>1. CASE c \in Runners
        <3>1. pc[c] = "handed" /\ deadline[c] = 0
            BY <1>0, <1>9 DEF Fork
        <3>2. /\ StartTimer(c) /\ pc' = [pc EXCEPT ![c] = "executing"] /\ UNCHANGED <<cmd, left, late>>
              /\ \A a \in Callers : a # c => deadline'[a] = deadline[a]
            BY <1>0, <1>9, <2>1 DEF Fork, Goto, TimeTypes
        <3>3. \A n \in Attempts : left[c][n] <= deadline'[c]
            <4> SUFFICES ASSUME NEW n \in Attempts PROVE left[c][n] <= deadline'[c]
                OBVIOUS
            <4>1. left[c][n] <= 0
                BY <1>bound, <3>1
            <4> QED
                BY <1>nat, <1>left, <4>1
        <3> QED
            BY <1>0, <1>8, <3>2, <3>3 DEF TypeOK
    <2>2. CASE c \notin Runners
        BY <1>0, <1>2, <1>9, <2>2 DEF Fork, Goto, TypeOK
    <2> QED
        BY <2>1, <2>2
<1>10. ASSUME NEW c \in Callers, Undelivered(c), ~(tries[c] > ExecRetries) PROVE Kept
    <2>1. /\ pc[c] = "executing" /\ StartTimer(c)
          /\ UNCHANGED <<pc, cmd, deadline, left, late>>
        BY <1>0, <1>10, LastTry DEF Undelivered, callers
    <2> QED
        BY <1>0, <1>8, <2>1
\* A call that ends.
<1>11. ASSUME NEW c \in Callers, NEW stage, stage # "executing", EndCall(c, stage),
              stage = "timed out" => \A n \in Attempts : cmd[c][n] = "running" => <<c, n>> \in late
       PROVE  Kept
    <2>1. /\ pc' = [pc EXCEPT ![c] = stage] /\ UNCHANGED <<cmd, late>>
          /\ deadline' = [deadline EXCEPT ![c] = 0] /\ timer' = [timer EXCEPT ![c] = 0]
          /\ left' = [left EXCEPT ![c] = [n \in Attempts |-> 0]]
        BY <1>11 DEF EndCall, Goto, command
    <2>2. LeftIsBounded'
        <3>1. \A a \in Callers : a # c =>
                  left'[a] = left[a] /\ deadline'[a] = deadline[a] /\ pc'[a] = pc[a]
            BY <1>0, <2>1 DEF TypeOK, TimeTypes
        <3>2. deadline'[c] = 0 /\ \A n \in Attempts : left'[c][n] = 0
            BY <1>0, <2>1 DEF TimeTypes
        <3>3. ASSUME NEW a \in Callers, NEW m \in Attempts PROVE left'[a][m] <= deadline'[a]
            <4>1. CASE a = c
                <5>1. left'[a][m] = 0
                    BY <3>2, <4>1
                <5> QED
                    BY <1>nat, <5>1
            <4>2. CASE a # c
                BY <1>bound, <3>1, <4>2
            <4> QED
                BY <4>1, <4>2
        <3>4. ASSUME NEW a \in Callers, pc'[a] # "executing" PROVE deadline'[a] = 0
            BY <1>0, <3>1, <3>2, <3>4
        <3> QED
            BY <3>3, <3>4
    <2>3. RequestOutlives'
        <3> SUFFICES ASSUME NEW a \in Callers, NEW m \in Attempts,
                            pc'[a] = "executing", cmd[a][m] = "running", <<a, m>> \notin late
                     PROVE  left'[a][m] < timer'[a]
            BY <2>1
        <3>1. a # c /\ pc'[a] = pc[a]
            BY <1>0, <1>11, <2>1, CallTypes
        <3>2. left'[a] = left[a] /\ timer'[a] = timer[a]
            BY <1>0, <2>1, <3>1 DEF TimeTypes
        <3> QED
            BY <1>outlives, <3>1, <3>2
    <2>4. TimedOutIsOver'
        BY <1>0, <1>11, <2>1 DEF TypeOK
    <2> QED
        BY <2>2, <2>3, <2>4
<1>12. ASSUME NEW c \in Callers,
              Exited(c) \/ ExecFails(c) \/ (Undelivered(c) /\ tries[c] > ExecRetries)
       PROVE  Kept
    <2>1. Undelivered(c) /\ tries[c] > ExecRetries => GiveUp(c)
        BY <1>0, LastTry
    <2>2. EndCall(c, "exited") \/ EndCall(c, "failed")
        BY <1>12, <2>1 DEF Exited, ExecFails, GiveUp
    <2> QED
        BY <1>11, <2>2
<1>13. ASSUME NEW c \in Callers, TimesOut(c) PROVE Kept
    <2>1. Executing(c) /\ timer[c] = 0 /\ EndCall(c, "timed out")
        BY <1>13 DEF TimesOut
    <2>2. ASSUME NEW n \in Attempts, cmd[c][n] = "running" PROVE <<c, n>> \in late
        <3>1. left[c][n] \in Nat /\ ~(left[c][n] < 0)
            BY <1>left
        <3>2. pc[c] = "executing" /\ timer[c] = 0
            BY <2>1
        <3> QED
            BY <1>outlives, <2>2, <3>1, <3>2
    <2> QED
        BY <1>11, <2>1, <2>2
<1>14. ASSUME NEW c \in Callers, NEW n \in Attempts, Deliver(c, n) PROVE Kept
    <2>1. /\ cmd' = [cmd EXCEPT ![c][n] = "running"]
          /\ left' = [left EXCEPT ![c][n] = deadline[c]]
          /\ late' = IF InTime(c, n) THEN late ELSE late \cup {<<c, n>>}
          /\ UNCHANGED <<pc, deadline, timer>>
        BY <1>14 DEF Deliver, callers
    <2>2. InTime(c, n) => Executing(c) /\ deadline[c] < timer[c]
        BY <1>nat, <1>left, <1>bound, <1>outlives, OutlivesItsCommand DEF InTime
    <2>3. LeftIsBounded'
        <3>1. \A a \in Callers, m \in Attempts :
                  left'[a][m] = left[a][m] \/ (a = c /\ left'[a][m] = deadline[c])
            BY <1>0, <2>1 DEF TimeTypes
        <3>2. ASSUME NEW a \in Callers, NEW m \in Attempts PROVE left'[a][m] <= deadline'[a]
            <4>1. CASE left'[a][m] = left[a][m]
                BY <1>bound, <2>1, <4>1
            <4>2. CASE a = c /\ left'[a][m] = deadline[c]
                BY <1>nat, <2>1, <4>2
            <4> QED
                BY <3>1, <4>1, <4>2
        <3>3. \A a \in Callers : pc'[a] # "executing" => deadline'[a] = 0
            BY <1>0, <2>1
        <3> QED
            BY <3>2, <3>3
    <2>4. RequestOutlives'
        BY <1>0, <2>1, <2>2 DEF TypeOK, TimeTypes
    <2>5. TimedOutIsOver'
        BY <1>0, <2>1, <2>2 DEF TypeOK
    <2> QED
        BY <2>3, <2>4, <2>5
<1>15. ASSUME NEW c \in Callers, NEW n \in Attempts, Finish(c, n) PROVE Kept
    <2>1. /\ cmd' = [cmd EXCEPT ![c][n] = "ended"]
          /\ left' = [left EXCEPT ![c][n] = 0]
          /\ late' = late \ {<<c, n>>}
          /\ UNCHANGED <<pc, deadline, timer>>
        BY <1>15 DEF Finish, callers
    <2>2. LeftIsBounded'
        <3>1. \A a \in Callers, m \in Attempts : left'[a][m] \in {left[a][m], 0}
            BY <1>0, <2>1 DEF TimeTypes
        <3>2. ASSUME NEW a \in Callers, NEW m \in Attempts PROVE left'[a][m] <= deadline'[a]
            <4>1. CASE left'[a][m] = left[a][m]
                BY <1>bound, <2>1, <4>1
            <4>2. CASE left'[a][m] = 0
                BY <1>nat, <2>1, <4>2
            <4> QED
                BY <3>1, <4>1, <4>2
        <3>3. \A a \in Callers : pc'[a] # "executing" => deadline'[a] = 0
            BY <1>0, <2>1
        <3> QED
            BY <3>2, <3>3
    <2>3. RequestOutlives' /\ TimedOutIsOver'
        BY <1>0, <2>1 DEF TypeOK, TimeTypes
    <2> QED
        BY <2>2, <2>3
\* Time runs out for a request and its commands alike.
<1>16. ASSUME NEW c \in Callers, Tick(c) PROVE Kept
    <2>1. /\ timer' = [timer EXCEPT ![c] = timer[c] - 1] /\ timer[c] > 0
          /\ left' = [left EXCEPT ![c] =
                 [n \in Attempts |-> IF n \in Running(c) THEN left[c][n] - 1 ELSE left[c][n]]]
          /\ UNCHANGED <<pc, cmd, deadline, late>>
        BY <1>16 DEF Tick, callers, command
    <2>2. \A n \in Attempts :
              /\ left'[c][n] <= left[c][n]
              /\ cmd[c][n] = "running" => left'[c][n] = left[c][n] - 1
        <3>1. \A n \in Attempts : left'[c][n] = IF n \in Running(c) THEN left[c][n] - 1 ELSE left[c][n]
            BY <1>0, <2>1 DEF TimeTypes
        <3> QED
            BY <1>nat, <1>left, <1>bound, <1>outlives, <3>1 DEF Running
    <2>3. \A a \in Callers : a # c => left'[a] = left[a] /\ timer'[a] = timer[a]
        BY <1>0, <2>1 DEF TimeTypes
    <2>timer. timer'[c] = timer[c] - 1
        BY <1>0, <2>1 DEF TimeTypes
    <2>4. LeftIsBounded'
        <3>1. ASSUME NEW a \in Callers, NEW m \in Attempts PROVE left'[a][m] <= deadline'[a]
            <4>1. left'[a][m] <= left[a][m]
                BY <1>left, <2>2, <2>3
            <4>2. left[a][m] <= deadline[a] /\ deadline'[a] = deadline[a]
                BY <1>bound, <2>1
            <4> QED
                BY <1>nat, <1>left, <4>1, <4>2
        <3>2. \A a \in Callers : pc'[a] # "executing" => deadline'[a] = 0
            BY <1>0, <2>1
        <3> QED
            BY <3>1, <3>2
    <2>5. RequestOutlives'
        <3> SUFFICES ASSUME NEW a \in Callers, NEW m \in Attempts,
                            pc[a] = "executing", cmd[a][m] = "running", <<a, m>> \notin late
                     PROVE  left'[a][m] < timer'[a]
            BY <2>1
        <3>1. left[a][m] < timer[a]
            BY <1>outlives
        <3>2. CASE a = c
            BY <1>nat, <1>left, <2>2, <2>timer, <3>1, <3>2
        <3>3. CASE a # c
            BY <2>3, <3>1, <3>3
        <3> QED
            BY <3>2, <3>3
    <2>6. TimedOutIsOver'
        BY <1>0, <2>1
    <2> QED
        BY <2>4, <2>5, <2>6
<1> QED
    BY <1>2, <1>3, <1>4, <1>5, <1>6, <1>7, <1>9, <1>10, <1>12, <1>13, <1>14, <1>15, <1>16
       DEF Next, CallerStep, ForkEnds, Answer, SandboxStep

\* Whatever the client's timeout, the deadline of a command and the number of its attempts, no
\* caller is told of a timeout while a command carries on in the sandbox that reached it within
\* the headroom and while its answer was awaited (operations.ts:783-790).
THEOREM TimeoutsAreOver == Spec => []TimedOutIsOver
<1>1. TimeInv => TimedOutIsOver
    BY DEF TimeInv
<1> QED
    BY TimeInit, TimeStep, <1>1, PTL DEF Spec
=============================================================================
