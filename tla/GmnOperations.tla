---------------------------- MODULE GmnOperations ----------------------------
(***************************************************************************)
(* Sandboxes and templates from container images in the givemeanode        *)
(* provider (givemeanode/src/operations.ts): prepareImage and its two      *)
(* caches, the fork of a sandbox from what was prepared, and the first     *)
(* command on it.                                                          *)
(*                                                                         *)
(* All callers name one image in one shape; they differ in how long the    *)
(* preparation is to live.  A preparation, its client.request and the      *)
(* snapshot it makes bear the name of the caller that started it.  A       *)
(* request acts at most once, as GmnClient shows, and may fail either way. *)
(*                                                                         *)
(* Time: PREPARED_REUSE_MARGIN_MS outlasts the way of a fork to the        *)
(* service, and the delay of a preparation's answer.  What runs out while  *)
(* a caller runs its command, the deadline of the request and those of the *)
(* commands in the sandbox, is counted down by ticks.                      *)
(***************************************************************************)
EXTENDS Naturals, FiniteSets

CONSTANTS
    Callers,
    Runners,          \* the callers that run a command on their sandbox
    None,
    ExecRetries,
    MaxResets,
    \* in ticks
    ClientTimeout,    \* the timeout of the client
    Deadlines,        \* deadlines callers give their commands, the default among them
    Headroom          \* EXEC_DEADLINE_HEADROOM_MS

ASSUME OperationsAssumption ==
    /\ IsFiniteSet(Callers) /\ None \notin Callers /\ Runners \subseteq Callers
    /\ ExecRetries \in Nat /\ MaxResets \in Nat
    /\ ClientTimeout \in Nat /\ Deadlines \subseteq Nat /\ Headroom \in Nat \ {0}

Lives == {"keep", "24h"}            \* expires_after
Attempts == 1..(ExecRetries + 1)

VARIABLES
    wants,            \* what each caller asks for: a template or a sandbox
    life,             \* and the expires_after of its preparation
    prepared,         \* the caches, of module level in the code
    preparing,
    run,              \* each preparation
    age,              \* each snapshot at the service; "late" is within the margin
    deleted,          \* the snapshots a caller deleted
    pc,
    got,              \* the preparation each caller awaits, or was handed the snapshot of
    margin,           \* history: it was handed out before its margin
    tries,            \* attempts at the command
    cmd,              \* the command of each attempt, in the sandbox
    \* while the caller waits
    deadline,         \* deadlineMs of its commands
    timer,            \* what is left to the request of its last attempt
    left,             \* what is left to the command of each attempt, while it runs
    late,             \* history: commands running that reached the sandbox late
    resets,
    undisturbed       \* history: no reset came upon a preparation under way

caches == <<prepared, preparing>>
service == <<run, age, deleted>>
callers == <<wants, life, pc, got, margin>>
command == <<tries, cmd>>
time == <<deadline, timer, left, late>>
vars == <<caches, service, callers, command, time, resets, undisturbed>>

Init ==
    /\ wants \in [Callers -> {"template", "sandbox"}]
    /\ life \in [Callers -> Lives]
    /\ \A c \in Callers : wants[c] = "sandbox" => life[c] = "24h"      \* CREATE_IMAGE_EXPIRY
    /\ prepared = [k \in Lives |-> None] /\ preparing = [k \in Lives |-> None]
    /\ run = [c \in Callers |-> "none"] /\ age = [c \in Callers |-> "none"]
    /\ deleted = {}
    /\ pc = [c \in Callers |-> "idle"]
    /\ got = [c \in Callers |-> None] /\ margin = {}
    /\ tries = [c \in Callers |-> 0]
    /\ cmd = [c \in Callers |-> [n \in Attempts |-> "unsent"]]
    /\ deadline = [c \in Callers |-> 0] /\ timer = [c \in Callers |-> 0]
    /\ left = [c \in Callers |-> [n \in Attempts |-> 0]]
    /\ late = {}
    /\ resets = 0 /\ undisturbed = TRUE

----------------------------------------------------------------------------
\* prepareImage.

Key(c) == life[c]

UnderWay(c) == run[c] \in {"baking", "made"}
Alive(i) == age[i] \in {"young", "late"} /\ i \notin deleted

\* Mutant: a cached id is good until it expires.
UntilExpiry(i) == age[i] # "expired"

\* By the clock of the client, which does not know of a deletion.
Reusable(i) == life[i] = "keep" \/ age[i] \notin {"late", "expired"}

Hand(i, to) ==
    /\ pc' = [c \in Callers |-> IF c \in to THEN "handed" ELSE pc[c]]
    /\ got' = [c \in Callers |-> IF c \in to THEN i ELSE got[c]]
    /\ margin' = IF age[i] = "late" THEN margin ELSE margin \cup to

Reuse(c) ==
    /\ pc[c] = "idle"
    /\ prepared[Key(c)] # None /\ Reusable(prepared[Key(c)])
    /\ Hand(prepared[Key(c)], {c})
    /\ UNCHANGED <<caches, service, wants, life, command, time, resets, undisturbed>>

NothingReusable(k) == prepared[k] # None => ~Reusable(prepared[k])

\* An entry that is about to expire goes; the caller awaits the run there is, or its own.
Join(c) ==
    /\ pc[c] = "idle"
    /\ NothingReusable(Key(c)) /\ preparing[Key(c)] # None
    /\ prepared' = [prepared EXCEPT ![Key(c)] = None]
    /\ pc' = [pc EXCEPT ![c] = "awaiting"]
    /\ got' = [got EXCEPT ![c] = preparing[Key(c)]]
    /\ UNCHANGED <<preparing, service, wants, life, margin, command, time, resets, undisturbed>>

\* Mutant: the run is noted when it is answered.
Unnoted(c) == UNCHANGED preparing

Note(c) == preparing' = [preparing EXCEPT ![Key(c)] = c]

Prepare(c) ==
    /\ pc[c] = "idle"
    /\ NothingReusable(Key(c)) /\ preparing[Key(c)] = None
    /\ prepared' = [prepared EXCEPT ![Key(c)] = None]
    /\ Note(c)
    /\ run' = [run EXCEPT ![c] = "baking"]
    /\ pc' = [pc EXCEPT ![c] = "awaiting"]
    /\ got' = [got EXCEPT ![c] = c]
    /\ UNCHANGED <<age, deleted, wants, life, margin, command, time, resets, undisturbed>>

\* The service bakes the snapshot, whether or not anyone still waits for it.
Bake(c) ==
    /\ run[c] = "baking"
    /\ run' = [run EXCEPT ![c] = "made"]
    /\ age' = [age EXCEPT ![c] = "young"]
    /\ UNCHANGED <<caches, deleted, callers, command, time, resets, undisturbed>>

Awaiting(c) == {a \in Callers : pc[a] = "awaiting" /\ got[a] = c}

\* finally: whoever's entry it is by now.
TakeOff(c) == preparing' = [preparing EXCEPT ![Key(c)] = None]

Prepared(c) ==
    /\ run[c] = "made"
    /\ prepared' = [prepared EXCEPT ![Key(c)] = c]
    /\ TakeOff(c)
    /\ run' = [run EXCEPT ![c] = "ended"]
    /\ Hand(c, Awaiting(c))
    /\ UNCHANGED <<age, deleted, wants, life, command, time, resets, undisturbed>>

\* Refused, broken, without an id or out of PREPARE_IMAGE_TIMEOUT_MS: the snapshot, if it
\* was made, is nobody's, and of no more interest.
NotPrepared(c) ==
    /\ UnderWay(c)
    /\ TakeOff(c)
    /\ run' = [run EXCEPT ![c] = "failed"]
    /\ pc' = [a \in Callers |-> IF a \in Awaiting(c) THEN "failed" ELSE pc[a]]
    /\ got' = [a \in Callers |-> IF a \in Awaiting(c) THEN None ELSE got[a]]
    /\ age' = [age EXCEPT ![c] = "none"]
    /\ UNCHANGED <<prepared, deleted, wants, life, margin, command, time, resets, undisturbed>>

\* resetPreparedImageCache: a run under way goes on.
Reset ==
    /\ resets < MaxResets
    /\ resets' = resets + 1
    /\ prepared' = [k \in Lives |-> None] /\ preparing' = [k \in Lives |-> None]
    /\ undisturbed' = (undisturbed /\ \A c \in Callers : ~UnderWay(c))
    /\ UNCHANGED <<service, callers, command, time>>

----------------------------------------------------------------------------
\* The service: time, and deletions.

\* Nobody may still be on the way with an id that had its margin.
Age(i) ==
    /\ life[i] # "keep"
    /\ \/ /\ age[i] = "young"
          /\ run[i] = "ended"
          /\ age' = [age EXCEPT ![i] = "late"]
       \/ /\ age[i] = "late"
          /\ \A c \in margin : pc[c] = "handed" => got[c] # i
          /\ age' = [age EXCEPT ![i] = "expired"]
    /\ UNCHANGED <<caches, run, deleted, callers, command, time, resets, undisturbed>>

\* template.delete or snapshot.delete, of what the listing shows.
Delete(i) ==
    /\ run[i] = "ended" /\ Alive(i)
    /\ deleted' = deleted \cup {i}
    /\ UNCHANGED <<caches, run, age, callers, command, time, resets, undisturbed>>

----------------------------------------------------------------------------
\* What the caller does with the snapshot: template.create is done with its id.

Goto(c, stage) ==
    /\ pc' = [pc EXCEPT ![c] = stage]
    /\ got' = [got EXCEPT ![c] = None]
    /\ margin' = margin \ {c}
    /\ UNCHANGED <<caches, service, wants, life, resets, undisturbed>>

Template(c) ==
    /\ pc[c] = "handed" /\ wants[c] = "template"
    /\ Goto(c, "template")
    /\ UNCHANGED <<command, time>>

\* Mutant: the request is given the timeout of the client.
ClientsOwn(c) == ClientTimeout

\* The larger of the client's timeout and the command's deadline with its headroom.
RequestTimeout(c) ==
    IF ClientTimeout < deadline[c] + Headroom THEN deadline[c] + Headroom ELSE ClientTimeout

\* The request of an attempt is made.  Its deadline is that of the attempt of GmnClient that
\* the service does not refuse.
StartTimer(c) == timer' = [timer EXCEPT ![c] = RequestTimeout(c)']

\* forkSnapshot, then the first command.
Fork(c) ==
    /\ pc[c] = "handed" /\ wants[c] = "sandbox"
    /\ Alive(got[c])
    /\ \/ /\ c \in Runners
          /\ Goto(c, "executing")
          /\ tries' = [tries EXCEPT ![c] = 1]
          /\ \E d \in Deadlines : deadline' = [deadline EXCEPT ![c] = d]
          /\ StartTimer(c)
       \/ /\ c \notin Runners
          /\ Goto(c, "forked")
          /\ UNCHANGED <<tries, deadline, timer>>
    /\ UNCHANGED <<cmd, left, late>>

\* The snapshot is gone.
NoSuchSnapshot(c) ==
    /\ pc[c] = "handed" /\ wants[c] = "sandbox"
    /\ ~Alive(got[c])
    /\ Goto(c, "gone")
    /\ UNCHANGED <<command, time>>

ForkFails(c) ==
    /\ pc[c] = "handed" /\ wants[c] = "sandbox"
    /\ Goto(c, "failed")
    /\ UNCHANGED <<command, time>>

----------------------------------------------------------------------------
\* runCommand.

Executing(c) == pc[c] = "executing"

\* Within the headroom, and while its answer is awaited.
InTime(c, n) == Executing(c) /\ n = tries[c] /\ RequestTimeout(c) - timer[c] < Headroom

\* An exec reaches the sandbox, perhaps when nobody awaits its answer any more.
Deliver(c, n) ==
    /\ n <= tries[c] /\ cmd[c][n] = "unsent"
    /\ cmd' = [cmd EXCEPT ![c][n] = "running"]
    /\ left' = [left EXCEPT ![c][n] = deadline[c]]
    /\ late' = IF InTime(c, n) THEN late ELSE late \cup {<<c, n>>}
    /\ UNCHANGED <<caches, service, callers, tries, deadline, timer, resets, undisturbed>>

\* The command ends, by itself or by its deadline.
Finish(c, n) ==
    /\ cmd[c][n] = "running"
    /\ cmd' = [cmd EXCEPT ![c][n] = "ended"]
    /\ left' = [left EXCEPT ![c][n] = 0]
    /\ late' = late \ {<<c, n>>}
    /\ UNCHANGED <<caches, service, callers, tries, deadline, timer, resets, undisturbed>>

Running(c) == {n \in Attempts : cmd[c][n] = "running"}

\* Time passes for a caller that waits and for its commands.  What has run out ends first.
Tick(c) ==
    /\ Executing(c)
    /\ timer[c] > 0
    /\ \A n \in Running(c) : left[c][n] > 0
    /\ timer' = [timer EXCEPT ![c] = @ - 1]
    /\ left' = [left EXCEPT ![c] = [n \in Attempts |-> IF n \in Running(c) THEN @[n] - 1 ELSE @[n]]]
    /\ UNCHANGED <<caches, service, callers, command, deadline, late, resets, undisturbed>>

\* The call ends with its last request.  Its commands may go on; what is left to them is not
\* counted any more.
EndCall(c, stage) ==
    /\ Goto(c, stage)
    /\ deadline' = [deadline EXCEPT ![c] = 0]
    /\ timer' = [timer EXCEPT ![c] = 0]
    /\ left' = [left EXCEPT ![c] = [n \in Attempts |-> 0]]
    /\ UNCHANGED <<command, late>>

\* A result with an exit code.
Exited(c) ==
    /\ Executing(c)
    /\ cmd[c][tries[c]] = "ended"
    /\ EndCall(c, "exited")

\* Mutant: a missing exit code is 0.
ReadAsZero(c) == EndCall(c, "exited")

GiveUp(c) == EndCall(c, "failed")

\* Mutant: attempts are not counted.
SameTry(c) == UNCHANGED tries

NextTry(c) == tries' = [tries EXCEPT ![c] = @ + 1]

\* "did not answer the exec call", whether or not the sandbox got it: one more attempt.
Undelivered(c) ==
    /\ Executing(c)
    /\ \/ /\ tries[c] <= ExecRetries
          /\ NextTry(c)
          /\ UNCHANGED deadline
          /\ StartTimer(c)
          /\ UNCHANGED <<caches, service, callers, cmd, left, late, resets, undisturbed>>
       \/ /\ tries[c] > ExecRetries
          /\ GiveUp(c)

\* Another result without an exit code, or no answer to the request.
ExecFails(c) ==
    /\ Executing(c)
    /\ GiveUp(c)

\* The deadline of the request.
TimesOut(c) ==
    /\ Executing(c)
    /\ timer[c] = 0
    /\ EndCall(c, "timed out")

----------------------------------------------------------------------------
Begin(c) == Reuse(c) \/ Join(c) \/ Prepare(c)
ForkEnds(c) == Fork(c) \/ NoSuchSnapshot(c) \/ ForkFails(c)
Answer(c) == Exited(c) \/ Undelivered(c) \/ ExecFails(c)

CallerStep(c) == Begin(c) \/ Template(c) \/ ForkEnds(c) \/ Answer(c) \/ TimesOut(c)

SandboxStep(c, n) == Deliver(c, n) \/ Finish(c, n)

Next ==
    \/ \E c \in Callers :
          \/ CallerStep(c) \/ Bake(c) \/ Prepared(c) \/ NotPrepared(c) \/ Tick(c)
          \/ Age(c) \/ Delete(c)
          \/ \E n \in Attempts : SandboxStep(c, n)
    \/ Reset

\* Time passes, and what has run out ends: a command by its own deadline, the request it was
\* made with by the client's timer, and so do a preparation and a fork.  Nothing need be
\* delivered or answered.
Spec ==
    /\ Init /\ [][Next]_vars
    /\ \A c \in Callers :
          /\ WF_vars(Template(c)) /\ WF_vars(ForkEnds(c)) /\ WF_vars(Prepared(c) \/ NotPrepared(c))
    /\ \A c \in Runners :
          /\ WF_vars(Tick(c)) /\ WF_vars(TimesOut(c))
          /\ \A n \in Attempts : WF_vars(left[c][n] = 0 /\ Finish(c, n))

----------------------------------------------------------------------------
Stages == {"idle", "awaiting", "handed", "template", "forked", "executing", "exited", "gone", "timed out", "failed"}
Ended(c) == pc[c] \in {"template", "forked", "exited", "gone", "timed out", "failed"}

\* Type correctness.
TypeOK ==
    /\ wants \in [Callers -> {"template", "sandbox"}] /\ life \in [Callers -> Lives]
    /\ prepared \in [Lives -> Callers \cup {None}] /\ preparing \in [Lives -> Callers \cup {None}]
    /\ run \in [Callers -> {"none", "baking", "made", "ended", "failed"}]
    /\ age \in [Callers -> {"none", "young", "late", "expired"}]
    /\ deleted \subseteq Callers /\ margin \subseteq Callers
    /\ pc \in [Callers -> Stages] /\ got \in [Callers -> Callers \cup {None}]
    /\ tries \in [Callers -> 0..(ExecRetries + 1)]
    /\ cmd \in [Callers -> [Attempts -> {"unsent", "running", "ended"}]]
    /\ deadline \in [Callers -> Nat] /\ timer \in [Callers -> Nat]
    /\ left \in [Callers -> [Attempts -> Nat]] /\ late \subseteq Callers \X Attempts
    /\ resets \in 0..MaxResets /\ undisturbed \in BOOLEAN

\* "starting N sandboxes from one image must prepare it ONCE" (operations.ts:348): one
\* preparation at a time for each expiry, unless the caches were reset under one.
PreparedOnce ==
    undisturbed =>
        \A a, b \in Callers : UnderWay(a) /\ UnderWay(b) /\ life[a] = life[b] => a = b

\* No fork meets a snapshot that expired (operations.ts:440): only one that was deleted.
ForksFindTheirs ==
    \A c \in Callers :
        pc[c] = "handed" /\ wants[c] = "sandbox" => Alive(got[c]) \/ got[c] \in deleted

\* A template the caller asked to keep is not one that expires, whoever prepared the image
\* before or meanwhile (operations.ts:388).
KeptIsKept ==
    \A c \in Callers : pc[c] = "handed" /\ life[c] = "keep" => life[got[c]] = "keep"

\* What a caller is handed lives as long as the caller needs it.
HandedLastsLongEnough == ForksFindTheirs /\ KeptIsKept

\* An exit code is that of the command of the last attempt: an undelivered command is never
\* reported as a success (operations.ts:802).
ExitIsOfThisCommand ==
    \A c \in Callers : pc[c] = "exited" => cmd[c][tries[c]] = "ended"

\* A caller is not told of a timeout while its command carries on in the sandbox
\* (operations.ts:783-790), over all its attempts, unless the command spent the whole headroom
\* on its way there or reached the sandbox when its answer was not awaited any more.
TimedOutIsOver ==
    \A c \in Callers, n \in Attempts :
        pc[c] = "timed out" /\ cmd[c][n] = "running" => <<c, n>> \in late

\* Every caller is served or told, those that joined another's preparation or
\* are never answered included.
CallersEnd == \A c \in Callers : pc[c] # "idle" ~> Ended(c)
=============================================================================
