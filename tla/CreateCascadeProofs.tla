------------------------- MODULE CreateCascadeProofs -------------------------
(***************************************************************************)
(* Theorems about a create under aborts, for any number of candidates.     *)
(***************************************************************************)
EXTENDS CreateCascade, SequenceTheorems, TLAPS

In(task, q) == \E i \in 1..Len(q) : q[i] = task
OnceEach(q) == \A i, j \in 1..Len(q) : q[i] = q[j] => i = j

Waits(task, a) == In(<<task, a>>, queue)

\* What a queued reaction knows of its attempt, and how the parts of an attempt go together.
TaskInv ==
    /\ OnceEach(queue)
    /\ \A a \in Attempts :
          /\ Waits("settled", a) => provider[a] \in {"made", "failed"} /\ race[a] \in {"open", "abort"}
          /\ Waits("raceAbort", a) =>
                aborted /\ outcome[a] # "idle" /\ (race[a] = "open" => outcome[a] = "waiting")
          /\ Waits("resume", a) => race[a] # "open" /\ outcome[a] = "waiting"
          /\ Waits("caller", a) => outcome[a] \notin {"idle", "waiting"}
          /\ provider[a] # "none" => outcome[a] # "idle"
          /\ provider[a] # "none" /\ race[a] = "open" => outcome[a] = "waiting"
          /\ provider[a] = "working" => race[a] \in {"open", "abort"}
          /\ outcome[a] = "idle" => race[a] = "open"
          /\ outcome[a] = "sandbox" => race[a] = "value"

\* Without an abort nothing is cleaned up and no race was lost to one.
AbortInv ==
    /\ aborted <=> abortedBy # "nobody"
    /\ ~aborted => \A a \in Attempts : cleanup[a] = "none" /\ race[a] # "abort"

\* One attempt at a time is open, in the order of the candidates.
Opened(a) == outcome[a] = "waiting" \/ Waits("caller", a)
OrderInv ==
    /\ final = "idle" => \A a \in Attempts : outcome[a] = "idle"
    /\ \A a, b \in Attempts :
          /\ Opened(a) => final = "pending"
          /\ Opened(a) /\ Opened(b) => a = b

\* A sandbox that was made, and that nothing is to destroy, is on its way to the caller; only
\* a promise's continuation could abort meanwhile.
OnItsWay(a) ==
    /\ race[a] = "value"
    /\ \/ outcome[a] = "waiting" /\ ~aborted /\ Waits("resume", a)
       \/ outcome[a] = "sandbox" /\ (Waits("caller", a) \/ final = "sandbox")
KeptInv ==
    \A a \in Attempts :
        /\ outcome[a] = "sandbox" => cleanup[a] = "none"
        /\ abortedBy # "promise" /\ provider[a] = "made" /\ ~Waits("settled", a) /\ cleanup[a] = "none"
           => OnItsWay(a)

CascadeInv == TypeOK /\ TaskInv /\ AbortInv /\ OrderInv /\ KeptInv

----------------------------------------------------------------------------
\* The queue of microtasks.

LEMMA TailIn ==
    ASSUME NEW q \in Seq(Task), q # <<>>, OnceEach(q)
    PROVE  /\ Tail(q) \in Seq(Task) /\ OnceEach(Tail(q)) /\ Head(q) \in Task /\ In(Head(q), q)
           /\ \A t \in Task : In(t, Tail(q)) <=> In(t, q) /\ t # Head(q)
<1>1. Len(q) \in Nat /\ Len(q) >= 1 /\ Head(q) = q[1] /\ \A i \in 1..Len(q) : q[i] \in Task
    OBVIOUS
<1>2. Tail(q) \in Seq(Task) /\ Len(Tail(q)) = Len(q) - 1
    OBVIOUS
<1>3. \A i \in 1..(Len(q) - 1) : Tail(q)[i] = q[i + 1]
    OBVIOUS
<1>4. OnceEach(Tail(q))
    BY <1>1, <1>2, <1>3 DEF OnceEach
<1>5. ASSUME NEW t \in Task PROVE In(t, Tail(q)) <=> In(t, q) /\ t # Head(q)
    <2>1. ASSUME In(t, Tail(q)) PROVE In(t, q) /\ t # Head(q)
        <3>1. PICK i \in 1..(Len(q) - 1) : q[i + 1] = t
            BY <1>2, <1>3, <2>1 DEF In
        <3>2. i + 1 \in 1..Len(q) /\ 1 \in 1..Len(q) /\ i + 1 # 1
            BY <1>1
        <3> QED
            BY <1>1, <3>1, <3>2 DEF In, OnceEach
    <2>2. ASSUME In(t, q), t # Head(q) PROVE In(t, Tail(q))
        <3>1. PICK i \in 1..Len(q) : q[i] = t
            BY <2>2 DEF In
        <3>2. i - 1 \in 1..(Len(q) - 1) /\ (i - 1) + 1 = i
            BY <1>1, <2>2, <3>1
        <3> QED
            BY <1>2, <1>3, <3>1, <3>2 DEF In
    <2> QED
        BY <2>1, <2>2
<1>6. In(Head(q), q)
    BY <1>1 DEF In
<1> QED
    BY <1>1, <1>2, <1>4, <1>5, <1>6

LEMMA AppendIn ==
    ASSUME NEW q \in Seq(Task), NEW x \in Task
    PROVE  /\ Append(q, x) \in Seq(Task)
           /\ \A t \in Task : In(t, Append(q, x)) <=> In(t, q) \/ t = x
           /\ OnceEach(q) /\ ~In(x, q) => OnceEach(Append(q, x))
<1>1. /\ Append(q, x) \in Seq(Task) /\ Len(q) \in Nat /\ Len(Append(q, x)) = Len(q) + 1
      /\ \A i \in 1..Len(q) : Append(q, x)[i] = q[i]
      /\ Append(q, x)[Len(q) + 1] = x
    OBVIOUS
<1>2. ASSUME NEW t \in Task PROVE In(t, Append(q, x)) <=> In(t, q) \/ t = x
    <2>1. \A i \in 1..(Len(q) + 1) : i \in 1..Len(q) \/ i = Len(q) + 1
        BY <1>1
    <2>2. 1..Len(q) \subseteq 1..(Len(q) + 1) /\ Len(q) + 1 \in 1..(Len(q) + 1)
        BY <1>1
    <2> QED
        BY <1>1, <2>1, <2>2 DEF In
<1>3. ASSUME OnceEach(q), ~In(x, q) PROVE OnceEach(Append(q, x))
    BY <1>1, <1>3 DEF In, OnceEach
<1> QED
    BY <1>1, <1>2, <1>3

\* Two reactions are the same if they are of one kind and of one attempt.
LEMMA TaskIs ==
    /\ \A k \in {"settled", "raceAbort", "resume", "caller"}, a \in Attempts : <<k, a>> \in Task
    /\ \A k, l \in {"settled", "raceAbort", "resume", "caller"}, a, b \in Attempts :
          <<k, a>> = <<l, b>> <=> k = l /\ a = b
BY DEF Task

----------------------------------------------------------------------------
\* The steps, with what they do to the queue.

Kinds == {"settled", "raceAbort", "resume", "caller"}

\* The head is taken off, and perhaps a reaction added.
LEMMA PopIn ==
    ASSUME queue \in Seq(Task), OnceEach(queue), NEW k \in Kinds, NEW a \in Attempts, Running(k, a)
    PROVE  /\ Tail(queue) \in Seq(Task) /\ OnceEach(Tail(queue)) /\ In(<<k, a>>, queue)
           /\ \A l \in Kinds, b \in Attempts :
                 In(<<l, b>>, Tail(queue)) <=> In(<<l, b>>, queue) /\ ~(l = k /\ b = a)
BY TailIn, TaskIs DEF Running, Kinds

LEMMA PushIn ==
    ASSUME NEW q \in Seq(Task), OnceEach(q), NEW k \in Kinds, NEW a \in Attempts, ~In(<<k, a>>, q)
    PROVE  /\ Append(q, <<k, a>>) \in Seq(Task) /\ OnceEach(Append(q, <<k, a>>))
           /\ \A l \in Kinds, b \in Attempts :
                 In(<<l, b>>, Append(q, <<k, a>>)) <=> In(<<l, b>>, q) \/ (l = k /\ b = a)
BY AppendIn, TaskIs DEF Kinds

LEMMA InvInit == Init => CascadeInv
<1> SUFFICES ASSUME Init PROVE CascadeInv
    OBVIOUS
<1>1. queue = <<>> /\ queue \in Seq(Task) /\ OnceEach(queue) /\ \A t \in Task : ~In(t, queue)
    BY DEF Init, CreateInit, OnceEach, In
<1>2. \A k \in Kinds, a \in Attempts : ~Waits(k, a)
    BY <1>1, TaskIs DEF Waits, Kinds
<1>3. TypeOK
    BY <1>1 DEF Init, CreateInit, TypeOK
<1>4. TaskInv
    BY <1>1, <1>2 DEF Init, CreateInit, TaskInv, Kinds
<1>5. AbortInv /\ OrderInv /\ KeptInv
    BY <1>2 DEF Init, CreateInit, AbortInv, OrderInv, Opened, KeptInv, Kinds
<1> QED
    BY <1>3, <1>4, <1>5 DEF CascadeInv

\* The call of a provider, from a task that leaves the queue as q: nothing of its attempt is
\* queued yet.
LEMMA CreateKeeps ==
    ASSUME TypeOK, TaskInv, AbortInv,
           NEW q \in Seq(Task), OnceEach(q),
           \A l \in Kinds, b \in Attempts : In(<<l, b>>, q) => In(<<l, b>>, queue),
           NEW a \in Attempts, Create(a, q)
    PROVE  /\ outcome[a] = "idle" /\ UNCHANGED <<aborted, abortedBy, race, cleanup>>
           /\ queue' \in Seq(Task) /\ OnceEach(queue')
           /\ outcome' \in [Attempts -> {"idle", "waiting", "sandbox", "error", "abort"}]
           /\ provider' \in [Attempts -> {"none", "working", "made", "failed"}]
           /\ \A b \in Attempts : b # a => outcome'[b] = outcome[b] /\ provider'[b] = provider[b]
           /\ \A l \in Kinds, b \in Attempts :
                 In(<<l, b>>, queue') <=> In(<<l, b>>, q) \/ (l = "caller" /\ b = a /\ aborted)
           /\ outcome'[a] = IF aborted THEN "abort" ELSE "waiting"
           /\ provider'[a] = IF aborted THEN "none" ELSE "working"
<1>1. outcome[a] = "idle" /\ provider[a] = "none" /\ UNCHANGED <<aborted, abortedBy, race, cleanup>>
    BY DEF Create, TaskInv
<1>2. ~In(<<"caller", a>>, q) /\ "caller" \in Kinds
    BY <1>1 DEF TaskInv, Waits, Kinds
<1>3. CASE aborted
    <2>1. /\ outcome' = [outcome EXCEPT ![a] = "abort"] /\ provider' = provider
          /\ queue' = Append(q, <<"caller", a>>)
        BY <1>3 DEF Create
    <2>2. /\ queue' \in Seq(Task) /\ OnceEach(queue')
          /\ \A l \in Kinds, b \in Attempts :
                In(<<l, b>>, queue') <=> In(<<l, b>>, q) \/ (l = "caller" /\ b = a)
        BY <1>2, <2>1, PushIn
    <2>3. /\ outcome' \in [Attempts -> {"idle", "waiting", "sandbox", "error", "abort"}]
          /\ \A b \in Attempts : outcome'[b] = IF b = a THEN "abort" ELSE outcome[b]
        BY <2>1 DEF TypeOK
    <2> QED
        BY <1>1, <1>3, <2>1, <2>2, <2>3 DEF TypeOK
<1>4. CASE ~aborted
    <2>1. /\ outcome' = [outcome EXCEPT ![a] = "waiting"] /\ queue' = q
          /\ provider' = [provider EXCEPT ![a] = "working"]
        BY <1>4 DEF Create
    <2> QED
        BY <1>1, <1>4, <2>1 DEF TypeOK
<1> QED
    BY <1>3, <1>4

\* The first settlement of a race queues the continuation of create.
LEMMA SettleKeeps ==
    ASSUME TypeOK, TaskInv, NEW k \in Kinds \ {"resume"}, NEW a \in Attempts, Running(k, a),
           NEW how \in {"value", "error", "abort"}, SettleRace(a, how)
    PROVE  /\ queue' \in Seq(Task) /\ OnceEach(queue')
           /\ race' \in [Attempts -> {"open", "value", "error", "abort"}]
           /\ race'[a] = IF race[a] = "open" THEN how ELSE race[a]
           /\ \A b \in Attempts : b # a => race'[b] = race[b]
           /\ \A l \in Kinds, b \in Attempts :
                 In(<<l, b>>, queue') <=>
                    \/ In(<<l, b>>, queue) /\ ~(l = k /\ b = a)
                    \/ l = "resume" /\ b = a /\ race[a] = "open"
<1> DEFINE q == Tail(queue)
<1>1. /\ q \in Seq(Task) /\ OnceEach(q)
      /\ \A l \in Kinds, b \in Attempts :
            In(<<l, b>>, q) <=> In(<<l, b>>, queue) /\ ~(l = k /\ b = a)
    BY PopIn DEF TypeOK, TaskInv
<1>2. CASE race[a] = "open"
    <2>1. race' = [race EXCEPT ![a] = how] /\ queue' = Append(q, <<"resume", a>>)
        BY <1>2 DEF SettleRace
    <2>2. ~In(<<"resume", a>>, q) /\ "resume" \in Kinds
        BY <1>1, <1>2 DEF TaskInv, Waits, Kinds
    <2> HIDE DEF q
    <2>3. /\ queue' \in Seq(Task) /\ OnceEach(queue')
          /\ \A l \in Kinds, b \in Attempts :
                In(<<l, b>>, queue') <=> In(<<l, b>>, q) \/ (l = "resume" /\ b = a)
        BY <1>1, <2>1, <2>2, PushIn
    <2>4. /\ race' \in [Attempts -> {"open", "value", "error", "abort"}]
          /\ \A b \in Attempts : race'[b] = IF b = a THEN how ELSE race[b]
        BY <2>1 DEF TypeOK
    <2> QED
        BY <1>1, <1>2, <2>3, <2>4
<1>3. CASE race[a] # "open"
    <2>1. race' = race /\ queue' = q
        BY <1>3 DEF SettleRace
    <2> HIDE DEF q
    <2> QED
        BY <1>1, <1>3, <2>1 DEF TypeOK
<1> QED
    BY <1>2, <1>3

----------------------------------------------------------------------------
\* Every step keeps the invariant.

LEMMA CreateStep ==
    ASSUME CascadeInv,
           NEW q \in Seq(Task), OnceEach(q), NEW a \in Attempts, Create(a, q),
           final' = "pending", UNCHANGED canFallback,
           \/ q = queue /\ final = "idle"
           \/ \E b \in Attempts : /\ Running("caller", b) /\ q = Tail(queue) /\ b # a
                                  /\ outcome[b] = "error"
    PROVE  CascadeInv'
<1> USE DEF Waits, Opened, OnItsWay, Kinds
<1>0. TypeOK /\ TaskInv /\ AbortInv /\ OrderInv /\ KeptInv
    BY DEF CascadeInv
<1> DEFINE Left ==
        /\ \A l \in Kinds, b \in Attempts :
              In(<<l, b>>, q) => In(<<l, b>>, queue)
        /\ \A l \in Kinds \ {"caller"}, b \in Attempts :
              In(<<l, b>>, q) <=> In(<<l, b>>, queue)
        /\ \A b \in Attempts : In(<<"caller", b>>, queue) /\ ~In(<<"caller", b>>, q) => outcome[b] = "error"
        /\ final \in {"idle", "pending"}
        /\ \A b \in Attempts : ~(outcome[b] = "waiting" \/ In(<<"caller", b>>, q))
<1>1. Left
    <2>1. CASE q = queue /\ final = "idle"
        BY <1>0, <2>1 DEF OrderInv, TaskInv
    <2>2. ASSUME NEW b \in Attempts, Running("caller", b), q = Tail(queue), outcome[b] = "error"
          PROVE  Left
        <3>1. /\ In(<<"caller", b>>, queue)
              /\ \A l \in Kinds, d \in Attempts :
                    In(<<l, d>>, q) <=> In(<<l, d>>, queue) /\ ~(l = "caller" /\ d = b)
            BY <1>0, <2>2, PopIn DEF TaskInv, TypeOK
        <3>2. Opened(b) /\ final = "pending" /\ \A d \in Attempts : Opened(d) => d = b
            BY <1>0, <3>1 DEF OrderInv
        <3> QED
            BY <2>2, <3>1, <3>2
    <2> QED
        BY <2>1, <2>2
<1>2. /\ outcome[a] = "idle" /\ UNCHANGED <<aborted, abortedBy, race, cleanup>>
      /\ queue' \in Seq(Task) /\ OnceEach(queue')
      /\ outcome' \in [Attempts -> {"idle", "waiting", "sandbox", "error", "abort"}]
      /\ provider' \in [Attempts -> {"none", "working", "made", "failed"}]
      /\ \A b \in Attempts : b # a => outcome'[b] = outcome[b] /\ provider'[b] = provider[b]
      /\ \A l \in Kinds, b \in Attempts :
            In(<<l, b>>, queue') <=> In(<<l, b>>, q) \/ (l = "caller" /\ b = a /\ aborted)
      /\ outcome'[a] = IF aborted THEN "abort" ELSE "waiting"
      /\ provider'[a] = IF aborted THEN "none" ELSE "working"
    BY <1>0, <1>1, CreateKeeps
<1>3. TypeOK'
    BY <1>0, <1>2 DEF TypeOK
<1>4. TaskInv'
    BY <1>0, <1>1, <1>2 DEF TaskInv
<1>5. AbortInv'
    BY <1>0, <1>2 DEF AbortInv
<1>6. OrderInv'
    BY <1>0, <1>1, <1>2 DEF OrderInv, TaskInv
<1>7. KeptInv'
    <2>1. \A b \in Attempts : outcome'[b] = "sandbox" => cleanup'[b] = "none"
        BY <1>0, <1>1, <1>2 DEF KeptInv, AbortInv
    <2>2. ASSUME NEW b \in Attempts, abortedBy' # "promise", provider'[b] = "made",
                 ~In(<<"settled", b>>, queue'), cleanup'[b] = "none"
          PROVE  OnItsWay(b)'
        BY <1>0, <1>1, <1>2, <2>2 DEF KeptInv, AbortInv, TaskInv
    <2> QED
        BY <2>1, <2>2 DEF KeptInv
<1> QED
    BY <1>3, <1>4, <1>5, <1>6, <1>7 DEF CascadeInv

LEMMA StartStep == CascadeInv /\ Start => CascadeInv'
<1> SUFFICES ASSUME CascadeInv, Start PROVE CascadeInv'
    OBVIOUS
<1>1. 1 \in Attempts /\ queue \in Seq(Task) /\ OnceEach(queue)
    BY CascadeAssumption DEF CascadeAssumption, CascadeInv, TypeOK, TaskInv
<1> QED
    BY <1>1, CreateStep DEF Start

LEMMA ToldStep == ASSUME CascadeInv, NEW a \in Attempts, Told(a) PROVE CascadeInv'
<1>0. TypeOK /\ TaskInv /\ AbortInv /\ OrderInv /\ KeptInv
    BY DEF CascadeInv
<1>1. Running("caller", a) /\ UNCHANGED canFallback
    BY DEF Told
<1>2. /\ Tail(queue) \in Seq(Task) /\ OnceEach(Tail(queue)) /\ In(<<"caller", a>>, queue)
      /\ \A l \in Kinds, b \in Attempts :
            In(<<l, b>>, Tail(queue)) <=> In(<<l, b>>, queue) /\ ~(l = "caller" /\ b = a)
    BY <1>0, <1>1, PopIn DEF TypeOK, TaskInv, Kinds
<1>3. final = "pending" /\ outcome[a] \notin {"idle", "waiting"}
    BY <1>0, <1>2 DEF OrderInv, Opened, Waits, TaskInv
<1>4. CASE outcome[a] \in FallsBack /\ a < N /\ Create(a + 1, Tail(queue)) /\ UNCHANGED final
    <2>1. a + 1 \in Attempts /\ a # a + 1 /\ outcome[a] = "error"
        BY <1>4, CascadeAssumption DEF CascadeAssumption, FallsBack
    <2> QED
        BY <1>1, <1>2, <1>3, <1>4, <2>1, CreateStep
<1>5. CASE /\ final' = outcome[a] /\ queue' = Tail(queue)
           /\ UNCHANGED <<aborted, abortedBy, attemptVars>>
    <2> USE DEF attemptVars, Waits, Opened, OnItsWay, Kinds
    <2>1. TypeOK'
        BY <1>0, <1>1, <1>2, <1>3, <1>5 DEF TypeOK
    <2>2. TaskInv' /\ AbortInv'
        BY <1>0, <1>2, <1>5 DEF TaskInv, AbortInv
    <2>3. \A b \in Attempts : Opened(b) => b = a
        BY <1>0, <1>2 DEF OrderInv
    <2>4. OrderInv'
        BY <1>0, <1>2, <1>3, <1>5, <2>3 DEF OrderInv
    <2>5. KeptInv'
        <3>1. \A b \in Attempts : outcome'[b] = "sandbox" => cleanup'[b] = "none"
            BY <1>0, <1>2, <1>3, <1>5, <2>3 DEF KeptInv, AbortInv
        <3>2. ASSUME NEW b \in Attempts, abortedBy' # "promise", provider'[b] = "made",
                     ~In(<<"settled", b>>, queue'), cleanup'[b] = "none"
              PROVE  OnItsWay(b)'
            BY <1>0, <1>2, <1>3, <1>5, <2>3, <3>2 DEF KeptInv, AbortInv, TaskInv
        <3> QED
            BY <3>1, <3>2 DEF KeptInv
    <2> QED
        BY <2>1, <2>2, <2>4, <2>5 DEF CascadeInv
<1> QED
    BY <1>4, <1>5 DEF Told

LEMMA AbortStep == CascadeInv /\ Abort /\ UNCHANGED <<canFallback, final>> => CascadeInv'
<1> SUFFICES ASSUME CascadeInv, Abort, UNCHANGED <<canFallback, final>> PROVE CascadeInv'
    OBVIOUS
<1> USE DEF Waits, Opened, OnItsWay, Kinds
<1>0. TypeOK /\ TaskInv /\ AbortInv /\ OrderInv /\ KeptInv
    BY DEF CascadeInv
<1>1. /\ ~aborted /\ aborted' = TRUE /\ abortedBy' \in {"timer", "promise"} /\ abortedBy' \in AbortSources
      /\ abortedBy' = "timer" => queue = <<>>
      /\ UNCHANGED <<provider, race, outcome, cleanup>>
    BY CreateAssumption DEF CreateAssumption, Abort, attemptVars
<1>2. abortedBy' = "timer" => \A l \in Kinds, b \in Attempts : ~In(<<l, b>>, queue)
    BY <1>1 DEF In
<1>3. ASSUME NEW a \in Attempts, Racing(a), queue' = Append(queue, <<"raceAbort", a>>)
      PROVE  CascadeInv'
    <2>1. ~In(<<"raceAbort", a>>, queue)
        BY <1>0, <1>1 DEF TaskInv
    <2>2. /\ queue' \in Seq(Task) /\ OnceEach(queue')
          /\ \A l \in Kinds, b \in Attempts :
                In(<<l, b>>, queue') <=> In(<<l, b>>, queue) \/ (l = "raceAbort" /\ b = a)
        <3>1. queue \in Seq(Task) /\ OnceEach(queue) /\ "raceAbort" \in Kinds
            BY <1>0 DEF TypeOK, TaskInv
        <3> QED
            BY <1>3, <2>1, <3>1, PushIn
    <2>3. TypeOK'
        BY <1>0, <1>1, <2>2 DEF TypeOK
    <2>4. TaskInv'
        BY <1>0, <1>1, <1>3, <2>2 DEF TaskInv, Racing
    <2>5. AbortInv'
        BY <1>1 DEF AbortInv
    <2>6. OrderInv'
        BY <1>0, <1>1, <2>2 DEF OrderInv
    <2>7. KeptInv'
        <3>1. \A b \in Attempts : outcome'[b] = "sandbox" => cleanup'[b] = "none"
            BY <1>0, <1>1, <1>2, <2>2 DEF KeptInv, AbortInv
        <3>2. ASSUME NEW b \in Attempts, abortedBy' # "promise", provider'[b] = "made",
                     ~In(<<"settled", b>>, queue'), cleanup'[b] = "none"
              PROVE  OnItsWay(b)'
            BY <1>0, <1>1, <1>2, <2>2, <3>2 DEF KeptInv, AbortInv, TaskInv
        <3> QED
            BY <3>1, <3>2 DEF KeptInv
    <2> QED
        BY <2>3, <2>4, <2>5, <2>6, <2>7 DEF CascadeInv
<1>4. CASE UNCHANGED queue
    <2>1. TypeOK' /\ TaskInv' /\ AbortInv' /\ OrderInv'
        BY <1>0, <1>1, <1>4 DEF TypeOK, TaskInv, AbortInv, OrderInv
    <2>2. KeptInv'
        <3>1. \A b \in Attempts : outcome'[b] = "sandbox" => cleanup'[b] = "none"
            BY <1>0, <1>1, <1>2, <1>4 DEF KeptInv, AbortInv
        <3>2. ASSUME NEW b \in Attempts, abortedBy' # "promise", provider'[b] = "made",
                     ~In(<<"settled", b>>, queue'), cleanup'[b] = "none"
              PROVE  OnItsWay(b)'
            BY <1>0, <1>1, <1>2, <1>4, <3>2 DEF KeptInv, AbortInv, TaskInv
        <3> QED
            BY <3>1, <3>2 DEF KeptInv
    <2> QED
        BY <2>1, <2>2 DEF CascadeInv
<1> QED
    BY <1>3, <1>4 DEF Abort

LEMMA WorldStep == ASSUME CascadeInv, NEW a \in Attempts, World(a) PROVE CascadeInv'
<1> USE DEF Waits, Opened, OnItsWay, Kinds
<1>0. TypeOK /\ TaskInv /\ AbortInv /\ OrderInv /\ KeptInv
    BY DEF CascadeInv
<1>1. CASE ProviderSettles(a)
    <2>1. /\ provider[a] = "working" /\ UNCHANGED <<aborted, abortedBy, race, outcome, cleanup, canFallback, final>>
          /\ queue' = Append(queue, <<"settled", a>>)
          /\ provider' \in [Attempts -> {"none", "working", "made", "failed"}]
          /\ provider'[a] \in {"made", "failed"} /\ \A b \in Attempts : b # a => provider'[b] = provider[b]
        BY <1>0, <1>1 DEF ProviderSettles, World, TypeOK
    <2>2. ~In(<<"settled", a>>, queue)
        BY <1>0, <2>1 DEF TaskInv
    <2>3. /\ queue' \in Seq(Task) /\ OnceEach(queue')
          /\ \A l \in Kinds, b \in Attempts :
                In(<<l, b>>, queue') <=> In(<<l, b>>, queue) \/ (l = "settled" /\ b = a)
        BY <1>0, <2>1, <2>2, PushIn DEF TypeOK, TaskInv
    <2>4. TypeOK'
        BY <1>0, <2>1, <2>3 DEF TypeOK
    <2>5. TaskInv'
        BY <1>0, <2>1, <2>3 DEF TaskInv
    <2>6. AbortInv' /\ OrderInv'
        BY <1>0, <2>1, <2>3 DEF AbortInv, OrderInv
    <2>7. KeptInv'
        <3>1. \A b \in Attempts : outcome'[b] = "sandbox" => cleanup'[b] = "none"
            BY <1>0, <2>1, <2>3 DEF KeptInv, AbortInv
        <3>2. ASSUME NEW b \in Attempts, abortedBy' # "promise", provider'[b] = "made",
                     ~In(<<"settled", b>>, queue'), cleanup'[b] = "none"
              PROVE  OnItsWay(b)'
            BY <1>0, <2>1, <2>3, <3>2 DEF KeptInv, AbortInv, TaskInv
        <3> QED
            BY <3>1, <3>2 DEF KeptInv
    <2> QED
        BY <2>4, <2>5, <2>6, <2>7 DEF CascadeInv
<1>2. CASE DestroyServed(a)
    <2>1. /\ UNCHANGED <<aborted, abortedBy, queue, provider, race, outcome, canFallback, final>>
          /\ cleanup[a] = "asked" /\ cleanup' \in [Attempts -> {"none", "asked", "gone", "failed"}]
          /\ cleanup'[a] # "none" /\ \A b \in Attempts : b # a => cleanup'[b] = cleanup[b]
        BY <1>0, <1>2 DEF DestroyServed, World, TypeOK
    <2>2. TypeOK' /\ TaskInv' /\ OrderInv'
        BY <1>0, <2>1 DEF TypeOK, TaskInv, OrderInv
    <2>3. AbortInv'
        BY <1>0, <2>1 DEF AbortInv
    <2>4. KeptInv'
        <3>1. \A b \in Attempts : outcome'[b] = "sandbox" => cleanup'[b] = "none"
            BY <1>0, <2>1 DEF KeptInv, AbortInv
        <3>2. ASSUME NEW b \in Attempts, abortedBy' # "promise", provider'[b] = "made",
                     ~In(<<"settled", b>>, queue'), cleanup'[b] = "none"
              PROVE  OnItsWay(b)'
            BY <1>0, <2>1, <3>2 DEF KeptInv, AbortInv, TaskInv
        <3> QED
            BY <3>1, <3>2 DEF KeptInv
    <2> QED
        BY <2>2, <2>3, <2>4 DEF CascadeInv
<1> QED
    BY <1>1, <1>2 DEF World

LEMMA HandlesStep ==
    ASSUME CascadeInv, NEW a \in Attempts, Handles(a), UNCHANGED <<canFallback, final>>
    PROVE  CascadeInv'
<1> USE DEF Waits, Opened, OnItsWay, Kinds
<1>0. TypeOK /\ TaskInv /\ AbortInv /\ OrderInv /\ KeptInv
    BY DEF CascadeInv
<1>1. CASE Settled(a)
    <2>1. /\ Running("settled", a) /\ UNCHANGED <<aborted, abortedBy, provider, outcome, canFallback, final>>
          /\ cleanup' = [cleanup EXCEPT ![a] = IF provider[a] = "made" /\ aborted THEN "asked" ELSE @]
          /\ SettleRace(a, IF provider[a] = "made" THEN "value" ELSE "error")
        BY <1>1 DEF Settled, DestroyLate
    <2>2. In(<<"settled", a>>, queue)
        BY <1>0, <2>1, PopIn DEF TypeOK, TaskInv
    <2>3. /\ queue' \in Seq(Task) /\ OnceEach(queue')
          /\ race' \in [Attempts -> {"open", "value", "error", "abort"}]
          /\ race'[a] = IF race[a] = "open" THEN (IF provider[a] = "made" THEN "value" ELSE "error")
                        ELSE race[a]
          /\ \A b \in Attempts : b # a => race'[b] = race[b]
          /\ \A l \in Kinds, b \in Attempts :
                In(<<l, b>>, queue') <=>
                   \/ In(<<l, b>>, queue) /\ ~(l = "settled" /\ b = a)
                   \/ l = "resume" /\ b = a /\ race[a] = "open"
        BY <1>0, <2>1, SettleKeeps
    <2>4. /\ cleanup' \in [Attempts -> {"none", "asked", "gone", "failed"}]
          /\ cleanup'[a] = IF provider[a] = "made" /\ aborted THEN "asked" ELSE cleanup[a]
          /\ \A b \in Attempts : b # a => cleanup'[b] = cleanup[b]
        BY <1>0, <2>1 DEF TypeOK
    <2>5. provider[a] \in {"made", "failed"} /\ race[a] \in {"open", "abort"} /\ outcome[a] \notin {"idle", "sandbox"}
          /\ (race[a] = "open" => outcome[a] = "waiting")
        BY <1>0, <2>2 DEF TaskInv
    <2>6. TypeOK'
        BY <1>0, <2>1, <2>3, <2>4 DEF TypeOK
    <2>7. TaskInv'
        BY <1>0, <2>1, <2>3, <2>5 DEF TaskInv
    <2>8. AbortInv'
        BY <1>0, <2>1, <2>3, <2>4, <2>5 DEF AbortInv
    <2>9. OrderInv'
        BY <1>0, <2>1, <2>3 DEF OrderInv
    <2>10. KeptInv'
        <3>1. \A b \in Attempts : outcome'[b] = "sandbox" => cleanup'[b] = "none"
            BY <1>0, <2>1, <2>3, <2>4, <2>5 DEF KeptInv, AbortInv
        <3>2. ASSUME NEW b \in Attempts, abortedBy' # "promise", provider'[b] = "made",
                     ~In(<<"settled", b>>, queue'), cleanup'[b] = "none"
              PROVE  OnItsWay(b)'
            BY <1>0, <2>1, <2>3, <2>4, <2>5, <3>2 DEF KeptInv, AbortInv, TaskInv
        <3> QED
            BY <3>1, <3>2 DEF KeptInv
    <2> QED
        BY <2>6, <2>7, <2>8, <2>9, <2>10 DEF CascadeInv
<1>2. CASE RaceAborted(a)
    <2>1. /\ Running("raceAbort", a) /\ SettleRace(a, "abort")
          /\ UNCHANGED <<aborted, abortedBy, provider, outcome, cleanup, canFallback, final>>
        BY <1>2 DEF RaceAborted
    <2>2. In(<<"raceAbort", a>>, queue)
        BY <1>0, <2>1, PopIn DEF TypeOK, TaskInv
    <2>3. /\ queue' \in Seq(Task) /\ OnceEach(queue')
          /\ race' \in [Attempts -> {"open", "value", "error", "abort"}]
          /\ race'[a] = IF race[a] = "open" THEN "abort" ELSE race[a]
          /\ \A b \in Attempts : b # a => race'[b] = race[b]
          /\ \A l \in Kinds, b \in Attempts :
                In(<<l, b>>, queue') <=>
                   \/ In(<<l, b>>, queue) /\ ~(l = "raceAbort" /\ b = a)
                   \/ l = "resume" /\ b = a /\ race[a] = "open"
        BY <1>0, <2>1, SettleKeeps
    <2>4. aborted /\ outcome[a] # "idle" /\ (race[a] = "open" => outcome[a] = "waiting")
        BY <1>0, <2>2 DEF TaskInv
    <2>5. TypeOK'
        BY <1>0, <2>1, <2>3 DEF TypeOK
    <2>6. TaskInv'
        BY <1>0, <2>1, <2>3, <2>4 DEF TaskInv
    <2>7. AbortInv' /\ OrderInv'
        BY <1>0, <2>1, <2>3, <2>4 DEF AbortInv, OrderInv
    <2>8. KeptInv'
        <3>1. \A b \in Attempts : outcome'[b] = "sandbox" => cleanup'[b] = "none"
            BY <1>0, <2>1, <2>3, <2>4 DEF KeptInv, AbortInv
        <3>2. ASSUME NEW b \in Attempts, abortedBy' # "promise", provider'[b] = "made",
                     ~In(<<"settled", b>>, queue'), cleanup'[b] = "none"
              PROVE  OnItsWay(b)'
            BY <1>0, <2>1, <2>3, <2>4, <3>2 DEF KeptInv, AbortInv, TaskInv
        <3> QED
            BY <3>1, <3>2 DEF KeptInv
    <2> QED
        BY <2>5, <2>6, <2>7, <2>8 DEF CascadeInv
<1>3. CASE Resumed(a)
    <2>1. /\ Running("resume", a) /\ outcome' = [outcome EXCEPT ![a] = Outcome(a)]
          /\ queue' = Append(Tail(queue), <<"caller", a>>)
          /\ UNCHANGED <<aborted, abortedBy, provider, race, cleanup, canFallback, final>>
        BY <1>3 DEF Resumed
    <2>2. /\ Tail(queue) \in Seq(Task) /\ OnceEach(Tail(queue)) /\ In(<<"resume", a>>, queue)
          /\ \A l \in Kinds, b \in Attempts :
                In(<<l, b>>, Tail(queue)) <=> In(<<l, b>>, queue) /\ ~(l = "resume" /\ b = a)
        BY <1>0, <2>1, PopIn DEF TypeOK, TaskInv
    <2>3. race[a] # "open" /\ outcome[a] = "waiting" /\ race[a] \in {"value", "error", "abort"}
        BY <1>0, <2>2 DEF TaskInv, TypeOK
    <2>4. ~In(<<"caller", a>>, Tail(queue))
        BY <1>0, <2>2, <2>3 DEF TaskInv
    <2>5. /\ queue' \in Seq(Task) /\ OnceEach(queue')
          /\ \A l \in Kinds, b \in Attempts :
                In(<<l, b>>, queue') <=> \/ In(<<l, b>>, queue) /\ ~(l = "resume" /\ b = a)
                                         \/ l = "caller" /\ b = a
        BY <2>1, <2>2, <2>4, PushIn
    <2>6. /\ Outcome(a) \in {"sandbox", "error", "abort"}
          /\ Outcome(a) = "sandbox" <=> race[a] = "value" /\ ~aborted
        BY <2>3 DEF Outcome
    <2>7. /\ outcome' \in [Attempts -> {"idle", "waiting", "sandbox", "error", "abort"}]
          /\ outcome'[a] = Outcome(a) /\ \A b \in Attempts : b # a => outcome'[b] = outcome[b]
        BY <1>0, <2>1, <2>6 DEF TypeOK
    <2>8. TypeOK'
        BY <1>0, <2>1, <2>5, <2>7 DEF TypeOK
    <2>9. TaskInv'
        BY <1>0, <2>1, <2>3, <2>5, <2>6, <2>7 DEF TaskInv
    <2>10. AbortInv'
        BY <1>0, <2>1 DEF AbortInv
    <2>11. OrderInv'
        BY <1>0, <2>1, <2>3, <2>5, <2>6, <2>7 DEF OrderInv
    <2>12. KeptInv'
        <3>1. \A b \in Attempts : outcome'[b] = "sandbox" => cleanup'[b] = "none"
            BY <1>0, <2>1, <2>3, <2>5, <2>6, <2>7 DEF KeptInv, AbortInv
        <3>2. ASSUME NEW b \in Attempts, abortedBy' # "promise", provider'[b] = "made",
                     ~In(<<"settled", b>>, queue'), cleanup'[b] = "none"
              PROVE  OnItsWay(b)'
            BY <1>0, <2>1, <2>3, <2>5, <2>6, <2>7, <3>2 DEF KeptInv, AbortInv, TaskInv
        <3> QED
            BY <3>1, <3>2 DEF KeptInv
    <2> QED
        BY <2>8, <2>9, <2>10, <2>11, <2>12 DEF CascadeInv
<1> QED
    BY <1>1, <1>2, <1>3 DEF Handles

LEMMA InvStep == CascadeInv /\ [Next]_vars => CascadeInv'
<1>1. CascadeInv /\ UNCHANGED vars => CascadeInv'
    BY DEF CascadeInv, TypeOK, TaskInv, AbortInv, OrderInv, KeptInv, Waits, Opened, OnItsWay,
           vars, createVars
<1> QED
    BY <1>1, StartStep, ToldStep, AbortStep, WorldStep, HandlesStep DEF Next, Microtask

LEMMA InvAlways == Spec => []CascadeInv
BY InvInit, InvStep, PTL DEF Spec

----------------------------------------------------------------------------
\* Every variable keeps its type (factory.ts:584-600, compute.ts:214-223).
THEOREM CascadeTypeCorrect == Spec => []TypeOK
<1>1. CascadeInv => TypeOK
    BY DEF CascadeInv
<1> QED
    BY <1>1, InvAlways, PTL

\* However aborts, late answers and fallbacks interleave, the cleanup handler leaves the
\* sandbox alone that create resolved with (factory.ts:593, 602).
THEOREM ReturnedIsKept == Spec => []ReturnedIsNotDestroyed
<1>1. CascadeInv => ReturnedIsNotDestroyed
    BY DEF CascadeInv, KeptInv, ReturnedIsNotDestroyed
<1> QED
    BY <1>1, InvAlways, PTL

\* Every sandbox that was made is returned or asked to be destroyed, unless the abort came out
\* of a promise's continuation (factory.ts:590-598).
THEOREM NoneIsLeftBehind == Spec => []NothingLeftBehind
<1>1. CascadeInv => NothingLeftBehind
    <2> SUFFICES ASSUME CascadeInv, NEW a \in Attempts, Over, abortedBy # "promise",
                        provider[a] = "made", ~Queued("settled", a), cleanup[a] = "none"
                 PROVE  final = "sandbox" /\ outcome[a] = "sandbox"
        BY DEF NothingLeftBehind
    <2>1. ~Waits("settled", a)
        <3>1. DOMAIN queue = 1..Len(queue)
            BY DEF CascadeInv, TypeOK
        <3> QED
            BY <3>1 DEF Queued, Waits, In
    <2>2. OnItsWay(a)
        BY <2>1 DEF CascadeInv, KeptInv
    <2>3. ~Opened(a)
        BY DEF CascadeInv, OrderInv, Over
    <2> QED
        BY <2>2, <2>3 DEF OnItsWay, Opened
<1> QED
    BY <1>1, InvAlways, PTL

\* After an abort no further provider is asked to make a sandbox (factory.ts:585, compute.ts:228).
THEOREM AbortedAsksNoOne == Spec => AbortStopsAsking
<1>1. CascadeInv /\ [Next]_vars =>
          [\A a \in Attempts : aborted /\ provider[a] = "none" => provider'[a] = "none"]_vars
    <2> SUFFICES ASSUME CascadeInv, Next, NEW a \in Attempts, aborted, provider[a] = "none"
                 PROVE  provider'[a] = "none"
        OBVIOUS
    <2>1. provider \in [Attempts -> {"none", "working", "made", "failed"}]
        BY DEF CascadeInv, TypeOK
    <2>2. ASSUME NEW b \in Attempts, ProviderSettles(b) PROVE provider'[a] = "none"
        BY <2>1, <2>2 DEF ProviderSettles
    <2>3. Start \/ Abort \/ Microtask \/ (\E b \in Attempts : DestroyServed(b)) => UNCHANGED provider
        BY DEF Start, Abort, Microtask, Handles, Settled, RaceAborted, Resumed, Told, Create,
               DestroyServed, attemptVars
    <2> QED
        BY <2>2, <2>3 DEF Next, World
<1> QED
    BY <1>1, InvAlways, PTL DEF Spec, AbortStopsAsking
=============================================================================
