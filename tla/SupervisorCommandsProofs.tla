---------------------- MODULE SupervisorCommandsProofs ----------------------
(***************************************************************************)
(* Proofs that SupervisorCommands keeps its safety properties, for any     *)
(* commands, evictions and number of reconnects.  The inductive invariant  *)
(* is CommandsInv, in four parts that are kept step by step: the queues    *)
(* and the order of the continuations (Queues, LockStep), the latch and    *)
(* the update restart (LatchCounts, Restarts), the copies of a command on  *)
(* the wire (CopiesInOrder, Connections) and what client, journal and      *)
(* handlers know of it (Requests, Executions).                             *)
(***************************************************************************)
EXTENDS SupervisorCommands, SequenceTheorems, FiniteSetTheorems, WellFoundedInduction, TLAPS

-----------------------------------------------------------------------------
(* Queues *)

(* What Append does to a queue. *)
LEMMA InAppend ==
  ASSUME NEW S, NEW q \in Seq(S), NEW x \in S
  PROVE  /\ Append(q, x) \in Seq(S)
         /\ \A y : In(y, Append(q, x)) <=> In(y, q) \/ y = x
         /\ \A y : Once(y, q) /\ y # x => Once(y, Append(q, x))
         /\ Once(x, Append(q, x)) <=> ~In(x, q)
<1>1. /\ Append(q, x) \in Seq(S) /\ Len(q) \in Nat /\ Len(Append(q, x)) = Len(q) + 1
      /\ \A i \in 1 .. Len(q) : Append(q, x)[i] = q[i]
      /\ Append(q, x)[Len(q) + 1] = x
  OBVIOUS
<1> DEFINE a == Append(q, x)
<1> HIDE DEF a
<1>2. \A y : In(y, a) <=> In(y, q) \/ y = x
  BY <1>1 DEF In, a
<1>3. \A y : Once(y, q) /\ y # x => Once(y, a)
  BY <1>1 DEF Once, a
<1>4. Once(x, a) <=> ~In(x, q)
  BY <1>1 DEF Once, In, a
<1> QED BY <1>1, <1>2, <1>3, <1>4 DEF a

(* What Tail leaves of a queue. *)
LEMMA InTail ==
  ASSUME NEW S, NEW q \in Seq(S), q # <<>>
  PROVE  /\ Head(q) \in S /\ Tail(q) \in Seq(S)
         /\ In(Head(q), q)
         /\ \A y : In(y, q) <=> y = Head(q) \/ In(y, Tail(q))
         /\ \A y : Once(y, q) => Once(y, Tail(q))
         /\ Once(Head(q), q) => ~In(Head(q), Tail(q))
<1>1. /\ Head(q) \in S /\ Tail(q) \in Seq(S) /\ Len(q) \in Nat /\ Len(q) >= 1
      /\ Len(Tail(q)) = Len(q) - 1 /\ Head(q) = q[1]
      /\ \A i \in 1 .. Len(q) - 1 : Tail(q)[i] = q[i + 1]
  OBVIOUS
<1> DEFINE t == Tail(q)
           n == Len(q)
<1> HIDE DEF t, n
<1>2. \A y : In(y, q) <=> y = Head(q) \/ In(y, t)
  <2> SUFFICES ASSUME NEW y PROVE In(y, q) <=> y = Head(q) \/ In(y, t)
    OBVIOUS
  <2>1. ASSUME NEW i \in 1 .. n, q[i] = y PROVE y = Head(q) \/ In(y, t)
    <3>1. CASE i = 1
      BY <1>1, <2>1, <3>1
    <3>2. CASE i # 1
      <4>1. i - 1 \in 1 .. n - 1 /\ (i - 1) + 1 = i
        BY <1>1, <3>2 DEF n
      <4>2. t[i - 1] = y
        BY <1>1, <2>1, <4>1 DEF t, n
      <4> QED BY <1>1, <4>1, <4>2 DEF In, t, n
    <3> QED BY <3>1, <3>2
  <2>2. ASSUME NEW i \in 1 .. n - 1, t[i] = y PROVE In(y, q)
    <3>1. i + 1 \in 1 .. n /\ q[i + 1] = y
      BY <1>1, <2>2 DEF t, n
    <3> QED BY <3>1 DEF In, n
  <2>3. 1 \in 1 .. n /\ q[1] = Head(q)
    BY <1>1 DEF n
  <2> QED BY <1>1, <2>1, <2>2, <2>3 DEF In, t, n
<1>3. ASSUME NEW y, Once(y, q) PROVE Once(y, t)
  <2> SUFFICES ASSUME NEW i \in 1 .. n - 1, NEW j \in 1 .. n - 1, t[i] = y, t[j] = y
               PROVE  i = j
    BY <1>1 DEF Once, t, n
  <2>1. i + 1 \in 1 .. n /\ j + 1 \in 1 .. n /\ q[i + 1] = y /\ q[j + 1] = y
    BY <1>1 DEF t, n
  <2> QED BY <1>3, <2>1 DEF Once, n
<1>4. ASSUME Once(Head(q), q), In(Head(q), t) PROVE FALSE
  <2>1. PICK i \in 1 .. n - 1 : t[i] = Head(q)
    BY <1>1, <1>4 DEF In, t, n
  <2>2. i + 1 \in 1 .. n /\ 1 \in 1 .. n /\ i + 1 # 1 /\ q[i + 1] = Head(q) /\ q[1] = Head(q)
    BY <1>1, <2>1 DEF t, n
  <2> QED BY <1>4, <2>2 DEF Once, n
<1>5. In(Head(q), q)
  BY <1>2
<1> QED BY <1>1, <1>2, <1>3, <1>4, <1>5 DEF t

(* The empty queue. *)
LEMMA InEmpty ==
  ASSUME NEW x
  PROVE  ~In(x, <<>>) /\ Once(x, <<>>)
BY DEF In, Once

(* A non-empty set of natural numbers has a least element. *)
LEMMA Least ==
  ASSUME NEW n \in Nat, NEW I \in SUBSET (1 .. n), I # {}
  PROVE  \E k \in I : \A i \in I : k <= i
<1>1. IsWellFoundedOn(OpToRel(<, Nat), Nat)
  BY NatLessThanWellFounded
<1>2. I \subseteq Nat
  OBVIOUS
<1>3. PICK k \in I : \A i \in I : ~(<<i, k>> \in OpToRel(<, Nat))
  BY <1>1, <1>2, WFMin
<1>4. ASSUME NEW i \in Nat, i < k PROVE <<i, k>> \in OpToRel(<, Nat)
  <2>1. <<i, k>> \in Nat \X Nat /\ <<i, k>>[1] < <<i, k>>[2]
    BY <1>2, <1>4
  <2> QED BY <2>1 DEF OpToRel
<1>5. ASSUME NEW i \in I PROVE k <= i
  <2>1. i \in Nat /\ k \in Nat
    BY <1>2
  <2>2. ~(i < k)
    BY <1>3, <1>4, <2>1
  <2> QED BY <2>1, <2>2
<1> QED BY <1>5

(* What RemoveFirst leaves of a queue. *)
LEMMA InRemoveFirst ==
  ASSUME NEW S, NEW q \in Seq(S), NEW x
  PROVE  /\ RemoveFirst(q, x) \in Seq(S)
         /\ \A y : In(y, RemoveFirst(q, x)) => In(y, q)
         /\ \A y : Once(y, q) => Once(y, RemoveFirst(q, x))
         /\ Once(x, q) => ~In(x, RemoveFirst(q, x))
<1>1. CASE ~In(x, q)
  <2>1. RemoveFirst(q, x) = q
    BY <1>1 DEF In, RemoveFirst
  <2> QED BY <1>1, <2>1
<1>2. CASE In(x, q)
  <2> DEFINE n == Len(q)
             I == {i \in 1 .. n : q[i] = x}
             k == Min(I)
             r == RemoveAt(q, k)
  <2>1. n \in Nat /\ I \in SUBSET (1 .. n) /\ I # {}
    BY <1>2 DEF In
  <2>2. RemoveFirst(q, x) = r
    BY <1>2, <2>1 DEF In, RemoveFirst, SelectInSeq
  <2>3. k \in 1 .. n /\ q[k] = x
    <3>1. \E m \in I : \A i \in I : m <= i
      BY <2>1, Least
    <3>2. k \in I
      BY <3>1 DEF Min
    <3> QED BY <3>2
  <2> HIDE DEF k, I
  <2>4. /\ r \in Seq(S) /\ Len(r) = n - 1
        /\ \A i \in 1 .. n - 1 : r[i] = IF i < k THEN q[i] ELSE q[i + 1]
    <3> DEFINE a == SubSeq(q, 1, k - 1)
               b == SubSeq(q, k + 1, n)
    <3>1. /\ a \in Seq(S) /\ Len(a) = k - 1
          /\ \A i \in 1 .. k - 1 : a[i] = q[i]
      BY <2>1, <2>3
    <3>2. /\ b \in Seq(S) /\ Len(b) = n - k
          /\ \A i \in 1 .. n - k : b[i] = q[k + i]
      <4>1. \A i \in k + 1 .. n : q[i] \in S
        BY <2>1, <2>3
      <4>2. k \in Int /\ n \in Int /\ k <= n
        BY <2>1, <2>3
      <4> QED BY <4>1, <4>2, SubSeqProperties
    <3>3. r = a \o b
      BY DEF RemoveAt
    <3> HIDE DEF a, b, n, r
    <3>4. /\ a \o b \in Seq(S) /\ Len(a \o b) = Len(a) + Len(b)
          /\ \A i \in 1 .. Len(a) + Len(b) :
               (a \o b)[i] = IF i <= Len(a) THEN a[i] ELSE b[i - Len(a)]
      BY <3>1, <3>2, ConcatProperties
    <3>5. ASSUME NEW i \in 1 .. n - 1 PROVE r[i] = IF i < k THEN q[i] ELSE q[i + 1]
      <4>1. CASE i < k
        BY <2>1, <2>3, <3>1, <3>2, <3>3, <3>4, <4>1
      <4>2. CASE ~(i < k)
        <5>1. i - (k - 1) \in 1 .. n - k /\ k + (i - (k - 1)) = i + 1
          BY <2>1, <2>3, <4>2
        <5>2. r[i] = b[i - (k - 1)]
          BY <2>1, <2>3, <3>1, <3>2, <3>3, <3>4, <4>2
        <5> QED BY <3>2, <4>2, <5>1, <5>2
      <4> QED BY <4>1, <4>2
    <3> QED BY <2>1, <2>3, <3>1, <3>2, <3>3, <3>4, <3>5
  <2> HIDE DEF r, n
  <2> DEFINE at(i) == IF i < k THEN i ELSE i + 1
  <2>5. ASSUME NEW i \in 1 .. n - 1
        PROVE  at(i) \in 1 .. n /\ at(i) # k /\ r[i] = q[at(i)]
    BY <2>1, <2>3, <2>4
  <2>6. ASSUME NEW i \in 1 .. n - 1, NEW j \in 1 .. n - 1, at(i) = at(j)
        PROVE  i = j
    BY <2>1, <2>3, <2>6
  <2> HIDE DEF at
  <2>7. \A y : In(y, r) => In(y, q)
    BY <2>4, <2>5 DEF In, n
  <2>8. \A y : Once(y, q) => Once(y, r)
    BY <2>4, <2>5, <2>6 DEF Once, n
  <2>9. Once(x, q) => ~In(x, r)
    BY <2>3, <2>4, <2>5 DEF Once, In, n
  <2> QED BY <2>2, <2>4, <2>7, <2>8, <2>9
<1> QED BY <1>1, <1>2

-----------------------------------------------------------------------------
(* The handlers in the job queue move in step *)

(* The handler in front leaves the queue, or goes to its end one stage on. *)
LEMMA Rotated ==
  ASSUME NEW S, NEW q \in Seq(S), q # <<>>, NEW h \in Handlers, h \in S, h = Head(q), Once(h, q),
         NEW st \in [Handlers -> 1 .. 5], NEW nt \in [Handlers -> 1 .. 5],
         InStep(q, st), \A g \in Handlers : g # h => nt[g] = st[g]
  PROVE  /\ InStep(Tail(q), nt)
         /\ nt[h] = st[h] + 1 \/ (st[h] = 5 /\ nt[h] = 5) => InStep(Append(Tail(q), h), nt)
<1> DEFINE t == Tail(q)
           n == Len(t)
           a == Append(t, h)
<1>1. /\ t \in Seq(S) /\ n \in Nat /\ Len(q) = n + 1 /\ q[1] = h
      /\ \A i \in 1 .. n : t[i] = q[i + 1]
  OBVIOUS
<1>2. /\ Len(a) = n + 1 /\ a[n + 1] = h
      /\ \A i \in 1 .. n : a[i] = t[i]
  BY <1>1
<1>3. \A i \in 1 .. n : t[i] # h
  BY <1>1, InTail DEF In
<1> HIDE DEF t, n, a
<1>4. ASSUME NEW i \in 1 .. n, NEW j \in 1 .. n, i < j, t[i] \in Handlers, t[j] \in Handlers
      PROVE  nt[t[i]] <= nt[t[j]] /\ nt[t[j]] <= nt[t[i]] + 1
  <2>1. i + 1 \in 1 .. Len(q) /\ j + 1 \in 1 .. Len(q) /\ i + 1 < j + 1
    BY <1>1, <1>4
  <2>2. st[t[i]] <= st[t[j]] /\ st[t[j]] <= st[t[i]] + 1
    BY <1>1, <1>4, <2>1 DEF InStep
  <2> QED BY <1>3, <1>4, <2>2
<1>5. InStep(t, nt)
  BY <1>4 DEF InStep, n
<1>6. ASSUME nt[h] = st[h] + 1 \/ (st[h] = 5 /\ nt[h] = 5) PROVE InStep(a, nt)
  <2> SUFFICES ASSUME NEW i \in 1 .. n + 1, NEW j \in 1 .. n + 1, i < j,
                      a[i] \in Handlers, a[j] \in Handlers
               PROVE  nt[a[i]] <= nt[a[j]] /\ nt[a[j]] <= nt[a[i]] + 1
    BY <1>2 DEF InStep
  <2>1. i \in 1 .. n /\ a[i] = t[i]
    BY <1>1, <1>2
  <2>2. CASE j = n + 1
    <3>1. i + 1 \in 1 .. Len(q) /\ 1 \in 1 .. Len(q) /\ 1 < i + 1 /\ q[i + 1] = t[i]
      BY <1>1, <2>1
    <3>2. st[h] <= st[t[i]] /\ st[t[i]] <= st[h] + 1
      BY <1>1, <2>1, <3>1 DEF InStep
    <3>3. nt[t[i]] = st[t[i]] /\ st[t[i]] \in 1 .. 5 /\ st[h] \in 1 .. 5 /\ nt[h] \in 1 .. 5
      BY <1>3, <2>1
    <3> QED BY <1>2, <1>6, <2>1, <2>2, <3>2, <3>3
  <2>3. CASE j # n + 1
    <3>1. j \in 1 .. n /\ a[j] = t[j]
      BY <1>1, <1>2, <2>3
    <3> QED BY <1>4, <2>1, <3>1
  <2> QED BY <2>2, <2>3
<1> QED BY <1>5, <1>6 DEF t, a

(* What is not a handler does not disturb the order. *)
LEMMA RotatedOther ==
  ASSUME NEW S, NEW q \in Seq(S), q # <<>>, NEW v \in S, v \notin Handlers,
         NEW st, InStep(q, st)
  PROVE  InStep(Tail(q), st) /\ InStep(Append(Tail(q), v), st)
<1> DEFINE t == Tail(q)
           n == Len(t)
           a == Append(t, v)
<1>1. /\ t \in Seq(S) /\ n \in Nat /\ Len(q) = n + 1
      /\ \A i \in 1 .. n : t[i] = q[i + 1]
  OBVIOUS
<1>2. /\ Len(a) = n + 1 /\ a[n + 1] = v
      /\ \A i \in 1 .. n : a[i] = t[i]
  BY <1>1
<1> HIDE DEF t, n, a
<1>4. ASSUME NEW i \in 1 .. n, NEW j \in 1 .. n, i < j, t[i] \in Handlers, t[j] \in Handlers
      PROVE  st[t[i]] <= st[t[j]] /\ st[t[j]] <= st[t[i]] + 1
  <2>1. i + 1 \in 1 .. Len(q) /\ j + 1 \in 1 .. Len(q) /\ i + 1 < j + 1
    BY <1>1, <1>4
  <2> QED BY <1>1, <1>4, <2>1 DEF InStep
<1>5. InStep(t, st)
  BY <1>4 DEF InStep, n
<1>6. InStep(a, st)
  <2> SUFFICES ASSUME NEW i \in 1 .. n + 1, NEW j \in 1 .. n + 1, i < j,
                      a[i] \in Handlers, a[j] \in Handlers
               PROVE  st[a[i]] <= st[a[j]] /\ st[a[j]] <= st[a[i]] + 1
    BY <1>2 DEF InStep
  <2>1. i \in 1 .. n /\ j \in 1 .. n /\ a[i] = t[i] /\ a[j] = t[j]
    BY <1>1, <1>2
  <2> QED BY <1>4, <2>1
<1> QED BY <1>5, <1>6 DEF t, a

(* The stages are numbers from 1 to 5. *)
LEMMA StageType ==
  ASSUME hpc \in [Handlers -> HandlerSteps]
  PROVE  /\ Stage \in [Handlers -> 1 .. 5]
         /\ \A h \in Handlers :
              /\ hpc[h] = "fenced" <=> Stage[h] = 1
              /\ hpc[h] = "hop1" <=> Stage[h] = 2
              /\ hpc[h] = "hop2" <=> Stage[h] = 3
              /\ hpc[h] = "hop3" <=> Stage[h] = 4
              /\ hpc[h] \notin Waiting <=> Stage[h] = 5
BY DEF Stage, HandlerSteps, Waiting

-----------------------------------------------------------------------------
(* The queues: Queues and LockStep *)

Jobs == Handlers \cup Evictors

(* A step that touches neither the queues nor what they depend on. *)
LEMMA QueuesKept ==
  ASSUME Queues, LockStep, UNCHANGED <<jobs, hpc, fence, fenceQ, drainQ, phase>>
  PROVE  Queues' /\ LockStep'
<1>1. Queues'
  BY DEF Queues, In, Once
<1>2. Stage' = Stage
  BY DEF Stage
<1>3. LockStep'
  <2>1. InStep(jobs', Stage')
    BY <1>2 DEF LockStep
  <2>2. ASSUME NEW h \in Handlers, NEW g \in Handlers, In(h, jobs'), hpc'[h] \in Waiting
        PROVE  ~In(g, fenceQ')
    BY <2>2 DEF LockStep
  <2>3. ASSUME NEW h \in Handlers, Draining' PROVE ~In(h, fenceQ')
    BY <2>3 DEF LockStep, Draining
  <2> QED BY <2>1, <2>2, <2>3 DEF LockStep, In
<1> QED BY <1>1, <1>3

(* One stage further on in the job queue. *)
Forward == {<<"fenced", "hop1">>, <<"hop1", "hop2">>, <<"hop2", "hop3">>, <<"hop3", "drained">>,
            <<"drain", "drained">>, <<"drained", "drained">>}

(* The handler h has its turn: it leaves, goes to the end of the job queue,
   or waits for the latch. *)
Turn(h, s) ==
  /\ hpc' = [hpc EXCEPT ![h] = s]
  /\ UNCHANGED <<fence, fenceQ>>
  /\ \/ jobs' = Tail(jobs) /\ drainQ' = drainQ /\ s \in {"off", "exec", "preparing"}
     \/ jobs' = Tail(jobs) /\ drainQ' = Append(drainQ, h) /\ s = "drain"
     \/ jobs' = Append(Tail(jobs), h) /\ drainQ' = drainQ /\ <<hpc[h], s>> \in Forward
  /\ Draining' => Draining \/ hpc[h] \in Waiting

(* A turn preserves the order of the queues. *)
LEMMA TurnStep ==
  ASSUME TypeOK, Queues, LockStep, NEW h \in Handlers, Runs(h), NEW s \in HandlerSteps, Turn(h, s)
  PROVE  /\ Queues' /\ LockStep'
         /\ jobs' \in Seq(Jobs) /\ drainQ' \in Seq(Jobs) /\ hpc' \in [Handlers -> HandlerSteps]
<1>0. /\ jobs \in Seq(Jobs) /\ jobs # <<>> /\ h = Head(jobs) /\ drainQ \in Seq(Jobs) /\ h \in Jobs
      /\ hpc \in [Handlers -> HandlerSteps]
  BY DEF TypeOK, Runs, Jobs
<1>1. /\ In(h, jobs) /\ ~In(h, fenceQ) /\ ~In(h, drainQ) /\ ~In(h, Tail(jobs))
      /\ Once(h, jobs)
      /\ Tail(jobs) \in Seq(Jobs)
      /\ \A g : In(g, jobs) <=> g = h \/ In(g, Tail(jobs))
      /\ \A g : Once(g, jobs) => Once(g, Tail(jobs))
  BY <1>0, InTail DEF Queues
<1>2. /\ hpc' \in [Handlers -> HandlerSteps] /\ hpc'[h] = s
      /\ \A g \in Handlers : g # h => hpc'[g] = hpc[g]
      /\ fence' = fence /\ fenceQ' = fenceQ
  BY <1>0 DEF Turn
<1>3. /\ Append(Tail(jobs), h) \in Seq(Jobs)
      /\ \A g : In(g, Append(Tail(jobs), h)) <=> In(g, jobs)
      /\ \A g : Once(g, jobs) => Once(g, Append(Tail(jobs), h))
  <2> DEFINE t == Tail(jobs)
  <2>1. t \in Seq(Jobs) /\ ~In(h, t)
    BY <1>1
  <2> HIDE DEF t
  <2>2. /\ Append(t, h) \in Seq(Jobs)
        /\ \A g : In(g, Append(t, h)) <=> In(g, t) \/ g = h
        /\ \A g : Once(g, t) /\ g # h => Once(g, Append(t, h))
        /\ Once(h, Append(t, h))
    BY <1>0, <2>1, InAppend
  <2> QED BY <1>1, <2>2 DEF t
<1>4. /\ Append(drainQ, h) \in Seq(Jobs)
      /\ \A g : In(g, Append(drainQ, h)) <=> In(g, drainQ) \/ g = h
      /\ \A g : Once(g, drainQ) => Once(g, Append(drainQ, h))
  BY <1>0, <1>1, InAppend
<1>5. /\ jobs' \in Seq(Jobs) /\ drainQ' \in Seq(Jobs)
      /\ \A g : In(g, jobs') => In(g, jobs)
      /\ \A g : g # h => (In(g, jobs') <=> In(g, jobs)) /\ (In(g, drainQ') <=> In(g, drainQ))
      /\ \A g : (Once(g, jobs) => Once(g, jobs')) /\ (Once(g, drainQ) => Once(g, drainQ'))
      /\ In(h, jobs') => <<hpc[h], s>> \in Forward /\ ~In(h, drainQ')
      /\ In(h, drainQ') => s = "drain"
      /\ s \in Waiting => In(h, jobs') /\ hpc[h] \in Waiting
    BY <1>0, <1>1, <1>3, <1>4 DEF Turn, Forward, Waiting
<1>6. Queues'
  <2> SUFFICES ASSUME NEW g \in Handlers
               PROVE  /\ In(g, jobs') => hpc'[g] \in Waiting \cup {"drain", "drained"}
                      /\ In(g, fenceQ) => hpc'[g] = "fenced" /\ g[1] \notin DrainCmds /\ ~In(g, jobs')
                      /\ In(g, drainQ') => hpc'[g] = "drain" /\ ~In(g, jobs')
                      /\ Once(g, jobs') /\ Once(g, fenceQ) /\ Once(g, drainQ')
                      /\ hpc'[g] \in Waiting => In(g, jobs') \/ In(g, fenceQ)
                      /\ fence = NoFence => ~In(g, fenceQ)
    BY <1>2 DEF Queues, In, Once
  <2>1. CASE g # h
    BY <1>2, <1>5, <2>1 DEF Queues
  <2>2. CASE g = h
    BY <1>1, <1>2, <1>5, <2>2 DEF Queues, Forward, Waiting
  <2> QED BY <2>1, <2>2
<1>7. LockStep'
  <2>1. InStep(jobs', Stage')
    <3>1. /\ Stage \in [Handlers -> 1 .. 5] /\ Stage' \in [Handlers -> 1 .. 5]
          /\ \A g \in Handlers : g # h => Stage'[g] = Stage[g]
      <4>1. Stage \in [Handlers -> 1 .. 5] /\ Stage' \in [Handlers -> 1 .. 5]
        BY <1>0, <1>2, StageType DEF Stage, HandlerSteps
      <4> QED BY <1>2, <4>1 DEF Stage
    <3>2. InStep(jobs, Stage)
      BY DEF LockStep
    <3>3. <<hpc[h], s>> \in Forward => Stage'[h] = Stage[h] + 1 \/ (Stage[h] = 5 /\ Stage'[h] = 5)
      BY <1>2 DEF Stage, Forward
    <3> DEFINE st == Stage
               nt == Stage'
    <3> HIDE DEF st, nt
    <3>4. InStep(Tail(jobs), nt) /\ (<<hpc[h], s>> \in Forward => InStep(Append(Tail(jobs), h), nt))
      BY <1>0, <1>1, <3>1, <3>2, <3>3, Rotated DEF st, nt
    <3> QED BY <3>4 DEF Turn, nt
  <2>2. ASSUME NEW f \in Handlers, NEW g \in Handlers, In(f, jobs'), hpc'[f] \in Waiting
        PROVE  ~In(g, fenceQ)
    <3>1. In(f, jobs) /\ hpc[f] \in Waiting
      BY <1>1, <1>2, <1>5, <2>2
    <3> QED BY <3>1 DEF LockStep
  <2>3. ASSUME NEW g \in Handlers, Draining' PROVE ~In(g, fenceQ)
    BY <1>1, <2>3 DEF LockStep, Turn
  <2>4. fenceQ' = fenceQ
    BY <1>2
  <2> QED BY <2>1, <2>2, <2>3, <2>4 DEF LockStep, In
<1> QED BY <1>2, <1>5, <1>6, <1>7

(* An eviction has its turn, or starts: it goes to the end of the job queue,
   or waits for a fence or the latch. *)
EvictionTurn(v, rest) ==
  /\ hpc' = hpc /\ phase' = phase
  /\ jobs' \in {rest, Append(rest, v)}
  /\ fenceQ' = fenceQ \/ (fenceQ' = Append(fenceQ, v) /\ fence # NoFence)
  /\ drainQ' \in {drainQ, Append(drainQ, v)}
  /\ fence' = NoFence => fence = NoFence

(* The handlers do not notice. *)
LEMMA EvictionTurnStep ==
  ASSUME TypeOK, Queues, LockStep, NEW v \in Evictors, NEW rest,
         \/ Runs(v) /\ rest = Tail(jobs)
         \/ Idle /\ rest = <<>>,
         EvictionTurn(v, rest)
  PROVE  /\ Queues' /\ LockStep'
         /\ jobs' \in Seq(Jobs) /\ fenceQ' \in Seq(Jobs) /\ drainQ' \in Seq(Jobs)
         /\ \A h \in Handlers : (In(h, jobs') <=> In(h, jobs)) /\ (In(h, fenceQ') <=> In(h, fenceQ))
<1>0. /\ jobs \in Seq(Jobs) /\ drainQ \in Seq(Jobs) /\ fenceQ \in Seq(Jobs) /\ v \in Jobs
      /\ v \notin Handlers
  BY CommandsAssumption DEF TypeOK, Jobs
<1>1. /\ rest \in Seq(Jobs)
      /\ \A h \in Handlers : /\ In(h, rest) <=> In(h, jobs)
                             /\ Once(h, jobs) => Once(h, rest)
  <2>1. CASE Runs(v) /\ rest = Tail(jobs)
    <3>1. jobs # <<>> /\ v = Head(jobs)
      BY <2>1 DEF Runs
    <3> QED BY <1>0, <2>1, <3>1, InTail
  <2>2. CASE Idle /\ rest = <<>>
    BY <1>0, <2>2 DEF Idle
  <2> QED BY <2>1, <2>2
<1>2. /\ Append(rest, v) \in Seq(Jobs)
      /\ \A h \in Handlers : /\ In(h, Append(rest, v)) <=> In(h, jobs)
                             /\ Once(h, jobs) => Once(h, Append(rest, v))
  BY <1>0, <1>1, InAppend
<1>3. /\ Append(fenceQ, v) \in Seq(Jobs)
      /\ \A h \in Handlers : /\ In(h, Append(fenceQ, v)) <=> In(h, fenceQ)
                             /\ Once(h, fenceQ) => Once(h, Append(fenceQ, v))
  BY <1>0, InAppend
<1>4. /\ Append(drainQ, v) \in Seq(Jobs)
      /\ \A h \in Handlers : /\ In(h, Append(drainQ, v)) <=> In(h, drainQ)
                             /\ Once(h, drainQ) => Once(h, Append(drainQ, v))
  BY <1>0, InAppend
<1>5. /\ jobs' \in Seq(Jobs) /\ fenceQ' \in Seq(Jobs) /\ drainQ' \in Seq(Jobs)
      /\ \A h \in Handlers :
           /\ In(h, jobs') <=> In(h, jobs)
           /\ In(h, fenceQ') <=> In(h, fenceQ)
           /\ In(h, drainQ') <=> In(h, drainQ)
           /\ Once(h, jobs) => Once(h, jobs')
           /\ Once(h, fenceQ) => Once(h, fenceQ')
           /\ Once(h, drainQ) => Once(h, drainQ')
      /\ hpc' = hpc /\ phase' = phase /\ (fence' = NoFence => fence = NoFence)
  BY <1>0, <1>1, <1>2, <1>3, <1>4 DEF EvictionTurn
<1>6. Queues'
  <2> SUFFICES ASSUME NEW g \in Handlers
               PROVE  /\ In(g, jobs') => hpc'[g] \in Waiting \cup {"drain", "drained"}
                      /\ In(g, fenceQ') => hpc'[g] = "fenced" /\ g[1] \notin DrainCmds /\ ~In(g, jobs')
                      /\ In(g, drainQ') => hpc'[g] = "drain" /\ ~In(g, jobs')
                      /\ Once(g, jobs') /\ Once(g, fenceQ') /\ Once(g, drainQ')
                      /\ hpc'[g] \in Waiting => In(g, jobs') \/ In(g, fenceQ')
                      /\ fence' = NoFence => ~In(g, fenceQ')
    BY DEF Queues, In, Once
  <2> QED BY <1>5 DEF Queues
<1>7. LockStep'
  <2>1. InStep(jobs', Stage')
    <3>1. Stage' = Stage
      BY <1>5 DEF Stage
    <3>2. InStep(rest, Stage) /\ InStep(Append(rest, v), Stage)
      <4>1. CASE Runs(v) /\ rest = Tail(jobs)
        <5>1. jobs # <<>> /\ InStep(jobs, Stage)
          BY <4>1 DEF Runs, LockStep
        <5> QED BY <1>0, <4>1, <5>1, RotatedOther
      <4>2. CASE Idle /\ rest = <<>>
        <5>1. \A i \in 1 .. Len(rest) : FALSE
          BY <4>2
        <5>2. Len(Append(rest, v)) = 1 /\ Append(rest, v)[1] = v
          BY <1>1, <4>2
        <5>3. \A i \in 1 .. Len(Append(rest, v)) : Append(rest, v)[i] = v
          BY <5>2
        <5> QED BY <1>0, <5>1, <5>3 DEF InStep
      <4> QED BY <4>1, <4>2
    <3> QED BY <3>1, <3>2 DEF EvictionTurn
  <2>2. ASSUME NEW f \in Handlers, NEW g \in Handlers, In(f, jobs'), hpc'[f] \in Waiting
        PROVE  ~In(g, fenceQ')
    BY <1>5, <2>2 DEF LockStep
  <2>3. ASSUME NEW g \in Handlers, Draining' PROVE ~In(g, fenceQ')
    BY <1>5, <2>3 DEF LockStep, Draining
  <2> QED BY <2>1, <2>2, <2>3 DEF LockStep, In
<1> QED BY <1>5, <1>6, <1>7

(* Queues and LockStep, spelled out for the next state. *)
LEMMA QueuesNext ==
  ASSUME \A g \in Handlers :
           /\ In(g, jobs') => hpc'[g] \in Waiting \cup {"drain", "drained"}
           /\ In(g, fenceQ') => hpc'[g] = "fenced" /\ g[1] \notin DrainCmds /\ ~In(g, jobs')
           /\ In(g, drainQ') => hpc'[g] = "drain" /\ ~In(g, jobs')
           /\ Once(g, jobs') /\ Once(g, fenceQ') /\ Once(g, drainQ')
           /\ hpc'[g] \in Waiting => In(g, jobs') \/ In(g, fenceQ')
           /\ fence' = NoFence => ~In(g, fenceQ')
  PROVE  Queues'
BY DEF Queues, In, Once

(* LockStep, spelled out for the next state. *)
LEMMA LockStepNext ==
  ASSUME InStep(jobs', Stage'),
         \A f, g \in Handlers : In(f, jobs') /\ hpc'[f] \in Waiting => ~In(g, fenceQ'),
         Draining' => \A g \in Handlers : ~In(g, fenceQ')
  PROVE  LockStep'
BY DEF LockStep, In

(* A handler that was off begins when no job is ready: it is executed, or it
   prepares a restart, or its command is refused. *)
Begin(h, s) ==
  /\ hpc' = [hpc EXCEPT ![h] = s]
  /\ UNCHANGED <<fence, fenceQ>>
  /\ \/ s \in {"off", "exec"} /\ jobs' = <<>> /\ drainQ' = drainQ
     \/ s = "drain" /\ jobs' = <<>> /\ drainQ' = Append(drainQ, h)
     \/ s = "drained" /\ jobs' = Append(<<>>, h) /\ drainQ' = drainQ
  /\ Draining' => Draining \/ fence = NoFence

(* A command that is admitted when its line is read preserves the queues. *)
LEMMA BeginStep ==
  ASSUME TypeOK, Queues, LockStep, NEW h \in Handlers, Idle, hpc[h] = "off",
         NEW s \in HandlerSteps, Begin(h, s)
  PROVE  /\ Queues' /\ LockStep'
         /\ jobs' \in Seq(Jobs) /\ drainQ' \in Seq(Jobs) /\ hpc' \in [Handlers -> HandlerSteps]
<1>0. /\ jobs = <<>> /\ drainQ \in Seq(Jobs) /\ h \in Jobs
      /\ <<>> \in Seq(Jobs) /\ hpc \in [Handlers -> HandlerSteps]
      /\ \A g : ~In(g, <<>>) /\ Once(g, <<>>)
  BY InEmpty DEF TypeOK, Idle, Jobs
<1>1. ~In(h, fenceQ) /\ ~In(h, drainQ) /\ \A g : ~In(g, jobs)
  BY <1>0 DEF Queues
<1>2. /\ hpc' \in [Handlers -> HandlerSteps] /\ hpc'[h] = s
      /\ \A g \in Handlers : g # h => hpc'[g] = hpc[g]
      /\ fence' = fence /\ fenceQ' = fenceQ
  BY <1>0 DEF Begin
<1>3. /\ Append(<<>>, h) \in Seq(Jobs)
      /\ \A g : In(g, Append(<<>>, h)) <=> g = h
      /\ \A g : Once(g, Append(<<>>, h))
  <2> DEFINE t == <<>>
  <2>1. t \in Seq(Jobs) /\ \A g : ~In(g, t) /\ Once(g, t)
    BY <1>0
  <2> HIDE DEF t
  <2>2. /\ Append(t, h) \in Seq(Jobs)
        /\ \A g : In(g, Append(t, h)) <=> In(g, t) \/ g = h
        /\ \A g : Once(g, t) /\ g # h => Once(g, Append(t, h))
        /\ Once(h, Append(t, h))
    BY <1>0, <2>1, InAppend
  <2> QED BY <2>1, <2>2 DEF t
<1>4. /\ Append(drainQ, h) \in Seq(Jobs)
      /\ \A g : In(g, Append(drainQ, h)) <=> In(g, drainQ) \/ g = h
      /\ \A g : Once(g, drainQ) => Once(g, Append(drainQ, h))
  BY <1>0, <1>1, InAppend
<1>5. /\ jobs' \in Seq(Jobs) /\ drainQ' \in Seq(Jobs)
      /\ \A g : In(g, jobs') => g = h /\ s = "drained"
      /\ \A g : g # h => (In(g, drainQ') <=> In(g, drainQ))
      /\ \A g : Once(g, jobs') /\ (Once(g, drainQ) => Once(g, drainQ'))
      /\ In(h, drainQ') => s = "drain" /\ ~In(h, jobs')
      /\ s \notin Waiting
    BY <1>0, <1>1, <1>3, <1>4 DEF Begin, Waiting
<1>6. Queues'
  <2>1. ASSUME NEW g \in Handlers
        PROVE  /\ In(g, jobs') => hpc'[g] \in Waiting \cup {"drain", "drained"}
               /\ In(g, fenceQ') => hpc'[g] = "fenced" /\ g[1] \notin DrainCmds /\ ~In(g, jobs')
               /\ In(g, drainQ') => hpc'[g] = "drain" /\ ~In(g, jobs')
               /\ Once(g, jobs') /\ Once(g, fenceQ') /\ Once(g, drainQ')
               /\ hpc'[g] \in Waiting => In(g, jobs') \/ In(g, fenceQ')
               /\ fence' = NoFence => ~In(g, fenceQ')
    <3>1. CASE g # h
      BY <1>1, <1>2, <1>5, <3>1 DEF Queues
    <3>2. CASE g = h
      BY <1>1, <1>2, <1>5, <3>2 DEF Queues
    <3> QED BY <3>1, <3>2
  <2> QED BY <2>1, QueuesNext
<1>7. LockStep'
  <2>1. InStep(jobs', Stage')
    <3>1. Stage'[h] = 5 \/ ~In(h, jobs')
      BY <1>2, <1>5 DEF Stage
    <3>2. \A i \in 1 .. Len(jobs') : jobs'[i] = h /\ In(h, jobs')
      BY <1>5 DEF In
    <3>3. \A i \in 1 .. Len(jobs') : jobs'[i] \in Handlers => Stage'[jobs'[i]] = 5
      BY <3>1, <3>2
    <3> QED BY <3>3 DEF InStep
  <2>2. ASSUME NEW f \in Handlers, NEW g \in Handlers, In(f, jobs'), hpc'[f] \in Waiting
        PROVE  ~In(g, fenceQ')
    BY <1>2, <1>5, <2>2
  <2>3. ASSUME NEW g \in Handlers, Draining' PROVE ~In(g, fenceQ')
    BY <1>2, <2>3 DEF LockStep, Queues, Begin
  <2> QED BY <2>1, <2>2, <2>3, LockStepNext
<1> QED BY <1>2, <1>5, <1>6, <1>7

(* A handler is held back by an eviction. *)
LEMMA FenceStep ==
  ASSUME TypeOK, Queues, LockStep, NEW h \in Handlers, Idle, hpc[h] = "off",
         h[1] \notin DrainCmds, fence # NoFence, ~Draining,
         hpc' = [hpc EXCEPT ![h] = "fenced"], fenceQ' = Append(fenceQ, h),
         UNCHANGED <<fence, jobs, drainQ, phase>>
  PROVE  /\ Queues' /\ LockStep'
         /\ fenceQ' \in Seq(Jobs) /\ hpc' \in [Handlers -> HandlerSteps]
         /\ \A g : In(g, fenceQ') <=> In(g, fenceQ) \/ g = h
<1>0. /\ jobs = <<>> /\ fenceQ \in Seq(Jobs) /\ h \in Jobs
      /\ hpc \in [Handlers -> HandlerSteps] /\ "fenced" \in HandlerSteps
      /\ \A g : ~In(g, <<>>) /\ Once(g, <<>>)
  BY InEmpty DEF TypeOK, Idle, Jobs, HandlerSteps
<1>1. ~In(h, fenceQ) /\ ~In(h, drainQ)
  BY DEF Queues
<1>2. /\ hpc' \in [Handlers -> HandlerSteps] /\ hpc'[h] = "fenced"
      /\ \A g \in Handlers : g # h => hpc'[g] = hpc[g]
      /\ fence' = fence /\ jobs' = <<>> /\ drainQ' = drainQ /\ phase' = phase
  BY <1>0
<1>3. /\ fenceQ' \in Seq(Jobs)
      /\ \A g : In(g, fenceQ') <=> In(g, fenceQ) \/ g = h
      /\ \A g : Once(g, fenceQ) => Once(g, fenceQ')
  BY <1>0, <1>1, InAppend
<1>4. Queues'
  <2>1. ASSUME NEW g \in Handlers
        PROVE  /\ In(g, jobs') => hpc'[g] \in Waiting \cup {"drain", "drained"}
               /\ In(g, fenceQ') => hpc'[g] = "fenced" /\ g[1] \notin DrainCmds /\ ~In(g, jobs')
               /\ In(g, drainQ') => hpc'[g] = "drain" /\ ~In(g, jobs')
               /\ Once(g, jobs') /\ Once(g, fenceQ') /\ Once(g, drainQ')
               /\ hpc'[g] \in Waiting => In(g, jobs') \/ In(g, fenceQ')
               /\ fence' = NoFence => ~In(g, fenceQ')
    <3>1. CASE g # h
      BY <1>0, <1>1, <1>2, <1>3, <3>1 DEF Queues
    <3>2. CASE g = h
      BY <1>0, <1>1, <1>2, <1>3, <3>2 DEF Queues
    <3> QED BY <3>1, <3>2
  <2> QED BY <2>1, QueuesNext
<1>5. LockStep'
  <2>1. InStep(jobs', Stage')
    BY <1>2 DEF InStep
  <2> QED BY <1>0, <1>2, <2>1, LockStepNext DEF Draining
<1> QED BY <1>2, <1>3, <1>4, <1>5

(* The end of a command wakes everybody who waits for the latch. *)
LEMMA CompleteStep ==
  ASSUME TypeOK, Queues, LockStep, NEW h \in Handlers, Idle, hpc[h] \in Executing,
         Complete(h), UNCHANGED <<fence, fenceQ>>, Draining' => Draining
  PROVE  /\ Queues' /\ LockStep'
         /\ jobs' \in Seq(Jobs) /\ drainQ' \in Seq(Jobs) /\ hpc' \in [Handlers -> HandlerSteps]
         /\ hpc'[h] = "off" /\ \A g \in Handlers : g # h => hpc'[g] = hpc[g]
         /\ \A g \in Handlers : In(g, jobs') => hpc'[g] \notin Waiting
<1>0. /\ jobs = <<>> /\ drainQ \in Seq(Jobs)
      /\ hpc \in [Handlers -> HandlerSteps] /\ "off" \in HandlerSteps
      /\ \A g : ~In(g, <<>>) /\ Once(g, <<>>)
  BY InEmpty DEF TypeOK, Idle, Jobs, HandlerSteps
<1>1. /\ hpc' \in [Handlers -> HandlerSteps] /\ hpc'[h] = "off"
      /\ \A g \in Handlers : g # h => hpc'[g] = hpc[g]
      /\ fence' = fence /\ fenceQ' = fenceQ /\ drainQ' = <<>> /\ jobs' = RemoveFirst(drainQ, h)
  BY <1>0 DEF Complete
<1>2. /\ jobs' \in Seq(Jobs)
      /\ \A g : In(g, jobs') => In(g, drainQ)
      /\ \A g : Once(g, drainQ) => Once(g, jobs')
      /\ ~In(h, jobs')
  <2>1. Once(h, drainQ)
    BY DEF Queues
  <2> QED BY <1>0, <1>1, <2>1, InRemoveFirst
<1>3. ~In(h, fenceQ)
  BY DEF Queues, Executing, Preparing
<1>4. Queues'
  <2>1. ASSUME NEW g \in Handlers
        PROVE  /\ In(g, jobs') => hpc'[g] \in Waiting \cup {"drain", "drained"}
               /\ In(g, fenceQ') => hpc'[g] = "fenced" /\ g[1] \notin DrainCmds /\ ~In(g, jobs')
               /\ In(g, drainQ') => hpc'[g] = "drain" /\ ~In(g, jobs')
               /\ Once(g, jobs') /\ Once(g, fenceQ') /\ Once(g, drainQ')
               /\ hpc'[g] \in Waiting => In(g, jobs') \/ In(g, fenceQ')
               /\ fence' = NoFence => ~In(g, fenceQ')
    <3>1. CASE g # h
      BY <1>0, <1>1, <1>2, <1>3, <3>1 DEF Queues
    <3>2. CASE g = h
      BY <1>0, <1>1, <1>2, <1>3, <3>2 DEF Queues, Waiting
    <3> QED BY <3>1, <3>2
  <2> QED BY <2>1, QueuesNext
<1>5. ASSUME NEW g \in Handlers, In(g, jobs') PROVE hpc'[g] = "drain"
  BY <1>1, <1>2, <1>5 DEF Queues
<1>6. LockStep'
  <2>1. InStep(jobs', Stage')
    <3>1. ASSUME NEW i \in 1 .. Len(jobs'), jobs'[i] \in Handlers PROVE Stage'[jobs'[i]] = 5
      <4>1. In(jobs'[i], jobs')
        BY DEF In
      <4> QED BY <1>5, <3>1, <4>1 DEF Stage
    <3> QED BY <3>1 DEF InStep
  <2>2. Draining' => Draining
    OBVIOUS
  <2> QED BY <1>1, <1>5, <2>1, <2>2, LockStepNext DEF LockStep, Waiting
<1> QED BY <1>1, <1>2, <1>4, <1>5, <1>6, <1>0 DEF Waiting

(* The end of an eviction makes everybody ready whom it held back. *)
LEMMA EvictionEndsStep ==
  ASSUME TypeOK, Queues, LockStep, NEW v \in Evictors, EvictionEnds(v)
  PROVE  /\ Queues' /\ LockStep'
         /\ jobs' \in Seq(Jobs) /\ fenceQ' \in Seq(Jobs) /\ drainQ' \in Seq(Jobs)
         /\ \A g : ~In(g, fenceQ')
<1>0. /\ jobs = <<>> /\ fenceQ \in Seq(Jobs) /\ drainQ \in Seq(Jobs) /\ <<>> \in Seq(Jobs)
      /\ jobs' = fenceQ /\ fenceQ' = <<>> /\ drainQ' = RemoveFirst(drainQ, v)
      /\ hpc' = hpc /\ phase' = phase
      /\ \A g : ~In(g, <<>>) /\ Once(g, <<>>)
  BY InEmpty DEF TypeOK, Idle, Jobs, EvictionEnds
<1>1. /\ drainQ' \in Seq(Jobs)
      /\ \A g : In(g, drainQ') => In(g, drainQ)
      /\ \A g : Once(g, drainQ) => Once(g, drainQ')
  BY <1>0, InRemoveFirst
<1>2. ASSUME NEW g \in Handlers, In(g, jobs') PROVE hpc'[g] = "fenced"
  BY <1>0, <1>2 DEF Queues
<1>3. Queues'
  <2>1. ASSUME NEW g \in Handlers
        PROVE  /\ In(g, jobs') => hpc'[g] \in Waiting \cup {"drain", "drained"}
               /\ In(g, fenceQ') => hpc'[g] = "fenced" /\ g[1] \notin DrainCmds /\ ~In(g, jobs')
               /\ In(g, drainQ') => hpc'[g] = "drain" /\ ~In(g, jobs')
               /\ Once(g, jobs') /\ Once(g, fenceQ') /\ Once(g, drainQ')
               /\ hpc'[g] \in Waiting => In(g, jobs') \/ In(g, fenceQ')
               /\ fence' = NoFence => ~In(g, fenceQ')
    BY <1>0, <1>1, <1>2 DEF Queues, Waiting
  <2> QED BY <2>1, QueuesNext
<1>4. LockStep'
  <2>1. InStep(jobs', Stage')
    <3>1. ASSUME NEW i \in 1 .. Len(jobs'), jobs'[i] \in Handlers PROVE Stage'[jobs'[i]] = 1
      <4>1. In(jobs'[i], jobs')
        BY DEF In
      <4> QED BY <1>2, <3>1, <4>1 DEF Stage
    <3> QED BY <3>1 DEF InStep
  <2> QED BY <1>0, <2>1, LockStepNext
<1> QED BY <1>0, <1>1, <1>3, <1>4

-----------------------------------------------------------------------------
(* The latch and the update restart: LatchCounts and Restarts *)

Counted == {h \in Handlers : hpc[h] \in Executing}

(* There are finitely many handlers, so the latch can count them. *)
LEMMA CountedFinite == IsFiniteSet(Counted) /\ IsFiniteSet(Counted')
<1>1. IsFiniteSet(Epochs)
  BY CommandsAssumption, FS_Interval DEF Epochs
<1>2. IsFiniteSet(Handlers)
  BY <1>1, CommandsAssumption, FS_Product DEF Handlers
<1>3. Counted \in SUBSET Handlers /\ Counted' \in SUBSET Handlers
  BY DEF Counted
<1> QED BY <1>2, <1>3, FS_Subset

(* The handlers that are counted stay the same. *)
LEMMA CountKept ==
  ASSUME LatchCounts, active' = active,
         \A h \in Handlers : hpc'[h] \in Executing <=> hpc[h] \in Executing
  PROVE  LatchCounts'
<1>1. Counted' = Counted
  BY DEF Counted
<1> QED BY <1>1 DEF LatchCounts, Counted

(* One more is counted. *)
LEMMA CountUp ==
  ASSUME LatchCounts, active' = active + 1, NEW h \in Handlers,
         hpc[h] \notin Executing, hpc'[h] \in Executing,
         \A g \in Handlers : g # h => hpc'[g] = hpc[g]
  PROVE  LatchCounts'
<1>1. Counted' = Counted \cup {h} /\ h \notin Counted
  BY DEF Counted
<1>2. Cardinality(Counted') = Cardinality(Counted) + 1
  BY <1>1, CountedFinite, FS_AddElement
<1> QED BY <1>2 DEF LatchCounts, Counted

(* One less is counted. *)
LEMMA CountDown ==
  ASSUME LatchCounts, active' = active - 1, NEW h \in Handlers,
         hpc[h] \in Executing, hpc'[h] \notin Executing,
         \A g \in Handlers : g # h => hpc'[g] = hpc[g]
  PROVE  LatchCounts'
<1>1. Counted' = Counted \ {h} /\ h \in Counted
  BY DEF Counted
<1>2. Cardinality(Counted') = Cardinality(Counted) - 1
  BY <1>1, CountedFinite, FS_RemoveElement
<1> QED BY <1>2 DEF LatchCounts, Counted

(* A latch at 0 is one with nobody, a latch at 1 one with one handler. *)
LEMMA LatchMeans ==
  ASSUME LatchCounts
  PROVE  /\ active \in Nat
         /\ active = 0 => \A h \in Handlers : hpc[h] \notin Executing
         /\ \A h \in Handlers : hpc[h] \in Executing =>
              /\ active >= 1
              /\ active <= 1 <=> \A g \in Handlers : hpc[g] \in Executing => g = h
<1>1. active = Cardinality(Counted) /\ IsFiniteSet(Counted) /\ active \in Nat
  BY CountedFinite, FS_CardinalityType DEF LatchCounts, Counted
<1>2. active = 0 => Counted = {}
  BY <1>1, FS_EmptySet
<1>3. ASSUME NEW h \in Handlers, hpc[h] \in Executing
      PROVE  /\ active >= 1
             /\ active <= 1 <=> \A g \in Handlers : hpc[g] \in Executing => g = h
  <2>1. h \in Counted
    BY <1>3 DEF Counted
  <2>2. active >= 1
    BY <1>1, <1>2, <2>1
  <2>3. ASSUME active <= 1, NEW g \in Handlers, hpc[g] \in Executing PROVE g = h
    <3>1. g \in Counted /\ Cardinality(Counted) = 1
      BY <1>1, <2>2, <2>3 DEF Counted
    <3>2. PICK x : Counted = {x}
      BY <1>1, <3>1, FS_Singleton
    <3> QED BY <2>1, <3>1, <3>2
  <2>4. ASSUME \A g \in Handlers : hpc[g] \in Executing => g = h PROVE active <= 1
    <3>1. Counted = {h}
      BY <2>1, <2>4 DEF Counted
    <3> QED BY <1>1, <3>1, FS_Singleton
  <2> QED BY <2>2, <2>3, <2>4
<1> QED BY <1>1, <1>2, <1>3 DEF Counted

(* A step that leaves the handlers and the phase alone. *)
LEMMA RestartsKept ==
  ASSUME Restarts, LatchCounts, UNCHANGED <<hpc, phase, active>>
  PROVE  Restarts' /\ LatchCounts'
<1>1. Restarts'
  BY DEF Restarts, Draining
<1>2. LatchCounts'
  BY CountKept
<1> QED BY <1>1, <1>2

(* A shutdown is let in once a restart is prepared. *)
LetIn(h) == phase = "prepared" /\ h[1] \in ShutdownCmds

(* A handler that was not admitted moves on, or is turned away. *)
LEMMA RestartsHeld ==
  ASSUME Restarts, LatchCounts, hpc \in [Handlers -> HandlerSteps], NEW h \in Handlers, NEW s,
         hpc[h] \in Waiting \cup {"off"}, s = "off" \/ s \in Waiting,
         s = "off" \/ hpc[h] \in Waiting \/ phase = "none" \/ LetIn(h),
         hpc' = [hpc EXCEPT ![h] = s], UNCHANGED <<phase, active>>
  PROVE  Restarts' /\ LatchCounts'
<1>1. hpc'[h] = s /\ \A g \in Handlers : g # h => hpc'[g] = hpc[g]
  OBVIOUS
<1>2. s \notin Executing /\ hpc[h] \notin Executing
  BY DEF Waiting, Executing, Preparing
<1>3. Restarts'
  BY <1>1, <1>2 DEF Restarts, Waiting, Executing, Preparing, LetIn, Draining
<1>4. LatchCounts'
  BY <1>1, <1>2, CountKept
<1> QED BY <1>3, <1>4

(* A command is admitted: what becomes of its handler. *)
Admitted(h, s, rest) ==
  /\ hpc' = [hpc EXCEPT ![h] = s]
  /\ IF s = "off"
       THEN /\ journal[h[1]] # "none"
            /\ UNCHANGED <<journal, ran, active, phase>>
       ELSE /\ journal[h[1]] = "none"
            /\ journal' = [journal EXCEPT ![h[1]] = "pending"]
            /\ ran' = [ran EXCEPT ![h[1]] = @ + 1]
            /\ active' = active + 1
  /\ IF s \in {"drain", "drained"}
       THEN h[1] \in PrepareCmds /\ phase = "none" /\ phase' = "draining"
       ELSE UNCHANGED phase
  /\ jobs' = IF s = "drained" THEN Append(rest, h) ELSE rest
  /\ drainQ' = IF s = "drain" THEN Append(drainQ, h) ELSE drainQ
  /\ IF s = "off" THEN Respond(h, IF journal[h[1]] = "complete" THEN "result" ELSE "uncertain")
                  ELSE outbox' = outbox

(* Admit has these outcomes and no other. *)
LEMMA AdmitShape ==
  ASSUME NEW h, NEW rest, Admit(h, rest), active \in Nat
  PROVE  \E s \in {"off", "exec", "drain", "drained"} : Admitted(h, s, rest)
<1>1. CASE journal[h[1]] # "none"
  <2>1. Admitted(h, "off", rest)
    BY <1>1 DEF Admit, Admitted, latchVars
  <2> QED BY <2>1
<1>2. CASE journal[h[1]] = "none" /\ ~(h[1] \in PrepareCmds /\ phase = "none")
  <2>1. Admitted(h, "exec", rest)
    BY <1>2 DEF Admit, Admitted
  <2> QED BY <2>1
<1>3. CASE journal[h[1]] = "none" /\ h[1] \in PrepareCmds /\ phase = "none" /\ active + 1 > 1
  <2>1. Admitted(h, "drain", rest)
    BY <1>3 DEF Admit, Admitted, AwaitDrain
  <2> QED BY <2>1
<1>4. CASE journal[h[1]] = "none" /\ h[1] \in PrepareCmds /\ phase = "none" /\ ~(active + 1 > 1)
  <2>1. Admitted(h, "drained", rest)
    BY <1>4 DEF Admit, Admitted, AwaitDrain
  <2> QED BY <2>1
<1> QED BY <1>1, <1>2, <1>3, <1>4

(* While a restart is behind its closed door nothing is admitted. *)
LEMMA AdmittedRestarts ==
  ASSUME TypeOK, Restarts, LatchCounts, NEW h \in Handlers, NEW rest,
         hpc[h] \in {"off", "hop3"}, NEW s \in {"off", "exec", "drain", "drained"},
         Admitted(h, s, rest), s = "off" \/ phase \in {"none", "draining"} \/ LetIn(h)
  PROVE  Restarts' /\ LatchCounts'
<1>1. /\ hpc \in [Handlers -> HandlerSteps]
      /\ hpc'[h] = s /\ \A g \in Handlers : g # h => hpc'[g] = hpc[g]
      /\ hpc[h] \notin Executing
  BY DEF TypeOK, Admitted, Executing, Preparing
<1>2. CASE s = "off"
  <2>1. UNCHANGED <<phase, active>> /\ hpc' = [hpc EXCEPT ![h] = s]
    BY <1>2 DEF Admitted
  <2> QED BY <1>1, <1>2, <2>1, RestartsHeld DEF Waiting
<1>3. CASE s # "off"
  <2>1. s \in Executing /\ active' = active + 1
    BY <1>3 DEF Admitted, Executing, Preparing
  <2>2. LatchCounts'
    BY <1>1, <2>1, CountUp
  <2>3. CASE s = "exec"
    <3>1. phase' = phase /\ (phase \in {"none", "draining"} \/ LetIn(h))
      BY <2>3 DEF Admitted
    <3> QED BY <1>1, <2>2, <2>3, <3>1 DEF Restarts, Preparing, Waiting, LetIn, Draining
  <2>4. CASE s \in {"drain", "drained"}
    <3>1. phase = "none" /\ phase' = "draining"
      BY <2>4 DEF Admitted
    <3> QED BY <1>1, <2>2, <2>4, <3>1 DEF Restarts, Preparing, Waiting, Draining
  <2> QED BY <1>3, <2>3, <2>4
<1> QED BY <1>2, <1>3

-----------------------------------------------------------------------------
(* The requests: CopiesInOrder, Connections, Requests and Executions *)

RequestInv == CopiesInOrder /\ Connections /\ Requests /\ Executions

(* Where a command is in the next state. *)
Unread1(c) == \E e \in Epochs : In(CommandLine(c, e), inbox')
Acked1(c) == \E e \in Epochs : In(AckLine(c, e), inbox')
Responded1(c) == \E a \in Answers : In([cmd |-> c, answer |-> a], outbox')
Fenced1(c) == \E h \in Handlers : h[1] = c /\ In(h, fenceQ')
Held1(c) == \E h \in Handlers : h[1] = c /\ hpc'[h] \in Waiting

(* RequestInv, spelled out for the next state. *)
CopiesNext ==
  /\ Ordered(inbox')
  /\ \A c \in Cmds : \A e \in Epochs : In(CommandLine(c, e), inbox') => e <= epoch'
  /\ \A h \in Handlers : hpc'[h] # "off" =>
       /\ h[2] <= epoch'
       /\ \A e \in Epochs : In(CommandLine(h[1], e), inbox') => h[2] < e

ConnectionsNext ==
  /\ ~connected' => outbox' = <<>> /\ epoch' < MaxEpoch
  /\ up' = "down" => ~connected' /\ inbox' = <<>> /\ jobs' = <<>>

RequestNext(c) ==
  /\ cst'[c] = "new" =>
       /\ ran'[c] = 0 /\ journal'[c] = "none"
       /\ ~Unread1(c) /\ ~Responded1(c)
       /\ \A h \in Handlers : h[1] = c => hpc'[h] = "off"
  /\ cst'[c] = "answered" => ~Unread1(c)
  /\ cst'[c] = "parked" => ~connected'
  /\ Responded1(c) => ~Unread1(c) /\ (up' = "serving" => ~Fenced1(c))
  /\ Acked1(c) => cst'[c] = "answered" /\ (up' = "serving" => ~Fenced1(c))
  /\ answer'[c] = "restarting" =>
       cst'[c] = "answered" /\ ~Held1(c) /\ (ran'[c] = 0 \/ c \in CancelCmds)
  /\ In([cmd |-> c, answer |-> "restarting"], outbox') =>
       ~Held1(c) /\ (ran'[c] = 0 \/ c \in CancelCmds)
  /\ ran'[c] \in {0, 1}
  /\ journal'[c] # "none" => ran'[c] = 1
  /\ ran'[c] = 1 /\ journal'[c] = "none" => cst'[c] = "answered" /\ ~Held1(c)
  /\ ran'[c] = 1 => ~Fenced1(c)

(* The spelled-out parts make up the invariant of the next state. *)
LEMMA RequestInvNext ==
  ASSUME CopiesNext, ConnectionsNext, \A c \in Cmds : RequestNext(c),
         \A h \in Handlers : hpc'[h] \in Executing => ran'[h[1]] = 1
  PROVE  RequestInv'
<1>1. CopiesInOrder'
  BY DEF CopiesNext, CopiesInOrder, Ordered, In
<1>2. Connections'
  BY DEF ConnectionsNext, Connections
<1>3. ASSUME NEW c \in Cmds
      PROVE  /\ Unread(c)' <=> Unread1(c)
             /\ Acked(c)' <=> Acked1(c)
             /\ Responded(c)' <=> Responded1(c)
             /\ Fenced(c)' <=> Fenced1(c)
             /\ Held(c)' <=> Held1(c)
  <2>1. Unread(c)' <=> Unread1(c)
    BY DEF Unread, Unread1, In
  <2>2. Acked(c)' <=> Acked1(c)
    BY DEF Acked, Acked1, In
  <2>3. Responded(c)' <=> Responded1(c)
    BY DEF Responded, Responded1, In
  <2>4. Fenced(c)' <=> Fenced1(c)
    BY DEF Fenced, Fenced1, In
  <2>5. Held(c)' <=> Held1(c)
    BY DEF Held, Held1
  <2> QED BY <2>1, <2>2, <2>3, <2>4, <2>5
<1>4. Requests'
  BY <1>3 DEF Requests, RequestNext, In
<1>5. Executions'
  BY <1>3 DEF Executions, RequestNext
<1> QED BY <1>1, <1>2, <1>4, <1>5 DEF RequestInv

(* The handlers name commands and connections. *)
LEMMA HandlerParts ==
  /\ \A h \in Handlers : h[1] \in Cmds /\ h[2] \in Epochs
  /\ \A c \in Cmds : \A e \in Epochs : <<c, e>> \in Handlers
  /\ \A e \in Epochs : e \in Nat
  /\ \A c \in Cmds : \A e \in Epochs :
       CommandLine(c, e) \in Lines /\ AckLine(c, e) \in Lines /\ CommandLine(c, e) # AckLine(c, e)
BY CommandsAssumption DEF Handlers, Epochs, CommandLine, AckLine, Lines

(* A response is written on the connection the command came on, if that is
   the current one. *)
LEMMA RespondShape ==
  ASSUME TypeOK, NEW h \in Handlers, NEW a \in Answers, Respond(h, a)
  PROVE  /\ outbox' \in Seq([cmd : Cmds, answer : Answers])
         /\ \A c \in Cmds : \A b \in Answers :
              In([cmd |-> c, answer |-> b], outbox') =>
                \/ In([cmd |-> c, answer |-> b], outbox)
                \/ connected /\ epoch = h[2] /\ c = h[1] /\ b = a
         /\ ~connected => outbox' = outbox
<1> DEFINE R == [cmd : Cmds, answer : Answers]
           r == [cmd |-> h[1], answer |-> a]
<1>1. outbox \in Seq(R) /\ r \in R
  BY HandlerParts DEF TypeOK
<1>2. CASE connected /\ epoch = h[2]
  <2>1. outbox' = Append(outbox, r)
    BY <1>2 DEF Respond
  <2> HIDE DEF r, R
  <2>2. outbox' \in Seq(R) /\ \A y : In(y, outbox') <=> In(y, outbox) \/ y = r
    BY <1>1, <2>1, InAppend
  <2>3. ASSUME NEW c \in Cmds, NEW b \in Answers, [cmd |-> c, answer |-> b] = r
        PROVE  c = h[1] /\ b = a
    BY <2>3 DEF r
  <2> QED BY <1>2, <2>2, <2>3 DEF R
<1>3. CASE ~(connected /\ epoch = h[2])
  <2>1. outbox' = outbox
    BY <1>3 DEF Respond
  <2> QED BY <1>1, <1>3, <2>1
<1> QED BY <1>2, <1>3

(* The lines that a step leaves in the inbox: all of them, or all but the
   first, which is then a line of h. *)
Reads(h) == /\ Ordered(inbox')
            /\ \A x : In(x, inbox') => In(x, inbox)
            /\ \A e \in Epochs : In(CommandLine(h[1], e), inbox') => h[2] < e
            /\ h[2] <= epoch /\ cst[h[1]] # "new" /\ up # "down"

(* A handler answers and is done, or the answer is all that happens. *)
LEMMA RespondStep ==
  ASSUME TypeOK, RequestInv, NEW h \in Handlers, Reads(h),
         UNCHANGED <<clientVars, up, ran, fenceQ>>,
         \A g \in Handlers : hpc'[g] = hpc[g] \/ hpc'[g] = "off",
         \A c \in Cmds : journal'[c] = "none" <=> journal[c] = "none",
         NEW a \in Answers, Respond(h, a),
         up = "serving" => ~Fenced(h[1]),
         a = "restarting" => ~Held(h[1]) /\ (ran[h[1]] = 0 \/ h[1] \in CancelCmds)
  PROVE  RequestInv'
<1>0. h[1] \in Cmds /\ h[2] \in Epochs /\ epoch \in Nat /\ h[2] \in Nat
  BY HandlerParts DEF TypeOK
<1>1. UNCHANGED <<cst, answer, epoch, connected, up, ran, fenceQ>>
  BY DEF clientVars
<1>2. /\ \A c \in Cmds : /\ Unread1(c) => Unread(c)
                         /\ Acked1(c) => Acked(c)
                         /\ Fenced1(c) <=> Fenced(c)
                         /\ Held1(c) => Held(c)
      /\ connected /\ epoch = h[2] => ~Unread1(h[1])
  <2>1. ASSUME NEW c \in Cmds
        PROVE  (Unread1(c) => Unread(c)) /\ (Acked1(c) => Acked(c))
    BY DEF Reads, Unread, Unread1, Acked, Acked1
  <2>2. ASSUME NEW c \in Cmds PROVE (Fenced1(c) <=> Fenced(c)) /\ (Held1(c) => Held(c))
    BY <1>1 DEF Fenced, Fenced1, Held, Held1, Waiting
  <2>3. ASSUME NEW e \in Epochs, In(CommandLine(h[1], e), inbox') PROVE h[2] < e /\ e <= epoch
    BY <1>0, <2>3 DEF RequestInv, CopiesInOrder, Reads
  <2>4. epoch = h[2] => ~Unread1(h[1])
    BY <1>0, <2>3, HandlerParts DEF Unread1
  <2> QED BY <2>1, <2>2, <2>4
<1>3. /\ \A c \in Cmds : Responded1(c) => Responded(c) \/ (c = h[1] /\ connected /\ epoch = h[2])
      /\ \A c \in Cmds : In([cmd |-> c, answer |-> "restarting"], outbox') =>
           \/ In([cmd |-> c, answer |-> "restarting"], outbox)
           \/ c = h[1] /\ a = "restarting"
  <2>1. "restarting" \in Answers
    BY DEF Answers
  <2> QED BY <2>1, RespondShape DEF Responded, Responded1
<1>4. CopiesNext
  BY <1>1 DEF CopiesNext, RequestInv, CopiesInOrder, Reads
<1>5. ConnectionsNext
  BY <1>1, RespondShape DEF ConnectionsNext, RequestInv, Connections, Reads
<1>6. ASSUME NEW c \in Cmds PROVE RequestNext(c)
  <2>1. CASE c # h[1]
    BY <1>1, <1>2, <1>3, <2>1 DEF RequestNext, RequestInv, Requests, Executions
  <2>2. CASE c = h[1]
    BY <1>1, <1>2, <1>3, <2>2 DEF RequestNext, RequestInv, Requests, Executions, Reads
  <2> QED BY <2>1, <2>2
<1>7. ASSUME NEW g \in Handlers, hpc'[g] \in Executing PROVE ran'[g[1]] = 1
  BY <1>1, <1>7 DEF RequestInv, Executions, Executing, Preparing
<1> QED BY <1>4, <1>5, <1>6, <1>7, RequestInvNext

(* A step of the supervisor that no client sees. *)
LEMMA QuietStep ==
  ASSUME TypeOK, RequestInv, UNCHANGED <<clientVars, inbox, outbox, journal, ran>>,
         \A g \in Handlers : /\ hpc'[g] # "off" => hpc[g] # "off"
                             /\ hpc'[g] \in Waiting => hpc[g] \in Waiting
                             /\ hpc'[g] \in Executing => hpc[g] \in Executing
                             /\ In(g, fenceQ') => In(g, fenceQ),
         up' = up \/ (up = "serving" /\ up' = "stopping") \/ (up = "down" /\ up' = "serving"),
         up = "down" => jobs' = jobs
  PROVE  RequestInv'
<1>1. UNCHANGED <<cst, answer, epoch, connected, inbox, outbox, journal, ran>>
  BY DEF clientVars
<1>2. ASSUME NEW c \in Cmds
      PROVE  /\ Unread1(c) <=> Unread(c)
             /\ Acked1(c) <=> Acked(c)
             /\ Responded1(c) <=> Responded(c)
             /\ Fenced1(c) => Fenced(c)
             /\ Held1(c) => Held(c)
             /\ up' = "serving" => up = "serving" \/ (~Acked(c) /\ ~Responded(c))
  <2>1. (Unread1(c) <=> Unread(c)) /\ (Acked1(c) <=> Acked(c)) /\ (Responded1(c) <=> Responded(c))
    BY <1>1 DEF Unread1, Unread, Acked1, Acked, Responded1, Responded
  <2>2. (Fenced1(c) => Fenced(c)) /\ (Held1(c) => Held(c))
    BY DEF Fenced1, Fenced, Held1, Held
  <2>3. ASSUME up = "down" PROVE ~Acked(c) /\ ~Responded(c)
    <3>1. inbox = <<>> /\ outbox = <<>>
      BY <2>3 DEF RequestInv, Connections
    <3> QED BY <3>1, InEmpty DEF Acked, Responded
  <2> QED BY <2>1, <2>2, <2>3
<1>3. CopiesNext
  BY <1>1 DEF CopiesNext, RequestInv, CopiesInOrder
<1>4. ConnectionsNext
  BY <1>1 DEF ConnectionsNext, RequestInv, Connections
<1>5. ASSUME NEW c \in Cmds PROVE RequestNext(c)
  BY <1>1, <1>2 DEF RequestNext, RequestInv, Requests, Executions
<1>6. ASSUME NEW g \in Handlers, hpc'[g] \in Executing PROVE ran'[g[1]] = 1
  BY <1>1, <1>6 DEF RequestInv, Executions
<1> QED BY <1>3, <1>4, <1>5, <1>6, RequestInvNext

(* A command that waits to be read or to be admitted has not run, if the
   journal does not know it. *)
LEMMA NotRunYet ==
  ASSUME RequestInv, NEW c \in Cmds, Unread(c) \/ Held(c), journal[c] = "none"
  PROVE  /\ ran[c] = 0 /\ answer[c] # "restarting"
         /\ ~In([cmd |-> c, answer |-> "restarting"], outbox)
         /\ cst[c] # "new"
<1>1. "restarting" \in Answers
  BY DEF Answers
<1>2. ran[c] = 0 /\ answer[c] # "restarting"
  BY DEF RequestInv, Requests, Executions
<1>3. ~In([cmd |-> c, answer |-> "restarting"], outbox)
  BY <1>1 DEF RequestInv, Requests, Responded
<1>4. cst[c] # "new"
  BY DEF RequestInv, Requests, Held, Waiting
<1> QED BY <1>2, <1>3, <1>4

(* The execution of a command is started, and it is in the journal. *)
LEMMA RunStep ==
  ASSUME TypeOK, RequestInv, NEW h \in Handlers, Reads(h),
         UNCHANGED <<clientVars, up, fenceQ, outbox>>,
         Unread(h[1]) \/ Held(h[1]), ~Fenced(h[1]), journal[h[1]] = "none",
         journal' = [journal EXCEPT ![h[1]] = "pending"],
         ran' = [ran EXCEPT ![h[1]] = @ + 1],
         \A g \in Handlers : g # h => hpc'[g] = hpc[g],
         hpc'[h] \in Executing
  PROVE  RequestInv'
<1>0. /\ h[1] \in Cmds /\ h[2] \in Epochs
      /\ UNCHANGED <<cst, answer, epoch, connected, up, fenceQ, outbox>>
      /\ journal \in [Cmds -> {"none", "pending", "complete"}] /\ ran \in [Cmds -> Nat]
  BY HandlerParts DEF TypeOK, clientVars
<1>1. /\ ran[h[1]] = 0 /\ answer[h[1]] # "restarting"
      /\ ~In([cmd |-> h[1], answer |-> "restarting"], outbox)
  BY <1>0, NotRunYet
<1>2. /\ ran'[h[1]] = 1 /\ journal'[h[1]] = "pending"
      /\ \A c \in Cmds : c # h[1] => ran'[c] = ran[c] /\ journal'[c] = journal[c]
  BY <1>0, <1>1
<1>3. ASSUME NEW c \in Cmds
      PROVE  /\ Unread1(c) => Unread(c)
             /\ Acked1(c) => Acked(c)
             /\ Responded1(c) <=> Responded(c)
             /\ Fenced1(c) <=> Fenced(c)
             /\ Held1(c) => Held(c)
  <2>1. (Unread1(c) => Unread(c)) /\ (Acked1(c) => Acked(c))
    BY DEF Reads, Unread1, Unread, Acked1, Acked
  <2>2. (Responded1(c) <=> Responded(c)) /\ (Fenced1(c) <=> Fenced(c))
    BY <1>0 DEF Responded1, Responded, Fenced1, Fenced
  <2>3. Held1(c) => Held(c)
    BY DEF Held1, Held, Waiting, Executing, Preparing
  <2> QED BY <2>1, <2>2, <2>3
<1>4. CopiesNext
  BY <1>0 DEF CopiesNext, RequestInv, CopiesInOrder, Reads
<1>5. ConnectionsNext
  BY <1>0 DEF ConnectionsNext, RequestInv, Connections, Reads
<1>6. ASSUME NEW c \in Cmds PROVE RequestNext(c)
  <2>1. CASE c # h[1]
    <3>1. \A g \in Handlers : g[1] = c => hpc'[g] = hpc[g]
      BY <2>1
    <3> QED BY <1>0, <1>2, <1>3, <2>1, <3>1 DEF RequestNext, RequestInv, Requests, Executions
  <2>2. CASE c = h[1]
    BY <1>0, <1>1, <1>2, <1>3, <2>2 DEF RequestNext, RequestInv, Requests, Executions, Reads
  <2> QED BY <2>1, <2>2
<1>7. ASSUME NEW g \in Handlers, hpc'[g] \in Executing PROVE ran'[g[1]] = 1
  <2>1. CASE g[1] = h[1]
    BY <1>2, <2>1
  <2>2. CASE g[1] # h[1]
    BY <1>2, <1>7, <2>2, HandlerParts DEF RequestInv, Executions
  <2> QED BY <2>1, <2>2
<1> QED BY <1>4, <1>5, <1>6, <1>7, RequestInvNext

(* A command is held back by an eviction. *)
LEMMA HeldStep ==
  ASSUME TypeOK, RequestInv, NEW h \in Handlers, Reads(h),
         UNCHANGED <<clientVars, up, outbox, journal, ran>>,
         Unread(h[1]), journal[h[1]] = "none",
         \A g \in Handlers : g # h => hpc'[g] = hpc[g], hpc'[h] = "fenced",
         \A g : In(g, fenceQ') <=> In(g, fenceQ) \/ g = h
  PROVE  RequestInv'
<1>0. /\ h[1] \in Cmds /\ h[2] \in Epochs
      /\ UNCHANGED <<cst, answer, epoch, connected, up, outbox, journal, ran>>
  BY HandlerParts DEF clientVars
<1>1. /\ ran[h[1]] = 0 /\ answer[h[1]] # "restarting"
      /\ ~In([cmd |-> h[1], answer |-> "restarting"], outbox)
      /\ ~Responded(h[1]) /\ ~Acked(h[1])
  <2>1. ~Responded(h[1]) /\ ~Acked(h[1])
    BY <1>0 DEF RequestInv, Requests
  <2> QED BY <1>0, <2>1, NotRunYet
<1>3. ASSUME NEW c \in Cmds
      PROVE  /\ Unread1(c) => Unread(c)
             /\ Acked1(c) => Acked(c)
             /\ Responded1(c) <=> Responded(c)
             /\ c # h[1] => (Fenced1(c) => Fenced(c)) /\ (Held1(c) => Held(c))
  <2>1. (Unread1(c) => Unread(c)) /\ (Acked1(c) => Acked(c))
    BY DEF Reads, Unread1, Unread, Acked1, Acked
  <2>2. (Responded1(c) <=> Responded(c))
    BY <1>0 DEF Responded1, Responded
  <2>3. c # h[1] => (Fenced1(c) => Fenced(c)) /\ (Held1(c) => Held(c))
    BY DEF Fenced1, Fenced, Held1, Held
  <2> QED BY <2>1, <2>2, <2>3
<1>4. CopiesNext
  BY <1>0 DEF CopiesNext, RequestInv, CopiesInOrder, Reads
<1>5. ConnectionsNext
  BY <1>0 DEF ConnectionsNext, RequestInv, Connections, Reads
<1>6. ASSUME NEW c \in Cmds PROVE RequestNext(c)
  <2>1. CASE c # h[1]
    <3>1. \A g \in Handlers : g[1] = c => hpc'[g] = hpc[g]
      BY <2>1
    <3> QED BY <1>0, <1>3, <2>1, <3>1 DEF RequestNext, RequestInv, Requests, Executions
  <2>2. CASE c = h[1]
    BY <1>0, <1>1, <1>3, <2>2 DEF RequestNext, RequestInv, Requests, Executions, Reads
  <2> QED BY <2>1, <2>2
<1>7. ASSUME NEW g \in Handlers, hpc'[g] \in Executing PROVE ran'[g[1]] = 1
  BY <1>0, <1>7 DEF RequestInv, Executions, Executing, Preparing
<1> QED BY <1>4, <1>5, <1>6, <1>7, RequestInvNext

(* Reading the first line keeps the order of the others. *)
LEMMA OrderedTail ==
  ASSUME inbox \in Seq(Lines), inbox # <<>>, Ordered(inbox)
  PROVE  /\ Ordered(Tail(inbox))
         /\ \A c \in Cmds : \A d, e \in Epochs :
              Head(inbox) = CommandLine(c, d) /\ In(CommandLine(c, e), Tail(inbox)) => d < e
<1> DEFINE t == Tail(inbox)
           n == Len(t)
<1>1. /\ n \in Nat /\ Len(inbox) = n + 1 /\ inbox[1] = Head(inbox)
      /\ \A i \in 1 .. n : t[i] = inbox[i + 1]
  OBVIOUS
<1> HIDE DEF t, n
<1>2. ASSUME NEW c \in Cmds, NEW d \in Epochs, NEW e \in Epochs,
             NEW i \in 1 .. n, NEW j \in 1 .. n, i < j,
             t[i] = CommandLine(c, d), t[j] = CommandLine(c, e)
      PROVE  d < e
  <2>1. i + 1 \in 1 .. Len(inbox) /\ j + 1 \in 1 .. Len(inbox) /\ i + 1 < j + 1
    BY <1>1, <1>2
  <2> QED BY <1>1, <1>2, <2>1 DEF Ordered
<1>3. ASSUME NEW c \in Cmds, NEW d \in Epochs, NEW e \in Epochs,
             Head(inbox) = CommandLine(c, d), In(CommandLine(c, e), t)
      PROVE  d < e
  <2>1. PICK j \in 1 .. n : t[j] = CommandLine(c, e)
    BY <1>3 DEF In, n
  <2>2. 1 \in 1 .. Len(inbox) /\ j + 1 \in 1 .. Len(inbox) /\ 1 < j + 1
    BY <1>1
  <2> QED BY <1>1, <1>3, <2>1, <2>2 DEF Ordered
<1>4. Ordered(t)
  BY <1>2 DEF Ordered, n
<1> QED BY <1>3, <1>4 DEF t

(* Continuations run in a process that runs. *)
LEMMA RunsUp ==
  ASSUME RequestInv, NEW j, Runs(j)
  PROVE  up # "down"
BY DEF RequestInv, Connections, Runs

(* A handler that is under way reads nothing. *)
LEMMA ReadsNothing ==
  ASSUME RequestInv, NEW h \in Handlers, hpc[h] # "off", up # "down", inbox' = inbox
  PROVE  Reads(h)
<1>1. cst[h[1]] # "new"
  BY HandlerParts DEF RequestInv, Requests
<1> QED BY <1>1 DEF Reads, RequestInv, CopiesInOrder

(* A command line starts a handler that was off. *)
LEMMA ReadsHead ==
  ASSUME TypeOK, RequestInv, up # "down", inbox # <<>>, Head(inbox).kind = "command",
         inbox' = Tail(inbox), NEW h, h = <<Head(inbox).cmd, Head(inbox).epoch>>
  PROVE  h \in Handlers /\ hpc[h] = "off" /\ Unread(h[1]) /\ Reads(h) /\ inbox' \in Seq(Lines)
<1> DEFINE l == Head(inbox)
<1>1. inbox \in Seq(Lines) /\ l \in Lines /\ Tail(inbox) \in Seq(Lines)
  BY InTail DEF TypeOK
<1> HIDE DEF l
<1>2. h[1] \in Cmds /\ h[2] \in Epochs /\ h = <<h[1], h[2]>>
  BY <1>1 DEF l, Lines
<1>3. l = CommandLine(h[1], h[2])
  BY <1>1 DEF l, Lines, CommandLine
<1>4. /\ In(CommandLine(h[1], h[2]), inbox)
      /\ \A x : In(x, Tail(inbox)) => In(x, inbox)
  BY <1>1, <1>3, InTail DEF l
<1>5. h \in Handlers
  BY <1>2, HandlerParts
<1>6. Unread(h[1])
  BY <1>2, <1>4 DEF Unread
<1>7. hpc[h] = "off"
  <2>1. hpc[h] # "off" => h[2] < h[2]
    BY <1>2, <1>4, <1>5 DEF RequestInv, CopiesInOrder
  <2> QED BY <1>2, <2>1, HandlerParts
<1>8. h[2] <= epoch /\ cst[h[1]] # "new"
  BY <1>2, <1>4, <1>6 DEF RequestInv, CopiesInOrder, Requests
<1>9. Ordered(inbox') /\ \A e \in Epochs : In(CommandLine(h[1], e), inbox') => h[2] < e
  BY <1>1, <1>2, <1>3, OrderedTail DEF RequestInv, CopiesInOrder, l
<1> QED BY <1>1, <1>4, <1>5, <1>6, <1>7, <1>8, <1>9 DEF Reads

-----------------------------------------------------------------------------
(* The actions of the event loop *)

(* A handler goes on after `await idleEvictionFence`. *)
LEMMA ResumeFencedStep ==
  ASSUME CommandsInv, NEW h \in Handlers, ResumeFenced(h)
  PROVE  CommandsInv'
<1> USE DEF CommandsInv
<1>0. /\ Runs(h) /\ hpc[h] = "fenced" /\ hpc \in [Handlers -> HandlerSteps]
      /\ UNCHANGED <<clientVars, inbox, up, fenceVars, latchVars, phase, journal, ran>>
      /\ RequestInv
  BY DEF ResumeFenced, TypeOK, RequestInv
<1>1. CASE up = "stopping"
  <2>1. /\ Respond(h, "stopping") /\ hpc' = [hpc EXCEPT ![h] = "off"] /\ jobs' = Tail(jobs)
        /\ "off" \in HandlerSteps /\ "stopping" \in Answers
    BY <1>1 DEF ResumeFenced, HandlerSteps, Answers
  <2>2. Turn(h, "off")
    BY <1>0, <2>1 DEF Turn, fenceVars, Draining, latchVars
  <2>3. /\ Queues' /\ LockStep' /\ jobs' \in Seq(Jobs) /\ drainQ' \in Seq(Jobs)
        /\ hpc' \in [Handlers -> HandlerSteps]
    BY <1>0, <2>1, <2>2, TurnStep
  <2>4. Restarts' /\ LatchCounts'
    BY <1>0, <2>1, RestartsHeld DEF Waiting, latchVars
  <2>5. outbox' \in Seq([cmd : Cmds, answer : Answers])
    BY <2>1, RespondShape
  <2>6. TypeOK'
    BY <1>0, <2>3, <2>5 DEF TypeOK, Jobs, clientVars, fenceVars, latchVars
  <2>7. Reads(h)
    BY <1>0, <1>1, ReadsNothing
  <2>8. \A g \in Handlers : hpc'[g] = hpc[g] \/ hpc'[g] = "off"
    BY <1>0, <2>1
  <2>9. RequestInv'
    BY <1>0, <1>1, <2>1, <2>7, <2>8, RespondStep DEF fenceVars
  <2> QED BY <2>3, <2>4, <2>6, <2>9 DEF RequestInv
<1>2. CASE up # "stopping"
  <2>1. /\ hpc' = [hpc EXCEPT ![h] = "hop1"] /\ jobs' = Append(Tail(jobs), h) /\ outbox' = outbox
        /\ "hop1" \in HandlerSteps
    BY <1>2 DEF ResumeFenced, HandlerSteps
  <2>2. Turn(h, "hop1")
    BY <1>0, <2>1 DEF Turn, fenceVars, latchVars, Forward, Waiting
  <2>3. /\ Queues' /\ LockStep' /\ jobs' \in Seq(Jobs) /\ drainQ' \in Seq(Jobs)
        /\ hpc' \in [Handlers -> HandlerSteps]
    BY <1>0, <2>1, <2>2, TurnStep
  <2>4. Restarts' /\ LatchCounts'
    BY <1>0, <2>1, RestartsHeld DEF Waiting, latchVars
  <2>5. TypeOK'
    BY <1>0, <2>1, <2>3 DEF TypeOK, Jobs, clientVars, fenceVars, latchVars
  <2>6. RequestInv'
    BY <1>0, <2>1, RunsUp, QuietStep DEF fenceVars, Waiting, Executing, Preparing
  <2> QED BY <2>3, <2>4, <2>5, <2>6 DEF RequestInv
<1> QED BY <1>1, <1>2

(* A handler is one continuation nearer to its admission. *)
LEMMA HopStep ==
  ASSUME CommandsInv, NEW h \in Handlers, Hop(h)
  PROVE  CommandsInv'
<1> USE DEF CommandsInv
<1> DEFINE s == IF hpc[h] = "hop1" THEN "hop2" ELSE "hop3"
<1>0. /\ Runs(h) /\ hpc[h] \in {"hop1", "hop2"} /\ hpc \in [Handlers -> HandlerSteps]
      /\ UNCHANGED <<clientVars, wireVars, up, fenceVars, latchVars, phase, journal, ran>>
      /\ hpc' = [hpc EXCEPT ![h] = s] /\ jobs' = Append(Tail(jobs), h)
      /\ s \in HandlerSteps /\ s \in Waiting /\ <<hpc[h], s>> \in Forward
      /\ RequestInv
  BY DEF Hop, TypeOK, RequestInv, HandlerSteps, Waiting, Forward
<1> HIDE DEF s
<1>1. Turn(h, s)
  BY <1>0 DEF Turn, fenceVars, Draining, latchVars
<1>2. /\ Queues' /\ LockStep' /\ jobs' \in Seq(Jobs) /\ drainQ' \in Seq(Jobs)
      /\ hpc' \in [Handlers -> HandlerSteps]
  BY <1>0, <1>1, TurnStep
<1>3. Restarts' /\ LatchCounts'
  BY <1>0, RestartsHeld DEF Waiting, latchVars
<1>4. TypeOK'
  BY <1>0, <1>2 DEF TypeOK, Jobs, clientVars, wireVars, fenceVars, latchVars
<1>5. \A g \in Handlers : /\ hpc'[g] # "off" => hpc[g] # "off"
                          /\ hpc'[g] \in Waiting => hpc[g] \in Waiting
                          /\ hpc'[g] \in Executing => hpc[g] \in Executing
  BY <1>0 DEF Waiting, Executing, Preparing
<1>6. RequestInv'
  BY <1>0, <1>5, RunsUp, QuietStep DEF wireVars, fenceVars
<1> QED BY <1>2, <1>3, <1>4, <1>6 DEF RequestInv

(* The admission of a command, for a handler that reads its line or that has
   been held back. *)
LEMMA AdmittedRequest ==
  ASSUME TypeOK, RequestInv, NEW h \in Handlers, Reads(h), NEW rest,
         NEW s \in {"off", "exec", "drain", "drained"}, Admitted(h, s, rest),
         Unread(h[1]) \/ Held(h[1]), ~Fenced(h[1]),
         UNCHANGED <<clientVars, up, fenceQ>>
  PROVE  /\ RequestInv'
         /\ outbox' \in Seq([cmd : Cmds, answer : Answers])
         /\ journal' \in [Cmds -> {"none", "pending", "complete"}] /\ ran' \in [Cmds -> Nat]
<1>0. h[1] \in Cmds /\ hpc \in [Handlers -> HandlerSteps]
  BY HandlerParts DEF TypeOK
<1>1. hpc'[h] = s /\ \A g \in Handlers : g # h => hpc'[g] = hpc[g]
  BY <1>0 DEF Admitted
<1>2. CASE s = "off"
  <2> DEFINE a == IF journal[h[1]] = "complete" THEN "result" ELSE "uncertain"
  <2>1. Respond(h, a) /\ a \in Answers /\ a # "restarting" /\ UNCHANGED <<journal, ran>>
    BY <1>2 DEF Admitted, Answers
  <2> HIDE DEF a
  <2>2. RequestInv'
    BY <1>1, <1>2, <2>1, RespondStep
  <2> QED BY <2>1, <2>2, RespondShape DEF TypeOK
<1>3. CASE s # "off"
  <2>1. /\ journal[h[1]] = "none"
        /\ journal' = [journal EXCEPT ![h[1]] = "pending"]
        /\ ran' = [ran EXCEPT ![h[1]] = @ + 1]
        /\ outbox' = outbox
    BY <1>3 DEF Admitted
  <2>2. s \in Executing
    BY <1>3 DEF Executing, Preparing
  <2>3. RequestInv'
    BY <1>1, <2>1, <2>2, RunStep
  <2> QED BY <1>0, <2>1, <2>3 DEF TypeOK
<1> QED BY <1>2, <1>3

(* A handler that an eviction has held back is admitted. *)
LEMMA AdmitFencedStep ==
  ASSUME CommandsInv, NEW h \in Handlers, AdmitFenced(h)
  PROVE  CommandsInv'
<1> USE DEF CommandsInv
<1>0. /\ Runs(h) /\ hpc[h] = "hop3" /\ hpc \in [Handlers -> HandlerSteps] /\ active \in Nat
      /\ UNCHANGED <<clientVars, inbox, up, fenceVars>>
      /\ Admit(h, Tail(jobs))
      /\ RequestInv
  BY DEF AdmitFenced, TypeOK, RequestInv
<1>1. PICK s \in {"off", "exec", "drain", "drained"} : Admitted(h, s, Tail(jobs))
  BY <1>0, AdmitShape
<1>2. (phase \in {"none", "draining"} \/ LetIn(h)) /\ Held(h[1]) /\ s \in HandlerSteps
  BY <1>0 DEF Restarts, Held, Waiting, TypeOK, HandlerSteps, LetIn
<1>3. ~Fenced(h[1])
  <2>1. In(h, jobs)
    BY <1>0, InTail DEF Runs, TypeOK
  <2> QED BY <1>0, <2>1 DEF LockStep, Waiting, Fenced
<1>4. Turn(h, s)
  BY <1>0, <1>1 DEF Turn, Admitted, Waiting, Forward, fenceVars
<1>5. /\ Queues' /\ LockStep' /\ jobs' \in Seq(Jobs) /\ drainQ' \in Seq(Jobs)
      /\ hpc' \in [Handlers -> HandlerSteps]
  BY <1>0, <1>2, <1>4, TurnStep
<1>6. Restarts' /\ LatchCounts'
  BY <1>0, <1>1, <1>2, AdmittedRestarts
<1>7. Reads(h)
  BY <1>0, RunsUp, ReadsNothing
<1>8. /\ RequestInv'
      /\ outbox' \in Seq([cmd : Cmds, answer : Answers])
      /\ journal' \in [Cmds -> {"none", "pending", "complete"}] /\ ran' \in [Cmds -> Nat]
  BY <1>0, <1>1, <1>2, <1>3, <1>7, AdmittedRequest DEF fenceVars
<1>9. active' \in Nat /\ phase' \in {"none", "draining", "fencing", "prepared"}
  BY <1>0, <1>1, <1>2 DEF Admitted, TypeOK
<1>10. TypeOK'
  BY <1>0, <1>5, <1>8, <1>9 DEF TypeOK, Jobs, clientVars, fenceVars
<1> QED BY <1>5, <1>6, <1>8, <1>10 DEF RequestInv

-----------------------------------------------------------------------------
(* prepareUpdateRestart *)

(* The handler that prepares a restart has a turn: it waits for the latch, or
   goes on because nobody else is counted. *)
LEMMA PrepareTurn ==
  ASSUME CommandsInv, NEW h \in Handlers, Runs(h), hpc[h] \in {"drain", "drained"},
         NEW s \in {"drain", "drained", "preparing"},
         Turn(h, s), s = "drained" => active <= 1,
         UNCHANGED <<clientVars, wireVars, up, epc, active, journal, ran>>,
         \/ phase' = phase /\ s # "preparing"
         \/ phase = "draining" /\ hpc[h] = "drained" /\ phase' = "fencing" /\ s # "preparing"
         \/ phase = "fencing" /\ hpc[h] = "drained" /\ phase' = phase /\ s = "preparing"
  PROVE  CommandsInv'
<1> USE DEF CommandsInv
<1>0. /\ hpc \in [Handlers -> HandlerSteps] /\ s \in HandlerSteps /\ RequestInv
      /\ hpc'[h] = s /\ \A g \in Handlers : g # h => hpc'[g] = hpc[g]
      /\ hpc[h] \in Preparing /\ s \in Preparing /\ hpc[h] \in Executing /\ s \in Executing
      /\ UNCHANGED <<fence, fenceQ>>
  BY DEF TypeOK, RequestInv, HandlerSteps, Turn, Preparing, Executing
<1>1. /\ Queues' /\ LockStep' /\ jobs' \in Seq(Jobs) /\ drainQ' \in Seq(Jobs)
      /\ hpc' \in [Handlers -> HandlerSteps]
  BY <1>0, TurnStep
<1>2. phase \in {"draining", "fencing"} /\ phase' \in {"draining", "fencing"}
  BY <1>0 DEF Restarts, Draining
<1>3. LatchCounts'
  BY <1>0, CountKept
<1>4. s = "drained" => \A g \in Handlers : hpc[g] # "exec"
  BY <1>0, LatchMeans DEF Executing
<1>5. phase' = "fencing" => \A g \in Handlers : hpc[g] \notin Waiting
  <2>1. CASE phase = "fencing"
    BY <2>1 DEF Restarts
  <2>2. CASE phase # "fencing" /\ phase' = "fencing"
    <3>1. hpc[h] = "drained" /\ phase # "none"
      BY <1>2, <2>2
    <3>2. SUFFICES ASSUME NEW g \in Handlers, hpc[g] \in Waiting PROVE FALSE
      OBVIOUS
    <3>3. In(g, jobs)
      BY <1>2, <3>2 DEF Queues, LockStep, Draining
    <3>4. PICK j \in 1 .. Len(jobs) : jobs[j] = g
      BY <3>3 DEF In
    <3>5. jobs \in Seq(Jobs) /\ jobs # <<>> /\ jobs[1] = h /\ Len(jobs) \in Nat
      BY DEF Runs, TypeOK, Jobs
    <3>6. 1 \in 1 .. Len(jobs) /\ 1 < j
      <4>1. g # h
        BY <3>1, <3>2 DEF Waiting
      <4> QED BY <3>4, <3>5, <4>1
    <3>7. Stage[h] <= Stage[g]
      BY <3>4, <3>5, <3>6 DEF LockStep, InStep
    <3>8. Stage[h] = 5 /\ Stage[g] # 5 /\ Stage[g] \in 1 .. 5
      BY <1>0, <3>1, <3>2, StageType DEF Waiting
    <3> QED BY <3>7, <3>8
  <2> QED BY <2>1, <2>2
<1>6. Restarts'
  <2>1. \A f, g \in Handlers : hpc'[f] \in Preparing /\ hpc'[g] \in Preparing => f = g
    BY <1>0 DEF Restarts
  <2>2. ASSUME NEW g \in Handlers
        PROVE  /\ hpc'[g] \in Preparing => Draining'
               /\ hpc'[g] = "preparing" => phase' = "fencing"
               /\ phase' = "fencing" => hpc'[g] \notin Waiting
    BY <1>0, <1>2, <1>5 DEF Restarts, Waiting, Preparing, Draining
  <2>3. ASSUME NEW f \in Handlers, NEW g \in Handlers,
               hpc'[f] = "preparing" \/ (hpc'[f] = "drained" /\ phase' = "fencing")
        PROVE  hpc'[g] # "exec"
    <3>1. f = h
      BY <1>0, <2>1, <2>3 DEF Preparing
    <3>2. CASE s = "drained"
      BY <1>0, <1>4, <3>2
    <3>3. CASE s = "preparing"
      BY <1>0, <3>3 DEF Restarts
    <3> QED BY <1>0, <2>3, <3>1, <3>2, <3>3
  <2> QED BY <1>2, <2>1, <2>2, <2>3 DEF Restarts
<1>7. TypeOK'
  BY <1>0, <1>1, <1>2 DEF TypeOK, Jobs, clientVars, wireVars
<1>8. \A g \in Handlers : /\ hpc'[g] # "off" => hpc[g] # "off"
                          /\ hpc'[g] \in Waiting => hpc[g] \in Waiting
                          /\ hpc'[g] \in Executing => hpc[g] \in Executing
  BY <1>0 DEF Waiting, Executing, Preparing
<1>9. RequestInv'
  BY <1>0, <1>8, RunsUp, QuietStep DEF wireVars
<1> QED BY <1>1, <1>3, <1>6, <1>7, <1>9 DEF RequestInv

(* waitForDrain looks at the latch again. *)
LEMMA RecheckDrainStep ==
  ASSUME CommandsInv, NEW h \in Handlers, RecheckDrain(h)
  PROVE  CommandsInv'
<1>0. active \in Nat
  BY DEF CommandsInv, TypeOK
<1>1. CASE active > 1
  <2>1. Turn(h, "drain")
    BY <1>1 DEF RecheckDrain, AwaitDrain, Turn, fenceVars, Draining
  <2> QED BY <2>1, PrepareTurn DEF RecheckDrain, fenceVars
<1>2. CASE ~(active > 1)
  <2>1. Turn(h, "drained")
    BY <1>2 DEF RecheckDrain, AwaitDrain, Turn, fenceVars, Draining, Forward
  <2> QED BY <1>0, <1>2, <2>1, PrepareTurn DEF RecheckDrain, fenceVars
<1> QED BY <1>1, <1>2

(* prepareUpdateRestart closes the door after its first drain. *)
LEMMA EnterFencingStep ==
  ASSUME CommandsInv, NEW h \in Handlers, EnterFencing(h)
  PROVE  CommandsInv'
<1>0. active \in Nat
  BY DEF CommandsInv, TypeOK
<1>1. CASE active > 1
  <2>1. Turn(h, "drain")
    BY <1>1 DEF EnterFencing, AwaitDrain, Turn, fenceVars, Draining
  <2> QED BY <2>1, PrepareTurn DEF EnterFencing, fenceVars
<1>2. CASE ~(active > 1)
  <2>1. Turn(h, "drained")
    BY <1>2 DEF EnterFencing, AwaitDrain, Turn, fenceVars, Draining, Forward
  <2> QED BY <1>0, <1>2, <2>1, PrepareTurn DEF EnterFencing, fenceVars
<1> QED BY <1>1, <1>2

(* prepareUpdateRestart begins its preparation after the second drain. *)
LEMMA EnterPreparationStep ==
  ASSUME CommandsInv, NEW h \in Handlers, EnterPreparation(h)
  PROVE  CommandsInv'
<1>1. Turn(h, "preparing")
  BY DEF EnterPreparation, Turn, fenceVars, Draining, latchVars
<1> QED BY <1>1, PrepareTurn DEF EnterPreparation, fenceVars, latchVars

-----------------------------------------------------------------------------
(* Evictions *)

(* A turn of an eviction changes nothing for the handlers and the clients. *)
LEMMA EvictionQuiet ==
  ASSUME CommandsInv, NEW v \in Evictors, NEW rest,
         \/ Runs(v) /\ rest = Tail(jobs)
         \/ Idle /\ rest = <<>>,
         EvictionTurn(v, rest), epc' \in [Evictors -> EvictorSteps],
         fence' \in Evictors \cup {NoFence},
         UNCHANGED <<clientVars, wireVars, up, active, journal, ran>>
  PROVE  CommandsInv'
<1> USE DEF CommandsInv
<1>1. /\ Queues' /\ LockStep'
      /\ jobs' \in Seq(Jobs) /\ fenceQ' \in Seq(Jobs) /\ drainQ' \in Seq(Jobs)
      /\ \A h \in Handlers : In(h, fenceQ') => In(h, fenceQ)
  BY EvictionTurnStep
<1>2. hpc' = hpc /\ phase' = phase /\ RequestInv
  BY DEF EvictionTurn, RequestInv
<1>3. Restarts' /\ LatchCounts'
  BY <1>2, RestartsKept
<1>4. TypeOK'
  BY <1>1, <1>2 DEF TypeOK, Jobs, clientVars, wireVars
<1>5. up # "down"
  BY <1>2, RunsUp DEF Idle
<1>6. RequestInv'
  BY <1>1, <1>2, <1>5, QuietStep DEF wireVars
<1> QED BY <1>1, <1>3, <1>4, <1>6 DEF RequestInv

(* acquireIdleEvictionFence, the wait for the latch and the decision. *)
LEMMA EvictionSteps ==
  ASSUME CommandsInv, NEW v \in Evictors,
         EvictionStarts(v) \/ AcquireAgain(v) \/ EvictionDrains(v) \/ EvictionDecides(v)
  PROVE  CommandsInv'
<1>0. /\ epc \in [Evictors -> EvictorSteps] /\ fence \in Evictors \cup {NoFence}
      /\ {"acquired", "acquire", "drain", "drained", "deciding"} \subseteq EvictorSteps
      /\ v # NoFence
  BY CommandsAssumption DEF CommandsInv, TypeOK, EvictorSteps
<1>1. ASSUME NEW rest, TakeFence(v, rest) \/ AwaitFence(v, rest),
             TakeFence(v, rest) \/ fence # NoFence,
             \/ Runs(v) /\ rest = Tail(jobs)
             \/ Idle /\ rest = <<>>,
             UNCHANGED <<clientVars, wireVars, up, hpc, latchVars, phase, journal, ran>>
      PROVE  CommandsInv'
  <2>1. UNCHANGED <<clientVars, wireVars, up, active, drainQ, hpc, phase, journal, ran>>
    BY <1>1 DEF latchVars
  <2>2. CASE TakeFence(v, rest)
    <3>1. EvictionTurn(v, rest) /\ epc' \in [Evictors -> EvictorSteps] /\ fence' = v
      BY <1>0, <2>1, <2>2 DEF EvictionTurn, TakeFence
    <3> QED BY <1>1, <2>1, <3>1, EvictionQuiet
  <2>3. CASE AwaitFence(v, rest) /\ fence # NoFence
    <3>1. EvictionTurn(v, rest) /\ epc' \in [Evictors -> EvictorSteps] /\ fence' = fence
      BY <1>0, <2>1, <2>3 DEF EvictionTurn, AwaitFence
    <3> QED BY <1>0, <1>1, <2>1, <3>1, EvictionQuiet
  <2> QED BY <1>1, <2>2, <2>3
<1>2. CASE EvictionStarts(v)
  BY <1>1, <1>2 DEF EvictionStarts
<1>3. CASE AcquireAgain(v)
  BY <1>1, <1>3 DEF AcquireAgain
<1>4. CASE EvictionDrains(v)
  <2>1. Runs(v) /\ EvictionTurn(v, Tail(jobs))
    BY <1>4 DEF EvictionDrains, EvictionTurn, AwaitDrain
  <2>2. epc' \in [Evictors -> EvictorSteps] /\ fence' = fence
    BY <1>0, <1>4 DEF EvictionDrains
  <2> QED BY <1>0, <1>4, <2>1, <2>2, EvictionQuiet DEF EvictionDrains
<1>5. CASE EvictionDecides(v)
  <2>1. /\ Runs(v) /\ EvictionTurn(v, Tail(jobs))
        /\ UNCHANGED <<clientVars, wireVars, up, active, journal, ran>>
    BY <1>5 DEF EvictionDecides, EvictionTurn, latchVars
  <2>2. epc' \in [Evictors -> EvictorSteps] /\ fence' = fence
    BY <1>0, <1>5 DEF EvictionDecides
  <2> QED BY <1>0, <2>1, <2>2, EvictionQuiet
<1> QED BY <1>2, <1>3, <1>4, <1>5

(* stopWorker, and the end of an eviction. *)
LEMMA EvictionOver ==
  ASSUME CommandsInv, NEW v \in Evictors, StopWorker(v) \/ EvictionEnds(v)
  PROVE  CommandsInv'
<1> USE DEF CommandsInv
<1>0. /\ epc \in [Evictors -> EvictorSteps] /\ {"off", "stopping"} \subseteq EvictorSteps
      /\ RequestInv
  BY DEF TypeOK, EvictorSteps, RequestInv
<1>1. CASE StopWorker(v)
  <2>1. /\ UNCHANGED <<clientVars, wireVars, up, jobs, hpc, fence, fenceQ, active, drainQ, phase,
                       journal, ran>>
        /\ epc' \in [Evictors -> EvictorSteps]
    BY <1>0, <1>1 DEF StopWorker, latchVars
  <2>2. Queues' /\ LockStep' /\ Restarts' /\ LatchCounts'
    BY <2>1, QueuesKept, RestartsKept
  <2>3. RequestInv'
    BY <1>0, <2>1, QuietStep DEF wireVars
  <2>4. TypeOK'
    BY <2>1 DEF TypeOK, clientVars, wireVars
  <2> QED BY <2>2, <2>3, <2>4 DEF RequestInv
<1>2. CASE EvictionEnds(v)
  <2>1. /\ Queues' /\ LockStep'
        /\ jobs' \in Seq(Jobs) /\ fenceQ' \in Seq(Jobs) /\ drainQ' \in Seq(Jobs)
        /\ \A g : ~In(g, fenceQ')
    BY <1>2, EvictionEndsStep
  <2>2. /\ UNCHANGED <<clientVars, wireVars, up, hpc, active, phase, journal, ran>>
        /\ epc' \in [Evictors -> EvictorSteps] /\ fence' = NoFence /\ up # "down"
    BY <1>0, <1>2 DEF EvictionEnds, Idle
  <2>3. Restarts' /\ LatchCounts'
    BY <2>2, RestartsKept
  <2>4. RequestInv'
    BY <1>0, <2>1, <2>2, QuietStep DEF wireVars
  <2>5. TypeOK'
    BY <2>1, <2>2 DEF TypeOK, Jobs, clientVars, wireVars
  <2> QED BY <2>1, <2>3, <2>4, <2>5 DEF RequestInv
<1> QED BY <1>1, <1>2

-----------------------------------------------------------------------------
(* handleLine *)

(* A response that says the command was refused. *)
LEMMA RefuseStep ==
  ASSUME CommandsInv, NEW h \in Handlers, Reads(h), NEW a \in Answers, Respond(h, a),
         up = "serving" => ~Fenced(h[1]),
         a = "restarting" => ~Held(h[1]) /\ (ran[h[1]] = 0 \/ h[1] \in CancelCmds),
         inbox' \in Seq(Lines),
         UNCHANGED <<clientVars, up, epc, fence, jobs, hpc, fenceQ, journal, ran, latchVars, phase>>
  PROVE  CommandsInv'
<1> USE DEF CommandsInv
<1>1. Queues' /\ LockStep' /\ Restarts' /\ LatchCounts'
  BY QueuesKept, RestartsKept DEF latchVars
<1>2. TypeOK'
  BY RespondShape DEF TypeOK, clientVars, latchVars
<1>3. RequestInv'
  BY RespondStep DEF RequestInv
<1> QED BY <1>1, <1>2, <1>3 DEF RequestInv

(* When no job is ready, whoever waits is held back by a fence. *)
LEMMA IdleHeld ==
  ASSUME Queues, Idle, NEW c, ~Fenced(c)
  PROVE  ~Held(c)
<1>1. \A h \in Handlers : ~In(h, jobs)
  BY InEmpty DEF Idle
<1> QED BY <1>1 DEF Queues, Held, Fenced

(* A command that a restart rejects is not waiting for a fence. *)
LEMMA RejectedNotFenced ==
  ASSUME TypeOK, Queues, LockStep, Restarts, NEW c, CancelRejected(c) \/ RestartRejects(c)
  PROVE  ~Fenced(c)
<1>1. CASE Draining
  BY <1>1 DEF LockStep, Fenced
<1>2. CASE phase = "prepared" /\ c \notin ShutdownCmds
  BY <1>2 DEF Restarts, Queues, Fenced, Waiting
<1>3. Draining \/ (phase = "prepared" /\ c \notin ShutdownCmds)
  BY CommandsAssumption DEF CancelRejected, RestartRejects, Draining, TypeOK
<1> QED BY <1>1, <1>2, <1>3

(* handleLine on a command: refused, held back, or looked up and admitted. *)
LEMMA ReadCommandStep ==
  ASSUME CommandsInv, ReadCommand
  PROVE  CommandsInv'
<1> USE DEF CommandsInv
<1> DEFINE h == <<Head(inbox).cmd, Head(inbox).epoch>>
           c == h[1]
<1>0. /\ Idle /\ inbox # <<>> /\ Head(inbox).kind = "command" /\ inbox' = Tail(inbox)
      /\ HandleCommand(h) /\ UNCHANGED <<clientVars, up, epc, fence>>
      /\ RequestInv /\ up # "down"
  BY DEF ReadCommand, Idle, RequestInv
<1> HIDE DEF h
<1>1. h \in Handlers /\ hpc[h] = "off" /\ Unread(c) /\ Reads(h) /\ inbox' \in Seq(Lines)
  BY <1>0, ReadsHead DEF h
<1>2. c \in Cmds /\ {"stopping", "restarting"} \subseteq Answers
  BY <1>1, HandlerParts DEF Answers
<1>3. CASE /\ up = "stopping"
           /\ Respond(h, "stopping")
           /\ UNCHANGED <<jobs, hpc, fenceQ, journal, ran, latchVars, phase>>
  BY <1>0, <1>1, <1>2, <1>3, RefuseStep
<1>4. CASE /\ up = "serving"
           /\ CancelRejected(c) \/ (journal[c] = "none" /\ RestartRejects(c))
           /\ Respond(h, "restarting")
           /\ UNCHANGED <<jobs, hpc, fenceQ, journal, ran, latchVars, phase>>
  <2>1. ~Fenced(c)
    BY <1>4, RejectedNotFenced
  <2>2. c \notin CancelCmds => ran[c] = 0
    BY <1>0, <1>1, <1>2, <1>4, NotRunYet DEF CancelRejected
  <2>3. ~Held(c)
    BY <1>0, <2>1, IdleHeld
  <2> QED BY <1>0, <1>1, <1>2, <1>4, <2>1, <2>2, <2>3, RefuseStep
<1>5. CASE /\ up = "serving" /\ journal[c] = "none" /\ ~RestartRejects(c)
           /\ c \notin DrainCmds /\ fence # NoFence
           /\ hpc' = [hpc EXCEPT ![h] = "fenced"]
           /\ fenceQ' = Append(fenceQ, h)
           /\ UNCHANGED <<outbox, jobs, journal, ran, latchVars, phase>>
  <2>1. ~Draining /\ (phase = "none" \/ LetIn(h))
    BY <1>5 DEF RestartRejects, TypeOK, Draining, LetIn
  <2>2. UNCHANGED <<fence, jobs, drainQ, active, phase>>
    BY <1>0, <1>5 DEF latchVars
  <2>3. /\ Queues' /\ LockStep'
        /\ fenceQ' \in Seq(Jobs) /\ hpc' \in [Handlers -> HandlerSteps]
        /\ \A g : In(g, fenceQ') <=> In(g, fenceQ) \/ g = h
    BY <1>0, <1>1, <1>5, <2>1, <2>2, FenceStep
  <2>4. /\ hpc \in [Handlers -> HandlerSteps]
        /\ hpc'[h] = "fenced" /\ \A g \in Handlers : g # h => hpc'[g] = hpc[g]
    BY <1>1, <1>5 DEF TypeOK
  <2>5. Restarts' /\ LatchCounts'
    BY <1>1, <1>5, <2>1, <2>2, <2>4, RestartsHeld DEF Waiting
  <2>6. RequestInv'
    BY <1>0, <1>1, <1>5, <2>3, <2>4, HeldStep
  <2>7. TypeOK'
    BY <1>0, <1>1, <1>5, <2>2, <2>3 DEF TypeOK, Jobs, clientVars
  <2> QED BY <2>3, <2>5, <2>6, <2>7 DEF RequestInv
<1>6. CASE /\ up = "serving" /\ ~CancelRejected(c)
           /\ journal[c] # "none" \/ (~RestartRejects(c) /\ (c \in DrainCmds \/ fence = NoFence))
           /\ Admit(h, <<>>)
           /\ UNCHANGED fenceQ
  <2>1. active \in Nat
    BY DEF TypeOK
  <2>2. PICK s \in {"off", "exec", "drain", "drained"} : Admitted(h, s, <<>>)
    BY <1>6, <2>1, AdmitShape
  <2>3. s = "off" <=> journal[c] # "none"
    BY <2>2 DEF Admitted
  <2>4. s \in HandlerSteps /\ hpc \in [Handlers -> HandlerSteps]
    BY DEF HandlerSteps, TypeOK
  <2>5. s = "off" \/ phase \in {"none", "draining"} \/ LetIn(h)
    BY <1>6, <2>3 DEF RestartRejects, TypeOK, LetIn
  <2>6. ~Fenced(c)
    <3>1. CASE journal[c] # "none"
      BY <1>0, <1>2, <3>1 DEF RequestInv, Executions
    <3>2. CASE c \in DrainCmds
      BY <3>2 DEF Fenced, Queues
    <3>3. CASE fence = NoFence
      BY <3>3 DEF Fenced, Queues
    <3> QED BY <1>6, <3>1, <3>2, <3>3
  <2>7. Begin(h, s)
    <3>1. s \in {"drain", "drained"} => fence = NoFence
      BY <1>6, <2>2, <2>3, CommandsAssumption DEF Admitted
    <3> QED BY <1>0, <1>6, <2>2, <3>1 DEF Begin, Admitted, Draining
  <2>8. /\ Queues' /\ LockStep' /\ jobs' \in Seq(Jobs) /\ drainQ' \in Seq(Jobs)
        /\ hpc' \in [Handlers -> HandlerSteps]
    BY <1>0, <1>1, <2>4, <2>7, BeginStep
  <2>9. Restarts' /\ LatchCounts'
    BY <1>1, <2>2, <2>5, AdmittedRestarts
  <2>10. /\ RequestInv'
         /\ outbox' \in Seq([cmd : Cmds, answer : Answers])
         /\ journal' \in [Cmds -> {"none", "pending", "complete"}] /\ ran' \in [Cmds -> Nat]
    BY <1>0, <1>1, <1>6, <2>2, <2>6, AdmittedRequest
  <2>11. active' \in Nat /\ phase' \in {"none", "draining", "fencing", "prepared"}
    BY <2>1, <2>2 DEF Admitted, TypeOK
  <2>12. TypeOK'
    BY <1>0, <1>1, <1>6, <2>8, <2>10, <2>11 DEF TypeOK, Jobs, clientVars
  <2> QED BY <2>8, <2>9, <2>10, <2>12 DEF RequestInv
<1> QED BY <1>0, <1>3, <1>4, <1>5, <1>6 DEF HandleCommand

(* The journal forgets a command when the client acknowledges it; by then
   every copy of the command is used up. *)
LEMMA ReadAckStep ==
  ASSUME CommandsInv, ReadAck
  PROVE  CommandsInv'
<1> USE DEF CommandsInv
<1> DEFINE l == Head(inbox)
           c == l.cmd
<1>0. /\ Idle /\ inbox # <<>> /\ l.kind = "ack" /\ inbox' = Tail(inbox)
      /\ journal' = IF up = "serving" THEN [journal EXCEPT ![c] = "none"] ELSE journal
      /\ UNCHANGED <<cst, answer, epoch, connected, outbox, up, jobs, hpc, fence, fenceQ, epc,
                     active, drainQ, phase, ran>>
      /\ RequestInv /\ up # "down"
  BY DEF ReadAck, Idle, RequestInv, clientVars, fenceVars, latchVars
<1>1. /\ inbox \in Seq(Lines) /\ l \in Lines /\ Tail(inbox) \in Seq(Lines) /\ In(l, inbox)
      /\ \A x : In(x, Tail(inbox)) => In(x, inbox)
  BY <1>0, InTail DEF TypeOK
<1> HIDE DEF l
<1>2. c \in Cmds /\ l.epoch \in Epochs /\ l = AckLine(c, l.epoch)
  BY <1>0, <1>1 DEF Lines, AckLine
<1> HIDE DEF c
<1>3. Acked(c)
  BY <1>1, <1>2 DEF Acked
<1>4. cst[c] = "answered" /\ (up = "serving" => ~Fenced(c))
  BY <1>0, <1>2, <1>3 DEF RequestInv, Requests
<1>5. up = "serving" => ~Held(c)
  BY <1>0, <1>4, IdleHeld
<1>6. Queues' /\ LockStep' /\ Restarts' /\ LatchCounts'
  BY <1>0, QueuesKept, RestartsKept
<1>7. /\ journal' \in [Cmds -> {"none", "pending", "complete"}]
      /\ \A d \in Cmds : journal'[d] = journal[d] \/ (d = c /\ up = "serving" /\ journal'[d] = "none")
  <2>1. journal \in [Cmds -> {"none", "pending", "complete"}]
    BY DEF TypeOK
  <2> QED BY <1>0, <1>2, <2>1
<1>8. TypeOK'
  BY <1>0, <1>1, <1>7 DEF TypeOK
<1>9. ASSUME NEW d \in Cmds
      PROVE  /\ Unread1(d) => Unread(d)
             /\ Acked1(d) => Acked(d)
             /\ Responded1(d) <=> Responded(d)
             /\ Fenced1(d) <=> Fenced(d)
             /\ Held1(d) <=> Held(d)
  <2>1. (Unread1(d) => Unread(d)) /\ (Acked1(d) => Acked(d))
    BY <1>0, <1>1 DEF Unread1, Unread, Acked1, Acked
  <2>2. (Responded1(d) <=> Responded(d)) /\ (Fenced1(d) <=> Fenced(d)) /\ (Held1(d) <=> Held(d))
    BY <1>0 DEF Responded1, Responded, Fenced1, Fenced, Held1, Held
  <2> QED BY <2>1, <2>2
<1>10. CopiesNext
  <2>1. Ordered(inbox')
    BY <1>0, <1>1, OrderedTail DEF RequestInv, CopiesInOrder
  <2> QED BY <1>0, <1>1, <2>1 DEF CopiesNext, RequestInv, CopiesInOrder
<1>11. ConnectionsNext
  BY <1>0 DEF ConnectionsNext, RequestInv, Connections
<1>12. ASSUME NEW d \in Cmds PROVE RequestNext(d)
  <2>1. CASE d # c
    BY <1>0, <1>7, <1>9, <2>1 DEF RequestNext, RequestInv, Requests, Executions
  <2>2. CASE d = c
    BY <1>0, <1>4, <1>5, <1>7, <1>9, <2>2 DEF RequestNext, RequestInv, Requests, Executions
  <2> QED BY <2>1, <2>2
<1>13. RequestInv'
  BY <1>0, <1>10, <1>11, <1>12, RequestInvNext DEF RequestInv, Executions
<1> QED BY <1>6, <1>8, <1>13 DEF RequestInv

(* handleCommand settles. *)
LEMMA CompleteRequest ==
  ASSUME CommandsInv, NEW h \in Handlers, Idle, hpc[h] \in Executing, Complete(h),
         UNCHANGED <<clientVars, inbox, up, fenceVars, ran>>,
         \/ hpc[h] = "exec" /\ phase' = phase
         \/ hpc[h] = "preparing" /\ phase' = "prepared"
         \/ hpc[h] \in {"drain", "preparing"} /\ phase' = "none"
  PROVE  CommandsInv'
<1> USE DEF CommandsInv
<1>0. /\ UNCHANGED <<cst, answer, epoch, connected, inbox, up, fence, fenceQ, epc, ran>>
      /\ RequestInv /\ up # "down" /\ hpc[h] # "off" /\ h[1] \in Cmds
  BY HandlerParts DEF clientVars, fenceVars, RequestInv, Idle, Executing, Preparing
<1>1. Draining' => Draining
  BY DEF Draining
<1>2. /\ Queues' /\ LockStep'
      /\ jobs' \in Seq(Jobs) /\ drainQ' \in Seq(Jobs) /\ hpc' \in [Handlers -> HandlerSteps]
      /\ hpc'[h] = "off" /\ \A g \in Handlers : g # h => hpc'[g] = hpc[g]
  BY <1>0, <1>1, CompleteStep
<1>3. active' = active - 1 /\ active \in Nat /\ active >= 1
  BY LatchMeans DEF Complete
<1>4. LatchCounts'
  BY <1>2, <1>3, CountDown DEF Executing, Preparing
<1>5. Restarts'
  <2>1. CASE hpc[h] = "exec" /\ phase' = phase
    BY <1>2, <2>1 DEF Restarts, Preparing, Waiting, Draining
  <2>2. CASE hpc[h] = "preparing" /\ phase' = "prepared"
    <3>1. phase = "fencing" /\ \A g \in Handlers : hpc[g] # "exec" /\ hpc[g] \notin Waiting
      BY <2>2 DEF Restarts
    <3>2. \A g \in Handlers : hpc'[g] \notin Preparing
      BY <1>2, <2>2 DEF Restarts, Preparing
    <3> QED BY <1>2, <2>2, <3>1, <3>2 DEF Restarts, Preparing, Waiting
  <2>3. CASE hpc[h] \in {"drain", "preparing"} /\ phase' = "none"
    <3>1. \A g \in Handlers : hpc'[g] \notin Preparing
      BY <1>2, <2>3 DEF Restarts, Preparing
    <3> QED BY <2>3, <3>1 DEF Restarts, Preparing
  <2> QED BY <2>1, <2>2, <2>3
<1> DEFINE a == IF journal[h[1]] = "none" THEN "unrecorded" ELSE "result"
<1>6. Respond(h, a) /\ a \in Answers /\ a # "restarting"
  BY DEF Complete, Answers
<1> HIDE DEF a
<1>7. /\ journal' \in [Cmds -> {"none", "pending", "complete"}]
      /\ \A c \in Cmds : journal'[c] = "none" <=> journal[c] = "none"
  <2>1. journal \in [Cmds -> {"none", "pending", "complete"}]
    BY DEF TypeOK
  <2>2. journal' = [journal EXCEPT ![h[1]] = IF journal[h[1]] = "none" THEN "none" ELSE "complete"]
    BY DEF Complete
  <2> QED BY <1>0, <2>1, <2>2
<1>8. TypeOK'
  <2>1. outbox' \in Seq([cmd : Cmds, answer : Answers])
    BY <1>6, RespondShape
  <2>2. phase' \in {"none", "draining", "fencing", "prepared"} /\ active' \in Nat
    BY <1>3 DEF TypeOK
  <2> QED BY <1>0, <1>2, <1>7, <2>1, <2>2 DEF TypeOK, Jobs
<1>9. Reads(h) /\ ~Fenced(h[1])
  BY <1>0, ReadsNothing DEF RequestInv, Executions
<1>10. \A g \in Handlers : hpc'[g] = hpc[g] \/ hpc'[g] = "off"
  BY <1>2
<1>11. RequestInv'
  BY <1>0, <1>6, <1>7, <1>9, <1>10, RespondStep
<1> QED BY <1>2, <1>4, <1>5, <1>8, <1>11 DEF RequestInv

(* The execution of a command, or a preparation, ends. *)
LEMMA HandlerEventStep ==
  ASSUME CommandsInv, NEW h \in Handlers, HandlerEvent(h)
  PROVE  CommandsInv'
<1>1. CASE Executed(h)
  BY <1>1, CompleteRequest DEF Executed, Executing
<1>2. CASE Prepared(h)
  BY <1>2, CompleteRequest DEF Prepared, Executing, Preparing
<1>3. CASE CalledOff(h)
  BY <1>3, CompleteRequest DEF CalledOff, Executing, Preparing
<1> QED BY <1>1, <1>2, <1>3 DEF HandlerEvent

-----------------------------------------------------------------------------
(* The supervisor process *)

(* The supervisor begins to shut down, or is started again. *)
LEMMA ProcessStep ==
  ASSUME CommandsInv, Shutdown \/ Restart
  PROVE  CommandsInv'
<1> USE DEF CommandsInv
<1>1. /\ UNCHANGED <<cst, answer, epoch, connected, inbox, outbox, jobs, hpc, fence, fenceQ, epc,
                     active, drainQ, phase, journal, ran>>
      /\ (up = "serving" /\ up' = "stopping") \/ (up = "down" /\ up' = "serving")
      /\ RequestInv
  BY DEF Shutdown, Restart, clientVars, wireVars, fenceVars, latchVars, RequestInv
<1>2. Queues' /\ LockStep' /\ Restarts' /\ LatchCounts'
  BY <1>1, QueuesKept, RestartsKept
<1>3. TypeOK'
  BY <1>1 DEF TypeOK
<1>4. RequestInv'
  BY <1>1, QuietStep DEF clientVars
<1> QED BY <1>2, <1>3, <1>4 DEF RequestInv

(* With nobody in the queues and every handler off, what is left is right. *)
LEMMA NobodyThere ==
  ASSUME hpc' = [h \in Handlers |-> "off"], jobs' = <<>>, fenceQ' = <<>>, drainQ' = <<>>,
         active' = 0
  PROVE  Queues' /\ LockStep' /\ Restarts' /\ LatchCounts'
<1>1. \A h \in Handlers : hpc'[h] = "off"
  OBVIOUS
<1>2. Queues'
  BY <1>1, InEmpty, QueuesNext DEF Waiting
<1>3. LockStep'
  <2>1. InStep(jobs', Stage')
    BY DEF InStep
  <2> QED BY <2>1, InEmpty, LockStepNext
<1>4. Restarts'
  BY <1>1 DEF Restarts, Preparing, Waiting
<1>5. LatchCounts'
  <2>1. Counted' = {}
    BY <1>1 DEF Counted, Executing, Preparing
  <2> QED BY <2>1, FS_EmptySet DEF LatchCounts, Counted
<1> QED BY <1>2, <1>3, <1>4, <1>5

(* A crash loses the connection and all that is in the process. *)
LEMMA DieStep ==
  ASSUME CommandsInv, Die
  PROVE  CommandsInv'
<1> USE DEF CommandsInv
<1>0. /\ epoch < MaxEpoch /\ up' = "down" /\ connected' = FALSE /\ outbox' = <<>> /\ inbox' = <<>>
      /\ jobs' = <<>> /\ hpc' = [h \in Handlers |-> "off"] /\ epc' = [v \in Evictors |-> "off"]
      /\ fence' = NoFence /\ fenceQ' = <<>> /\ active' = 0 /\ drainQ' = <<>> /\ phase' = "none"
      /\ UNCHANGED <<journal, ran, answer, epoch>>
      /\ RequestInv
  BY DEF Die, Park, RequestInv
<1>1. cst' = [c \in Cmds |-> IF cst[c] = "sent" THEN "parked" ELSE cst[c]]
  BY DEF Die, Park
<1>2. Queues' /\ LockStep' /\ Restarts' /\ LatchCounts'
  BY <1>0, NobodyThere
<1>3. \A c \in Cmds : \/ cst[c] = "sent" /\ cst'[c] = "parked"
                      \/ cst[c] # "sent" /\ cst'[c] = cst[c]
  BY <1>1
<1>4. TypeOK'
  <2>1. cst' \in [Cmds -> ClientStates]
    BY <1>1 DEF TypeOK, ClientStates
  <2>2. /\ hpc' \in [Handlers -> HandlerSteps] /\ epc' \in [Evictors -> EvictorSteps]
    BY <1>0 DEF HandlerSteps, EvictorSteps
  <2>3. /\ inbox' \in Seq(Lines) /\ outbox' \in Seq([cmd : Cmds, answer : Answers])
        /\ jobs' \in Seq(Handlers \cup Evictors) /\ fenceQ' \in Seq(Handlers \cup Evictors)
        /\ drainQ' \in Seq(Handlers \cup Evictors)
    BY <1>0
  <2>4. /\ up' = "down" /\ connected' = FALSE /\ fence' = NoFence /\ active' = 0 /\ phase' = "none"
        /\ UNCHANGED <<journal, ran, answer, epoch>>
    BY <1>0
  <2> QED BY <2>1, <2>2, <2>3, <2>4 DEF TypeOK
<1>5. ASSUME NEW c \in Cmds
      PROVE  ~Unread1(c) /\ ~Acked1(c) /\ ~Responded1(c) /\ ~Fenced1(c) /\ ~Held1(c)
  BY <1>0, InEmpty DEF Unread1, Acked1, Responded1, Fenced1, Held1, Waiting
<1>6. CopiesNext
  BY <1>0, InEmpty DEF CopiesNext, Ordered
<1>7. ConnectionsNext
  BY <1>0 DEF ConnectionsNext
<1>8. ASSUME NEW c \in Cmds PROVE RequestNext(c)
  <2>1. ~In([cmd |-> c, answer |-> "restarting"], outbox')
    BY <1>0, InEmpty
  <2> QED BY <1>0, <1>3, <1>5, <2>1 DEF RequestNext, RequestInv, Requests, Executions
<1>9. RequestInv'
  BY <1>0, <1>6, <1>7, <1>8, RequestInvNext DEF Executing, Preparing
<1> QED BY <1>2, <1>4, <1>9 DEF RequestInv

-----------------------------------------------------------------------------
(* The client *)

(* A line tells its command and its connection. *)
LEMMA LineParts ==
  /\ \A c, d, e, f : CommandLine(c, e) = CommandLine(d, f) => c = d /\ e = f
  /\ \A c, d, e, f : AckLine(c, e) = AckLine(d, f) => c = d /\ e = f
  /\ \A c, d, e, f : CommandLine(c, e) # AckLine(d, f)
BY DEF CommandLine, AckLine

(* A line that is sent later goes behind the others. *)
LEMMA OrderedAppend ==
  ASSUME NEW q \in Seq(Lines), NEW x \in Lines, Ordered(q),
         \A c \in Cmds : \A d, e \in Epochs :
           x = CommandLine(c, e) /\ In(CommandLine(c, d), q) => d < e
  PROVE  Ordered(Append(q, x))
<1> DEFINE a == Append(q, x)
           n == Len(q)
<1>1. n \in Nat /\ Len(a) = n + 1 /\ a[n + 1] = x /\ \A i \in 1 .. n : a[i] = q[i]
  OBVIOUS
<1> HIDE DEF a, n
<1>2. ASSUME NEW c \in Cmds, NEW d \in Epochs, NEW e \in Epochs,
             NEW i \in 1 .. n + 1, NEW j \in 1 .. n + 1, i < j,
             a[i] = CommandLine(c, d), a[j] = CommandLine(c, e)
      PROVE  d < e
  <2>1. i \in 1 .. n /\ a[i] = q[i] /\ In(CommandLine(c, d), q)
    BY <1>1, <1>2 DEF In, n
  <2>2. CASE j = n + 1
    BY <1>1, <1>2, <2>1, <2>2
  <2>3. CASE j # n + 1
    <3>1. j \in 1 .. n /\ a[j] = q[j]
      BY <1>1, <2>3
    <3> QED BY <1>2, <2>1, <3>1 DEF Ordered, n
  <2> QED BY <2>2, <2>3
<1>3. Ordered(a)
  BY <1>1, <1>2 DEF Ordered
<1> QED BY <1>3 DEF a

(* The supervisor's part of a client's step. *)
SupervisorIdles == UNCHANGED <<up, jobs, hpc, fenceVars, latchVars, phase, journal, ran>>

(* A client's step need only be looked at for the requests. *)
LEMMA ClientInv ==
  ASSUME CommandsInv, SupervisorIdles,
         cst' \in [Cmds -> ClientStates], answer' \in [Cmds -> Answers \cup {"none"}],
         epoch' \in Epochs, connected' \in BOOLEAN, inbox' \in Seq(Lines),
         outbox' \in Seq([cmd : Cmds, answer : Answers]),
         CopiesNext, ConnectionsNext, \A c \in Cmds : RequestNext(c)
  PROVE  CommandsInv'
<1> USE DEF CommandsInv
<1>1. UNCHANGED <<up, jobs, hpc, fence, fenceQ, epc, active, drainQ, phase, journal, ran>>
  BY DEF SupervisorIdles, fenceVars, latchVars
<1>2. Queues' /\ LockStep' /\ Restarts' /\ LatchCounts'
  BY <1>1, QueuesKept, RestartsKept
<1>3. TypeOK'
  BY <1>1 DEF TypeOK
<1>4. RequestInv'
  BY <1>1, RequestInvNext DEF Executions
<1> QED BY <1>2, <1>3, <1>4 DEF RequestInv

(* For a client's step, what is held back stays so. *)
LEMMA ClientKeeps ==
  ASSUME SupervisorIdles
  PROVE  /\ UNCHANGED <<up, jobs, hpc, fenceQ, journal, ran>>
         /\ \A c \in Cmds : (Fenced1(c) <=> Fenced(c)) /\ (Held1(c) <=> Held(c))
BY DEF SupervisorIdles, fenceVars, Fenced1, Fenced, Held1, Held

(* requestWire sends a command for the first time. *)
LEMMA RequestStep ==
  ASSUME CommandsInv, NEW c \in Cmds, Request(c)
  PROVE  CommandsInv'
<1> USE DEF CommandsInv
<1> DEFINE l == CommandLine(c, epoch)
<1>0. /\ cst[c] = "new" /\ connected /\ inbox' = Append(inbox, l)
      /\ cst' = [cst EXCEPT ![c] = "sent"]
      /\ UNCHANGED <<answer, epoch, connected, outbox>> /\ SupervisorIdles
      /\ RequestInv /\ epoch \in Epochs /\ inbox \in Seq(Lines) /\ l \in Lines
      /\ cst \in [Cmds -> ClientStates] /\ "sent" \in ClientStates
  BY HandlerParts DEF Request, SupervisorIdles, RequestInv, TypeOK, ClientStates
<1>1. /\ inbox' \in Seq(Lines)
      /\ \A x : In(x, inbox') <=> In(x, inbox) \/ x = l
  <2> HIDE DEF l
  <2> QED BY <1>0, InAppend
<1>2. /\ cst' \in [Cmds -> ClientStates] /\ cst'[c] = "sent"
      /\ \A d \in Cmds : d # c => cst'[d] = cst[d]
  BY <1>0
<1>3. /\ ~Unread(c) /\ ~Responded(c) /\ ran[c] = 0 /\ journal[c] = "none"
      /\ ~Acked(c) /\ answer[c] # "restarting"
      /\ \A h \in Handlers : h[1] = c => hpc[h] = "off"
      /\ ~In([cmd |-> c, answer |-> "restarting"], outbox)
  <2>1. /\ ~Unread(c) /\ ~Responded(c) /\ ran[c] = 0 /\ journal[c] = "none"
        /\ ~Acked(c) /\ answer[c] # "restarting"
        /\ \A h \in Handlers : h[1] = c => hpc[h] = "off"
    BY <1>0 DEF RequestInv, Requests
  <2>2. "restarting" \in Answers
    BY DEF Answers
  <2> QED BY <2>1, <2>2 DEF Responded
<1>4. ASSUME NEW d \in Cmds
      PROVE  /\ d # c => (Unread1(d) => Unread(d))
             /\ Acked1(d) <=> Acked(d)
             /\ Responded1(d) <=> Responded(d)
             /\ Fenced1(d) <=> Fenced(d)
             /\ Held1(d) <=> Held(d)
  <2>1. d # c => (Unread1(d) => Unread(d))
    BY <1>1, LineParts DEF Unread1, Unread
  <2>2. Acked1(d) <=> Acked(d)
    BY <1>1, LineParts DEF Acked1, Acked
  <2>3. Responded1(d) <=> Responded(d)
    BY <1>0 DEF Responded1, Responded
  <2> QED BY <1>0, <2>1, <2>2, <2>3, ClientKeeps
<1>5. CopiesNext
  <2>1. ASSUME NEW d \in Cmds, NEW e \in Epochs, NEW f \in Epochs,
               l = CommandLine(d, e), In(CommandLine(d, f), inbox)
        PROVE  FALSE
    <3>1. d = c
      BY <2>1, LineParts
    <3> QED BY <1>3, <2>1, <3>1 DEF Unread
  <2>2. Ordered(inbox')
    <3> HIDE DEF l
    <3> QED BY <1>0, <2>1, OrderedAppend DEF RequestInv, CopiesInOrder
  <2>3. ASSUME NEW d \in Cmds, NEW e \in Epochs, In(CommandLine(d, e), inbox') PROVE e <= epoch'
    <3>1. CASE In(CommandLine(d, e), inbox)
      BY <1>0, <3>1 DEF RequestInv, CopiesInOrder
    <3>2. CASE CommandLine(d, e) = l
      <4>1. e = epoch /\ epoch \in Nat
        BY <1>0, <3>2, LineParts, HandlerParts
      <4> QED BY <1>0, <4>1
    <3> QED BY <1>1, <2>3, <3>1, <3>2
  <2>4. ASSUME NEW h \in Handlers, hpc'[h] # "off"
        PROVE  /\ h[2] <= epoch'
               /\ \A e \in Epochs : In(CommandLine(h[1], e), inbox') => h[2] < e
    <3>1. hpc[h] # "off" /\ h[1] # c /\ epoch' = epoch
      BY <1>0, <1>3, <2>4, ClientKeeps
    <3>2. ASSUME NEW e \in Epochs, In(CommandLine(h[1], e), inbox') PROVE h[2] < e
      <4>1. In(CommandLine(h[1], e), inbox)
        BY <1>1, <3>1, <3>2, LineParts
      <4> QED BY <1>0, <3>1, <4>1 DEF RequestInv, CopiesInOrder
    <3> QED BY <1>0, <3>1, <3>2 DEF RequestInv, CopiesInOrder
  <2> QED BY <2>2, <2>3, <2>4 DEF CopiesNext
<1>6. ConnectionsNext
  BY <1>0, ClientKeeps DEF ConnectionsNext, RequestInv, Connections
<1>7. ASSUME NEW d \in Cmds PROVE RequestNext(d)
  <2>1. UNCHANGED <<up, hpc, journal, ran>>
    BY <1>0, ClientKeeps
  <2>2. CASE d # c
    BY <1>0, <1>2, <1>4, <2>1, <2>2 DEF RequestNext, RequestInv, Requests, Executions
  <2>3. CASE d = c
    BY <1>0, <1>2, <1>3, <1>4, <2>1, <2>3 DEF RequestNext, RequestInv, Requests, Executions
  <2> QED BY <2>2, <2>3
<1>8. /\ answer' \in [Cmds -> Answers \cup {"none"}] /\ epoch' \in Epochs /\ connected' \in BOOLEAN
      /\ outbox' \in Seq([cmd : Cmds, answer : Answers])
  BY <1>0 DEF TypeOK
<1> QED BY <1>0, <1>1, <1>2, <1>5, <1>6, <1>7, <1>8, ClientInv

(* A response settles its request, and is acknowledged. *)
LEMMA ReceiveStep ==
  ASSUME CommandsInv, Receive
  PROVE  CommandsInv'
<1> USE DEF CommandsInv
<1> DEFINE R == [cmd : Cmds, answer : Answers]
           r == Head(outbox)
           c == r.cmd
           l == AckLine(c, epoch)
<1>0. /\ outbox # <<>> /\ outbox' = Tail(outbox)
      /\ UNCHANGED <<epoch, connected>> /\ SupervisorIdles
      /\ RequestInv /\ outbox \in Seq(R) /\ inbox \in Seq(Lines) /\ epoch \in Epochs
      /\ cst \in [Cmds -> ClientStates] /\ answer \in [Cmds -> Answers \cup {"none"}]
      /\ "answered" \in ClientStates /\ "restarting" \in Answers /\ connected \in BOOLEAN
  BY DEF Receive, SupervisorIdles, RequestInv, TypeOK, ClientStates, Answers
<1>1. IF cst[c] = "sent"
        THEN /\ cst' = [cst EXCEPT ![c] = "answered"]
             /\ answer' = [answer EXCEPT ![c] = r.answer]
             /\ inbox' = Append(inbox, l)
        ELSE UNCHANGED <<cst, answer, inbox>>
  BY DEF Receive
<1>2. /\ r \in R /\ Tail(outbox) \in Seq(R) /\ In(r, outbox)
      /\ \A x : In(x, Tail(outbox)) => In(x, outbox)
  <2> HIDE DEF R
  <2> QED BY <1>0, InTail
<1> HIDE DEF r
<1>3. c \in Cmds /\ r.answer \in Answers /\ r = [cmd |-> c, answer |-> r.answer]
  BY <1>2
<1>4. Responded(c) /\ (r.answer = "restarting" => In([cmd |-> c, answer |-> "restarting"], outbox))
  BY <1>2, <1>3 DEF Responded
<1>5. UNCHANGED <<up, jobs, hpc, fenceQ, journal, ran>>
  BY <1>0, ClientKeeps
<1> HIDE DEF c, R
<1>6. ASSUME NEW d \in Cmds
      PROVE  /\ Responded1(d) => Responded(d)
             /\ In([cmd |-> d, answer |-> "restarting"], outbox') =>
                  In([cmd |-> d, answer |-> "restarting"], outbox)
             /\ Fenced1(d) <=> Fenced(d)
             /\ Held1(d) <=> Held(d)
  BY <1>0, <1>2, ClientKeeps DEF Responded1, Responded
<1>7. ConnectionsNext
  <2>1. connected
    BY <1>0 DEF RequestInv, Connections
  <2> QED BY <1>0, <1>5, <2>1 DEF ConnectionsNext, RequestInv, Connections
<1>8. CASE cst[c] = "sent"
  <2>0. l \in Lines
    BY <1>0, <1>3, HandlerParts
  <2> HIDE DEF l
  <2>1. /\ inbox' \in Seq(Lines) /\ inbox' = Append(inbox, l)
        /\ \A x : In(x, inbox') <=> In(x, inbox) \/ x = l
    <3>1. inbox' = Append(inbox, l)
      BY <1>1, <1>8
    <3> QED BY <1>0, <2>0, <3>1, InAppend
  <2>2. /\ cst' \in [Cmds -> ClientStates] /\ cst'[c] = "answered"
        /\ \A d \in Cmds : d # c => cst'[d] = cst[d] /\ answer'[d] = answer[d]
        /\ answer' \in [Cmds -> Answers \cup {"none"}] /\ answer'[c] = r.answer
    BY <1>0, <1>1, <1>3, <1>8
  <2>3. ASSUME NEW d \in Cmds
        PROVE  (Unread1(d) <=> Unread(d)) /\ (d # c => (Acked1(d) => Acked(d)))
    BY <2>1, LineParts DEF Unread1, Unread, Acked1, Acked, l
  <2>4. CopiesNext
    <3>1. \A d \in Cmds : \A e \in Epochs :
            In(CommandLine(d, e), inbox') <=> In(CommandLine(d, e), inbox)
      BY <2>1, LineParts DEF l
    <3>2. Ordered(inbox')
      BY <1>0, <2>0, <2>1, LineParts, OrderedAppend DEF RequestInv, CopiesInOrder, l
    <3>3. \A h \in Handlers : h[1] \in Cmds
      BY HandlerParts
    <3> QED BY <1>0, <1>5, <3>1, <3>2, <3>3 DEF CopiesNext, RequestInv, CopiesInOrder
  <2>5. ASSUME NEW d \in Cmds PROVE RequestNext(d)
    <3>1. CASE d # c
      BY <1>0, <1>5, <1>6, <2>2, <2>3, <3>1 DEF RequestNext, RequestInv, Requests, Executions
    <3>2. CASE d = c
      BY <1>0, <1>4, <1>5, <1>6, <2>2, <2>3, <3>2 DEF RequestNext, RequestInv, Requests, Executions
    <3> QED BY <3>1, <3>2
  <2> QED BY <1>0, <1>2, <1>7, <2>1, <2>2, <2>4, <2>5, ClientInv DEF R
<1>9. CASE cst[c] # "sent"
  <2>1. UNCHANGED <<cst, answer, inbox>>
    BY <1>1, <1>9
  <2>2. ASSUME NEW d \in Cmds
        PROVE  (Unread1(d) <=> Unread(d)) /\ (Acked1(d) <=> Acked(d))
    BY <2>1 DEF Unread1, Unread, Acked1, Acked
  <2>3. CopiesNext
    BY <1>0, <1>5, <2>1 DEF CopiesNext, RequestInv, CopiesInOrder
  <2>4. ASSUME NEW d \in Cmds PROVE RequestNext(d)
    BY <1>0, <1>5, <1>6, <2>1, <2>2 DEF RequestNext, RequestInv, Requests, Executions
  <2> QED BY <1>0, <1>2, <1>7, <2>1, <2>3, <2>4, ClientInv DEF R
<1> QED BY <1>8, <1>9

(* Requests are given up or parked, and what was on the wire is kept in its
   order or lost from the end. *)
LEMMA ForgetStep ==
  ASSUME CommandsInv, SupervisorIdles, UNCHANGED <<answer, epoch>>,
         cst' \in [Cmds -> ClientStates], connected' \in BOOLEAN, inbox' \in Seq(Lines),
         outbox' \in Seq([cmd : Cmds, answer : Answers]),
         \A d \in Cmds : \/ cst'[d] = cst[d]
                         \/ cst[d] \in {"sent", "parked"} /\ cst'[d] \in {"parked", "rejected"},
         \A d \in Cmds : cst'[d] = "parked" => ~connected',
         \A x : In(x, inbox') => In(x, inbox), Ordered(inbox'),
         \A x : In(x, outbox') => In(x, outbox), ConnectionsNext
  PROVE  CommandsInv'
<1> USE DEF CommandsInv
<1>0. RequestInv /\ TypeOK
  BY DEF RequestInv
<1>1. UNCHANGED <<up, jobs, hpc, fenceQ, journal, ran>>
  BY ClientKeeps
<1>2. ASSUME NEW d \in Cmds
      PROVE  /\ Unread1(d) => Unread(d)
             /\ Acked1(d) => Acked(d)
             /\ Responded1(d) => Responded(d)
             /\ Fenced1(d) <=> Fenced(d)
             /\ Held1(d) <=> Held(d)
  <2>1. Unread1(d) => Unread(d)
    BY DEF Unread1, Unread
  <2>2. Acked1(d) => Acked(d)
    BY DEF Acked1, Acked
  <2>3. Responded1(d) => Responded(d)
    BY DEF Responded1, Responded
  <2> QED BY <2>1, <2>2, <2>3, ClientKeeps
<1>3. CopiesNext
  BY <1>0, <1>1, HandlerParts DEF CopiesNext, RequestInv, CopiesInOrder
<1>4. ASSUME NEW d \in Cmds PROVE RequestNext(d)
  BY <1>0, <1>1, <1>2 DEF RequestNext, RequestInv, Requests, Executions
<1>5. answer' \in [Cmds -> Answers \cup {"none"}] /\ epoch' \in Epochs
  BY DEF TypeOK
<1> QED BY <1>3, <1>4, <1>5, ClientInv

(* TimeOut and ReconnectFails. *)
LEMMA GiveUpStep ==
  ASSUME CommandsInv, ReconnectFails \/ \E c \in Cmds : TimeOut(c)
  PROVE  CommandsInv'
<1> USE DEF CommandsInv
<1>1. /\ UNCHANGED <<answer, epoch, connected, inbox, outbox>> /\ SupervisorIdles
      /\ UNCHANGED <<up, jobs>>
  BY DEF ReconnectFails, TimeOut, SupervisorIdles, wireVars
<1>2. /\ cst' \in [Cmds -> ClientStates]
      /\ \A d \in Cmds : \/ cst'[d] = cst[d]
                         \/ cst[d] \in {"sent", "parked"} /\ cst'[d] = "rejected"
  <2>1. CASE ReconnectFails
    BY <2>1 DEF ReconnectFails, TypeOK, ClientStates
  <2>2. ASSUME NEW c \in Cmds, TimeOut(c)
        PROVE  /\ cst' \in [Cmds -> ClientStates]
               /\ \A d \in Cmds : \/ cst'[d] = cst[d]
                                  \/ cst[d] \in {"sent", "parked"} /\ cst'[d] = "rejected"
    BY <2>2 DEF TimeOut, TypeOK, ClientStates
  <2> QED BY <2>1, <2>2
<1>3. \A d \in Cmds : cst'[d] = "parked" => ~connected'
  BY <1>1, <1>2 DEF Requests
<1>4. Ordered(inbox') /\ ConnectionsNext
  BY <1>1 DEF CopiesInOrder, Connections, ConnectionsNext
<1>5. /\ connected' \in BOOLEAN /\ inbox' \in Seq(Lines)
      /\ outbox' \in Seq([cmd : Cmds, answer : Answers])
  BY <1>1 DEF TypeOK
<1> QED BY <1>1, <1>2, <1>3, <1>4, <1>5, ForgetStep

(* The connection breaks: every pending request is parked. *)
LEMMA DisconnectStep ==
  ASSUME CommandsInv, Disconnect
  PROVE  CommandsInv'
<1> USE DEF CommandsInv
<1>1. /\ UNCHANGED <<answer, epoch>> /\ connected /\ ~connected' /\ outbox' = <<>> /\ SupervisorIdles
      /\ epoch < MaxEpoch /\ UNCHANGED <<up, jobs>> /\ connected' \in BOOLEAN
  BY DEF Disconnect, Park, SupervisorIdles
<1>2. cst' = [c \in Cmds |-> IF cst[c] = "sent" THEN "parked" ELSE cst[c]]
  BY DEF Disconnect, Park
<1>3. /\ cst' \in [Cmds -> ClientStates]
      /\ \A d \in Cmds : \/ cst'[d] = cst[d]
                         \/ cst[d] \in {"sent", "parked"} /\ cst'[d] \in {"parked", "rejected"}
  BY <1>2 DEF TypeOK, ClientStates
<1>4. PICK n \in 0 .. Len(inbox) : inbox' = SubSeq(inbox, 1, n)
  BY DEF Disconnect
<1>5. /\ inbox \in Seq(Lines) /\ inbox' \in Seq(Lines) /\ Len(inbox') = n /\ Len(inbox) \in Nat
      /\ \A i \in 1 .. n : inbox'[i] = inbox[i] /\ i \in 1 .. Len(inbox)
  BY <1>4 DEF TypeOK
<1>6. \A x : In(x, inbox') => In(x, inbox)
  BY <1>5 DEF In
<1>7. Ordered(inbox')
  <2>1. Ordered(inbox)
    BY DEF CopiesInOrder
  <2> QED BY <1>5, <2>1 DEF Ordered
<1>8. /\ outbox' \in Seq([cmd : Cmds, answer : Answers])
      /\ \A x : In(x, outbox') => In(x, outbox)
  BY <1>1, InEmpty
<1>9. ConnectionsNext
  <2>1. up # "down"
    BY <1>1 DEF Connections
  <2> QED BY <1>1, <2>1 DEF ConnectionsNext
<1> QED BY <1>1, <1>3, <1>5, <1>6, <1>7, <1>8, <1>9, ForgetStep

(* The lines that Reconnect writes: one per parked request. *)
LEMMA Resent ==
  ASSUME NEW P \in SUBSET Cmds, NEW e \in Epochs
  PROVE  LET s == [i \in 1 .. Cardinality(P) |-> CommandLine(SetToSeq(P)[i], e)]
         IN  /\ s \in Seq(Lines)
             /\ \A i \in 1 .. Len(s) : \E c \in P : s[i] = CommandLine(c, e)
             /\ \A i, j \in 1 .. Len(s) : s[i] = s[j] => i = j
<1> DEFINE n == Cardinality(P)
           f == SetToSeq(P)
           s == [i \in 1 .. n |-> CommandLine(f[i], e)]
<1>1. IsFiniteSet(P)
  BY CommandsAssumption, FS_Subset
<1>2. n \in Nat /\ \E g \in [1 .. n -> P] : IsInjective(g)
  <2>1. n \in Nat /\ ExistsBijection(1 .. n, P)
    BY <1>1, FS_CardinalityType
  <2>2. PICK g : g \in Bijection(1 .. n, P)
    BY <2>1 DEF ExistsBijection
  <2>3. g \in [1 .. n -> P] /\ IsInjective(g)
    BY <2>2 DEF Bijection, Injection
  <2> QED BY <2>1, <2>3
<1>3. f \in [1 .. n -> P] /\ IsInjective(f)
  BY <1>2 DEF SetToSeq
<1> HIDE DEF n, f
<1>4. \A i \in 1 .. n : f[i] \in P /\ s[i] = CommandLine(f[i], e) /\ s[i] \in Lines
  BY <1>3, HandlerParts
<1>5. s \in Seq(Lines) /\ Len(s) = n
  BY <1>2, <1>4
<1>6. \A i, j \in 1 .. n : s[i] = s[j] => i = j
  BY <1>3, <1>4, LineParts DEF IsInjective
<1> HIDE DEF s
<1>7. /\ s \in Seq(Lines)
      /\ \A i \in 1 .. Len(s) : \E c \in P : s[i] = CommandLine(c, e)
      /\ \A i, j \in 1 .. Len(s) : s[i] = s[j] => i = j
  BY <1>4, <1>5, <1>6
<1> QED BY <1>7 DEF s, n, f

(* Copies of commands that go behind the lines of earlier connections. *)
LEMMA OrderedConcat ==
  ASSUME NEW q \in Seq(Lines), NEW s \in Seq(Lines), NEW e \in Epochs, Ordered(q),
         \A c \in Cmds : \A d \in Epochs : In(CommandLine(c, d), q) => d < e,
         \A i \in 1 .. Len(s) : \E c \in Cmds : s[i] = CommandLine(c, e),
         \A i, j \in 1 .. Len(s) : s[i] = s[j] => i = j
  PROVE  /\ Ordered(q \o s) /\ q \o s \in Seq(Lines)
         /\ \A x : In(x, q \o s) <=> In(x, q) \/ In(x, s)
<1> DEFINE a == q \o s
           n == Len(q)
           m == Len(s)
<1>1. /\ n \in Nat /\ m \in Nat /\ Len(a) = n + m /\ a \in Seq(Lines)
      /\ \A i \in 1 .. n : a[i] = q[i]
      /\ \A i \in n + 1 .. n + m : a[i] = s[i - n] /\ i - n \in 1 .. m
  OBVIOUS
<1>2. \A i \in 1 .. m : n + i \in n + 1 .. n + m /\ (n + i) - n = i
  BY <1>1
<1>0. n \in Nat /\ m \in Nat
  BY <1>1
<1> HIDE DEF a, n, m
<1>3. ASSUME NEW x PROVE In(x, a) <=> In(x, q) \/ In(x, s)
  <2>1. ASSUME In(x, a) PROVE In(x, q) \/ In(x, s)
    <3>1. PICK i \in 1 .. n + m : a[i] = x
      BY <1>1, <2>1 DEF In
    <3>2. CASE i \in 1 .. n
      BY <1>1, <3>1, <3>2 DEF In, n
    <3>3. CASE i \notin 1 .. n
      <4>1. i \in n + 1 .. n + m
        BY <1>1, <3>3
      <4> QED BY <1>1, <3>1, <4>1 DEF In, m
    <3> QED BY <3>2, <3>3
  <2>2. ASSUME In(x, q) PROVE In(x, a)
    <3>1. PICK i \in 1 .. n : q[i] = x
      BY <2>2 DEF In, n
    <3>2. i \in 1 .. n + m /\ a[i] = x
      BY <1>1, <3>1
    <3> QED BY <1>1, <3>2 DEF In
  <2>3. ASSUME In(x, s) PROVE In(x, a)
    <3>1. PICK i \in 1 .. m : s[i] = x
      BY <2>3 DEF In, m
    <3>2. n + i \in 1 .. n + m /\ a[n + i] = x
      BY <1>1, <1>2, <3>1
    <3> QED BY <1>1, <3>2 DEF In
  <2> QED BY <2>1, <2>2, <2>3
<1>4. ASSUME NEW c \in Cmds, NEW d \in Epochs, NEW f \in Epochs,
             NEW i \in 1 .. n + m, NEW j \in 1 .. n + m, i < j,
             a[i] = CommandLine(c, d), a[j] = CommandLine(c, f)
      PROVE  d < f
  <2>1. CASE j \in 1 .. n
    <3>1. i \in 1 .. n
      BY <1>0, <1>4, <2>1
    <3>2. q[i] = CommandLine(c, d) /\ q[j] = CommandLine(c, f)
      BY <1>1, <1>4, <2>1, <3>1
    <3> QED BY <1>4, <2>1, <3>1, <3>2 DEF Ordered, n
  <2>2. CASE j \notin 1 .. n
    <3>1. j \in n + 1 .. n + m
      BY <1>1, <2>2
    <3>2. a[j] = s[j - n] /\ j - n \in 1 .. m
      BY <1>1, <3>1
    <3>3. f = e
      <4>1. PICK b \in Cmds : s[j - n] = CommandLine(b, e)
        BY <3>2 DEF m
      <4>2. CommandLine(c, f) = CommandLine(b, e)
        BY <1>4, <3>2, <4>1
      <4> QED BY <4>2 DEF CommandLine
    <3>4. CASE i \in 1 .. n
      <4>1. a[i] = q[i]
        BY <1>1, <3>4
      <4>2. In(CommandLine(c, d), q)
        BY <1>4, <3>4, <4>1 DEF In, n
      <4> QED BY <3>3, <4>2
    <3>5. CASE i \notin 1 .. n
      <4>1. i \in n + 1 .. n + m
        BY <1>1, <3>5
      <4>2. a[i] = s[i - n] /\ i - n \in 1 .. m
        BY <1>1, <4>1
      <4>3. d = e
        <5>1. PICK b \in Cmds : s[i - n] = CommandLine(b, e)
          BY <4>2 DEF m
        <5>2. CommandLine(c, d) = CommandLine(b, e)
          BY <1>4, <4>2, <5>1
        <5> QED BY <5>2 DEF CommandLine
      <4>4. i - n = j - n
        BY <1>4, <3>2, <3>3, <4>2, <4>3 DEF m
      <4> QED BY <1>1, <1>4, <4>4
    <3> QED BY <3>4, <3>5
  <2> QED BY <2>1, <2>2
<1>5. Ordered(a)
  BY <1>1, <1>4 DEF Ordered
<1> QED BY <1>1, <1>3, <1>5 DEF a

(* Every parked request is sent again on the new connection. *)
LEMMA ReconnectStep ==
  ASSUME CommandsInv, Reconnect
  PROVE  CommandsInv'
<1> USE DEF CommandsInv
<1> DEFINE P == {c \in Cmds : cst[c] = "parked"}
           e == epoch + 1
           s == [i \in 1 .. Cardinality(P) |-> CommandLine(SetToSeq(P)[i], e)]
<1>0. /\ ~connected /\ connected' = TRUE /\ epoch' = e /\ UNCHANGED <<answer, outbox>>
      /\ SupervisorIdles /\ up # "down"
      /\ RequestInv /\ TypeOK /\ epoch \in Epochs
      /\ cst \in [Cmds -> ClientStates] /\ inbox \in Seq(Lines)
      /\ "sent" \in ClientStates
  BY DEF Reconnect, SupervisorIdles, RequestInv, TypeOK, ClientStates
<1>1. inbox' = inbox \o s
  BY DEF Reconnect
<1>2. cst' = [c \in Cmds |-> IF c \in P THEN "sent" ELSE cst[c]]
  BY DEF Reconnect
<1>3. outbox = <<>> /\ epoch < MaxEpoch
  BY <1>0 DEF RequestInv, Connections
<1>4. e \in Epochs /\ epoch \in Nat /\ e = epoch + 1 /\ epoch < e
  BY <1>0, <1>3, CommandsAssumption DEF Epochs
<1>5. UNCHANGED <<up, jobs, hpc, fenceQ, journal, ran>>
  BY <1>0, ClientKeeps
<1>6. /\ cst' \in [Cmds -> ClientStates] /\ P \in SUBSET Cmds
      /\ \A d \in Cmds : IF d \in P THEN cst[d] = "parked" /\ cst'[d] = "sent"
                                    ELSE cst[d] # "parked" /\ cst'[d] = cst[d]
  BY <1>0, <1>2
<1>7. /\ s \in Seq(Lines)
      /\ \A i \in 1 .. Len(s) : \E c \in P : s[i] = CommandLine(c, e)
      /\ \A i, j \in 1 .. Len(s) : s[i] = s[j] => i = j
  <2> HIDE DEF P, e
  <2> QED BY <1>4, <1>6, Resent
<1> HIDE DEF P, s, e
<1>8. \A c \in Cmds : \A d \in Epochs : In(CommandLine(c, d), inbox) => d <= epoch /\ d < e
  <2>1. \A c \in Cmds : \A d \in Epochs : In(CommandLine(c, d), inbox) => d <= epoch
    BY <1>0 DEF RequestInv, CopiesInOrder
  <2> QED BY <1>4, <2>1, HandlerParts
<1>9. /\ Ordered(inbox') /\ inbox' \in Seq(Lines)
      /\ \A x : In(x, inbox') <=> In(x, inbox) \/ In(x, s)
  <2>1. \A i \in 1 .. Len(s) : \E c \in Cmds : s[i] = CommandLine(c, e)
    BY <1>6, <1>7
  <2>2. Ordered(inbox)
    BY <1>0 DEF RequestInv, CopiesInOrder
  <2>3. \A c \in Cmds : \A d \in Epochs : In(CommandLine(c, d), inbox) => d < e
    BY <1>8
  <2>4. e \in Epochs /\ inbox \in Seq(Lines) /\ s \in Seq(Lines)
    BY <1>0, <1>4, <1>7
  <2>5. /\ Ordered(inbox \o s) /\ inbox \o s \in Seq(Lines)
        /\ \A x : In(x, inbox \o s) <=> In(x, inbox) \/ In(x, s)
    BY <1>7, <2>1, <2>2, <2>3, <2>4, OrderedConcat
  <2> QED BY <1>1, <2>5
<1>10. ASSUME NEW x, In(x, s) PROVE \E c \in P : x = CommandLine(c, e)
  BY <1>7, <1>10 DEF In
<1>11. ASSUME NEW d \in Cmds
       PROVE  /\ d \notin P => (Unread1(d) => Unread(d))
              /\ Acked1(d) => Acked(d)
              /\ ~Responded1(d) /\ ~In([cmd |-> d, answer |-> "restarting"], outbox')
              /\ Fenced1(d) <=> Fenced(d)
              /\ Held1(d) <=> Held(d)
  <2>1. d \notin P => (Unread1(d) => Unread(d))
    BY <1>9, <1>10, LineParts DEF Unread1, Unread
  <2>2. Acked1(d) => Acked(d)
    BY <1>9, <1>10, LineParts DEF Acked1, Acked
  <2>3. ~Responded1(d) /\ ~In([cmd |-> d, answer |-> "restarting"], outbox')
    BY <1>0, <1>3, InEmpty DEF Responded1
  <2> QED BY <1>0, <2>1, <2>2, <2>3, ClientKeeps
<1>12. CopiesNext
  <2>1. ASSUME NEW d \in Cmds, NEW f \in Epochs, In(CommandLine(d, f), inbox')
        PROVE  f <= epoch' /\ (In(CommandLine(d, f), inbox) \/ f = e)
    <3>1. CASE In(CommandLine(d, f), inbox)
      <4>1. f <= epoch /\ f \in Nat
        BY <1>8, <3>1, HandlerParts
      <4> QED BY <1>0, <1>4, <3>1, <4>1
    <3>2. CASE In(CommandLine(d, f), s)
      <4>1. f = e /\ e \in Nat
        BY <1>4, <1>10, <3>2, LineParts, HandlerParts
      <4> QED BY <1>0, <4>1
    <3> QED BY <1>9, <2>1, <3>1, <3>2
  <2>2. ASSUME NEW h \in Handlers, hpc'[h] # "off"
        PROVE  /\ h[2] <= epoch'
               /\ \A f \in Epochs : In(CommandLine(h[1], f), inbox') => h[2] < f
    <3>1. /\ h[2] <= epoch /\ h[2] \in Nat /\ h[1] \in Cmds
          /\ \A f \in Epochs : In(CommandLine(h[1], f), inbox) => h[2] < f
      BY <1>0, <1>5, <2>2, HandlerParts DEF RequestInv, CopiesInOrder
    <3>2. h[2] <= e /\ h[2] < e
      BY <1>4, <3>1
    <3> QED BY <1>0, <2>1, <3>1, <3>2
  <2> QED BY <1>9, <2>1, <2>2 DEF CopiesNext
<1>13. ConnectionsNext
  BY <1>0, <1>5 DEF ConnectionsNext
<1>14. ASSUME NEW d \in Cmds PROVE RequestNext(d)
  <2>1. CASE d \in P
    BY <1>0, <1>5, <1>6, <1>11, <2>1 DEF RequestNext, RequestInv, Requests, Executions
  <2>2. CASE d \notin P
    BY <1>0, <1>5, <1>6, <1>11, <2>2 DEF RequestNext, RequestInv, Requests, Executions
  <2> QED BY <2>1, <2>2
<1>15. /\ answer' \in [Cmds -> Answers \cup {"none"}] /\ epoch' \in Epochs /\ connected' \in BOOLEAN
       /\ outbox' \in Seq([cmd : Cmds, answer : Answers])
  BY <1>0, <1>4 DEF TypeOK
<1> QED BY <1>0, <1>6, <1>9, <1>12, <1>13, <1>14, <1>15, ClientInv

-----------------------------------------------------------------------------
(* The specification *)

(* At the start nothing is under way. *)
LEMMA CommandsStart ==
  ASSUME Init
  PROVE  CommandsInv
<1>1. \A h \in Handlers : hpc[h] = "off"
  BY DEF Init
<1>2. \A x : ~In(x, <<>>) /\ Once(x, <<>>)
  BY InEmpty
<1>3. TypeOK
  <2>1. cst \in [Cmds -> ClientStates] /\ answer \in [Cmds -> Answers \cup {"none"}]
    BY DEF Init, ClientStates
  <2>2. hpc \in [Handlers -> HandlerSteps] /\ epc \in [Evictors -> EvictorSteps]
    BY DEF Init, HandlerSteps, EvictorSteps
  <2>3. epoch \in Epochs /\ connected \in BOOLEAN
    BY CommandsAssumption DEF Init, Epochs
  <2>4. /\ inbox \in Seq(Lines) /\ outbox \in Seq([cmd : Cmds, answer : Answers])
        /\ jobs \in Seq(Handlers \cup Evictors) /\ fenceQ \in Seq(Handlers \cup Evictors)
        /\ drainQ \in Seq(Handlers \cup Evictors)
    BY DEF Init
  <2>5. /\ journal \in [Cmds -> {"none", "pending", "complete"}] /\ ran \in [Cmds -> Nat]
        /\ active \in Nat /\ fence \in Evictors \cup {NoFence} /\ up = "serving" /\ phase = "none"
    BY DEF Init
  <2> QED BY <2>1, <2>2, <2>3, <2>4, <2>5 DEF TypeOK
<1>4. Queues
  BY <1>1, <1>2 DEF Init, Queues, Waiting
<1>5. LockStep
  BY <1>1, <1>2 DEF Init, LockStep, InStep
<1>6. Restarts
  BY <1>1 DEF Init, Restarts, Preparing, Waiting
<1>7. LatchCounts
  <2>1. {h \in Handlers : hpc[h] \in Executing} = {}
    BY <1>1 DEF Executing, Preparing
  <2> QED BY <2>1, FS_EmptySet DEF LatchCounts, Init
<1>8. ASSUME NEW c \in Cmds
      PROVE  ~Unread(c) /\ ~Acked(c) /\ ~Responded(c) /\ ~Fenced(c) /\ ~Held(c)
  BY <1>1, <1>2 DEF Init, Unread, Acked, Responded, Fenced, Held, Waiting
<1>9. CopiesInOrder
  BY <1>1, <1>2 DEF Init, CopiesInOrder, Ordered
<1>10. Connections
  BY DEF Init, Connections
<1>11. ASSUME NEW c \in Cmds
       PROVE  cst[c] = "new" /\ answer[c] = "none" /\ ran[c] = 0 /\ journal[c] = "none"
  BY DEF Init
<1>12. Requests
  BY <1>1, <1>2, <1>8, <1>11 DEF Requests, Init
<1>13. Executions
  BY <1>1, <1>8, <1>11 DEF Executions, Executing, Preparing
<1> QED BY <1>3, <1>4, <1>5, <1>6, <1>7, <1>9, <1>10, <1>12, <1>13 DEF CommandsInv

(* No variable changes. *)
LEMMA CommandsStutter ==
  ASSUME CommandsInv, UNCHANGED vars
  PROVE  CommandsInv'
<1> USE DEF CommandsInv
<1>1. /\ UNCHANGED <<cst, answer, epoch, connected, inbox, outbox, up, jobs, hpc, fence, fenceQ,
                     epc, active, drainQ, phase, journal, ran>>
      /\ RequestInv
  BY DEF vars, RequestInv
<1>2. Queues' /\ LockStep' /\ Restarts' /\ LatchCounts'
  BY <1>1, QueuesKept, RestartsKept
<1>3. TypeOK'
  BY <1>1 DEF TypeOK
<1>4. RequestInv'
  BY <1>1, QuietStep DEF clientVars
<1> QED BY <1>2, <1>3, <1>4 DEF RequestInv

(* Every step keeps the invariant. *)
LEMMA CommandsNext ==
  ASSUME CommandsInv, [Next]_vars
  PROVE  CommandsInv'
<1>1. CASE ClientStep
  <2>1. CASE Receive
    BY <2>1, ReceiveStep
  <2>2. CASE Disconnect
    BY <2>2, DisconnectStep
  <2>3. CASE Reconnect
    BY <2>3, ReconnectStep
  <2>4. CASE ReconnectFails \/ \E c \in Cmds : TimeOut(c)
    BY <2>4, GiveUpStep
  <2>5. CASE \E c \in Cmds : Request(c)
    BY <2>5, RequestStep
  <2> QED BY <1>1, <2>1, <2>2, <2>3, <2>4, <2>5 DEF ClientStep
<1>2. CASE RunJob
  <2>1. ASSUME NEW h \in Handlers,
               \/ ResumeFenced(h) \/ Hop(h) \/ AdmitFenced(h)
               \/ RecheckDrain(h) \/ EnterFencing(h) \/ EnterPreparation(h)
        PROVE  CommandsInv'
    BY <2>1, ResumeFencedStep, HopStep, AdmitFencedStep, RecheckDrainStep, EnterFencingStep,
       EnterPreparationStep
  <2>2. ASSUME NEW v \in Evictors, AcquireAgain(v) \/ EvictionDrains(v) \/ EvictionDecides(v)
        PROVE  CommandsInv'
    BY <2>2, EvictionSteps
  <2> QED BY <1>2, <2>1, <2>2 DEF RunJob
<1>3. CASE \E v \in Evictors : EvictionStarts(v) \/ StopWorker(v) \/ EvictionEnds(v)
  BY <1>3, EvictionSteps, EvictionOver
<1>4. CASE \E h \in Handlers : HandlerEvent(h)
  BY <1>4, HandlerEventStep
<1>5. CASE ReadCommand \/ ReadAck
  BY <1>5, ReadCommandStep, ReadAckStep
<1>6. CASE Shutdown \/ Die \/ Restart
  BY <1>6, ProcessStep, DieStep
<1>7. CASE UNCHANGED vars
  BY <1>7, CommandsStutter
<1> QED BY <1>1, <1>2, <1>3, <1>4, <1>5, <1>6, <1>7 DEF Next, SupervisorStep

(* The inductive invariant of the client, handleLine, the journal, the latch,
   the update restart and the job queue of the event loop. *)
THEOREM CommandsInvariance == Spec => []CommandsInv
<1>1. Init => CommandsInv
  BY CommandsStart
<1>2. CommandsInv /\ [Next]_vars => CommandsInv'
  BY CommandsNext
<1> QED BY <1>1, <1>2, PTL DEF Spec

(* The variables keep their types. *)
THEOREM CommandTypes == Spec => []TypeOK
<1>1. CommandsInv => TypeOK
  BY DEF CommandsInv
<1> QED BY <1>1, CommandsInvariance, PTL

(* handleLine with CommandRecoveryJournal.begin starts the execution of a
   command at most once, for any number of commands, evictions, broken
   connections and supervisor crashes. *)
THEOREM CommandsRunOnce == Spec => []AtMostOnce
<1>1. CommandsInv => AtMostOnce
  BY DEF CommandsInv, Executions, AtMostOnce
<1> QED BY <1>1, CommandsInvariance, PTL

(* A client that was told the daemon prepares an update restart can rely on
   its command not having run (restartRejected behind the journal lookup). *)
THEOREM RejectionIsTrue == Spec => []RejectedNeverRan
<1>1. CommandsInv => RejectedNeverRan
  BY DEF CommandsInv, Requests, RejectedNeverRan
<1> QED BY <1>1, CommandsInvariance, PTL

(* MutationDrainLatch.active is the number of commands that are executing. *)
THEOREM LatchIsRight == Spec => []LatchCounts
<1>1. CommandsInv => LatchCounts
  BY DEF CommandsInv
<1> QED BY <1>1, CommandsInvariance, PTL

(* prepareUpdateRestart reaches its preparation, and its end, with no other
   mutating command in execution, and handleLine lets none but a shutdown in
   while the restart is prepared, whatever evictions held back before. *)
THEOREM RestartsAlone == Spec => []RestartIsExclusive
<1>1. ASSUME CommandsInv PROVE RestartIsExclusive
  <2>1. ASSUME NEW h \in Handlers, hpc[h] = "preparing" PROVE active = 1
    <3>1. \A g \in Handlers : hpc[g] \in Executing => g = h
      BY <1>1, <2>1 DEF CommandsInv, Restarts, Executing, Preparing
    <3>2. hpc[h] \in Executing /\ LatchCounts
      BY <1>1, <2>1 DEF CommandsInv, Executing, Preparing
    <3>3. active \in Nat /\ active >= 1 /\ active <= 1
      BY <3>1, <3>2, LatchMeans
    <3> QED BY <3>3
  <2>2. ASSUME NEW h \in Handlers, hpc[h] = "exec", phase = "prepared"
        PROVE  h[1] \in ShutdownCmds
    BY <1>1, <2>2 DEF CommandsInv, Restarts
  <2> QED BY <2>1, <2>2 DEF RestartIsExclusive
<1> QED BY <1>1, CommandsInvariance, PTL
=============================================================================
