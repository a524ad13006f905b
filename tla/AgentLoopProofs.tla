-------------------------- MODULE AgentLoopProofs --------------------------
(***************************************************************************)
(* Proofs that the agent loop loses no message, delivers each queue in its *)
(* order, sends complete requests and ends once, for any batches of        *)
(* messages, runs, turns and tool calls, with aborts and failures at every *)
(* await.                                                                  *)
(***************************************************************************)
EXTENDS AgentLoop, SequenceTheorems, WellFoundedInduction, TLAPS

-----------------------------------------------------------------------------
(* Sequences *)

(* A non-empty set of positive numbers up to n has a least element. *)
LEMMA Least ==
  ASSUME NEW n \in Nat, NEW I \in SUBSET (1 .. n), I # {}
  PROVE  \E k \in I : \A i \in I : k <= i
<1>1. IsWellFoundedOn(OpToRel(<, Nat), Nat)
  BY NatLessThanWellFounded
<1>2. I \subseteq Nat
  OBVIOUS
<1>3. PICK k \in I : \A i \in I : ~(<<i, k>> \in OpToRel(<, Nat))
  BY <1>1, <1>2, WFMin
<1>4. ASSUME NEW i \in Nat, i < k PROVE <<i, k>> \in OpToRel(<, Nat)
  <2>1. <<i, k>> \in Nat \X Nat /\ <<i, k>>[1] < <<i, k>>[2]
    BY <1>2, <1>4
  <2> QED BY <2>1 DEF OpToRel
<1>5. ASSUME NEW i \in I PROVE k <= i
  <2>1. i \in Nat /\ k \in Nat
    BY <1>2
  <2>2. ~(i < k)
    BY <1>3, <1>4, <2>1
  <2> QED BY <2>1, <2>2
<1> QED BY <1>5

(* h holds the first sequence, the first two put together ... up to n. *)
Joined(s, t) == s \o t
Piles(h, ss, n) ==
  /\ h = [i \in 1 .. n |-> h[i]] /\ h[1] = ss[1]
  /\ \A i \in 2 .. n : h[i] = Joined(h[i - 1], ss[i])

(* FlattenSeq piles the sequences up. *)
LEMMA FlattenPiles ==
  ASSUME NEW S, NEW ss \in Seq(S), Len(ss) # 0
  PROVE  \E h : Piles(h, ss, Len(ss)) /\ FlattenSeq(ss) = h[Len(ss)]
<1> DEFINE L == Len(ss)
           I == {n \in 1 .. L : ~ \E h : Piles(h, ss, n)}
<1>0. L \in Nat /\ L >= 1
  OBVIOUS
<1>1. \E h : Piles(h, ss, 1)
  <2>1. Piles([i \in 1 .. 1 |-> ss[1]], ss, 1)
    BY DEF Piles
  <2> QED BY <2>1
<1>2. ASSUME NEW n \in 2 .. L, NEW h, Piles(h, ss, n - 1)
      PROVE  \E g : Piles(g, ss, n)
  <2> DEFINE g == [i \in 1 .. n |-> IF i = n THEN Joined(h[n - 1], ss[n]) ELSE h[i]]
  <2>0. h[1] = ss[1] /\ \A i \in 2 .. n - 1 : h[i] = Joined(h[i - 1], ss[i])
    BY <1>2 DEF Piles
  <2>1. g = [i \in 1 .. n |-> g[i]] /\ g[1] = ss[1]
    BY <1>0, <2>0
  <2>2. ASSUME NEW i \in 2 .. n PROVE g[i] = Joined(g[i - 1], ss[i])
    <3>1. CASE i = n
      <4>1. g[n] = Joined(h[n - 1], ss[n]) /\ g[n - 1] = h[n - 1]
        BY <1>0
      <4> QED BY <3>1, <4>1
    <3>2. CASE i # n
      <4>1. i \in 2 .. n - 1
        BY <1>0, <3>2
      <4>2. g[i] = h[i] /\ g[i - 1] = h[i - 1]
        BY <1>0, <4>1
      <4> QED BY <2>0, <4>1, <4>2
    <3> QED BY <3>1, <3>2
  <2> HIDE DEF g
  <2> QED BY <2>1, <2>2 DEF Piles
<1>3. I = {}
  <2> SUFFICES ASSUME I # {} PROVE FALSE
    OBVIOUS
  <2>1. PICK n \in I : \A i \in I : n <= i
    <3>1. I \in SUBSET (1 .. L)
      OBVIOUS
    <3> HIDE DEF I, L
    <3> QED BY <1>0, <3>1, Least
  <2>2. n # 1
    BY <1>1
  <2>3. n \in 2 .. L /\ n - 1 \in 1 .. L /\ n - 1 \notin I
    BY <1>0, <2>1, <2>2
  <2>4. \E h : Piles(h, ss, n - 1)
    BY <2>3
  <2> QED BY <1>2, <2>3, <2>4
<1>4. PICK h : Piles(h, ss, L)
  <2> HIDE DEF L
  <2>1. L \in 1 .. L
    BY <1>0
  <2>2. L \notin I
    BY <1>3
  <2> QED BY <2>1, <2>2
<1> DEFINE IsFlat(f) == f = [i \in 1 .. L |-> IF i = 1 THEN ss[i] ELSE Joined(f[i - 1], ss[i])]
           c == CHOOSE f : IsFlat(f)
<1>5. IsFlat(h)
  <2> HIDE DEF L
  <2>1. h = [i \in 1 .. L |-> h[i]] /\ h[1] = ss[1]
    BY <1>4 DEF Piles
  <2>2. \A i \in 1 .. L : i # 1 => h[i] = Joined(h[i - 1], ss[i])
    <3>1. \A i \in 2 .. L : h[i] = Joined(h[i - 1], ss[i])
      BY <1>4 DEF Piles
    <3>2. \A i \in 1 .. L : i # 1 => i \in 2 .. L
      BY <1>0
    <3> QED BY <3>1, <3>2
  <2>3. \A i \in 1 .. L : h[i] = IF i = 1 THEN ss[i] ELSE Joined(h[i - 1], ss[i])
    BY <2>1, <2>2
  <2> QED BY <2>1, <2>3
<1>6. FlattenSeq(ss) = c[L]
  BY <1>0 DEF FlattenSeq, Joined
<1>7. IsFlat(c)
  BY <1>5
<1> HIDE DEF c
<1>8. Piles(c, ss, L)
  BY <1>0, <1>7 DEF Piles
<1> QED BY <1>6, <1>8

(* What is put together from sequences over T is one. *)
LEMMA FlattenType ==
  ASSUME NEW T, NEW ss \in Seq(Seq(T))
  PROVE  FlattenSeq(ss) \in Seq(T)
<1> DEFINE L == Len(ss)
<1>1. CASE L = 0
  <2>1. FlattenSeq(ss) = << >>
    BY <1>1 DEF FlattenSeq
  <2> QED BY <2>1
<1>2. CASE L # 0
  <2>0. L \in Nat /\ L >= 1 /\ \A i \in 1 .. L : ss[i] \in Seq(T)
    BY <1>2
  <2>1. PICK h : Piles(h, ss, L) /\ FlattenSeq(ss) = h[L]
    BY <1>2, FlattenPiles
  <2> DEFINE I == {i \in 1 .. L : h[i] \notin Seq(T)}
  <2>2. I = {}
    <3> SUFFICES ASSUME I # {} PROVE FALSE
      OBVIOUS
    <3>1. PICK n \in I : \A i \in I : n <= i
      <4>1. I \in SUBSET (1 .. L)
        OBVIOUS
      <4> HIDE DEF I, L
      <4> QED BY <2>0, <4>1, Least
    <3>2. n \in 1 .. L /\ h[n] \notin Seq(T)
      OBVIOUS
    <3>3. CASE n = 1
      BY <2>0, <2>1, <3>2, <3>3 DEF Piles
    <3>4. CASE n # 1
      <4>1. n \in 2 .. L /\ n - 1 \in 1 .. L /\ ~(n <= n - 1)
        BY <2>0, <3>2, <3>4
      <4>2. h[n - 1] \in Seq(T)
        BY <3>1, <4>1
      <4>3. h[n] = h[n - 1] \o ss[n] /\ ss[n] \in Seq(T)
        BY <2>0, <2>1, <4>1 DEF Piles, Joined
      <4> QED BY <3>2, <4>2, <4>3
    <3> QED BY <3>3, <3>4
  <2>3. L \in 1 .. L
    BY <2>0
  <2>4. h[L] \in Seq(T)
    BY <2>2, <2>3
  <2> QED BY <2>1, <2>4
<1> QED BY <1>1, <1>2

(* The elements of a sequence. *)
LEMMA RangeFacts ==
  ASSUME NEW S, NEW s \in Seq(S)
  PROVE  /\ Range(s) \subseteq S
         /\ s # << >> => s[1] \in Range(s) /\ Head(s) = s[1] /\ Head(s) \in S
         /\ s # << >> => Tail(s) \in Seq(S) /\ Range(Tail(s)) \subseteq Range(s)
         /\ \A x \in S : Append(s, x) \in Seq(S) /\ Range(Append(s, x)) = Range(s) \cup {x}
         /\ \A x \in S : IsInjective(s) /\ x \notin Range(s) => IsInjective(Append(s, x))
<1>0. Len(s) \in Nat /\ DOMAIN s = 1 .. Len(s) /\ \A i \in 1 .. Len(s) : s[i] \in S
  OBVIOUS
<1>1. \A y : y \in Range(s) <=> \E i \in 1 .. Len(s) : y = s[i]
  BY <1>0 DEF Range
<1>2. Range(s) \subseteq S
  BY <1>0, <1>1
<1>3. ASSUME s # << >>
      PROVE  /\ s[1] \in Range(s) /\ Head(s) = s[1] /\ Head(s) \in S
             /\ Tail(s) \in Seq(S) /\ Range(Tail(s)) \subseteq Range(s)
  <2>1. 1 \in 1 .. Len(s) /\ Head(s) = s[1] /\ Tail(s) \in Seq(S)
        /\ Len(Tail(s)) = Len(s) - 1
        /\ \A i \in 1 .. Len(s) - 1 : Tail(s)[i] = s[i + 1]
    BY <1>3
  <2> DEFINE t == Tail(s)
  <2> HIDE DEF t
  <2>2. DOMAIN t = 1 .. Len(s) - 1
    <3>1. t \in Seq(S) /\ Len(t) = Len(s) - 1
      BY <2>1 DEF t
    <3> QED BY <3>1
  <2>3. \A y \in Range(t) : \E i \in 1 .. Len(s) - 1 : y = t[i]
    BY <2>2 DEF Range
  <2>4. \A i \in 1 .. Len(s) - 1 : t[i] = s[i + 1] /\ i + 1 \in 1 .. Len(s)
    BY <1>0, <2>1 DEF t
  <2>5. Range(t) \subseteq Range(s)
    BY <1>1, <2>3, <2>4
  <2> QED BY <1>0, <1>1, <2>1, <2>5 DEF t
<1>4. ASSUME NEW x \in S
      PROVE  /\ Append(s, x) \in Seq(S) /\ Range(Append(s, x)) = Range(s) \cup {x}
             /\ IsInjective(s) /\ x \notin Range(s) => IsInjective(Append(s, x))
  <2> DEFINE q == Append(s, x)
             n == Len(s)
  <2>1. /\ q \in Seq(S) /\ Len(q) = n + 1
        /\ q[n + 1] = x /\ \A j \in 1 .. n : q[j] = s[j]
    OBVIOUS
  <2> HIDE DEF q, n
  <2>2. n \in Nat /\ DOMAIN q = 1 .. n + 1 /\ DOMAIN s = 1 .. n
    BY <1>0, <2>1 DEF n
  <2>3. \A y : y \in Range(q) <=> \E i \in 1 .. n + 1 : y = q[i]
    BY <2>2 DEF Range
  <2>4. \A j \in 1 .. n + 1 : j \in 1 .. n \/ j = n + 1
    BY <2>2
  <2>5. (\A j \in 1 .. n : j \in 1 .. n + 1) /\ n + 1 \in 1 .. n + 1
    BY <2>2
  <2>6. Range(q) = Range(s) \cup {x}
    BY <1>1, <2>1, <2>3, <2>4, <2>5 DEF n
  <2>7. ASSUME IsInjective(s), x \notin Range(s) PROVE IsInjective(q)
    <3>1. \A a, b \in 1 .. n : s[a] = s[b] => a = b
      BY <2>2, <2>7 DEF IsInjective
    <3>2. \A a \in 1 .. n : s[a] # x
      BY <1>1, <2>7 DEF n
    <3>3. \A a, b \in 1 .. n + 1 : q[a] = q[b] => a = b
      BY <2>1, <2>4, <3>1, <3>2
    <3> QED BY <2>2, <3>3 DEF IsInjective
  <2> QED BY <2>1, <2>6, <2>7 DEF q
<1> QED BY <1>2, <1>3, <1>4
(* What is put together from sequences has their elements. *)
LEMMA FlattenRange ==
  ASSUME NEW T, NEW ss \in Seq(Seq(T)), NEW k \in 1 .. Len(ss)
  PROVE  Range(ss[k]) \subseteq Range(FlattenSeq(ss))
<1> DEFINE L == Len(ss)
<1>0. L \in Nat /\ L >= 1 /\ (\A i \in 1 .. L : ss[i] \in Seq(T)) /\ Len(ss) # 0
  OBVIOUS
<1>1. PICK h : Piles(h, ss, L) /\ FlattenSeq(ss) = h[L]
  BY <1>0, FlattenPiles
<1>2. /\ h[1] = ss[1]
      /\ \A i \in 2 .. L : h[i] = h[i - 1] \o ss[i]
  BY <1>1 DEF Piles, Joined
<1> HIDE DEF L
<1> DEFINE Good(i) == h[i] \in Seq(T) /\ \A j \in 1 .. i : Range(ss[j]) \subseteq Range(h[i])
           I == {i \in 1 .. L : ~Good(i)}
<1>3. I = {}
  <2> SUFFICES ASSUME I # {} PROVE FALSE
    OBVIOUS
  <2>1. PICK n \in I : \A i \in I : n <= i
    <3>1. I \in SUBSET (1 .. L)
      OBVIOUS
    <3> HIDE DEF I
    <3> QED BY <1>0, <3>1, Least
  <2>2. n \in 1 .. L /\ ~Good(n)
    OBVIOUS
  <2>3. CASE n = 1
    <3>1. Good(1)
      BY <1>0, <1>2
    <3> QED BY <2>2, <2>3, <3>1
  <2>4. CASE n # 1
    <3>1. n \in 2 .. L /\ n - 1 \in 1 .. L /\ ~(n <= n - 1)
      BY <1>0, <2>2, <2>4
    <3>2. Good(n - 1)
      BY <2>1, <3>1
    <3>3. h[n] = h[n - 1] \o ss[n] /\ ss[n] \in Seq(T) /\ h[n - 1] \in Seq(T)
      BY <1>0, <1>2, <3>1, <3>2
    <3>4. h[n] \in Seq(T) /\ Range(h[n - 1]) \subseteq Range(h[n]) /\ Range(ss[n]) \subseteq Range(h[n])
      <4> DEFINE s == h[n - 1]
                 t == ss[n]
                 u == h[n]
      <4>1. s \in Seq(T) /\ t \in Seq(T) /\ u = s \o t
        BY <3>3
      <4> HIDE DEF s, t, u
      <4>2. /\ u \in Seq(T) /\ Len(u) = Len(s) + Len(t) /\ Len(s) \in Nat /\ Len(t) \in Nat
            /\ \A i \in 1 .. Len(s) : u[i] = s[i]
            /\ \A i \in 1 .. Len(t) : u[Len(s) + i] = t[i]
        BY <4>1
      <4>3. DOMAIN u = 1 .. Len(u) /\ DOMAIN s = 1 .. Len(s) /\ DOMAIN t = 1 .. Len(t)
        BY <4>1, <4>2
      <4>4. Range(s) \subseteq Range(u)
        <5>1. \A i \in 1 .. Len(s) : i \in 1 .. Len(u)
          BY <4>2
        <5> QED BY <4>2, <4>3, <5>1 DEF Range
      <4>5. Range(t) \subseteq Range(u)
        <5>1. \A i \in 1 .. Len(t) : Len(s) + i \in 1 .. Len(u)
          BY <4>2
        <5> QED BY <4>2, <4>3, <5>1 DEF Range
      <4> QED BY <4>2, <4>4, <4>5 DEF s, t, u
    <3>5. \A j \in 1 .. n : j \in 1 .. n - 1 \/ j = n
      BY <1>0, <3>1
    <3>6. Good(n)
      BY <3>2, <3>4, <3>5
    <3> QED BY <2>2, <3>6
  <2> QED BY <2>3, <2>4
<1>4. L \in 1 .. L /\ k \in 1 .. L
  BY <1>0 DEF L
<1>5. Good(L)
  BY <1>3, <1>4
<1> QED BY <1>1, <1>4, <1>5

(* The elements of a sequence are its head and those of its tail. *)
LEMMA HeadOrTail ==
  ASSUME NEW S, NEW s \in Seq(S), s # << >>
  PROVE  Range(s) \subseteq {Head(s)} \cup Range(Tail(s))
<1> DEFINE t == Tail(s)
<1>1. /\ t \in Seq(S) /\ Len(s) \in Nat /\ Len(t) = Len(s) - 1 /\ Head(s) = s[1]
      /\ \A i \in 1 .. Len(s) - 1 : t[i] = s[i + 1]
      /\ DOMAIN s = 1 .. Len(s)
  OBVIOUS
<1> HIDE DEF t
<1>2. DOMAIN t = 1 .. Len(s) - 1
  BY <1>1
<1>3. ASSUME NEW i \in 1 .. Len(s), i # 1 PROVE s[i] \in Range(t)
  <2>1. i - 1 \in 1 .. Len(s) - 1 /\ (i - 1) + 1 = i
    BY <1>1, <1>3
  <2> QED BY <1>1, <1>2, <2>1 DEF Range
<1>4. \A y \in Range(s) : \E i \in 1 .. Len(s) : y = s[i]
  BY <1>1 DEF Range
<1> QED BY <1>1, <1>3, <1>4 DEF t

-----------------------------------------------------------------------------
(* PendingMessageQueue *)

(* The messages of a batch. *)
LEMMA BatchMsgs ==
  ASSUME NEW b \in Batches
  PROVE  b \in Seq(Msgs) /\ Range(b) \subseteq Msgs
BY LoopAssumption, RangeFacts

(* A drain takes messages from the queue and leaves the others there. *)
LEMMA DrainFacts ==
  ASSUME NEW q \in Seq(Batches)
  PROVE  /\ Drained(q) \in Seq(Msgs) /\ Remaining(q) \in Seq(Batches)
         /\ Queued(q) \subseteq Range(Drained(q)) \cup Queued(Remaining(q))
<1>0. Batches \subseteq Seq(Msgs) /\ Len(q) \in Nat /\ DOMAIN q = 1 .. Len(q)
  BY BatchMsgs
<1>1. CASE q = << >>
  BY <1>1 DEF Drained, Remaining, Queued
<1>2. CASE q # << >> /\ Mode = "all"
  <2>1. Drained(q) = FlattenSeq(q) /\ Remaining(q) = << >>
    BY <1>2 DEF Drained, Remaining
  <2>2. q \in Seq(Seq(Msgs))
    <3>1. q = [i \in 1 .. Len(q) |-> q[i]] /\ \A i \in 1 .. Len(q) : q[i] \in Batches
      OBVIOUS
    <3>2. \A i \in 1 .. Len(q) : q[i] \in Seq(Msgs)
      BY <1>0, <3>1
    <3> QED BY <1>0, <3>1, <3>2
  <2>3. FlattenSeq(q) \in Seq(Msgs)
    BY <2>2, FlattenType
  <2>4. \A k \in DOMAIN q : Range(q[k]) \subseteq Range(FlattenSeq(q))
    BY <1>0, <2>2, FlattenRange
  <2> QED BY <2>1, <2>3, <2>4 DEF Queued
<1>3. CASE q # << >> /\ Mode # "all"
  <2>1. Drained(q) = Head(q) /\ Remaining(q) = Tail(q)
    BY <1>3 DEF Drained, Remaining
  <2>2. Head(q) \in Batches /\ Tail(q) \in Seq(Batches)
    BY <1>3
  <2>3. ASSUME NEW k \in DOMAIN q
        PROVE  Range(q[k]) \subseteq Range(Head(q)) \cup Queued(Tail(q))
    <3>1. q[k] \in Range(q)
      BY DEF Range
    <3>2. q[k] = Head(q) \/ q[k] \in Range(Tail(q))
      BY <1>3, <3>1, HeadOrTail
    <3> QED BY <3>2 DEF Queued, Range
  <2> QED BY <1>0, <2>1, <2>2, <2>3 DEF Queued
<1> QED BY <1>1, <1>2, <1>3

(* A removal leaves batches. *)
LEMMA RemovalType ==
  ASSUME NEW q \in Seq(Batches), NEW m
  PROVE  WithoutMatch(q, m) \in Seq(Batches)
<1> DEFINE ss == [k \in 1 .. Len(q) |-> IF m \in Range(q[k]) THEN << >> ELSE <<q[k]>>]
<1>1. \A k \in 1 .. Len(q) : (IF m \in Range(q[k]) THEN << >> ELSE <<q[k]>>) \in Seq(Batches)
  OBVIOUS
<1>2. ss \in Seq(Seq(Batches))
  BY <1>1
<1> HIDE DEF ss
<1>3. FlattenSeq(ss) \in Seq(Batches)
  BY <1>2, FlattenType
<1> QED BY <1>3 DEF WithoutMatch, ss

(* What is in a queue of batches, and in one with a batch more. *)
LEMMA QueuedFacts ==
  ASSUME NEW q \in Seq(Batches)
  PROVE  /\ Queued(q) \subseteq Msgs
         /\ \A b \in Batches : /\ Append(q, b) \in Seq(Batches)
                               /\ Queued(q) \cup Range(b) \subseteq Queued(Append(q, b))
<1>1. \A k \in DOMAIN q : q[k] \in Batches
  OBVIOUS
<1>2. Queued(q) \subseteq Msgs
  BY <1>1, BatchMsgs DEF Queued
<1>3. ASSUME NEW b \in Batches
      PROVE  Append(q, b) \in Seq(Batches) /\ Queued(q) \cup Range(b) \subseteq Queued(Append(q, b))
  <2> DEFINE r == Append(q, b)
  <2>1. /\ r \in Seq(Batches) /\ Len(r) = Len(q) + 1 /\ Len(q) \in Nat
        /\ r[Len(q) + 1] = b /\ \A k \in 1 .. Len(q) : r[k] = q[k]
        /\ DOMAIN q = 1 .. Len(q)
    OBVIOUS
  <2> HIDE DEF r
  <2>2. DOMAIN r = 1 .. Len(q) + 1
    BY <2>1
  <2>3. Len(q) + 1 \in DOMAIN r /\ \A k \in DOMAIN q : k \in DOMAIN r
    BY <2>1, <2>2
  <2> QED BY <2>1, <2>3 DEF Queued, r
<1> QED BY <1>2, <1>3

-----------------------------------------------------------------------------
(* Types *)

CallStates == {"new", "ready", "done"}

(* TypeOK and LoopTypes, variable by variable. *)
Controls ==
  /\ pc \in Points /\ aborted \in BOOLEAN /\ skip \in BOOLEAN /\ hasMore \in BOOLEAN
  /\ ended \in BOOLEAN /\ late \in BOOLEAN
  /\ runs \in Nat /\ runs <= MaxRuns
  /\ (pc # "idle" => runs # 0) /\ (pc = "idle" => ~aborted)
Hands ==
  /\ steering \in Seq(Batches) /\ followUp \in Seq(Batches)
  /\ pending \in Seq(Msgs) /\ drained \in Seq(Msgs)
  /\ removed \subseteq Msgs /\ spoiled \subseteq Msgs
  /\ sent \in [Operations -> Seq(Batches)]
Texts ==
  /\ messages \in Seq(Messages) /\ context \in Seq(Messages)
  /\ start \in Nat /\ start <= Len(messages)
Tools ==
  /\ calls \in Seq(CallStates) /\ Len(calls) <= MaxCalls
  /\ results \in Nat /\ results <= Len(calls)
  /\ orphans \subseteq (1 .. MaxRuns) \X (1 .. MaxCalls)
Typed == Controls /\ Hands /\ Texts /\ Tools

(* They say the same. *)
LEMMA TypedFacts ==
  /\ (TypeOK /\ LoopTypes) <=> Typed
  /\ (TypeOK /\ LoopTypes)' <=> Typed'
<1>1. ASSUME TypeOK, LoopTypes PROVE Typed
  <2>1. Controls
    BY <1>1, LoopAssumption DEF TypeOK, LoopTypes, Controls
  <2>2. Hands
    BY <1>1 DEF TypeOK, LoopTypes, Hands
  <2>3. Texts
    BY <1>1 DEF TypeOK, LoopTypes, Texts
  <2>4. Tools
    BY <1>1 DEF TypeOK, LoopTypes, Tools, CallStates
  <2> QED BY <2>1, <2>2, <2>3, <2>4 DEF Typed
<1>2. ASSUME Typed PROVE TypeOK /\ LoopTypes
  <2>1. LoopTypes
    BY <1>2 DEF Typed, Controls, Hands, Texts, Tools, LoopTypes, CallStates
  <2>2. /\ \A q \in {steering, followUp} : \A k \in DOMAIN q : q[k] \in Batches
        /\ \A i \in DOMAIN calls : calls[i] \in {"new", "ready", "done"}
    BY <1>2 DEF Typed, Hands, Tools, CallStates
  <2>3. Range(pending) \cup Range(drained) \cup removed \cup spoiled \subseteq Msgs
    BY <1>2, RangeFacts DEF Typed, Hands
  <2>4. start \in 0 .. Len(messages) /\ runs \in 0 .. MaxRuns
    BY <1>2, LoopAssumption DEF Typed, Controls, Texts
  <2> QED BY <1>2, <2>1, <2>2, <2>3, <2>4 DEF TypeOK, Typed, Controls, Tools
<1>3. ASSUME TypeOK', LoopTypes' PROVE Typed'
  <2>1. Controls'
    BY <1>3, LoopAssumption DEF TypeOK, LoopTypes, Controls
  <2>2. Hands'
    BY <1>3 DEF TypeOK, LoopTypes, Hands
  <2>3. Texts'
    BY <1>3 DEF TypeOK, LoopTypes, Texts
  <2>4. Tools'
    BY <1>3 DEF TypeOK, LoopTypes, Tools, CallStates
  <2> QED BY <2>1, <2>2, <2>3, <2>4 DEF Typed
<1>4. ASSUME Typed' PROVE (TypeOK /\ LoopTypes)'
  <2>1. LoopTypes'
    BY <1>4 DEF Typed, Controls, Hands, Texts, Tools, LoopTypes, CallStates
  <2>2. /\ \A q \in {steering', followUp'} : \A k \in DOMAIN q : q[k] \in Batches
        /\ \A i \in DOMAIN calls' : calls'[i] \in {"new", "ready", "done"}
    BY <1>4 DEF Typed, Hands, Tools, CallStates
  <2>3. Range(pending') \cup Range(drained') \cup removed' \cup spoiled' \subseteq Msgs
    BY <1>4, RangeFacts DEF Typed, Hands
  <2>4. start' \in 0 .. Len(messages') /\ runs' \in 0 .. MaxRuns
    BY <1>4, LoopAssumption DEF Typed, Controls, Texts
  <2> QED BY <1>4, <2>1, <2>2, <2>3, <2>4 DEF TypeOK, Typed, Controls, Tools
<1> QED BY <1>1, <1>2, <1>3, <1>4

(* A step keeps where the run is, and its flags, in their types. *)
LEMMA ControlsStep ==
  ASSUME Controls, Next
  PROVE  Controls'
<1>0. MaxRuns \in Nat
  BY LoopAssumption
<1> USE <1>0 DEF Controls, Points, Waits
<1>1. ASSUME NEW ps, NEW b, RunWithLifecycle(ps, b), b \in BOOLEAN
      PROVE  Controls'
  <2>1. runs' \in Nat /\ runs' <= MaxRuns /\ runs' # 0
    BY <1>1 DEF RunWithLifecycle
  <2>2. pc' = "prompts" /\ skip' = b /\ hasMore' = TRUE /\ ended' = FALSE
        /\ late' = late /\ aborted' = aborted
    BY <1>1 DEF RunWithLifecycle
  <2> QED BY <1>1, <2>1, <2>2
<1>2. CASE (\E b \in Batches : Prompt(b)) \/ Continue
  <2>1. \E ps : \E b \in BOOLEAN : RunWithLifecycle(ps, b)
    BY <1>2 DEF Prompt, Continue, RunQueuedMessages
  <2> QED BY <1>1, <2>1
<1>3. CASE \/ \E b \in Batches : Steer(b) \/ FollowUp(b)
           \/ ClearAllQueues \/ Abort \/ (\E m \in Msgs : RemoveQueuedMessages(m))
  <2>1. UNCHANGED <<pc, skip, hasMore, ended, runs, late>> /\ (UNCHANGED aborted \/ Abort)
    BY <1>3 DEF Steer, FollowUp, ClearAllQueues, Abort, RemoveQueuedMessages, loop
  <2>2. CASE UNCHANGED aborted
    BY <2>1, <2>2
  <2>3. CASE Abort
    <3>1. aborted' = TRUE /\ pc # "idle"
      BY <2>3 DEF Abort
    <3> QED BY <2>1, <3>1
  <2> QED BY <2>1, <2>2, <2>3
<1>4. CASE EmitPrompt \/ InitialPoll \/ Inject \/ Request
  BY <1>4 DEF EmitPrompt, InitialPoll, Inject, Request, Unmoved
<1>5. CASE AbortedReply \/ ErrorReply
  BY <1>5 DEF AbortedReply, ErrorReply, EndingReply, Answer, Unmoved
<1>6. CASE \E n \in 0 .. MaxCalls : Reply(n)
  BY <1>6 DEF Reply, Answer, Unmoved
<1>7. CASE StartCall \/ EmitResult \/ TakeResults \/ \E i \in DOMAIN calls : FinishCall(i)
  BY <1>7 DEF StartCall, EmitResult, TakeResults, FinishCall, Executing, Unmoved
<1>8. CASE \E i \in DOMAIN calls : FinishCallThrows(i)
  BY <1>8 DEF FinishCallThrows, Executing
<1>9. CASE TurnEnd \/ StopResumes \/ NoContinuation
  BY <1>9 DEF TurnEnd, StopResumes, NoContinuation, Quiet, Unmoved
<1>10. CASE PollSteering \/ PollFollowUp \/ PollRejected
  BY <1>10 DEF PollSteering, PollFollowUp, PollRejected, Quiet, Unmoved
<1>11. CASE PollResolved
  BY <1>11 DEF PollResolved, BeginTurn, Quiet, Unmoved
<1>12. CASE Steered \/ Followed
  BY <1>12 DEF Steered, Followed, BeginTurn, Quiet, Unmoved
<1>13. CASE \E b \in Batches : Continuation(b)
  BY <1>13 DEF Continuation, BeginTurn
<1>14. CASE AgentEnd \/ HandleRunFailure \/ FinishRun \/ Throws
  BY <1>14 DEF AgentEnd, HandleRunFailure, FinishRun, Throws, FailPoints
<1>15. CASE OrphanFinishes
  BY <1>15 DEF OrphanFinishes, loop
<1> QED BY <1>1, <1>2, <1>3, <1>4, <1>5, <1>6, <1>7, <1>8, <1>9, <1>10, <1>11, <1>12, <1>13,
           <1>14, <1>15 DEF Next, Caller, Own, Awaited, External

(* The caller's batch is added to what it has sent. *)
LEMMA SendFacts ==
  ASSUME sent \in [Operations -> Seq(Batches)], NEW op \in Operations, NEW b \in Batches,
         Send(op, b)
  PROVE  sent' \in [Operations -> Seq(Batches)]
<1>1. sent' = [sent EXCEPT ![op] = Append(sent[op], b)]
  BY DEF Send
<1>2. Append(sent[op], b) \in Seq(Batches)
  OBVIOUS
<1> QED BY <1>1, <1>2

(* A run begins with messages of the caller or of a queue. *)
LEMMA RunHands ==
  ASSUME Hands, NEW ps \in Seq(Msgs), NEW b, RunWithLifecycle(ps, b)
  PROVE  pending' \in Seq(Msgs) /\ UNCHANGED <<drained, removed, spoiled>>
BY DEF RunWithLifecycle

(* A step keeps queues and messages in hand in their types. *)
LEMMA HandsStep ==
  ASSUME Hands, Next
  PROVE  Hands'
<1>0. /\ Drained(steering) \in Seq(Msgs) /\ Remaining(steering) \in Seq(Batches)
      /\ Drained(followUp) \in Seq(Msgs) /\ Remaining(followUp) \in Seq(Batches)
      /\ Queued(steering) \subseteq Msgs /\ Queued(followUp) \subseteq Msgs
      /\ Range(pending) \subseteq Msgs /\ Range(drained) \subseteq Msgs
      /\ << >> \in Seq(Msgs) /\ << >> \in Seq(Batches)
      /\ pending # << >> => Tail(pending) \in Seq(Msgs)
  BY DrainFacts, QueuedFacts, RangeFacts DEF Hands
<1>1. ASSUME NEW b \in Batches, Prompt(b) PROVE Hands'
  <2>1. b \in Seq(Msgs) /\ RunWithLifecycle(b, FALSE) /\ UNCHANGED <<steering, followUp>>
    BY <1>1, BatchMsgs DEF Prompt, queues
  <2>2. sent' \in [Operations -> Seq(Batches)]
    BY <1>1, SendFacts DEF Prompt, Hands, Operations
  <2> QED BY <2>1, <2>2, RunHands DEF Hands
<1>2. CASE Continue
  <2>1. CASE RunQueuedMessages
    <3>1. \/ /\ steering' = Remaining(steering) /\ UNCHANGED followUp
             /\ RunWithLifecycle(Drained(steering), TRUE)
          \/ /\ followUp' = Remaining(followUp) /\ UNCHANGED steering
             /\ RunWithLifecycle(Drained(followUp), FALSE)
      BY <2>1 DEF RunQueuedMessages
    <3>2. UNCHANGED sent
      BY <2>1 DEF RunQueuedMessages
    <3>3. pending' \in Seq(Msgs) /\ UNCHANGED <<drained, removed, spoiled>>
      BY <1>0, <3>1, RunHands
    <3> QED BY <1>0, <3>1, <3>2, <3>3 DEF Hands
  <2>2. CASE RunWithLifecycle(<< >>, FALSE) /\ UNCHANGED <<queues, sent>>
    <3>1. pending' \in Seq(Msgs) /\ UNCHANGED <<drained, removed, spoiled>>
      BY <1>0, <2>2, RunHands
    <3> QED BY <2>2, <3>1 DEF Hands, queues
  <2> QED BY <1>2, <2>1, <2>2 DEF Continue
<1>3. ASSUME NEW b \in Batches, Steer(b) PROVE Hands'
  <2>1. sent' \in [Operations -> Seq(Batches)]
    BY <1>3, SendFacts DEF Steer, Hands, Operations
  <2>2. steering' \in Seq(Batches) /\ UNCHANGED <<pending, drained, followUp, removed, spoiled>>
    BY <1>3, QueuedFacts DEF Steer, Hands, loop
  <2> QED BY <2>1, <2>2 DEF Hands
<1>4. ASSUME NEW b \in Batches, FollowUp(b) PROVE Hands'
  <2>1. sent' \in [Operations -> Seq(Batches)]
    BY <1>4, SendFacts DEF FollowUp, Hands, Operations
  <2>2. followUp' \in Seq(Batches) /\ UNCHANGED <<pending, drained, steering, removed, spoiled>>
    BY <1>4, QueuedFacts DEF FollowUp, Hands, loop
  <2> QED BY <2>1, <2>2 DEF Hands
<1>5. CASE ClearAllQueues
  <2>1. /\ steering' = << >> /\ followUp' = << >> /\ UNCHANGED <<pending, drained, spoiled, sent>>
        /\ removed' = removed \cup Queued(steering) \cup Queued(followUp)
    BY <1>5 DEF ClearAllQueues, loop
  <2> QED BY <1>0, <2>1 DEF Hands
<1>6. ASSUME NEW m \in Msgs, RemoveQueuedMessages(m) PROVE Hands'
  <2>1. /\ steering' = WithoutMatch(steering, m) /\ followUp' = WithoutMatch(followUp, m)
        /\ removed' \subseteq removed \cup Queued(steering) \cup Queued(followUp)
        /\ UNCHANGED <<pending, drained, spoiled, sent>>
    BY <1>6 DEF RemoveQueuedMessages, loop
  <2>2. steering' \in Seq(Batches) /\ followUp' \in Seq(Batches)
    BY <2>1, RemovalType DEF Hands
  <2> QED BY <1>0, <2>1, <2>2 DEF Hands
<1>7. ASSUME UNCHANGED <<steering, followUp, pending, drained, removed, sent>>, UNCHANGED spoiled \/ Spoil
      PROVE  Hands'
  <2>1. spoiled' \subseteq Msgs
    BY <1>0, <1>7 DEF Spoil, Hands
  <2> QED BY <1>7, <2>1 DEF Hands
<1>8. CASE Abort \/ Throws
  BY <1>7, <1>8 DEF Abort, Throws, loop, queues
<1>9. CASE EmitPrompt \/ Inject
  <2>1. pending # << >> /\ pending' = Tail(pending)
        /\ UNCHANGED <<steering, followUp, drained, removed, sent, spoiled>>
    BY <1>9 DEF EmitPrompt, Inject, Unmoved, queues
  <2> QED BY <1>0, <2>1 DEF Hands
<1>10. CASE InitialPoll \/ PollSteering \/ PollFollowUp
  <2>1. /\ UNCHANGED <<pending, removed, sent, spoiled>>
        /\ \/ UNCHANGED <<drained, steering, followUp>>
           \/ drained' = Drained(steering) /\ steering' = Remaining(steering) /\ UNCHANGED followUp
           \/ drained' = Drained(followUp) /\ followUp' = Remaining(followUp) /\ UNCHANGED steering
    BY <1>10 DEF InitialPoll, PollSteering, PollFollowUp, Quiet, Unmoved
  <2> QED BY <1>0, <2>1 DEF Hands
<1>11. CASE PollRejected \/ PollResolved \/ FinishRun
  <2>1. /\ UNCHANGED <<steering, followUp, removed, sent, spoiled>> /\ drained' = << >>
        /\ pending' \in {pending, drained, << >>}
    BY <1>11 DEF PollRejected, PollResolved, FinishRun, Quiet, Unmoved, queues, history
  <2> QED BY <1>0, <2>1 DEF Hands
<1>12. ASSUME NEW b \in Batches, Continuation(b) PROVE Hands'
  <2>1. sent' \in [Operations -> Seq(Batches)]
    BY <1>12, SendFacts DEF Continuation, Hands, Operations
  <2>2. pending' = b /\ UNCHANGED <<drained, steering, followUp, removed, spoiled>>
    BY <1>12 DEF Continuation, queues
  <2> QED BY <2>1, <2>2, BatchMsgs DEF Hands
<1>13. CASE Request \/ AbortedReply \/ ErrorReply
  BY <1>7, <1>13 DEF Request, AbortedReply, ErrorReply, EndingReply, Answer, Unmoved, queues
<1>14. CASE \E n \in 0 .. MaxCalls : Reply(n)
  BY <1>7, <1>14 DEF Reply, Answer, Unmoved, queues
<1>15. CASE StartCall \/ EmitResult \/ TakeResults
            \/ \E i \in DOMAIN calls : FinishCall(i) \/ FinishCallThrows(i)
  BY <1>7, <1>15 DEF StartCall, EmitResult, TakeResults, FinishCall, FinishCallThrows, Executing,
                     Unmoved, queues
<1>16. CASE TurnEnd \/ StopResumes \/ NoContinuation \/ Steered \/ Followed
  BY <1>7, <1>16 DEF TurnEnd, StopResumes, NoContinuation, Steered, Followed, Quiet, Unmoved, queues
<1>17. CASE AgentEnd \/ HandleRunFailure \/ OrphanFinishes
  BY <1>7, <1>17 DEF AgentEnd, HandleRunFailure, OrphanFinishes, loop, queues, history
<1> QED BY <1>1, <1>2, <1>3, <1>4, <1>5, <1>6, <1>8, <1>9, <1>10, <1>11, <1>12, <1>13,
           <1>14, <1>15, <1>16, <1>17 DEF Next, Caller, Own, Awaited, External

(* What the loop adds to the transcript are messages. *)
LEMMA MessageTypes ==
  /\ \A m \in Msgs : /\ User(m) \in Messages /\ User(m).msg = m
                     /\ User(m).role \in {"user", "custom"}
  /\ \A s \in {"stop", "error", "aborted"}, n \in Nat, q \in BOOLEAN :
       /\ Assistant(s, n, q) \in Messages
       /\ Assistant(s, n, q).role = "assistant" /\ Assistant(s, n, q).calls = n
  /\ \A n \in Nat : Result(n) \in Messages /\ Result(n).role = "toolResult"
<1>1. ASSUME NEW m \in Msgs
      PROVE  User(m) \in Messages /\ User(m).msg = m /\ User(m).role \in {"user", "custom"}
  <2>1. CASE m \in Custom
    BY <2>1 DEF User, Messages
  <2>2. CASE m \notin Custom
    BY <2>2 DEF User, Messages
  <2> QED BY <2>1, <2>2
<1>2. ASSUME NEW s \in {"stop", "error", "aborted"}, NEW n \in Nat, NEW q \in BOOLEAN
      PROVE  /\ Assistant(s, n, q) \in Messages
             /\ Assistant(s, n, q).role = "assistant" /\ Assistant(s, n, q).calls = n
  BY DEF Assistant, Messages
<1>3. ASSUME NEW n \in Nat PROVE Result(n) \in Messages /\ Result(n).role = "toolResult"
  BY DEF Result, Messages
<1> QED BY <1>1, <1>2, <1>3

(* The messages of a list of prompts. *)
LEMMA UsersFacts ==
  ASSUME NEW ps \in Seq(Msgs)
  PROVE  /\ Users(ps) \in Seq(Messages) /\ Len(Users(ps)) = Len(ps)
         /\ \A k \in 1 .. Len(ps) : Users(ps)[k] = User(ps[k])
<1>1. Users(ps) = [k \in 1 .. Len(ps) |-> User(ps[k])]
  BY DEF Users
<1>2. \A k \in 1 .. Len(ps) : User(ps[k]) \in Messages
  BY MessageTypes
<1> DEFINE us == Users(ps)
<1> HIDE DEF us
<1>3. us = [k \in 1 .. Len(ps) |-> User(ps[k])]
  BY <1>1 DEF us
<1>4. us \in Seq(Messages) /\ Len(us) = Len(ps) /\ \A k \in 1 .. Len(ps) : us[k] = User(ps[k])
  BY <1>2, <1>3
<1> QED BY <1>4 DEF us

(* The results of n calls. *)
ResultsTo(n) == [i \in 1 .. n |-> Result(i)]

(* They are a sequence that grows by one result at a time. *)
LEMMA ResultsFacts ==
  ASSUME NEW n \in Nat
  PROVE  /\ ResultsTo(n) \in Seq(Messages) /\ Len(ResultsTo(n)) = n
         /\ \A i \in 1 .. n : ResultsTo(n)[i] = Result(i)
         /\ Append(ResultsTo(n), Result(n + 1)) = ResultsTo(n + 1)
         /\ ResultsTo(0) = << >>
<1>1. \A k \in Nat : \A i \in 1 .. k : Result(i) \in Messages
  BY MessageTypes
<1>2. \A k \in Nat : /\ ResultsTo(k) \in Seq(Messages) /\ Len(ResultsTo(k)) = k
                     /\ \A i \in 1 .. k : ResultsTo(k)[i] = Result(i)
  <2> SUFFICES ASSUME NEW k \in Nat
               PROVE  /\ ResultsTo(k) \in Seq(Messages) /\ Len(ResultsTo(k)) = k
                      /\ \A i \in 1 .. k : ResultsTo(k)[i] = Result(i)
    OBVIOUS
  <2> DEFINE r == ResultsTo(k)
  <2>1. r = [i \in 1 .. k |-> Result(i)]
    BY DEF ResultsTo
  <2> HIDE DEF r
  <2>2. r \in Seq(Messages) /\ Len(r) = k /\ \A i \in 1 .. k : r[i] = Result(i)
    BY <1>1, <2>1
  <2> QED BY <2>2 DEF r
<1>3. Append(ResultsTo(n), Result(n + 1)) = ResultsTo(n + 1)
  <2> DEFINE a == Append(ResultsTo(n), Result(n + 1))
             b == ResultsTo(n + 1)
  <2>1. Result(n + 1) \in Messages
    BY MessageTypes
  <2>2. /\ a \in Seq(Messages) /\ Len(a) = n + 1
        /\ \A i \in 1 .. n : a[i] = Result(i)
        /\ a[n + 1] = Result(n + 1)
    <3> DEFINE r == ResultsTo(n)
               x == Result(n + 1)
    <3>1. r \in Seq(Messages) /\ Len(r) = n /\ \A i \in 1 .. n : r[i] = Result(i)
      BY <1>2
    <3>2. x \in Messages
      BY <2>1
    <3> HIDE DEF r, x
    <3>3. /\ Append(r, x) \in Seq(Messages) /\ Len(Append(r, x)) = n + 1
          /\ \A i \in 1 .. n : Append(r, x)[i] = r[i]
          /\ Append(r, x)[n + 1] = x
      BY <3>1, <3>2
    <3> QED BY <3>1, <3>3 DEF r, x
  <2>3. b \in Seq(Messages) /\ Len(b) = n + 1 /\ \A i \in 1 .. n + 1 : b[i] = Result(i)
    <3>1. n + 1 \in Nat
      OBVIOUS
    <3> QED BY <1>2, <3>1
  <2> HIDE DEF a, b
  <2>4. \A i \in 1 .. n + 1 : i \in 1 .. n \/ i = n + 1
    OBVIOUS
  <2>5. \A i \in 1 .. Len(a) : a[i] = b[i]
    BY <2>2, <2>3, <2>4
  <2>6. a = b
    BY <2>2, <2>3, <2>5, SeqEqual
  <2> QED BY <2>6 DEF a, b
<1>4. ResultsTo(0) = << >>
  <2>1. ResultsTo(0) \in Seq(Messages) /\ Len(ResultsTo(0)) = 0
    BY <1>2
  <2> QED BY <2>1
<1> QED BY <1>2, <1>3, <1>4

(* How a step of the loop changes the transcript: not at all, or by one
   message at its end. *)
Grows ==
  \/ UNCHANGED messages
  \/ \E x \in Messages : messages' = Append(messages, x)

(* No step of the loop does anything else to it. *)
LEMMA TranscriptGrows ==
  ASSUME Typed, Next
  PROVE  Grows
<1>0. MaxCalls \in Nat /\ ToolModes \subseteq BOOLEAN
  BY LoopAssumption
<1>1. CASE Caller
  BY <1>1 DEF Caller, Prompt, RunWithLifecycle, Steer, FollowUp, Continue, RunQueuedMessages,
              ClearAllQueues, Abort, RemoveQueuedMessages, Grows
<1>2. CASE EmitPrompt \/ Inject
  <2>1. pending # << >> /\ messages' = Append(messages, User(Head(pending)))
    BY <1>2 DEF EmitPrompt, Inject
  <2>2. User(Head(pending)) \in Messages
    BY <2>1, RangeFacts, MessageTypes DEF Typed, Hands
  <2> QED BY <2>1, <2>2 DEF Grows
<1>3. ASSUME NEW s \in {"stop", "error", "aborted"}, NEW n \in Nat, NEW q \in BOOLEAN, Answer(s, n, q)
      PROVE  Grows
  BY <1>3, MessageTypes DEF Answer, Grows
<1>4. CASE AbortedReply \/ ErrorReply
  <2>1. \E s \in {"error", "aborted"}, n \in {0, MaxCalls} : Answer(s, n, FALSE)
    BY <1>4 DEF AbortedReply, ErrorReply, EndingReply
  <2> QED BY <1>0, <1>3, <2>1
<1>5. ASSUME NEW n \in 0 .. MaxCalls, Reply(n) PROVE Grows
  <2>1. \E q \in BOOLEAN : Answer("stop", n, q)
    BY <1>0, <1>5 DEF Reply
  <2> QED BY <1>0, <1>3, <2>1
<1>6. CASE EmitResult
  <2>1. messages' = Append(messages, Result(results + 1)) /\ results + 1 \in Nat
    BY <1>6 DEF EmitResult, Typed, Tools
  <2> QED BY <2>1, MessageTypes DEF Grows
<1>7. CASE HandleRunFailure
  <2>1. messages' = Append(messages, Assistant(IF aborted THEN "aborted" ELSE "error", 0, FALSE))
    BY <1>7 DEF HandleRunFailure
  <2>2. Assistant(IF aborted THEN "aborted" ELSE "error", 0, FALSE) \in Messages
    <3>1. CASE aborted
      BY <3>1, MessageTypes
    <3>2. CASE ~aborted
      BY <3>2, MessageTypes
    <3> QED BY <3>1, <3>2
  <2> QED BY <2>1, <2>2 DEF Grows
<1>8. CASE \/ InitialPoll \/ Request \/ StartCall \/ TakeResults \/ TurnEnd \/ PollSteering
           \/ PollFollowUp \/ PollRejected \/ PollResolved \/ Steered \/ Followed \/ AgentEnd
           \/ FinishRun \/ Awaited \/ Throws \/ OrphanFinishes
           \/ \E b \in Batches : Continuation(b)
           \/ \E i \in DOMAIN calls : FinishCallThrows(i)
  <2>1. UNCHANGED messages
    BY <1>8 DEF InitialPoll, Request, StartCall, TakeResults, TurnEnd, PollSteering, PollFollowUp,
                PollRejected, PollResolved, Steered, Followed, AgentEnd, FinishRun, Awaited,
                StopResumes, NoContinuation, FinishCall, Throws, OrphanFinishes, Continuation,
                FinishCallThrows, Executing, Quiet
  <2> QED BY <2>1 DEF Grows
<1> QED BY <1>1, <1>2, <1>4, <1>5, <1>6, <1>7, <1>8 DEF Next, Own, External

(* Which messages a run begins with. *)
LEMMA RunBegins ==
  ASSUME Hands, (\E b \in Batches : Prompt(b)) \/ Continue
  PROVE  \E ps \in Seq(Msgs), b \in BOOLEAN : RunWithLifecycle(ps, b)
<1>1. Drained(steering) \in Seq(Msgs) /\ Drained(followUp) \in Seq(Msgs) /\ << >> \in Seq(Msgs)
  BY DrainFacts DEF Hands
<1>2. CASE \E b \in Batches : Prompt(b)
  BY <1>2, BatchMsgs DEF Prompt
<1>3. CASE Continue
  BY <1>1, <1>3 DEF Continue, RunQueuedMessages
<1> QED BY <1>2, <1>3

(* A step keeps transcript and context in their types. *)
LEMMA TextsStep ==
  ASSUME Typed, Next
  PROVE  Texts'
<1>0. /\ messages \in Seq(Messages) /\ context \in Seq(Messages) /\ start \in Nat
      /\ start <= Len(messages) /\ Hands /\ MaxCalls \in Nat /\ ToolModes \subseteq BOOLEAN
  BY LoopAssumption DEF Typed, Texts
<1>1. messages' \in Seq(Messages) /\ Len(messages) <= Len(messages')
  <2>1. CASE UNCHANGED messages
    BY <1>0, <2>1
  <2>2. CASE \E x \in Messages : messages' = Append(messages, x)
    BY <1>0, <2>2
  <2> QED BY <2>1, <2>2, TranscriptGrows DEF Grows
<1>2. ASSUME UNCHANGED start, context' \in Seq(Messages) PROVE Texts'
  <2>1. start' <= Len(messages')
    BY <1>0, <1>1, <1>2
  <2> QED BY <1>0, <1>1, <1>2, <2>1 DEF Texts
<1>3. CASE (\E b \in Batches : Prompt(b)) \/ Continue
  <2>1. PICK ps \in Seq(Msgs), b \in BOOLEAN : RunWithLifecycle(ps, b)
    BY <1>0, <1>3, RunBegins
  <2>2. context' = messages \o Users(ps) /\ start' = Len(messages)
    BY <2>1 DEF RunWithLifecycle
  <2>3. Users(ps) \in Seq(Messages)
    BY UsersFacts
  <2>4. context' \in Seq(Messages)
    BY <1>0, <2>2, <2>3
  <2>5. start' \in Nat /\ start' <= Len(messages')
    BY <1>0, <1>1, <2>2
  <2> QED BY <1>1, <2>4, <2>5 DEF Texts
<1>4. CASE Inject
  <2>1. UNCHANGED start /\ context' = Append(context, User(Head(pending))) /\ pending # << >>
    BY <1>4 DEF Inject
  <2>2. User(Head(pending)) \in Messages
    BY <1>0, <2>1, RangeFacts, MessageTypes DEF Hands
  <2>3. context' \in Seq(Messages)
    BY <1>0, <2>1, <2>2
  <2> QED BY <1>2, <2>1, <2>3
<1>5. ASSUME NEW s \in {"stop", "error", "aborted"}, NEW n \in Nat, NEW q \in BOOLEAN, Answer(s, n, q)
      PROVE  Texts'
  <2>1. UNCHANGED start /\ context' = Append(context, Assistant(s, n, q))
    BY <1>5 DEF Answer
  <2>2. Assistant(s, n, q) \in Messages
    BY MessageTypes
  <2>3. context' \in Seq(Messages)
    BY <1>0, <2>1, <2>2
  <2> QED BY <1>2, <2>1, <2>3
<1>6. CASE AbortedReply \/ ErrorReply
  <2>1. \E s \in {"error", "aborted"}, n \in {0, MaxCalls} : Answer(s, n, FALSE)
    BY <1>6 DEF AbortedReply, ErrorReply, EndingReply
  <2> QED BY <1>0, <1>5, <2>1
<1>7. ASSUME NEW n \in 0 .. MaxCalls, Reply(n) PROVE Texts'
  <2>1. \E q \in BOOLEAN : Answer("stop", n, q)
    BY <1>0, <1>7 DEF Reply
  <2> QED BY <1>0, <1>5, <2>1
<1>8. CASE TakeResults
  <2>1. UNCHANGED start /\ context' = context \o ResultsTo(results)
    BY <1>8 DEF TakeResults, Executing, ResultsTo
  <2>2. ResultsTo(results) \in Seq(Messages)
    BY ResultsFacts DEF Typed, Tools
  <2>3. context' \in Seq(Messages)
    BY <1>0, <2>1, <2>2
  <2> QED BY <1>2, <2>1, <2>3
<1>9. CASE FinishRun
  <2>1. start' = 0 /\ context' = << >>
    BY <1>9 DEF FinishRun
  <2>2. start' \in Nat /\ start' <= Len(messages') /\ context' \in Seq(Messages)
    BY <1>1, <2>1
  <2> QED BY <1>1, <2>2 DEF Texts
<1>10. CASE \/ \E b \in Batches : Steer(b) \/ FollowUp(b) \/ Continuation(b)
            \/ \E m \in Msgs : RemoveQueuedMessages(m)
            \/ ClearAllQueues \/ Abort \/ EmitPrompt \/ InitialPoll \/ Request
            \/ StartCall \/ EmitResult \/ TurnEnd \/ PollSteering \/ PollFollowUp \/ PollRejected
            \/ PollResolved \/ Steered \/ Followed \/ AgentEnd \/ HandleRunFailure \/ Awaited
            \/ Throws \/ OrphanFinishes \/ \E i \in DOMAIN calls : FinishCallThrows(i)
  <2>1. UNCHANGED <<start, context>>
    BY <1>10 DEF Steer, FollowUp, Continuation, RemoveQueuedMessages, ClearAllQueues, Abort,
         EmitPrompt, InitialPoll, Request, StartCall, EmitResult, TurnEnd, PollSteering,
         PollFollowUp, PollRejected, PollResolved, Steered, Followed, AgentEnd, HandleRunFailure,
         Awaited, StopResumes, NoContinuation, FinishCall, Throws, OrphanFinishes,
         FinishCallThrows, Executing, Quiet, loop
  <2> QED BY <1>0, <1>2, <2>1
<1> QED BY <1>3, <1>4, <1>6, <1>7, <1>8, <1>9, <1>10 DEF Next, Caller, Own, External

(* A step keeps the tool calls in their types. *)
LEMMA ToolsStep ==
  ASSUME Typed, Next
  PROVE  Tools'
<1>0. /\ calls \in Seq(CallStates) /\ Len(calls) <= MaxCalls /\ results \in Nat
      /\ results <= Len(calls) /\ orphans \subseteq (1 .. MaxRuns) \X (1 .. MaxCalls)
      /\ MaxCalls \in Nat /\ MaxRuns \in Nat /\ runs \in Nat /\ runs <= MaxRuns
      /\ (pc # "idle" => runs # 0)
  BY LoopAssumption DEF Typed, Tools, Controls
<1>1. ASSUME NEW i, NEW s \in CallStates, calls' = [calls EXCEPT ![i] = s], UNCHANGED results,
             orphans' \subseteq (1 .. MaxRuns) \X (1 .. MaxCalls)
      PROVE  Tools'
  <2>1. calls' \in Seq(CallStates) /\ Len(calls') = Len(calls)
    <3>1. CASE i \in 1 .. Len(calls)
      BY <1>0, <1>1, <3>1, ExceptSeq
    <3>2. CASE i \notin 1 .. Len(calls)
      <4>1. calls' = calls
        <5>1. DOMAIN calls = 1 .. Len(calls) /\ calls = [k \in DOMAIN calls |-> calls[k]]
          BY <1>0
        <5>2. calls' = [k \in DOMAIN calls |-> IF k = i THEN s ELSE calls[k]]
          BY <1>1
        <5>3. \A k \in DOMAIN calls : k # i
          BY <3>2, <5>1
        <5> QED BY <5>1, <5>2, <5>3, Zenon
      <4> QED BY <1>0, <4>1
    <3> QED BY <3>1, <3>2
  <2> QED BY <1>0, <1>1, <2>1 DEF Tools
<1>2. CASE StartCall
  <2>1. /\ \E s \in {"ready", "done"} : calls' = [calls EXCEPT ![Started + 1] = s]
        /\ UNCHANGED <<results, orphans>>
    BY <1>2 DEF StartCall, Executing, Unmoved
  <2> QED BY <1>0, <1>1, <2>1 DEF CallStates
<1>3. ASSUME NEW i \in DOMAIN calls, FinishCall(i) PROVE Tools'
  <2>1. calls' = [calls EXCEPT ![i] = "done"] /\ UNCHANGED <<results, orphans>>
    BY <1>3 DEF FinishCall, Executing, Unmoved
  <2> QED BY <1>0, <1>1, <2>1 DEF CallStates
<1>4. ASSUME NEW i \in DOMAIN calls, FinishCallThrows(i) PROVE Tools'
  <2>1. /\ calls' = [calls EXCEPT ![i] = "done"] /\ UNCHANGED results /\ pc = "tools"
        /\ orphans' = orphans \cup {<<runs, j>> : j \in Running \ {i}}
    BY <1>4 DEF FinishCallThrows, Executing
  <2>2. Running \subseteq 1 .. MaxCalls
    <3>1. DOMAIN calls = 1 .. Len(calls) /\ 1 .. Len(calls) \subseteq 1 .. MaxCalls
      BY <1>0
    <3>2. Running \subseteq DOMAIN calls
      BY DEF Running, Ready
    <3> QED BY <3>1, <3>2
  <2>3. runs \in 1 .. MaxRuns
    BY <1>0, <2>1
  <2>4. orphans' \subseteq (1 .. MaxRuns) \X (1 .. MaxCalls)
    <3> DEFINE P == (1 .. MaxRuns) \X (1 .. MaxCalls)
    <3>1. \A j \in Running : <<runs, j>> \in P
      BY <2>2, <2>3
    <3>2. orphans \subseteq P
      BY <1>0
    <3> HIDE DEF P
    <3>3. orphans' \subseteq P
      BY <2>1, <3>1, <3>2
    <3> QED BY <3>3 DEF P
  <2> QED BY <1>1, <2>1, <2>4 DEF CallStates
<1>5. ASSUME UNCHANGED calls, results' \in Nat, results' <= Len(calls), orphans' \subseteq orphans
      PROVE  Tools'
  BY <1>0, <1>5 DEF Tools
<1>6. CASE EmitResult
  <2>1. UNCHANGED <<calls, orphans>> /\ results' = results + 1 /\ results < Len(calls)
    BY <1>6 DEF EmitResult, Executing, Unmoved
  <2> QED BY <1>0, <1>5, <2>1
<1>7. ASSUME NEW n \in 0 .. MaxCalls, Reply(n) PROVE Tools'
  <2>1. calls' = [i \in 1 .. n |-> "new"] /\ results' = 0 /\ UNCHANGED orphans
    BY <1>7 DEF Reply, Answer, Unmoved
  <2>2. calls' \in Seq(CallStates) /\ Len(calls') = n
    BY <1>0, <2>1 DEF CallStates
  <2> QED BY <1>0, <2>1, <2>2 DEF Tools
<1>8. CASE FinishRun
  <2>1. calls' = << >> /\ results' = 0 /\ UNCHANGED orphans
    BY <1>8 DEF FinishRun
  <2>2. calls' \in Seq(CallStates) /\ Len(calls') = 0
    BY <2>1
  <2> QED BY <1>0, <2>1, <2>2 DEF Tools
<1>9. CASE OrphanFinishes
  <2>1. UNCHANGED <<calls, results>> /\ orphans' \subseteq orphans
    BY <1>9 DEF OrphanFinishes, loop
  <2> QED BY <1>0, <1>5, <2>1
<1>10. CASE \/ Caller \/ EmitPrompt \/ InitialPoll \/ Inject \/ Request \/ AbortedReply \/ ErrorReply
            \/ TakeResults \/ TurnEnd \/ PollSteering \/ PollFollowUp \/ PollRejected
            \/ PollResolved \/ Steered \/ Followed \/ AgentEnd \/ HandleRunFailure
            \/ StopResumes \/ NoContinuation \/ Throws \/ \E b \in Batches : Continuation(b)
  <2>1. UNCHANGED <<calls, results, orphans>>
    BY <1>10 DEF Caller, Prompt, Continue, RunQueuedMessages, RunWithLifecycle, Steer, FollowUp,
         Continuation, RemoveQueuedMessages, ClearAllQueues, Abort, EmitPrompt, InitialPoll, Inject,
         Request, AbortedReply, ErrorReply, EndingReply, Answer, TakeResults, TurnEnd, PollSteering,
         PollFollowUp, PollRejected, PollResolved, Steered, Followed, AgentEnd, HandleRunFailure,
         StopResumes, NoContinuation, Throws, Executing, Quiet, Unmoved, loop
  <2> QED BY <1>0, <1>5, <2>1
<1> QED BY <1>2, <1>3, <1>4, <1>6, <1>7, <1>8, <1>9, <1>10 DEF Next, Own, Awaited, External

(* A step keeps all types. *)
LEMMA TypedStep ==
  ASSUME Typed, Next
  PROVE  Typed'
BY ControlsStep, HandsStep, TextsStep, ToolsStep DEF Typed

-----------------------------------------------------------------------------
(* No message is lost *)

(* Where the loop is when it holds messages, and who took them. *)
LEMMA InHandStep ==
  ASSUME Typed, InHand, Next
  PROVE  InHand'
<1>0. /\ pc = "idle" => ~aborted
      /\ pc \notin {"prompts", "inject", "steered", "followed", "failing", "finish"}
            => pending = << >>
      /\ pc \notin Waits => drained = << >>
      /\ aborted \/ pc \in {"failing", "finish"}
            => Range(pending) \subseteq spoiled /\ Range(drained) \subseteq spoiled
      /\ Range(<< >>) = {}
  BY DEF Typed, Controls, InHand, Range
<1>1. pending # << >> => Range(Tail(pending)) \subseteq Range(pending)
  BY RangeFacts DEF Typed, Hands
<1> USE DEF InHand, Waits
<1>2. CASE (\E b \in Batches : Prompt(b)) \/ Continue
  <2>1. PICK ps \in Seq(Msgs), b \in BOOLEAN : RunWithLifecycle(ps, b)
    BY <1>2, RunBegins DEF Typed
  <2> QED BY <1>0, <2>1 DEF RunWithLifecycle
<1>3. ASSUME UNCHANGED <<pc, pending, drained, aborted, spoiled>> PROVE InHand'
  BY <1>3
<1>4. CASE \/ \E b \in Batches : Steer(b) \/ FollowUp(b)
           \/ ClearAllQueues \/ \E m \in Msgs : RemoveQueuedMessages(m)
  BY <1>3, <1>4 DEF Steer, FollowUp, ClearAllQueues, RemoveQueuedMessages, loop
<1>5. CASE Abort
  BY <1>0, <1>5 DEF Abort, Spoil, loop
<1>6. CASE EmitPrompt \/ Inject
  <2>1. /\ pc \in {"prompts", "inject"} /\ pending' = Tail(pending) /\ pending # << >>
        /\ UNCHANGED <<pc, drained, aborted, spoiled>>
    BY <1>6 DEF EmitPrompt, Inject, Unmoved
  <2> QED BY <1>0, <1>1, <2>1
<1>7. CASE InitialPoll
  <2>1. /\ pc = "prompts" /\ pending = << >> /\ pc' = "initialWait"
        /\ UNCHANGED <<pending, aborted, spoiled>> /\ (aborted => UNCHANGED drained)
    BY <1>7 DEF InitialPoll, Unmoved
  <2> QED BY <1>0, <2>1
<1>8. CASE Request
  <2>1. pc = "inject" /\ pending = << >> /\ pc' = "streaming"
        /\ UNCHANGED <<pending, drained, aborted, spoiled>>
    BY <1>8 DEF Request, Unmoved
  <2> QED BY <1>0, <2>1
<1>9. CASE AbortedReply \/ ErrorReply \/ \E n \in 0 .. MaxCalls : Reply(n)
  <2>1. pc = "streaming" /\ pc' \in {"end", "tools", "turnEnd"}
        /\ UNCHANGED <<pending, drained, aborted, spoiled>>
    BY <1>9 DEF AbortedReply, ErrorReply, EndingReply, Reply, Answer, Unmoved
  <2> QED BY <1>0, <2>1
<1>10. CASE StartCall \/ EmitResult \/ TakeResults
            \/ \E i \in DOMAIN calls : FinishCall(i) \/ FinishCallThrows(i)
  <2>1. pc = "tools" /\ pc' \in {"tools", "turnEnd", "failing"}
        /\ UNCHANGED <<pending, drained, aborted, spoiled>>
    BY <1>10 DEF StartCall, EmitResult, TakeResults, FinishCall, FinishCallThrows, Executing, Unmoved
  <2> QED BY <1>0, <2>1
<1>11. CASE TurnEnd \/ StopResumes \/ NoContinuation
  <2>1. pc \in {"turnEnd", "stopWait", "contWait"} /\ pc' \in {"end", "stopWait", "steering"}
        /\ UNCHANGED <<pending, drained, aborted, spoiled>>
    BY <1>11 DEF TurnEnd, StopResumes, NoContinuation, Quiet, Unmoved
  <2> QED BY <1>0, <2>1
<1>12. CASE PollSteering \/ PollFollowUp
  <2>1. /\ pc \in {"steering", "followUp"} /\ UNCHANGED <<pending, aborted, spoiled>>
        /\ \/ pc' \in {"steered", "followed"} /\ UNCHANGED drained
           \/ pc' \in Waits /\ ~aborted
    BY <1>12 DEF PollSteering, PollFollowUp, Quiet, Unmoved
  <2> QED BY <1>0, <2>1
<1>13. CASE PollRejected
  <2>1. /\ pc \in Waits /\ aborted /\ pc' \in {"failing", "end"} /\ drained' = << >>
        /\ UNCHANGED <<pending, aborted, spoiled>>
    BY <1>13 DEF PollRejected, Quiet, Unmoved
  <2> QED BY <1>0, <2>1
<1>14. CASE PollResolved
  <2>1. /\ pc \in Waits /\ pending' = drained /\ drained' = << >> /\ UNCHANGED <<aborted, spoiled>>
        /\ pc' = "inject" \/ (pc' = "failing" /\ aborted) \/ pc' \in {"steered", "followed"}
    <3>1. pc \in Waits /\ pending' = drained /\ drained' = << >> /\ UNCHANGED <<aborted, spoiled>>
      BY <1>14 DEF PollResolved, Quiet, Unmoved
    <3>2. CASE pc = "initialWait"
      BY <1>14, <3>1, <3>2 DEF PollResolved, BeginTurn
    <3>3. CASE pc = "steeringWait"
      BY <1>14, <3>1, <3>3 DEF PollResolved
    <3>4. CASE pc = "followUpWait"
      BY <1>14, <3>1, <3>4 DEF PollResolved
    <3> QED BY <3>1, <3>2, <3>3, <3>4
  <2> QED BY <1>0, <2>1
<1>15. CASE Steered \/ Followed
  <2>1. /\ pc \in {"steered", "followed"} /\ UNCHANGED <<pending, drained, aborted, spoiled>>
        /\ \/ pc' = "inject" \/ (pc' = "failing" /\ aborted)
           \/ pending = << >> /\ pc' \in {"end", "followUp", "contWait"}
    BY <1>15 DEF Steered, Followed, BeginTurn, Quiet, Unmoved
  <2> QED BY <1>0, <2>1
<1>16. ASSUME NEW b \in Batches, Continuation(b) PROVE InHand'
  <2>1. pc = "contWait" /\ ~aborted /\ pc' = "inject" /\ UNCHANGED <<drained, aborted>>
    BY <1>16 DEF Continuation, BeginTurn
  <2> QED BY <1>0, <2>1
<1>17. CASE AgentEnd \/ HandleRunFailure
  <2>1. /\ UNCHANGED <<pending, drained, aborted, spoiled>>
        /\ (pc = "end" /\ pc' = "settling") \/ (pc = "failing" /\ pc' = "finish")
    BY <1>17 DEF AgentEnd, HandleRunFailure, history
  <2> QED BY <1>0, <2>1
<1>18. CASE Throws
  <2>1. /\ pc' = "failing" /\ UNCHANGED <<pending, drained>> /\ pc \notin Waits
        /\ spoiled' = spoiled \cup Range(pending) \cup Range(drained)
    BY <1>18 DEF Throws, FailPoints, Spoil
  <2> QED BY <1>0, <2>1
<1>19. CASE FinishRun
  <2>1. pc' = "idle" /\ pending' = << >> /\ drained' = << >>
    BY <1>19 DEF FinishRun
  <2> QED BY <1>0, <2>1
<1>20. CASE OrphanFinishes
  BY <1>3, <1>20 DEF OrphanFinishes, loop, history
<1> QED BY <1>2, <1>4, <1>5, <1>6, <1>7, <1>8, <1>9, <1>10, <1>11, <1>12, <1>13, <1>14, <1>15,
           <1>16, <1>17, <1>18, <1>19, <1>20 DEF Next, Caller, Own, Awaited, External

(* What is in the transcript stays there, and what is emitted gets there. *)
LEMMA TranscriptKeeps ==
  ASSUME messages \in Seq(Messages)
  PROVE  /\ Grows => InTranscript \subseteq InTranscript'
         /\ \A m \in Msgs : messages' = Append(messages, User(m))
              => InTranscript \subseteq InTranscript' /\ m \in InTranscript'
<1>1. CASE UNCHANGED messages
  BY <1>1 DEF InTranscript
<1>2. ASSUME NEW x \in Messages, messages' = Append(messages, x)
      PROVE  /\ InTranscript \subseteq InTranscript'
             /\ x.role \in {"user", "custom"} => x.msg \in InTranscript'
  <2> DEFINE ms == messages'
             n == Len(messages)
  <2>1. /\ n \in Nat /\ DOMAIN messages = 1 .. n /\ DOMAIN ms = 1 .. n + 1
        /\ ms[n + 1] = x /\ \A k \in 1 .. n : ms[k] = messages[k]
    <3>1. ms \in Seq(Messages) /\ Len(ms) = n + 1 /\ ms[n + 1] = x
          /\ \A k \in 1 .. n : ms[k] = messages[k]
      BY <1>2
    <3> QED BY <3>1
  <2>2. \A y : y \in InTranscript' <=>
          \E k \in DOMAIN ms : ms[k].role \in {"user", "custom"} /\ y = ms[k].msg
    BY DEF InTranscript
  <2>3. \A y : y \in InTranscript <=>
          \E k \in DOMAIN messages : messages[k].role \in {"user", "custom"} /\ y = messages[k].msg
    BY DEF InTranscript
  <2> HIDE DEF ms, n
  <2>4. (\A k \in 1 .. n : k \in 1 .. n + 1) /\ n + 1 \in 1 .. n + 1
    BY <2>1
  <2> QED BY <2>1, <2>2, <2>3, <2>4
<1>3. ASSUME NEW m \in Msgs, messages' = Append(messages, User(m))
      PROVE  InTranscript \subseteq InTranscript' /\ m \in InTranscript'
  BY <1>2, <1>3, MessageTypes
<1>4. Grows => InTranscript \subseteq InTranscript'
  BY <1>1, <1>2 DEF Grows
<1> QED BY <1>3, <1>4

(* The caller's messages are those of the batches it has sent. *)
LEMMA AcceptedFacts ==
  ASSUME sent \in [Operations -> Seq(Batches)]
  PROVE  /\ UNCHANGED sent => Accepted' = Accepted
         /\ \A op \in Operations, b \in Batches :
              Send(op, b) => Accepted' \subseteq Accepted \cup Range(b)
<1>1. UNCHANGED sent => Accepted' = Accepted
  BY DEF Accepted
<1>2. ASSUME NEW op \in Operations, NEW b \in Batches, Send(op, b)
      PROVE  Accepted' \subseteq Accepted \cup Range(b)
  <2>1. sent' = [sent EXCEPT ![op] = Append(sent[op], b)]
    BY <1>2 DEF Send
  <2>2. ASSUME NEW o \in DOMAIN sent', NEW k \in DOMAIN sent'[o]
        PROVE  Range(sent'[o][k]) \subseteq Accepted \cup Range(b)
    <3>1. o \in Operations /\ DOMAIN sent = Operations
      BY <2>1
    <3>2. CASE o # op
      <4>1. sent'[o] = sent[o]
        BY <2>1, <3>1, <3>2
      <4> QED BY <2>2, <3>1, <4>1 DEF Accepted
    <3>3. CASE o = op
      <4> DEFINE s == sent[op]
                 n == Len(s)
      <4>1. s \in Seq(Batches) /\ sent'[o] = Append(s, b)
        BY <2>1, <3>1, <3>3
      <4>2. /\ n \in Nat /\ DOMAIN s = 1 .. n /\ DOMAIN sent'[o] = 1 .. n + 1
            /\ sent'[o][n + 1] = b /\ \A j \in 1 .. n : sent'[o][j] = s[j]
        <5> DEFINE t == Append(s, b)
        <5>1. t \in Seq(Batches) /\ Len(t) = n + 1 /\ t[n + 1] = b /\ \A j \in 1 .. n : t[j] = s[j]
          BY <4>1
        <5>2. n \in Nat /\ DOMAIN s = 1 .. n /\ DOMAIN t = 1 .. n + 1
          BY <4>1, <5>1
        <5> HIDE DEF t
        <5>3. sent'[o] = t
          BY <4>1 DEF t
        <5> QED BY <5>1, <5>2, <5>3
      <4>3. k \in 1 .. n \/ k = n + 1
        BY <2>2, <4>2
      <4>4. CASE k = n + 1
        BY <4>2, <4>4
      <4>5. CASE k \in 1 .. n
        <5>1. sent'[o][k] = sent[op][k] /\ k \in DOMAIN sent[op]
          BY <4>2, <4>5
        <5> QED BY <3>1, <5>1 DEF Accepted
      <4> QED BY <4>3, <4>4, <4>5
    <3> QED BY <3>2, <3>3
  <2> QED BY <2>2 DEF Accepted
<1> QED BY <1>1, <1>2

(* The places where a message of the caller is accounted for. *)
Kept == removed \cup spoiled \cup Queued(steering) \cup Queued(followUp) \cup Range(pending)
        \cup Range(drained) \cup InTranscript

(* A message never leaves these places: a drain moves it from the queue to
   the loop's hands, an emission from there to the transcript, and what the
   loop drops was removed or spoiled. *)
LEMMA LostStep ==
  ASSUME Typed, InHand, NothingLost, Next
  PROVE  NothingLost'
<1>0. /\ sent \in [Operations -> Seq(Batches)] /\ steering \in Seq(Batches)
      /\ followUp \in Seq(Batches) /\ pending \in Seq(Msgs) /\ messages \in Seq(Messages)
  BY DEF Typed, Hands, Texts
<1>1. /\ Queued(steering) \subseteq Range(Drained(steering)) \cup Queued(Remaining(steering))
      /\ Queued(followUp) \subseteq Range(Drained(followUp)) \cup Queued(Remaining(followUp))
      /\ Range(<< >>) = {}
      /\ \A b \in Batches :
           /\ Queued(steering) \cup Range(b) \subseteq Queued(Append(steering, b))
           /\ Queued(followUp) \cup Range(b) \subseteq Queued(Append(followUp, b))
  BY <1>0, DrainFacts, QueuedFacts DEF Range
<1>2. Accepted \subseteq Kept
  BY DEF NothingLost, Kept
<1>3. InTranscript \subseteq InTranscript'
  BY <1>0, TranscriptGrows, TranscriptKeeps
<1>4. /\ pc \notin {"prompts", "inject", "steered", "followed", "failing", "finish"}
            => pending = << >>
      /\ pc \notin Waits => drained = << >>
      /\ aborted \/ pc \in {"failing", "finish"}
            => Range(pending) \subseteq spoiled /\ Range(drained) \subseteq spoiled
  BY DEF InHand
<1>5. ASSUME UNCHANGED sent, Kept \subseteq Kept' PROVE NothingLost'
  <2>1. Accepted' = Accepted
    BY <1>0, <1>5, AcceptedFacts
  <2> QED BY <1>2, <1>5, <2>1 DEF NothingLost, Kept
<1>6. ASSUME NEW op \in Operations, NEW b \in Batches, Send(op, b),
             Kept \subseteq Kept', Range(b) \subseteq Kept'
      PROVE  NothingLost'
  <2>1. Accepted' \subseteq Accepted \cup Range(b)
    BY <1>0, <1>6, AcceptedFacts
  <2> QED BY <1>2, <1>6, <2>1 DEF NothingLost, Kept
<1>7. ASSUME NEW b \in Batches, Prompt(b) PROVE NothingLost'
  <2>1. /\ Send("prompt", b) /\ pc = "idle" /\ pending' = b
        /\ UNCHANGED <<steering, followUp, drained, removed, spoiled>>
    BY <1>7 DEF Prompt, RunWithLifecycle, queues
  <2>2. pending = << >>
    BY <1>4, <2>1
  <2>3. Kept \subseteq Kept' /\ Range(b) \subseteq Kept'
    BY <1>1, <1>3, <2>1, <2>2 DEF Kept
  <2> QED BY <1>6, <2>1, <2>3 DEF Operations
<1>8. CASE Continue
  <2>1. /\ pc = "idle" /\ UNCHANGED <<drained, removed, spoiled, sent>>
        /\ \/ /\ steering' = Remaining(steering) /\ UNCHANGED followUp
              /\ pending' = Drained(steering)
           \/ /\ followUp' = Remaining(followUp) /\ UNCHANGED steering
              /\ pending' = Drained(followUp)
           \/ UNCHANGED <<steering, followUp>>
    BY <1>8 DEF Continue, RunQueuedMessages, RunWithLifecycle, queues
  <2>2. pending = << >>
    BY <1>4, <2>1
  <2>3. Kept \subseteq Kept'
    BY <1>1, <1>3, <2>1, <2>2 DEF Kept
  <2> QED BY <1>5, <2>1, <2>3
<1>9. ASSUME NEW b \in Batches, Steer(b) PROVE NothingLost'
  <2>1. /\ Send("steer", b) /\ steering' = Append(steering, b)
        /\ UNCHANGED <<pending, drained, followUp, removed, spoiled>>
    BY <1>9 DEF Steer, loop
  <2>2. Kept \subseteq Kept' /\ Range(b) \subseteq Kept'
    BY <1>1, <1>3, <2>1 DEF Kept
  <2> QED BY <1>6, <2>1, <2>2 DEF Operations
<1>10. ASSUME NEW b \in Batches, FollowUp(b) PROVE NothingLost'
  <2>1. /\ Send("followUp", b) /\ followUp' = Append(followUp, b)
        /\ UNCHANGED <<pending, drained, steering, removed, spoiled>>
    BY <1>10 DEF FollowUp, loop
  <2>2. Kept \subseteq Kept' /\ Range(b) \subseteq Kept'
    BY <1>1, <1>3, <2>1 DEF Kept
  <2> QED BY <1>6, <2>1, <2>2 DEF Operations
<1>11. CASE ClearAllQueues \/ \E m \in Msgs : RemoveQueuedMessages(m)
  <2>1. /\ UNCHANGED <<pending, drained, spoiled, sent>> /\ removed \subseteq removed'
        /\ Queued(steering) \cup Queued(followUp)
             \subseteq removed' \cup Queued(steering') \cup Queued(followUp')
    <3>1. CASE ClearAllQueues
      BY <3>1 DEF ClearAllQueues, loop
    <3>2. CASE \E m \in Msgs : RemoveQueuedMessages(m)
      BY <3>2 DEF RemoveQueuedMessages, loop
    <3> QED BY <1>11, <3>1, <3>2
  <2>2. Kept \subseteq Kept'
    BY <1>3, <2>1 DEF Kept
  <2> QED BY <1>5, <2>1, <2>2
<1>12. CASE Abort \/ Throws
  <2>1. UNCHANGED <<pending, drained, steering, followUp, removed, sent>> /\ spoiled \subseteq spoiled'
    BY <1>12 DEF Abort, Throws, Spoil, loop, queues
  <2>2. Kept \subseteq Kept'
    BY <1>3, <2>1 DEF Kept
  <2> QED BY <1>5, <2>1, <2>2
<1>13. CASE EmitPrompt \/ Inject
  <2>1. /\ pending # << >> /\ pending' = Tail(pending)
        /\ messages' = Append(messages, User(Head(pending)))
        /\ UNCHANGED <<steering, followUp, drained, removed, sent, spoiled>>
    BY <1>13 DEF EmitPrompt, Inject, Unmoved, queues
  <2>2. Range(pending) \subseteq {Head(pending)} \cup Range(Tail(pending)) /\ Head(pending) \in Msgs
    BY <1>0, <2>1, HeadOrTail, RangeFacts
  <2>3. Head(pending) \in InTranscript'
    BY <1>0, <2>1, <2>2, TranscriptKeeps
  <2>4. Kept \subseteq Kept'
    BY <1>3, <2>1, <2>2, <2>3 DEF Kept
  <2> QED BY <1>5, <2>1, <2>4
<1>14. CASE InitialPoll \/ PollSteering \/ PollFollowUp
  <2>1. /\ UNCHANGED <<pending, removed, sent, spoiled>> /\ pc \notin Waits
        /\ \/ UNCHANGED <<drained, steering, followUp>>
           \/ drained' = Drained(steering) /\ steering' = Remaining(steering) /\ UNCHANGED followUp
           \/ drained' = Drained(followUp) /\ followUp' = Remaining(followUp) /\ UNCHANGED steering
    BY <1>14 DEF InitialPoll, PollSteering, PollFollowUp, Quiet, Unmoved, Waits
  <2>2. drained = << >>
    BY <1>4, <2>1
  <2>3. Kept \subseteq Kept'
    BY <1>1, <1>3, <2>1, <2>2 DEF Kept
  <2> QED BY <1>5, <2>1, <2>3
<1>15. CASE PollRejected
  <2>1. UNCHANGED <<pending, steering, followUp, removed, sent, spoiled>> /\ aborted
    BY <1>15 DEF PollRejected, Quiet, Unmoved, queues
  <2>2. Kept \subseteq Kept'
    BY <1>3, <1>4, <2>1 DEF Kept
  <2> QED BY <1>5, <2>1, <2>2
<1>16. CASE PollResolved
  <2>1. pc \in Waits /\ pending' = drained /\ UNCHANGED <<steering, followUp, removed, sent, spoiled>>
    BY <1>16 DEF PollResolved, Quiet, Unmoved, queues
  <2>2. pending = << >>
    BY <1>4, <2>1 DEF Waits
  <2>3. Kept \subseteq Kept'
    BY <1>1, <1>3, <2>1, <2>2 DEF Kept
  <2> QED BY <1>5, <2>1, <2>3
<1>17. ASSUME NEW b \in Batches, Continuation(b) PROVE NothingLost'
  <2>1. /\ Send("continuation", b) /\ pc = "contWait" /\ pending' = b
        /\ UNCHANGED <<drained, steering, followUp, removed, spoiled>>
    BY <1>17 DEF Continuation, queues
  <2>2. pending = << >>
    BY <1>4, <2>1
  <2>3. Kept \subseteq Kept' /\ Range(b) \subseteq Kept'
    BY <1>1, <1>3, <2>1, <2>2 DEF Kept
  <2> QED BY <1>6, <2>1, <2>3 DEF Operations
<1>18. CASE FinishRun
  <2>1. pc \in {"settling", "finish"} /\ UNCHANGED <<steering, followUp, removed, sent, spoiled>>
    BY <1>18 DEF FinishRun, queues, history
  <2>2. Range(pending) \subseteq spoiled /\ Range(drained) \subseteq spoiled
    BY <1>1, <1>4, <2>1 DEF Waits
  <2>3. Kept \subseteq Kept'
    BY <1>3, <2>1, <2>2 DEF Kept
  <2> QED BY <1>5, <2>1, <2>3
<1>19. CASE \/ Request \/ AbortedReply \/ StartCall \/ EmitResult \/ TakeResults \/ TurnEnd
            \/ Steered \/ Followed \/ AgentEnd \/ HandleRunFailure \/ Awaited \/ ErrorReply
            \/ OrphanFinishes \/ \E n \in 0 .. MaxCalls : Reply(n)
            \/ \E i \in DOMAIN calls : FinishCallThrows(i)
  <2>1. UNCHANGED <<pending, drained, steering, followUp, removed, sent, spoiled>>
    BY <1>19 DEF Request, AbortedReply, StartCall, EmitResult, TakeResults, TurnEnd, Steered,
         Followed, AgentEnd, HandleRunFailure, Awaited, StopResumes, NoContinuation, FinishCall,
         ErrorReply, EndingReply, OrphanFinishes, Reply, Answer, FinishCallThrows, Executing,
         Quiet, Unmoved, loop, queues, history
  <2>2. Kept \subseteq Kept'
    BY <1>3, <2>1 DEF Kept
  <2> QED BY <1>5, <2>1, <2>2
<1> QED BY <1>7, <1>8, <1>9, <1>10, <1>11, <1>12, <1>13, <1>14, <1>15, <1>16, <1>17, <1>18, <1>19
        DEF Next, Caller, Own, External

-----------------------------------------------------------------------------
(* Requests are complete *)

(* An emitted prompt moves from what is left of the prompts to the transcript. *)
LEMMA UsersShift ==
  ASSUME NEW ms \in Seq(Messages), NEW ps \in Seq(Msgs)
  PROVE  /\ ps # << >> => ms \o Users(ps) = Append(ms, User(Head(ps))) \o Users(Tail(ps))
         /\ ms \o Users(<< >>) = ms
<1>1. ASSUME ps # << >>
      PROVE  ms \o Users(ps) = Append(ms, User(Head(ps))) \o Users(Tail(ps))
  <2> DEFINE u == Users(ps)
             v == Users(Tail(ps))
             x == User(Head(ps))
             n == Len(ms)
             l == Len(ps)
  <2>1. /\ l \in Nat /\ l >= 1 /\ Head(ps) = ps[1] /\ Head(ps) \in Msgs
        /\ Tail(ps) \in Seq(Msgs) /\ Len(Tail(ps)) = l - 1
        /\ \A k \in 1 .. l - 1 : Tail(ps)[k] = ps[k + 1]
    BY <1>1
  <2>2. u \in Seq(Messages) /\ Len(u) = l /\ \A k \in 1 .. l : u[k] = User(ps[k])
    BY UsersFacts
  <2>3. v \in Seq(Messages) /\ Len(v) = l - 1 /\ \A k \in 1 .. l - 1 : v[k] = User(ps[k + 1])
    <3> DEFINE t == Tail(ps)
    <3>1. t \in Seq(Msgs) /\ Len(t) = l - 1 /\ \A k \in 1 .. l - 1 : t[k] = ps[k + 1]
      BY <2>1
    <3> HIDE DEF t, l
    <3>2. /\ Users(t) \in Seq(Messages) /\ Len(Users(t)) = Len(t)
          /\ \A k \in 1 .. Len(t) : Users(t)[k] = User(t[k])
      BY <3>1, UsersFacts
    <3>3. Users(t) \in Seq(Messages) /\ Len(Users(t)) = l - 1
      BY <3>1, <3>2
    <3>4. \A k \in 1 .. l - 1 : Users(t)[k] = User(ps[k + 1])
      BY <3>1, <3>2
    <3> QED BY <3>3, <3>4 DEF t
  <2>4. x \in Messages /\ u[1] = x
    BY <2>1, <2>2, MessageTypes
  <2>5. n \in Nat
    OBVIOUS
  <2>6. \A k \in 1 .. l - 1 : v[k] = u[k + 1]
    <3>1. \A k \in 1 .. l - 1 : k + 1 \in 1 .. l
      BY <2>1
    <3> QED BY <2>2, <2>3, <3>1
  <2> HIDE DEF u, v, x
  <2> DEFINE a == ms \o u
             c == Append(ms, x)
  <2>7. /\ c \in Seq(Messages) /\ Len(c) = n + 1 /\ c[n + 1] = x
        /\ \A k \in 1 .. n : c[k] = ms[k]
    BY <2>4
  <2>8. /\ a \in Seq(Messages) /\ Len(a) = n + l
        /\ \A k \in 1 .. n + l : a[k] = IF k <= n THEN ms[k] ELSE u[k - n]
    <3> HIDE DEF l
    <3>1. /\ a \in Seq(Messages) /\ Len(a) = Len(ms) + Len(u)
          /\ \A k \in 1 .. Len(ms) + Len(u) : a[k] = IF k <= Len(ms) THEN ms[k] ELSE u[k - Len(ms)]
      BY <2>2, ConcatProperties
    <3> QED BY <2>2, <3>1
  <2> HIDE DEF a, c, n, l
  <2> DEFINE b == c \o v
  <2>9. /\ b \in Seq(Messages) /\ Len(b) = n + l
        /\ \A k \in 1 .. n + l : b[k] = IF k <= n + 1 THEN c[k] ELSE v[k - (n + 1)]
    <3>1. /\ b \in Seq(Messages) /\ Len(b) = Len(c) + Len(v)
          /\ \A k \in 1 .. Len(c) + Len(v) : b[k] = IF k <= Len(c) THEN c[k] ELSE v[k - Len(c)]
      BY <2>3, <2>7, ConcatProperties
    <3>2. Len(c) + Len(v) = n + l
      BY <2>1, <2>3, <2>5, <2>7
    <3> QED BY <2>7, <3>1, <3>2
  <2> HIDE DEF b
  <2>10. ASSUME NEW k \in 1 .. n + l PROVE a[k] = b[k]
    <3>1. CASE k <= n
      <4>1. k \in 1 .. n /\ k <= n + 1
        BY <2>5, <3>1
      <4> QED BY <2>7, <2>8, <2>9, <3>1, <4>1
    <3>2. CASE k = n + 1
      <4>1. ~(k <= n) /\ k <= n + 1 /\ k - n = 1
        BY <2>5, <3>2
      <4> QED BY <2>4, <2>7, <2>8, <2>9, <3>2, <4>1
    <3>3. CASE k > n + 1
      <4>1. ~(k <= n) /\ ~(k <= n + 1) /\ k - (n + 1) \in 1 .. l - 1 /\ (k - (n + 1)) + 1 = k - n
        BY <2>1, <2>5, <3>3
      <4> QED BY <2>6, <2>8, <2>9, <4>1
    <3> QED BY <2>1, <2>5, <3>1, <3>2, <3>3
  <2>11. a = b
    BY <2>8, <2>9, <2>10, SeqEqual
  <2> QED BY <2>11 DEF a, b, c, u, v, x
<1>2. ms \o Users(<< >>) = ms
  <2>1. Users(<< >>) \in Seq(Messages) /\ Len(Users(<< >>)) = 0
    <3> DEFINE e == << >>
    <3>1. e \in Seq(Msgs) /\ Len(e) = 0
      OBVIOUS
    <3> HIDE DEF e
    <3>2. Users(e) \in Seq(Messages) /\ Len(Users(e)) = Len(e)
      BY <3>1, UsersFacts
    <3> QED BY <3>1, <3>2 DEF e
  <2>2. Users(<< >>) = << >>
    BY <2>1
  <2> QED BY <2>2
<1> QED BY <1>1, <1>2

(* Steps that change neither transcript nor context nor the prompts: where
   they may lead. *)
Passes ==
  /\ UNCHANGED <<messages, context, start, pending, aborted>>
  /\ pc \in Turning /\ pc' \in Turning

(* Steps that end the run, for the properties of its requests. *)
Leaves == pc' \notin Turning \cup {"prompts", "tools"}

(* A step of the loop that does not touch the transcript. *)
LEMMA PassingSteps ==
  ASSUME \/ Request \/ TurnEnd \/ StopResumes \/ NoContinuation \/ PollSteering \/ PollFollowUp
         \/ PollRejected \/ Steered \/ Followed \/ AgentEnd \/ HandleRunFailure \/ FinishRun
         \/ Throws \/ AbortedReply \/ ErrorReply \/ \E i \in DOMAIN calls : FinishCallThrows(i)
  PROVE  Passes \/ Leaves
<1> USE DEF Turning, Waits, Leaves
<1>1. CASE Request
  BY <1>1 DEF Request, Unmoved, Passes
<1>2. CASE TurnEnd \/ StopResumes \/ NoContinuation
  BY <1>2 DEF TurnEnd, StopResumes, NoContinuation, Quiet, Unmoved, Passes
<1>3. CASE PollSteering \/ PollFollowUp
  BY <1>3 DEF PollSteering, PollFollowUp, Quiet, Unmoved, Passes
<1>4. CASE PollRejected
  BY <1>4 DEF PollRejected
<1>5. CASE Steered \/ Followed
  BY <1>5 DEF Steered, Followed, BeginTurn, Quiet, Unmoved, Passes
<1>6. CASE \/ AgentEnd \/ HandleRunFailure \/ FinishRun \/ Throws \/ AbortedReply \/ ErrorReply
           \/ \E i \in DOMAIN calls : FinishCallThrows(i)
  BY <1>6 DEF AgentEnd, HandleRunFailure, FinishRun, Throws, AbortedReply, ErrorReply, EndingReply,
              FinishCallThrows
<1> QED BY <1>1, <1>2, <1>3, <1>4, <1>5, <1>6

(* Resuming from a poll, or with a continuation, changes the messages in hand
   only. *)
LEMMA ResumingSteps ==
  ASSUME PollResolved \/ \E b \in Batches : Continuation(b)
  PROVE  Leaves \/ (/\ UNCHANGED <<messages, context, start, aborted>>
                    /\ pc \in Turning /\ pc' \in Turning)
<1> USE DEF Turning, Waits, Leaves
<1>1. CASE \E b \in Batches : Continuation(b)
  BY <1>1 DEF Continuation, BeginTurn
<1>2. CASE PollResolved
  <2>1. pc \in Waits /\ UNCHANGED <<messages, context, start, aborted>>
    BY <1>2 DEF PollResolved, Quiet, Unmoved
  <2>2. CASE pc = "initialWait"
    BY <1>2, <2>1, <2>2 DEF PollResolved, BeginTurn
  <2>3. CASE pc = "steeringWait"
    BY <1>2, <2>1, <2>3 DEF PollResolved
  <2>4. CASE pc = "followUpWait"
    BY <1>2, <2>1, <2>4 DEF PollResolved
  <2> QED BY <2>1, <2>2, <2>3, <2>4
<1> QED BY <1>1, <1>2

(* The context keeps up with the transcript. *)
LEMMA ContextStep ==
  ASSUME Typed, SameContext, Next
  PROVE  SameContext'
<1>0. /\ messages \in Seq(Messages) /\ context \in Seq(Messages) /\ pending \in Seq(Msgs)
      /\ results \in Nat /\ MaxCalls \in Nat /\ ToolModes \subseteq BOOLEAN
  BY LoopAssumption DEF Typed, Texts, Hands, Tools
<1> DEFINE Same == /\ pc' = "prompts" => context' = messages' \o Users(pending')
                   /\ pc' \in Turning => context' = messages'
                   /\ pc' = "tools" => messages' = context' \o ResultsTo(results')
<1>1. Same => SameContext'
  BY DEF SameContext, ResultsTo
<1>2. /\ pc = "prompts" => context = messages \o Users(pending)
      /\ pc \in Turning => context = messages
      /\ pc = "tools" => messages = context \o ResultsTo(results)
  BY DEF SameContext, ResultsTo
<1>3. "prompts" \notin Turning /\ "tools" \notin Turning
  BY DEF Turning, Waits
<1> HIDE DEF Same
<1>4. CASE (\E b \in Batches : Prompt(b)) \/ Continue
  <2>1. PICK ps \in Seq(Msgs), b \in BOOLEAN : RunWithLifecycle(ps, b)
    BY <1>4, RunBegins DEF Typed
  <2>2. pc' = "prompts" /\ context' = messages \o Users(ps) /\ pending' = ps /\ messages' = messages
    BY <2>1 DEF RunWithLifecycle
  <2> QED BY <1>1, <1>3, <2>2 DEF Same
<1>5. ASSUME UNCHANGED <<pc, messages, context, pending, results>> PROVE SameContext'
  BY <1>1, <1>2, <1>5 DEF Same
<1>6. CASE \/ \E b \in Batches : Steer(b) \/ FollowUp(b)
           \/ ClearAllQueues \/ Abort \/ OrphanFinishes \/ \E m \in Msgs : RemoveQueuedMessages(m)
  BY <1>5, <1>6 DEF Steer, FollowUp, ClearAllQueues, Abort, OrphanFinishes, RemoveQueuedMessages, loop
<1>7. CASE EmitPrompt
  <2>1. /\ pc = "prompts" /\ pc' = "prompts" /\ pending # << >> /\ pending' = Tail(pending)
        /\ messages' = Append(messages, User(Head(pending))) /\ UNCHANGED context
    BY <1>7 DEF EmitPrompt
  <2>2. messages \o Users(pending) = messages' \o Users(pending')
    BY <1>0, <2>1, UsersShift
  <2>3. context' = messages' \o Users(pending')
    BY <1>2, <2>1, <2>2
  <2> QED BY <1>1, <1>3, <2>1, <2>3 DEF Same
<1>8. CASE InitialPoll
  <2>1. /\ pc = "prompts" /\ pc' = "initialWait" /\ pending = << >>
        /\ UNCHANGED <<messages, context>>
    BY <1>8 DEF InitialPoll
  <2>2. context = messages
    BY <1>0, <1>2, <2>1, UsersShift
  <2> QED BY <1>1, <2>1, <2>2 DEF Same
<1>9. CASE Inject
  <2>1. /\ pc = "inject" /\ pc' = "inject"
        /\ messages' = Append(messages, User(Head(pending)))
        /\ context' = Append(context, User(Head(pending)))
    BY <1>9 DEF Inject
  <2>2. pc \in Turning
    BY <2>1 DEF Turning
  <2>3. context' = messages'
    BY <1>2, <2>1, <2>2
  <2> QED BY <1>1, <2>1, <2>3 DEF Same
<1>10. ASSUME NEW n \in 0 .. MaxCalls, Reply(n) PROVE SameContext'
  <2>1. PICK q \in BOOLEAN : Answer("stop", n, q)
    BY <1>0, <1>10 DEF Reply
  <2>2. /\ pc = "streaming" /\ messages' = Append(messages, Assistant("stop", n, q))
        /\ context' = Append(context, Assistant("stop", n, q)) /\ results' = 0
        /\ pc' \in {"tools", "turnEnd"}
    BY <1>10, <2>1 DEF Answer, Reply
  <2>3. context' = messages' /\ Assistant("stop", n, q) \in Messages
    BY <1>0, <1>2, <2>2, MessageTypes DEF Turning
  <2>4. context' \in Seq(Messages)
    BY <1>0, <2>2, <2>3
  <2>5. context' \o ResultsTo(0) = context'
    <3>1. 0 \in Nat
      OBVIOUS
    <3>2. ResultsTo(0) = << >>
      BY <3>1, ResultsFacts
    <3> QED BY <2>4, <3>2
  <2> QED BY <1>1, <2>2, <2>3, <2>5 DEF Same
<1>11. CASE StartCall \/ \E i \in DOMAIN calls : FinishCall(i)
  BY <1>5, <1>11 DEF StartCall, FinishCall, Executing
<1>12. CASE EmitResult
  <2>1. /\ pc = "tools" /\ pc' = "tools" /\ results' = results + 1 /\ UNCHANGED context
        /\ messages' = Append(messages, Result(results + 1))
    BY <1>12 DEF EmitResult, Executing
  <2> DEFINE r == ResultsTo(results)
             x == Result(results + 1)
  <2>2. r \in Seq(Messages) /\ x \in Messages /\ Append(r, x) = ResultsTo(results + 1)
    <3>1. results \in Nat /\ results + 1 \in Nat
      BY <1>0
    <3>2. x \in Messages
      BY <3>1, MessageTypes
    <3>3. r \in Seq(Messages) /\ Append(r, x) = ResultsTo(results + 1)
      BY <3>1, ResultsFacts
    <3> QED BY <3>2, <3>3
  <2>3. messages' = Append(context \o r, x)
    BY <1>2, <2>1
  <2> HIDE DEF r, x
  <2>4. Append(context \o r, x) = context \o Append(r, x)
    <3> DEFINE u == Append(r, x)
               c == context
    <3>1. c \in Seq(Messages) /\ u = r \o <<x>> /\ <<x>> \in Seq(Messages)
      BY <1>0, <2>2, AppendIsConcat
    <3>2. c \o r \in Seq(Messages)
      BY <2>2, <3>1
    <3>3. Append(c \o r, x) = (c \o r) \o <<x>>
      BY <2>2, <3>2, AppendIsConcat
    <3>4. (c \o r) \o <<x>> = c \o (r \o <<x>>)
      BY <2>2, <3>1, ConcatAssociative
    <3> QED BY <3>1, <3>3, <3>4
  <2> QED BY <1>1, <1>3, <2>1, <2>2, <2>3, <2>4 DEF Same
<1>13. CASE TakeResults
  <2>1. /\ pc = "tools" /\ pc' = "turnEnd" /\ UNCHANGED messages
        /\ context' = context \o ResultsTo(results)
    BY <1>13 DEF TakeResults, Executing, ResultsTo
  <2>2. context' = messages'
    BY <1>2, <2>1
  <2> QED BY <1>1, <2>1, <2>2 DEF Same
<1>14. CASE \/ Request \/ TurnEnd \/ StopResumes \/ NoContinuation \/ PollSteering \/ PollFollowUp
            \/ PollRejected \/ Steered \/ Followed \/ AgentEnd \/ HandleRunFailure \/ FinishRun
            \/ Throws \/ AbortedReply \/ ErrorReply \/ PollResolved
            \/ (\E i \in DOMAIN calls : FinishCallThrows(i)) \/ \E b \in Batches : Continuation(b)
  <2>1. Leaves \/ (UNCHANGED <<messages, context>> /\ pc \in Turning /\ pc' \in Turning)
    BY <1>14, PassingSteps, ResumingSteps DEF Passes
  <2> QED BY <1>1, <1>2, <1>3, <2>1 DEF Same, Leaves
<1> QED BY <1>4, <1>6, <1>7, <1>8, <1>9, <1>10, <1>11, <1>12, <1>13, <1>14
        DEF Next, Caller, Own, Awaited, External

(* An answer makes a number of calls. *)
LEMMA AnswerCalls ==
  ASSUME NEW ms \in Seq(Messages), NEW k \in 1 .. Len(ms), ms[k].role = "assistant"
  PROVE  ms[k].calls \in Nat
<1>1. ms[k] \in Messages
  OBVIOUS
<1> QED BY <1>1 DEF Messages

(* Whether the answers up to a place have their results there depends on the
   messages up to that place. *)
LEMMA AnsweredPrefix ==
  ASSUME NEW ms \in Seq(Messages), NEW m \in Nat, NEW n \in 0 .. Len(ms), NEW t,
         \A k \in 1 .. n : t[k] = ms[k], Answered(ms, m, n)
  PROVE  Answered(t, m, n)
<1> SUFFICES ASSUME NEW k \in (m + 1) .. n, t[k].role = "assistant"
             PROVE  k + t[k].calls <= n /\ \A i \in 1 .. t[k].calls : t[k + i] = Result(i)
  BY DEF Answered
<1>1. k \in 1 .. n /\ k \in 1 .. Len(ms)
  OBVIOUS
<1>2. t[k] = ms[k]
  BY <1>1
<1>3. ms[k].calls \in Nat
  BY <1>1, <1>2, AnswerCalls
<1>4. k + ms[k].calls <= n /\ \A i \in 1 .. ms[k].calls : ms[k + i] = Result(i)
  BY <1>2 DEF Answered
<1>5. ASSUME NEW i \in 1 .. ms[k].calls PROVE t[k + i] = Result(i)
  <2>1. k + i \in 1 .. n
    BY <1>1, <1>3, <1>4
  <2> QED BY <1>4, <2>1
<1> QED BY <1>2, <1>4, <1>5

(* A message that makes no calls leaves all calls answered. *)
LEMMA AnsweredAppend ==
  ASSUME NEW ms \in Seq(Messages), NEW m \in Nat, NEW x \in Messages,
         x.role = "assistant" => x.calls = 0, Answered(ms, m, Len(ms))
  PROVE  Answered(Append(ms, x), m, Len(Append(ms, x)))
<1> DEFINE t == Append(ms, x)
           n == Len(ms)
<1>1. n \in Nat /\ n \in 0 .. Len(ms) /\ Len(t) = n + 1 /\ t[n + 1] = x
  OBVIOUS
<1>2. \A k \in 1 .. n : t[k] = ms[k]
  OBVIOUS
<1> HIDE DEF t, n
<1>3. Answered(t, m, n)
  BY <1>1, <1>2, AnsweredPrefix DEF n
<1>4. ASSUME NEW k \in (m + 1) .. (n + 1), t[k].role = "assistant"
      PROVE  k + t[k].calls <= n + 1 /\ \A i \in 1 .. t[k].calls : t[k + i] = Result(i)
  <2>1. CASE k = n + 1
    <3>1. t[k].calls = 0
      BY <1>1, <1>4, <2>1
    <3>2. k + 0 <= n + 1 /\ 1 .. 0 = {}
      BY <1>1, <2>1
    <3> QED BY <3>1, <3>2
  <2>2. CASE k # n + 1
    <3>1. k \in (m + 1) .. n /\ k \in 1 .. Len(ms)
      BY <1>1, <2>2 DEF n
    <3>2. k + t[k].calls <= n /\ \A i \in 1 .. t[k].calls : t[k + i] = Result(i)
      BY <1>3, <1>4, <3>1 DEF Answered
    <3>3. t[k].calls \in Nat
      <4>1. t[k] = ms[k]
        BY <1>2, <3>1 DEF n
      <4> QED BY <1>4, <3>1, <4>1, AnswerCalls
    <3>4. k + t[k].calls <= n + 1
      BY <1>1, <3>1, <3>2, <3>3
    <3> QED BY <3>2, <3>4
  <2> QED BY <2>1, <2>2
<1>5. Answered(t, m, n + 1)
  BY <1>4 DEF Answered
<1> QED BY <1>1, <1>5 DEF t

(* The results of an answer's calls, appended in order, answer them. *)
LEMMA AnsweredResults ==
  ASSUME NEW c \in Seq(Messages), NEW m \in Nat, NEW r \in Nat, Len(c) > m,
         c[Len(c)].role = "assistant", c[Len(c)].calls = r, Answered(c, m, Len(c) - 1)
  PROVE  Answered(c \o ResultsTo(r), m, Len(c \o ResultsTo(r)))
<1> DEFINE n == Len(c)
           w == ResultsTo(r)
           t == c \o w
<1>1. n \in Nat /\ n >= 1 /\ n - 1 \in 0 .. Len(c)
  OBVIOUS
<1>2. w \in Seq(Messages) /\ Len(w) = r /\ \A i \in 1 .. r : w[i] = Result(i)
  BY ResultsFacts
<1> HIDE DEF w
<1>3. /\ Len(t) = Len(c) + Len(w)
      /\ \A i \in 1 .. Len(c) + Len(w) : t[i] = IF i <= Len(c) THEN c[i] ELSE w[i - Len(c)]
  BY <1>2, ConcatProperties
<1> HIDE DEF t
<1>4. \A k \in 1 .. n : t[k] = c[k]
  BY <1>1, <1>2, <1>3
<1>5. \A i \in 1 .. r : t[n + i] = Result(i)
  <2> SUFFICES ASSUME NEW i \in 1 .. r PROVE t[n + i] = Result(i)
    OBVIOUS
  <2>1. n + i \in 1 .. Len(c) + Len(w) /\ ~(n + i <= Len(c)) /\ (n + i) - Len(c) = i
    BY <1>1, <1>2
  <2> QED BY <1>2, <1>3, <2>1
<1>6. Answered(t, m, n - 1)
  <2>1. \A k \in 1 .. n - 1 : t[k] = c[k]
    BY <1>1, <1>4
  <2> QED BY <1>1, <2>1, AnsweredPrefix
<1>7. Len(t) = n + r
  BY <1>2, <1>3
<1>8. n > m /\ c[n].role = "assistant" /\ c[n].calls = r
  OBVIOUS
<1> HIDE DEF n
<1>9. ASSUME NEW k \in (m + 1) .. (n + r), t[k].role = "assistant"
      PROVE  k + t[k].calls <= n + r /\ \A i \in 1 .. t[k].calls : t[k + i] = Result(i)
  <2>1. CASE k = n
    <3>1. t[k].calls = r
      BY <1>1, <1>4, <1>8, <2>1
    <3> QED BY <1>1, <1>5, <2>1, <3>1
  <2>2. CASE k > n
    <3>1. k - n \in 1 .. r /\ n + (k - n) = k
      BY <1>1, <2>2
    <3>2. t[k] = Result(k - n)
      BY <1>5, <3>1
    <3>3. Result(k - n).role = "toolResult"
      BY <3>1, MessageTypes
    <3> QED BY <1>9, <3>2, <3>3
  <2>3. CASE k < n
    <3>1. k \in (m + 1) .. (n - 1) /\ k \in 1 .. n
      BY <1>1, <2>3
    <3>2. k + t[k].calls <= n - 1 /\ \A i \in 1 .. t[k].calls : t[k + i] = Result(i)
      BY <1>6, <1>9, <3>1 DEF Answered
    <3>3. t[k].calls \in Nat
      <4>1. t[k] = c[k]
        BY <1>4, <3>1
      <4> QED BY <1>9, <3>1, <4>1, AnswerCalls DEF n
    <3>4. k + t[k].calls <= n + r
      BY <1>1, <3>1, <3>2, <3>3
    <3> QED BY <3>2, <3>4
  <2> QED BY <1>1, <2>1, <2>2, <2>3
<1>10. Answered(t, m, n + r)
  BY <1>9 DEF Answered
<1> QED BY <1>7, <1>10 DEF t, w

(* CallsAnswered, part by part. *)
TurnAnswered(p, ab, ms, s) ==
  p \in Turning \cup {"prompts"} /\ ~ab => Answered(ms, s, Len(ms))
BatchOpen(p, ctx, s, cs) ==
  p = "tools" =>
    /\ Len(ctx) > s /\ ctx[Len(ctx)].role = "assistant" /\ ctx[Len(ctx)].calls = Len(cs)
    /\ Answered(ctx, s, Len(ctx) - 1)

(* A run goes on only when the calls of its answers have their results. *)
LEMMA AnsweredStep ==
  ASSUME Typed, SameContext, CallsAnswered, Next
  PROVE  CallsAnswered'
<1>0. /\ messages \in Seq(Messages) /\ context \in Seq(Messages) /\ pending \in Seq(Msgs)
      /\ start \in Nat /\ start <= Len(messages) /\ calls \in Seq(CallStates)
      /\ results \in Nat /\ MaxCalls \in Nat /\ ToolModes \subseteq BOOLEAN
  BY LoopAssumption DEF Typed, Texts, Hands, Tools
<1> DEFINE T == TurnAnswered(pc, aborted, messages, start)
           B == BatchOpen(pc, context, start, calls)
           TT == TurnAnswered(pc', aborted', messages', start')
           BB == BatchOpen(pc', context', start', calls')
<1>1. TT /\ BB => CallsAnswered'
  BY DEF CallsAnswered, TurnAnswered, BatchOpen, Answered
<1>2. T /\ B
  BY DEF CallsAnswered, TurnAnswered, BatchOpen
<1>3. /\ pc \in Turning => context = messages
      /\ pc = "tools" => messages = context \o ResultsTo(results)
  BY DEF SameContext, ResultsTo
<1>4. "prompts" \notin Turning /\ "tools" \notin Turning
  BY DEF Turning, Waits
<1>5. pc' # "tools" => BB
  BY DEF BatchOpen
<1>6. pc' \notin Turning \cup {"prompts"} => TT
  BY DEF TurnAnswered
<1>7. ASSUME UNCHANGED <<context, start>>, Len(calls') = Len(calls), pc = "tools" PROVE BB
  BY <1>2, <1>7 DEF BatchOpen
<1>8. ASSUME UNCHANGED <<messages, start>>, ~aborted' => ~aborted, pc \in Turning \cup {"prompts"}
      PROVE  TT
  BY <1>2, <1>8 DEF TurnAnswered
<1> HIDE DEF T, B, TT, BB
<1>9. CASE (\E b \in Batches : Prompt(b)) \/ Continue
  <2>1. PICK ps \in Seq(Msgs), b \in BOOLEAN : RunWithLifecycle(ps, b)
    BY <1>9, RunBegins DEF Typed
  <2>2. pc' = "prompts" /\ start' = Len(messages) /\ messages' = messages
    BY <2>1 DEF RunWithLifecycle
  <2>3. Len(messages) \in Nat /\ (Len(messages) + 1) .. Len(messages) = {}
    BY <1>0
  <2>4. Answered(messages', start', Len(messages'))
    BY <2>2, <2>3 DEF Answered
  <2>5. TT
    BY <2>4 DEF TT, TurnAnswered
  <2> QED BY <1>1, <1>5, <2>2, <2>5
<1>10. CASE \/ \E b \in Batches : Steer(b) \/ FollowUp(b)
            \/ ClearAllQueues \/ Abort \/ OrphanFinishes \/ \E m \in Msgs : RemoveQueuedMessages(m)
  <2>1. /\ UNCHANGED <<pc, messages, context, start, calls>> /\ (~aborted' => ~aborted)
    BY <1>10 DEF Steer, FollowUp, ClearAllQueues, Abort, OrphanFinishes, RemoveQueuedMessages, loop
  <2> QED BY <1>1, <1>5, <1>6, <1>7, <1>8, <2>1
<1>11. CASE EmitPrompt \/ Inject
  <2>1. /\ pc \in {"prompts", "inject"} /\ pc' = pc /\ pending # << >> /\ UNCHANGED <<start, aborted>>
        /\ messages' = Append(messages, User(Head(pending)))
    BY <1>11 DEF EmitPrompt, Inject, Unmoved
  <2> DEFINE x == User(Head(pending))
  <2>2. x \in Messages /\ x.role # "assistant"
    <3>1. Head(pending) \in Msgs
      BY <1>0, <2>1
    <3> QED BY <3>1, MessageTypes
  <2> HIDE DEF x
  <2>3. ASSUME ~aborted PROVE Answered(messages', start', Len(messages'))
    <3>1. Answered(messages, start, Len(messages))
      BY <1>2, <2>1, <2>3 DEF T, TurnAnswered, Turning
    <3> QED BY <1>0, <2>1, <2>2, <3>1, AnsweredAppend DEF x
  <2>4. TT
    BY <2>1, <2>3 DEF TT, TurnAnswered
  <2> QED BY <1>1, <1>5, <2>1, <2>4
<1>12. CASE InitialPoll
  <2>1. pc = "prompts" /\ pc' = "initialWait" /\ UNCHANGED <<messages, start, aborted>>
    BY <1>12 DEF InitialPoll, Unmoved
  <2> QED BY <1>1, <1>5, <1>8, <2>1
<1>13. ASSUME NEW n \in 0 .. MaxCalls, Reply(n) PROVE CallsAnswered'
  <2>1. PICK q \in BOOLEAN : Answer("stop", n, q)
    BY <1>0, <1>13 DEF Reply
  <2> DEFINE x == Assistant("stop", n, q)
  <2>2. /\ pc = "streaming" /\ messages' = Append(messages, x) /\ context' = Append(context, x)
        /\ ~aborted /\ UNCHANGED <<start, aborted>> /\ calls' = [i \in 1 .. n |-> "new"]
        /\ pc' = IF n > 0 THEN "tools" ELSE "turnEnd"
    BY <1>13, <2>1 DEF Answer, Reply, Unmoved
  <2>3. n \in Nat /\ x \in Messages /\ x.role = "assistant" /\ x.calls = n
    <3>1. n \in Nat
      BY <1>0
    <3> QED BY <3>1, MessageTypes
  <2> HIDE DEF x
  <2>4. context = messages /\ Answered(messages, start, Len(messages))
    BY <1>2, <1>3, <2>2 DEF T, TurnAnswered, Turning
  <2>5. CASE n = 0
    <3>1. Answered(messages', start', Len(messages'))
      BY <1>0, <2>2, <2>3, <2>4, <2>5, AnsweredAppend
    <3>2. TT
      BY <3>1 DEF TT, TurnAnswered
    <3> QED BY <1>1, <1>5, <2>2, <2>5, <3>2
  <2>6. CASE n > 0
    <3> DEFINE m == Len(messages)
               t == Append(messages, x)
    <3>1. m \in 0 .. Len(messages) /\ Len(t) = m + 1 /\ t[m + 1] = x /\ \A k \in 1 .. m : t[k] = messages[k]
      BY <1>0, <2>3
    <3>2. (m + 1) - 1 = m /\ m + 1 > start
      BY <1>0
    <3> HIDE DEF t
    <3>3. Answered(t, start, m)
      BY <1>0, <2>4, <3>1, AnsweredPrefix
    <3>4. Len(calls') = n
      <4>1. calls' \in Seq(CallStates)
        BY <1>13, TypedStep DEF Typed, Tools, Next, External
      <4>2. DOMAIN calls' = 1 .. n
        BY <2>2
      <4> QED BY <2>3, <4>1, <4>2
    <3>5. context' = t /\ start' = start
      BY <2>2, <2>4 DEF t
    <3> HIDE DEF m
    <3>6. BB
      BY <2>3, <3>1, <3>2, <3>3, <3>4, <3>5 DEF BB, BatchOpen
    <3>7. pc' = "tools"
      BY <2>2, <2>6
    <3> QED BY <1>1, <1>4, <1>6, <3>6, <3>7
  <2> QED BY <2>3, <2>5, <2>6
<1>14. CASE StartCall \/ \E i \in DOMAIN calls : FinishCall(i)
  <2>1. /\ pc = "tools" /\ pc' = "tools" /\ UNCHANGED <<context, start>>
        /\ \E i, s : calls' = [calls EXCEPT ![i] = s]
    BY <1>14 DEF StartCall, FinishCall, Executing
  <2>2. Len(calls') = Len(calls)
    <3>1. calls' \in Seq(CallStates)
      BY <1>14, TypedStep DEF Typed, Tools
    <3>2. DOMAIN calls' = DOMAIN calls
      BY <2>1
    <3> QED BY <1>0, <3>1, <3>2
  <2> QED BY <1>1, <1>4, <1>6, <1>7, <2>1, <2>2
<1>15. CASE EmitResult
  <2>1. pc = "tools" /\ pc' = "tools" /\ UNCHANGED <<context, start, calls>>
    BY <1>15 DEF EmitResult, Executing
  <2> QED BY <1>1, <1>4, <1>6, <1>7, <2>1
<1>16. CASE TakeResults
  <2>1. /\ pc = "tools" /\ pc' = "turnEnd" /\ UNCHANGED <<messages, start, aborted>>
        /\ results = Len(calls) \/ aborted
    BY <1>16 DEF TakeResults, Executing, Unmoved
  <2>2. ASSUME ~aborted PROVE Answered(messages, start, Len(messages))
    <3>1. /\ Len(context) > start /\ context[Len(context)].role = "assistant"
          /\ context[Len(context)].calls = results /\ Answered(context, start, Len(context) - 1)
      BY <1>2, <2>1, <2>2 DEF B, BatchOpen
    <3>2. Answered(context \o ResultsTo(results), start, Len(context \o ResultsTo(results)))
      BY <1>0, <3>1, AnsweredResults
    <3> QED BY <1>3, <2>1, <3>2
  <2>3. TT
    BY <2>1, <2>2 DEF TT, TurnAnswered
  <2> QED BY <1>1, <1>5, <2>1, <2>3
<1>17. CASE \/ Request \/ TurnEnd \/ StopResumes \/ NoContinuation \/ PollSteering \/ PollFollowUp
            \/ PollRejected \/ Steered \/ Followed \/ AgentEnd \/ HandleRunFailure \/ FinishRun
            \/ Throws \/ AbortedReply \/ ErrorReply \/ PollResolved
            \/ (\E i \in DOMAIN calls : FinishCallThrows(i)) \/ \E b \in Batches : Continuation(b)
  <2>1. Leaves \/ (UNCHANGED <<messages, start, aborted>> /\ pc \in Turning /\ pc' \in Turning)
    BY <1>17, PassingSteps, ResumingSteps DEF Passes
  <2>2. CASE Leaves
    BY <1>1, <1>5, <1>6, <2>2 DEF Leaves
  <2>3. CASE UNCHANGED <<messages, start, aborted>> /\ pc \in Turning /\ pc' \in Turning
    BY <1>1, <1>4, <1>5, <1>8, <2>3
  <2> QED BY <2>1, <2>2, <2>3
<1> QED BY <1>9, <1>10, <1>11, <1>12, <1>13, <1>14, <1>15, <1>16, <1>17
        DEF Next, Caller, Own, Awaited, External

-----------------------------------------------------------------------------
(* The theorems *)

(* The loop begins with nothing in its hands. *)
LEMMA LoopInitial ==
  ASSUME Init
  PROVE  LoopInv
<1>1. MaxRuns \in Nat /\ MaxCalls \in Nat
  BY LoopAssumption
<1>2. Controls
  <2>1. pc \in Points /\ pc = "idle" /\ runs = 0 /\ ~aborted
    BY DEF Init, Points
  <2>2. 0 \in Nat /\ 0 <= MaxRuns
    BY <1>1
  <2>3. /\ aborted \in BOOLEAN /\ skip \in BOOLEAN /\ hasMore \in BOOLEAN
        /\ ended \in BOOLEAN /\ late \in BOOLEAN
    BY DEF Init
  <2> QED BY <2>1, <2>2, <2>3 DEF Controls
<1>3. Hands
  BY DEF Init, Hands, Operations
<1>4. Texts
  BY DEF Init, Texts
<1>5. Tools
  BY <1>1 DEF Init, Tools
<1>6. TypeOK /\ LoopTypes
  BY <1>2, <1>3, <1>4, <1>5, TypedFacts DEF Typed
<1>7. InHand /\ SameContext /\ CallsAnswered
  BY DEF Init, InHand, SameContext, CallsAnswered, Turning, Waits, Range
<1>8. NothingLost
  <2>1. \A op \in DOMAIN sent : DOMAIN sent[op] = {}
    BY DEF Init
  <2>2. Accepted = {}
    BY <2>1 DEF Accepted
  <2> QED BY <2>2 DEF NothingLost
<1> QED BY <1>6, <1>7, <1>8 DEF LoopInv

(* Every step, and a stuttering one, keeps the invariant. *)
LEMMA LoopStep ==
  ASSUME LoopInv, [Next]_vars
  PROVE  LoopInv'
<1>1. Typed /\ InHand /\ SameContext /\ CallsAnswered /\ NothingLost
  BY TypedFacts DEF LoopInv
<1>2. CASE Next
  <2>1. Typed' /\ InHand' /\ SameContext' /\ CallsAnswered' /\ NothingLost'
    BY <1>1, <1>2, TypedStep, InHandStep, ContextStep, AnsweredStep, LostStep
  <2> QED BY <2>1, TypedFacts DEF LoopInv
<1>3. CASE UNCHANGED vars
  <2>1. UNCHANGED <<pc, skip, pending, drained, context, start, calls, results, hasMore, ended,
                    steering, followUp, sent, removed, spoiled, aborted, messages, orphans, runs,
                    late>>
    BY <1>3 DEF vars, loop, queues, history
  <2>2. Typed'
    BY <1>1, <2>1 DEF Typed, Controls, Hands, Texts, Tools
  <2>3. InHand'
    BY <1>1, <2>1 DEF InHand
  <2>4. SameContext'
    BY <1>1, <2>1 DEF SameContext, Users
  <2>5. CallsAnswered'
    BY <1>1, <2>1 DEF CallsAnswered, Answered
  <2>6. NothingLost'
    BY <1>1, <2>1 DEF NothingLost, Accepted, Queued, InTranscript
  <2> QED BY <2>2, <2>3, <2>4, <2>5, <2>6, TypedFacts DEF LoopInv
<1> QED BY <1>2, <1>3

(* The inductive invariant holds throughout: every message given to the loop
   is accounted for, the context follows the transcript, and the calls of
   each answer get their results before the run goes on. *)
THEOREM LoopInvariance == Spec => []LoopInv
<1>1. Init => LoopInv
  BY LoopInitial
<1>2. LoopInv /\ [Next]_vars => LoopInv'
  BY LoopStep
<1> QED BY <1>1, <1>2, PTL DEF Spec

(* The variables of the loop hold what the code can hold there. *)
THEOREM LoopTyped == Spec => []TypeOK
<1>1. LoopInv => TypeOK
  BY DEF LoopInv
<1> QED BY <1>1, LoopInvariance, PTL

(* No message handed to prompt, steer or followUp disappears: it is queued,
   in hand or in the transcript, unless it was taken back or the loop held it
   when it was aborted or threw. *)
THEOREM NoMessageLost == Spec => []NothingLost
<1>1. LoopInv => NothingLost
  BY DEF LoopInv
<1> QED BY <1>1, LoopInvariance, PTL

(* streamAssistantResponse sends the transcript, in which every tool call of
   the run's answers has its result right behind it. *)
THEOREM RequestsAreComplete == Spec => []RequestsComplete
<1>1. LoopInv => RequestsComplete
  <2> SUFFICES ASSUME LoopInv, pc = "streaming", ~aborted
               PROVE  /\ context = messages
                      /\ \A k \in (start + 1) .. Len(messages) :
                           messages[k].role = "assistant" =>
                             /\ k + messages[k].calls < Len(messages) + 1
                             /\ \A i \in 1 .. messages[k].calls : messages[k + i] = Result(i)
    BY DEF RequestsComplete
  <2>1. /\ messages \in Seq(Messages) /\ start \in Nat /\ context = messages
        /\ Answered(messages, start, Len(messages))
    BY TypedFacts DEF LoopInv, Typed, Texts, SameContext, CallsAnswered, Turning
  <2>2. ASSUME NEW k \in (start + 1) .. Len(messages), messages[k].role = "assistant"
        PROVE  /\ k + messages[k].calls < Len(messages) + 1
               /\ \A i \in 1 .. messages[k].calls : messages[k + i] = Result(i)
    <3>1. /\ k + messages[k].calls <= Len(messages)
          /\ \A i \in 1 .. messages[k].calls : messages[k + i] = Result(i)
      BY <2>1, <2>2 DEF Answered
    <3>2. k \in 1 .. Len(messages)
      BY <2>1
    <3>3. messages[k].calls \in Nat
      BY <2>1, <2>2, <3>2, AnswerCalls
    <3>4. k + messages[k].calls < Len(messages) + 1
      BY <2>1, <3>1, <3>2, <3>3
    <3> QED BY <3>1, <3>4
  <2> QED BY <2>1, <2>2
<1> QED BY <1>1, LoopInvariance, PTL

-----------------------------------------------------------------------------
(* Order *)

(* Where the places of f come from: place x is place v[x] of the sequence
   ss[w[x]], in the order of the sequences. *)
Layout(f, ss, n, w, v) ==
  /\ \A x \in 1 .. Len(f) :
       w[x] \in 1 .. n /\ v[x] \in 1 .. Len(ss[w[x]]) /\ f[x] = ss[w[x]][v[x]]
  /\ \A x, y \in 1 .. Len(f) :
       x < y => w[x] < w[y] \/ (w[x] = w[y] /\ v[x] + y = v[y] + x)

(* Every sequence put together from others is laid out this way. *)
LEMMA FlattenLayout ==
  ASSUME NEW T, NEW ss \in Seq(Seq(T)), Len(ss) # 0
  PROVE  \E w, v : Layout(FlattenSeq(ss), ss, Len(ss), w, v)
<1> DEFINE L == Len(ss)
<1>0. L \in Nat /\ L >= 1 /\ (\A i \in 1 .. L : ss[i] \in Seq(T)) /\ Len(ss) # 0
  OBVIOUS
<1>1. PICK h : Piles(h, ss, L) /\ FlattenSeq(ss) = h[L]
  BY <1>0, FlattenPiles
<1>2. /\ h[1] = ss[1]
      /\ \A i \in 2 .. L : h[i] = h[i - 1] \o ss[i]
  BY <1>1 DEF Piles, Joined
<1> HIDE DEF L
<1> DEFINE Good(i) == h[i] \in Seq(T) /\ \E w, v : Layout(h[i], ss, i, w, v)
           I == {i \in 1 .. L : ~Good(i)}
<1>3. Good(1)
  <2> DEFINE w == [x \in 1 .. Len(h[1]) |-> 1]
             v == [x \in 1 .. Len(h[1]) |-> x]
  <2>1. h[1] \in Seq(T) /\ Len(h[1]) \in Nat
    BY <1>0, <1>2
  <2>2. Layout(h[1], ss, 1, w, v)
    BY <1>2, <2>1 DEF Layout
  <2> QED BY <2>1, <2>2
<1>4. ASSUME NEW n \in 2 .. L, Good(n - 1) PROVE Good(n)
  <2> DEFINE s == h[n - 1]
             t == ss[n]
             u == h[n]
  <2>1. s \in Seq(T) /\ t \in Seq(T) /\ u = s \o t
    <3>1. n \in 1 .. L
      BY <1>0
    <3> QED BY <1>0, <1>2, <1>4, <3>1
  <2>2. PICK w, v : Layout(s, ss, n - 1, w, v)
    BY <1>4
  <2> HIDE DEF s, t, u
  <2> DEFINE a == Len(s)
             ww == [x \in 1 .. Len(u) |-> IF x <= a THEN w[x] ELSE n]
             vv == [x \in 1 .. Len(u) |-> IF x <= a THEN v[x] ELSE x - a]
  <2>3. /\ u \in Seq(T) /\ Len(u) = a + Len(t) /\ a \in Nat /\ Len(t) \in Nat
        /\ \A i \in 1 .. a : u[i] = s[i]
        /\ \A i \in 1 .. Len(t) : u[a + i] = t[i]
    BY <2>1
  <2>4. /\ \A x \in 1 .. a :
             w[x] \in 1 .. n - 1 /\ v[x] \in 1 .. Len(ss[w[x]]) /\ s[x] = ss[w[x]][v[x]]
        /\ \A x, y \in 1 .. a :
             x < y => w[x] < w[y] \/ (w[x] = w[y] /\ v[x] + y = v[y] + x)
    BY <2>2 DEF Layout
  <2> HIDE DEF a
  <2>5. n \in Nat /\ n >= 2
    BY <1>0
  <2>6. \A x \in 1 .. Len(u) : x <= a => x \in 1 .. a /\ ww[x] = w[x] /\ vv[x] = v[x]
    BY <2>3
  <2>7. \A x \in 1 .. Len(u) : ~(x <= a) =>
          x - a \in 1 .. Len(t) /\ ww[x] = n /\ vv[x] = x - a /\ a + (x - a) = x
    BY <2>3
  <2> HIDE DEF ww, vv
  <2>8. ASSUME NEW x \in 1 .. Len(u)
        PROVE  ww[x] \in 1 .. n /\ vv[x] \in 1 .. Len(ss[ww[x]]) /\ u[x] = ss[ww[x]][vv[x]]
    <3>1. CASE x <= a
      <4>1. w[x] \in 1 .. n
        BY <2>4, <2>5, <2>6, <3>1
      <4> QED BY <2>3, <2>4, <2>6, <3>1, <4>1
    <3>2. CASE ~(x <= a)
      <4>1. n \in 1 .. n
        BY <2>5
      <4>2. u[x] = t[x - a]
        BY <2>3, <2>7, <3>2
      <4> QED BY <2>7, <3>2, <4>1, <4>2 DEF t
    <3> QED BY <3>1, <3>2
  <2>9. ASSUME NEW x \in 1 .. Len(u), NEW y \in 1 .. Len(u), x < y
        PROVE  ww[x] < ww[y] \/ (ww[x] = ww[y] /\ vv[x] + y = vv[y] + x)
    <3>1. CASE y <= a
      <4>1. x <= a
        BY <2>3, <2>9, <3>1
      <4> QED BY <2>4, <2>6, <2>9, <3>1, <4>1
    <3>2. CASE ~(y <= a) /\ x <= a
      <4>1. w[x] \in 1 .. n - 1
        BY <2>4, <2>6, <3>2
      <4>2. w[x] < n
        BY <2>5, <4>1
      <4> QED BY <2>6, <2>7, <3>2, <4>2
    <3>3. CASE ~(x <= a)
      <4>1. ~(y <= a)
        BY <2>3, <2>9, <3>3
      <4>2. (x - a) + y = (y - a) + x
        BY <2>3
      <4> QED BY <2>7, <3>3, <4>1, <4>2
    <3> QED BY <3>1, <3>2, <3>3
  <2>10. Layout(u, ss, n, ww, vv)
    BY <2>8, <2>9 DEF Layout
  <2> QED BY <2>3, <2>10 DEF u
<1> HIDE DEF Good
<1>5. I = {}
  <2> SUFFICES ASSUME I # {} PROVE FALSE
    OBVIOUS
  <2>1. PICK n \in I : \A i \in I : n <= i
    <3>1. I \in SUBSET (1 .. L)
      OBVIOUS
    <3> HIDE DEF I
    <3> QED BY <1>0, <3>1, Least
  <2>2. n \in 1 .. L /\ ~Good(n)
    OBVIOUS
  <2>3. n # 1
    BY <1>3, <2>2
  <2>4. n \in 2 .. L /\ n - 1 \in 1 .. L /\ ~(n <= n - 1)
    BY <1>0, <2>2, <2>3
  <2>5. Good(n - 1)
    BY <2>1, <2>4
  <2> QED BY <1>4, <2>2, <2>4, <2>5
<1>6. L \in 1 .. L
  BY <1>0
<1>7. Good(L)
  BY <1>5, <1>6
<1> QED BY <1>1, <1>7 DEF Good, L

(* A queue that keeps some of the batches of another, in their order: batch
   k is the other's batch g[k]. *)
Picks(r, q, g) ==
  /\ \A k \in DOMAIN r : g[k] \in DOMAIN q /\ r[k] = q[g[k]]
  /\ \A k, n \in DOMAIN r : k < n => g[k] < g[n]

(* Such a queue is in order when the other is. *)
LEMMA PicksOrder ==
  ASSUME NEW r, NEW q, NEW g, NEW s, Picks(r, q, g)
  PROVE  /\ Range(r) \subseteq Range(q) /\ Queued(r) \subseteq Queued(q)
         /\ QueueOrder(q, s) => QueueOrder(r, s)
<1>1. Range(r) \subseteq Range(q)
  BY DEF Picks, Range
<1>2. Queued(r) \subseteq Queued(q)
  BY DEF Picks, Queued
<1>3. ASSUME QueueOrder(q, s) PROVE QueueOrder(r, s)
  <2>1. Range(r) \subseteq Range(s)
    BY <1>1, <1>3 DEF QueueOrder
  <2>2. \A k, n \in DOMAIN r : k < n => Before(s, r[k], r[n])
    BY <1>3 DEF Picks, QueueOrder
  <2> QED BY <2>1, <2>2 DEF QueueOrder
<1> QED BY <1>1, <1>2, <1>3

(* A removal picks batches. *)
LEMMA RemovalPicks ==
  ASSUME NEW q \in Seq(Batches), NEW m
  PROVE  \E g : Picks(WithoutMatch(q, m), q, g)
<1> DEFINE ss == [k \in 1 .. Len(q) |-> IF m \in Range(q[k]) THEN << >> ELSE <<q[k]>>]
           f == FlattenSeq(ss)
<1>1. \A k \in 1 .. Len(q) : (IF m \in Range(q[k]) THEN << >> ELSE <<q[k]>>) \in Seq(Batches)
  OBVIOUS
<1>2. ss \in Seq(Seq(Batches)) /\ Len(ss) = Len(q) /\ Len(q) \in Nat /\ DOMAIN q = 1 .. Len(q)
  BY <1>1
<1>3. \A k \in 1 .. Len(q) : \A i \in 1 .. Len(ss[k]) : i = 1 /\ ss[k][i] = q[k]
  <2> SUFFICES ASSUME NEW k \in 1 .. Len(q) PROVE \A i \in 1 .. Len(ss[k]) : i = 1 /\ ss[k][i] = q[k]
    OBVIOUS
  <2>1. CASE m \in Range(q[k])
    <3>1. ss[k] = << >>
      BY <2>1
    <3> QED BY <3>1
  <2>2. CASE m \notin Range(q[k])
    <3>1. ss[k] = <<q[k]>>
      BY <2>2
    <3> QED BY <3>1
  <2> QED BY <2>1, <2>2
<1>4. WithoutMatch(q, m) = f
  BY DEF WithoutMatch
<1> HIDE DEF ss
<1>5. f \in Seq(Batches)
  BY <1>2, FlattenType
<1> HIDE DEF f
<1>6. DOMAIN f = 1 .. Len(f) /\ Len(f) \in Nat
  BY <1>5
<1>7. CASE Len(q) = 0
  <2>1. f = << >>
    BY <1>2, <1>7 DEF f, FlattenSeq
  <2>2. Picks(f, q, f)
    BY <2>1 DEF Picks
  <2> QED BY <1>4, <2>2
<1>8. CASE Len(q) # 0
  <2>1. PICK w, v : Layout(f, ss, Len(q), w, v)
    BY <1>2, <1>8, FlattenLayout DEF f
  <2>2. \A x \in 1 .. Len(f) : w[x] \in 1 .. Len(q) /\ v[x] = 1 /\ f[x] = q[w[x]]
    BY <1>3, <2>1 DEF Layout
  <2>3. ASSUME NEW x \in 1 .. Len(f), NEW y \in 1 .. Len(f), x < y PROVE w[x] < w[y]
    <3>1. w[x] < w[y] \/ v[x] + y = v[y] + x
      BY <2>1, <2>3 DEF Layout
    <3>2. v[x] = 1 /\ v[y] = 1 /\ x \in Nat /\ y \in Nat
      BY <1>6, <2>2
    <3> QED BY <2>3, <3>1, <3>2
  <2>4. Picks(f, q, w)
    BY <1>2, <1>6, <2>2, <2>3 DEF Picks
  <2> QED BY <1>4, <2>4
<1> QED BY <1>7, <1>8

(* A drain takes whole batches from the front, in their order. *)
LEMMA DrainLayout ==
  ASSUME NEW q \in Seq(Batches)
  PROVE  \E w, v, g :
           /\ Layout(Drained(q), q, Len(q), w, v)
           /\ Picks(Remaining(q), q, g)
           /\ \A x \in 1 .. Len(Drained(q)), k \in DOMAIN Remaining(q) : w[x] < g[k]
<1>0. /\ Batches \subseteq Seq(Msgs) /\ Len(q) \in Nat /\ DOMAIN q = 1 .. Len(q)
      /\ \A i \in 1 .. Len(q) : q[i] \in Batches
  BY BatchMsgs
<1>1. CASE q = << >>
  <2>1. Drained(q) = << >> /\ Remaining(q) = << >>
    BY <1>1 DEF Drained, Remaining
  <2>2. Layout(<< >>, q, Len(q), q, q) /\ Picks(<< >>, q, q)
    BY DEF Layout, Picks
  <2>3. \A x \in 1 .. Len(<< >>), k \in DOMAIN << >> : q[x] < q[k]
    OBVIOUS
  <2> QED BY <2>1, <2>2, <2>3
<1>2. CASE q # << >> /\ Mode = "all"
  <2>1. Drained(q) = FlattenSeq(q) /\ Remaining(q) = << >>
    BY <1>2 DEF Drained, Remaining
  <2>2. q \in Seq(Seq(Msgs)) /\ Len(q) # 0
    <3>1. q = [i \in 1 .. Len(q) |-> q[i]] /\ \A i \in 1 .. Len(q) : q[i] \in Seq(Msgs)
      BY <1>0
    <3> QED BY <1>0, <1>2, <3>1
  <2>3. PICK w, v : Layout(FlattenSeq(q), q, Len(q), w, v)
    BY <2>2, FlattenLayout
  <2>4. Picks(<< >>, q, q) /\ DOMAIN << >> = {}
    BY DEF Picks
  <2> QED BY <2>1, <2>3, <2>4
<1>3. CASE q # << >> /\ Mode # "all"
  <2> DEFINE d == Head(q)
             r == Tail(q)
             w == [x \in 1 .. Len(d) |-> 1]
             v == [x \in 1 .. Len(d) |-> x]
             g == [k \in 1 .. Len(q) - 1 |-> k + 1]
  <2>1. Drained(q) = d /\ Remaining(q) = r
    BY <1>3 DEF Drained, Remaining
  <2>2. /\ d = q[1] /\ d \in Batches /\ r \in Seq(Batches) /\ Len(r) = Len(q) - 1 /\ Len(q) >= 1
        /\ \A k \in 1 .. Len(q) - 1 : r[k] = q[k + 1]
    BY <1>3
  <2>3. d \in Seq(Msgs) /\ Len(d) \in Nat
    BY <1>0, <2>2
  <2> HIDE DEF d, r
  <2>4. DOMAIN r = 1 .. Len(q) - 1
    BY <2>2
  <2>5. Layout(d, q, Len(q), w, v)
    <3>1. 1 \in 1 .. Len(q)
      BY <1>0, <2>2
    <3> QED BY <2>2, <2>3, <3>1 DEF Layout
  <2>6. Picks(r, q, g)
    <3>1. \A k \in 1 .. Len(q) - 1 : g[k] = k + 1 /\ k + 1 \in 1 .. Len(q)
      BY <1>0
    <3> HIDE DEF g
    <3>2. \A k, n \in 1 .. Len(q) - 1 : k < n => k + 1 < n + 1
      BY <1>0
    <3>3. \A k \in DOMAIN r : g[k] \in DOMAIN q /\ r[k] = q[g[k]]
      BY <1>0, <2>2, <2>4, <3>1
    <3>4. \A k, n \in DOMAIN r : k < n => g[k] < g[n]
      BY <2>4, <3>1, <3>2
    <3> QED BY <3>3, <3>4 DEF Picks
  <2>7. \A x \in 1 .. Len(d), k \in DOMAIN r : w[x] < g[k]
    <3>1. \A k \in 1 .. Len(q) - 1 : g[k] = k + 1 /\ 1 < k + 1
      BY <1>0
    <3>2. \A x \in 1 .. Len(d) : w[x] = 1
      OBVIOUS
    <3> HIDE DEF w, g
    <3> QED BY <2>4, <3>1, <3>2
  <2> HIDE DEF w, v, g
  <2> QED BY <2>1, <2>5, <2>6, <2>7
<1> QED BY <1>1, <1>2, <1>3

(* A message belongs to one batch, and to one place of it. *)
LEMMA BatchFacts ==
  ASSUME NEW b \in Batches, NEW c \in Batches
  PROVE  /\ \A m \in Range(b) \cap Range(c) : b = c
         /\ \A j, k \in DOMAIN b : b[j] = b[k] => j = k
         /\ DOMAIN b = 1 .. Len(b) /\ Len(b) \in Nat
         /\ \A j \in DOMAIN b : b[j] \in Range(b) /\ b[j] \in Msgs
<1>1. b \in Seq(Msgs) /\ IsInjective(b) /\ (b # c => Range(b) \cap Range(c) = {})
  BY LoopAssumption
<1>2. DOMAIN b = 1 .. Len(b) /\ Len(b) \in Nat /\ \A j \in DOMAIN b : b[j] \in Range(b) /\ b[j] \in Msgs
  BY <1>1 DEF Range
<1> QED BY <1>1, <1>2 DEF IsInjective

(* A sequence without repetitions. *)
Single(s) == \A i, j \in DOMAIN s : s[i] = s[j] => i = j

(* In it the order is one. *)
LEMMA BeforeFacts ==
  ASSUME NEW s \in Seq(Batches), Single(s), NEW b, NEW c
  PROVE  /\ Before(s, b, c) => ~Before(s, c, b) /\ b # c /\ b \in Range(s) /\ c \in Range(s)
<1> SUFFICES ASSUME Before(s, b, c)
             PROVE  ~Before(s, c, b) /\ b # c /\ b \in Range(s) /\ c \in Range(s)
  OBVIOUS
<1>1. PICK i, j \in DOMAIN s : i < j /\ s[i] = b /\ s[j] = c
  BY DEF Before
<1>2. i \in Nat /\ j \in Nat
  OBVIOUS
<1>3. b # c
  BY <1>1, <1>2 DEF Single
<1>4. ASSUME Before(s, c, b) PROVE FALSE
  <2>1. PICK x, y \in DOMAIN s : x < y /\ s[x] = c /\ s[y] = b
    BY <1>4 DEF Before
  <2>2. x = j /\ y = i
    BY <1>1, <2>1 DEF Single
  <2> QED BY <1>1, <1>2, <2>1, <2>2
<1> QED BY <1>1, <1>3, <1>4 DEF Range

(* What a drain yields: batches of the queue that do not stay there, each of
   them in one piece, and in the order in which they were sent. *)
LEMMA DrainOrder ==
  ASSUME NEW q \in Seq(Batches), NEW s \in Seq(Batches), Single(s), QueueOrder(q, s)
  PROVE  LET d == Drained(q)
             r == Remaining(q)
         IN  /\ \A x \in 1 .. Len(d) : \E b \in Range(q) : d[x] \in Range(b) /\ b \notin Range(r)
             /\ \A b \in Batches : \A j, k \in DOMAIN b : \A x, y \in 1 .. Len(d) :
                  d[x] = b[j] /\ d[y] = b[k] => x + k = y + j
             /\ \A b, c \in Batches : Before(s, b, c) => \A y \in 1 .. Len(d) : d[y] \in Range(c) =>
                  b \notin Range(r) /\ \A x \in 1 .. Len(d) : d[x] \in Range(b) => x < y
             /\ QueueOrder(r, s) /\ Range(r) \subseteq Range(q) /\ Queued(r) \subseteq Queued(q)
<1> DEFINE d == Drained(q)
           r == Remaining(q)
<1>1. PICK w, v, g :
           /\ Layout(d, q, Len(q), w, v)
           /\ Picks(r, q, g)
           /\ \A x \in 1 .. Len(d), k \in DOMAIN r : w[x] < g[k]
  BY DrainLayout
<1>2. d \in Seq(Msgs) /\ r \in Seq(Batches)
  BY DrainFacts
<1> HIDE DEF d, r
<1>3. /\ Len(q) \in Nat /\ DOMAIN q = 1 .. Len(q) /\ Len(d) \in Nat
      /\ \A k \in DOMAIN q : q[k] \in Batches /\ q[k] \in Range(q) /\ q[k] \in Seq(Msgs)
  BY <1>2, BatchMsgs DEF Range
<1>4. ASSUME NEW k \in DOMAIN q, NEW n \in DOMAIN q, q[k] = q[n] PROVE k = n
  <2>1. \A i, j \in DOMAIN q : i < j => q[i] # q[j]
    BY BeforeFacts DEF QueueOrder
  <2> QED BY <1>3, <1>4, <2>1
<1>5. ASSUME NEW x \in 1 .. Len(d)
      PROVE  /\ w[x] \in DOMAIN q /\ v[x] \in DOMAIN q[w[x]] /\ d[x] = q[w[x]][v[x]]
             /\ d[x] \in Range(q[w[x]])
  <2>1. w[x] \in DOMAIN q /\ v[x] \in 1 .. Len(q[w[x]]) /\ d[x] = q[w[x]][v[x]]
    BY <1>1, <1>3 DEF Layout
  <2>2. v[x] \in DOMAIN q[w[x]]
    BY <1>3, <2>1
  <2> QED BY <2>1, <2>2 DEF Range
<1>6. ASSUME NEW x \in 1 .. Len(d), NEW b \in Batches, d[x] \in Range(b) PROVE q[w[x]] = b
  BY <1>3, <1>5, <1>6, BatchFacts
<1>7. ASSUME NEW k \in DOMAIN r, NEW x \in 1 .. Len(d) PROVE r[k] # q[w[x]]
  <2>1. w[x] < g[k] /\ g[k] \in DOMAIN q /\ r[k] = q[g[k]]
    BY <1>1 DEF Picks
  <2>2. w[x] # g[k]
    BY <1>3, <1>5, <2>1
  <2> QED BY <1>4, <1>5, <2>1, <2>2
<1>8. ASSUME NEW x \in 1 .. Len(d)
      PROVE  \E b \in Range(q) : d[x] \in Range(b) /\ b \notin Range(r)
  <2>1. q[w[x]] \notin Range(r)
    BY <1>7 DEF Range
  <2> QED BY <1>3, <1>5, <2>1
<1>9. ASSUME NEW b \in Batches, NEW j \in DOMAIN b, NEW k \in DOMAIN b,
             NEW x \in 1 .. Len(d), NEW y \in 1 .. Len(d), d[x] = b[j], d[y] = b[k]
      PROVE  x + k = y + j
  <2>1. b[j] \in Range(b) /\ b[k] \in Range(b)
    BY BatchFacts
  <2>2. q[w[x]] = b /\ q[w[y]] = b
    BY <1>6, <1>9, <2>1
  <2>3. w[x] = w[y] /\ v[x] = j /\ v[y] = k
    <3>1. w[x] = w[y]
      BY <1>4, <1>5, <2>2
    <3>2. v[x] \in DOMAIN b /\ v[y] \in DOMAIN b /\ b[v[x]] = b[j] /\ b[v[y]] = b[k]
      BY <1>5, <1>9, <2>2
    <3> QED BY <3>1, <3>2, BatchFacts
  <2>4. j \in Nat /\ k \in Nat /\ w[x] \in Nat
    BY <1>3, <1>5, BatchFacts
  <2>5. CASE x < y
    <3>1. w[x] < w[y] \/ v[x] + y = v[y] + x
      BY <1>1, <2>5 DEF Layout
    <3> QED BY <1>3, <2>3, <2>4, <3>1
  <2>6. CASE y < x
    <3>1. w[y] < w[x] \/ v[y] + x = v[x] + y
      BY <1>1, <2>6 DEF Layout
    <3> QED BY <1>3, <2>3, <2>4, <3>1
  <2>7. CASE x = y
    <3>1. j = k
      BY <2>3, <2>7
    <3> QED BY <2>7, <3>1
  <2> QED BY <1>3, <2>5, <2>6, <2>7
<1>10. ASSUME NEW b \in Batches, NEW c \in Batches, Before(s, b, c), NEW y \in 1 .. Len(d),
              d[y] \in Range(c)
       PROVE  b \notin Range(r) /\ \A x \in 1 .. Len(d) : d[x] \in Range(b) => x < y
  <2>1. q[w[y]] = c /\ w[y] \in DOMAIN q
    BY <1>5, <1>6, <1>10
  <2>2. ~Before(s, c, b) /\ b # c
    BY <1>10, BeforeFacts
  <2>3. ASSUME NEW k \in DOMAIN r, r[k] = b PROVE FALSE
    <3>1. g[k] \in DOMAIN q /\ q[g[k]] = b /\ w[y] < g[k]
      BY <1>1, <2>3 DEF Picks
    <3> QED BY <2>1, <2>2, <3>1 DEF QueueOrder
  <2>4. ASSUME NEW x \in 1 .. Len(d), d[x] \in Range(b) PROVE x < y
    <3>1. q[w[x]] = b /\ w[x] \in DOMAIN q
      BY <1>5, <1>6, <2>4
    <3>2. ~(w[y] < w[x]) /\ w[x] # w[y]
      BY <2>1, <2>2, <3>1 DEF QueueOrder
    <3>3. ~(y < x)
      BY <1>1, <3>2 DEF Layout
    <3>4. x # y
      BY <3>2
    <3> QED BY <1>3, <3>3, <3>4
  <2> QED BY <2>3, <2>4 DEF Range
<1>11. QueueOrder(r, s) /\ Range(r) \subseteq Range(q) /\ Queued(r) \subseteq Queued(q)
  BY <1>1, PicksOrder
<1> QED BY <1>8, <1>9, <1>10, <1>11 DEF d, r

(* The line l2 has the caller's messages of l at most, where they are in l. *)
Keeps(l, l2) ==
  \A p \in DOMAIN l2 : (p \in DOMAIN l /\ l2[p] = l[p]) \/ l2[p].role \notin {"user", "custom"}

(* What holds of a line holds of one that keeps no more. *)
LEMMA KeepsOrder ==
  ASSUME NEW l, NEW l2, Keeps(l, l2), NEW A, NEW A2, A \subseteq A2, NEW s, NEW q, NEW q2,
         Range(q2) \subseteq Range(q)
  PROVE  /\ Known(l, A) => Known(l2, A2)
         /\ Contiguous(l) => Contiguous(l2)
         /\ Follows(l, s, q) => Follows(l2, s, q2)
<1>1. \A m \in Msgs : At(l2, m) \subseteq At(l, m)
  BY MessageTypes DEF At, Keeps
<1>2. \A b \in Batches : (\A j \in DOMAIN b : b[j] \in Msgs) /\ Range(b) \subseteq Msgs
  BY BatchFacts, BatchMsgs
<1>3. Known(l, A) => Known(l2, A2)
  BY DEF Known, Keeps
<1>4. Contiguous(l) => Contiguous(l2)
  BY <1>1, <1>2 DEF Contiguous
<1>5. ASSUME Follows(l, s, q) PROVE Follows(l2, s, q2)
  <2> SUFFICES ASSUME NEW b \in Batches, NEW c \in Batches, Before(s, b, c), NEW n \in Range(c),
                      NEW k \in At(l2, n)
               PROVE  b \notin Range(q2) /\ \A m \in Range(b) : \A j \in At(l2, m) : j < k
    BY DEF Follows
  <2>1. k \in At(l, n)
    BY <1>1, <1>2
  <2>2. b \notin Range(q) /\ \A m \in Range(b) : \A j \in At(l, m) : j < k
    BY <1>5, <2>1 DEF Follows
  <2> QED BY <1>1, <1>2, <2>2
<1> QED BY <1>3, <1>4, <1>5

(* The places of a line that got messages at its end. *)
LEMMA GrownLine ==
  ASSUME NEW l \in Seq(Messages), NEW d \in Seq(Msgs)
  PROVE  LET l2 == l \o Users(d)
         IN  /\ l2 \in Seq(Messages)
             /\ \A p \in DOMAIN l2 : \/ p \in DOMAIN l /\ l2[p] = l[p]
                                     \/ \E x \in 1 .. Len(d) : p = Len(l) + x /\ l2[p] = User(d[x])
             /\ \A m \in Msgs : \A p \in At(l2, m) :
                  \/ p \in At(l, m) /\ p \in 1 .. Len(l)
                  \/ \E x \in 1 .. Len(d) : p = Len(l) + x /\ d[x] = m
<1> DEFINE u == Users(d)
           l2 == l \o u
           n == Len(l)
<1>1. u \in Seq(Messages) /\ Len(u) = Len(d) /\ \A k \in 1 .. Len(d) : u[k] = User(d[k])
  BY UsersFacts
<1> HIDE DEF u
<1>2. /\ l2 \in Seq(Messages) /\ Len(l2) = n + Len(u) /\ n \in Nat /\ Len(u) \in Nat
      /\ \A i \in 1 .. n + Len(u) : l2[i] = IF i <= n THEN l[i] ELSE u[i - n]
      /\ DOMAIN l = 1 .. n
  <2>1. /\ l2 \in Seq(Messages) /\ Len(l2) = Len(l) + Len(u)
        /\ \A i \in 1 .. Len(l) + Len(u) : l2[i] = IF i <= Len(l) THEN l[i] ELSE u[i - Len(l)]
    BY <1>1, ConcatProperties
  <2>2. Len(l) \in Nat /\ Len(u) \in Nat /\ DOMAIN l = 1 .. Len(l)
    BY <1>1
  <2> HIDE DEF l2
  <2> QED BY <2>1, <2>2
<1> HIDE DEF l2, n
<1>3. DOMAIN l2 = 1 .. n + Len(u)
  BY <1>2
<1>4. ASSUME NEW p \in DOMAIN l2
      PROVE  \/ p \in 1 .. n /\ p \in DOMAIN l /\ l2[p] = l[p]
             \/ \E x \in 1 .. Len(d) : p = n + x /\ l2[p] = User(d[x])
  <2>1. CASE p <= n
    <3>1. p \in 1 .. n
      BY <1>2, <1>3, <2>1
    <3> QED BY <1>2, <1>3, <2>1, <3>1
  <2>2. CASE ~(p <= n)
    <3>1. p - n \in 1 .. Len(d) /\ p = n + (p - n)
      BY <1>1, <1>2, <1>3, <2>2
    <3>2. l2[p] = u[p - n]
      BY <1>2, <1>3, <2>2
    <3> QED BY <1>1, <3>1, <3>2
  <2> QED BY <2>1, <2>2
<1>5. ASSUME NEW m \in Msgs, NEW p \in At(l2, m)
      PROVE  \/ p \in At(l, m) /\ p \in 1 .. n
             \/ \E x \in 1 .. Len(d) : p = n + x /\ d[x] = m
  <2>1. p \in DOMAIN l2 /\ l2[p] = User(m)
    BY DEF At
  <2>2. CASE p \in 1 .. n /\ p \in DOMAIN l /\ l2[p] = l[p]
    BY <2>1, <2>2 DEF At
  <2>3. ASSUME NEW x \in 1 .. Len(d), p = n + x, l2[p] = User(d[x])
        PROVE  p = n + x /\ d[x] = m
    <3>1. d[x] \in Msgs /\ User(d[x]) = User(m)
      BY <2>1, <2>3
    <3>2. User(d[x]).msg = d[x] /\ User(m).msg = m
      BY <3>1, MessageTypes
    <3> QED BY <2>3, <3>1, <3>2
  <2> QED BY <1>4, <2>1, <2>2, <2>3
<1> QED BY <1>2, <1>4, <1>5 DEF u, l2, n

(* What is in the line, and not in the queues, is in no batch of theirs. *)
LEMMA LineApart ==
  ASSUME NEW l \in Seq(Messages), NEW A, NEW q \in Seq(Batches), Known(l, A),
         A \cap Queued(q) = {}
  PROVE  /\ \A m \in Msgs : At(l, m) # {} => m \in A
         /\ \A b \in Range(q) : \A m \in Range(b) : m \in Msgs => At(l, m) = {}
<1>1. ASSUME NEW m \in Msgs, NEW p \in At(l, m) PROVE m \in A
  <2>1. p \in DOMAIN l /\ l[p] = User(m) /\ User(m).role \in {"user", "custom"} /\ User(m).msg = m
    BY MessageTypes DEF At
  <2>2. PICK n \in A : l[p] = User(n)
    BY <2>1 DEF Known
  <2>3. User(n).msg = n
    BY DEF User
  <2> QED BY <2>1, <2>2, <2>3
<1>2. ASSUME NEW b \in Range(q), NEW m \in Range(b) PROVE m \in Queued(q)
  BY DEF Queued, Range
<1> QED BY <1>1, <1>2

(* A drain keeps the line in order: l gets what the queue q of the batches s
   yields; the other queue is o, of the batches so. *)
LEMMA LineDrain ==
  ASSUME NEW l \in Seq(Messages), NEW A, NEW q \in Seq(Batches), NEW s \in Seq(Batches),
         NEW o \in Seq(Batches), NEW so \in Seq(Batches), Single(s), Single(so),
         Range(s) \cap Range(so) = {}, QueueOrder(q, s), QueueOrder(o, so), Queued(q) \subseteq A,
         Known(l, A \ (Queued(q) \cup Queued(o))), Contiguous(l), Follows(l, s, q), Follows(l, so, o)
  PROVE  LET l2 == l \o Users(Drained(q))
             r == Remaining(q)
         IN  /\ QueueOrder(r, s) /\ Known(l2, A \ (Queued(r) \cup Queued(o)))
             /\ Contiguous(l2) /\ Follows(l2, s, r) /\ Follows(l2, so, o)
<1> DEFINE d == Drained(q)
           r == Remaining(q)
           l2 == l \o Users(d)
           n == Len(l)
<1>1. d \in Seq(Msgs) /\ r \in Seq(Batches)
  BY DrainFacts
<1>2. /\ \A x \in 1 .. Len(d) : \E b \in Range(q) : d[x] \in Range(b) /\ b \notin Range(r)
      /\ \A b \in Batches : \A j, k \in DOMAIN b : \A x, y \in 1 .. Len(d) :
           d[x] = b[j] /\ d[y] = b[k] => x + k = y + j
      /\ \A b, c \in Batches : Before(s, b, c) => \A y \in 1 .. Len(d) : d[y] \in Range(c) =>
           b \notin Range(r) /\ \A x \in 1 .. Len(d) : d[x] \in Range(b) => x < y
      /\ QueueOrder(r, s) /\ Range(r) \subseteq Range(q) /\ Queued(r) \subseteq Queued(q)
  BY DrainOrder
<1>3. /\ \A p \in DOMAIN l2 : \/ p \in DOMAIN l /\ l2[p] = l[p]
                              \/ \E x \in 1 .. Len(d) : p = n + x /\ l2[p] = User(d[x])
      /\ \A m \in Msgs : \A p \in At(l2, m) :
           \/ p \in At(l, m) /\ p \in 1 .. n
           \/ \E x \in 1 .. Len(d) : p = n + x /\ d[x] = m
  <2> HIDE DEF d
  <2> QED BY <1>1, GrownLine
<1>4. n \in Nat /\ Len(d) \in Nat
  BY <1>1
<1>5. /\ \A m \in Msgs : At(l, m) # {} => m \in A \ (Queued(q) \cup Queued(o))
      /\ \A b \in Range(q) : \A m \in Range(b) : m \in Msgs => At(l, m) = {}
  <2>1. (A \ (Queued(q) \cup Queued(o))) \cap Queued(q) = {}
    OBVIOUS
  <2> QED BY <2>1, LineApart
<1> HIDE DEF d, r, l2, n
<1>6. Range(q) \subseteq Batches /\ Range(o) \subseteq Batches /\ Range(r) \subseteq Batches
  BY <1>1, RangeFacts
<1>7. \A b \in Batches : (\A j \in DOMAIN b : b[j] \in Range(b)) /\ Range(b) \subseteq Msgs
  BY BatchFacts, BatchMsgs
<1>8. ASSUME NEW x \in 1 .. Len(d), NEW b \in Batches, d[x] \in Range(b)
      PROVE  b \in Range(q) /\ b \in Range(s) /\ b \notin Range(so) /\ b \notin Range(r)
  <2>1. PICK c \in Range(q) : d[x] \in Range(c) /\ c \notin Range(r)
    BY <1>2
  <2>2. c = b
    BY <1>6, <1>8, <2>1, BatchFacts
  <2> QED BY <2>1, <2>2 DEF QueueOrder
<1>9. Known(l2, A \ (Queued(r) \cup Queued(o)))
  <2> SUFFICES ASSUME NEW p \in DOMAIN l2, l2[p].role \in {"user", "custom"}
               PROVE  \E m \in A \ (Queued(r) \cup Queued(o)) : l2[p] = User(m)
    BY DEF Known
  <2>1. CASE p \in DOMAIN l /\ l2[p] = l[p]
    BY <1>2, <2>1 DEF Known
  <2>2. ASSUME NEW x \in 1 .. Len(d), l2[p] = User(d[x])
        PROVE  d[x] \in A \ (Queued(r) \cup Queued(o))
    <3>1. PICK b \in Range(q) : d[x] \in Range(b)
      BY <1>2
    <3>2. d[x] \in Queued(q)
      BY <3>1 DEF Queued, Range
    <3>3. ASSUME NEW k \in DOMAIN r, d[x] \in Range(r[k]) PROVE FALSE
      <4>1. r[k] \in Range(r)
        BY DEF Range
      <4> QED BY <1>6, <1>8, <3>3, <4>1
    <3>4. ASSUME NEW k \in DOMAIN o, d[x] \in Range(o[k]) PROVE FALSE
      <4>1. o[k] \in Range(o)
        BY DEF Range
      <4>2. o[k] \in Range(so)
        BY <4>1 DEF QueueOrder
      <4> QED BY <1>6, <1>8, <3>4, <4>1, <4>2
    <3> QED BY <3>2, <3>3, <3>4 DEF Queued
  <2> QED BY <1>3, <2>1, <2>2
<1>10. Contiguous(l2)
  <2> SUFFICES ASSUME NEW b \in Batches, NEW j \in DOMAIN b, NEW k \in DOMAIN b,
                      NEW p \in At(l2, b[j]), NEW t \in At(l2, b[k])
               PROVE  p + k = t + j
    BY DEF Contiguous
  <2>0. j \in Nat /\ k \in Nat /\ b[j] \in Msgs /\ b[k] \in Msgs /\ b[j] \in Range(b) /\ b[k] \in Range(b)
    BY BatchFacts
  <2>1. CASE p \in At(l, b[j]) /\ t \in At(l, b[k])
    BY <2>1 DEF Contiguous
  <2>2. ASSUME NEW x \in 1 .. Len(d), d[x] \in Range(b) PROVE At(l, b[j]) = {} /\ At(l, b[k]) = {}
    <3>1. b \in Range(q)
      BY <1>8, <2>2
    <3> QED BY <1>5, <2>0, <3>1
  <2>3. ASSUME NEW x \in 1 .. Len(d), NEW y \in 1 .. Len(d), p = n + x, d[x] = b[j],
               t = n + y, d[y] = b[k]
        PROVE  p + k = t + j
    <3>1. x + k = y + j
      BY <1>2, <2>3
    <3>2. x \in Nat /\ y \in Nat
      BY <1>4
    <3>3. (n + x) + k = (n + y) + j
      <4>1. n \in Nat /\ j \in Nat /\ k \in Nat
        BY <1>4, <2>0
      <4>2. \A e \in Nat, f \in Nat : x + e = y + f => (n + x) + e = (n + y) + f
        BY <3>2, <4>1
      <4> QED BY <3>1, <4>1, <4>2
    <3> QED BY <2>3, <3>3
  <2>4. CASE \E x \in 1 .. Len(d) : p = n + x /\ d[x] = b[j]
    <3>1. PICK x \in 1 .. Len(d) : p = n + x /\ d[x] = b[j]
      BY <2>4
    <3>2. t \notin At(l, b[k])
      BY <2>0, <2>2, <3>1
    <3>3. PICK y \in 1 .. Len(d) : t = n + y /\ d[y] = b[k]
      BY <1>3, <2>0, <3>2
    <3> QED BY <2>3, <3>1, <3>3
  <2>5. CASE p \in At(l, b[j])
    <3>1. \A y \in 1 .. Len(d) : d[y] # b[k]
      BY <2>0, <2>2, <2>5
    <3>2. t \in At(l, b[k])
      BY <1>3, <2>0, <3>1
    <3> QED BY <2>1, <2>5, <3>2
  <2> QED BY <1>3, <2>0, <2>4, <2>5
<1>11. Follows(l2, s, r)
  <2> SUFFICES ASSUME NEW b \in Batches, NEW c \in Batches, Before(s, b, c), NEW i \in Range(c),
                      NEW k \in At(l2, i)
               PROVE  b \notin Range(r) /\ \A m \in Range(b) : \A j \in At(l2, m) : j < k
    BY DEF Follows
  <2>0. i \in Msgs /\ Range(b) \subseteq Msgs
    BY <1>7
  <2>1. CASE k \in At(l, i)
    <3>1. b \notin Range(q) /\ \A m \in Range(b) : \A j \in At(l, m) : j < k
      BY <2>1 DEF Follows
    <3>2. \A m \in Range(b) : \A x \in 1 .. Len(d) : d[x] # m
      BY <1>8, <3>1
    <3> QED BY <1>2, <1>3, <2>0, <3>1, <3>2
  <2>2. ASSUME NEW y \in 1 .. Len(d), k = n + y, d[y] = i
        PROVE  b \notin Range(r) /\ \A m \in Range(b) : \A j \in At(l2, m) : j < k
    <3>1. b \notin Range(r) /\ \A x \in 1 .. Len(d) : d[x] \in Range(b) => x < y
      BY <1>2, <2>2
    <3>2. ASSUME NEW m \in Range(b), NEW j \in At(l2, m) PROVE j < k
      <4>1. CASE j \in 1 .. n
        BY <1>4, <2>2, <4>1
      <4>2. ASSUME NEW x \in 1 .. Len(d), j = n + x, d[x] = m PROVE j < k
        BY <1>4, <2>2, <3>1, <4>2
      <4> QED BY <1>3, <2>0, <4>1, <4>2
    <3> QED BY <3>1, <3>2
  <2> QED BY <1>3, <2>0, <2>1, <2>2
<1>12. Follows(l2, so, o)
  <2> SUFFICES ASSUME NEW b \in Batches, NEW c \in Batches, Before(so, b, c), NEW i \in Range(c),
                      NEW k \in At(l2, i)
               PROVE  b \notin Range(o) /\ \A m \in Range(b) : \A j \in At(l2, m) : j < k
    BY DEF Follows
  <2>0. i \in Msgs /\ Range(b) \subseteq Msgs
    BY <1>7
  <2>1. b \in Range(so) /\ c \in Range(so)
    BY BeforeFacts
  <2>2. \A m \in Range(b) \cup Range(c) : \A x \in 1 .. Len(d) : d[x] # m
    BY <1>8, <2>1
  <2>3. k \in At(l, i) /\ \A m \in Range(b) : At(l2, m) \subseteq At(l, m)
    BY <1>3, <2>0, <2>2
  <2> QED BY <2>3 DEF Follows
<1> QED BY <1>2, <1>9, <1>10, <1>11, <1>12 DEF d, r, l2

(* A batch that nobody has seen before is added to the end of the line. *)
LEMMA LineAdd ==
  ASSUME NEW l \in Seq(Messages), NEW A, NEW Q, NEW e \in Batches, Range(e) \cap A = {},
         Q \subseteq A, Known(l, A \ Q), Contiguous(l)
  PROVE  LET l2 == l \o Users(e)
         IN  /\ Known(l2, (A \cup Range(e)) \ Q) /\ Contiguous(l2)
             /\ \A s \in Seq(Batches), q \in Seq(Batches) :
                  Single(s) /\ e \notin Range(s) /\ Follows(l, s, q) => Follows(l2, s, q)
<1> DEFINE l2 == l \o Users(e)
           n == Len(l)
<1>1. e \in Seq(Msgs) /\ Len(e) \in Nat /\ DOMAIN e = 1 .. Len(e) /\ Range(e) \subseteq Msgs
  BY BatchMsgs, BatchFacts
<1>2. /\ \A p \in DOMAIN l2 : \/ p \in DOMAIN l /\ l2[p] = l[p]
                              \/ \E x \in 1 .. Len(e) : p = n + x /\ l2[p] = User(e[x])
      /\ \A m \in Msgs : \A p \in At(l2, m) :
           \/ p \in At(l, m) /\ p \in 1 .. n
           \/ \E x \in 1 .. Len(e) : p = n + x /\ e[x] = m
  BY <1>1, GrownLine
<1>3. n \in Nat
  OBVIOUS
<1>4. \A m \in Msgs : At(l, m) # {} => m \in A
  <2> DEFINE none == << >>
  <2>1. none \in Seq(Batches) /\ (A \ Q) \cap Queued(none) = {}
    BY DEF Queued
  <2> HIDE DEF none
  <2> QED BY <2>1, LineApart
<1> HIDE DEF l2, n
<1>5. \A b \in Batches : (\A j \in DOMAIN b : b[j] \in Range(b)) /\ Range(b) \subseteq Msgs
  BY BatchFacts, BatchMsgs
<1>6. ASSUME NEW x \in 1 .. Len(e), NEW b \in Batches, e[x] \in Range(b) PROVE e = b
  <2>1. e[x] \in Range(e)
    BY <1>1, <1>5
  <2> QED BY <1>6, <2>1, BatchFacts
<1>7. Known(l2, (A \cup Range(e)) \ Q)
  <2> SUFFICES ASSUME NEW p \in DOMAIN l2, l2[p].role \in {"user", "custom"}
               PROVE  \E m \in (A \cup Range(e)) \ Q : l2[p] = User(m)
    BY DEF Known
  <2>1. CASE p \in DOMAIN l /\ l2[p] = l[p]
    BY <2>1 DEF Known
  <2>2. ASSUME NEW x \in 1 .. Len(e), l2[p] = User(e[x])
        PROVE  e[x] \in (A \cup Range(e)) \ Q
    BY <1>1, <1>5
  <2> QED BY <1>2, <2>1, <2>2
<1>8. Contiguous(l2)
  <2> SUFFICES ASSUME NEW b \in Batches, NEW j \in DOMAIN b, NEW k \in DOMAIN b,
                      NEW p \in At(l2, b[j]), NEW t \in At(l2, b[k])
               PROVE  p + k = t + j
    BY DEF Contiguous
  <2>0. j \in Nat /\ k \in Nat /\ b[j] \in Msgs /\ b[k] \in Msgs /\ b[j] \in Range(b) /\ b[k] \in Range(b)
    BY BatchFacts
  <2>1. CASE b # e
    <3>1. \A x \in 1 .. Len(e) : e[x] # b[j] /\ e[x] # b[k]
      BY <1>6, <2>0, <2>1
    <3>2. p \in At(l, b[j]) /\ t \in At(l, b[k])
      BY <1>2, <2>0, <3>1
    <3> QED BY <3>2 DEF Contiguous
  <2>2. CASE b = e
    <3>1. p \notin At(l, b[j]) /\ t \notin At(l, b[k])
      BY <1>4, <2>0, <2>2
    <3>2. PICK x \in 1 .. Len(e) : p = n + x /\ e[x] = b[j]
      BY <1>2, <2>0, <3>1
    <3>3. PICK y \in 1 .. Len(e) : t = n + y /\ e[y] = b[k]
      BY <1>2, <2>0, <3>1
    <3>4. x = j /\ y = k
      BY <1>1, <2>2, <3>2, <3>3, BatchFacts
    <3>5. \A g \in Nat, h \in Nat : (n + g) + h = (n + h) + g
      BY <1>3
    <3> QED BY <2>0, <3>2, <3>3, <3>4, <3>5
  <2> QED BY <2>1, <2>2
<1>9. ASSUME NEW s \in Seq(Batches), NEW q \in Seq(Batches), Single(s), e \notin Range(s), Follows(l, s, q)
      PROVE  Follows(l2, s, q)
  <2> SUFFICES ASSUME NEW b \in Batches, NEW c \in Batches, Before(s, b, c), NEW i \in Range(c),
                      NEW k \in At(l2, i)
               PROVE  b \notin Range(q) /\ \A m \in Range(b) : \A j \in At(l2, m) : j < k
    BY DEF Follows
  <2>0. i \in Msgs /\ Range(b) \subseteq Msgs
    BY <1>5
  <2>1. b # e /\ c # e
    BY <1>9, BeforeFacts
  <2>2. \A m \in Range(b) \cup Range(c) : \A x \in 1 .. Len(e) : e[x] # m
    BY <1>6, <2>1
  <2>3. k \in At(l, i) /\ \A m \in Range(b) : At(l2, m) \subseteq At(l, m)
    BY <1>2, <2>0, <2>2
  <2> QED BY <1>9, <2>3 DEF Follows
<1> QED BY <1>7, <1>8, <1>9 DEF l2

(* A sequence of batches that gets one more. *)
LEMMA SentMore ==
  ASSUME NEW s \in Seq(Batches), NEW e \in Batches, e \notin Range(s)
  PROVE  LET t == Append(s, e)
         IN  /\ t \in Seq(Batches) /\ Range(t) = Range(s) \cup {e}
             /\ Single(s) => Single(t)
             /\ \A b, c : Before(t, b, c) <=> Before(s, b, c) \/ (c = e /\ b \in Range(s))
<1> DEFINE t == Append(s, e)
           n == Len(s)
<1>1. t \in Seq(Batches) /\ Len(t) = n + 1 /\ t[n + 1] = e /\ (\A k \in 1 .. n : t[k] = s[k])
  OBVIOUS
<1>2. n \in Nat /\ DOMAIN s = 1 .. n
  OBVIOUS
<1>3. Range(t) = Range(s) \cup {e}
  BY RangeFacts
<1> HIDE DEF t, n
<1>4. DOMAIN t = 1 .. n + 1
  BY <1>1
<1>5. \A k \in DOMAIN t : (k \in DOMAIN s /\ t[k] = s[k] /\ t[k] \in Range(s) /\ k < n + 1)
                          \/ (k = n + 1 /\ t[k] = e)
  <2> SUFFICES ASSUME NEW k \in DOMAIN t
               PROVE (k \in DOMAIN s /\ t[k] = s[k] /\ t[k] \in Range(s) /\ k < n + 1)
                     \/ (k = n + 1 /\ t[k] = e)
    OBVIOUS
  <2>1. k = n + 1 \/ (k \in 1 .. n /\ k < n + 1)
    BY <1>2, <1>4
  <2> QED BY <1>1, <1>2, <2>1 DEF Range
<1>6. \A k \in DOMAIN s : k \in DOMAIN t /\ t[k] = s[k] /\ k < n + 1 /\ n + 1 \in DOMAIN t
  BY <1>1, <1>2, <1>4
<1>7. Single(s) => Single(t)
  BY <1>5 DEF Single
<1>8. ASSUME NEW b, NEW c PROVE Before(t, b, c) <=> Before(s, b, c) \/ (c = e /\ b \in Range(s))
  <2>1. ASSUME Before(t, b, c) PROVE Before(s, b, c) \/ (c = e /\ b \in Range(s))
    <3>1. PICK i, j \in DOMAIN t : i < j /\ t[i] = b /\ t[j] = c
      BY <2>1 DEF Before
    <3>2. i \in Nat /\ j \in Nat /\ j <= n + 1
      BY <1>2, <1>4
    <3>3. i # n + 1
      BY <1>2, <3>1, <3>2
    <3>4. i \in DOMAIN s /\ s[i] = b /\ b \in Range(s)
      BY <1>5, <3>1, <3>3
    <3> QED BY <1>5, <3>1, <3>4 DEF Before
  <2>2. Before(s, b, c) => Before(t, b, c)
    BY <1>6 DEF Before
  <2>3. ASSUME c = e, b \in Range(s) PROVE Before(t, b, c)
    <3>1. PICK i \in DOMAIN s : s[i] = b
      BY <2>3 DEF Range
    <3> QED BY <1>1, <1>6, <2>3, <3>1 DEF Before
  <2> QED BY <2>1, <2>2, <2>3
<1> QED BY <1>1, <1>3, <1>7, <1>8 DEF t

(* A new batch goes to the end of its queue. *)
LEMMA LineSend ==
  ASSUME NEW l \in Seq(Messages), NEW A, NEW Q, NEW q \in Seq(Batches), NEW s \in Seq(Batches),
         NEW e \in Batches, Range(e) \cap A = {}, e \notin Range(s), Known(l, A \ Q),
         QueueOrder(q, s), Follows(l, s, q)
  PROVE  LET q2 == Append(q, e)
             s2 == Append(s, e)
         IN  /\ QueueOrder(q2, s2) /\ Follows(l, s2, q2) /\ Queued(q2) = Queued(q) \cup Range(e)
             /\ Known(l, (A \cup Range(e)) \ (Q \cup Range(e)))
<1> DEFINE q2 == Append(q, e)
           s2 == Append(s, e)
<1>0. e \notin Range(q)
  BY DEF QueueOrder
<1>1. /\ s2 \in Seq(Batches) /\ Range(s2) = Range(s) \cup {e}
      /\ \A b, c : Before(s2, b, c) <=> Before(s, b, c) \/ (c = e /\ b \in Range(s))
  BY SentMore
<1>2. /\ q2 \in Seq(Batches) /\ Range(q2) = Range(q) \cup {e}
      /\ \A b, c : Before(q2, b, c) <=> Before(q, b, c) \/ (c = e /\ b \in Range(q))
  BY <1>0, SentMore
<1> HIDE DEF q2, s2
<1>3. \A m \in Msgs : At(l, m) # {} => m \in A
  <2> DEFINE none == << >>
  <2>1. none \in Seq(Batches) /\ (A \ Q) \cap Queued(none) = {}
    BY DEF Queued
  <2> HIDE DEF none
  <2> QED BY <2>1, LineApart
<1>4. QueueOrder(q2, s2)
  <2>1. Range(q2) \subseteq Range(s2)
    BY <1>1, <1>2 DEF QueueOrder
  <2>2. ASSUME NEW k \in DOMAIN q2, NEW n \in DOMAIN q2, k < n PROVE Before(s2, q2[k], q2[n])
    <3>1. Before(q2, q2[k], q2[n])
      BY <2>2 DEF Before
    <3>2. CASE Before(q, q2[k], q2[n])
      <4>1. Before(s, q2[k], q2[n])
        BY <3>2 DEF Before, QueueOrder
      <4> QED BY <1>1, <4>1
    <3>3. CASE q2[n] = e /\ q2[k] \in Range(q)
      BY <1>1, <3>3 DEF QueueOrder
    <3> QED BY <1>2, <3>1, <3>2, <3>3
  <2> QED BY <2>1, <2>2 DEF QueueOrder
<1>5. Follows(l, s2, q2)
  <2> SUFFICES ASSUME NEW b \in Batches, NEW c \in Batches, Before(s2, b, c), NEW i \in Range(c),
                      NEW k \in At(l, i)
               PROVE  b \notin Range(q2) /\ \A m \in Range(b) : \A j \in At(l, m) : j < k
    BY DEF Follows
  <2>1. i \in Msgs /\ i \in A
    BY <1>3, BatchMsgs
  <2>2. c # e
    BY <2>1
  <2>3. Before(s, b, c)
    BY <1>1, <2>2
  <2>4. b # e
    BY <2>3 DEF Before, Range
  <2> QED BY <1>2, <2>3, <2>4 DEF Follows
<1>6. Queued(q2) = Queued(q) \cup Range(e)
  <2>1. Queued(q) = UNION {Range(b) : b \in Range(q)} /\ Queued(q2) = UNION {Range(b) : b \in Range(q2)}
    BY DEF Queued, Range
  <2> QED BY <1>2, <2>1
<1>7. Known(l, (A \cup Range(e)) \ (Q \cup Range(e)))
  <2>1. A \ Q \subseteq (A \cup Range(e)) \ (Q \cup Range(e))
    OBVIOUS
  <2> QED BY <2>1 DEF Known
<1> QED BY <1>4, <1>5, <1>6, <1>7 DEF q2, s2

(* OrderInv, as a property of the line, the batches sent and the two queues. *)
AllOf(sn) == UNION {UNION {Range(sn[op][k]) : k \in DOMAIN sn[op]} : op \in DOMAIN sn}
Unlike(sn) ==
  \A op, oq \in Operations : \A i \in DOMAIN sn[op], j \in DOMAIN sn[oq] :
    sn[op][i] = sn[oq][j] => op = oq /\ i = j
Ordered(l, sn, st, fu) ==
  /\ Unlike(sn)
  /\ QueueOrder(st, sn["steer"]) /\ QueueOrder(fu, sn["followUp"])
  /\ Known(l, AllOf(sn) \ (Queued(st) \cup Queued(fu))) /\ Contiguous(l)
  /\ Follows(l, sn["steer"], st) /\ Follows(l, sn["followUp"], fu)

(* They say the same. *)
LEMMA OrderedIs ==
  /\ OrderInv <=> Ordered(Line, sent, steering, followUp)
  /\ OrderInv' <=> Ordered(Line', sent', steering', followUp')
<1>1. OrderInv <=> Ordered(Line, sent, steering, followUp)
  BY DEF OrderInv, Ordered, SentOnce, Unlike, Accepted, AllOf
<1>2. OrderInv' <=> Ordered(Line', sent', steering', followUp')
  BY DEF OrderInv, Ordered, SentOnce, Unlike, Accepted, AllOf, Queued, Known, Contiguous, Follows,
         QueueOrder, Before, At, Range, User
<1> QED BY <1>1, <1>2

(* What the batches sent have to do with each other and with the queues. *)
LEMMA SentFacts ==
  ASSUME NEW sn \in [Operations -> Seq(Batches)], Unlike(sn)
  PROVE  /\ \A op \in Operations : Single(sn[op])
         /\ \A op, oq \in Operations : op # oq => Range(sn[op]) \cap Range(sn[oq]) = {}
         /\ \A op \in Operations : \A b \in Range(sn[op]) : Range(b) \subseteq AllOf(sn)
         /\ \A op \in Operations, q \in Seq(Batches) :
              QueueOrder(q, sn[op]) => Queued(q) \subseteq AllOf(sn)
<1>1. \A op \in Operations : Single(sn[op])
  BY DEF Unlike, Single
<1>2. \A op, oq \in Operations : op # oq => Range(sn[op]) \cap Range(sn[oq]) = {}
  BY DEF Unlike, Range
<1>3. ASSUME NEW op \in Operations, NEW b \in Range(sn[op]) PROVE Range(b) \subseteq AllOf(sn)
  <2>1. PICK k \in DOMAIN sn[op] : b = sn[op][k]
    BY DEF Range
  <2>2. op \in DOMAIN sn
    OBVIOUS
  <2> QED BY <2>1, <2>2 DEF AllOf
<1>4. ASSUME NEW op \in Operations, NEW q \in Seq(Batches), QueueOrder(q, sn[op])
      PROVE  Queued(q) \subseteq AllOf(sn)
  <2>1. Queued(q) = UNION {Range(b) : b \in Range(q)}
    BY DEF Queued, Range
  <2>2. Range(q) \subseteq Range(sn[op])
    BY <1>4 DEF QueueOrder
  <2> QED BY <1>3, <2>1, <2>2
<1> QED BY <1>1, <1>2, <1>3, <1>4

(* A new batch is sent. *)
LEMMA SentNew ==
  ASSUME NEW sn \in [Operations -> Seq(Batches)], Unlike(sn), NEW op \in Operations,
         NEW e \in Batches, Range(e) \cap AllOf(sn) = {}
  PROVE  LET s2 == [sn EXCEPT ![op] = Append(sn[op], e)]
         IN  /\ Unlike(s2) /\ AllOf(sn) \cup Range(e) \subseteq AllOf(s2)
             /\ \A o \in Operations : e \notin Range(sn[o])
             /\ s2[op] = Append(sn[op], e) /\ \A o \in Operations : o # op => s2[o] = sn[o]
<1> DEFINE s2 == [sn EXCEPT ![op] = Append(sn[op], e)]
           t == Append(sn[op], e)
<1>1. ASSUME NEW o \in Operations, e \in Range(sn[o]) PROVE FALSE
  <2>1. Range(e) \subseteq AllOf(sn)
    BY <1>1, SentFacts
  <2>2. e \in Seq(Msgs) /\ e # << >>
    BY LoopAssumption
  <2>3. e[1] \in Range(e)
    BY <2>2, RangeFacts
  <2> QED BY <2>1, <2>3
<1>2. s2[op] = t /\ (\A o \in Operations : o # op => s2[o] = sn[o]) /\ DOMAIN s2 = Operations
  OBVIOUS
<1>3. /\ t \in Seq(Batches) /\ Range(t) = Range(sn[op]) \cup {e} /\ Single(t)
  <2>1. Single(sn[op]) /\ e \notin Range(sn[op]) /\ sn[op] \in Seq(Batches)
    BY <1>1, SentFacts
  <2> QED BY <2>1, SentMore
<1> HIDE DEF s2, t
<1>4. ASSUME NEW o \in Operations, NEW oq \in Operations, o # oq
      PROVE  Range(s2[o]) \cap Range(s2[oq]) = {}
  <2>1. Range(sn[o]) \cap Range(sn[oq]) = {} /\ e \notin Range(sn[o]) /\ e \notin Range(sn[oq])
    BY <1>1, <1>4, SentFacts
  <2>2. CASE o = op
    <3>1. Range(s2[o]) = Range(sn[o]) \cup {e} /\ s2[oq] = sn[oq]
      BY <1>2, <1>3, <1>4, <2>2
    <3> QED BY <2>1, <3>1
  <2>3. CASE oq = op
    <3>1. Range(s2[oq]) = Range(sn[oq]) \cup {e} /\ s2[o] = sn[o]
      BY <1>2, <1>3, <1>4, <2>3
    <3> QED BY <2>1, <3>1
  <2>4. CASE o # op /\ oq # op
    BY <1>2, <2>1, <2>4
  <2> QED BY <2>2, <2>3, <2>4
<1>5. \A o \in Operations : Single(s2[o])
  BY <1>2, <1>3, SentFacts
<1>6. Unlike(s2)
  <2> SUFFICES ASSUME NEW o \in Operations, NEW oq \in Operations, NEW i \in DOMAIN s2[o],
                      NEW j \in DOMAIN s2[oq], s2[o][i] = s2[oq][j]
               PROVE  o = oq /\ i = j
    BY DEF Unlike
  <2>1. s2[o][i] \in Range(s2[o]) /\ s2[oq][j] \in Range(s2[oq])
    BY DEF Range
  <2>2. o = oq
    BY <1>4, <2>1
  <2> QED BY <1>5, <2>2 DEF Single
<1>7. ASSUME NEW o \in Operations, NEW b \in Range(s2[o]) PROVE Range(b) \subseteq AllOf(s2)
  <2>1. PICK k \in DOMAIN s2[o] : b = s2[o][k]
    BY DEF Range
  <2> QED BY <1>2, <2>1 DEF AllOf
<1>8. Range(e) \subseteq AllOf(s2)
  BY <1>2, <1>3, <1>7
<1>9. AllOf(sn) \subseteq AllOf(s2)
  <2>1. \A o \in Operations : Range(sn[o]) \subseteq Range(s2[o])
    BY <1>2, <1>3
  <2>2. \A o \in DOMAIN sn : o \in Operations /\ \A k \in DOMAIN sn[o] : sn[o][k] \in Range(sn[o])
    BY DEF Range
  <2> QED BY <1>7, <2>1, <2>2 DEF AllOf
<1> QED BY <1>1, <1>2, <1>6, <1>8, <1>9 DEF s2, t

(* The changes of the line that a step can make keep the order. *)
LEMMA OrderedKeep ==
  ASSUME NEW l, NEW l2, NEW sn, NEW st, NEW st2, NEW fu, NEW fu2, Ordered(l, sn, st, fu),
         Keeps(l, l2), \E g : Picks(st2, st, g), \E g : Picks(fu2, fu, g)
  PROVE  Ordered(l2, sn, st2, fu2)
<1> DEFINE A == AllOf(sn) \ (Queued(st) \cup Queued(fu))
           A2 == AllOf(sn) \ (Queued(st2) \cup Queued(fu2))
<1>1. /\ Range(st2) \subseteq Range(st) /\ Queued(st2) \subseteq Queued(st)
      /\ Range(fu2) \subseteq Range(fu) /\ Queued(fu2) \subseteq Queued(fu)
      /\ QueueOrder(st2, sn["steer"]) /\ QueueOrder(fu2, sn["followUp"])
  BY PicksOrder DEF Ordered
<1>2. A \subseteq A2
  BY <1>1
<1>3. Known(l, A) /\ Contiguous(l) /\ Follows(l, sn["steer"], st) /\ Follows(l, sn["followUp"], fu)
  BY DEF Ordered
<1> HIDE DEF A, A2
<1>4. Known(l2, A2) /\ Contiguous(l2) /\ Follows(l2, sn["steer"], st2)
  BY <1>1, <1>2, <1>3, KeepsOrder
<1>5. Follows(l2, sn["followUp"], fu2)
  BY <1>1, <1>2, <1>3, KeepsOrder
<1> QED BY <1>1, <1>4, <1>5 DEF Ordered, A2

(* A drain of either queue. *)
LEMMA OrderedDrain ==
  ASSUME NEW l \in Seq(Messages), NEW sn \in [Operations -> Seq(Batches)],
         NEW st \in Seq(Batches), NEW fu \in Seq(Batches), Ordered(l, sn, st, fu)
  PROVE  /\ Ordered(l \o Users(Drained(st)), sn, Remaining(st), fu)
         /\ Ordered(l \o Users(Drained(fu)), sn, st, Remaining(fu))
<1> DEFINE A == AllOf(sn)
           s == sn["steer"]
           f == sn["followUp"]
<1>1. /\ s \in Seq(Batches) /\ f \in Seq(Batches) /\ Single(s) /\ Single(f)
      /\ Range(s) \cap Range(f) = {} /\ Queued(st) \subseteq A /\ Queued(fu) \subseteq A
  BY SentFacts DEF Operations, Ordered
<1>2. /\ QueueOrder(st, s) /\ QueueOrder(fu, f) /\ Known(l, A \ (Queued(st) \cup Queued(fu)))
      /\ Contiguous(l) /\ Follows(l, s, st) /\ Follows(l, f, fu) /\ Unlike(sn)
  BY DEF Ordered
<1> HIDE DEF A, s, f
<1>3. Ordered(l \o Users(Drained(st)), sn, Remaining(st), fu)
  <2> DEFINE l2 == l \o Users(Drained(st))
             r == Remaining(st)
  <2>1. /\ QueueOrder(r, s) /\ Known(l2, A \ (Queued(r) \cup Queued(fu)))
        /\ Contiguous(l2) /\ Follows(l2, s, r) /\ Follows(l2, f, fu)
    BY <1>1, <1>2, LineDrain
  <2> HIDE DEF l2, r
  <2>2. Ordered(l2, sn, r, fu)
    BY <1>2, <2>1 DEF Ordered, A, s, f
  <2> QED BY <2>2 DEF l2, r
<1>4. Ordered(l \o Users(Drained(fu)), sn, st, Remaining(fu))
  <2> DEFINE l2 == l \o Users(Drained(fu))
             r == Remaining(fu)
  <2>1. Range(f) \cap Range(s) = {} /\ Known(l, A \ (Queued(fu) \cup Queued(st)))
    <3>1. Queued(fu) \cup Queued(st) = Queued(st) \cup Queued(fu)
      OBVIOUS
    <3> QED BY <1>1, <1>2, <3>1
  <2>2. /\ QueueOrder(r, f) /\ Known(l2, A \ (Queued(r) \cup Queued(st)))
        /\ Contiguous(l2) /\ Follows(l2, f, r) /\ Follows(l2, s, st)
    BY <1>1, <1>2, <2>1, LineDrain
  <2> HIDE DEF l2, r
  <2>3. Queued(r) \cup Queued(st) = Queued(st) \cup Queued(r)
    OBVIOUS
  <2>4. Ordered(l2, sn, st, r)
    BY <1>2, <2>2, <2>3 DEF Ordered, A, s, f
  <2> QED BY <2>4 DEF l2, r
<1> QED BY <1>3, <1>4

(* A new batch, straight to the line or to a queue. *)
LEMMA OrderedNew ==
  ASSUME NEW l \in Seq(Messages), NEW sn \in [Operations -> Seq(Batches)],
         NEW st \in Seq(Batches), NEW fu \in Seq(Batches), Ordered(l, sn, st, fu),
         NEW op \in Operations, NEW e \in Batches, Range(e) \cap AllOf(sn) = {},
         NEW s2, s2 = [sn EXCEPT ![op] = Append(sn[op], e)]
  PROVE  /\ op \in {"prompt", "continuation"} => Ordered(l \o Users(e), s2, st, fu)
         /\ op = "steer" => Ordered(l, s2, Append(st, e), fu)
         /\ op = "followUp" => Ordered(l, s2, st, Append(fu, e))
<1> DEFINE A == AllOf(sn)
           Q == Queued(st) \cup Queued(fu)
           s == sn["steer"]
           f == sn["followUp"]
<1>0. Unlike(sn)
  BY DEF Ordered
<1>1. /\ s \in Seq(Batches) /\ f \in Seq(Batches) /\ Single(s) /\ Single(f) /\ Q \subseteq A
  BY <1>0, SentFacts DEF Operations, Ordered
<1>2. /\ QueueOrder(st, s) /\ QueueOrder(fu, f) /\ Known(l, A \ Q)
      /\ Contiguous(l) /\ Follows(l, s, st) /\ Follows(l, f, fu)
  BY DEF Ordered
<1>3. /\ Unlike(s2) /\ A \cup Range(e) \subseteq AllOf(s2) /\ e \notin Range(s) /\ e \notin Range(f)
      /\ s2[op] = Append(sn[op], e) /\ (\A o \in Operations : o # op => s2[o] = sn[o])
      /\ Range(e) \cap A = {}
  BY <1>0, SentNew DEF Operations
<1> HIDE DEF A, Q, s, f
<1>4. ASSUME op \in {"prompt", "continuation"} PROVE Ordered(l \o Users(e), s2, st, fu)
  <2> DEFINE l2 == l \o Users(e)
  <2>1. /\ Known(l2, (A \cup Range(e)) \ Q) /\ Contiguous(l2)
        /\ Follows(l2, s, st) /\ Follows(l2, f, fu)
    BY <1>1, <1>2, <1>3, LineAdd
  <2> HIDE DEF l2
  <2>2. s2["steer"] = s /\ s2["followUp"] = f
    BY <1>3, <1>4 DEF Operations, s, f
  <2>3. Known(l2, AllOf(s2) \ Q)
    BY <1>3, <2>1 DEF Known
  <2>4. Ordered(l2, s2, st, fu)
    BY <1>2, <1>3, <2>1, <2>2, <2>3 DEF Ordered, Q
  <2> QED BY <2>4 DEF l2
<1>5. ASSUME op = "steer" PROVE Ordered(l, s2, Append(st, e), fu)
  <2> DEFINE q == Append(st, e)
             t == Append(s, e)
  <2>1. /\ QueueOrder(q, t) /\ Follows(l, t, q) /\ Queued(q) = Queued(st) \cup Range(e)
        /\ Known(l, (A \cup Range(e)) \ (Q \cup Range(e)))
    BY <1>1, <1>2, <1>3, LineSend
  <2> HIDE DEF q, t
  <2>2. s2["steer"] = t /\ s2["followUp"] = f
    BY <1>3, <1>5 DEF Operations, s, f, t
  <2>3. Known(l, AllOf(s2) \ (Queued(q) \cup Queued(fu)))
    <3>1. (A \cup Range(e)) \ (Q \cup Range(e)) \subseteq AllOf(s2) \ (Queued(q) \cup Queued(fu))
      BY <1>3, <2>1 DEF Q
    <3> QED BY <2>1, <3>1 DEF Known
  <2>4. Ordered(l, s2, q, fu)
    BY <1>2, <1>3, <2>1, <2>2, <2>3 DEF Ordered
  <2> QED BY <2>4 DEF q
<1>6. ASSUME op = "followUp" PROVE Ordered(l, s2, st, Append(fu, e))
  <2> DEFINE q == Append(fu, e)
             t == Append(f, e)
  <2>1. /\ QueueOrder(q, t) /\ Follows(l, t, q) /\ Queued(q) = Queued(fu) \cup Range(e)
        /\ Known(l, (A \cup Range(e)) \ (Q \cup Range(e)))
    BY <1>1, <1>2, <1>3, LineSend
  <2> HIDE DEF q, t
  <2>2. s2["steer"] = s /\ s2["followUp"] = t
    BY <1>3, <1>6 DEF Operations, s, f, t
  <2>3. Known(l, AllOf(s2) \ (Queued(st) \cup Queued(q)))
    <3>1. (A \cup Range(e)) \ (Q \cup Range(e)) \subseteq AllOf(s2) \ (Queued(st) \cup Queued(q))
      BY <1>3, <2>1 DEF Q
    <3> QED BY <2>1, <3>1 DEF Known
  <2>4. Ordered(l, s2, st, q)
    BY <1>2, <1>3, <2>1, <2>2, <2>3 DEF Ordered
  <2> QED BY <2>4 DEF q
<1> QED BY <1>4, <1>5, <1>6

(* The line in terms of what the loop has in hand. *)
LineOf(ms, p, pe, dr) == ms \o Users(IF p = "finish" THEN << >> ELSE pe \o dr)

(* What a step can drop from it or put in its place. *)
LEMMA LineForms ==
  ASSUME NEW ms \in Seq(Messages), NEW p, NEW pe \in Seq(Msgs), NEW dr \in Seq(Msgs)
  PROVE  LET l == LineOf(ms, p, pe, dr) IN
         /\ l \in Seq(Messages)
         /\ p = "finish" \/ (pe = << >> /\ dr = << >>) => l = ms
         /\ p # "finish" /\ dr = << >> => l = ms \o Users(pe)
         /\ p # "finish" /\ pe = << >> => l = ms \o Users(dr)
         /\ Keeps(l, l) /\ Keeps(l, ms)
         /\ \A x \in Messages : x.role \notin {"user", "custom"} => Keeps(l, Append(ms, x))
<1> DEFINE l == LineOf(ms, p, pe, dr)
           h == IF p = "finish" THEN << >> ELSE pe \o dr
<1>1. h \in Seq(Msgs) /\ << >> \in Seq(Msgs)
  OBVIOUS
<1>2. /\ p = "finish" \/ (pe = << >> /\ dr = << >>) => h = << >>
      /\ p # "finish" /\ dr = << >> => h = pe
      /\ p # "finish" /\ pe = << >> => h = dr
  OBVIOUS
<1>3. l = ms \o Users(h) /\ ms \o Users(<< >>) = ms
  BY <1>1, UsersShift DEF LineOf
<1> HIDE DEF h, l
<1> DEFINE u == Users(h)
<1>4. u \in Seq(Messages)
  BY <1>1, UsersFacts
<1>5. l = ms \o u
  BY <1>3
<1> HIDE DEF u
<1>6. /\ l \in Seq(Messages) /\ Len(l) = Len(ms) + Len(u)
      /\ \A i \in 1 .. Len(ms) + Len(u) : l[i] = IF i <= Len(ms) THEN ms[i] ELSE u[i - Len(ms)]
  BY <1>4, <1>5, ConcatProperties
<1>7. \A i \in DOMAIN ms : i \in DOMAIN l /\ ms[i] = l[i]
  <2>1. Len(ms) \in Nat /\ Len(u) \in Nat /\ DOMAIN ms = 1 .. Len(ms) /\ DOMAIN l = 1 .. Len(l)
    BY <1>4, <1>6
  <2> QED BY <1>6, <2>1
<1>8. Keeps(l, l) /\ Keeps(l, ms)
  BY <1>7 DEF Keeps
<1>9. ASSUME NEW x \in Messages, x.role \notin {"user", "custom"} PROVE Keeps(l, Append(ms, x))
  <2> DEFINE t == Append(ms, x)
  <2>1. /\ Len(ms) \in Nat /\ DOMAIN ms = 1 .. Len(ms) /\ DOMAIN t = 1 .. Len(ms) + 1
        /\ t[Len(ms) + 1] = x /\ \A i \in 1 .. Len(ms) : t[i] = ms[i]
    BY AppendProperties
  <2> HIDE DEF t
  <2>2. \A i \in DOMAIN t : i \in DOMAIN ms \/ i = Len(ms) + 1
    BY <2>1
  <2>3. Keeps(l, t)
    BY <1>7, <1>9, <2>1, <2>2 DEF Keeps
  <2> QED BY <2>3 DEF t
<1> QED BY <1>2, <1>3, <1>6, <1>8, <1>9 DEF l

(* A queue keeps its own batches when it does not change, and none when it is
   cleared. *)
LEMMA PicksSame ==
  ASSUME NEW q
  PROVE  (\E g : Picks(q, q, g)) /\ (\E g : Picks(<< >>, q, g))
<1>1. Picks(q, q, [k \in DOMAIN q |-> k])
  BY DEF Picks
<1>2. Picks(<< >>, q, << >>)
  BY DEF Picks
<1> QED BY <1>1, <1>2

(* The line before and after a step. *)
LEMMA LineNow ==
  ASSUME Typed, Typed'
  PROVE  /\ Line \in Seq(Messages) /\ Line' \in Seq(Messages)
         /\ pc = "finish" \/ (pending = << >> /\ drained = << >>) => Line = messages
         /\ pc # "finish" /\ drained = << >> => Line = messages \o Users(pending)
         /\ pc # "finish" /\ pending = << >> => Line = messages \o Users(drained)
         /\ Keeps(Line, Line) /\ Keeps(Line, messages)
         /\ \A x \in Messages : x.role \notin {"user", "custom"} => Keeps(Line, Append(messages, x))
         /\ pc' = "finish" \/ (pending' = << >> /\ drained' = << >>) => Line' = messages'
         /\ pc' # "finish" /\ drained' = << >> => Line' = messages' \o Users(pending')
         /\ pc' # "finish" /\ pending' = << >> => Line' = messages' \o Users(drained')
         /\ UNCHANGED <<messages, pending, drained>> /\ (pc = "finish" <=> pc' = "finish")
              => Line' = Line
<1>1. /\ messages \in Seq(Messages) /\ pending \in Seq(Msgs) /\ drained \in Seq(Msgs)
      /\ messages' \in Seq(Messages) /\ pending' \in Seq(Msgs) /\ drained' \in Seq(Msgs)
  BY DEF Typed, Texts, Hands
<1>2. /\ Line = LineOf(messages, pc, pending, drained)
      /\ Line' = LineOf(messages', pc', pending', drained')
  BY DEF Line, LineOf
<1> DEFINE l == LineOf(messages, pc, pending, drained)
           k == LineOf(messages', pc', pending', drained')
<1>4. /\ l \in Seq(Messages)
      /\ pc = "finish" \/ (pending = << >> /\ drained = << >>) => l = messages
      /\ pc # "finish" /\ drained = << >> => l = messages \o Users(pending)
      /\ pc # "finish" /\ pending = << >> => l = messages \o Users(drained)
      /\ Keeps(l, l) /\ Keeps(l, messages)
      /\ \A x \in Messages : x.role \notin {"user", "custom"} => Keeps(l, Append(messages, x))
  BY <1>1, LineForms
<1>5. /\ k \in Seq(Messages)
      /\ pc' = "finish" \/ (pending' = << >> /\ drained' = << >>) => k = messages'
      /\ pc' # "finish" /\ drained' = << >> => k = messages' \o Users(pending')
      /\ pc' # "finish" /\ pending' = << >> => k = messages' \o Users(drained')
  <2> DEFINE ms == messages'
             p == pc'
             pe == pending'
             dr == drained'
  <2>1. ms \in Seq(Messages) /\ pe \in Seq(Msgs) /\ dr \in Seq(Msgs)
    BY <1>1
  <2> HIDE DEF ms, p, pe, dr
  <2>2. /\ LineOf(ms, p, pe, dr) \in Seq(Messages)
        /\ p = "finish" \/ (pe = << >> /\ dr = << >>) => LineOf(ms, p, pe, dr) = ms
        /\ p # "finish" /\ dr = << >> => LineOf(ms, p, pe, dr) = ms \o Users(pe)
        /\ p # "finish" /\ pe = << >> => LineOf(ms, p, pe, dr) = ms \o Users(dr)
    BY <2>1, LineForms
  <2> QED BY <2>2 DEF ms, p, pe, dr
<1>6. UNCHANGED <<messages, pending, drained>> /\ (pc = "finish" <=> pc' = "finish") => k = l
  BY DEF LineOf
<1> HIDE DEF l, k
<1>7. Line = l /\ Line' = k
  BY <1>2 DEF l, k
<1> QED BY <1>4, <1>5, <1>6, <1>7

(* A run begins in the idle state, with messages that the line gets. *)
LEMMA LineBegins ==
  ASSUME Typed, Typed', InHand, NEW ps, NEW b, RunWithLifecycle(ps, b)
  PROVE  Line = messages /\ Line' = messages \o Users(ps)
<1>1. pc = "idle" /\ pc' = "prompts" /\ UNCHANGED <<drained, messages>> /\ pending' = ps
  BY DEF RunWithLifecycle
<1>2. pending = << >> /\ drained = << >>
  BY <1>1 DEF InHand, Waits
<1> QED BY <1>1, <1>2, LineNow

(* What a step does to the line, the batches sent and the queues. *)
Same == UNCHANGED <<Line, sent, steering, followUp>>
Drops == Keeps(Line, Line') /\ UNCHANGED <<sent, steering, followUp>>
Removes == /\ UNCHANGED <<Line, sent>>
           /\ (\E g : Picks(steering', steering, g)) /\ (\E g : Picks(followUp', followUp, g))
Drains ==
  /\ UNCHANGED sent
  /\ \/ /\ Line' = Line \o Users(Drained(steering))
        /\ steering' = Remaining(steering) /\ UNCHANGED followUp
     \/ /\ Line' = Line \o Users(Drained(followUp))
        /\ followUp' = Remaining(followUp) /\ UNCHANGED steering
Sends(b) ==
  \/ /\ (Send("prompt", b) \/ Send("continuation", b))
     /\ Line' = Line \o Users(b) /\ UNCHANGED <<steering, followUp>>
  \/ Send("steer", b) /\ steering' = Append(steering, b) /\ UNCHANGED <<Line, followUp>>
  \/ Send("followUp", b) /\ followUp' = Append(followUp, b) /\ UNCHANGED <<Line, steering>>

(* Each of these keeps the order. *)
LEMMA OrderKept ==
  ASSUME Typed, Typed', OrderInv,
         Same \/ Drops \/ Removes \/ Drains \/ \E b \in Batches : Sends(b)
  PROVE  OrderInv'
<1>1. /\ sent \in [Operations -> Seq(Batches)] /\ steering \in Seq(Batches)
      /\ followUp \in Seq(Batches) /\ Line \in Seq(Messages) /\ Keeps(Line, Line)
  BY LineNow DEF Typed, Hands
<1>2. Ordered(Line, sent, steering, followUp)
  BY OrderedIs
<1> SUFFICES Ordered(Line', sent', steering', followUp')
  BY OrderedIs
<1> DEFINE l == Line
           k == Line'
<1>3. l \in Seq(Messages) /\ Keeps(l, l) /\ Ordered(l, sent, steering, followUp)
  BY <1>1, <1>2
<1> HIDE DEF l, k
<1>4. CASE Same \/ Drops
  <2>1. Keeps(l, k) /\ sent' = sent /\ steering' = steering /\ followUp' = followUp
    BY <1>3, <1>4 DEF Same, Drops, l, k
  <2>2. Ordered(k, sent, steering, followUp)
    BY <1>3, <2>1, PicksSame, OrderedKeep
  <2> QED BY <2>1, <2>2 DEF k
<1>5. CASE Removes
  <2>1. k = l /\ sent' = sent /\ (\E g : Picks(steering', steering, g))
        /\ \E g : Picks(followUp', followUp, g)
    BY <1>5 DEF Removes, l, k
  <2>2. Ordered(l, sent, steering', followUp')
    BY <1>3, <2>1, OrderedKeep
  <2> QED BY <2>1, <2>2 DEF k
<1>6. CASE Drains
  <2>1. /\ Ordered(l \o Users(Drained(steering)), sent, Remaining(steering), followUp)
        /\ Ordered(l \o Users(Drained(followUp)), sent, steering, Remaining(followUp))
    BY <1>1, <1>3, OrderedDrain
  <2>2. /\ sent' = sent
        /\ \/ /\ k = l \o Users(Drained(steering))
              /\ steering' = Remaining(steering) /\ followUp' = followUp
           \/ /\ k = l \o Users(Drained(followUp))
              /\ followUp' = Remaining(followUp) /\ steering' = steering
    BY <1>6 DEF Drains, l, k
  <2> QED BY <2>1, <2>2 DEF k
<1>7. ASSUME NEW b \in Batches, Sends(b) PROVE Ordered(k, sent', steering', followUp')
  <2>1. PICK op \in Operations :
          /\ Send(op, b)
          /\ \/ /\ op \in {"prompt", "continuation"} /\ k = l \o Users(b)
                /\ steering' = steering /\ followUp' = followUp
             \/ op = "steer" /\ steering' = Append(steering, b) /\ k = l /\ followUp' = followUp
             \/ op = "followUp" /\ followUp' = Append(followUp, b) /\ k = l /\ steering' = steering
    BY <1>7 DEF Sends, Operations, l, k
  <2>2. Range(b) \cap AllOf(sent) = {} /\ sent' = [sent EXCEPT ![op] = Append(sent[op], b)]
    BY <2>1 DEF Send, Unused, Accepted, AllOf
  <2>3. /\ op \in {"prompt", "continuation"} => Ordered(l \o Users(b), sent', steering, followUp)
        /\ op = "steer" => Ordered(l, sent', Append(steering, b), followUp)
        /\ op = "followUp" => Ordered(l, sent', steering, Append(followUp, b))
    BY <1>1, <1>3, <2>2, OrderedNew
  <2> QED BY <2>1, <2>3
<1> QED BY <1>4, <1>5, <1>6, <1>7 DEF k

(* Every step does one of these. *)
LEMMA OrderStep ==
  ASSUME Typed, InHand, OrderInv, Next
  PROVE  OrderInv'
<1>0. Typed'
  BY TypedStep
<1>1. /\ messages \in Seq(Messages) /\ pending \in Seq(Msgs) /\ steering \in Seq(Batches)
      /\ followUp \in Seq(Batches) /\ results \in Nat /\ MaxCalls \in Nat /\ ToolModes \subseteq BOOLEAN
  BY LoopAssumption DEF Typed, Texts, Hands, Tools
<1>2. ASSUME UNCHANGED <<messages, pending, drained, sent, steering, followUp>>,
             pc = "finish" <=> pc' = "finish"
      PROVE  Same
  BY <1>0, <1>2, LineNow DEF Same
<1>3. ASSUME NEW x \in Messages, x.role \notin {"user", "custom"},
             messages' = Append(messages, x), UNCHANGED <<sent, steering, followUp>>,
             pc' = "finish" \/ (pending' = << >> /\ drained' = << >>)
      PROVE  Drops
  <2>1. Line' = Append(messages, x) /\ Keeps(Line, Append(messages, x))
    BY <1>0, <1>3, LineNow
  <2> QED BY <1>3, <2>1 DEF Drops
<1>4. ASSUME UNCHANGED <<messages, sent, steering, followUp>>, pending' = << >>, drained' = << >>
      PROVE  Drops
  <2>1. Line' = messages /\ Keeps(Line, messages)
    BY <1>0, <1>4, LineNow
  <2> QED BY <1>4, <2>1 DEF Drops
<1>5. ASSUME NEW b \in Batches, Prompt(b) PROVE Sends(b)
  <2>1. Send("prompt", b) /\ UNCHANGED <<steering, followUp>> /\ RunWithLifecycle(b, FALSE)
    BY <1>5 DEF Prompt, queues
  <2>2. Line' = Line \o Users(b)
    BY <1>0, <2>1, LineBegins
  <2> QED BY <2>1, <2>2 DEF Sends
<1>6. CASE Continue
  <2>1. CASE RunQueuedMessages
    <3>1. UNCHANGED sent
      BY <2>1 DEF RunQueuedMessages
    <3>2. ASSUME steering' = Remaining(steering), UNCHANGED followUp,
                 RunWithLifecycle(Drained(steering), TRUE)
          PROVE  Drains
      <4>1. Line' = Line \o Users(Drained(steering))
        BY <1>0, <3>2, LineBegins
      <4> QED BY <3>1, <3>2, <4>1 DEF Drains
    <3>3. ASSUME followUp' = Remaining(followUp), UNCHANGED steering,
                 RunWithLifecycle(Drained(followUp), FALSE)
          PROVE  Drains
      <4>1. Line' = Line \o Users(Drained(followUp))
        BY <1>0, <3>3, LineBegins
      <4> QED BY <3>1, <3>3, <4>1 DEF Drains
    <3>4. Drains
      BY <2>1, <3>2, <3>3 DEF RunQueuedMessages
    <3> QED BY <1>0, <3>4, OrderKept
  <2>2. CASE RunWithLifecycle(<< >>, FALSE) /\ UNCHANGED <<queues, sent>>
    <3>1. Line' = Line
      <4>1. Line = messages /\ Line' = messages \o Users(<< >>)
        BY <1>0, <2>2, LineBegins
      <4> QED BY <1>1, <4>1, UsersShift
    <3>2. Same
      BY <2>2, <3>1 DEF Same, queues
    <3> QED BY <1>0, <3>2, OrderKept
  <2> QED BY <1>6, <2>1, <2>2 DEF Continue
<1>7. ASSUME NEW b \in Batches, Steer(b) \/ FollowUp(b) PROVE Sends(b)
  <2>1. UNCHANGED <<messages, pending, drained, pc>>
    BY <1>7 DEF Steer, FollowUp, loop
  <2>2. UNCHANGED Line
    BY <1>0, <2>1, LineNow
  <2> QED BY <1>7, <2>2 DEF Steer, FollowUp, Sends
<1>8. CASE ClearAllQueues \/ \E m \in Msgs : RemoveQueuedMessages(m)
  <2>1. UNCHANGED <<messages, pending, drained, pc, sent>>
    BY <1>8 DEF ClearAllQueues, RemoveQueuedMessages, loop
  <2>2. UNCHANGED Line
    BY <1>0, <2>1, LineNow
  <2>3. (\E g : Picks(steering', steering, g)) /\ (\E g : Picks(followUp', followUp, g))
    BY <1>1, <1>8, PicksSame, RemovalPicks DEF ClearAllQueues, RemoveQueuedMessages
  <2>4. Removes
    BY <2>1, <2>2, <2>3 DEF Removes
  <2> QED BY <1>0, <2>4, OrderKept
<1>9. ASSUME Abort \/ OrphanFinishes PROVE Same
  BY <1>2, <1>9 DEF Abort, OrphanFinishes, loop, queues, history
<1>10. CASE EmitPrompt \/ Inject
  <2>1. /\ pc \in {"prompts", "inject"} /\ pc' = pc /\ pending # << >> /\ pending' = Tail(pending)
        /\ messages' = Append(messages, User(Head(pending)))
        /\ UNCHANGED <<drained, sent, steering, followUp>>
    BY <1>10 DEF EmitPrompt, Inject, queues, Unmoved
  <2>2. drained = << >> /\ pc # "finish"
    BY <2>1 DEF InHand, Waits
  <2>3. Line = messages \o Users(pending) /\ Line' = messages' \o Users(pending')
    BY <1>0, <2>1, <2>2, LineNow
  <2>4. messages \o Users(pending) = messages' \o Users(pending')
    BY <1>1, <2>1, UsersShift
  <2>5. Same
    BY <2>1, <2>3, <2>4 DEF Same
  <2> QED BY <1>0, <2>5, OrderKept
<1>11. CASE InitialPoll \/ PollSteering
  <2>1. /\ pc \in {"prompts", "steering"} /\ pc' \in {"initialWait", "steeringWait", "steered"}
        /\ (pc = "prompts" => pending = << >>)
        /\ UNCHANGED <<messages, pending, followUp, sent>>
        /\ \/ UNCHANGED <<drained, steering>>
           \/ drained' = Drained(steering) /\ steering' = Remaining(steering)
    BY <1>11 DEF InitialPoll, PollSteering, Quiet, Unmoved
  <2>2. pending = << >> /\ drained = << >> /\ pc # "finish" /\ pc' # "finish"
    BY <2>1 DEF InHand, Waits
  <2>3. CASE UNCHANGED <<drained, steering>>
    BY <1>0, <1>2, <2>1, <2>2, <2>3, OrderKept
  <2>4. CASE drained' = Drained(steering) /\ steering' = Remaining(steering)
    <3>1. Line = messages /\ Line' = messages \o Users(Drained(steering))
      BY <1>0, <2>1, <2>2, <2>4, LineNow
    <3>2. Drains
      BY <2>1, <2>4, <3>1 DEF Drains
    <3> QED BY <1>0, <3>2, OrderKept
  <2> QED BY <2>1, <2>3, <2>4
<1>12. CASE PollFollowUp
  <2>1. /\ pc = "followUp" /\ pc' \in {"followUpWait", "followed"}
        /\ UNCHANGED <<messages, pending, steering, sent>>
        /\ \/ UNCHANGED <<drained, followUp>>
           \/ drained' = Drained(followUp) /\ followUp' = Remaining(followUp)
    BY <1>12 DEF PollFollowUp, Quiet, Unmoved
  <2>2. pending = << >> /\ drained = << >> /\ pc # "finish" /\ pc' # "finish"
    BY <2>1 DEF InHand, Waits
  <2>3. CASE UNCHANGED <<drained, followUp>>
    BY <1>0, <1>2, <2>1, <2>2, <2>3, OrderKept
  <2>4. CASE drained' = Drained(followUp) /\ followUp' = Remaining(followUp)
    <3>1. Line = messages /\ Line' = messages \o Users(Drained(followUp))
      BY <1>0, <2>1, <2>2, <2>4, LineNow
    <3>2. Drains
      BY <2>1, <2>4, <3>1 DEF Drains
    <3> QED BY <1>0, <3>2, OrderKept
  <2> QED BY <2>1, <2>3, <2>4
<1>13. ASSUME NEW s \in {"stop", "error", "aborted"}, NEW n \in Nat, NEW q \in BOOLEAN, Answer(s, n, q)
       PROVE  Drops
  <2>1. /\ pc = "streaming" /\ messages' = Append(messages, Assistant(s, n, q))
        /\ UNCHANGED <<pending, drained, sent, steering, followUp>>
    BY <1>13 DEF Answer, Unmoved, queues
  <2>2. pending' = << >> /\ drained' = << >>
    BY <2>1 DEF InHand, Waits
  <2>3. Assistant(s, n, q) \in Messages /\ Assistant(s, n, q).role = "assistant"
    BY MessageTypes
  <2> QED BY <1>3, <2>1, <2>2, <2>3
<1>14. ASSUME AbortedReply \/ ErrorReply PROVE Drops
  <2>1. \E s \in {"error", "aborted"}, n \in {0, MaxCalls} : Answer(s, n, FALSE)
    BY <1>14 DEF AbortedReply, ErrorReply, EndingReply
  <2> QED BY <1>1, <1>13, <2>1
<1>15. ASSUME NEW n \in 0 .. MaxCalls, Reply(n) PROVE Drops
  <2>1. \E q \in BOOLEAN : Answer("stop", n, q)
    BY <1>1, <1>15 DEF Reply
  <2> QED BY <1>1, <1>13, <2>1
<1>16. ASSUME EmitResult PROVE Drops
  <2>1. /\ pc = "tools" /\ messages' = Append(messages, Result(results + 1))
        /\ UNCHANGED <<pending, drained, sent, steering, followUp>>
    BY <1>16 DEF EmitResult, Executing, Unmoved, queues
  <2>2. pending' = << >> /\ drained' = << >>
    BY <2>1 DEF InHand, Waits
  <2>3. Result(results + 1) \in Messages /\ Result(results + 1).role = "toolResult"
    <3>1. results + 1 \in Nat
      BY <1>1
    <3> QED BY <3>1, MessageTypes
  <2> QED BY <1>3, <2>1, <2>2, <2>3
<1>17. ASSUME HandleRunFailure PROVE Drops
  <2> DEFINE x == Assistant(IF aborted THEN "aborted" ELSE "error", 0, FALSE)
  <2>1. pc' = "finish" /\ messages' = Append(messages, x) /\ UNCHANGED <<sent, steering, followUp>>
    BY <1>17 DEF HandleRunFailure, queues, history
  <2>2. x \in Messages /\ x.role = "assistant"
    <3>1. CASE aborted
      BY <3>1, MessageTypes
    <3>2. CASE ~aborted
      BY <3>2, MessageTypes
    <3> QED BY <3>1, <3>2
  <2> HIDE DEF x
  <2> QED BY <1>3, <2>1, <2>2
<1>18. ASSUME FinishRun PROVE Drops
  BY <1>4, <1>18 DEF FinishRun, queues, history
<1>19. ASSUME PollRejected PROVE Drops
  <2>1. pc \in Waits /\ drained' = << >> /\ UNCHANGED <<messages, pending, sent, steering, followUp>>
    BY <1>19 DEF PollRejected, Quiet, Unmoved, queues
  <2>2. pending' = << >>
    BY <2>1 DEF InHand, Waits
  <2> QED BY <1>4, <2>1, <2>2
<1>20. CASE PollResolved
  <2>1. /\ pc \in Waits /\ pending' = drained /\ drained' = << >>
        /\ UNCHANGED <<messages, sent, steering, followUp>>
    BY <1>20 DEF PollResolved, Quiet, Unmoved, queues
  <2>2. pc # "finish" /\ pc' # "finish" /\ pending = << >>
    <3>1. pending = << >> /\ pc # "finish"
      BY <2>1 DEF InHand, Waits
    <3>2. CASE pc = "initialWait"
      BY <1>20, <3>1, <3>2 DEF PollResolved, BeginTurn
    <3>3. CASE pc = "steeringWait"
      BY <1>20, <3>1, <3>3 DEF PollResolved
    <3>4. CASE pc = "followUpWait"
      BY <1>20, <3>1, <3>4 DEF PollResolved
    <3> QED BY <2>1, <3>1, <3>2, <3>3, <3>4 DEF Waits
  <2>3. Line = messages \o Users(drained) /\ Line' = messages' \o Users(pending')
    BY <1>0, <2>1, <2>2, LineNow
  <2>4. Same
    BY <2>1, <2>3 DEF Same
  <2> QED BY <1>0, <2>4, OrderKept
<1>21. ASSUME NEW b \in Batches, Continuation(b) PROVE Sends(b)
  <2>1. /\ pc = "contWait" /\ pc' \in {"failing", "inject"} /\ pending' = b
        /\ Send("continuation", b) /\ UNCHANGED <<messages, drained, steering, followUp>>
    BY <1>21 DEF Continuation, BeginTurn, queues
  <2>2. pending = << >> /\ drained = << >>
    BY <2>1 DEF InHand, Waits
  <2>3. Line = messages /\ Line' = messages \o Users(b)
    BY <1>0, <2>1, <2>2, LineNow
  <2> QED BY <2>1, <2>3 DEF Sends
<1>22. ASSUME \/ Request \/ StartCall \/ TakeResults \/ (\E i \in DOMAIN calls : FinishCall(i))
              \/ (\E i \in DOMAIN calls : FinishCallThrows(i))
       PROVE  Same
  <2>1. UNCHANGED <<messages, pending, drained, sent, steering, followUp>>
    BY <1>22 DEF Request, StartCall, TakeResults, FinishCall, FinishCallThrows, Executing, Unmoved,
                 queues
  <2>2. pc # "finish" /\ pc' # "finish"
    BY <1>22 DEF Request, StartCall, TakeResults, FinishCall, FinishCallThrows, Executing
  <2> QED BY <1>2, <2>1, <2>2
<1>23. ASSUME \/ TurnEnd \/ StopResumes \/ NoContinuation \/ Steered \/ Followed \/ AgentEnd
              \/ Throws
       PROVE  Same
  <2>1. UNCHANGED <<messages, pending, drained, sent, steering, followUp>>
    BY <1>23 DEF TurnEnd, StopResumes, NoContinuation, Steered, Followed, AgentEnd, Throws, Quiet,
                 Unmoved, queues, history
  <2>2. pc # "finish" /\ pc' # "finish"
    BY <1>23 DEF TurnEnd, StopResumes, NoContinuation, Steered, Followed, AgentEnd, Throws, Quiet,
                 FailPoints, BeginTurn
  <2> QED BY <1>2, <2>1, <2>2
<1>24. CASE \E b \in Batches : Prompt(b) \/ Steer(b) \/ FollowUp(b) \/ Continuation(b)
  BY <1>0, <1>5, <1>7, <1>21, <1>24, OrderKept
<1>25. CASE Same \/ Drops
  BY <1>0, <1>25, OrderKept
<1> QED BY <1>6, <1>8, <1>9, <1>10, <1>11, <1>12, <1>14, <1>15, <1>16, <1>17, <1>18, <1>19, <1>20,
           <1>22, <1>23, <1>24, <1>25 DEF Next, Caller, Own, Awaited, External

(* Nothing has been sent at first. *)
LEMMA OrderInitial ==
  ASSUME Init
  PROVE  OrderInv
<1>1. /\ sent = [op \in Operations |-> << >>] /\ steering = << >> /\ followUp = << >>
      /\ pc = "idle" /\ messages = << >> /\ pending = << >> /\ drained = << >>
  BY DEF Init, Operations
<1>2. Line = << >>
  <2>1. << >> \in Seq(Messages) /\ << >> \in Seq(Msgs)
    OBVIOUS
  <2>2. LineOf(messages, pc, pending, drained) = messages
    BY <1>1, <2>1, LineForms
  <2> QED BY <1>1, <2>2 DEF Line, LineOf
<1>3. \A op \in Operations : DOMAIN sent[op] = {}
  BY <1>1
<1>4. DOMAIN Line = {} /\ DOMAIN steering = {} /\ DOMAIN followUp = {}
  BY <1>1, <1>2
<1>5. Unlike(sent)
  BY <1>3 DEF Unlike
<1>6. QueueOrder(steering, sent["steer"]) /\ QueueOrder(followUp, sent["followUp"])
  BY <1>4 DEF QueueOrder, Range
<1>7. Known(Line, AllOf(sent) \ (Queued(steering) \cup Queued(followUp)))
  BY <1>4 DEF Known
<1>8. \A m : At(Line, m) = {}
  BY <1>4 DEF At
<1>9. /\ Contiguous(Line) /\ Follows(Line, sent["steer"], steering)
      /\ Follows(Line, sent["followUp"], followUp)
  BY <1>8 DEF Contiguous, Follows
<1> QED BY <1>5, <1>6, <1>7, <1>9, OrderedIs DEF Ordered

(* A line in order has the transcript as its beginning, and its order. *)
LEMMA OrderShows ==
  ASSUME Typed, OrderInv
  PROVE  DeliveredInOrder
<1> DEFINE A == AllOf(sent) \ (Queued(steering) \cup Queued(followUp))
<1>1. /\ messages \in Seq(Messages) /\ pending \in Seq(Msgs) /\ drained \in Seq(Msgs)
      /\ sent \in [Operations -> Seq(Batches)]
  BY DEF Typed, Texts, Hands
<1>2. Keeps(Line, messages)
  <2>1. Keeps(LineOf(messages, pc, pending, drained), messages)
    BY <1>1, LineForms
  <2> QED BY <2>1 DEF Line, LineOf
<1>3. /\ Known(Line, A) /\ Contiguous(Line) /\ Follows(Line, sent["steer"], steering)
      /\ Follows(Line, sent["followUp"], followUp)
  BY OrderedIs DEF Ordered
<1> HIDE DEF A
<1>4. /\ Known(messages, A) /\ Contiguous(messages) /\ Follows(messages, sent["steer"], steering)
      /\ Follows(messages, sent["followUp"], followUp)
  BY <1>2, <1>3, KeepsOrder
<1>5. A \subseteq Msgs
  <2>1. ASSUME NEW op \in DOMAIN sent, NEW k \in DOMAIN sent[op] PROVE Range(sent[op][k]) \subseteq Msgs
    <3>1. sent[op][k] \in Batches
      BY <1>1
    <3> QED BY <3>1, BatchMsgs
  <2> QED BY <2>1 DEF A, AllOf
<1>6. DOMAIN messages \subseteq Nat /\ \A b \in Batches : DOMAIN b \subseteq Nat
  BY <1>1, BatchFacts
<1>7. ASSUME NEW m \in Msgs, NEW p \in At(messages, m), NEW q \in At(messages, m) PROVE p = q
  <2>1. PICK b \in Batches : m \in Range(b)
    BY DEF Msgs
  <2>2. PICK j \in DOMAIN b : b[j] = m
    BY <2>1 DEF Range
  <2>3. p + j = q + j
    BY <1>4, <2>2 DEF Contiguous
  <2>4. p \in Nat /\ q \in Nat /\ j \in Nat
    BY <1>6 DEF At
  <2> QED BY <2>3, <2>4
<1>8. ASSUME NEW j \in DOMAIN messages, messages[j].role \in {"user", "custom"}
      PROVE  /\ messages[j].msg \in Msgs /\ messages[j] = User(messages[j].msg)
             /\ j \in At(messages, messages[j].msg)
  <2>1. PICK n \in A : messages[j] = User(n)
    BY <1>4, <1>8 DEF Known
  <2>2. n \in Msgs /\ User(n).msg = n
    BY <1>5, MessageTypes
  <2> QED BY <2>1, <2>2 DEF At
<1>9. ASSUME NEW m \in InTranscript PROVE m \in Msgs /\ Position(m) \in At(messages, m)
  <2>1. PICK j \in DOMAIN messages : messages[j].role \in {"user", "custom"} /\ m = messages[j].msg
    BY DEF InTranscript
  <2>2. m \in Msgs /\ messages[j] = User(m)
    BY <1>8, <2>1
  <2>3. Position(m) \in DOMAIN messages /\ messages[Position(m)] = User(m)
    BY <2>2 DEF Position
  <2> QED BY <2>2, <2>3 DEF At
<1>10. ASSUME NEW j \in DOMAIN messages, NEW k \in DOMAIN messages, j # k,
              messages[j].role \in {"user", "custom"}
       PROVE  messages[j] # messages[k]
  <2>1. SUFFICES ASSUME messages[j] = messages[k] PROVE FALSE
    OBVIOUS
  <2>2. PICK m \in Msgs : j \in At(messages, m) /\ k \in At(messages, m)
    BY <1>8, <1>10, <2>1
  <2> QED BY <1>7, <1>10, <2>2
<1>11. ASSUME NEW op \in {"steer", "followUp"}, NEW i \in DOMAIN sent[op], NEW j \in DOMAIN sent[op],
              i < j, NEW x \in Range(sent[op][i]) \cap InTranscript,
              NEW y \in Range(sent[op][j]) \cap InTranscript
       PROVE  Position(x) < Position(y)
  <2>1. sent[op] \in Seq(Batches)
    BY <1>1 DEF Operations
  <2>2. sent[op][i] \in Batches /\ sent[op][j] \in Batches
    BY <2>1
  <2>3. Before(sent[op], sent[op][i], sent[op][j])
    BY <1>11 DEF Before
  <2>4. Position(x) \in At(messages, x) /\ Position(y) \in At(messages, y)
    BY <1>9
  <2>5. CASE op = "steer"
    BY <1>4, <2>2, <2>3, <2>4, <2>5 DEF Follows
  <2>6. CASE op = "followUp"
    BY <1>4, <2>2, <2>3, <2>4, <2>6 DEF Follows
  <2> QED BY <2>5, <2>6
<1>12. ASSUME NEW b \in Batches, NEW j \in DOMAIN b, NEW k \in DOMAIN b,
              {b[j], b[k]} \subseteq InTranscript
       PROVE  Position(b[j]) + k = Position(b[k]) + j
  <2>1. Position(b[j]) \in At(messages, b[j]) /\ Position(b[k]) \in At(messages, b[k])
    BY <1>9, <1>12
  <2> QED BY <1>4, <2>1 DEF Contiguous
<1> QED BY <1>10, <1>11, <1>12 DEF DeliveredInOrder

(* The line of messages, from the transcript over what the loop has in hand
   to the two queues, stays in order: batches are given once, the queues hold
   them in the order of the calls, a batch reaches the line as a whole, and
   behind every batch of its queue that was given earlier and is in the line. *)
THEOREM OrderInvariance == Spec => []OrderInv
<1>1. Init => OrderInv
  BY OrderInitial
<1>2. LoopInv /\ OrderInv /\ [Next]_vars => OrderInv'
  <2> SUFFICES ASSUME LoopInv, OrderInv, [Next]_vars PROVE OrderInv'
    OBVIOUS
  <2>1. Typed /\ InHand
    BY TypedFacts DEF LoopInv
  <2>2. CASE Next
    BY <2>1, <2>2, OrderStep
  <2>3. CASE UNCHANGED vars
    <3>1. UNCHANGED <<pc, pending, drained, messages, sent, steering, followUp>>
      BY <2>3 DEF vars, loop, queues, history
    <3>2. UNCHANGED Line
      BY <3>1 DEF Line
    <3> QED BY <3>1, <3>2, OrderedIs
  <2> QED BY <2>2, <2>3
<1> QED BY <1>1, <1>2, LoopInvariance, PTL DEF Spec

(* Messages enter the transcript once, those of each queue in the order of
   the calls of steer and followUp, and those of a batch side by side, for any
   removals, aborts and failures in between and in both queue modes. *)
THEOREM DeliversInOrder == Spec => []DeliveredInOrder
<1>1. LoopInv /\ OrderInv => DeliveredInOrder
  BY TypedFacts, OrderShows DEF LoopInv
<1> QED BY <1>1, LoopInvariance, OrderInvariance, PTL
=============================================================================
