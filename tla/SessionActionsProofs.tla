------------------------ MODULE SessionActionsProofs ------------------------
(***************************************************************************)
(* Proofs that a session's store, tickets, checkpoint and navigation are   *)
(* as SessionActions says, for any prompts, commands, notes and outside    *)
(* operations; and, when some kinds of operation do not happen, that work  *)
(* is driven and not stranded, that what was refused stays out, and that   *)
(* prompts and notes are delivered once.                                   *)
(***************************************************************************)
EXTENDS SessionActions, SequenceTheorems, FiniteSetTheorems, WellFoundedInduction, TLAPS

-----------------------------------------------------------------------------
(* Flattened and filtered sequences *)

(* A non-empty set of positive numbers up to n has a least element. *)
LEMMA Least ==
  ASSUME NEW n \in Nat, NEW I \in SUBSET (1 .. n), I # {}
  PROVE  \E k \in I : \A i \in I : k <= i
<1>1. IsWellFoundedOn(OpToRel(<, Nat), Nat)
  BY NatLessThanWellFounded
<1>2. I \subseteq Nat
  OBVIOUS
<1>3. PICK k \in I : \A i \in I : ~(<<i, k>> \in OpToRel(<, Nat))
  BY <1>1, <1>2, WFMin
<1>4. ASSUME NEW i \in Nat, i < k PROVE <<i, k>> \in OpToRel(<, Nat)
  BY <1>2, <1>4 DEF OpToRel
<1>5. ASSUME NEW i \in I PROVE k <= i
  <2>1. i \in Nat /\ k \in Nat
    BY <1>2
  <2>2. ~(i < k)
    BY <1>3, <1>4, <2>1
  <2> QED BY <2>1, <2>2
<1> QED BY <1>5

(* h holds the first sequence, the first two put together ... up to n. *)
Joined(s, t) == s \o t
Piles(h, ss, n) ==
  /\ h = [i \in 1 .. n |-> h[i]] /\ h[1] = ss[1]
  /\ \A i \in 2 .. n : h[i] = Joined(h[i - 1], ss[i])

(* FlattenSeq piles the sequences up. *)
LEMMA FlattenPiles ==
  ASSUME NEW S, NEW ss \in Seq(S), Len(ss) # 0
  PROVE  \E h : Piles(h, ss, Len(ss)) /\ FlattenSeq(ss) = h[Len(ss)]
<1> DEFINE L == Len(ss)
           I == {n \in 1 .. L : ~ \E h : Piles(h, ss, n)}
<1>0. L \in Nat /\ L >= 1
  OBVIOUS
<1>1. \E h : Piles(h, ss, 1)
  <2>1. Piles([i \in 1 .. 1 |-> ss[1]], ss, 1)
    BY DEF Piles
  <2> QED BY <2>1
<1>2. ASSUME NEW n \in 2 .. L, NEW h, Piles(h, ss, n - 1)
      PROVE  \E g : Piles(g, ss, n)
  <2> DEFINE g == [i \in 1 .. n |-> IF i = n THEN Joined(h[n - 1], ss[n]) ELSE h[i]]
  <2>0. h[1] = ss[1] /\ \A i \in 2 .. n - 1 : h[i] = Joined(h[i - 1], ss[i])
    BY <1>2 DEF Piles
  <2>1. g = [i \in 1 .. n |-> g[i]] /\ g[1] = ss[1]
    BY <1>0, <2>0
  <2>2. ASSUME NEW i \in 2 .. n PROVE g[i] = Joined(g[i - 1], ss[i])
    <3>1. CASE i = n
      BY <1>0, <3>1
    <3>2. CASE i # n
      BY <1>0, <2>0, <3>2
    <3> QED BY <3>1, <3>2
  <2> HIDE DEF g
  <2> QED BY <2>1, <2>2 DEF Piles
<1>3. I = {}
  <2> SUFFICES ASSUME I # {} PROVE FALSE
    OBVIOUS
  <2>1. PICK n \in I : \A i \in I : n <= i
    <3>1. I \in SUBSET (1 .. L)
      OBVIOUS
    <3> HIDE DEF I, L
    <3> QED BY <1>0, <3>1, Least
  <2>2. n # 1
    BY <1>1
  <2>3. n \in 2 .. L /\ n - 1 \in 1 .. L /\ n - 1 \notin I
    BY <1>0, <2>1, <2>2
  <2>4. \E h : Piles(h, ss, n - 1)
    BY <2>3
  <2> QED BY <1>2, <2>3, <2>4
<1>4. PICK h : Piles(h, ss, L)
  <2> HIDE DEF L
  <2>1. L \in 1 .. L
    BY <1>0
  <2>2. L \notin I
    BY <1>3
  <2> QED BY <2>1, <2>2
<1> DEFINE IsFlat(f) == f = [i \in 1 .. L |-> IF i = 1 THEN ss[i] ELSE Joined(f[i - 1], ss[i])]
           c == CHOOSE f : IsFlat(f)
<1>5. IsFlat(h)
  <2> HIDE DEF L
  <2>1. h = [i \in 1 .. L |-> h[i]] /\ h[1] = ss[1]
    BY <1>4 DEF Piles
  <2>2. \A i \in 1 .. L : i # 1 => h[i] = Joined(h[i - 1], ss[i])
    <3>1. \A i \in 2 .. L : h[i] = Joined(h[i - 1], ss[i])
      BY <1>4 DEF Piles
    <3>2. \A i \in 1 .. L : i # 1 => i \in 2 .. L
      BY <1>0
    <3> QED BY <3>1, <3>2
  <2>3. \A i \in 1 .. L : h[i] = IF i = 1 THEN ss[i] ELSE Joined(h[i - 1], ss[i])
    BY <2>1, <2>2
  <2> QED BY <2>1, <2>3
<1>6. FlattenSeq(ss) = c[L]
  BY <1>0 DEF FlattenSeq, Joined
<1>7. IsFlat(c)
  BY <1>5
<1> HIDE DEF c
<1>8. Piles(c, ss, L)
  BY <1>0, <1>7 DEF Piles
<1> QED BY <1>6, <1>8

(* What is put together from sequences over T is one. *)
LEMMA FlattenType ==
  ASSUME NEW T, NEW ss \in Seq(Seq(T))
  PROVE  FlattenSeq(ss) \in Seq(T)
<1> DEFINE L == Len(ss)
<1>1. CASE L = 0
  BY <1>1 DEF FlattenSeq
<1>2. CASE L # 0
  <2>0. L \in Nat /\ L >= 1 /\ \A i \in 1 .. L : ss[i] \in Seq(T)
    BY <1>2
  <2>1. PICK h : Piles(h, ss, L) /\ FlattenSeq(ss) = h[L]
    BY <1>2, FlattenPiles
  <2> DEFINE I == {i \in 1 .. L : h[i] \notin Seq(T)}
  <2>2. I = {}
    <3> SUFFICES ASSUME I # {} PROVE FALSE
      OBVIOUS
    <3>1. PICK n \in I : \A i \in I : n <= i
      <4>1. I \in SUBSET (1 .. L)
        OBVIOUS
      <4> HIDE DEF I, L
      <4> QED BY <2>0, <4>1, Least
    <3>2. n \in 1 .. L /\ h[n] \notin Seq(T)
      OBVIOUS
    <3>3. CASE n = 1
      BY <2>0, <2>1, <3>2, <3>3 DEF Piles
    <3>4. CASE n # 1
      <4>1. n \in 2 .. L /\ n - 1 \in 1 .. L /\ ~(n <= n - 1)
        BY <2>0, <3>2, <3>4
      <4>2. h[n - 1] \in Seq(T)
        BY <3>1, <4>1
      <4>3. h[n] = h[n - 1] \o ss[n] /\ ss[n] \in Seq(T)
        BY <2>0, <2>1, <4>1 DEF Piles, Joined
      <4> QED BY <3>2, <4>2, <4>3
    <3> QED BY <3>3, <3>4
  <2>3. L \in 1 .. L
    BY <2>0
  <2>4. h[L] \in Seq(T)
    BY <2>2, <2>3
  <2> QED BY <2>1, <2>4
<1> QED BY <1>1, <1>2

(* What a filter does: the elements that stay, that none is there twice when
   none was before, and that a first element which stays is still first. *)
LEMMA KeepFacts ==
  ASSUME NEW T, NEW s \in Seq(T), NEW S
  PROVE  /\ Keep(s, S) \in Seq(T)
         /\ Range(Keep(s, S)) = Range(s) \cap S
         /\ IsInjective(s) => IsInjective(Keep(s, S))
         /\ s # << >> /\ Head(s) \in S => Keep(s, S) # << >> /\ Head(Keep(s, S)) = Head(s)
<1> DEFINE L == Len(s)
           g(i) == IF s[i] \in S THEN <<s[i]>> ELSE << >>
           ss == [i \in 1 .. L |-> g(i)]
           k == Keep(s, S)
<1>0. L \in Nat /\ (\A i \in 1 .. L : s[i] \in T) /\ DOMAIN s = 1 .. L
  OBVIOUS
<1>1. k = FlattenSeq(ss)
  BY DEF Keep
<1>2. ss \in Seq(Seq(T)) /\ Len(ss) = L /\ \A i \in 1 .. L : ss[i] = g(i)
  <2>1. \A i \in 1 .. L : g(i) \in Seq(T)
    BY <1>0
  <2> HIDE DEF g
  <2> QED BY <1>0, <2>1
<1> HIDE DEF ss, k
<1>3. CASE L = 0
  <2>1. k = << >>
    BY <1>1, <1>2, <1>3 DEF FlattenSeq
  <2>2. s = << >>
    BY <1>3
  <2>3. Range(<< >>) = {} /\ IsInjective(<< >>) /\ << >> \in Seq(T)
    BY DEF Range, IsInjective
  <2> QED BY <2>1, <2>2, <2>3 DEF k
<1>4. CASE L # 0
  <2>0. L >= 1 /\ Len(ss) # 0
    BY <1>0, <1>2, <1>4
  <2>1. PICK h : Piles(h, ss, L) /\ k = h[L]
    BY <1>1, <1>2, <2>0, FlattenPiles
  <2> DEFINE Past(i) == {s[j] : j \in 1 .. i}
             Good(i) == /\ h[i] \in Seq(T)
                        /\ Range(h[i]) = Past(i) \cap S
                        /\ IsInjective(s) => IsInjective(h[i])
                        /\ s[1] \in S => h[i] # << >> /\ h[i][1] = s[1]
             I == {i \in 1 .. L : ~Good(i)}
  <2>2. Good(1)
    <3>0. h[1] = ss[1] /\ 1 \in 1 .. L
      BY <1>0, <2>0, <2>1 DEF Piles
    <3>1. h[1] = g(1) /\ s[1] \in T /\ Past(1) = {s[1]}
      <4>1. h[1] = g(1)
        <5> HIDE DEF g, L
        <5> QED BY <1>2, <3>0
      <4>2. Past(1) = {s[1]}
        OBVIOUS
      <4> QED BY <1>0, <3>0, <4>1, <4>2
    <3> HIDE DEF Past
    <3>2. CASE s[1] \in S
      BY <3>1, <3>2 DEF Range, IsInjective
    <3>3. CASE s[1] \notin S
      BY <3>1, <3>3 DEF Range, IsInjective
    <3> QED BY <3>2, <3>3
  <2>3. ASSUME NEW i \in 2 .. L, Good(i - 1) PROVE Good(i)
    <3> DEFINE p == h[i - 1]
               x == s[i]
    <3>1. /\ p \in Seq(T) /\ Range(p) = Past(i - 1) \cap S
          /\ IsInjective(s) => IsInjective(p)
          /\ s[1] \in S => p # << >> /\ p[1] = s[1]
      BY <2>3
    <3>2. h[i] = p \o g(i) /\ x \in T /\ i \in 1 .. L
      <4>1. i \in 1 .. L /\ x \in T
        BY <1>0
      <4>2. h[i] = Joined(p, ss[i])
        BY <2>1 DEF Piles
      <4>3. ss[i] = g(i)
        <5> HIDE DEF g, L
        <5> QED BY <1>2, <4>1
      <4> HIDE DEF g, p
      <4> QED BY <4>1, <4>2, <4>3 DEF Joined
    <3>3. Past(i) = Past(i - 1) \cup {x}
      BY <1>0
    <3>4. CASE x \in S
      <4>1. h[i] = Append(p, x)
        <5>1. h[i] = p \o <<x>>
          BY <3>2, <3>4
        <5> HIDE DEF p, x
        <5> QED BY <3>1, <3>2, <5>1
      <4> DEFINE q == Append(p, x)
      <4>2. /\ q \in Seq(T) /\ Len(q) = Len(p) + 1 /\ Len(p) \in Nat
            /\ q[Len(p) + 1] = x /\ \A j \in 1 .. Len(p) : q[j] = p[j]
            /\ DOMAIN q = 1 .. Len(p) + 1 /\ DOMAIN p = 1 .. Len(p) /\ q # << >>
        <5>1. p \in Seq(T) /\ x \in T
          BY <3>1, <3>2
        <5> HIDE DEF p, x
        <5>2. q \in Seq(T) /\ Len(q) = Len(p) + 1 /\ Len(p) \in Nat
          BY <5>1
        <5>3. q[Len(p) + 1] = x /\ \A j \in 1 .. Len(p) : q[j] = p[j]
          BY <5>1
        <5>4. DOMAIN q = 1 .. Len(p) + 1 /\ DOMAIN p = 1 .. Len(p)
          BY <5>1, <5>2
        <5>5. q # << >>
          <6> HIDE DEF q
          <6>1. Len(q) # 0
            BY <5>2
          <6> QED BY <6>1
        <5> QED BY <5>2, <5>3, <5>4, <5>5
      <4> HIDE DEF q, p
      <4>3. Range(q) = Range(p) \cup {x}
        <5>1. \A y : y \in Range(q) <=> \E j \in 1 .. Len(p) + 1 : y = q[j]
          BY <4>2 DEF Range
        <5>2. \A y : y \in Range(p) <=> \E j \in 1 .. Len(p) : y = p[j]
          BY <4>2 DEF Range
        <5>3. \A j \in 1 .. Len(p) + 1 : j \in 1 .. Len(p) \/ j = Len(p) + 1
          BY <4>2
        <5>4. \A j \in 1 .. Len(p) : j \in 1 .. Len(p) + 1
          BY <4>2
        <5>5. Len(p) + 1 \in 1 .. Len(p) + 1
          BY <4>2
        <5> HIDE DEF x
        <5> QED BY <4>2, <5>1, <5>2, <5>3, <5>4, <5>5
      <4>4. Range(q) = Past(i) \cap S
        <5> HIDE DEF Past, x
        <5> QED BY <3>1, <3>3, <3>4, <4>3
      <4>5. ASSUME IsInjective(s) PROVE IsInjective(q)
        <5>1. x \notin Range(p)
          BY <1>0, <3>1, <4>5 DEF IsInjective
        <5>2. \A j \in 1 .. Len(p) : p[j] # x
          BY <4>2, <5>1 DEF Range
        <5>3. \A a, b \in 1 .. Len(p) : p[a] = p[b] => a = b
          BY <3>1, <4>2, <4>5 DEF IsInjective
        <5> HIDE DEF x
        <5>4. \A a, b \in 1 .. Len(p) + 1 : q[a] = q[b] => a = b
          BY <4>2, <5>2, <5>3
        <5> QED BY <4>2, <5>4 DEF IsInjective
      <4>6. s[1] \in S => q # << >> /\ q[1] = s[1]
        BY <3>1, <4>2
      <4> HIDE DEF Past
      <4> QED BY <4>1, <4>2, <4>4, <4>5, <4>6 DEF q
    <3>5. CASE x \notin S
      <4>1. h[i] = p
        <5>1. h[i] = p \o << >>
          BY <3>2, <3>5
        <5> HIDE DEF p
        <5> QED BY <3>1, <5>1
      <4> HIDE DEF Past, p, x
      <4>2. Past(i) \cap S = Past(i - 1) \cap S
        BY <3>3, <3>5
      <4> QED BY <3>1, <4>1, <4>2
    <3> QED BY <3>4, <3>5
  <2>4. Good(L)
    <3> HIDE DEF Good
    <3>1. I = {}
      <4> SUFFICES ASSUME I # {} PROVE FALSE
        OBVIOUS
      <4>1. PICK n \in I : \A i \in I : n <= i
        <5>1. I \in SUBSET (1 .. L)
          OBVIOUS
        <5> HIDE DEF I, L
        <5> QED BY <1>0, <5>1, Least
      <4>2. n \in 1 .. L /\ ~Good(n)
        OBVIOUS
      <4>3. n # 1
        BY <2>2, <4>2
      <4>4. n \in 2 .. L /\ n - 1 \in 1 .. L /\ ~(n <= n - 1)
        BY <1>0, <4>2, <4>3
      <4>5. Good(n - 1)
        BY <4>1, <4>4
      <4> QED BY <2>3, <4>2, <4>4, <4>5
    <3>2. L \in 1 .. L
      BY <1>0, <2>0
    <3> QED BY <3>1, <3>2
  <2>5. Past(L) = Range(s)
    BY <1>0 DEF Range
  <2>6. /\ k \in Seq(T) /\ Range(k) = Range(s) \cap S
        /\ IsInjective(s) => IsInjective(k)
        /\ s[1] \in S => k # << >> /\ k[1] = s[1]
    <3> HIDE DEF Past
    <3> QED BY <2>1, <2>4, <2>5
  <2>7. Head(s) = s[1] /\ Head(k) = k[1]
    OBVIOUS
  <2> HIDE DEF L
  <2> QED BY <2>6, <2>7 DEF k
<1> QED BY <1>3, <1>4

(* What Drop leaves of a sequence. *)
LEMMA DropFacts ==
  ASSUME NEW T, NEW s \in Seq(T), NEW S
  PROVE  /\ Drop(s, S) \in Seq(T)
         /\ Range(Drop(s, S)) = Range(s) \ S
         /\ IsInjective(s) => IsInjective(Drop(s, S))
         /\ s # << >> /\ Head(s) \notin S => Drop(s, S) # << >> /\ Head(Drop(s, S)) = Head(s)
<1> DEFINE K == Range(s) \ S
<1>1. Drop(s, S) = Keep(s, K)
  BY DEF Drop
<1>2. s # << >> => Head(s) \in Range(s)
  BY DEF Range
<1>3. Range(s) \cap K = Range(s) \ S
  OBVIOUS
<1>4. s # << >> /\ Head(s) \notin S => Head(s) \in K
  BY <1>2
<1> HIDE DEF K
<1>5. /\ Keep(s, K) \in Seq(T) /\ Range(Keep(s, K)) = Range(s) \cap K
      /\ IsInjective(s) => IsInjective(Keep(s, K))
      /\ s # << >> /\ Head(s) \in K => Keep(s, K) # << >> /\ Head(Keep(s, K)) = Head(s)
  BY KeepFacts
<1> QED BY <1>1, <1>3, <1>4, <1>5

(* The lanes that are left when the actions S are removed. *)
LEMMA WithoutFacts ==
  ASSUME NEW L \in [Lanes -> Seq(Acts)], NEW S
  PROVE  /\ Without(L, S) \in [Lanes -> Seq(Acts)]
         /\ \A l \in Lanes : /\ Range(Without(L, S)[l]) = Range(L[l]) \ S
                             /\ IsInjective(L[l]) => IsInjective(Without(L, S)[l])
<1>1. ASSUME NEW l \in Lanes
      PROVE  /\ Drop(L[l], S) \in Seq(Acts) /\ Range(Drop(L[l], S)) = Range(L[l]) \ S
             /\ IsInjective(L[l]) => IsInjective(Drop(L[l], S))
  BY DropFacts
<1> QED BY <1>1 DEF Without

(* A sequence over a set is one over any larger set. *)
LEMMA SeqMono ==
  ASSUME NEW S, NEW T, S \subseteq T, NEW s \in Seq(S)
  PROVE  s \in Seq(T)
OBVIOUS

(* The elements of a sequence. *)
LEMMA RangeFacts ==
  ASSUME NEW S, NEW s \in Seq(S)
  PROVE  /\ Range(s) \subseteq S
         /\ s # << >> => s[1] \in Range(s) /\ Head(s) = s[1] /\ Head(s) \in S
         /\ s # << >> => Tail(s) \in Seq(S) /\ Range(Tail(s)) \subseteq Range(s)
         /\ \A x \in S : Append(s, x) \in Seq(S) /\ Range(Append(s, x)) = Range(s) \cup {x}
         /\ \A x \in S : IsInjective(s) /\ x \notin Range(s) => IsInjective(Append(s, x))
<1>0. Len(s) \in Nat /\ DOMAIN s = 1 .. Len(s) /\ \A i \in 1 .. Len(s) : s[i] \in S
  OBVIOUS
<1>1. \A y : y \in Range(s) <=> \E i \in 1 .. Len(s) : y = s[i]
  BY <1>0 DEF Range
<1>2. Range(s) \subseteq S
  BY <1>0, <1>1
<1>3. ASSUME s # << >>
      PROVE  /\ s[1] \in Range(s) /\ Head(s) = s[1] /\ Head(s) \in S
             /\ Tail(s) \in Seq(S) /\ Range(Tail(s)) \subseteq Range(s)
  <2>1. 1 \in 1 .. Len(s) /\ Head(s) = s[1] /\ Tail(s) \in Seq(S)
        /\ Len(Tail(s)) = Len(s) - 1
        /\ \A i \in 1 .. Len(s) - 1 : Tail(s)[i] = s[i + 1]
    BY <1>3
  <2> DEFINE t == Tail(s)
  <2> HIDE DEF t
  <2>2. DOMAIN t = 1 .. Len(s) - 1
    BY <2>1 DEF t
  <2>3. \A y \in Range(t) : \E i \in 1 .. Len(s) - 1 : y = t[i]
    BY <2>2 DEF Range
  <2>4. \A i \in 1 .. Len(s) - 1 : t[i] = s[i + 1] /\ i + 1 \in 1 .. Len(s)
    BY <1>0, <2>1 DEF t
  <2>5. Range(t) \subseteq Range(s)
    BY <1>1, <2>3, <2>4
  <2> QED BY <1>0, <1>1, <2>1, <2>5 DEF t
<1>4. ASSUME NEW x \in S
      PROVE  /\ Append(s, x) \in Seq(S) /\ Range(Append(s, x)) = Range(s) \cup {x}
             /\ IsInjective(s) /\ x \notin Range(s) => IsInjective(Append(s, x))
  <2> DEFINE q == Append(s, x)
             n == Len(s)
  <2>1. /\ q \in Seq(S) /\ Len(q) = n + 1
        /\ q[n + 1] = x /\ \A j \in 1 .. n : q[j] = s[j]
    OBVIOUS
  <2> HIDE DEF q, n
  <2>2. n \in Nat /\ DOMAIN q = 1 .. n + 1 /\ DOMAIN s = 1 .. n
    BY <1>0, <2>1 DEF n
  <2>3. \A y : y \in Range(q) <=> \E i \in 1 .. n + 1 : y = q[i]
    BY <2>2 DEF Range
  <2>4. \A j \in 1 .. n + 1 : j \in 1 .. n \/ j = n + 1
    BY <2>2
  <2>5. (\A j \in 1 .. n : j \in 1 .. n + 1) /\ n + 1 \in 1 .. n + 1
    BY <2>2
  <2>6. Range(q) = Range(s) \cup {x}
    BY <1>1, <2>1, <2>3, <2>4, <2>5 DEF n
  <2>7. ASSUME IsInjective(s), x \notin Range(s) PROVE IsInjective(q)
    BY <1>1, <2>1, <2>2, <2>4, <2>7 DEF IsInjective, n
  <2> QED BY <2>1, <2>6, <2>7 DEF q
<1> QED BY <1>2, <1>3, <1>4

-----------------------------------------------------------------------------
(* The scheduler *)

(* s and t differ in what requests and epochs they have seen only. *)
SamePauses(s, t) == t \in Schedulers /\ t.wpauses = s.wpauses

(* _scheduleSessionInputPump, an epoch and a resumption leave the queued-work
   pauses alone. *)
LEMMA ScheduleFacts ==
  ASSUME NEW s \in Schedulers, NEW A
  PROVE  /\ SamePauses(s, Schedule(s, A)) /\ SamePauses(s, Bump(s))
         /\ SamePauses(s, Unrequest(s)) /\ SamePauses(s, Resume(s, A))
<1>1. ASSUME NEW t \in Schedulers PROVE SamePauses(t, Schedule(t, A))
  <2>1. CASE Schedule(t, A) = t
    BY <2>1 DEF SamePauses
  <2>2. CASE Schedule(t, A) = [t EXCEPT !.requested = TRUE, !.queue = Append(@, t.epoch)]
    <3> DEFINE q == Append(t.queue, t.epoch)
               u == Schedule(t, A)
    <3>1. q \in Seq(Nat)
      BY DEF Schedulers
    <3> HIDE DEF q, u
    <3>2. u = [t EXCEPT !.requested = TRUE, !.queue = q]
      BY <2>2 DEF q, u
    <3>3. u \in Schedulers /\ u.wpauses = t.wpauses
      BY <3>1, <3>2 DEF Schedulers
    <3> QED BY <3>3 DEF SamePauses, u
  <2> QED BY <2>1, <2>2 DEF Schedule
<1>2. ASSUME NEW t \in Schedulers PROVE SamePauses(t, Bump(t))
  <2>1. t.epoch + 1 \in Nat
    BY DEF Schedulers
  <2>2. Bump(t) = [t EXCEPT !.epoch = t.epoch + 1]
    BY DEF Bump
  <2> DEFINE n == t.epoch + 1
             u == Bump(t)
  <2> HIDE DEF n, u
  <2>3. u \in Schedulers /\ u.wpauses = t.wpauses
    BY <2>1, <2>2 DEF n, u, Schedulers
  <2> QED BY <2>3 DEF SamePauses, u
<1>3. SamePauses(s, Unrequest(s))
  <2> DEFINE u == [s EXCEPT !.requested = FALSE]
  <2>1. u \in Schedulers /\ u.wpauses = s.wpauses
    BY DEF Schedulers
  <2>2. Unrequest(s) = Bump(u)
    BY DEF Unrequest
  <2> HIDE DEF u
  <2> QED BY <1>2, <2>1, <2>2 DEF SamePauses
<1>4. SamePauses(s, Resume(s, A))
  <2> DEFINE u == [s EXCEPT !.suspended = FALSE]
             b == Bump(u)
  <2>1. u \in Schedulers /\ u.wpauses = s.wpauses
    BY DEF Schedulers
  <2>2. \/ Resume(s, A) = s \/ Resume(s, A) = b \/ Resume(s, A) = Schedule(b, A)
    BY DEF Resume
  <2> HIDE DEF u
  <2>3. b \in Schedulers /\ b.wpauses = s.wpauses
    BY <1>2, <2>1 DEF SamePauses
  <2> HIDE DEF b
  <2>4. Schedule(b, A) \in Schedulers /\ Schedule(b, A).wpauses = s.wpauses
    BY <1>1, <2>3 DEF SamePauses
  <2> QED BY <2>2, <2>3, <2>4 DEF SamePauses
<1> QED BY <1>1, <1>2, <1>3, <1>4

(* Holding and leaving the commit fence: whoever is first stays first until
   it leaves. *)
LEMMA FenceFacts ==
  ASSUME fence \in Seq(Parties), NEW p \in Parties
  PROVE  /\ Join(p) \in Seq(Parties) /\ Leave(p) \in Seq(Parties)
         /\ \A q : Holds(q) => Join(p) # << >> /\ Head(Join(p)) = q
         /\ \A q : Holds(q) /\ q # p => Leave(p) # << >> /\ Head(Leave(p)) = q
<1>1. Join(p) \in Seq(Parties)
  BY DEF Join
<1>2. Join(p) # << >> /\ (fence # << >> => Head(Join(p)) = Head(fence))
  BY DEF Join
<1>3. /\ Leave(p) \in Seq(Parties)
      /\ fence # << >> /\ Head(fence) \notin {p} => Leave(p) # << >> /\ Head(Leave(p)) = Head(fence)
  BY DropFacts DEF Leave
<1> QED BY <1>1, <1>2, <1>3 DEF Holds

-----------------------------------------------------------------------------
(* Steps of the store *)

(* What no operation but the admission does to an action: it may not forget
   that a promise was settled, nor finish with an open one. *)
Onward(x, y) ==
  /\ y.lane = x.lane
  /\ y.st = "new" <=> x.st = "new"
  /\ y.captured => x.captured \/ y.st = "cancelled"
  /\ x.st = "cancelled" => y.st = "cancelled"
  /\ y.st \in Unfinished => x.st \in Unfinished
  /\ x.delivered # "pending" => y.delivered # "pending"
  /\ x.completed # "pending" => y.completed # "pending"
  /\ y.st \in Terminal => x.st \in Terminal \/ (y.delivered # "pending" /\ y.completed # "pending")
  /\ y.durable => x.durable \/ y.delivered # "pending"

(* L is left of the lanes when the actions R are released. *)
Released(L, R) ==
  /\ L \in [Lanes -> Seq(Acts)]
  /\ \A l \in Lanes : /\ Range(L[l]) = Range(lanes[l]) \ R
                      /\ IsInjective(lanes[l]) => IsInjective(L[l])

(* The parts of the store's invariant that need no look at the pump. *)
Shelves == TypeOK /\ NewAreFresh /\ TicketsSettled
Heard == \A a \in Acts : Delivered(a) => act[a].delivered # "pending"

Both(L) == L["next_turn_boundary"] \o L["when_run_idle"]

(* The owned actions are those of the two lanes. *)
LEMMA BothLanes ==
  ASSUME NEW L \in [Lanes -> Seq(Acts)]
  PROVE  /\ Both(L) \in Seq(Acts)
         /\ \A a : a \in Range(Both(L)) <=> \E l \in Lanes : a \in Range(L[l])
<1> DEFINE p == L["next_turn_boundary"]
           q == L["when_run_idle"]
           o == Both(L)
<1>1. p \in Seq(Acts) /\ q \in Seq(Acts)
  BY DEF Lanes
<1>2. o = p \o q
  BY DEF Both
<1> HIDE DEF p, q, o
<1>3. /\ o \in Seq(Acts) /\ Len(o) = Len(p) + Len(q) /\ Len(p) \in Nat /\ Len(q) \in Nat
      /\ \A i \in 1 .. Len(p) + Len(q) : o[i] = IF i <= Len(p) THEN p[i] ELSE q[i - Len(p)]
  BY <1>1, <1>2
<1>4. DOMAIN o = 1 .. Len(p) + Len(q) /\ DOMAIN p = 1 .. Len(p) /\ DOMAIN q = 1 .. Len(q)
  BY <1>1, <1>3
<1>5. \A a \in Range(o) : a \in Range(p) \/ a \in Range(q)
  <2> SUFFICES ASSUME NEW i \in 1 .. Len(p) + Len(q) PROVE o[i] \in Range(p) \/ o[i] \in Range(q)
    BY <1>4 DEF Range
  <2>1. CASE i <= Len(p)
    BY <1>3, <1>4, <2>1 DEF Range
  <2>2. CASE ~(i <= Len(p))
    <3>1. i - Len(p) \in 1 .. Len(q) /\ o[i] = q[i - Len(p)]
      BY <1>3, <2>2
    <3> QED BY <1>4, <3>1 DEF Range
  <2> QED BY <2>1, <2>2
<1>6. \A a \in Range(p) : a \in Range(o)
  BY <1>3, <1>4 DEF Range
<1>7. \A a \in Range(q) : a \in Range(o)
  <2> SUFFICES ASSUME NEW i \in 1 .. Len(q) PROVE q[i] \in Range(o)
    BY <1>4 DEF Range
  <2>1. i + Len(p) \in 1 .. Len(p) + Len(q) /\ o[i + Len(p)] = q[i]
    <3>1. i + Len(p) \in 1 .. Len(p) + Len(q) /\ ~(i + Len(p) <= Len(p)) /\ (i + Len(p)) - Len(p) = i
      BY <1>3
    <3> QED BY <1>3, <3>1
  <2> QED BY <1>4, <2>1 DEF Range
<1>8. \A a : a \in Range(o) <=> a \in Range(p) \/ a \in Range(q)
  BY <1>5, <1>6, <1>7
<1> QED BY <1>3, <1>8 DEF o, p, q, Lanes

(* The same, before and after a step. *)
LEMMA OwnedRange ==
  /\ lanes \in [Lanes -> Seq(Acts)] =>
       /\ Owned \in Seq(Acts)
       /\ \A a : a \in Range(Owned) <=> \E l \in Lanes : a \in Range(lanes[l])
  /\ lanes' \in [Lanes -> Seq(Acts)] =>
       /\ Owned' \in Seq(Acts)
       /\ \A a : a \in Range(Owned') <=> \E l \in Lanes : a \in Range(lanes'[l])
BY BothLanes DEF Owned, Both

(* A step that moves actions onward, and releases the actions R. *)
Moves(R) ==
  /\ act' \in [Acts -> Actions] /\ Released(lanes', R)
  /\ \A a \in Acts : Onward(act[a], act'[a])
  /\ \A a \in Acts : act'[a].st \in Unfinished => a \notin R
  /\ \A a \in Acts : a \notin R /\ (act[a].st \in Unfinished \/ act[a].captured)
                       => act'[a].st \in Unfinished \/ act'[a].captured

(* It keeps the store in order when those it releases are finished. *)
LEMMA ShelvesKept ==
  ASSUME Shelves, Heard,
         act \in [Acts -> Actions], lanes \in [Lanes -> Seq(Acts)],
         NEW R, Moves(R),
         \A a \in Acts : client'[a] # "done" => client[a] # "done",
         \A a \in Acts : Primary(a) \in Range(transcript')
                           => Primary(a) \in Range(transcript) \/ act'[a].delivered # "pending"
  PROVE  Shelves' /\ Heard'
<1> USE DEF Moves
<1>0. \A a \in Acts : /\ act'[a].lane = act[a].lane
                      /\ act'[a].st \in Unfinished => act[a].st \in Unfinished
  BY DEF Onward
<1>1. /\ lanes' \in [Lanes -> Seq(Acts)]
      /\ \A l \in Lanes : /\ Range(lanes'[l]) = Range(lanes[l]) \ R
                          /\ IsInjective(lanes[l]) => IsInjective(lanes'[l])
  BY DEF Released
<1>2. /\ \A l \in Lanes : IsInjective(lanes[l]) /\ \A a \in Range(lanes[l]) : act[a].lane = l
      /\ \A a \in Acts : act[a].st \in Unfinished => a \in Range(lanes[act[a].lane])
      /\ \A a \in Range(Owned) : act[a].st \in Unfinished \/ act[a].captured
  BY DEF Shelves, TypeOK
<1>3. \A l \in Lanes : Range(lanes[l]) \subseteq Acts /\ Range(lanes'[l]) \subseteq Acts
  <2>1. ASSUME NEW l \in Lanes PROVE Range(lanes[l]) \subseteq Acts
    BY RangeFacts
  <2> QED BY <1>1, <2>1
<1>4. \A a \in Acts : act'[a].st \in States /\ act'[a].lane \in Lanes /\ act[a].lane \in Lanes
  BY DEF Actions
<1>5. \A l \in Lanes : IsInjective(lanes'[l]) /\ \A a \in Range(lanes'[l]) : act'[a].lane = l
  BY <1>0, <1>1, <1>2, <1>3
<1>6. ASSUME NEW a \in Acts, act'[a].st \in Unfinished PROVE a \in Range(lanes'[act'[a].lane])
  <2>1. act'[a].lane = act[a].lane /\ act[a].lane \in Lanes /\ act[a].st \in Unfinished
    BY <1>0, <1>4, <1>6
  <2>2. a \in Range(lanes[act[a].lane]) /\ a \notin R
    BY <1>2, <1>6, <2>1
  <2>3. a \in Range(lanes'[act[a].lane])
    BY <1>1, <2>1, <2>2
  <2> QED BY <2>1, <2>3
<1>7. ASSUME NEW a \in Range(Owned') PROVE act'[a].st \in Unfinished \/ act'[a].captured
  <2>1. PICK l \in Lanes : a \in Range(lanes'[l])
    BY <1>1, <1>7, OwnedRange
  <2>2. a \in Range(lanes[l]) /\ a \notin R /\ a \in Acts
    BY <1>1, <1>3, <2>1
  <2>3. a \in Range(Owned)
    BY <2>2, OwnedRange
  <2> QED BY <1>2, <2>2, <2>3
<1>8. TypeOK'
  BY <1>4, <1>5, <1>6, <1>7 DEF TypeOK
<1>9. NewAreFresh'
  BY DEF Shelves, NewAreFresh, Onward
<1>10. TicketsSettled'
  BY DEF Shelves, TicketsSettled, Onward
<1>11. Heard'
  <2>1. ASSUME NEW a \in Acts, act'[a].durable \/ Primary(a) \in Range(transcript')
        PROVE  act'[a].delivered # "pending"
    BY <2>1 DEF Heard, Delivered, Onward
  <2> QED BY <2>1 DEF Heard, Delivered
<1> QED BY <1>8, <1>9, <1>10, <1>11 DEF Shelves

(* An action in another state. *)
LEMMA StateSet ==
  ASSUME NEW A \in [Acts -> Actions], NEW S, NEW s \in States
  PROVE  /\ SetState(A, S, s) \in [Acts -> Actions]
         /\ \A a \in Acts : a \notin S => SetState(A, S, s)[a] = A[a]
         /\ \A a \in Acts \cap S :
              LET y == SetState(A, S, s)[a] IN
              /\ y.st = s /\ y.lane = A[a].lane /\ y.captured = A[a].captured
              /\ y.durable = A[a].durable /\ y.delivered = A[a].delivered
              /\ y.completed = A[a].completed /\ y.prefix = A[a].prefix /\ y.next = A[a].next
<1> DEFINE B == SetState(A, S, s)
<1>1. B = [a \in Acts |-> IF a \in S THEN [A[a] EXCEPT !.st = s] ELSE A[a]]
  BY DEF SetState
<1>2. ASSUME NEW x \in Actions, NEW y, y = [x EXCEPT !.st = s]
      PROVE  /\ y \in Actions /\ y.st = s /\ y.lane = x.lane /\ y.captured = x.captured
             /\ y.durable = x.durable /\ y.delivered = x.delivered
             /\ y.completed = x.completed /\ y.prefix = x.prefix /\ y.next = x.next
  BY <1>2 DEF Actions
<1>3. \A a \in Acts : A[a] \in Actions
  OBVIOUS
<1> HIDE DEF B
<1>4. ASSUME NEW a \in Acts, a \notin S PROVE B[a] = A[a]
  BY <1>1, <1>4
<1>5. ASSUME NEW a \in Acts, a \in S
      PROVE  /\ B[a] \in Actions /\ B[a].st = s /\ B[a].lane = A[a].lane
             /\ B[a].captured = A[a].captured
             /\ B[a].durable = A[a].durable /\ B[a].delivered = A[a].delivered
             /\ B[a].completed = A[a].completed
             /\ B[a].prefix = A[a].prefix /\ B[a].next = A[a].next
  BY <1>1, <1>2, <1>3, <1>5
<1>6. B \in [Acts -> Actions]
  BY <1>1, <1>3, <1>4, <1>5
<1> QED BY <1>4, <1>5, <1>6 DEF B

-----------------------------------------------------------------------------
(* The pump *)

(* What may happen to an action that the running pump has not touched. *)
Drifts(x, y) ==
  \/ y.st = x.st
  \/ x.st # "running" /\ y.st = "cancelled"
  \/ x.st = "committing" /\ y.st = "running"
  \/ x.st = "new" /\ y.st \in {"queued", "selected"}

(* A pump that has no batch holds nothing. *)
LEMMA IdleStages ==
  ASSUME pump'.pc \in {"off", "idle"},
         \A a \in Acts : act'[a].st \in {"preparing", "committing"} => a \in Turns
  PROVE  BatchStates'
BY DEF BatchStates

(* What the others do to the actions leaves the pump's stages as they are. *)
LEMMA SteadyStages ==
  ASSUME BatchStates, pump \in Pumps, UNCHANGED pump,
         \A a \in Acts : Drifts(act[a], act'[a]),
         \A a \in Acts : act[a].st # "new" /\ act[a].delivered # "pending"
                           => act'[a].delivered # "pending"
  PROVE  BatchStates'
<1>0. /\ Range(pump.batch) \subseteq Acts /\ Range(pump.turns) \subseteq Acts
      /\ pump.batch # << >> => pump.batch[1] \in Acts
      /\ pump.pre # None => pump.pre \in Acts
  BY RangeFacts DEF Pumps
<1>1. /\ pump.pc = "select" /\ pump.pre # None => act'[pump.pre].st \in {"selected", "cancelled"}
      /\ pump.pc \in {"command", "executing"} =>
           pump.batch # << >> /\ pump.batch[1] \in Commands
      /\ pump.pc = "command" => act'[pump.batch[1]].st \in {"selected", "cancelled"}
      /\ pump.pc = "executing" =>
           act'[pump.batch[1]].st = "running" /\ act'[pump.batch[1]].delivered # "pending"
  BY <1>0 DEF BatchStates, Drifts
<1>2. /\ pump.pc \in {"validate", "extensions", "commit"} =>
           \A a \in Range(pump.batch) : a \in Turns /\ act'[a].st \in {"preparing", "cancelled"}
      /\ pump.pc = "running" =>
           /\ Range(pump.batch) \subseteq Turns
           /\ \A a \in Range(pump.turns) : act'[a].st \in {"committing", "running", "cancelled"}
      /\ pump.pc \in {"commit", "running"} =>
           /\ Range(pump.turns) \subseteq Range(pump.batch)
           /\ \A a \in Range(pump.batch) \ Range(pump.turns) : act'[a].st = "cancelled"
  BY <1>0 DEF BatchStates, Drifts
<1>3. \A a \in Acts : act'[a].st \in {"preparing", "committing"} => a \in Turns
  BY DEF BatchStates, Drifts
<1> QED BY <1>1, <1>2, <1>3 DEF BatchStates

-----------------------------------------------------------------------------
(* The invariant of the store, put together *)

AgentGood ==
  /\ agent \in [on : BOOLEAN, mid : BOOLEAN, todo : Seq(Sent)]
  /\ agent.mid =>
       /\ agent.todo # << >>
       /\ \A a \in Acts : Head(agent.todo) = Primary(a) => act[a].delivered # "pending"

(* What may be sent may still be sent. *)
LEMMA SentGrows ==
  ASSUME \A a \in Acts : act'[a].st = "new" => act[a].st = "new"
  PROVE  Sent \subseteq Sent'
BY DEF Sent, NoteMsgs, Primary

(* A run that nobody touches stays as it is. *)
LEMMA CalmAgent ==
  ASSUME AgentGood, UNCHANGED agent,
         \A a \in Acts : act'[a].st = "new" => act[a].st = "new",
         \A a \in Acts : act[a].delivered # "pending" => act'[a].delivered # "pending"
  PROVE  AgentGood'
BY SentGrows, SeqMono DEF AgentGood

(* A transcript from which messages are removed. *)
LEMMA CalmTranscript ==
  ASSUME transcript \in Seq(Sent), NEW S, transcript' = Drop(transcript, S),
         \A a \in Acts : act'[a].st = "new" => act[a].st = "new"
  PROVE  transcript' \in Seq(Sent') /\ Range(transcript') \subseteq Range(transcript)
BY SentGrows, DropFacts, SeqMono

(* A transcript that stays as it is. *)
LEMMA StillTranscript ==
  ASSUME transcript \in Seq(Sent), UNCHANGED transcript,
         \A a \in Acts : act'[a].st = "new" => act[a].st = "new"
  PROVE  transcript' \in Seq(Sent') /\ Range(transcript') \subseteq Range(transcript)
BY SentGrows, SeqMono

(* What StoreInv says, regrouped. *)
LEMMA StoreParts ==
  /\ StoreInv <=> /\ StoreTypes /\ Shelves /\ Heard /\ BatchStates /\ AgentGood
  /\ StoreInv' <=> /\ StoreTypes' /\ Shelves' /\ Heard' /\ BatchStates' /\ AgentGood'
BY DEF StoreInv, StoreTypes, Shelves, Heard, AgentGood, DeliveriesHeard

(* A step that moves actions onward keeps the invariant of the store. *)
LEMMA StoreKept ==
  ASSUME StoreInv, NEW R, Moves(R), BatchStates', AgentGood',
         pump' \in Pumps, pend' \in Seq(NoteMsgs), transcript' \in Seq(Sent'),
         client' \in [Acts -> Submissions],
         \A a \in Acts : client'[a] # "done" => client[a] # "done",
         \A a \in Acts : Primary(a) \in Range(transcript')
                           => Primary(a) \in Range(transcript) \/ act'[a].delivered # "pending"
  PROVE  StoreInv'
<1>1. StoreTypes /\ Shelves /\ Heard
  BY StoreParts
<1>2. act \in [Acts -> Actions] /\ lanes \in [Lanes -> Seq(Acts)]
  BY <1>1 DEF StoreTypes
<1>3. Shelves' /\ Heard'
  BY <1>1, <1>2, ShelvesKept
<1>4. StoreTypes'
  BY DEF Moves, Released, AgentGood, StoreTypes, NoteMsgs, Pumps, Actions, Submissions
<1> QED BY <1>3, <1>4, StoreParts

(* Facts of the store's types. *)
LEMMA StoreFacts ==
  ASSUME StoreInv
  PROVE  /\ act \in [Acts -> Actions] /\ lanes \in [Lanes -> Seq(Acts)] /\ pump \in Pumps
         /\ transcript \in Seq(Sent) /\ pend \in Seq(NoteMsgs) /\ client \in [Acts -> Submissions]
         /\ BatchStates /\ AgentGood /\ Heard /\ Shelves
BY StoreParts DEF StoreTypes

(* Nothing is released when nothing changes. *)
LEMMA NoMove ==
  ASSUME StoreInv, UNCHANGED <<act, lanes>>
  PROVE  Moves({})
BY StoreFacts DEF Released, Onward, Moves

(* A step that leaves the actions, the lanes and the run alone. *)
LEMMA StoreStill ==
  ASSUME StoreInv, UNCHANGED <<act, lanes, agent, transcript>>,
         BatchStates', pump' \in Pumps, pend' \in Seq(NoteMsgs),
         client' \in [Acts -> Submissions],
         \A a \in Acts : client'[a] # "done" => client[a] # "done"
  PROVE  StoreInv'
BY NoMove, StoreFacts, CalmAgent, StillTranscript, StoreKept

(* A step that does not touch the store at all. *)
LEMMA StoreUntouched ==
  ASSUME StoreInv, UNCHANGED <<act, lanes, agent, transcript, pump, pend, client>>
  PROVE  StoreInv'
<1>1. BatchStates'
  BY StoreFacts, SteadyStages DEF Drifts
<1> QED BY <1>1, StoreFacts, StoreStill

(* The notes that a cancelled action gives back. *)
LEMMA RestorableType ==
  ASSUME StoreInv, NEW a \in Acts
  PROVE  Restorable(a) \in Seq(NoteMsgs)
<1> DEFINE p == IF a \in AgentMsgs THEN act[a].prefix ELSE <<>>
           n == act[a].next
           lost == Drop(p \o n, Range(transcript))
<1>1. p \in Seq(NoteMsgs) /\ n \in Seq(NoteMsgs)
  BY StoreFacts DEF Actions
<1> HIDE DEF p, n
<1>2. p \o n \in Seq(NoteMsgs)
  BY <1>1
<1>3. lost \in Seq(NoteMsgs)
  BY <1>2, DropFacts
<1>4. Restorable(a) = [i \in 1 .. Len(lost) |-> Clone(lost[i])]
  BY DEF Restorable, p, n
<1> HIDE DEF lost
<1>5. \A m \in NoteMsgs : Clone(m) \in NoteMsgs
  BY DEF NoteMsgs, Clone
<1>6. \A i \in 1 .. Len(lost) : Clone(lost[i]) \in NoteMsgs
  BY <1>3, <1>5
<1> QED BY <1>3, <1>4, <1>6

(* What _cancelSessionActions makes of an action. *)
LEMMA CancelledFacts ==
  ASSUME StoreInv, NEW a \in Acts
  PROVE  LET x == act[a]
             y == Cancelled(a) IN
         /\ y \in Actions /\ y.st = "cancelled" /\ y.lane = x.lane /\ y.durable = x.durable
         /\ y.delivered # "pending" /\ y.completed # "pending"
         /\ y.captured = (x.st = "committing")
<1> DEFINE x == act[a]
           refused == a \in Turns /\ (a \in AgentMsgs \/ ~x.vis \/ x.st # "queued")
           d == Settle(x.delivered, IF refused THEN "rejected" ELSE "not_applicable")
           c == Settle(x.completed, "error")
           b == x.st = "committing"
           y == Cancelled(a)
<1>1. x \in Actions
  BY StoreFacts
<1>2. y = [x EXCEPT !.st = "cancelled", !.delivered = d, !.completed = c, !.captured = b]
  BY DEF Cancelled
<1>3. d \in {"delivered", "rejected", "not_applicable"} /\ c \in {"ok", "error"} /\ b \in BOOLEAN
  BY <1>1 DEF Actions, Settle
<1>4. "cancelled" \in States
  BY DEF States
<1> HIDE DEF x, d, c, b, y
<1>5. /\ y \in Actions /\ y.st = "cancelled" /\ y.lane = x.lane /\ y.durable = x.durable
      /\ y.delivered = d /\ y.completed = c /\ y.captured = b
  BY <1>1, <1>2, <1>3, <1>4 DEF Actions
<1> QED BY <1>3, <1>5 DEF x, y, b

(* _cancelSessionActions: what has not run yet is cancelled and released, a
   dispatch is cancelled and stays until its run is over. *)
LEMMA CancelMoves ==
  ASSUME StoreInv, NEW S \in SUBSET Acts, CancelActions(S),
         \A a \in S : act[a].st \in Clearable \cup {"committing"}
  PROVE  /\ Moves(S \ {a \in S : act[a].st = "committing"})
         /\ \A a \in Acts : a \notin S => act'[a] = act[a]
         /\ \A a \in S : act'[a].st = "cancelled"
         /\ pend' \in Seq(NoteMsgs)
         /\ \E X : transcript' = Drop(transcript, X)
<1> DEFINE dispatched == {a \in S : act[a].st = "committing"}
           R == S \ dispatched
           order == Keep(Owned, S)
           back == FlattenSeq([i \in 1 .. Len(order) |-> Restorable(order[i])])
<1>1. /\ act' = [a \in Acts |-> IF a \in S THEN Cancelled(a) ELSE act[a]]
      /\ lanes' = Without(lanes, R)
      /\ pend' = back \o pend
      /\ transcript' = Drop(transcript, UNION {RecordsOf(a) : a \in dispatched})
  BY DEF CancelActions
<1>2. /\ act \in [Acts -> Actions] /\ lanes \in [Lanes -> Seq(Acts)]
      /\ pend \in Seq(NoteMsgs) /\ Shelves
  BY StoreFacts
<1>3. pend' \in Seq(NoteMsgs)
  <2>1. order \in Seq(Acts)
    BY <1>2, OwnedRange, KeepFacts
  <2> HIDE DEF order
  <2>2. \A i \in 1 .. Len(order) : Restorable(order[i]) \in Seq(NoteMsgs)
    BY <2>1, RestorableType
  <2>3. [i \in 1 .. Len(order) |-> Restorable(order[i])] \in Seq(Seq(NoteMsgs))
    BY <2>1, <2>2
  <2>4. back \in Seq(NoteMsgs)
    BY <2>3, FlattenType
  <2> HIDE DEF back
  <2> QED BY <1>1, <1>2, <2>4
<1>4. ASSUME NEW a \in Acts, a \notin S PROVE act'[a] = act[a]
  BY <1>1, <1>4
<1>5. ASSUME NEW a \in S
      PROVE  /\ act'[a] \in Actions /\ act'[a].st = "cancelled" /\ act'[a].lane = act[a].lane
             /\ act'[a].durable = act[a].durable
             /\ act'[a].delivered # "pending" /\ act'[a].completed # "pending"
             /\ act'[a].captured = (act[a].st = "committing")
  BY <1>1, CancelledFacts
<1>6. act' \in [Acts -> Actions]
  BY <1>1, <1>2, <1>4, <1>5
<1>7. \A a \in Acts : Onward(act[a], act'[a])
  <2> SUFFICES ASSUME NEW a \in Acts PROVE Onward(act[a], act'[a])
    OBVIOUS
  <2>1. CASE a \notin S
    BY <1>4, <2>1 DEF Onward
  <2>2. CASE a \in S
    BY <1>5, <2>2 DEF Clearable, Onward, Unfinished
  <2> QED BY <2>1, <2>2
<1>8. Released(lanes', R)
  BY <1>1, <1>2, WithoutFacts DEF Released
<1>9. \A a \in Acts : act'[a].st \in Unfinished => a \notin R
  BY <1>5 DEF Unfinished
<1>10. \A a \in Acts : a \notin R /\ (act[a].st \in Unfinished \/ act[a].captured)
                         => act'[a].st \in Unfinished \/ act'[a].captured
  BY <1>4, <1>5
<1>11. \E X : transcript' = Drop(transcript, X)
  BY <1>1
<1> QED BY <1>3, <1>4, <1>5, <1>6, <1>7, <1>8, <1>9, <1>10, <1>11 DEF Moves

(* A cancellation keeps the store's invariant. *)
LEMMA CancelKept ==
  ASSUME StoreInv, NEW S \in SUBSET Acts, CancelActions(S), UNCHANGED <<pump, agent, client>>,
         \A a \in S : act[a].st \in Clearable \cup {"committing"}
  PROVE  StoreInv'
<1> DEFINE R == S \ {a \in S : act[a].st = "committing"}
<1>1. /\ Moves(R)
      /\ \A a \in Acts : a \notin S => act'[a] = act[a]
      /\ \A a \in S : act'[a].st = "cancelled"
      /\ pend' \in Seq(NoteMsgs)
      /\ \E X : transcript' = Drop(transcript, X)
  BY CancelMoves
<1> HIDE DEF R
<1>2. \A a \in Acts : /\ act'[a].st = "new" => act[a].st = "new"
                      /\ act[a].delivered # "pending" => act'[a].delivered # "pending"
  BY <1>1 DEF Moves, Onward
<1>3. transcript' \in Seq(Sent') /\ Range(transcript') \subseteq Range(transcript)
  BY <1>1, <1>2, StoreFacts, CalmTranscript
<1>4. AgentGood'
  BY <1>2, StoreFacts, CalmAgent
<1>5. BatchStates'
  BY <1>1, <1>2, StoreFacts, SteadyStages DEF Drifts, Clearable
<1>6. pump' \in Pumps /\ client' \in [Acts -> Submissions]
  BY StoreFacts
<1> QED BY <1>1, <1>3, <1>4, <1>5, <1>6, StoreKept

-----------------------------------------------------------------------------
(* The end of a batch *)

(* The pump between two batches. *)
LEMMA LoopFacts ==
  ASSUME pump \in Pumps, NEW A
  PROVE  /\ NoPump \in Pumps /\ NoPump.pc = "off"
         /\ Loop(A) \in Pumps /\ Loop(A).pc \in {"off", "idle"}
         /\ \A e \in Nat : LET p == [NoPump EXCEPT !.pc = "idle", !.epoch = e] IN
                           p \in Pumps /\ p.pc = "idle"
<1>1. << >> \in Seq(Acts) /\ << >> \in Seq(NoteMsgs) /\ None \in Acts \cup {None}
  OBVIOUS
<1>2. NoPump \in Pumps /\ NoPump.pc = "off"
  BY <1>1 DEF NoPump, Pumps
<1>3. ASSUME NEW e \in Nat, NEW p, p = [NoPump EXCEPT !.pc = "idle", !.epoch = e]
      PROVE  p \in Pumps /\ p.pc = "idle"
  BY <1>1, <1>3 DEF NoPump, Pumps
<1>4. pump.epoch \in Nat
  BY DEF Pumps
<1> QED BY <1>2, <1>3, <1>4 DEF Loop

(* The turns of a batch, whatever stage it is in. *)
LEMMA BatchWork ==
  ASSUME StoreInv, pump.pc \in {"validate", "extensions", "commit", "running"}
  PROVE  /\ \A a \in Range(pump.batch) :
              /\ a \in Turns /\ a \in Acts
              /\ act[a].st \in {"preparing", "committing", "running", "cancelled"}
         /\ \A a \in Acts : act[a].st \in {"preparing", "committing"} => a \in Turns
BY StoreFacts DEF BatchStates, Acts

(* A batch that throws: every turn of it is queued again, fails, or stays as
   it was; the finished ones are released. *)
LEMMA ThrowMoves ==
  ASSUME StoreInv, pump.pc \in {"validate", "extensions", "commit", "running"},
         NEW deferral \in BOOLEAN, Throw(deferral)
  PROVE  /\ \E R : Moves(R)
         /\ pend' \in Seq(NoteMsgs) /\ pump' \in Pumps /\ pump'.pc \in {"off", "idle"}
         /\ UNCHANGED sch
         /\ \A a \in Acts : act'[a].st = act[a].st \/ (a \in Turns /\ act'[a].st \in {"queued", "failed"})
         /\ \A a \in Acts : act[a].durable => act'[a].durable
<1> DEFINE B == {a \in Range(pump.batch) : act[a].st # "cancelled"}
           undelivered == {a \in B : ~Delivered(a)}
           prefix(a) == IF a \in B THEN Drop(act[a].prefix, Range(transcript)) ELSE act[a].prefix
           stripped == [a \in Acts |->
              IF a \notin Range(pump.batch) THEN act[a]
              ELSE [act[a] EXCEPT !.next = <<>>,
                      !.prefix = IF a \in B THEN Drop(@, Range(transcript)) ELSE @,
                      !.durable = Delivered(a)]]
           failed(x, a) == [x EXCEPT !.st = "failed", !.completed = Settle(@, "error"),
                              !.delivered = IF a \in undelivered THEN Settle(@, "rejected") ELSE @]
           A == IF deferral THEN SetState(stripped, undelivered, "queued")
                ELSE [a \in Acts |-> IF a \in B THEN failed(stripped[a], a) ELSE stripped[a]]
           R == ReleasedFrom(A)
<1>1. /\ act' = A /\ lanes' = Without(lanes, R)
      /\ pend' = Drop(pump.notes, Range(transcript)) \o pend
      /\ pump' = IF Deferred THEN NoPump ELSE Loop(A)
      /\ sch' = sch
  BY DEF Throw
<1>2. /\ act \in [Acts -> Actions] /\ lanes \in [Lanes -> Seq(Acts)] /\ pump \in Pumps
      /\ pend \in Seq(NoteMsgs) /\ Heard
  BY StoreFacts
<1>3. \A a \in Range(pump.batch) :
        /\ a \in Turns /\ a \in Acts
        /\ act[a].st \in {"preparing", "committing", "running", "cancelled"}
  BY BatchWork
<1>4. /\ \A a \in Acts : a \notin Range(pump.batch) => stripped[a] = act[a]
      /\ \A a \in Range(pump.batch) :
           /\ stripped[a] \in Actions /\ stripped[a].st = act[a].st
           /\ stripped[a].lane = act[a].lane /\ stripped[a].captured = act[a].captured
           /\ stripped[a].durable = Delivered(a)
           /\ stripped[a].delivered = act[a].delivered
           /\ stripped[a].completed = act[a].completed
  <2>1. ASSUME NEW a \in Acts, a \notin Range(pump.batch) PROVE stripped[a] = act[a]
    BY <2>1
  <2>2. ASSUME NEW a \in Range(pump.batch)
        PROVE  /\ stripped[a] \in Actions /\ stripped[a].st = act[a].st
               /\ stripped[a].lane = act[a].lane /\ stripped[a].captured = act[a].captured
               /\ stripped[a].durable = Delivered(a)
               /\ stripped[a].delivered = act[a].delivered
               /\ stripped[a].completed = act[a].completed
    <3> DEFINE x == act[a]
               y == stripped[a]
               p == prefix(a)
               d == Delivered(a)
    <3>1. x \in Actions /\ d \in BOOLEAN
      BY <1>2, <1>3 DEF Actions, Delivered
    <3>2. p \in Seq(NoteMsgs)
      BY <3>1, DropFacts DEF Actions
    <3>3. y = [x EXCEPT !.next = << >>, !.prefix = p, !.durable = d]
      BY <1>3
    <3>4. << >> \in Seq(NoteMsgs)
      OBVIOUS
    <3> HIDE DEF x, y, p, d
    <3>5. /\ y \in Actions /\ y.st = x.st /\ y.lane = x.lane /\ y.captured = x.captured
          /\ y.durable = d /\ y.delivered = x.delivered /\ y.completed = x.completed
      BY <3>1, <3>2, <3>3, <3>4 DEF Actions
    <3> QED BY <3>5 DEF x, y, d
  <2> HIDE DEF stripped
  <2> QED BY <2>1, <2>2
<1>5. stripped \in [Acts -> Actions]
  <2>1. stripped = [a \in Acts |-> stripped[a]]
    OBVIOUS
  <2> HIDE DEF stripped
  <2>2. \A a \in Acts : stripped[a] \in Actions
    BY <1>2, <1>4
  <2> QED BY <2>1, <2>2
<1> HIDE DEF stripped
<1>6. /\ act' \in [Acts -> Actions]
      /\ \A a \in Acts : a \notin B => act'[a] = stripped[a]
      /\ \A a \in B : /\ act'[a].lane = act[a].lane /\ act'[a].captured = act[a].captured
                      /\ act'[a].durable = Delivered(a)
                      /\ act[a].delivered # "pending" => act'[a].delivered # "pending"
                      /\ act[a].completed # "pending" => act'[a].completed # "pending"
                      /\ \/ act'[a].st \in {act[a].st, "queued"}
                         \/ /\ act'[a].st = "failed"
                            /\ act'[a].delivered # "pending" /\ act'[a].completed # "pending"
  <2>1. CASE deferral
    <3>1. act' = SetState(stripped, undelivered, "queued") /\ "queued" \in States
      BY <1>1, <2>1 DEF States
    <3>2. /\ act' \in [Acts -> Actions]
          /\ \A a \in Acts : a \notin undelivered => act'[a] = stripped[a]
          /\ \A a \in Acts \cap undelivered :
               /\ act'[a].st = "queued" /\ act'[a].lane = stripped[a].lane
               /\ act'[a].captured = stripped[a].captured
               /\ act'[a].durable = stripped[a].durable
               /\ act'[a].delivered = stripped[a].delivered
               /\ act'[a].completed = stripped[a].completed
      <4> HIDE DEF undelivered
      <4> QED BY <1>5, <3>1, StateSet
    <3>3. ASSUME NEW a \in B
          PROVE  /\ act'[a].lane = act[a].lane /\ act'[a].captured = act[a].captured
                 /\ act'[a].durable = Delivered(a)
                 /\ act[a].delivered # "pending" => act'[a].delivered # "pending"
                 /\ act[a].completed # "pending" => act'[a].completed # "pending"
                 /\ act'[a].st \in {act[a].st, "queued"}
      <4>1. a \in Acts /\ a \in Range(pump.batch)
        BY <1>3
      <4>2. CASE a \in undelivered
        <5> HIDE DEF undelivered
        <5> QED BY <1>4, <3>2, <4>1, <4>2
      <4>3. CASE a \notin undelivered
        <5> HIDE DEF undelivered
        <5> QED BY <1>4, <3>2, <4>1, <4>3
      <4> QED BY <4>2, <4>3
    <3>4. \A a \in Acts : a \notin B => a \notin undelivered
      OBVIOUS
    <3> HIDE DEF undelivered, B, A
    <3> QED BY <3>2, <3>3, <3>4
  <2>2. CASE ~deferral
    <3>1. act' = [a \in Acts |-> IF a \in B THEN failed(stripped[a], a) ELSE stripped[a]]
      BY <1>1, <2>2
    <3>2. ASSUME NEW a \in Acts, a \notin B PROVE act'[a] = stripped[a]
      BY <3>1, <3>2
    <3>3. ASSUME NEW a \in B
          PROVE  /\ act'[a] \in Actions
                 /\ act'[a].lane = act[a].lane /\ act'[a].captured = act[a].captured
                 /\ act'[a].durable = Delivered(a)
                 /\ act'[a].st = "failed"
                 /\ act'[a].delivered # "pending" /\ act'[a].completed # "pending"
      <4> DEFINE x == stripped[a]
                 y == act'[a]
                 c == Settle(x.completed, "error")
                 d == IF a \in undelivered THEN Settle(x.delivered, "rejected") ELSE x.delivered
      <4>1. a \in Acts /\ a \in Range(pump.batch)
        BY <1>3
      <4>2. /\ x \in Actions /\ x.lane = act[a].lane /\ x.captured = act[a].captured
            /\ x.durable = Delivered(a) /\ x.delivered = act[a].delivered
        BY <1>4, <4>1
      <4>3. y = [x EXCEPT !.st = "failed", !.completed = c, !.delivered = d]
        BY <3>1, <4>1
      <4>4. Delivered(a) => act[a].delivered # "pending"
        BY <1>2, <4>1 DEF Heard
      <4>5. c \in {"ok", "error"} /\ d \in {"delivered", "rejected", "not_applicable"}
        <5>1. c \in {"ok", "error"}
          BY <4>2 DEF Actions, Settle
        <5>2. x.delivered \in {"pending", "delivered", "rejected", "not_applicable"}
          BY <4>2 DEF Actions
        <5>3. CASE a \in undelivered
          BY <5>1, <5>2, <5>3 DEF Settle
        <5>4. CASE a \notin undelivered
          BY <4>2, <4>4, <5>1, <5>2, <5>4
        <5> QED BY <5>3, <5>4
      <4>6. "failed" \in States
        BY DEF States
      <4> HIDE DEF x, y, c, d
      <4>7. /\ y \in Actions /\ y.st = "failed" /\ y.lane = x.lane /\ y.captured = x.captured
            /\ y.durable = x.durable /\ y.delivered = d /\ y.completed = c
        BY <4>2, <4>3, <4>5, <4>6 DEF Actions
      <4> QED BY <4>2, <4>5, <4>7 DEF y
    <3>4. act' = [a \in Acts |-> act'[a]]
      BY <3>1
    <3> HIDE DEF A, B
    <3>5. \A a \in Acts : act'[a] \in Actions
      BY <1>5, <3>2, <3>3
    <3>6. act' \in [Acts -> Actions]
      BY <3>4, <3>5
    <3> QED BY <3>2, <3>3, <3>6
  <2> QED BY <2>1, <2>2
<1>7. R = {a \in Range(pump.batch) : act'[a].st \in Terminal /\ ~act'[a].captured}
  BY <1>1 DEF ReleasedFrom
<1> HIDE DEF A, R
<1>8. pump' \in Pumps /\ pump'.pc \in {"off", "idle"}
  BY <1>1, <1>2, LoopFacts
<1>9. pend' \in Seq(NoteMsgs)
  <2>1. pump.notes \in Seq(NoteMsgs)
    BY <1>2 DEF Pumps
  <2> DEFINE k == Drop(pump.notes, Range(transcript))
  <2>2. k \in Seq(NoteMsgs)
    BY <2>1, DropFacts
  <2> HIDE DEF k
  <2>3. k \o pend \in Seq(NoteMsgs)
    BY <1>2, <2>2
  <2> QED BY <1>1, <2>3 DEF k
<1>10. ASSUME NEW a \in Acts, a \notin Range(pump.batch) PROVE act'[a] = act[a]
  BY <1>4, <1>6, <1>10
<1>11. ASSUME NEW a \in Range(pump.batch)
       PROVE  /\ act'[a].lane = act[a].lane /\ act'[a].captured = act[a].captured
              /\ act'[a].durable = Delivered(a)
              /\ act[a].delivered # "pending" => act'[a].delivered # "pending"
              /\ act[a].completed # "pending" => act'[a].completed # "pending"
              /\ act[a].st = "cancelled" => act'[a].st = "cancelled"
              /\ act[a].st # "cancelled" =>
                   \/ act'[a].st \in {act[a].st, "queued"}
                   \/ /\ act'[a].st = "failed"
                      /\ act'[a].delivered # "pending" /\ act'[a].completed # "pending"
  <2>1. a \in Acts
    BY <1>3
  <2>2. CASE a \in B
    <3>1. act[a].st # "cancelled"
      BY <2>2
    <3> HIDE DEF B
    <3> QED BY <1>6, <2>2, <3>1
  <2>3. CASE a \notin B
    <3>1. act[a].st = "cancelled"
      BY <2>3
    <3> HIDE DEF B
    <3> QED BY <1>4, <1>6, <2>1, <2>3, <3>1
  <2> QED BY <2>2, <2>3
<1>12. \A a \in Acts : Delivered(a) => act[a].delivered # "pending"
  BY <1>2 DEF Heard
<1> HIDE DEF B, undelivered
<1>13. \A a \in Acts : Onward(act[a], act'[a])
  <2> SUFFICES ASSUME NEW a \in Acts PROVE Onward(act[a], act'[a])
    OBVIOUS
  <2>1. CASE a \notin Range(pump.batch)
    BY <1>10, <2>1 DEF Onward
  <2>2. CASE a \in Range(pump.batch)
    BY <1>3, <1>11, <1>12, <2>2 DEF Onward, Unfinished, Terminal
  <2> QED BY <2>1, <2>2
<1>14. \A a \in Acts : act'[a].st \in Unfinished => a \notin R
  BY <1>7 DEF Unfinished, Terminal
<1>15. \A a \in Acts : a \notin R /\ (act[a].st \in Unfinished \/ act[a].captured)
                         => act'[a].st \in Unfinished \/ act'[a].captured
  <2> SUFFICES ASSUME NEW a \in Acts, a \notin R, act[a].st \in Unfinished \/ act[a].captured
               PROVE  act'[a].st \in Unfinished \/ act'[a].captured
    OBVIOUS
  <2>1. CASE a \notin Range(pump.batch)
    BY <1>10, <2>1
  <2>2. CASE a \in Range(pump.batch)
    BY <1>3, <1>7, <1>11, <2>2 DEF Terminal, Unfinished
  <2> QED BY <2>1, <2>2
<1>16. Released(lanes', R)
  BY <1>1, <1>2, WithoutFacts DEF Released
<1>17. Moves(R)
  BY <1>6, <1>13, <1>14, <1>15, <1>16 DEF Moves
<1>18. \A a \in Acts : act'[a].st = act[a].st \/ (a \in Turns /\ act'[a].st \in {"queued", "failed"})
  BY <1>3, <1>10, <1>11
<1>19. \A a \in Acts : act[a].durable => act'[a].durable
  BY <1>10, <1>11 DEF Delivered
<1> QED BY <1>1, <1>8, <1>9, <1>17, <1>18, <1>19

(* A batch that throws keeps the store's invariant. *)
LEMMA ThrowKept ==
  ASSUME StoreInv, pump.pc \in {"validate", "extensions", "commit", "running"},
         NEW deferral \in BOOLEAN, Throw(deferral), UNCHANGED <<agent, transcript, client>>
  PROVE  StoreInv'
<1>1. PICK R : Moves(R)
  BY ThrowMoves
<1>2. /\ pend' \in Seq(NoteMsgs) /\ pump' \in Pumps /\ pump'.pc \in {"off", "idle"}
      /\ \A a \in Acts : act'[a].st = act[a].st \/ (a \in Turns /\ act'[a].st \in {"queued", "failed"})
  BY ThrowMoves
<1>3. \A a \in Acts : /\ act'[a].st = "new" => act[a].st = "new"
                      /\ act[a].delivered # "pending" => act'[a].delivered # "pending"
  BY <1>1 DEF Moves, Onward
<1>4. transcript' \in Seq(Sent')
  BY <1>3, StoreFacts, StillTranscript
<1>5. AgentGood'
  BY <1>3, StoreFacts, CalmAgent
<1>6. BatchStates'
  BY <1>2, BatchWork, IdleStages
<1> QED BY <1>1, <1>2, <1>4, <1>5, <1>6, StoreFacts, StoreKept

(* Whether an error is a deferral is a Boolean. *)
LEMMA DeferralType == Deferred \in BOOLEAN
BY DEF Deferred

(* _prepareForCommit, up to the extensions. *)
LEMMA ValidateStore ==
  ASSUME StoreInv, Validate
  PROVE  StoreInv'
<1>1. pump.pc = "validate" /\ UNCHANGED <<agent, transcript, client>>
  BY DEF Validate, pumpRest
<1>2. CASE Fail
  BY <1>1, <1>2, DeferralType, ThrowKept DEF Fail
<1>3. CASE ~Fail
  <2> DEFINE n == IF ~act[pump.batch[1]].vis THEN pend ELSE << >>
  <2>1. /\ pump' = [pump EXCEPT !.pc = "extensions", !.notes = n]
        /\ pend' = (IF ~act[pump.batch[1]].vis THEN << >> ELSE pend)
        /\ UNCHANGED <<act, lanes>>
    BY <1>3 DEF Validate
  <2>2. n \in Seq(NoteMsgs) /\ pend' \in Seq(NoteMsgs) /\ pump \in Pumps
    BY <2>1, StoreFacts
  <2> HIDE DEF n
  <2>3. pump' \in Pumps /\ pump'.pc = "extensions" /\ pump'.batch = pump.batch
    BY <2>1, <2>2 DEF Pumps
  <2>4. BatchStates'
    BY <1>1, <2>1, <2>3, StoreFacts DEF BatchStates
  <2> QED BY <1>1, <2>1, <2>2, <2>3, <2>4, StoreFacts, StoreStill
<1> QED BY <1>2, <1>3

(* The release of the actions of a batch that were cancelled. *)
LEMMA ReleaseMoves ==
  ASSUME StoreInv, UNCHANGED act, lanes' = Without(lanes, ReleasedFrom(act))
  PROVE  Moves(ReleasedFrom(act))
<1> DEFINE R == ReleasedFrom(act)
<1>1. act \in [Acts -> Actions] /\ lanes \in [Lanes -> Seq(Acts)]
  BY StoreFacts
<1>2. R = {a \in Range(pump.batch) : act[a].st \in Terminal /\ ~act[a].captured}
  BY DEF ReleasedFrom
<1> HIDE DEF R
<1>3. Released(lanes', R)
  BY <1>1, WithoutFacts DEF Released, R
<1>4. \A a \in Acts : Onward(act[a], act'[a])
  BY DEF Onward
<1>5. \A a \in Acts : act'[a].st \in Unfinished => a \notin R
  BY <1>2 DEF Unfinished, Terminal
<1> QED BY <1>1, <1>3, <1>4, <1>5 DEF Moves, R

(* before_agent_start is over. *)
LEMMA PrepareStore ==
  ASSUME StoreInv, Prepare
  PROVE  StoreInv'
<1>1. pump.pc = "extensions" /\ UNCHANGED <<agent, transcript, client>>
  BY DEF Prepare, pumpRest
<1>0. /\ pump \in Pumps /\ pend \in Seq(NoteMsgs) /\ act \in [Acts -> Actions]
      /\ \A a \in Acts : act[a].st \in {"preparing", "committing"} => a \in Turns
      /\ \A a \in Range(pump.batch) : a \in Turns /\ act[a].st \in {"preparing", "cancelled"}
  BY <1>1, StoreFacts DEF BatchStates
<1>2. CASE Fail
  BY <1>1, <1>2, DeferralType, ThrowKept DEF Fail
<1>3. CASE /\ lanes' = Without(lanes, ReleasedFrom(act))
           /\ pend' = pump.notes \o pend /\ pump' = Loop(act) /\ UNCHANGED act
  <2>1. Moves(ReleasedFrom(act))
    BY <1>3, ReleaseMoves
  <2>2. pump' \in Pumps /\ pump'.pc \in {"off", "idle"}
    BY <1>0, <1>3, LoopFacts
  <2>3. pend' \in Seq(NoteMsgs)
    BY <1>0, <1>3 DEF Pumps
  <2>4. BatchStates'
    BY <1>0, <1>3, <2>2, IdleStages
  <2>5. AgentGood' /\ transcript' \in Seq(Sent')
    BY <1>1, <1>3, StoreFacts, CalmAgent, StillTranscript
  <2> QED BY <1>1, <2>1, <2>2, <2>3, <2>4, <2>5, StoreFacts, StoreKept
<1>4. CASE /\ pump' = [pump EXCEPT !.pc = "commit", !.turns = ActiveTurns]
           /\ UNCHANGED <<act, lanes, pend>>
  <2> DEFINE T == ActiveTurns
             P == {a \in Acts : act[a].st = "preparing"}
  <2>1. T \in Seq(Acts) /\ Range(T) = Range(pump.batch) \cap P
    <3>1. pump.batch \in Seq(Acts)
      BY <1>0 DEF Pumps
    <3> HIDE DEF P
    <3> QED BY <3>1, KeepFacts DEF ActiveTurns, P
  <2> HIDE DEF T
  <2>2. pump' = [pump EXCEPT !.pc = "commit", !.turns = T]
    BY <1>4 DEF T
  <2>3. /\ pump' \in Pumps /\ pump'.pc = "commit" /\ pump'.batch = pump.batch /\ pump'.turns = T
    BY <1>0, <2>1, <2>2 DEF Pumps
  <2>4. /\ Range(T) \subseteq Range(pump.batch)
        /\ \A a \in Range(pump.batch) \ Range(T) : act[a].st = "cancelled"
    BY <1>0, <2>1 DEF Acts
  <2>5. BatchStates'
    BY <1>0, <1>4, <2>3, <2>4 DEF BatchStates
  <2> QED BY <1>0, <1>1, <1>4, <2>3, <2>5, StoreFacts, StoreStill
<1> QED BY <1>2, <1>3, <1>4 DEF Prepare

(* agent.prompt under the fence: the batch is committed and its messages go
   to the agent. *)
LEMMA CommitStore ==
  ASSUME StoreInv, Commit
  PROVE  StoreInv'
<1> DEFINE stale == Deferred \/ Active \/ \E a \in Range(pump.turns) : act[a].st # "preparing"
           first == pump.turns[1]
           notes == IF act[pump.batch[1]].vis THEN pend ELSE pump.notes
           N == [act EXCEPT ![first].next = notes]
           A == SetState(N, Range(pump.turns), "committing")
           msgs(a) == A[a].prefix \o A[a].next \o <<Primary(a)>>
           todo == FlattenSeq([i \in 1 .. Len(pump.turns) |-> msgs(pump.turns[i])])
<1>1. pump.pc = "commit" /\ UNCHANGED <<transcript, client>>
  BY DEF Commit, pumpRest
<1>0. /\ pump \in Pumps /\ pend \in Seq(NoteMsgs) /\ act \in [Acts -> Actions]
      /\ lanes \in [Lanes -> Seq(Acts)]
      /\ \A a \in Acts : act[a].st \in {"preparing", "committing"} => a \in Turns
      /\ \A a \in Range(pump.batch) : a \in Turns /\ act[a].st \in {"preparing", "cancelled"}
      /\ Range(pump.turns) \subseteq Range(pump.batch)
      /\ \A a \in Range(pump.batch) \ Range(pump.turns) : act[a].st = "cancelled"
  BY <1>1, StoreFacts DEF BatchStates
<1>2. CASE stale
  BY <1>1, <1>2, ThrowKept DEF Commit
<1>3. CASE ~stale
  <2>1. /\ act' = A
        /\ pend' = (IF act[pump.batch[1]].vis THEN <<>> ELSE pend)
        /\ pump' = [pump EXCEPT !.pc = "running", !.notes = notes]
        /\ agent' = [on |-> TRUE, mid |-> FALSE, todo |-> todo]
        /\ UNCHANGED <<lanes, sch>>
    BY <1>3 DEF Commit
  <2>2. \A a \in Range(pump.turns) : act[a].st = "preparing"
    BY <1>3
  <2>3. notes \in Seq(NoteMsgs) /\ pump.turns \in Seq(Acts) /\ Range(pump.turns) \subseteq Acts
    BY <1>0, RangeFacts DEF Pumps
  <2> HIDE DEF stale, notes, todo, first
  <2>4. /\ N \in [Acts -> Actions]
        /\ \A a \in Acts : /\ N[a].st = act[a].st /\ N[a].lane = act[a].lane
                           /\ N[a].captured = act[a].captured /\ N[a].durable = act[a].durable
                           /\ N[a].delivered = act[a].delivered
                           /\ N[a].completed = act[a].completed
    <3>1. ASSUME NEW x \in Actions, NEW y, y = [x EXCEPT !.next = notes]
          PROVE  /\ y \in Actions /\ y.st = x.st /\ y.lane = x.lane /\ y.captured = x.captured
                 /\ y.durable = x.durable /\ y.delivered = x.delivered
                 /\ y.completed = x.completed
      BY <2>3, <3>1 DEF Actions
    <3>2. ASSUME NEW a \in Acts
          PROVE  N[a] = act[a] \/ N[a] = [act[a] EXCEPT !.next = notes]
      BY <1>0
    <3>3. N = [a \in Acts |-> N[a]]
      BY <1>0
    <3> HIDE DEF N
    <3>4. ASSUME NEW a \in Acts
          PROVE  /\ N[a] \in Actions /\ N[a].st = act[a].st /\ N[a].lane = act[a].lane
                 /\ N[a].captured = act[a].captured /\ N[a].durable = act[a].durable
                 /\ N[a].delivered = act[a].delivered /\ N[a].completed = act[a].completed
      BY <1>0, <3>1, <3>2
    <3> QED BY <3>3, <3>4
  <2> HIDE DEF N
  <2>5. /\ act' \in [Acts -> Actions]
        /\ \A a \in Acts : a \notin Range(pump.turns) => act'[a] = N[a]
        /\ \A a \in Range(pump.turns) :
             /\ act'[a].st = "committing" /\ act'[a].lane = N[a].lane
             /\ act'[a].captured = N[a].captured /\ act'[a].durable = N[a].durable
             /\ act'[a].delivered = N[a].delivered /\ act'[a].completed = N[a].completed
    BY <2>1, <2>3, <2>4, StateSet DEF States
  <2>6. \A a \in Acts :
          /\ act'[a].lane = act[a].lane /\ act'[a].captured = act[a].captured
          /\ act'[a].durable = act[a].durable /\ act'[a].delivered = act[a].delivered
          /\ act'[a].completed = act[a].completed
          /\ a \notin Range(pump.turns) => act'[a].st = act[a].st
    BY <2>4, <2>5
  <2>7. Moves({})
    <3>1. \A a \in Acts : Onward(act[a], act'[a])
      BY <2>2, <2>5, <2>6 DEF Onward, Unfinished, Terminal
    <3>2. \A a \in Acts : act[a].st \in Unfinished \/ act[a].captured
                            => act'[a].st \in Unfinished \/ act'[a].captured
      BY <2>5, <2>6 DEF Unfinished
    <3>3. Released(lanes', {})
      BY <1>0, <2>1 DEF Released
    <3> QED BY <2>5, <3>1, <3>2, <3>3 DEF Moves
  <2>8. pend' \in Seq(NoteMsgs)
    BY <1>0, <2>1
  <2>9. /\ pump' \in Pumps /\ pump'.pc = "running" /\ pump'.batch = pump.batch
        /\ pump'.turns = pump.turns
    BY <1>0, <2>1, <2>3 DEF Pumps
  <2>10. BatchStates'
    <3>1. Range(pump.batch) \subseteq Turns
      BY <1>0
    <3>2. \A a \in Range(pump.batch) \ Range(pump.turns) : act'[a].st = "cancelled"
      BY <1>0, <2>6 DEF Acts
    <3>3. \A a \in Acts : act'[a].st \in {"preparing", "committing"} => a \in Turns
      BY <1>0, <2>6
    <3> QED BY <1>0, <2>5, <2>9, <3>1, <3>2, <3>3 DEF BatchStates
  <2>11. \A a \in Acts : act'[a].st = "new" => act[a].st = "new"
    BY <2>5, <2>6
  <2>12. transcript' \in Seq(Sent')
    BY <1>1, <2>11, StoreFacts, StillTranscript
  <2>13. todo \in Seq(Sent')
    <3>1. \A a \in Range(pump.turns) : Primary(a) \in Sent'
      BY <2>3, <2>5 DEF Sent, NoteMsgs, Primary
    <3>2. NoteMsgs \subseteq Sent'
      BY DEF Sent, NoteMsgs
    <3>3. ASSUME NEW a \in Range(pump.turns)
          PROVE  msgs(a) \in Seq(Sent')
      <4> DEFINE p == A[a].prefix
                 n == A[a].next
                 m == Primary(a)
      <4>1. p \in Seq(NoteMsgs) /\ n \in Seq(NoteMsgs)
        BY <2>1, <2>3, <2>5 DEF Actions
      <4> HIDE DEF p, n
      <4>2. p \in Seq(Sent') /\ n \in Seq(Sent')
        BY <3>2, <4>1, SeqMono
      <4>3. m \in Sent'
        BY <3>1
      <4> DEFINE U == Sent'
      <4> HIDE DEF m, U
      <4>4. p \in Seq(U) /\ n \in Seq(U) /\ m \in U
        BY <4>2, <4>3 DEF U
      <4>5. p \o n \o <<m>> \in Seq(U)
        BY <4>4
      <4> QED BY <4>5 DEF p, n, m, U
    <3> HIDE DEF msgs
    <3> DEFINE ss == [i \in 1 .. Len(pump.turns) |-> msgs(pump.turns[i])]
    <3>4. \A i \in 1 .. Len(pump.turns) : msgs(pump.turns[i]) \in Seq(Sent')
      BY <2>3, <3>3 DEF Range
    <3>5. ss \in Seq(Seq(Sent'))
      BY <2>3, <3>4
    <3>6. todo = FlattenSeq(ss)
      BY DEF todo
    <3> HIDE DEF ss
    <3> QED BY <3>5, <3>6, FlattenType
  <2>14. AgentGood'
    BY <2>1, <2>13 DEF AgentGood
  <2>15. client' \in [Acts -> Submissions] /\ \A a \in Acts : client'[a] # "done" => client[a] # "done"
    BY <1>1, StoreFacts
  <2> QED BY <1>1, <2>7, <2>8, <2>9, <2>10, <2>12, <2>14, <2>15, StoreKept
<1> QED BY <1>2, <1>3

(* The run of a batch has settled: what was delivered is complete. *)
LEMMA RunSettledStore ==
  ASSUME StoreInv, RunSettled
  PROVE  StoreInv'
<1> DEFINE missing == \E a \in Range(pump.turns) : act[a].st # "cancelled" /\ ~Delivered(a)
           A == [a \in Acts |->
                   IF a \in Range(pump.batch) /\ act[a].st \in {"committing", "running"}
                   THEN [act[a] EXCEPT !.st = "completed", !.completed = Settle(@, "ok")]
                   ELSE act[a]]
           D == {a \in Range(pump.batch) : act[a].st \in {"committing", "running"}}
           R == ReleasedFrom(A)
<1>1. pump.pc = "running" /\ UNCHANGED <<transcript, client, agent>>
  BY DEF RunSettled, pumpRest
<1>0. /\ pump \in Pumps /\ pend \in Seq(NoteMsgs) /\ act \in [Acts -> Actions]
      /\ lanes \in [Lanes -> Seq(Acts)] /\ Heard
      /\ \A a \in Acts : act[a].st \in {"preparing", "committing"} => a \in Turns
      /\ Range(pump.batch) \subseteq Turns
      /\ \A a \in Range(pump.turns) : act[a].st \in {"committing", "running", "cancelled"}
      /\ \A a \in Range(pump.batch) \ Range(pump.turns) : act[a].st = "cancelled"
  BY <1>1, StoreFacts DEF BatchStates
<1>2. CASE missing \/ Rejected
  BY <1>1, <1>2, DeferralType, ThrowKept DEF RunSettled, Fail
<1>3. CASE ~(missing \/ Rejected)
  <2>1. /\ act' = A /\ lanes' = Without(lanes, R)
        /\ pump' = (IF pump.epoch # sch.epoch THEN NoPump ELSE Loop(A))
        /\ UNCHANGED <<pend, sch>>
    BY <1>3 DEF RunSettled
  <2>2. \A a \in D : a \in Acts /\ act[a].delivered # "pending"
    BY <1>0, <1>3 DEF Acts, Heard
  <2>3. R = {a \in Range(pump.batch) : act'[a].st \in Terminal /\ ~act'[a].captured}
    BY <2>1 DEF ReleasedFrom
  <2> HIDE DEF missing
  <2>4. ASSUME NEW a \in Acts, a \notin D PROVE act'[a] = act[a]
    BY <2>1, <2>4
  <2>5. ASSUME NEW a \in D
        PROVE  /\ act'[a] \in Actions /\ act'[a].st = "completed" /\ act'[a].lane = act[a].lane
               /\ act'[a].captured = act[a].captured /\ act'[a].durable = act[a].durable
               /\ act'[a].delivered = act[a].delivered /\ act'[a].completed # "pending"
    <3> DEFINE x == act[a]
               y == act'[a]
               c == Settle(x.completed, "ok")
    <3>1. x \in Actions
      BY <1>0, <2>2
    <3>2. y = [x EXCEPT !.st = "completed", !.completed = c]
      BY <2>1, <2>2
    <3>3. c \in {"ok", "error"} /\ "completed" \in States
      BY <3>1 DEF Actions, Settle, States
    <3> HIDE DEF x, y, c
    <3>4. /\ y \in Actions /\ y.st = "completed" /\ y.lane = x.lane /\ y.captured = x.captured
          /\ y.durable = x.durable /\ y.delivered = x.delivered /\ y.completed = c
      BY <3>1, <3>2, <3>3 DEF Actions
    <3> QED BY <3>3, <3>4 DEF x, y
  <2>6. act' \in [Acts -> Actions]
    BY <1>0, <2>1, <2>4, <2>5
  <2>7. pump' \in Pumps /\ pump'.pc \in {"off", "idle"}
    BY <1>0, <2>1, LoopFacts
  <2>8. Released(lanes', R)
    <3> HIDE DEF R
    <3> QED BY <1>0, <2>1, WithoutFacts DEF Released
  <2>9. \A a \in D : act[a].st \in Unfinished
    BY DEF Unfinished
  <2> HIDE DEF R, A
  <2>10. \A a \in Acts : Onward(act[a], act'[a])
    <3> SUFFICES ASSUME NEW a \in Acts PROVE Onward(act[a], act'[a])
      OBVIOUS
    <3>1. CASE a \in D
      <4> HIDE DEF D
      <4> QED BY <2>2, <2>5, <2>9, <3>1 DEF Onward, Unfinished
    <3>2. CASE a \notin D
      BY <2>4, <3>2 DEF Onward
    <3> QED BY <3>1, <3>2
  <2>11. \A a \in Acts : act'[a].st \in Unfinished => a \notin R
    BY <2>3 DEF Unfinished, Terminal
  <2>12. \A a \in Acts : a \notin R /\ (act[a].st \in Unfinished \/ act[a].captured)
                           => act'[a].st \in Unfinished \/ act'[a].captured
    BY <2>3, <2>4, <2>5 DEF Terminal
  <2>13. Moves(R)
    BY <2>6, <2>8, <2>10, <2>11, <2>12 DEF Moves
  <2>14. \A a \in Acts : /\ act'[a].st = "new" => act[a].st = "new"
                         /\ act[a].delivered # "pending" => act'[a].delivered # "pending"
    BY <2>10 DEF Onward
  <2>15. AgentGood' /\ transcript' \in Seq(Sent')
    BY <1>1, <2>14, StoreFacts, CalmAgent, StillTranscript
  <2>16. BatchStates'
    <3>1. \A a \in Acts : act'[a].st \in {"preparing", "committing"} => a \in Turns
      <4> HIDE DEF D
      <4> QED BY <1>0, <2>4, <2>5
    <3> QED BY <2>7, <3>1, IdleStages
  <2> QED BY <1>0, <1>1, <2>1, <2>7, <2>13, <2>15, <2>16, StoreFacts, StoreKept
<1> QED BY <1>2, <1>3

-----------------------------------------------------------------------------
(* The run *)

(* message_start: the delivery of the message is reported. *)
LEMMA MessageStartStore ==
  ASSUME StoreInv, MessageStart
  PROVE  StoreInv'
<1> DEFINE m == Head(agent.todo)
<1>1. /\ agent.todo # << >> /\ agent' = [agent EXCEPT !.mid = TRUE]
      /\ act' = [a \in Acts |-> IF m = Primary(a)
              THEN [act[a] EXCEPT !.started = TRUE, !.delivered = Settle(@, "delivered")]
              ELSE act[a]]
      /\ UNCHANGED <<lanes, client, pump, pend, transcript>>
  BY DEF MessageStart, runRest
<1>2. /\ act \in [Acts -> Actions] /\ lanes \in [Lanes -> Seq(Acts)] /\ pump \in Pumps
      /\ agent \in [on : BOOLEAN, mid : BOOLEAN, todo : Seq(Sent)]
  BY StoreFacts DEF AgentGood
<1> HIDE DEF m
<1>3. ASSUME NEW a \in Acts
      PROVE  /\ act'[a] \in Actions /\ act'[a].st = act[a].st /\ act'[a].lane = act[a].lane
             /\ act'[a].captured = act[a].captured /\ act'[a].durable = act[a].durable
             /\ act'[a].completed = act[a].completed
             /\ act[a].delivered # "pending" => act'[a].delivered # "pending"
             /\ m = Primary(a) => act'[a].delivered # "pending"
  <2> DEFINE x == act[a]
             y == act'[a]
             d == Settle(x.delivered, "delivered")
  <2>1. x \in Actions
    BY <1>2
  <2>2. CASE m = Primary(a)
    <3>1. y = [x EXCEPT !.started = TRUE, !.delivered = d]
      BY <1>1, <2>2
    <3>2. d \in {"delivered", "rejected", "not_applicable"}
      BY <2>1 DEF Actions, Settle
    <3> HIDE DEF x, y, d
    <3>3. /\ y \in Actions /\ y.st = x.st /\ y.lane = x.lane /\ y.captured = x.captured
          /\ y.durable = x.durable /\ y.delivered = d /\ y.completed = x.completed
      BY <2>1, <3>1, <3>2 DEF Actions
    <3> QED BY <3>2, <3>3 DEF x, y
  <2>3. CASE m # Primary(a)
    BY <1>1, <2>1, <2>3
  <2> QED BY <2>2, <2>3
<1>4. act' \in [Acts -> Actions]
  BY <1>1, <1>3
<1>5. Moves({})
  BY <1>1, <1>2, <1>3, <1>4 DEF Released, Onward, Moves
<1>6. BatchStates'
  BY <1>1, <1>3, StoreFacts, SteadyStages DEF Drifts
<1>7. transcript' \in Seq(Sent')
  BY <1>1, <1>3, StoreFacts, StillTranscript
<1>8. AgentGood'
  BY <1>1, <1>2, <1>3, SentGrows, SeqMono DEF m, AgentGood
<1> QED BY <1>1, <1>5, <1>6, <1>7, <1>8, StoreFacts, StoreKept

(* message_end: the message is in the transcript, and its turn runs. *)
LEMMA MessageEndStore ==
  ASSUME StoreInv, MessageEnd
  PROVE  StoreInv'
<1> DEFINE m == Head(agent.todo)
<1>1. /\ agent.mid /\ agent' = [agent EXCEPT !.mid = FALSE, !.todo = Tail(@)]
      /\ transcript' = Append(transcript, m)
      /\ act' = [a \in Acts |-> IF m = Primary(a)
                 THEN [act[a] EXCEPT !.durable = TRUE,
                         !.st = IF @ = "committing" THEN "running" ELSE @]
                 ELSE act[a]]
      /\ UNCHANGED <<lanes, client, pump, pend>>
  BY DEF MessageEnd, runRest
<1>2. /\ act \in [Acts -> Actions] /\ lanes \in [Lanes -> Seq(Acts)] /\ pump \in Pumps
      /\ agent \in [on : BOOLEAN, mid : BOOLEAN, todo : Seq(Sent)] /\ transcript \in Seq(Sent)
      /\ agent.todo # << >> /\ agent.todo \in Seq(Sent)
  BY <1>1, StoreFacts DEF AgentGood
<1>3. /\ m \in Sent /\ Tail(agent.todo) \in Seq(Sent)
      /\ \A a \in Acts : m = Primary(a) => act[a].delivered # "pending"
  BY <1>1, <1>2, StoreFacts, RangeFacts DEF AgentGood
<1> HIDE DEF m
<1>4. ASSUME NEW a \in Acts
      PROVE  /\ act'[a] \in Actions /\ act'[a].lane = act[a].lane
             /\ act'[a].captured = act[a].captured
             /\ act'[a].durable => act[a].durable \/ m = Primary(a)
             /\ act'[a].completed = act[a].completed /\ act'[a].delivered = act[a].delivered
             /\ act'[a].st = act[a].st \/ (act[a].st = "committing" /\ act'[a].st = "running")
  <2> DEFINE x == act[a]
             y == act'[a]
             s == IF x.st = "committing" THEN "running" ELSE x.st
  <2>1. x \in Actions
    BY <1>2
  <2>2. CASE m = Primary(a)
    <3>1. y = [x EXCEPT !.durable = TRUE, !.st = s]
      BY <1>1, <2>2
    <3>2. s \in States /\ (s = x.st \/ (x.st = "committing" /\ s = "running"))
      BY <2>1 DEF Actions, States
    <3> HIDE DEF x, y, s
    <3>3. /\ y \in Actions /\ y.st = s /\ y.lane = x.lane /\ y.captured = x.captured
          /\ y.delivered = x.delivered /\ y.completed = x.completed
      BY <2>1, <3>1, <3>2 DEF Actions
    <3> QED BY <2>2, <3>2, <3>3 DEF x, y
  <2>3. CASE m # Primary(a)
    BY <1>1, <2>1, <2>3
  <2> QED BY <2>2, <2>3
<1>5. act' \in [Acts -> Actions]
  BY <1>1, <1>4
<1>6. Moves({})
  <2>1. Released(lanes', {})
    BY <1>1, <1>2 DEF Released
  <2>2. \A a \in Acts : Onward(act[a], act'[a])
    BY <1>3, <1>4 DEF Onward, Unfinished, Terminal
  <2>3. \A a \in Acts : act[a].st \in Unfinished \/ act[a].captured
                          => act'[a].st \in Unfinished \/ act'[a].captured
    BY <1>4 DEF Unfinished
  <2> QED BY <1>5, <2>1, <2>2, <2>3 DEF Moves
<1>7. BatchStates'
  BY <1>1, <1>4, StoreFacts, SteadyStages DEF Drifts
<1>8. Sent \subseteq Sent'
  BY <1>4, SentGrows
<1>9. transcript' \in Seq(Sent') /\ Range(transcript') = Range(transcript) \cup {m}
  BY <1>1, <1>2, <1>3, <1>8, RangeFacts, SeqMono
<1>10. AgentGood'
  <2> DEFINE t == Tail(agent.todo)
  <2>1. t \in Seq(Sent')
    BY <1>3, <1>8, SeqMono
  <2>2. agent' = [agent EXCEPT !.mid = FALSE, !.todo = t]
    BY <1>1
  <2> HIDE DEF t
  <2>3. agent' \in [on : BOOLEAN, mid : BOOLEAN, todo : Seq(Sent')] /\ ~agent'.mid
    BY <1>2, <2>1, <2>2
  <2> QED BY <2>3 DEF AgentGood
<1>11. \A a \in Acts : Primary(a) \in Range(transcript')
                         => Primary(a) \in Range(transcript) \/ act'[a].delivered # "pending"
  BY <1>3, <1>4, <1>9
<1> QED BY <1>1, <1>6, <1>7, <1>9, <1>10, <1>11, StoreFacts, StoreKept

(* agent_end: what a cancelled dispatch has left is out of the transcript. *)
LEMMA AgentEndStore ==
  ASSUME StoreInv, AgentEnd \/ RetryEnd
  PROVE  StoreInv'
<1>1. /\ agent' = NoRun \/ UNCHANGED agent
      /\ transcript' = Drop(transcript, Captured(act))
      /\ UNCHANGED <<act, lanes, client, pump, pend>>
  BY DEF AgentEnd, RetryEnd, runRest
<1>2. Moves({})
  BY <1>1, NoMove
<1>3. transcript' \in Seq(Sent') /\ Range(transcript') \subseteq Range(transcript)
  BY <1>1, StoreFacts, CalmTranscript
<1>4. BatchStates'
  BY <1>1, StoreFacts, SteadyStages DEF Drifts
<1>5. AgentGood'
  <2>1. CASE agent' = NoRun
    BY <1>1, <2>1 DEF NoRun, AgentGood
  <2>2. CASE UNCHANGED agent
    BY <1>1, <2>2, StoreFacts, CalmAgent
  <2> QED BY <1>1, <2>1, <2>2
<1> QED BY <1>1, <1>2, <1>3, <1>4, <1>5, StoreFacts, StoreKept

(* _processAgentEvent: the end of a run releases what was cancelled in it. *)
LEMMA ProcessEventStore ==
  ASSUME StoreInv, ProcessEvent
  PROVE  StoreInv'
<1> DEFINE C == IF Head(evq) = "agent_end" THEN {a \in Acts : act[a].captured} ELSE {}
<1>1. /\ lanes' = Without(lanes, C)
      /\ act' = [a \in Acts |-> [act[a] EXCEPT !.captured = @ /\ a \notin C]]
      /\ transcript' = Drop(transcript, Captured(act))
      /\ UNCHANGED <<client, pump, agent, pend>>
  BY DEF ProcessEvent
<1>2. /\ act \in [Acts -> Actions] /\ lanes \in [Lanes -> Seq(Acts)] /\ pump \in Pumps /\ Shelves
  BY StoreFacts
<1>3. \A a \in C : a \in Acts /\ act[a].captured
  OBVIOUS
<1> HIDE DEF C
<1>4. ASSUME NEW a \in Acts
      PROVE  /\ act'[a] \in Actions /\ act'[a].st = act[a].st /\ act'[a].lane = act[a].lane
             /\ act'[a].captured = (act[a].captured /\ a \notin C)
             /\ act'[a].durable = act[a].durable
             /\ act'[a].completed = act[a].completed /\ act'[a].delivered = act[a].delivered
  <2> DEFINE x == act[a]
             y == act'[a]
             b == x.captured /\ a \notin C
  <2>1. x \in Actions
    BY <1>2
  <2>2. y = [x EXCEPT !.captured = b]
    BY <1>1
  <2>3. b \in BOOLEAN
    OBVIOUS
  <2> HIDE DEF x, y, b
  <2>4. /\ y \in Actions /\ y.st = x.st /\ y.lane = x.lane /\ y.captured = b
        /\ y.durable = x.durable /\ y.delivered = x.delivered /\ y.completed = x.completed
    BY <2>1, <2>2, <2>3 DEF Actions
  <2> QED BY <2>4 DEF x, y, b
<1>5. act' \in [Acts -> Actions]
  BY <1>1, <1>4
<1>6. Moves(C)
  <2>1. Released(lanes', C)
    BY <1>1, <1>2, WithoutFacts DEF Released
  <2>2. \A a \in Acts : Onward(act[a], act'[a])
    BY <1>4 DEF Onward
  <2>3. \A a \in Acts : act'[a].st \in Unfinished => a \notin C
    BY <1>2, <1>3, <1>4 DEF Shelves, NewAreFresh, Unfinished
  <2>4. \A a \in Acts : a \notin C /\ (act[a].st \in Unfinished \/ act[a].captured)
                           => act'[a].st \in Unfinished \/ act'[a].captured
    BY <1>4
  <2> QED BY <1>5, <2>1, <2>2, <2>3, <2>4 DEF Moves
<1>7. BatchStates'
  BY <1>1, <1>4, StoreFacts, SteadyStages DEF Drifts
<1>8. transcript' \in Seq(Sent') /\ Range(transcript') \subseteq Range(transcript)
  BY <1>1, <1>4, StoreFacts, CalmTranscript
<1>9. AgentGood'
  BY <1>1, <1>4, StoreFacts, CalmAgent
<1> QED BY <1>1, <1>6, <1>7, <1>8, <1>9, StoreFacts, StoreKept

-----------------------------------------------------------------------------
(* The pump selects *)

(* A step that puts unfinished actions into other unfinished states. *)
LEMMA RestateMoves ==
  ASSUME StoreInv, NEW S \in SUBSET Acts, NEW s \in Unfinished,
         act' = SetState(act, S, s), UNCHANGED lanes,
         \A a \in S : act[a].st \in Unfinished
  PROVE  /\ Moves({})
         /\ \A a \in Acts : a \notin S => act'[a] = act[a]
         /\ \A a \in S : act'[a].st = s /\ act'[a].delivered = act[a].delivered
<1>1. act \in [Acts -> Actions] /\ lanes \in [Lanes -> Seq(Acts)] /\ Shelves
  BY StoreFacts
<1>2. s \in States
  BY DEF States, Unfinished
<1>3. /\ act' \in [Acts -> Actions]
      /\ \A a \in Acts : a \notin S => act'[a] = act[a]
      /\ \A a \in Acts \cap S :
           /\ act'[a].st = s /\ act'[a].lane = act[a].lane /\ act'[a].captured = act[a].captured
           /\ act'[a].durable = act[a].durable /\ act'[a].delivered = act[a].delivered
           /\ act'[a].completed = act[a].completed
  BY <1>1, <1>2, StateSet
<1>4. \A a \in Acts : Onward(act[a], act'[a])
  <2> SUFFICES ASSUME NEW a \in Acts PROVE Onward(act[a], act'[a])
    OBVIOUS
  <2>1. CASE a \in S
    BY <1>3, <2>1 DEF Onward, Unfinished, Terminal
  <2>2. CASE a \notin S
    BY <1>3, <2>2 DEF Onward
  <2> QED BY <2>1, <2>2
<1>5. Released(lanes', {})
  BY <1>1 DEF Released
<1>6. \A a \in Acts : act[a].st \in Unfinished \/ act[a].captured
                        => act'[a].st \in Unfinished \/ act'[a].captured
  BY <1>3
<1> QED BY <1>3, <1>4, <1>5, <1>6 DEF Moves

(* Such a step keeps the store's invariant if the pump is where it may be. *)
LEMMA RestateKept ==
  ASSUME StoreInv, NEW S \in SUBSET Acts, NEW s \in Unfinished,
         act' = SetState(act, S, s), UNCHANGED <<lanes, pend, agent, transcript, client>>,
         \A a \in S : act[a].st \in Unfinished, pump' \in Pumps, BatchStates'
  PROVE  StoreInv'
<1>1. Moves({})
  BY RestateMoves
<1>2. \A a \in Acts : /\ act'[a].st = "new" => act[a].st = "new"
                      /\ act[a].delivered # "pending" => act'[a].delivered # "pending"
  BY <1>1 DEF Moves, Onward
<1>3. AgentGood' /\ transcript' \in Seq(Sent')
  BY <1>2, StoreFacts, CalmAgent, StillTranscript
<1> QED BY <1>1, <1>3, StoreFacts, StoreKept

(* The owned actions in some states. *)
LEMMA InStateFacts ==
  ASSUME StoreInv, NEW S
  PROVE  /\ InState(S) \in Seq(Acts)
         /\ \A a \in Range(InState(S)) : a \in Acts /\ act[a].st \in S
         /\ InState(S) # << >> => InState(S)[1] \in Acts /\ act[InState(S)[1]].st \in S
         /\ \A l \in Lanes : QueuedIn(l) \in Seq(Acts) /\
              \A a : a \in Range(QueuedIn(l)) <=> (a \in Range(lanes[l]) /\ a \in Acts /\ act[a].st = "queued")
<1> DEFINE P == {a \in Acts : act[a].st \in S}
           Q == {a \in Acts : act[a].st = "queued"}
           k == InState(S)
<1>1. lanes \in [Lanes -> Seq(Acts)] /\ Owned \in Seq(Acts)
  BY StoreFacts, OwnedRange
<1>2. k = Keep(Owned, P)
  BY DEF InState
<1>3. k \in Seq(Acts) /\ Range(k) = Range(Owned) \cap P
  <2> HIDE DEF P, k
  <2> QED BY <1>1, <1>2, KeepFacts
<1>4. k # << >> => k[1] \in Range(k)
  <2> HIDE DEF k
  <2> QED BY <1>3, RangeFacts
<1>5. ASSUME NEW l \in Lanes
      PROVE  QueuedIn(l) \in Seq(Acts) /\
              \A a : a \in Range(QueuedIn(l)) <=> (a \in Range(lanes[l]) /\ a \in Acts /\ act[a].st = "queued")
  <2>1. lanes[l] \in Seq(Acts) /\ QueuedIn(l) = Keep(lanes[l], Q)
    BY <1>1 DEF QueuedIn
  <2>2. Keep(lanes[l], Q) \in Seq(Acts) /\ Range(Keep(lanes[l], Q)) = Range(lanes[l]) \cap Q
    <3> HIDE DEF Q
    <3> QED BY <2>1, KeepFacts
  <2> QED BY <2>1, <2>2
<1> HIDE DEF k
<1> QED BY <1>3, <1>4, <1>5 DEF k

(* _pumpSessionInputs begins. *)
LEMMA StartPumpStore ==
  ASSUME StoreInv, sch \in Schedulers, StartPump
  PROVE  StoreInv'
<1>1. /\ sch.queue # << >>
      /\ pump' = (IF Selectable(act)
                  THEN [NoPump EXCEPT !.pc = "idle", !.epoch = Head(sch.queue)] ELSE NoPump)
      /\ UNCHANGED <<act, lanes, pend, agent, transcript, client>>
  BY DEF StartPump, storeVars, pumpRest
<1>2. Head(sch.queue) \in Nat
  BY <1>1 DEF Schedulers
<1>3. pump' \in Pumps /\ pump'.pc \in {"off", "idle"}
  BY <1>1, <1>2, StoreFacts, LoopFacts
<1>4. BatchStates'
  BY <1>1, <1>3, StoreFacts, IdleStages DEF BatchStates
<1> QED BY <1>1, <1>3, <1>4, StoreFacts, StoreStill

(* The pump past waitForIdle: the action that was selected at its admission
   goes first, unless another epoch has begun. *)
LEMMA AgentIdleStore ==
  ASSUME StoreInv, AgentIdle
  PROVE  StoreInv'
<1>1. UNCHANGED <<lanes, pend, agent, transcript, client>>
  BY DEF AgentIdle, pumpRest
<1>2. /\ \A a \in Acts : act[a].st \in {"preparing", "committing"} => a \in Turns
      /\ pump \in Pumps
  BY StoreFacts DEF BatchStates
<1>3. Preselected # << >> => Preselected[1] \in Acts /\ act[Preselected[1]].st = "selected"
  BY InStateFacts DEF Preselected
<1>4. CASE pump.epoch # sch.epoch
  <2> DEFINE S == {a \in Acts : Preselected # <<>> /\ a = Preselected[1]}
  <2>1. act' = SetState(act, S, "queued") /\ pump' = NoPump
    BY <1>4 DEF AgentIdle
  <2>2. S \in SUBSET Acts /\ \A a \in S : act[a].st = "selected"
    BY <1>3
  <2> HIDE DEF S
  <2>3. "queued" \in Unfinished /\ \A a \in S : act[a].st \in Unfinished
    BY <2>2 DEF Unfinished
  <2>4. pump' \in Pumps /\ pump'.pc = "off"
    BY <1>2, <2>1, LoopFacts
  <2>5. /\ \A a \in Acts : a \notin S => act'[a] = act[a]
        /\ \A a \in S : act'[a].st = "queued"
    BY <1>1, <2>1, <2>2, <2>3, RestateMoves
  <2>6. BatchStates'
    BY <1>2, <2>4, <2>5, IdleStages
  <2> QED BY <1>1, <2>1, <2>2, <2>3, <2>4, <2>6, RestateKept
<1>5. CASE ~(pump.epoch # sch.epoch)
  <2> DEFINE p == IF Preselected = <<>> THEN None ELSE Preselected[1]
  <2>1. pump' = [pump EXCEPT !.pc = "select", !.pre = p] /\ UNCHANGED act
    BY <1>5 DEF AgentIdle
  <2>2. p \in Acts \cup {None} /\ (p # None => act[p].st = "selected")
    BY <1>3
  <2> HIDE DEF p
  <2>3. pump' \in Pumps /\ pump'.pc = "select" /\ pump'.pre = p
    BY <1>2, <2>1, <2>2 DEF Pumps
  <2>4. BatchStates'
    BY <1>2, <2>1, <2>2, <2>3 DEF BatchStates
  <2> QED BY <1>1, <2>1, <2>3, <2>4, StoreFacts, StoreStill
<1> QED BY <1>4, <1>5

(* The turns of a dispatch: the first, and queued turns behind it. *)
LEMMA BatchFacts ==
  ASSUME StoreInv, NEW first \in Acts, act[first].st \in {"selected", "queued"},
         pump.pre = None => act[first].st = "queued"
  PROVE  /\ Batch(first) \in Seq(Acts)
         /\ \A a \in Range(Batch(first)) : a = first \/ (a \in Turns /\ act[a].st = "queued")
         /\ \/ Batch(first) = <<first>>
            \/ LET q == QueuedIn(act[first].lane) IN
               pump.pre = None /\ \E n \in 1 .. Len(q) : Batch(first) = <<first>> \o SubSeq(q, 2, n)
<1> DEFINE q == QueuedIn(act[first].lane)
           same(i) == q[i] \in Turns /\ act[q[i]].vis = act[first].vis
           ends(k) == k = Len(q) \/ ~same(k + 1)
           good(k) == (\A i \in 2 .. k : same(i)) /\ ends(k)
           n == CHOOSE k \in 1 .. Len(q) : good(k)
           t == SubSeq(q, 2, n)
<1>1. CASE pump.pre # None \/ ~BatchAll
  <2>1. Batch(first) = <<first>>
    BY <1>1 DEF Batch
  <2>2. <<first>> \in Seq(Acts) /\ Range(<<first>>) = {first}
    BY DEF Range
  <2> QED BY <2>1, <2>2
<1>2. CASE ~(pump.pre # None \/ ~BatchAll)
  <2>1. Batch(first) = <<first>> \o t
    BY <1>2 DEF Batch
  <2>2. act[first].lane \in Lanes /\ act \in [Acts -> Actions]
    BY StoreFacts DEF Actions
  <2>3. /\ q \in Seq(Acts)
        /\ \A a \in Range(q) : a \in Acts /\ act[a].st = "queued"
        /\ first \in Range(q)
    <3>1. first \in Range(lanes[act[first].lane])
      BY StoreFacts DEF Unfinished, Shelves, TypeOK
    <3>2. act[first].st = "queued"
      BY <1>2
    <3> QED BY <2>2, <3>1, <3>2, InStateFacts
  <2> HIDE DEF q
  <2>4. Len(q) \in Nat /\ Len(q) >= 1 /\ \A i \in 1 .. Len(q) : q[i] \in Range(q)
    BY <2>3 DEF Range
  <2>5. n \in 1 .. Len(q) /\ \A i \in 2 .. n : same(i)
    <3> DEFINE I == {k \in 1 .. Len(q) : ends(k)}
               m == Len(q)
    <3>0. m \in Nat /\ m >= 1
      BY <2>4
    <3>1. I \in SUBSET (1 .. m) /\ m \in I
      BY <2>4
    <3>2. PICK k \in I : \A i \in I : k <= i
      <4> HIDE DEF I, m
      <4> QED BY <3>0, <3>1, Least
    <3>3. k \in 1 .. Len(q) /\ ends(k)
      OBVIOUS
    <3>4. \A i \in 2 .. k : same(i)
      <4> SUFFICES ASSUME NEW i \in 2 .. k PROVE same(i)
        OBVIOUS
      <4>1. i - 1 \in 1 .. Len(q) /\ ~(k <= i - 1) /\ (i - 1) + 1 = i
        BY <2>4, <3>3
      <4>2. i - 1 \notin I
        <5> HIDE DEF I
        <5> QED BY <3>2, <4>1
      <4>3. ~ends(i - 1)
        <5> HIDE DEF ends
        <5> QED BY <4>1, <4>2
      <4>4. same((i - 1) + 1)
        <5> HIDE DEF same
        <5> QED BY <4>3
      <4> HIDE DEF same
      <4> QED BY <4>1, <4>4
    <3> HIDE DEF I, m
    <3>5. \E j \in 1 .. Len(q) : good(j)
      <4> HIDE DEF same, ends
      <4> QED BY <3>3, <3>4
    <3> HIDE DEF good
    <3>6. n \in 1 .. Len(q) /\ good(n)
      BY <3>5
    <3> HIDE DEF n
    <3> QED BY <3>6 DEF good
  <2>11. \E k \in 1 .. Len(q) : Batch(first) = <<first>> \o SubSeq(q, 2, k)
    <3> HIDE DEF n
    <3> QED BY <2>1, <2>5
  <2> HIDE DEF n
  <2>6. /\ t \in Seq(Acts)
        /\ \A i \in 1 .. Len(t) : \E j \in 2 .. n : t[i] = q[j]
    <3>1. n \in Nat /\ 2 \in 1 .. Len(q) + 1 /\ n \in 2 - 1 .. Len(q)
      BY <2>4, <2>5
    <3>2. /\ t \in Seq(Acts) /\ Len(t) = n - 1
          /\ \A i \in 1 .. n - 1 : t[i] = q[i + 1]
      <4>1. t = [i \in 1 .. n - 1 |-> q[i + 1]]
        BY <2>3, <2>4, <2>5
      <4>2. n - 1 \in Nat /\ \A i \in 1 .. n - 1 : i + 1 \in 1 .. Len(q)
        BY <2>4, <2>5
      <4>3. \A i \in 1 .. n - 1 : q[i + 1] \in Acts
        BY <2>3, <2>4, <4>2
      <4> HIDE DEF t
      <4> QED BY <4>1, <4>2, <4>3
    <3> HIDE DEF t
    <3>3. \A i \in 1 .. Len(t) : i + 1 \in 2 .. n /\ t[i] = q[i + 1]
      BY <3>1, <3>2
    <3> QED BY <3>2, <3>3
  <2> HIDE DEF t
  <2>7. \A i \in 1 .. Len(t) : t[i] \in Turns /\ act[t[i]].st = "queued"
    BY <2>3, <2>4, <2>5, <2>6
  <2> DEFINE b == <<first>> \o t
  <2>8. /\ b \in Seq(Acts)
        /\ \A i \in 1 .. Len(b) : b[i] = first \/ \E j \in 1 .. Len(t) : b[i] = t[j]
    <3>1. <<first>> \in Seq(Acts) /\ Len(<<first>>) = 1 /\ <<first>>[1] = first
      OBVIOUS
    <3>2. b \in Seq(Acts) /\ Len(b) = 1 + Len(t) /\ Len(t) \in Nat
      BY <2>6, <3>1
    <3>3. \A i \in 1 .. 1 + Len(t) : b[i] = IF i <= 1 THEN <<first>>[i] ELSE t[i - 1]
      BY <2>6, <3>1
    <3> HIDE DEF b
    <3>4. \A i \in 1 .. Len(b) : i = 1 \/ i - 1 \in 1 .. Len(t)
      BY <3>2
    <3>5. \A i \in 1 .. Len(b) : i # 1 => ~(i <= 1)
      BY <3>2
    <3> QED BY <3>1, <3>2, <3>3, <3>4, <3>5
  <2> HIDE DEF b
  <2>9. DOMAIN b = 1 .. Len(b)
    BY <2>8
  <2>10. \A a \in Range(b) : a = first \/ (a \in Turns /\ act[a].st = "queued")
    BY <2>7, <2>8, <2>9 DEF Range
  <2>12. b \in Seq(Acts) /\ Batch(first) = b
    BY <2>1, <2>8 DEF b
  <2>13. pump.pre = None
    BY <1>2
  <2>14. \E k \in 1 .. Len(QueuedIn(act[first].lane)) :
            Batch(first) = <<first>> \o SubSeq(QueuedIn(act[first].lane), 2, k)
    BY <2>11 DEF q
  <2> HIDE DEF good, ends, same
  <2> QED BY <2>10, <2>12, <2>13, <2>14
<1> QED BY <1>1, <1>2

(* The selection: one command, or a batch of turns. *)
LEMMA SelectInputStore ==
  ASSUME StoreInv, SelectInput
  PROVE  StoreInv'
<1> DEFINE queued == InState({"queued"})
           first == IF pump.pre # None THEN pump.pre ELSE queued[1]
<1>1. pump.pc = "select" /\ UNCHANGED <<lanes, pend, agent, transcript, client>>
  BY DEF SelectInput, pumpRest
<1>2. /\ \A a \in Acts : act[a].st \in {"preparing", "committing"} => a \in Turns
      /\ pump \in Pumps /\ pump.pre \in Acts \cup {None}
      /\ pump.pre # None => act[pump.pre].st \in {"selected", "cancelled"}
  BY <1>1, StoreFacts DEF BatchStates, Pumps
<1>3. queued # << >> => queued[1] \in Acts /\ act[queued[1]].st = "queued"
  BY InStateFacts
<1>4. pump.pre # None \/ queued # << >> =>
        /\ first \in Acts /\ act[first].st \in {"selected", "queued", "cancelled"}
        /\ pump.pre # None => act[first].st \in {"selected", "cancelled"}
        /\ pump.pre = None => act[first].st = "queued"
  BY <1>2, <1>3
<1>5. CASE pump' = NoPump /\ UNCHANGED act
  BY <1>1, <1>2, <1>5, LoopFacts, IdleStages, StoreFacts, StoreStill
<1>6. CASE /\ pump.pre # None \/ queued # << >>
           /\ first \in Commands
           /\ act' = IF pump.pre = None THEN SetState(act, {first}, "selected") ELSE act
           /\ pump' = [pump EXCEPT !.pc = "command", !.batch = <<first>>]
  <2> HIDE DEF queued, first
  <2>0. first \in Acts
    BY <1>4, <1>6
  <2> DEFINE b == <<first>>
  <2>1. b \in Seq(Acts) /\ b # << >> /\ b[1] = first
    BY <2>0
  <2> HIDE DEF b
  <2>2. pump' = [pump EXCEPT !.pc = "command", !.batch = b]
    BY <1>6 DEF b
  <2>3. pump' \in Pumps /\ pump'.pc = "command" /\ pump'.batch = b
    BY <1>2, <2>1, <2>2 DEF Pumps
  <2>4. CASE pump.pre # None
    <3>1. act' = act /\ act[first].st \in {"selected", "cancelled"}
      BY <1>4, <1>6, <2>4
    <3>2. BatchStates'
      BY <1>2, <1>6, <2>1, <2>3, <3>1 DEF BatchStates
    <3> QED BY <1>1, <2>3, <3>1, <3>2, StoreFacts, StoreStill
  <2>5. CASE pump.pre = None
    <3>1. act' = SetState(act, {first}, "selected") /\ act[first].st = "queued"
      BY <1>4, <1>6, <2>5
    <3>2. {first} \in SUBSET Acts /\ "selected" \in Unfinished /\ \A a \in {first} : act[a].st \in Unfinished
      BY <2>0, <3>1 DEF Unfinished
    <3>3. /\ \A a \in Acts : a \notin {first} => act'[a] = act[a]
          /\ act'[first].st = "selected"
      BY <1>1, <3>1, <3>2, RestateMoves
    <3>4. BatchStates'
      BY <1>2, <1>6, <2>1, <2>3, <3>3 DEF BatchStates
    <3> QED BY <1>1, <2>3, <3>1, <3>2, <3>4, RestateKept
  <2> QED BY <2>4, <2>5
<1>7. CASE /\ pump.pre # None \/ queued # << >>
           /\ first \in Turns /\ act[first].st # "cancelled"
           /\ act' = SetState(act, Range(Batch(first)), "preparing")
           /\ pump' = [pump EXCEPT !.pc = "validate", !.batch = Batch(first)]
  <2> HIDE DEF queued, first
  <2> DEFINE b == Batch(first)
             S == Range(b)
  <2>0. first \in Acts /\ act[first].st \in {"selected", "queued"}
        /\ (pump.pre = None => act[first].st = "queued")
    BY <1>4, <1>7
  <2>1. /\ b \in Seq(Acts)
        /\ \A a \in S : a = first \/ (a \in Turns /\ act[a].st = "queued")
    BY <2>0, BatchFacts
  <2> HIDE DEF b
  <2>2. S \in SUBSET Acts /\ \A a \in S : a \in Turns /\ act[a].st \in Unfinished
    BY <1>7, <2>0, <2>1, RangeFacts DEF Unfinished
  <2>3. pump' = [pump EXCEPT !.pc = "validate", !.batch = b]
    BY <1>7 DEF b
  <2>4. pump' \in Pumps /\ pump'.pc = "validate" /\ pump'.batch = b
    BY <1>2, <2>1, <2>3 DEF Pumps
  <2>5. act' = SetState(act, S, "preparing") /\ "preparing" \in Unfinished
    BY <1>7 DEF b, Unfinished
  <2>6. /\ \A a \in Acts : a \notin S => act'[a] = act[a]
        /\ \A a \in S : act'[a].st = "preparing"
    <3> HIDE DEF S
    <3> QED BY <1>1, <2>2, <2>5, RestateMoves
  <2>7. BatchStates'
    BY <1>2, <2>2, <2>4, <2>6 DEF BatchStates
  <2> HIDE DEF S
  <2> QED BY <1>1, <2>2, <2>4, <2>5, <2>7, RestateKept
<1> QED BY <1>5, <1>6, <1>7 DEF SelectInput

(* A command starts. *)
LEMMA StartCommandStore ==
  ASSUME StoreInv, StartCommand
  PROVE  StoreInv'
<1> DEFINE a == pump.batch[1]
<1>1. pump.pc = "command" /\ UNCHANGED <<lanes, pend, agent, transcript, client>>
  BY DEF StartCommand, pumpRest
<1>2. /\ \A c \in Acts : act[c].st \in {"preparing", "committing"} => c \in Turns
      /\ pump \in Pumps /\ pump.batch # << >> /\ a \in Commands /\ a \in Acts
      /\ act[a].st \in {"selected", "cancelled"}
      /\ act \in [Acts -> Actions] /\ lanes \in [Lanes -> Seq(Acts)]
  BY <1>1, StoreFacts DEF BatchStates, Acts
<1> HIDE DEF a
<1>3. CASE pump' = NoPump /\ UNCHANGED act
  BY <1>1, <1>2, <1>3, LoopFacts, IdleStages, StoreFacts, StoreStill
<1>4. CASE act[a].st # "cancelled" /\ act' = SetState(act, {a}, "queued") /\ pump' = NoPump
  <2>1. pump' \in Pumps /\ pump'.pc = "off"
    BY <1>2, <1>4, LoopFacts
  <2>2. {a} \in SUBSET Acts /\ "queued" \in Unfinished /\ \A c \in {a} : act[c].st \in Unfinished
    BY <1>2, <1>4 DEF Unfinished
  <2>3. /\ \A c \in Acts : c \notin {a} => act'[c] = act[c]
        /\ act'[a].st = "queued"
    BY <1>1, <1>4, <2>2, RestateMoves
  <2>4. BatchStates'
    BY <1>2, <2>1, <2>3, IdleStages
  <2> QED BY <1>1, <1>4, <2>1, <2>2, <2>4, RestateKept
<1>5. CASE /\ act[a].st # "cancelled"
           /\ act' = [act EXCEPT ![a] = [act[a] EXCEPT !.st = "running",
                                            !.delivered = Settle(act[a].delivered, "not_applicable")]]
           /\ pump' = [pump EXCEPT !.pc = "executing"]
  <2>1. \A c \in Acts : c # a => act'[c] = act[c]
    BY <1>2, <1>5
  <2>2. /\ act'[a] \in Actions /\ act'[a].st = "running" /\ act'[a].lane = act[a].lane
        /\ act'[a].captured = act[a].captured /\ act'[a].durable = act[a].durable
        /\ act'[a].delivered # "pending" /\ act'[a].completed = act[a].completed
    <3> DEFINE x == act[a]
               y == act'[a]
               d == Settle(x.delivered, "not_applicable")
    <3>1. x \in Actions
      BY <1>2
    <3>2. y = [x EXCEPT !.st = "running", !.delivered = d]
      BY <1>2, <1>5
    <3>3. d \in {"delivered", "rejected", "not_applicable"} /\ "running" \in States
      BY <3>1 DEF Actions, Settle, States
    <3> HIDE DEF x, y, d
    <3>4. /\ y \in Actions /\ y.st = "running" /\ y.lane = x.lane /\ y.captured = x.captured
          /\ y.durable = x.durable /\ y.delivered = d /\ y.completed = x.completed
      BY <3>1, <3>2, <3>3 DEF Actions
    <3> QED BY <3>3, <3>4 DEF x, y
  <2>3. act' \in [Acts -> Actions]
    BY <1>2, <1>5, <2>1, <2>2
  <2>4. act[a].st = "selected"
    BY <1>2, <1>5
  <2>5. \A c \in Acts : Onward(act[c], act'[c])
    BY <2>1, <2>2, <2>4 DEF Onward, Unfinished, Terminal
  <2>6. Moves({})
    BY <1>1, <1>2, <2>1, <2>2, <2>3, <2>5 DEF Released, Unfinished, Moves
  <2>7. \A c \in Acts : /\ act'[c].st = "new" => act[c].st = "new"
                        /\ act[c].delivered # "pending" => act'[c].delivered # "pending"
    BY <2>5 DEF Onward
  <2>8. AgentGood' /\ transcript' \in Seq(Sent')
    BY <1>1, <2>7, StoreFacts, CalmAgent, StillTranscript
  <2>9. pump' \in Pumps /\ pump'.pc = "executing" /\ pump'.batch = pump.batch
    BY <1>2, <1>5 DEF Pumps
  <2>10. BatchStates'
    BY <1>2, <2>1, <2>2, <2>9 DEF BatchStates, a
  <2> QED BY <1>1, <2>6, <2>8, <2>9, <2>10, StoreFacts, StoreKept
<1> QED BY <1>3, <1>4, <1>5 DEF StartCommand, a

(* A command ends, or the append of its message throws. *)
LEMMA CommandEnds ==
  ASSUME StoreInv, EndCommand
  PROVE  /\ pump.pc \in {"executing", "command"} /\ pump' = NoPump
         /\ pump.batch[1] \in Commands /\ pump.batch[1] \in Acts
         /\ act[pump.batch[1]].st \in {"running", "selected"}
         /\ \A c \in Acts : c # pump.batch[1] => act'[c] = act[c]
         /\ act' \in [Acts -> Actions]
         /\ \E x, y \in Actions :
              /\ x = act[pump.batch[1]] /\ y = act'[pump.batch[1]]
              /\ y.st \in {"completed", "failed"} /\ y.delivered # "pending" /\ y.completed # "pending"
              /\ y.lane = x.lane /\ y.captured = x.captured /\ y.durable = x.durable
              /\ y.started = x.started /\ y.prefix = x.prefix /\ y.next = x.next
              /\ \/ y.delivered = x.delivered
                 \/ y.st = "failed" /\ y.delivered = Settle(x.delivered, "rejected")
<1> DEFINE a == pump.batch[1]
           x == act[a]
           y == act'[a]
<1>1. pump.pc \in {"executing", "command"} /\ pump' = NoPump
  BY DEF EndCommand, AppendFails
<1>2. /\ a \in Commands /\ a \in Acts /\ x.st \in {"running", "selected"}
      /\ pump.pc = "executing" => x.delivered # "pending"
      /\ act \in [Acts -> Actions]
  BY <1>1, StoreFacts DEF BatchStates, Acts, EndCommand, AppendFails
<1>3. PICK ok \in BOOLEAN :
        /\ ok => pump.pc = "executing"
        /\ act' = [act EXCEPT ![a] = [act[a] EXCEPT !.st = IF ok THEN "completed" ELSE "failed",
                     !.delivered = IF ok THEN @ ELSE Settle(@, "rejected"),
                     !.completed = Settle(@, IF ok THEN "ok" ELSE "error")]]
  BY DEF EndCommand
<1> DEFINE s == IF ok THEN "completed" ELSE "failed"
           c == Settle(x.completed, IF ok THEN "ok" ELSE "error")
           d == IF ok THEN x.delivered ELSE Settle(x.delivered, "rejected")
<1>4. x \in Actions /\ (ok => x.delivered # "pending")
  BY <1>2, <1>3
<1>5. y = [x EXCEPT !.st = s, !.delivered = d, !.completed = c]
  BY <1>2, <1>3
<1>6. /\ s \in {"completed", "failed"} /\ s \in States /\ c \in {"ok", "error"}
      /\ d \in {"delivered", "rejected", "not_applicable"}
      /\ d = x.delivered \/ (s = "failed" /\ d = Settle(x.delivered, "rejected"))
  BY <1>4 DEF Actions, Settle, States
<1>7. \A b \in Acts : b # a => act'[b] = act[b]
  BY <1>2, <1>3
<1> HIDE DEF x, y, s, c, d
<1>8. /\ y \in Actions /\ y.st = s /\ y.lane = x.lane /\ y.captured = x.captured
      /\ y.durable = x.durable /\ y.delivered = d /\ y.completed = c
      /\ y.started = x.started /\ y.prefix = x.prefix /\ y.next = x.next
  BY <1>4, <1>5, <1>6 DEF Actions
<1>9. act' \in [Acts -> Actions]
  <2> HIDE DEF a
  <2> QED BY <1>2, <1>3, <1>7, <1>8 DEF y
<1> QED BY <1>1, <1>2, <1>4, <1>6, <1>7, <1>8, <1>9 DEF x, y

(* The end of a session command, and an append before it that throws. *)
LEMMA EndCommandStore ==
  ASSUME StoreInv, EndCommand
  PROVE  StoreInv'
<1> DEFINE a == pump.batch[1]
<1>1. /\ pump' = NoPump /\ lanes' = Without(lanes, {a})
      /\ UNCHANGED <<pend, agent, transcript, client>>
  BY DEF EndCommand, pumpRest
<1>2. /\ \A c \in Acts : act[c].st \in {"preparing", "committing"} => c \in Turns
      /\ pump \in Pumps /\ a \in Acts
      /\ act[a].st \in {"running", "selected"}
      /\ act \in [Acts -> Actions] /\ lanes \in [Lanes -> Seq(Acts)]
  BY <1>1, CommandEnds, StoreFacts DEF BatchStates
<1>4. \A c \in Acts : c # a => act'[c] = act[c]
  BY CommandEnds
<1>5. /\ act'[a] \in Actions /\ act'[a].st \in {"completed", "failed"}
      /\ act'[a].lane = act[a].lane
      /\ act'[a].captured = act[a].captured /\ act'[a].durable = act[a].durable
      /\ act'[a].delivered # "pending" /\ act'[a].completed # "pending"
  BY CommandEnds
<1>6. act' \in [Acts -> Actions]
  BY CommandEnds
<1> HIDE DEF a
<1>7. \A c \in Acts : Onward(act[c], act'[c])
  BY <1>2, <1>4, <1>5 DEF Onward, Unfinished, Terminal
<1>8. Moves({a})
  <2>1. Released(lanes', {a})
    BY <1>1, <1>2, WithoutFacts DEF Released
  <2>2. \A c \in Acts : act'[c].st \in Unfinished => c \notin {a}
    BY <1>5 DEF Unfinished
  <2>3. \A c \in Acts : c \notin {a} /\ (act[c].st \in Unfinished \/ act[c].captured)
                          => act'[c].st \in Unfinished \/ act'[c].captured
    BY <1>4
  <2> QED BY <1>6, <1>7, <2>1, <2>2, <2>3 DEF Moves
<1>9. \A c \in Acts : /\ act'[c].st = "new" => act[c].st = "new"
                      /\ act[c].delivered # "pending" => act'[c].delivered # "pending"
  BY <1>7 DEF Onward
<1>10. AgentGood' /\ transcript' \in Seq(Sent')
  BY <1>1, <1>9, StoreFacts, CalmAgent, StillTranscript
<1>11. pump' \in Pumps /\ pump'.pc = "off"
  BY <1>1, <1>2, LoopFacts
<1>12. BatchStates'
  BY <1>2, <1>4, <1>5, <1>11, IdleStages
<1> QED BY <1>1, <1>8, <1>10, <1>11, <1>12, StoreFacts, StoreKept

-----------------------------------------------------------------------------
(* Admission *)

(* A message of an action that was not admitted is nowhere. *)
LEMMA UnsentNew ==
  ASSUME NEW a \in Acts, act[a].st = "new"
  PROVE  Primary(a) \notin Sent
<1>1. Primary(a) \notin NoteMsgs
  BY SessionActionsAssumption DEF Primary, NoteMsgs
<1>2. \A b \in Acts : Primary(a) = Primary(b) => a = b
  BY DEF Primary
<1> QED BY <1>1, <1>2 DEF Sent

(* An action put into a lane: a new one, or one that is moved. *)
LEMMA PlacedKept ==
  ASSUME StoreInv, NEW a \in Acts, NEW y \in Actions, y.st \in {"queued", "selected"}, ~y.captured,
         act' = [act EXCEPT ![a] = y], lanes' \in [Lanes -> Seq(Acts)],
         \A l \in Lanes : IsInjective(lanes'[l]),
         \A l \in Lanes : Range(lanes'[l]) = (Range(lanes[l]) \ {a}) \cup (IF l = y.lane THEN {a} ELSE {}),
         client' \in [Acts -> Submissions], client'[a] = "done",
         \A b \in Acts : client'[b] # "done" => client[b] # "done",
         \/ act[a].st = "new" /\ ~y.durable
         \/ /\ act[a].st = "queued" /\ y.st = "queued"
            /\ y.delivered = act[a].delivered /\ y.durable = act[a].durable,
         pend' \in Seq(NoteMsgs), UNCHANGED <<pump, agent, transcript>>
  PROVE  StoreInv'
<1>1. /\ act \in [Acts -> Actions] /\ lanes \in [Lanes -> Seq(Acts)] /\ pump \in Pumps
      /\ transcript \in Seq(Sent) /\ Shelves /\ Heard /\ AgentGood /\ BatchStates
  BY StoreFacts
<1>0. /\ act[a].st = "new" => y.durable = FALSE
      /\ act[a].st # "new" => y.delivered = act[a].delivered /\ y.durable = act[a].durable
  BY DEF Actions
<1>2. act'[a] = y /\ \A b \in Acts : b # a => act'[b] = act[b]
  BY <1>1
<1>3. act' \in [Acts -> Actions]
  BY <1>1
<1>4. \A b \in Acts : act'[b].st = "new" => act[b].st = "new"
  BY <1>2
<1>5. \A l \in Lanes : Range(lanes[l]) \subseteq Acts
  BY <1>1, RangeFacts
<1>6. TypeOK'
  <2>1. \A b \in Acts : act'[b].st \in States /\ act'[b].lane \in Lanes /\ act[b].lane \in Lanes
    BY <1>1, <1>3 DEF Actions
  <2>2. \A l \in Lanes : \A b \in Range(lanes'[l]) : act'[b].lane = l
    <3> SUFFICES ASSUME NEW l \in Lanes, NEW b \in Range(lanes'[l]) PROVE act'[b].lane = l
      OBVIOUS
    <3>1. CASE b = a
      BY <1>2, <3>1
    <3>2. CASE b # a
      BY <1>1, <1>2, <1>5, <3>2 DEF Shelves, TypeOK
    <3> QED BY <3>1, <3>2
  <2>3. ASSUME NEW b \in Acts, act'[b].st \in Unfinished PROVE b \in Range(lanes'[act'[b].lane])
    <3>1. CASE b = a
      BY <1>2, <2>1, <3>1
    <3>2. CASE b # a
      BY <1>1, <1>2, <2>1, <2>3, <3>2 DEF Shelves, TypeOK
    <3> QED BY <3>1, <3>2
  <2>4. ASSUME NEW b \in Range(Owned') PROVE act'[b].st \in Unfinished \/ act'[b].captured
    <3>1. PICK l \in Lanes : b \in Range(lanes'[l])
      BY <2>4, OwnedRange
    <3>2. CASE b = a
      BY <1>2, <3>2 DEF Unfinished
    <3>3. CASE b # a
      BY <1>1, <1>2, <1>5, <3>1, <3>3, OwnedRange DEF Shelves, TypeOK
    <3> QED BY <3>2, <3>3
  <2> QED BY <2>1, <2>2, <2>3, <2>4 DEF TypeOK
<1>7. NewAreFresh'
  BY <1>1, <1>2 DEF Shelves, NewAreFresh
<1>8. TicketsSettled'
  <2>1. \A b \in Acts : act'[b].st \in Terminal =>
          act'[b].delivered # "pending" /\ act'[b].completed # "pending"
    BY <1>1, <1>2 DEF Terminal, Shelves, TicketsSettled
  <2> QED BY <2>1 DEF TicketsSettled
<1>9. act[a].st = "new" => /\ Primary(a) \notin Range(transcript)
                           /\ agent.todo # << >> => Head(agent.todo) # Primary(a)
  BY <1>1, UnsentNew, RangeFacts DEF AgentGood
<1>10. Heard'
  <2>1. ASSUME NEW b \in Acts, act'[b].durable \/ Primary(b) \in Range(transcript)
        PROVE  act'[b].delivered # "pending"
    <3>1. Delivered(b) => act[b].delivered # "pending"
      BY <1>1 DEF Heard
    <3>2. CASE b # a
      BY <1>2, <2>1, <3>1, <3>2 DEF Delivered
    <3>3. CASE b = a
      <4>1. act[a].st # "new"
        BY <1>0, <1>2, <1>9, <2>1, <3>3
      <4>2. act[a].durable \/ Primary(a) \in Range(transcript)
        BY <1>0, <1>2, <2>1, <3>3, <4>1
      <4>3. act[a].delivered # "pending"
        BY <3>1, <3>3, <4>2 DEF Delivered
      <4> QED BY <1>0, <1>2, <3>3, <4>1, <4>3
    <3> QED BY <3>2, <3>3
  <2> QED BY <2>1 DEF Heard, Delivered
<1>11. AgentGood'
  <2>1. agent.todo \in Seq(Sent')
    BY <1>1, <1>4, SentGrows, SeqMono DEF AgentGood
  <2>2. agent' \in [on : BOOLEAN, mid : BOOLEAN, todo : Seq(Sent')]
    BY <1>1, <2>1 DEF AgentGood
  <2>3. ASSUME agent.mid
        PROVE  /\ agent.todo # << >>
               /\ \A b \in Acts : Head(agent.todo) = Primary(b) => act'[b].delivered # "pending"
    <3>1. /\ agent.todo # << >>
          /\ \A b \in Acts : Head(agent.todo) = Primary(b) => act[b].delivered # "pending"
      BY <1>1, <2>3 DEF AgentGood
    <3>2. Head(agent.todo) = Primary(a) => act'[a].delivered # "pending"
      BY <1>0, <1>2, <1>9, <3>1
    <3> QED BY <1>2, <3>1, <3>2
  <2> QED BY <2>2, <2>3 DEF AgentGood
<1>12. BatchStates'
  <2>1. \A b \in Acts : Drifts(act[b], act'[b])
    BY <1>2 DEF Drifts
  <2>2. \A b \in Acts : act[b].st # "new" /\ act[b].delivered # "pending" => act'[b].delivered # "pending"
    BY <1>2
  <2> QED BY <1>1, <2>1, <2>2, SteadyStages
<1>13. transcript' \in Seq(Sent')
  BY <1>1, <1>4, StillTranscript
<1>14. StoreTypes'
  <2>1. pump' \in Pumps /\ agent' \in [on : BOOLEAN, mid : BOOLEAN, todo : Seq(Sent')]
    BY <1>1, <1>11 DEF AgentGood
  <2> QED BY <1>3, <1>13, <2>1 DEF StoreTypes, NoteMsgs, Pumps, Actions, Submissions
<1> QED BY <1>6, <1>7, <1>8, <1>10, <1>11, <1>12, <1>14, StoreParts DEF Shelves

(* _admitSessionInput of an action that is as a new one in all but its lane,
   visibility and notes. *)
LEMMA AdmitKept ==
  ASSUME StoreInv, NEW a \in Acts, client[a] \in {"held", "unfenced"},
         NEW x \in Actions, ~x.captured, ~x.durable, NEW eligible, NEW immediate,
         Admit(a, x, eligible, immediate),
         client' = [client EXCEPT ![a] = "done"],
         pend' \in Seq(NoteMsgs), UNCHANGED <<pump, agent, transcript>>
  PROVE  StoreInv'
<1> DEFINE s == IF eligible /\ InState(Unfinished) = <<>> THEN "selected" ELSE "queued"
           y == [x EXCEPT !.st = s]
<1>1. /\ act' = [act EXCEPT ![a] = y] /\ lanes' = [lanes EXCEPT ![x.lane] = Append(@, a)]
  BY DEF Admit, Enqueued
<1>2. s \in {"queued", "selected"} /\ s \in States
  BY DEF States
<1> HIDE DEF s
<1>3. /\ y \in Actions /\ y.st = s /\ y.lane = x.lane /\ y.lane \in Lanes
      /\ y.captured = x.captured /\ y.durable = x.durable
  BY <1>2 DEF Actions
<1> HIDE DEF y
<1>4. /\ act \in [Acts -> Actions] /\ lanes \in [Lanes -> Seq(Acts)]
      /\ client \in [Acts -> Submissions] /\ Shelves
  BY StoreFacts
<1>5. act[a].st = "new" /\ ~act[a].captured
  BY <1>4 DEF Shelves, NewAreFresh
<1>6. \A l \in Lanes : a \notin Range(lanes[l])
  BY <1>4, <1>5, OwnedRange DEF Shelves, TypeOK, Unfinished
<1>7. ASSUME NEW l \in Lanes
      PROVE  /\ lanes'[l] \in Seq(Acts) /\ IsInjective(lanes'[l])
             /\ Range(lanes'[l]) = (Range(lanes[l]) \ {a}) \cup (IF l = y.lane THEN {a} ELSE {})
  <2>1. lanes[l] \in Seq(Acts) /\ IsInjective(lanes[l])
    BY <1>4 DEF Shelves, TypeOK
  <2>2. /\ Append(lanes[l], a) \in Seq(Acts) /\ IsInjective(Append(lanes[l], a))
        /\ Range(Append(lanes[l], a)) = Range(lanes[l]) \cup {a}
    BY <1>6, <2>1, RangeFacts
  <2>3. CASE l = y.lane
    BY <1>1, <1>3, <1>4, <2>2, <2>3
  <2>4. CASE l # y.lane
    BY <1>1, <1>3, <1>4, <1>6, <2>1, <2>4
  <2> QED BY <2>3, <2>4
<1>8. lanes' \in [Lanes -> Seq(Acts)]
  BY <1>1, <1>4, <1>7
<1>9. /\ client' \in [Acts -> Submissions] /\ client'[a] = "done"
      /\ \A b \in Acts : client'[b] # "done" => client[b] # "done"
  BY <1>4 DEF Submissions
<1> QED BY <1>1, <1>2, <1>3, <1>5, <1>7, <1>8, <1>9, PlacedKept

(* A submission changes its place in prompt(). *)
LEMMA ClientStep ==
  ASSUME StoreInv, NEW a \in Acts, client[a] # "done", NEW p \in Submissions,
         client' = [client EXCEPT ![a] = p], pend' \in Seq(NoteMsgs),
         UNCHANGED <<act, lanes, agent, transcript, pump>>
  PROVE  StoreInv'
<1>1. client' \in [Acts -> Submissions] /\ \A b \in Acts : client'[b] # "done" => client[b] # "done"
  BY StoreFacts
<1>2. BatchStates'
  BY StoreFacts, SteadyStages DEF Drifts
<1> QED BY <1>1, <1>2, StoreFacts, StoreStill

(* prompt() after its normalization. *)
LEMMA AdmitPromptStore ==
  ASSUME StoreInv, NEW a \in Acts, AdmitPrompt(a)
  PROVE  StoreInv'
<1>1. client[a] \in {"held", "unfenced"} /\ UNCHANGED <<pump, agent, transcript>>
  BY DEF AdmitPrompt, agentVars
<1>2. PICK queueIfBusy \in BOOLEAN, resumeIfIdle \in BOOLEAN, lane \in Lanes :
       LET pending == InState(Unfinished) # <<>>
           visible == Active \/ (queueIfBusy /\ (Busy \/ pending))
           took == IF visible THEN pend ELSE <<>>
           x == [NewAction EXCEPT !.lane = lane, !.vis = visible, !.prefix = took]
       IN IF sch.apauses > 0
          THEN /\ client' = [client EXCEPT ![a] = "refused"]
               /\ pend' = IF visible /\ a \in Turns THEN <<>> ELSE pend
               /\ UNCHANGED <<act, lanes, sch>>
          ELSE /\ client' = [client EXCEPT ![a] = "done"]
               /\ IF a \in Commands
                  THEN /\ Admit(a, [NewAction EXCEPT !.lane = lane],
                                ~pending /\ ~Busy /\ CanStart, TRUE)
                       /\ UNCHANGED pend
                  ELSE /\ Admit(a, x, ~visible /\ CanStart,
                                \/ ~visible \/ resumeIfIdle
                                \/ queueIfBusy /\ CanStart)
                       /\ pend' = IF visible THEN <<>> ELSE pend
  BY DEF AdmitPrompt
<1> DEFINE pending == InState(Unfinished) # <<>>
           visible == Active \/ (queueIfBusy /\ (Busy \/ pending))
           took == IF visible THEN pend ELSE <<>>
           x == [NewAction EXCEPT !.lane = lane, !.vis = visible, !.prefix = took]
           z == [NewAction EXCEPT !.lane = lane]
           e == ~visible /\ CanStart
           i == ~visible \/ resumeIfIdle \/ (queueIfBusy /\ CanStart)
           f == ~pending /\ ~Busy /\ CanStart
<1>3. /\ sch.apauses > 0 =>
           /\ client' = [client EXCEPT ![a] = "refused"]
           /\ pend' = IF visible /\ a \in Turns THEN <<>> ELSE pend
           /\ UNCHANGED <<act, lanes, sch>>
      /\ ~(sch.apauses > 0) =>
           /\ client' = [client EXCEPT ![a] = "done"]
           /\ a \in Commands => Admit(a, z, f, TRUE) /\ UNCHANGED pend
           /\ a \notin Commands => Admit(a, x, e, i) /\ pend' = IF visible THEN <<>> ELSE pend
  <2>1. ASSUME sch.apauses > 0
        PROVE  /\ client' = [client EXCEPT ![a] = "refused"]
               /\ pend' = IF visible /\ a \in Turns THEN <<>> ELSE pend
               /\ UNCHANGED <<act, lanes, sch>>
    BY <1>2, <2>1
  <2>2. ASSUME ~(sch.apauses > 0) PROVE client' = [client EXCEPT ![a] = "done"]
    BY <1>2, <2>2
  <2>3. ASSUME ~(sch.apauses > 0), a \in Commands PROVE Admit(a, z, f, TRUE) /\ UNCHANGED pend
    BY <1>2, <2>3
  <2>4. ASSUME ~(sch.apauses > 0), a \notin Commands PROVE Admit(a, x, e, i)
    BY <1>2, <2>4
  <2>5. ASSUME ~(sch.apauses > 0), a \notin Commands PROVE pend' = IF visible THEN <<>> ELSE pend
    BY <1>2, <2>5
  <2> HIDE DEF visible, x, z, e, i, f
  <2> QED BY <2>1, <2>2, <2>3, <2>4, <2>5
<1>4. pend \in Seq(NoteMsgs) /\ << >> \in Seq(NoteMsgs) /\ visible \in BOOLEAN
  BY StoreFacts
<1>5. took \in Seq(NoteMsgs)
  BY <1>4
<1> HIDE DEF visible, took, e, i, f, pending
<1>6. x \in Actions /\ ~x.captured /\ ~x.durable
  BY <1>4, <1>5 DEF NewAction, Actions, States, Lanes
<1>7. z \in Actions /\ ~z.captured /\ ~z.durable
  BY <1>4 DEF NewAction, Actions, States, Lanes
<1> HIDE DEF x, z
<1>8. CASE sch.apauses > 0
  BY <1>1, <1>3, <1>4, <1>8, ClientStep DEF Submissions
<1>9. CASE ~(sch.apauses > 0) /\ a \in Commands
  BY <1>1, <1>3, <1>4, <1>7, <1>9, AdmitKept
<1>10. CASE ~(sch.apauses > 0) /\ a \notin Commands
  BY <1>1, <1>3, <1>4, <1>6, <1>10, AdmitKept
<1> QED BY <1>8, <1>9, <1>10

(* mutateQueuedMessage: a queued turn changes its lane. *)
LEMMA MoveStore ==
  ASSUME StoreInv, MoveQueued
  PROVE  StoreInv'
<1>1. UNCHANGED <<pump, agent, transcript, client, pend>>
  BY DEF MoveQueued, opRest
<1>2. PICK a \in Turns \ AgentMsgs :
       /\ act[a].st = "queued" /\ act[a].vis
       /\ LET to == CHOOSE l \in Lanes : l # act[a].lane IN
          /\ act' = [act EXCEPT ![a].lane = to]
          /\ lanes' = [Without(lanes, {a}) EXCEPT ![to] = Append(@, a)]
  BY DEF MoveQueued
<1> DEFINE to == CHOOSE l \in Lanes : l # act[a].lane
           y == [act[a] EXCEPT !.lane = to]
           W == Without(lanes, {a})
<1>3. /\ act \in [Acts -> Actions] /\ lanes \in [Lanes -> Seq(Acts)] /\ Shelves
      /\ pend \in Seq(NoteMsgs) /\ client \in [Acts -> Submissions] /\ a \in Acts
  BY StoreFacts DEF Acts
<1>4. to \in Lanes
  BY DEF Lanes
<1> HIDE DEF to
<1>5. act' = [act EXCEPT ![a] = y] /\ lanes' = [W EXCEPT ![to] = Append(@, a)]
  BY <1>2, <1>3 DEF to
<1>6. /\ y \in Actions /\ y.st = "queued" /\ y.lane = to /\ y.captured = act[a].captured
      /\ y.durable = act[a].durable /\ y.delivered = act[a].delivered
  <2> DEFINE x == act[a]
  <2>1. x \in Actions /\ x.st = "queued"
    BY <1>2, <1>3
  <2>2. y = [x EXCEPT !.lane = to]
    OBVIOUS
  <2> HIDE DEF x, y
  <2>3. /\ y \in Actions /\ y.st = "queued" /\ y.lane = to /\ y.captured = x.captured
        /\ y.durable = x.durable /\ y.delivered = x.delivered
    BY <1>4, <2>1, <2>2 DEF Actions
  <2> QED BY <2>3 DEF x
<1> HIDE DEF y
<1>7. ~act[a].captured /\ client[a] = "done"
  BY <1>2, <1>3 DEF Shelves, NewAreFresh
<1>8. /\ W \in [Lanes -> Seq(Acts)]
      /\ \A l \in Lanes : Range(W[l]) = Range(lanes[l]) \ {a} /\ IsInjective(W[l])
  BY <1>3, WithoutFacts DEF Shelves, TypeOK
<1> HIDE DEF W
<1>9. ASSUME NEW l \in Lanes
      PROVE  /\ lanes'[l] \in Seq(Acts) /\ IsInjective(lanes'[l])
             /\ Range(lanes'[l]) = (Range(lanes[l]) \ {a}) \cup (IF l = y.lane THEN {a} ELSE {})
  <2>1. W[l] \in Seq(Acts) /\ IsInjective(W[l]) /\ a \notin Range(W[l])
    BY <1>8
  <2>2. /\ Append(W[l], a) \in Seq(Acts) /\ IsInjective(Append(W[l], a))
        /\ Range(Append(W[l], a)) = Range(W[l]) \cup {a}
    BY <1>3, <2>1, RangeFacts
  <2>3. CASE l = y.lane
    BY <1>5, <1>6, <1>8, <2>2, <2>3
  <2>4. CASE l # y.lane
    BY <1>5, <1>6, <1>8, <2>1, <2>4
  <2> QED BY <2>3, <2>4
<1>10. lanes' \in [Lanes -> Seq(Acts)]
  BY <1>5, <1>8, <1>9
<1>11. act[a].st = "queued" /\ ~y.captured /\ pend' \in Seq(NoteMsgs)
       /\ client' \in [Acts -> Submissions] /\ client'[a] = "done"
       /\ \A b \in Acts : client'[b] # "done" => client[b] # "done"
  BY <1>1, <1>2, <1>3, <1>6, <1>7
<1> QED BY <1>1, <1>3, <1>5, <1>6, <1>9, <1>10, <1>11, PlacedKept

-----------------------------------------------------------------------------
(* The store, step by step *)

(* The notes that wait at the start. *)
LEMMA NotesQueued ==
  LET s == SetToSeq({<<n, 0>> : n \in Notes})
  IN  s \in Seq(NoteMsgs) /\ IsInjective(s) /\ Range(s) \subseteq {<<n, 0>> : n \in Notes}
<1> DEFINE f == [n \in Notes |-> <<n, 0>>]
           S == {<<n, 0>> : n \in Notes}
           c == Cardinality(S)
<1>1. IsFiniteSet(S)
  <2>1. f \in [Notes -> S] /\ IsInjective(f) /\ \A m \in S : \E n \in Notes : f[n] = m
    BY DEF IsInjective
  <2> HIDE DEF f, S
  <2>2. f \in Bijection(Notes, S)
    BY <2>1 DEF Bijection, Injection, Surjection
  <2>3. ExistsBijection(Notes, S)
    BY <2>2 DEF ExistsBijection
  <2> QED BY <2>3, SessionActionsAssumption, FS_Bijection
<1>2. S \subseteq NoteMsgs
  BY DEF NoteMsgs
<1> HIDE DEF S, f
<1>3. c \in Nat /\ ExistsBijection(1 .. c, S)
  BY <1>1, FS_CardinalityType
<1> HIDE DEF c
<1>4. PICK g \in [1 .. c -> S] : IsInjective(g)
  BY <1>3 DEF ExistsBijection, Bijection, Injection, IsInjective
<1>5. SetToSeq(S) \in [1 .. c -> S] /\ IsInjective(SetToSeq(S))
  BY <1>4 DEF SetToSeq, c
<1>6. SetToSeq(S) \in Seq(S)
  BY <1>3, <1>5
<1>7. SetToSeq(S) \in Seq(NoteMsgs)
  BY <1>2, <1>6, SeqMono
<1>8. Range(SetToSeq(S)) \subseteq S
  BY <1>6, RangeFacts
<1> QED BY <1>5, <1>7, <1>8 DEF S

(* The store of a session that starts. *)
LEMMA StoreInit ==
  ASSUME Init
  PROVE  StoreInv
<1>1. /\ act = [a \in Acts |-> NewAction] /\ lanes = [l \in Lanes |-> <<>>]
      /\ client = [a \in Acts |-> "none"] /\ pump = NoPump /\ agent = NoRun
      /\ transcript = << >> /\ pend = SetToSeq({<<n, 0>> : n \in Notes})
  BY DEF Init
<1>2. /\ NewAction \in Actions /\ NewAction.st = "new" /\ NewAction.captured = FALSE
      /\ NewAction.durable = FALSE
  BY DEF NewAction, Actions, States, Lanes
<1>3. \A a \in Acts : act[a] = NewAction
  BY <1>1
<1>4. act \in [Acts -> Actions]
  BY <1>1, <1>2
<1>5. /\ lanes \in [Lanes -> Seq(Acts)] /\ \A l \in Lanes : lanes[l] = << >>
  BY <1>1
<1>6. NoPump \in Pumps /\ NoPump.pc = "off"
  BY DEF NoPump, Pumps
<1>7. AgentGood
  BY <1>1 DEF NoRun, AgentGood
<1>8. client \in [Acts -> Submissions]
  BY <1>1 DEF Submissions
<1>9. StoreTypes
  BY <1>1, <1>4, <1>5, <1>6, <1>7, <1>8, NotesQueued DEF StoreTypes, AgentGood
<1>10. Range(<< >>) = {} /\ IsInjective(<< >>)
  BY DEF Range, IsInjective
<1>11. Range(Owned) = {}
  BY <1>5, <1>10, OwnedRange
<1>12. TypeOK
  BY <1>2, <1>3, <1>4, <1>5, <1>10, <1>11 DEF Actions, Unfinished, TypeOK
<1>13. NewAreFresh /\ TicketsSettled
  BY <1>2, <1>3 DEF NewAreFresh, TicketsSettled, Terminal
<1>14. Heard
  BY <1>1, <1>2, <1>3, <1>10 DEF Delivered, Heard
<1>15. BatchStates
  BY <1>1, <1>2, <1>3, <1>6 DEF BatchStates
<1> QED BY <1>7, <1>9, <1>12, <1>13, <1>14, <1>15, StoreParts DEF Shelves

(* The clients keep the store's invariant. *)
LEMMA ClientsStore ==
  ASSUME StoreInv, NEW a \in Acts,
         Submit(a) \/ PauseOver(a) \/ FenceGranted(a) \/ AdmitPrompt(a) \/ Handled(a)
  PROVE  StoreInv'
<1>1. CASE AdmitPrompt(a)
  BY <1>1, AdmitPromptStore
<1>2. CASE Submit(a) \/ PauseOver(a) \/ FenceGranted(a) \/ Handled(a)
  <2>1. UNCHANGED <<act, lanes, pend, pump, agent, transcript>>
    BY <1>2 DEF Submit, PauseOver, FenceGranted, Handled, storeVars, agentVars
  <2>2. \E p \in Submissions : client' = [client EXCEPT ![a] = p]
    <3> USE DEF Submissions
    <3>1. CASE Submit(a)
      <4>1. CASE Active
        BY <3>1, <4>1 DEF Submit
      <4>2. CASE ~Active
        BY <3>1, <4>2 DEF Submit
      <4> QED BY <4>1, <4>2
    <3>2. CASE PauseOver(a)
      BY <3>2 DEF PauseOver
    <3>3. CASE FenceGranted(a)
      BY <3>3 DEF FenceGranted
    <3>4. CASE Handled(a)
      BY <3>4 DEF Handled
    <3> QED BY <1>2, <3>1, <3>2, <3>3, <3>4
  <2>3. client[a] # "done"
    BY <1>2 DEF Submit, PauseOver, FenceGranted, Handled
  <2>4. pend' \in Seq(NoteMsgs)
    BY <2>1, StoreFacts
  <2> QED BY <2>1, <2>2, <2>3, <2>4, ClientStep
<1> QED BY <1>1, <1>2

(* The operations from outside keep it. *)
LEMMA OutsideStore ==
  ASSUME StoreInv, Outside
  PROVE  StoreInv'
<1>1. CASE \/ ResumeQueuedWork \/ PauseAdmission \/ ResumeAdmission \/ BusyStart \/ BusyEnd
  BY <1>1, StoreUntouched DEF ResumeQueuedWork, PauseAdmission, ResumeAdmission, BusyStart, BusyEnd,
     storeVars, opRest
<1>2. CASE MoveQueued
  BY <1>2, MoveStore
<1>3. CASE RequestAbort
  <2> DEFINE S == {a \in Turns : act[a].st \in Clearable /\ ~act[a].vis}
  <2>1. CancelActions(S) /\ UNCHANGED <<pump, agent, client>>
    BY <1>3 DEF RequestAbort, opRest
  <2>2. S \in SUBSET Acts /\ \A a \in S : act[a].st \in Clearable \cup {"committing"}
    BY DEF Acts
  <2> HIDE DEF S
  <2> QED BY <2>1, <2>2, CancelKept
<1>4. CASE ClearQueue
  <2> DEFINE S == {a \in Acts : act[a].st \in Clearable /\ (a \in Commands \/ act[a].vis)}
  <2>1. CancelActions(S) /\ UNCHANGED <<pump, agent, client>>
    BY <1>4 DEF ClearQueue, opRest
  <2>2. S \in SUBSET Acts /\ \A a \in S : act[a].st \in Clearable \cup {"committing"}
    OBVIOUS
  <2> HIDE DEF S
  <2> QED BY <2>1, <2>2, CancelKept
<1>5. CASE CancelOne
  BY <1>5, CancelKept DEF CancelOne, opRest, Acts
<1>6. CASE ClearAgentMessages
  <2> DEFINE dispatched == {a \in Turns : act[a].st \in {"committing", "running"}}
             S == {a \in AgentMsgs : \/ act[a].st \in Clearable
                                     \/ /\ act[a].st = "committing" /\ ~act[a].started
                                        /\ dispatched = {a}}
  <2>1. CancelActions(S) /\ UNCHANGED <<pump, agent, client>>
    BY <1>6 DEF ClearAgentMessages, opRest
  <2> HIDE DEF dispatched
  <2>2. S \in SUBSET Acts /\ \A a \in S : act[a].st \in Clearable \cup {"committing"}
    BY SessionActionsAssumption DEF Acts
  <2> HIDE DEF S
  <2> QED BY <2>1, <2>2, CancelKept
<1> QED BY <1>1, <1>2, <1>3, <1>4, <1>5, <1>6 DEF Outside

(* Every step keeps the store's invariant. *)
LEMMA StoreStep ==
  ASSUME StoreInv, sch \in Schedulers, [Next]_vars
  PROVE  StoreInv'
<1>1. CASE Clients
  BY <1>1, ClientsStore DEF Clients
<1>2. CASE Pump
  BY <1>2, StartPumpStore, AgentIdleStore, SelectInputStore, StartCommandStore, EndCommandStore,
     ValidateStore, PrepareStore, CommitStore, RunSettledStore DEF Pump
<1>3. CASE Run
  <2>1. CASE RetryRun
    BY <2>1, StoreUntouched DEF RetryRun, runRest
  <2> QED BY <1>3, <2>1, MessageStartStore, MessageEndStore, AgentEndStore, ProcessEventStore DEF Run
<1>4. CASE Outside
  BY <1>4, OutsideStore
<1>5. CASE Pauses
  <2>1. UNCHANGED <<act, lanes, pend, pump, agent, transcript, client>>
    BY <1>5 DEF Pauses, PrepareRestart, CheckpointClear, CheckpointFenced, CancelRestart,
                Navigate, NavigateFenced, NavigateEnd, pauseRest, storeVars, agentVars
  <2> QED BY <2>1, StoreUntouched
<1>6. CASE UNCHANGED vars
  BY <1>6, StoreUntouched DEF vars
<1> QED BY <1>1, <1>2, <1>3, <1>4, <1>5, <1>6 DEF Next

-----------------------------------------------------------------------------
(* The pauses *)

(* The other fields of the scheduler. *)
LEMMA SchedulerFields ==
  ASSUME NEW s \in Schedulers
  PROVE  /\ SamePauses(s, s)
         /\ SamePauses(s, [s EXCEPT !.suspended = TRUE])
         /\ SamePauses(s, [s EXCEPT !.apauses = @ + 1])
         /\ s.apauses > 0 => SamePauses(s, [s EXCEPT !.apauses = @ - 1])
         /\ s.queue # << >> => SamePauses(s, [s EXCEPT !.requested = FALSE, !.queue = Tail(@)])
<1>1. SamePauses(s, s)
  BY DEF SamePauses
<1>2. SamePauses(s, [s EXCEPT !.suspended = TRUE])
  <2> DEFINE u == [s EXCEPT !.suspended = TRUE]
  <2>1. u \in Schedulers /\ u.wpauses = s.wpauses
    BY DEF Schedulers
  <2> QED BY <2>1 DEF SamePauses
<1>3. ASSUME NEW n \in Nat PROVE SamePauses(s, [s EXCEPT !.apauses = n])
  <2> DEFINE u == [s EXCEPT !.apauses = n]
  <2>1. u \in Schedulers /\ u.wpauses = s.wpauses
    BY DEF Schedulers
  <2> QED BY <2>1 DEF SamePauses
<1>4. /\ s.apauses + 1 \in Nat
      /\ s.apauses > 0 => s.apauses - 1 \in Nat
  BY DEF Schedulers
<1>5. ASSUME s.queue # << >>
      PROVE  SamePauses(s, [s EXCEPT !.requested = FALSE, !.queue = Tail(@)])
  <2> DEFINE q == Tail(s.queue)
             u == [s EXCEPT !.requested = FALSE, !.queue = q]
  <2>1. q \in Seq(Nat)
    BY <1>5 DEF Schedulers
  <2> HIDE DEF q
  <2>2. u \in Schedulers /\ u.wpauses = s.wpauses
    BY <2>1 DEF Schedulers
  <2> QED BY <2>2 DEF SamePauses, q
<1> QED BY <1>1, <1>2, <1>3, <1>4, <1>5

(* Changes that keep the pauses, one after the other. *)
LEMMA SameTwice ==
  ASSUME NEW s, NEW t \in Schedulers, SamePauses(s, t), NEW A
  PROVE  /\ SamePauses(s, Schedule(t, A)) /\ SamePauses(s, Bump(t))
         /\ SamePauses(s, Unrequest(t)) /\ SamePauses(s, Resume(t, A))
BY ScheduleFacts DEF SamePauses

(* No step of the clients, the pump, the run or an outside operation begins
   or ends a queued-work pause. *)
LEMMA PausesSame ==
  ASSUME sch \in Schedulers, Clients \/ Pump \/ Run \/ Outside
  PROVE  SamePauses(sch, sch')
<1>0. SamePauses(sch, sch)
  BY SchedulerFields
<1>1. \A A : /\ SamePauses(sch, Schedule(sch, A)) /\ SamePauses(sch, Bump(sch))
             /\ SamePauses(sch, Unrequest(sch)) /\ SamePauses(sch, Resume(sch, A))
  BY ScheduleFacts
<1>2. \A A : SamePauses(sch, Finish(sch, A))
  BY <1>0, <1>1 DEF Finish
<1>3. \A A, B : SamePauses(sch, Schedule(Resume(sch, A), B))
  <2> SUFFICES ASSUME NEW A, NEW B PROVE SamePauses(sch, Schedule(Resume(sch, A), B))
    OBVIOUS
  <2>1. SamePauses(sch, Resume(sch, A)) /\ Resume(sch, A) \in Schedulers
    BY <1>1 DEF SamePauses
  <2> QED BY <2>1, SameTwice
<1>4. CASE Clients
  <2>1. PICK a \in Acts : Submit(a) \/ PauseOver(a) \/ FenceGranted(a) \/ AdmitPrompt(a) \/ Handled(a)
    BY <1>4 DEF Clients
  <2>2. CASE Submit(a)
    <3>1. CASE Active
      BY <1>0, <2>2, <3>1 DEF Submit
    <3>2. CASE ~Active
      BY <1>0, <1>1, <2>2, <3>2 DEF Submit
    <3> QED BY <3>1, <3>2
  <2>3. CASE PauseOver(a) \/ FenceGranted(a) \/ Handled(a)
    BY <1>0, <2>3 DEF PauseOver, FenceGranted, Handled
  <2>4. CASE AdmitPrompt(a)
    <3>1. sch' = sch \/ \E x, e, i : Admit(a, x, e, i)
      BY <2>4 DEF AdmitPrompt
    <3>2. ASSUME NEW x, NEW e, NEW i, Admit(a, x, e, i) PROVE SamePauses(sch, sch')
      BY <1>0, <1>1, <1>3, <3>2 DEF Admit
    <3> QED BY <1>0, <3>1, <3>2
  <2> QED BY <2>1, <2>2, <2>3, <2>4
<1>5. CASE Pump
  <2>1. CASE StartPump
    BY <2>1, SchedulerFields DEF StartPump
  <2>2. CASE AgentIdle \/ Validate \/ Prepare \/ Commit \/ RunSettled
    BY <1>0, <2>2 DEF AgentIdle, Validate, Prepare, Commit, RunSettled, Fail, Throw
  <2>3. CASE SelectInput \/ StartCommand \/ EndCommand
    BY <1>0, <1>2, <2>3 DEF SelectInput, StartCommand, EndCommand
  <2> QED BY <1>5, <2>1, <2>2, <2>3 DEF Pump
<1>6. CASE Run
  BY <1>0, <1>1, <1>6 DEF Run, MessageStart, MessageEnd, AgentEnd, RetryRun, RetryEnd, ProcessEvent
<1>7. CASE Outside
  <2>1. CASE RequestAbort
    <3> DEFINE u == [sch EXCEPT !.suspended = TRUE]
    <3>1. sch' = Unrequest(u) /\ SamePauses(sch, u)
      BY <2>1, SchedulerFields DEF RequestAbort
    <3> HIDE DEF u
    <3> QED BY <3>1, SameTwice DEF SamePauses
  <2>2. CASE PauseAdmission
    <3> DEFINE u == [sch EXCEPT !.apauses = @ + 1]
    <3>1. sch' = Unrequest(u) /\ SamePauses(sch, u)
      BY <2>2, SchedulerFields DEF PauseAdmission
    <3> HIDE DEF u
    <3> QED BY <3>1, SameTwice DEF SamePauses
  <2>3. CASE ResumeAdmission
    <3> DEFINE u == [sch EXCEPT !.apauses = @ - 1]
               b == Bump(u)
    <3>1. sch' = Schedule(b, act) /\ SamePauses(sch, u)
      BY <2>3, SchedulerFields DEF ResumeAdmission
    <3> HIDE DEF u
    <3>2. SamePauses(sch, b)
      BY <3>1, SameTwice DEF SamePauses
    <3> HIDE DEF b
    <3> QED BY <3>1, <3>2, SameTwice DEF SamePauses
  <2>4. CASE ResumeQueuedWork \/ MoveQueued
    <3>1. \E A, B : sch' = Schedule(Resume(sch, A), B)
      BY <2>4 DEF ResumeQueuedWork, MoveQueued
    <3> QED BY <1>3, <3>1
  <2>6. CASE CancelOne
    BY <1>0, <1>3, <2>6 DEF CancelOne
  <2>5. CASE ClearQueue \/ ClearAgentMessages \/ BusyStart \/ BusyEnd
    BY <1>0, <1>1, <2>5 DEF ClearQueue, ClearAgentMessages, BusyStart, BusyEnd
  <2> QED BY <1>7, <2>1, <2>2, <2>3, <2>4, <2>5, <2>6 DEF Outside
<1> QED BY <1>4, <1>5, <1>6, <1>7

(* How the commit fence changes: somebody joins, or somebody leaves. *)
FenceMoves ==
  \/ UNCHANGED fence
  \/ \E p \in Parties : fence' = Join(p)
  \/ \E p \in Parties \ {"nav"} : fence' = Leave(p)

(* A navigation that holds the fence keeps it through such a step. *)
LEMMA FenceKept ==
  ASSUME fence \in Seq(Parties), FenceMoves
  PROVE  fence' \in Seq(Parties) /\ (Holds("nav") => Holds("nav")')
<1>1. CASE UNCHANGED fence
  BY <1>1 DEF Holds
<1>2. CASE \E p \in Parties : fence' = Join(p)
  BY <1>2, FenceFacts DEF Holds
<1>3. CASE \E p \in Parties \ {"nav"} : fence' = Leave(p)
  BY <1>3, FenceFacts DEF Holds
<1> QED BY <1>1, <1>2, <1>3 DEF FenceMoves

(* The clients, the pump, the run and the outside operations change the fence
   in these ways only, and nobody dispatches without holding it. *)
LEMMA NavUndisturbed ==
  ASSUME Clients \/ Pump \/ Run \/ Outside
  PROVE  /\ FenceMoves /\ UNCHANGED nav /\ UNCHANGED check
         /\ Holds("nav") /\ ~agent.on /\ evq \in Seq({"agent_end"}) => ~agent'.on /\ (evq \in Seq({"agent_end"}))'
<1>0. /\ "pump" \in Parties \ {"nav"}
      /\ \A a \in Acts : a \in Parties \ {"nav"}
  BY SessionActionsAssumption DEF Parties
<1>1. CASE Clients
  <2>1. PICK a \in Acts : Submit(a) \/ PauseOver(a) \/ FenceGranted(a) \/ AdmitPrompt(a) \/ Handled(a)
    BY <1>1 DEF Clients
  <2>2. UNCHANGED <<nav, check, agent, evq>>
    BY <2>1 DEF Submit, PauseOver, FenceGranted, AdmitPrompt, Handled, agentVars
  <2>3. UNCHANGED fence \/ fence' = Join(a) \/ fence' = Leave(a)
    BY <2>1 DEF Submit, PauseOver, FenceGranted, AdmitPrompt, Handled
  <2> QED BY <1>0, <2>2, <2>3 DEF FenceMoves
<1>2. CASE Pump
  <2>1. UNCHANGED <<nav, check, evq>>
    BY <1>2 DEF Pump, StartPump, AgentIdle, SelectInput, StartCommand, EndCommand, Validate,
                Prepare, Commit, RunSettled, pumpRest
  <2>2. UNCHANGED fence \/ fence' = Join("pump") \/ fence' = Leave("pump")
    BY <1>2 DEF Pump, StartPump, AgentIdle, SelectInput, StartCommand, EndCommand, Validate,
                Prepare, Commit, RunSettled
  <2>3. UNCHANGED agent \/ Holds("pump")
    BY <1>2 DEF Pump, StartPump, AgentIdle, SelectInput, StartCommand, EndCommand, Validate,
                Prepare, Commit, RunSettled
  <2>4. Holds("nav") => ~Holds("pump")
    BY DEF Holds
  <2> QED BY <1>0, <2>1, <2>2, <2>3, <2>4 DEF FenceMoves
<1>3. CASE Run
  <2>1. /\ UNCHANGED <<fence, nav, check>> /\ (~agent.on => UNCHANGED agent)
        /\ ~agent.on => UNCHANGED evq \/ evq' = Append(evq, "agent_end") \/ (evq # << >> /\ evq' = Tail(evq))
    BY <1>3 DEF Run, MessageStart, MessageEnd, AgentEnd, RetryRun, RetryEnd, ProcessEvent, runRest
  <2> QED BY <2>1 DEF FenceMoves
<1>4. CASE Outside
  <2>1. UNCHANGED <<nav, check, fence, agent, evq>>
    BY <1>4 DEF Outside, RequestAbort, ResumeQueuedWork, ClearQueue, CancelOne, ClearAgentMessages,
                MoveQueued, PauseAdmission, ResumeAdmission, BusyStart, BusyEnd, opRest
  <2> QED BY <2>1 DEF FenceMoves
<1> QED BY <1>1, <1>2, <1>3, <1>4

(* An action that keeps a checkpoint waiting. *)
Blocking(a, x) ==
  IF a \in Commands THEN x.st \in {"selected", "running"}
  ELSE \/ x.st \in {"selected", "preparing"}
       \/ x.st = "committing" /\ ~x.durable

(* Whatever blocks a checkpoint is unfinished, so that the store owns it. *)
LEMMA BlocksFacts ==
  /\ StoreInv => (BlocksCheckpoint <=> \E a \in Acts : Blocking(a, act[a]))
  /\ StoreInv' => (BlocksCheckpoint' <=> \E a \in Acts : Blocking(a, act'[a]))
<1>1. \A a, x : Blocking(a, x) => x.st \in Unfinished
  BY DEF Blocking, Unfinished
<1>2. ASSUME StoreInv PROVE BlocksCheckpoint <=> \E a \in Acts : Blocking(a, act[a])
  <2>1. /\ Range(Owned) \subseteq Acts
        /\ \A a \in Acts : act[a].st \in Unfinished => a \in Range(Owned)
    <3>1. lanes \in [Lanes -> Seq(Acts)] /\ TypeOK
      BY <1>2 DEF StoreInv, StoreTypes
    <3>2. Owned \in Seq(Acts) /\ \A a : a \in Range(Owned) <=> \E l \in Lanes : a \in Range(lanes[l])
      BY <3>1, OwnedRange
    <3>3. Range(Owned) \subseteq Acts
      BY <3>2, RangeFacts
    <3> QED BY <3>1, <3>2, <3>3 DEF TypeOK
  <2>2. BlocksCheckpoint <=> \E a \in Range(Owned) : Blocking(a, act[a])
    BY DEF BlocksCheckpoint, Blocking
  <2> QED BY <1>1, <2>1, <2>2
<1>3. ASSUME StoreInv' PROVE BlocksCheckpoint' <=> \E a \in Acts : Blocking(a, act'[a])
  <2>1. /\ Range(Owned') \subseteq Acts
        /\ \A a \in Acts : act'[a].st \in Unfinished => a \in Range(Owned')
    BY <1>3, OwnedRange, RangeFacts DEF StoreInv, StoreTypes, TypeOK
  <2>2. BlocksCheckpoint' <=> \E a \in Range(Owned') : Blocking(a, act'[a])
    BY DEF BlocksCheckpoint, Blocking
  <2> QED BY <1>1, <2>1, <2>2
<1> QED BY <1>2, <1>3

(* x stays in its state, or leaves for one that does not block. *)
Tamed(x, y) ==
  \/ y.st = x.st /\ (x.durable => y.durable)
  \/ y.st \in {"queued", "completed", "failed", "cancelled"}

(* Then it blocks no checkpoint that it did not block before. *)
LEMMA TamedFacts ==
  ASSUME NEW a, NEW x, NEW y, Tamed(x, y), Blocking(a, y)
  PROVE  Blocking(a, x)
BY DEF Tamed, Blocking

(* Under a queued-work pause the pump starts nothing. *)
LEMMA PumpTamed ==
  ASSUME StoreInv, sch.wpauses # {}, Pump
  PROVE  \A a \in Acts : Tamed(act[a], act'[a])
<1>0. Deferred /\ act \in [Acts -> Actions]
  BY StoreFacts DEF Deferred, PumpBusy
<1>1. ASSUME UNCHANGED act PROVE \A a \in Acts : Tamed(act[a], act'[a])
  BY <1>1 DEF Tamed
<1>2. ASSUME NEW S, act' = SetState(act, S, "queued") PROVE \A a \in Acts : Tamed(act[a], act'[a])
  BY <1>0, <1>2, StateSet DEF States, Tamed
<1>3. ASSUME NEW d \in BOOLEAN, Throw(d), pump.pc \in {"validate", "extensions", "commit", "running"}
      PROVE  \A a \in Acts : Tamed(act[a], act'[a])
  BY <1>3, ThrowMoves DEF Tamed
<1>4. CASE StartPump
  BY <1>1, <1>4 DEF StartPump, storeVars
<1>5. CASE AgentIdle
  BY <1>1, <1>2, <1>5 DEF AgentIdle
<1>6. CASE SelectInput
  BY <1>0, <1>1, <1>6 DEF SelectInput
<1>7. CASE StartCommand
  BY <1>0, <1>1, <1>2, <1>7 DEF StartCommand
<1>8. CASE EndCommand
  BY <1>8, CommandEnds DEF Tamed
<1>9. CASE Validate
  BY <1>0, <1>3, <1>9, DeferralType DEF Validate, Fail
<1>10. CASE Prepare
  BY <1>0, <1>3, <1>10, DeferralType DEF Prepare, Fail
<1>11. CASE Commit
  BY <1>0, <1>3, <1>11 DEF Commit
<1>12. CASE RunSettled
  <2>1. pump.pc = "running"
    BY <1>12 DEF RunSettled
  <2>2. CASE Fail
    BY <1>3, <2>1, <2>2, DeferralType DEF Fail
  <2>3. CASE ~Fail
    <3>1. act' = [a \in Acts |->
                 IF a \in Range(pump.batch) /\ act[a].st \in {"committing", "running"}
                 THEN [act[a] EXCEPT !.st = "completed", !.completed = Settle(@, "ok")]
                 ELSE act[a]]
      BY <1>12, <2>3 DEF RunSettled
    <3>2. ASSUME NEW a \in Acts PROVE Tamed(act[a], act'[a])
      <4>1. CASE ~(a \in Range(pump.batch) /\ act[a].st \in {"committing", "running"})
        BY <3>1, <4>1 DEF Tamed
      <4>2. CASE a \in Range(pump.batch) /\ act[a].st \in {"committing", "running"}
        <5> DEFINE x == act[a]
                   y == act'[a]
                   c == Settle(x.completed, "ok")
        <5>1. x \in Actions
          BY <1>0
        <5>2. y = [x EXCEPT !.st = "completed", !.completed = c]
          BY <3>1, <4>2
        <5> HIDE DEF x, y, c
        <5>3. y.st = "completed"
          BY <5>1, <5>2 DEF Actions
        <5> QED BY <5>3 DEF Tamed, y
      <4> QED BY <4>1, <4>2
    <3> QED BY <3>2
  <2> QED BY <2>2, <2>3
<1> QED BY <1>4, <1>5, <1>6, <1>7, <1>8, <1>9, <1>10, <1>11, <1>12 DEF Pump

(* Nor does anybody else. *)
LEMMA NothingStarts ==
  ASSUME StoreInv, sch.wpauses # {}, Clients \/ Pump \/ Run \/ Outside, NEW b \in Acts,
         Blocking(b, act'[b])
  PROVE  Blocking(b, act[b])
<1>0. act \in [Acts -> Actions]
  BY StoreFacts
<1>1. ASSUME UNCHANGED act PROVE Blocking(b, act[b])
  BY <1>1
<1>2. ASSUME Tamed(act[b], act'[b]) PROVE Blocking(b, act[b])
  BY <1>2, TamedFacts
<1>3. CASE Pump
  BY <1>2, <1>3, PumpTamed
<1>4. CASE Clients
  <2>1. PICK a \in Acts : Submit(a) \/ PauseOver(a) \/ FenceGranted(a) \/ AdmitPrompt(a) \/ Handled(a)
    BY <1>4 DEF Clients
  <2>2. CASE Submit(a) \/ PauseOver(a) \/ FenceGranted(a) \/ Handled(a)
    BY <1>1, <2>2 DEF Submit, PauseOver, FenceGranted, Handled, storeVars
  <2>3. CASE AdmitPrompt(a)
    <3>1. UNCHANGED act \/ \E x \in Actions : \E e, i : Admit(a, x, e /\ CanStart, i)
      <4>1. PICK queueIfBusy \in BOOLEAN, resumeIfIdle \in BOOLEAN, lane \in Lanes :
             LET pending == InState(Unfinished) # <<>>
                 visible == Active \/ (queueIfBusy /\ (Busy \/ pending))
                 took == IF visible THEN pend ELSE <<>>
                 x == [NewAction EXCEPT !.lane = lane, !.vis = visible, !.prefix = took]
             IN IF sch.apauses > 0
                THEN /\ client' = [client EXCEPT ![a] = "refused"]
                     /\ pend' = IF visible /\ a \in Turns THEN <<>> ELSE pend
                     /\ UNCHANGED <<act, lanes, sch>>
                ELSE /\ client' = [client EXCEPT ![a] = "done"]
                     /\ IF a \in Commands
                        THEN /\ Admit(a, [NewAction EXCEPT !.lane = lane],
                                      ~pending /\ ~Busy /\ CanStart, TRUE)
                             /\ UNCHANGED pend
                        ELSE /\ Admit(a, x, ~visible /\ CanStart,
                                      \/ ~visible \/ resumeIfIdle
                                      \/ queueIfBusy /\ CanStart)
                             /\ pend' = IF visible THEN <<>> ELSE pend
        BY <2>3 DEF AdmitPrompt
      <4> DEFINE pending == InState(Unfinished) # <<>>
                 visible == Active \/ (queueIfBusy /\ (Busy \/ pending))
                 took == IF visible THEN pend ELSE <<>>
                 x == [NewAction EXCEPT !.lane = lane, !.vis = visible, !.prefix = took]
                 z == [NewAction EXCEPT !.lane = lane]
                 i == ~visible \/ resumeIfIdle \/ (queueIfBusy /\ CanStart)
      <4>2. \/ UNCHANGED act
            \/ Admit(a, z, (~pending /\ ~Busy) /\ CanStart, TRUE)
            \/ Admit(a, x, ~visible /\ CanStart, i)
        BY <4>1
      <4>3. pend \in Seq(NoteMsgs) /\ << >> \in Seq(NoteMsgs) /\ visible \in BOOLEAN
        BY StoreFacts
      <4>4. took \in Seq(NoteMsgs)
        BY <4>3
      <4> HIDE DEF visible, took, i, pending
      <4>5. x \in Actions /\ z \in Actions
        BY <4>3, <4>4 DEF NewAction, Actions, States, Lanes
      <4> HIDE DEF x, z
      <4> QED BY <4>2, <4>5
    <3>2. ASSUME NEW x \in Actions, NEW e, NEW i, Admit(a, x, e /\ CanStart, i)
          PROVE  Blocking(b, act[b])
      <4>1. ~CanStart
        BY DEF CanStart
      <4> DEFINE y == [x EXCEPT !.st = "queued"]
      <4>2. act' = [act EXCEPT ![a] = y]
        BY <3>2, <4>1 DEF Admit, Enqueued
      <4>3. y.st = "queued"
        BY DEF Actions
      <4> HIDE DEF y
      <4>4. b # a
        BY <1>0, <4>2, <4>3 DEF Blocking
      <4>5. act'[b] = act[b]
        BY <1>0, <4>2, <4>4
      <4> QED BY <4>5
    <3> QED BY <1>1, <3>1, <3>2
  <2> QED BY <2>1, <2>2, <2>3
<1>5. CASE Run
  <2>1. CASE AgentEnd
    BY <1>1, <2>1 DEF AgentEnd
  <2>2. CASE MessageStart
    <3> DEFINE x == act[b]
               y == act'[b]
               d == Settle(x.delivered, "delivered")
    <3>1. y = x \/ y = [x EXCEPT !.started = TRUE, !.delivered = d]
      BY <2>2 DEF MessageStart
    <3>2. x \in Actions
      BY <1>0
    <3> HIDE DEF x, y, d
    <3>3. y.st = x.st /\ y.durable = x.durable
      BY <3>1, <3>2 DEF Actions
    <3> QED BY <1>2, <3>3 DEF Tamed, x, y
  <2>3. CASE MessageEnd
    <3> DEFINE x == act[b]
               y == act'[b]
               s == IF x.st = "committing" THEN "running" ELSE x.st
    <3>1. y = x \/ y = [x EXCEPT !.durable = TRUE, !.st = s]
      BY <2>3 DEF MessageEnd
    <3>2. x \in Actions
      BY <1>0
    <3>3. s = x.st \/ (x.st = "committing" /\ s = "running")
      OBVIOUS
    <3> HIDE DEF x, y, s
    <3>4. y = x \/ (y.st = s /\ y.durable)
      BY <3>1, <3>2 DEF Actions
    <3>5. CASE y = x \/ (s = x.st /\ y.st = s /\ y.durable)
      BY <1>2, <3>5 DEF Tamed, x, y
    <3>6. CASE x.st = "committing" /\ y.st = "running"
      BY <3>6, StoreFacts, SessionActionsAssumption DEF BatchStates, x, Blocking, y
    <3> QED BY <3>3, <3>4, <3>5, <3>6
  <2>4. CASE ProcessEvent
    <3> DEFINE x == act[b]
               y == act'[b]
    <3>1. \E c : y = [x EXCEPT !.captured = c]
      BY <2>4 DEF ProcessEvent
    <3>2. x \in Actions
      BY <1>0
    <3> HIDE DEF x, y
    <3>3. y.st = x.st /\ y.durable = x.durable
      BY <3>1, <3>2 DEF Actions
    <3> QED BY <1>2, <3>3 DEF Tamed, x, y
  <2>5. CASE RetryRun \/ RetryEnd
    BY <1>1, <2>5 DEF RetryRun, RetryEnd, runRest
  <2> QED BY <1>5, <2>1, <2>2, <2>3, <2>4, <2>5 DEF Run
<1>6. CASE Outside
  <2>1. CASE \/ ResumeQueuedWork \/ PauseAdmission \/ ResumeAdmission \/ BusyStart \/ BusyEnd
    BY <1>1, <2>1 DEF ResumeQueuedWork, PauseAdmission, ResumeAdmission, BusyStart, BusyEnd, storeVars
  <2>2. CASE MoveQueued
    <3>1. PICK a \in Turns : \E l : act' = [act EXCEPT ![a].lane = l]
      BY <2>2 DEF MoveQueued
    <3>2. PICK l : act' = [act EXCEPT ![a].lane = l]
      BY <3>1
    <3> DEFINE x == act[b]
               y == act'[b]
    <3>3. y = x \/ y = [x EXCEPT !.lane = l]
      BY <1>0, <3>2
    <3>4. x \in Actions
      BY <1>0
    <3> HIDE DEF x, y
    <3>5. y.st = x.st /\ y.durable = x.durable
      BY <3>3, <3>4 DEF Actions
    <3> QED BY <1>2, <3>5 DEF Tamed, x, y
  <2>3. CASE RequestAbort \/ ClearQueue \/ CancelOne \/ ClearAgentMessages
    BY <1>2, <2>3, CancelledFacts DEF RequestAbort, ClearQueue, CancelOne, ClearAgentMessages, CancelActions,
       Tamed
  <2> QED BY <1>6, <2>1, <2>2, <2>3 DEF Outside
<1> QED BY <1>3, <1>4, <1>5, <1>6

(* acquireQueuedWorkPause adds one pause, its release takes it away. *)
LEMMA PausingFacts ==
  ASSUME sch \in Schedulers, NEW w \in {"restart", "navigate"}
  PROVE  /\ Paused(w) \in Schedulers /\ Paused(w).wpauses = sch.wpauses \cup {w}
         /\ Unpaused(w) \in Schedulers /\ Unpaused(w).wpauses = sch.wpauses \ {w}
<1>1. ASSUME NEW W \in SUBSET {"restart", "navigate"}
      PROVE  [sch EXCEPT !.wpauses = W] \in Schedulers /\ [sch EXCEPT !.wpauses = W].wpauses = W
  BY DEF Schedulers
<1>2. sch.wpauses \in SUBSET {"restart", "navigate"}
  BY DEF Schedulers
<1> DEFINE s == [sch EXCEPT !.wpauses = @ \cup {w}]
           t == [sch EXCEPT !.wpauses = @ \ {w}]
<1>3. s \in Schedulers /\ s.wpauses = sch.wpauses \cup {w}
  BY <1>1, <1>2
<1>4. t \in Schedulers /\ t.wpauses = sch.wpauses \ {w}
  BY <1>1, <1>2
<1>5. Paused(w) = Unrequest(s) /\ Unpaused(w) = Schedule(t, act)
  BY DEF Paused, Unpaused
<1> HIDE DEF s, t
<1>6. SamePauses(s, Unrequest(s)) /\ SamePauses(t, Schedule(t, act))
  BY <1>3, <1>4, ScheduleFacts
<1> QED BY <1>3, <1>4, <1>5, <1>6 DEF SamePauses

(* A session starts unpaused. *)
LEMMA PauseInit ==
  ASSUME Init
  PROVE  PauseInv
<1>1. sch \in Schedulers
  BY DEF Init, Schedulers
<1>2. fence \in Seq(Parties) /\ check = "none" /\ nav = "none"
  BY DEF Init
<1> QED BY <1>1, <1>2 DEF PauseInv, CheckpointHolds

(* While a restart has its pause nothing new blocks its checkpoint. *)
LEMMA CheckpointKept ==
  ASSUME StoreInv, StoreInv', PauseInv, Clients \/ Pump \/ Run \/ Outside
  PROVE  CheckpointHolds'
BY NavUndisturbed, BlocksFacts, NothingStarts DEF CheckpointHolds, PauseInv

(* What happens besides the pauses keeps their invariant. *)
LEMMA PauseUndisturbed ==
  ASSUME StoreInv, StoreInv', PauseInv, Clients \/ Pump \/ Run \/ Outside
  PROVE  PauseInv'
<1>1. sch \in Schedulers /\ fence \in Seq(Parties)
  BY DEF PauseInv
<1>2. sch' \in Schedulers /\ sch'.wpauses = sch.wpauses
  BY <1>1, PausesSame DEF SamePauses
<1>3. /\ FenceMoves /\ UNCHANGED nav /\ UNCHANGED check
      /\ Holds("nav") /\ ~agent.on /\ evq \in Seq({"agent_end"}) => ~agent'.on /\ (evq \in Seq({"agent_end"}))'
  BY NavUndisturbed
<1>4. fence' \in Seq(Parties) /\ (Holds("nav") => Holds("nav")')
  BY <1>1, <1>3, FenceKept
<1>5. check' # "none" => "restart" \in sch'.wpauses
  BY <1>2, <1>3 DEF PauseInv
<1>6. nav' = "navigating" => Holds("nav")' /\ ~agent'.on /\ (evq \in Seq({"agent_end"}))'
  BY <1>3, <1>4 DEF PauseInv
<1> QED BY <1>2, <1>4, <1>5, <1>6, CheckpointKept DEF PauseInv

(* The steps of a restart and of a navigation keep it. *)
LEMMA PauseActs ==
  ASSUME PauseInv, Pauses
  PROVE  PauseInv'
<1>1. /\ sch \in Schedulers /\ fence \in Seq(Parties)
      /\ check # "none" => "restart" \in sch.wpauses
      /\ check = "passed" => ~BlocksCheckpoint
      /\ nav = "navigating" => Holds("nav") /\ ~agent.on /\ evq \in Seq({"agent_end"})
  BY DEF PauseInv, CheckpointHolds
<1>2. UNCHANGED <<act, lanes, agent, evq>> /\ (BlocksCheckpoint' <=> BlocksCheckpoint)
  <2>1. UNCHANGED <<act, lanes, agent, evq>>
    BY DEF Pauses, PrepareRestart, CheckpointClear, CheckpointFenced, CancelRestart, Navigate,
           NavigateFenced, NavigateEnd, pauseRest, storeVars, agentVars
  <2> QED BY <2>1 DEF BlocksCheckpoint, Owned
<1>3. "check" \in Parties \ {"nav"} /\ "nav" \in Parties
  BY SessionActionsAssumption DEF Parties
<1>4. \A w \in {"restart", "navigate"} :
        /\ Paused(w) \in Schedulers /\ Paused(w).wpauses = sch.wpauses \cup {w}
        /\ Unpaused(w) \in Schedulers /\ Unpaused(w).wpauses = sch.wpauses \ {w}
  BY <1>1, PausingFacts
<1>5. FenceMoves => fence' \in Seq(Parties) /\ (Holds("nav") => Holds("nav")')
  BY <1>1, FenceKept
<1>6. CASE PrepareRestart
  BY <1>1, <1>2, <1>4, <1>5, <1>6 DEF PrepareRestart, FenceMoves, PauseInv, CheckpointHolds
<1>7. CASE CheckpointClear
  BY <1>1, <1>2, <1>3, <1>5, <1>7 DEF CheckpointClear, FenceMoves, PauseInv, CheckpointHolds
<1>8. CASE CheckpointFenced
  <2>1. FenceMoves /\ UNCHANGED nav
    BY <1>3, <1>8 DEF CheckpointFenced, FenceMoves
  <2>2. \/ UNCHANGED sch /\ check # "none"
           /\ (check' = "wait" \/ (check' = "passed" /\ ~BlocksCheckpoint))
        \/ sch' = Unpaused("restart") /\ check' = "none"
    BY <1>8 DEF CheckpointFenced
  <2> QED BY <1>1, <1>2, <1>4, <1>5, <2>1, <2>2 DEF PauseInv, CheckpointHolds
<1>9. CASE CancelRestart
  <2>1. check' = "none" /\ sch' = Unpaused("restart") /\ UNCHANGED nav /\ FenceMoves
    BY <1>3, <1>9 DEF CancelRestart, FenceMoves
  <2> QED BY <1>1, <1>2, <1>4, <1>5, <2>1 DEF PauseInv, CheckpointHolds
<1>10. CASE Navigate
  <2>1. nav' = "fence" /\ sch' = Paused("navigate") /\ UNCHANGED check /\ FenceMoves
    BY <1>3, <1>10 DEF Navigate, FenceMoves
  <2> QED BY <1>1, <1>2, <1>4, <1>5, <2>1 DEF PauseInv, CheckpointHolds
<1>11. CASE NavigateFenced
  <2>1. CASE evFailed
    BY <1>1, <1>2, <1>3, <1>4, <1>11, <2>1, FenceFacts DEF NavigateFenced, PauseInv, CheckpointHolds
  <2>2. CASE ~evFailed
    <3>1. ~agent.on /\ evq = << >> /\ Holds("nav") /\ nav' = "navigating" /\ UNCHANGED <<sch, fence, check>>
      BY <1>11, <2>2 DEF NavigateFenced, Active
    <3>2. (evq \in Seq({"agent_end"}))' /\ Holds("nav")' /\ ~agent'.on
      BY <1>2, <3>1 DEF Holds
    <3> QED BY <1>1, <1>2, <3>1, <3>2 DEF PauseInv, CheckpointHolds
  <2> QED BY <2>1, <2>2
<1>12. CASE NavigateEnd
  BY <1>1, <1>2, <1>3, <1>4, <1>12, FenceFacts DEF NavigateEnd, PauseInv, CheckpointHolds
<1> QED BY <1>6, <1>7, <1>8, <1>9, <1>10, <1>11, <1>12 DEF Pauses

(* Every step keeps the invariant of the pauses. *)
LEMMA PauseStep ==
  ASSUME StoreInv, StoreInv', PauseInv, [Next]_vars
  PROVE  PauseInv'
<1>1. CASE Clients \/ Pump \/ Run \/ Outside
  BY <1>1, PauseUndisturbed
<1>2. CASE Pauses
  BY <1>2, PauseActs
<1>3. CASE UNCHANGED vars
  BY <1>3 DEF vars, PauseInv, CheckpointHolds, BlocksCheckpoint, Owned, Holds
<1> QED BY <1>1, <1>2, <1>3 DEF Next

-----------------------------------------------------------------------------
(* The theorems *)

(* SessionInv is inductive: it holds of a session that starts, and every
   step of the clients, the pump, the agent's run, an outside operation, a
   restart or a navigation keeps it. *)
THEOREM SessionInvariance == Spec => []SessionInv
<1>1. Init => SessionInv
  BY StoreInit, PauseInit DEF SessionInv
<1>2. SessionInv /\ [Next]_vars => SessionInv'
  BY StoreStep, PauseStep DEF SessionInv, PauseInv
<1> QED BY <1>1, <1>2, PTL DEF Spec

(* ActionStore keeps its shape: every unfinished action is listed exactly
   once, in the list of its lane, and nothing else is listed but dispatches
   that were taken back. *)
THEOREM SessionTyped == Spec => []TypeOK
BY SessionInvariance, PTL DEF SessionInv, StoreInv

(* Both promises of a ticket are settled when its action is finished, however
   it finished: completed, failed, cancelled before or during its dispatch. *)
THEOREM TicketsAreSettled == Spec => []TicketsSettled
BY SessionInvariance, PTL DEF SessionInv, StoreInv

(* A checkpoint of an update restart stays valid until the restart is given
   up: no client, pump, run, outside operation or navigation starts work. *)
THEOREM CheckpointIsKept == Spec => []CheckpointHolds
BY SessionInvariance, PTL DEF SessionInv, PauseInv

(* While navigateTree has the commit fence no dispatch runs and no message of
   one waits to be saved, whatever is paused, aborted, retried or cleared. *)
THEOREM NavigationsHoldDispatch == Spec => []DispatchesWait
BY SessionInvariance, PTL DEF SessionInv, PauseInv, DispatchesWait

-----------------------------------------------------------------------------
(* Who drives an action *)

(* What a submission becomes, a queued turn in another lane, and an action
   that is cancelled, by a step that is none of the pump's or of the run's. *)
Fresh(y) ==
  /\ y.st \in {"queued", "selected"} /\ y.delivered = "pending" /\ y.next = << >>
  /\ ~y.started /\ ~y.durable /\ ~y.captured
Relaned(x, y) ==
  /\ y.st = x.st /\ y.started = x.started /\ y.durable = x.durable /\ y.captured = x.captured
  /\ y.prefix = x.prefix /\ y.next = x.next /\ y.delivered = x.delivered /\ y.vis = x.vis
Retracted(a) ==
  /\ act'[a] = Cancelled(a) /\ act[a].st \in Clearable \cup {"committing"}
  /\ act[a].st = "committing" =>
       /\ a \in AgentMsgs /\ ~act[a].started /\ "clear_agent" \in Ops
       /\ {b \in Turns : act[b].st \in {"committing", "running"}} = {a}
Calm(a) ==
  \/ act'[a] = act[a] \/ Relaned(act[a], act'[a]) \/ Retracted(a)
  \/ act[a].st = "new" /\ Fresh(act'[a])

(* What an admission makes of a submission. *)
LEMMA AdmittedFresh ==
  ASSUME StoreInv, NEW a \in Acts, AdmitPrompt(a)
  PROVE  \A b \in Acts : Calm(b)
<1>1. client[a] \in {"held", "unfenced"}
  BY DEF AdmitPrompt
<1>2. act[a].st = "new" /\ act \in [Acts -> Actions] /\ pend \in Seq(NoteMsgs)
  BY <1>1, StoreFacts DEF Shelves, NewAreFresh
<1>3. PICK queueIfBusy \in BOOLEAN, resumeIfIdle \in BOOLEAN, lane \in Lanes :
       LET pending == InState(Unfinished) # <<>>
           visible == Active \/ (queueIfBusy /\ (Busy \/ pending))
           took == IF visible THEN pend ELSE <<>>
           x == [NewAction EXCEPT !.lane = lane, !.vis = visible, !.prefix = took]
       IN IF sch.apauses > 0
          THEN /\ client' = [client EXCEPT ![a] = "refused"]
               /\ pend' = IF visible /\ a \in Turns THEN <<>> ELSE pend
               /\ UNCHANGED <<act, lanes, sch>>
          ELSE /\ client' = [client EXCEPT ![a] = "done"]
               /\ IF a \in Commands
                  THEN /\ Admit(a, [NewAction EXCEPT !.lane = lane],
                                ~pending /\ ~Busy /\ CanStart, TRUE)
                       /\ UNCHANGED pend
                  ELSE /\ Admit(a, x, ~visible /\ CanStart,
                                \/ ~visible \/ resumeIfIdle
                                \/ queueIfBusy /\ CanStart)
                       /\ pend' = IF visible THEN <<>> ELSE pend
  BY DEF AdmitPrompt
<1> DEFINE pending == InState(Unfinished) # <<>>
           visible == Active \/ (queueIfBusy /\ (Busy \/ pending))
           took == IF visible THEN pend ELSE <<>>
           x == [NewAction EXCEPT !.lane = lane, !.vis = visible, !.prefix = took]
           z == [NewAction EXCEPT !.lane = lane]
           e == ~visible /\ CanStart
           i == ~visible \/ resumeIfIdle \/ (queueIfBusy /\ CanStart)
           f == ~pending /\ ~Busy /\ CanStart
<1>4. UNCHANGED act \/ Admit(a, z, f, TRUE) \/ Admit(a, x, e, i)
  BY <1>3
<1>5. ASSUME NEW y, NEW s \in {"queued", "selected"}, y \in {x, z}
      PROVE  Fresh([y EXCEPT !.st = s])
  <2>1. CASE y = x
    <3> HIDE DEF took, visible
    <3> QED BY <2>1 DEF Fresh, NewAction
  <2>2. CASE y = z
    BY <2>2 DEF Fresh, NewAction
  <2> QED BY <1>5, <2>1, <2>2
<1> HIDE DEF x, z, e, i, f
<1>6. ASSUME NEW y \in {x, z}, NEW el, NEW im, Admit(a, y, el, im)
      PROVE  \E s \in {"queued", "selected"} : act' = [act EXCEPT ![a] = [y EXCEPT !.st = s]]
  BY <1>6 DEF Admit, Enqueued
<1>7. CASE UNCHANGED act
  BY <1>7 DEF Calm
<1>8. CASE ~UNCHANGED act
  <2>1. PICK y \in {x, z}, s \in {"queued", "selected"} :
              act' = [act EXCEPT ![a] = [y EXCEPT !.st = s]]
    BY <1>4, <1>6, <1>8
  <2> DEFINE w == [y EXCEPT !.st = s]
  <2>2. Fresh(w)
    BY <1>5
  <2> HIDE DEF w
  <2>3. act' = [act EXCEPT ![a] = w]
    BY <2>1 DEF w
  <2>4. act'[a] = w /\ \A b \in Acts : b # a => act'[b] = act[b]
    BY <1>2, <2>3
  <2> QED BY <1>2, <2>2, <2>4 DEF Calm
<1> QED BY <1>7, <1>8

(* What a cancellation makes of the actions. *)
LEMMA CancelCalm ==
  ASSUME StoreInv, NEW S \in SUBSET Acts, CancelActions(S),
         \A a \in S : /\ act[a].st \in Clearable \cup {"committing"}
                      /\ act[a].st = "committing" =>
                           /\ a \in AgentMsgs /\ ~act[a].started /\ "clear_agent" \in Ops
                           /\ {b \in Turns : act[b].st \in {"committing", "running"}} = {a}
  PROVE  (\A a \in Acts : Calm(a)) /\ Range(transcript') \subseteq Range(transcript)
<1>1. act' = [a \in Acts |-> IF a \in S THEN Cancelled(a) ELSE act[a]]
  BY DEF CancelActions
<1>2. ASSUME NEW a \in Acts PROVE Calm(a)
  <2>1. CASE a \in S
    BY <1>1, <2>1 DEF Calm, Retracted
  <2>2. CASE a \notin S
    BY <1>1, <2>2 DEF Calm
  <2> QED BY <2>1, <2>2
<1>3. Range(transcript') \subseteq Range(transcript)
  BY StoreFacts, DropFacts DEF CancelActions
<1> QED BY <1>2, <1>3

(* Such steps begin no retry. *)
LEMMA RetryRests ==
  ASSUME Clients \/ Outside \/ Pauses \/ UNCHANGED vars
  PROVE  retry' \in {retry, "no"}
<1>1. CASE Clients
  BY <1>1 DEF Clients, Submit, PauseOver, FenceGranted, AdmitPrompt, Handled, agentVars
<1>2. CASE Pauses
  BY <1>2 DEF Pauses, PrepareRestart, CheckpointClear, CheckpointFenced, CancelRestart,
    Navigate, NavigateFenced, NavigateEnd, pauseRest, agentVars
<1>3. CASE Outside
  BY <1>3 DEF Outside, RequestAbort, ResumeQueuedWork, ClearQueue, CancelOne,
    ClearAgentMessages, MoveQueued, PauseAdmission, ResumeAdmission, BusyStart, BusyEnd
<1> QED BY <1>1, <1>2, <1>3 DEF vars

(* The steps of clients, of operations from outside and of pauses. *)
LEMMA CalmSteps ==
  ASSUME StoreInv, Clients \/ Outside \/ Pauses \/ UNCHANGED vars
  PROVE  /\ UNCHANGED <<pump, agent, evq, evFailed, persisted>>
         /\ Range(transcript') \subseteq Range(transcript)
         /\ \A a \in Acts : Calm(a)
<1>1. CASE Pauses \/ UNCHANGED vars
  <2>1. UNCHANGED <<act, pump, agent, evq, evFailed, persisted, transcript>>
    <3>1. CASE Pauses
      BY <3>1 DEF Pauses, PrepareRestart, CheckpointClear, CheckpointFenced, CancelRestart,
        Navigate, NavigateFenced, NavigateEnd, pauseRest, storeVars, agentVars
    <3>2. CASE UNCHANGED vars
      BY <3>2 DEF vars
    <3> QED BY <1>1, <3>1, <3>2
  <2> QED BY <2>1 DEF Calm
<1>2. CASE Clients
  <2>1. PICK a \in Acts : Submit(a) \/ PauseOver(a) \/ FenceGranted(a)
                           \/ AdmitPrompt(a) \/ Handled(a)
    BY <1>2 DEF Clients
  <2>2. UNCHANGED <<pump, agent, evq, evFailed, persisted, transcript>>
    BY <2>1 DEF Submit, PauseOver, FenceGranted, AdmitPrompt, Handled, agentVars
  <2>3. UNCHANGED act \/ AdmitPrompt(a)
    BY <2>1 DEF Submit, PauseOver, FenceGranted, Handled, storeVars
  <2>4. \A b \in Acts : Calm(b)
    BY <2>3, AdmittedFresh DEF Calm
  <2> QED BY <2>2, <2>4
<1>3. CASE \/ ResumeQueuedWork \/ PauseAdmission \/ ResumeAdmission \/ BusyStart \/ BusyEnd
  BY <1>3 DEF ResumeQueuedWork, PauseAdmission, ResumeAdmission, BusyStart, BusyEnd, storeVars, opRest, Calm
<1>4. CASE MoveQueued
  <2>1. UNCHANGED <<pump, agent, evq, evFailed, persisted, transcript>>
    BY <1>4 DEF MoveQueued, opRest
  <2>2. PICK a \in Turns : \E to : act' = [act EXCEPT ![a].lane = to]
    BY <1>4 DEF MoveQueued
  <2>3. PICK to : act' = [act EXCEPT ![a].lane = to]
    BY <2>2
  <2>4. a \in Acts /\ act \in [Acts -> Actions]
    BY StoreFacts DEF Acts
  <2>5. ASSUME NEW b \in Acts PROVE Calm(b)
    BY <2>3, <2>4 DEF Relaned, Actions, Calm
  <2> QED BY <2>1, <2>5
<1>5. CASE RequestAbort \/ ClearQueue \/ CancelOne \/ ClearAgentMessages
  <2> DEFINE dispatched == {a \in Turns : act[a].st \in {"committing", "running"}}
  <2>0. "committing" \notin Clearable
    BY DEF Clearable
  <2>1. CASE RequestAbort
    <3> DEFINE S == {a \in Turns : act[a].st \in Clearable /\ ~act[a].vis}
    <3>1. CancelActions(S) /\ UNCHANGED <<pump, agent, evq, evFailed, persisted>>
      BY <2>1 DEF RequestAbort, opRest
    <3>2. S \in SUBSET Acts /\ \A a \in S : act[a].st \in Clearable
      BY DEF Acts
    <3> HIDE DEF S
    <3> QED BY <2>0, <3>1, <3>2, CancelCalm
  <2>2. CASE ClearQueue
    <3> DEFINE S == {a \in Acts : act[a].st \in Clearable /\ (a \in Commands \/ act[a].vis)}
    <3>1. CancelActions(S) /\ UNCHANGED <<pump, agent, evq, evFailed, persisted>>
      BY <2>2 DEF ClearQueue, opRest
    <3>2. S \in SUBSET Acts /\ \A a \in S : act[a].st \in Clearable
      OBVIOUS
    <3> HIDE DEF S
    <3> QED BY <2>0, <3>1, <3>2, CancelCalm
  <2>3. CASE CancelOne
    BY <2>0, <2>3, CancelCalm DEF CancelOne, Acts, opRest
  <2>4. CASE ClearAgentMessages
    <3> DEFINE S == {a \in AgentMsgs : \/ act[a].st \in Clearable
                                       \/ /\ act[a].st = "committing" /\ ~act[a].started
                                          /\ dispatched = {a}}
    <3>1. CancelActions(S) /\ UNCHANGED <<pump, agent, evq, evFailed, persisted>>
      BY <2>4 DEF ClearAgentMessages, opRest
    <3>2. "clear_agent" \in Ops
      BY <2>4 DEF ClearAgentMessages, Op
    <3>3. S \in SUBSET Acts
      BY SessionActionsAssumption DEF Acts
    <3>4. \A a \in S : /\ act[a].st \in Clearable \cup {"committing"}
                       /\ act[a].st = "committing" =>
                            /\ a \in AgentMsgs /\ ~act[a].started /\ "clear_agent" \in Ops
                            /\ dispatched = {a}
      <4> HIDE DEF dispatched
      <4> QED BY <2>0, <3>2
    <3> HIDE DEF S
    <3> QED BY <3>1, <3>3, <3>4, CancelCalm
  <2> QED BY <1>5, <2>1, <2>2, <2>3, <2>4
<1> QED BY <1>1, <1>2, <1>3, <1>4, <1>5 DEF Outside

(* The elements of two sequences, one behind the other. *)
LEMMA ConcatRange ==
  ASSUME NEW T, NEW p \in Seq(T), NEW q \in Seq(T)
  PROVE  p \o q \in Seq(T) /\ Range(p \o q) = Range(p) \cup Range(q)
<1>1. p \o q \in Seq(T) /\ Len(p \o q) = Len(p) + Len(q) /\ Len(p) \in Nat /\ Len(q) \in Nat
  OBVIOUS
<1>2. \A i \in 1 .. Len(p) + Len(q) :
        (p \o q)[i] = IF i <= Len(p) THEN p[i] ELSE q[i - Len(p)]
  OBVIOUS
<1>3. DOMAIN (p \o q) = 1 .. Len(p) + Len(q) /\ DOMAIN p = 1 .. Len(p) /\ DOMAIN q = 1 .. Len(q)
  BY <1>1
<1> DEFINE r == p \o q
<1> HIDE DEF r
<1>4. \A i \in 1 .. Len(p) + Len(q) : r[i] = IF i <= Len(p) THEN p[i] ELSE q[i - Len(p)]
  BY <1>2 DEF r
<1>5. ASSUME NEW x \in Range(r) PROVE x \in Range(p) \cup Range(q)
  <2>1. PICK i \in 1 .. Len(p) + Len(q) : x = r[i]
    BY <1>3 DEF Range, r
  <2>2. CASE i <= Len(p)
    BY <1>1, <1>3, <1>4, <2>1, <2>2 DEF Range
  <2>3. CASE ~(i <= Len(p))
    BY <1>1, <1>3, <1>4, <2>1, <2>3 DEF Range
  <2> QED BY <2>2, <2>3
<1>6. ASSUME NEW x \in Range(p) PROVE x \in Range(r)
  BY <1>1, <1>3, <1>4 DEF Range, r
<1>7. ASSUME NEW x \in Range(q) PROVE x \in Range(r)
  <2>1. PICK i \in 1 .. Len(q) : x = q[i]
    BY <1>3 DEF Range
  <2> DEFINE k == i + Len(p)
  <2>2. k \in 1 .. Len(p) + Len(q) /\ ~(k <= Len(p)) /\ k - Len(p) = i
    BY <1>1
  <2> HIDE DEF k
  <2>3. r[k] = q[i]
    BY <1>4, <2>2
  <2> QED BY <1>3, <2>1, <2>2, <2>3 DEF Range, r
<1> QED BY <1>1, <1>5, <1>6, <1>7 DEF r

(* What is put together from sequences has their elements. *)
LEMMA FlattenRange ==
  ASSUME NEW T, NEW ss \in Seq(Seq(T))
  PROVE  \A x : x \in Range(FlattenSeq(ss)) <=> \E i \in 1 .. Len(ss) : x \in Range(ss[i])
<1> DEFINE L == Len(ss)
           Past(n) == {x \in T : \E i \in 1 .. n : x \in Range(ss[i])}
<1>0. L \in Nat /\ \A i \in 1 .. L : ss[i] \in Seq(T)
  OBVIOUS
<1>1. CASE L = 0
  <2>1. FlattenSeq(ss) = << >>
    BY <1>1 DEF FlattenSeq
  <2>2. Range(<< >>) = {} /\ \A i \in 1 .. L : FALSE
    BY <1>1 DEF Range
  <2> HIDE DEF L
  <2> QED BY <2>1, <2>2 DEF L
<1>2. CASE L # 0
  <2>0. L >= 1
    BY <1>0, <1>2
  <2>1. PICK h : Piles(h, ss, L) /\ FlattenSeq(ss) = h[L]
    BY <1>2, FlattenPiles
  <2> DEFINE Good(n) == h[n] \in Seq(T) /\ Range(h[n]) = Past(n)
             I == {i \in 1 .. L : ~Good(i)}
  <2>2. Good(1)
    <3>1. h[1] = ss[1] /\ ss[1] \in Seq(T)
      BY <1>0, <2>0, <2>1 DEF Piles
    <3>2. Range(ss[1]) \subseteq T
      BY <3>1, RangeFacts
    <3>3. Past(1) = Range(ss[1])
      BY <3>2
    <3> HIDE DEF Past
    <3> QED BY <3>1, <3>3
  <2>3. ASSUME NEW n \in 2 .. L, Good(n - 1) PROVE Good(n)
    <3> DEFINE p == h[n - 1]
               q == ss[n]
    <3>1. h[n] = p \o q /\ q \in Seq(T) /\ p \in Seq(T) /\ Range(p) = Past(n - 1)
      <4>1. n \in 1 .. L
        OBVIOUS
      <4>2. h[n] = p \o q
        BY <2>1 DEF Piles, Joined
      <4> HIDE DEF Past
      <4> QED BY <1>0, <2>3, <4>1, <4>2
    <3>2. Range(q) \subseteq T
      BY <3>1, RangeFacts
    <3>3. Past(n) = Past(n - 1) \cup Range(q)
      <4>1. \A i \in 1 .. n : i \in 1 .. n - 1 \/ i = n
        OBVIOUS
      <4>2. \A i \in 1 .. n - 1 : i \in 1 .. n
        OBVIOUS
      <4>3. n \in 1 .. n
        OBVIOUS
      <4> QED BY <3>2, <4>1, <4>2, <4>3
    <3> HIDE DEF p, q, Past
    <3>4. p \o q \in Seq(T) /\ Range(p \o q) = Range(p) \cup Range(q)
      BY <3>1, ConcatRange
    <3>5. h[n] \in Seq(T) /\ Range(h[n]) = Past(n)
      BY <3>1, <3>3, <3>4
    <3> QED BY <3>5
  <2>4. Good(L)
    <3> HIDE DEF Good
    <3>1. I = {}
      <4> SUFFICES ASSUME I # {} PROVE FALSE
        OBVIOUS
      <4>1. PICK n \in I : \A i \in I : n <= i
        <5>1. I \in SUBSET (1 .. L)
          OBVIOUS
        <5> HIDE DEF I, L
        <5> QED BY <1>0, <5>1, Least
      <4>2. n \in 1 .. L /\ ~Good(n)
        OBVIOUS
      <4>3. n # 1
        BY <2>2, <4>2
      <4>4. n \in 2 .. L /\ n - 1 \in 1 .. L /\ ~(n <= n - 1)
        BY <1>0, <4>2, <4>3
      <4>5. Good(n - 1)
        BY <4>1, <4>4
      <4> QED BY <2>3, <4>2, <4>4, <4>5
    <3>2. L \in 1 .. L
      BY <1>0, <2>0
    <3> QED BY <3>1, <3>2
  <2>5. Range(FlattenSeq(ss)) = Past(L)
    BY <2>1, <2>4
  <2>6. \A i \in 1 .. L : Range(ss[i]) \subseteq T
    BY <1>0, RangeFacts
  <2>7. \A x : x \in Past(L) <=> \E i \in 1 .. L : x \in Range(ss[i])
    BY <2>6
  <2> HIDE DEF Past
  <2> QED BY <2>5, <2>7
<1> QED BY <1>1, <1>2

(* No note is a prompt, and each prompt is of one action. *)
LEMMA PrimaryApart ==
  ASSUME NEW a \in Acts
  PROVE  Primary(a) \notin NoteMsgs /\ \A b : Primary(a) = Primary(b) => a = b
BY SessionActionsAssumption DEF Primary, NoteMsgs

(* Commit either throws or hands the prompts of its turns, and notes, to the
   agent. *)
Dispatched ==
  /\ ~agent.on /\ \A a \in Range(pump.turns) : act[a].st = "preparing"
  /\ pump'.pc = "running" /\ pump'.batch = pump.batch /\ pump'.turns = pump.turns
  /\ pump'.epoch = pump.epoch
  /\ agent'.on /\ ~agent'.mid
  /\ \A a \in Acts : Primary(a) \in Range(agent'.todo) <=> a \in Range(pump.turns)
  /\ \A a \in Range(pump.turns) : act'[a].st = "committing"
  /\ \A a \in Acts : /\ a \notin Range(pump.turns) => act'[a].st = act[a].st
                     /\ act'[a].durable = act[a].durable /\ act'[a].started = act[a].started
                     /\ act'[a].captured = act[a].captured
                     /\ act'[a].delivered = act[a].delivered
  /\ UNCHANGED sch

(* What Commit does. *)
LEMMA CommitSplits ==
  ASSUME StoreInv, Commit
  PROVE  (Throw(TRUE) /\ UNCHANGED agent) \/ Dispatched
<1> DEFINE stale == Deferred \/ Active \/ \E a \in Range(pump.turns) : act[a].st # "preparing"
           first == pump.turns[1]
           notes == IF act[pump.batch[1]].vis THEN pend ELSE pump.notes
           N == [act EXCEPT ![first].next = notes]
           A == SetState(N, Range(pump.turns), "committing")
           msgs(a) == A[a].prefix \o A[a].next \o <<Primary(a)>>
           todo == FlattenSeq([i \in 1 .. Len(pump.turns) |-> msgs(pump.turns[i])])
<1>1. stale => Throw(TRUE) /\ UNCHANGED agent
  BY DEF Commit
<1> SUFFICES ASSUME ~stale PROVE Dispatched
  BY <1>1
<1>2. /\ act' = A /\ pump' = [pump EXCEPT !.pc = "running", !.notes = notes]
      /\ agent' = [on |-> TRUE, mid |-> FALSE, todo |-> todo] /\ UNCHANGED sch
  BY DEF Commit
<1>3. ~agent.on /\ \A a \in Range(pump.turns) : act[a].st = "preparing"
  BY DEF Active
<1>4. /\ act \in [Acts -> Actions] /\ pump \in Pumps /\ pend \in Seq(NoteMsgs)
      /\ pump.turns \in Seq(Acts) /\ pump.notes \in Seq(NoteMsgs)
      /\ Range(pump.turns) \subseteq Acts
  BY StoreFacts, RangeFacts DEF Pumps
<1>5. notes \in Seq(NoteMsgs)
  BY <1>4
<1> HIDE DEF stale, notes, first, todo
<1>6. /\ N \in [Acts -> Actions]
      /\ \A a \in Acts : /\ N[a].st = act[a].st /\ N[a].durable = act[a].durable
                         /\ N[a].started = act[a].started /\ N[a].captured = act[a].captured
                         /\ N[a].delivered = act[a].delivered
  <2>1. ASSUME NEW a \in Acts
        PROVE  /\ N[a] \in Actions /\ N[a].st = act[a].st /\ N[a].durable = act[a].durable
               /\ N[a].started = act[a].started /\ N[a].captured = act[a].captured
               /\ N[a].delivered = act[a].delivered
    <3>1. act[a] \in Actions
      BY <1>4
    <3>2. N[a] = act[a] \/ N[a] = [act[a] EXCEPT !.next = notes]
      BY <1>4
    <3> HIDE DEF N
    <3> QED BY <1>5, <3>1, <3>2 DEF Actions
  <2>2. N = [a \in Acts |-> N[a]]
    BY <1>4
  <2> HIDE DEF N
  <2> QED BY <2>1, <2>2
<1> HIDE DEF N
<1>7. /\ A \in [Acts -> Actions]
      /\ \A a \in Acts : /\ a \notin Range(pump.turns) => A[a].st = act[a].st
                         /\ a \in Range(pump.turns) => A[a].st = "committing"
                         /\ A[a].durable = act[a].durable /\ A[a].started = act[a].started
                         /\ A[a].captured = act[a].captured
                         /\ A[a].delivered = act[a].delivered
  <2>1. ASSUME NEW a \in Acts
        PROVE  /\ a \notin Range(pump.turns) => A[a].st = act[a].st
               /\ a \in Range(pump.turns) => A[a].st = "committing"
               /\ A[a].durable = act[a].durable /\ A[a].started = act[a].started
               /\ A[a].captured = act[a].captured
               /\ A[a].delivered = act[a].delivered
    <3>1. N[a] \in Actions
      BY <1>6
    <3>2. CASE a \in Range(pump.turns)
      BY <1>6, <3>1, <3>2 DEF SetState, Actions
    <3>3. CASE a \notin Range(pump.turns)
      BY <1>6, <3>1, <3>3 DEF SetState
    <3> QED BY <3>2, <3>3
  <2>2. "committing" \in States
    BY DEF States
  <2>3. A \in [Acts -> Actions]
    BY <1>6, <2>2, StateSet
  <2> HIDE DEF A
  <2> QED BY <2>1, <2>3
<1> HIDE DEF A
<1>8. /\ pump'.pc = "running" /\ pump'.batch = pump.batch /\ pump'.turns = pump.turns
      /\ pump'.epoch = pump.epoch
  BY <1>2, <1>4 DEF Pumps
<1>9. agent'.on /\ ~agent'.mid /\ agent'.todo = todo
  BY <1>2
<1> DEFINE T == NoteMsgs \cup {Primary(a) : a \in Acts}
           ss == [i \in 1 .. Len(pump.turns) |-> msgs(pump.turns[i])]
<1>10. ASSUME NEW a \in Acts
       PROVE  /\ msgs(a) \in Seq(T)
              /\ \A b \in Acts : Primary(b) \in Range(msgs(a)) <=> b = a
  <2> DEFINE p == A[a].prefix
             n == A[a].next
             m == Primary(a)
  <2>1. p \in Seq(NoteMsgs) /\ n \in Seq(NoteMsgs)
    BY <1>7 DEF Actions
  <2>2. NoteMsgs \subseteq T /\ m \in T
    OBVIOUS
  <2> HIDE DEF p, n, m, T
  <2>3. p \in Seq(T) /\ n \in Seq(T) /\ <<m>> \in Seq(T)
    BY <2>1, <2>2, SeqMono
  <2>4. p \o n \in Seq(T) /\ Range(p \o n) = Range(p) \cup Range(n)
    BY <2>3, ConcatRange
  <2>5. p \o n \o <<m>> \in Seq(T) /\ Range(p \o n \o <<m>>) = Range(p \o n) \cup Range(<<m>>)
    <3> DEFINE r == p \o n
               u == <<m>>
    <3>1. r \in Seq(T) /\ u \in Seq(T)
      BY <2>3, <2>4
    <3> HIDE DEF r, u
    <3>2. r \o u \in Seq(T) /\ Range(r \o u) = Range(r) \cup Range(u)
      BY <3>1, ConcatRange
    <3> QED BY <3>2 DEF r, u
  <2>6. Range(<<m>>) = {m} /\ Range(p) \subseteq NoteMsgs /\ Range(n) \subseteq NoteMsgs
    BY <2>1, RangeFacts DEF Range
  <2>7. \A b \in Acts : Primary(b) \in Range(msgs(a)) <=> b = a
    BY <2>4, <2>5, <2>6, PrimaryApart DEF p, n, m
  <2> QED BY <2>5, <2>7 DEF p, n, m
<1> HIDE DEF msgs, T
<1>11. /\ ss \in Seq(Seq(T)) /\ Len(ss) = Len(pump.turns)
       /\ \A i \in 1 .. Len(pump.turns) : ss[i] = msgs(pump.turns[i]) /\ pump.turns[i] \in Acts
  BY <1>4, <1>10
<1>12. todo = FlattenSeq(ss)
  BY DEF todo, msgs
<1> HIDE DEF ss
<1>13. ASSUME NEW a \in Acts
       PROVE  Primary(a) \in Range(todo) <=> a \in Range(pump.turns)
  <2>1. Primary(a) \in Range(todo) <=> \E i \in 1 .. Len(ss) : Primary(a) \in Range(ss[i])
    BY <1>11, <1>12, FlattenRange
  <2>2. \A i \in 1 .. Len(pump.turns) : Primary(a) \in Range(ss[i]) <=> a = pump.turns[i]
    BY <1>10, <1>11
  <2>3. a \in Range(pump.turns) <=> \E i \in 1 .. Len(pump.turns) : a = pump.turns[i]
    <3>1. DOMAIN pump.turns = 1 .. Len(pump.turns)
      BY <1>4
    <3> QED BY <3>1 DEF Range
  <2> QED BY <1>11, <2>1, <2>2, <2>3
<1>14. /\ \A a \in Range(pump.turns) : act'[a].st = "committing"
       /\ \A a \in Acts : /\ a \notin Range(pump.turns) => act'[a].st = act[a].st
                          /\ act'[a].durable = act[a].durable /\ act'[a].started = act[a].started
                          /\ act'[a].captured = act[a].captured
                          /\ act'[a].delivered = act[a].delivered
  BY <1>2, <1>4, <1>7
<1> QED BY <1>2, <1>3, <1>8, <1>9, <1>13, <1>14 DEF Dispatched

(* A pump that has ended, or is at the head of its loop, has no batch. *)
LEMMA EmptyHanded ==
  ASSUME NEW A
  PROVE  /\ NoPump.pc = "off" /\ NoPump.batch = << >> /\ NoPump.turns = << >>
         /\ NoPump.notes = << >> /\ NoPump.epoch = 0
         /\ Loop(A).pc = (IF Selectable(A) THEN "idle" ELSE "off")
         /\ Loop(A).batch = << >> /\ Loop(A).turns = << >> /\ Loop(A).notes = << >>
         /\ Loop(A).epoch = (IF Selectable(A) THEN pump.epoch ELSE 0)
BY DEF NoPump, Loop

(* A pump that starts has no batch either. *)
LEMMA Woken ==
  ASSUME NEW e, NEW p, p = [NoPump EXCEPT !.pc = "idle", !.epoch = e]
  PROVE  /\ p.pc = "idle" /\ p.batch = << >> /\ p.turns = << >> /\ p.notes = << >>
         /\ p.epoch = e
BY DEF NoPump

(* What a throw does to the actions of its batch, and to no others. *)
LEMMA ThrowActs ==
  ASSUME StoreInv, pump.pc \in {"validate", "extensions", "commit", "running"},
         NEW deferral \in BOOLEAN, Throw(deferral)
  PROVE  /\ pump' = (IF Deferred THEN NoPump ELSE Loop(act'))
         /\ pump'.pc \in {"off", "idle"} /\ pump'.batch = << >> /\ pump'.turns = << >>
         /\ \A a \in Acts : a \notin Range(pump.batch) => act'[a] = act[a]
         /\ \A a \in Range(pump.batch) :
              /\ act'[a].durable = Delivered(a) /\ act'[a].started = act[a].started
              /\ act'[a].captured = act[a].captured /\ act'[a].vis = act[a].vis
              /\ act'[a].next = << >>
              /\ act[a].st = "cancelled" => /\ act'[a].st = "cancelled"
                                            /\ act'[a].delivered = act[a].delivered
                                            /\ act'[a].prefix = act[a].prefix
              /\ act[a].st # "cancelled" =>
                   /\ act'[a].prefix = Drop(act[a].prefix, Range(transcript))
                   /\ act'[a].st = (IF ~deferral THEN "failed"
                                    ELSE IF Delivered(a) THEN act[a].st ELSE "queued")
                   /\ act'[a].delivered = (IF deferral \/ Delivered(a) THEN act[a].delivered
                                           ELSE Settle(act[a].delivered, "rejected"))
<1> DEFINE B == {a \in Range(pump.batch) : act[a].st # "cancelled"}
           undelivered == {a \in B : ~Delivered(a)}
           stripped == [a \in Acts |->
              IF a \notin Range(pump.batch) THEN act[a]
              ELSE [act[a] EXCEPT !.next = <<>>,
                      !.prefix = IF a \in B THEN Drop(@, Range(transcript)) ELSE @,
                      !.durable = Delivered(a)]]
           failed(x, a) == [x EXCEPT !.st = "failed", !.completed = Settle(@, "error"),
                              !.delivered = IF a \in undelivered THEN Settle(@, "rejected") ELSE @]
           A == IF deferral THEN SetState(stripped, undelivered, "queued")
                ELSE [a \in Acts |-> IF a \in B THEN failed(stripped[a], a) ELSE stripped[a]]
<1>1. act' = A /\ pump' = IF Deferred THEN NoPump ELSE Loop(A)
  BY DEF Throw
<1>2. act \in [Acts -> Actions] /\ \A a \in Range(pump.batch) : a \in Acts
  BY StoreFacts, BatchWork
<1>3. ASSUME NEW a \in Acts, a \notin Range(pump.batch) PROVE act'[a] = act[a]
  <2>1. stripped[a] = act[a] /\ a \notin B /\ a \notin undelivered
    BY <1>3
  <2> HIDE DEF stripped, B, undelivered
  <2>2. A[a] = stripped[a]
    BY <2>1 DEF SetState
  <2> QED BY <1>1, <2>1, <2>2
<1>4. ASSUME NEW a \in Range(pump.batch)
      PROVE  /\ act'[a].durable = Delivered(a) /\ act'[a].started = act[a].started
             /\ act'[a].captured = act[a].captured /\ act'[a].vis = act[a].vis
             /\ act'[a].next = << >>
             /\ act[a].st = "cancelled" => /\ act'[a].st = "cancelled"
                                           /\ act'[a].delivered = act[a].delivered
                                           /\ act'[a].prefix = act[a].prefix
             /\ act[a].st # "cancelled" =>
                  /\ act'[a].prefix = Drop(act[a].prefix, Range(transcript))
                  /\ act'[a].st = (IF ~deferral THEN "failed"
                                   ELSE IF Delivered(a) THEN act[a].st ELSE "queued")
                  /\ act'[a].delivered = (IF deferral \/ Delivered(a) THEN act[a].delivered
                                          ELSE Settle(act[a].delivered, "rejected"))
  <2> DEFINE x == act[a]
             z == stripped[a]
             p == IF a \in B THEN Drop(act[a].prefix, Range(transcript)) ELSE act[a].prefix
             d == Delivered(a)
  <2>1. a \in Acts /\ x \in Actions /\ d \in BOOLEAN
    BY <1>2 DEF Delivered, Actions
  <2>2. z = [x EXCEPT !.next = << >>, !.prefix = p, !.durable = d]
    BY <2>1
  <2>3. a \in B <=> x.st # "cancelled"
    OBVIOUS
  <2>4. a \in undelivered <=> x.st # "cancelled" /\ ~d
    OBVIOUS
  <2>5. act'[a] = IF deferral THEN (IF a \in undelivered THEN [z EXCEPT !.st = "queued"] ELSE z)
                  ELSE IF a \in B THEN failed(z, a) ELSE z
    <3> HIDE DEF stripped, B, undelivered
    <3>1. A[a] = IF deferral THEN (IF a \in undelivered THEN [z EXCEPT !.st = "queued"] ELSE z)
                 ELSE IF a \in B THEN failed(z, a) ELSE z
      BY <2>1 DEF SetState
    <3> QED BY <1>1, <3>1
  <2>6. p = IF x.st # "cancelled" THEN Drop(x.prefix, Range(transcript)) ELSE x.prefix
    OBVIOUS
  <2> DEFINE y == act'[a]
             c == Settle(z.completed, "error")
             s == Settle(z.delivered, "rejected")
  <2>7. y = IF deferral THEN (IF x.st # "cancelled" /\ ~d THEN [z EXCEPT !.st = "queued"] ELSE z)
            ELSE IF x.st # "cancelled"
                 THEN [z EXCEPT !.st = "failed", !.completed = c,
                         !.delivered = IF x.st # "cancelled" /\ ~d THEN s ELSE z.delivered]
                 ELSE z
    <3> HIDE DEF stripped, B, undelivered
    <3> QED BY <2>3, <2>4, <2>5
  <2> HIDE DEF x, y, z, p, d, c, s, B, undelivered, stripped
  <2>8. /\ z.st = x.st /\ z.next = << >> /\ z.prefix = p /\ z.durable = d
        /\ z.started = x.started /\ z.captured = x.captured /\ z.vis = x.vis
        /\ z.delivered = x.delivered
    BY <2>1, <2>2 DEF Actions
  <2>9. z = [z EXCEPT !.st = z.st] /\ DOMAIN z = DOMAIN x /\
        DOMAIN x = {"st", "lane", "vis", "started", "durable", "prefix", "next", "captured",
                    "delivered", "completed"}
    BY <2>1, <2>2 DEF Actions
  <2>10. s = Settle(x.delivered, "rejected")
    BY <2>8 DEF s
  <2>11. /\ y.durable = d /\ y.started = x.started /\ y.captured = x.captured /\ y.vis = x.vis
         /\ y.next = << >> /\ y.prefix = p
         /\ x.st = "cancelled" => y.st = "cancelled" /\ y.delivered = x.delivered
         /\ x.st # "cancelled" =>
              /\ y.st = (IF ~deferral THEN "failed" ELSE IF d THEN x.st ELSE "queued")
              /\ y.delivered = (IF deferral \/ d THEN x.delivered ELSE s)
    <3>1. CASE deferral /\ x.st # "cancelled" /\ ~d
      BY <2>7, <2>8, <2>9, <3>1
    <3>2. CASE ~deferral /\ x.st # "cancelled"
      BY <2>7, <2>8, <2>9, <3>2
    <3>3. CASE x.st = "cancelled" \/ (deferral /\ d)
      BY <2>7, <2>8, <3>3
    <3> QED BY <2>1, <3>1, <3>2, <3>3
  <2> QED BY <2>6, <2>10, <2>11 DEF x, y, d
<1>5. pump' = (IF Deferred THEN NoPump ELSE Loop(act'))
  <2> HIDE DEF A
  <2> QED BY <1>1
<1>6. pump'.pc \in {"off", "idle"} /\ pump'.batch = << >> /\ pump'.turns = << >>
  BY <1>5, EmptyHanded
<1> QED BY <1>3, <1>4, <1>5, <1>6, SMTT(30)

(* The agent runs for the pump's dispatch only. *)
LEMMA AgentDrivenStep ==
  ASSUME StoreInv, AgentDriven, [Next]_vars
  PROVE  AgentDriven'
<1>0. /\ pump \in Pumps /\ pump.turns \in Seq(Acts) /\ AgentGood /\ agent.todo \in Seq(Sent)
  BY StoreFacts DEF Pumps, AgentGood
<1>1. CASE Clients \/ Outside \/ Pauses \/ UNCHANGED vars
  BY <1>1, CalmSteps, RetryRests DEF AgentDriven
<1>2. ASSUME ~agent.on, retry' = "no", UNCHANGED agent, pump'.pc # "running",
             pump'.pc \in {"off", "idle", "select"} => pump'.batch = << >>,
             pump'.pc \in {"command", "executing"} => Range(pump'.batch) = {pump'.batch[1]}
      PROVE  AgentDriven'
  BY <1>2 DEF AgentDriven, Range
<1>3. CASE StartPump
  <2>1. /\ pump.pc = "off" /\ retry' = retry /\ UNCHANGED agent
        /\ \/ pump' = NoPump \/ pump' = [NoPump EXCEPT !.pc = "idle", !.epoch = Head(sch.queue)]
    BY <1>3 DEF StartPump, pumpRest
  <2>2. pump'.batch = << >> /\ pump'.pc \in {"off", "idle"}
    <3>1. CASE pump' = NoPump
      BY <3>1, EmptyHanded
    <3>2. CASE pump' = [NoPump EXCEPT !.pc = "idle", !.epoch = Head(sch.queue)]
      BY <3>2, Woken
    <3> QED BY <2>1, <3>1, <3>2
  <2> QED BY <1>2, <2>1, <2>2 DEF AgentDriven
<1>4. CASE AgentIdle
  <2>1. /\ pump.pc = "idle" /\ ~agent.on /\ retry' = retry /\ UNCHANGED agent
        /\ \/ pump' = NoPump
           \/ \E x : pump' = [pump EXCEPT !.pc = "select", !.pre = x]
    BY <1>4 DEF AgentIdle, Active, pumpRest
  <2>2. pump.batch = << >> /\ retry = "no"
    BY <2>1 DEF AgentDriven
  <2>3. pump'.batch = << >> /\ pump'.pc \in {"off", "select"}
    BY <1>0, <2>1, <2>2, EmptyHanded DEF Pumps
  <2> QED BY <1>2, <2>1, <2>2, <2>3
<1>5. CASE SelectInput
  <2>1. /\ pump.pc = "select" /\ retry' = retry /\ UNCHANGED agent
        /\ \/ pump' = NoPump
           \/ \E x : pump' = [pump EXCEPT !.pc = "command", !.batch = <<x>>]
           \/ \E x : pump' = [pump EXCEPT !.pc = "validate", !.batch = x]
    BY <1>5 DEF SelectInput, pumpRest
  <2>2. ~agent.on /\ retry = "no"
    BY <2>1 DEF AgentDriven
  <2>3. CASE pump' = NoPump
    BY <1>2, <2>1, <2>2, <2>3, EmptyHanded
  <2>4. ASSUME NEW x, pump' = [pump EXCEPT !.pc = "command", !.batch = <<x>>]
        PROVE  AgentDriven'
    <3>1. pump'.pc = "command" /\ pump'.batch = <<x>>
      BY <1>0, <2>4 DEF Pumps
    <3>2. Range(<<x>>) = {x} /\ <<x>>[1] = x
      BY DEF Range
    <3> QED BY <1>2, <2>1, <2>2, <3>1, <3>2
  <2>5. ASSUME NEW x, pump' = [pump EXCEPT !.pc = "validate", !.batch = x]
        PROVE  AgentDriven'
    BY <1>0, <1>2, <2>1, <2>2, <2>5 DEF Pumps
  <2> QED BY <2>1, <2>3, <2>4, <2>5
<1>6. CASE StartCommand
  <2>1. /\ pump.pc = "command" /\ retry' = retry /\ UNCHANGED agent
        /\ pump' = NoPump \/ pump' = [pump EXCEPT !.pc = "executing"]
    BY <1>6 DEF StartCommand, pumpRest
  <2>2. ~agent.on /\ retry = "no" /\ Range(pump.batch) = {pump.batch[1]}
    BY <2>1 DEF AgentDriven
  <2>3. CASE pump' = NoPump
    BY <1>2, <2>1, <2>2, <2>3, EmptyHanded
  <2>4. CASE pump' = [pump EXCEPT !.pc = "executing"]
    BY <1>0, <1>2, <2>1, <2>2, <2>4 DEF Pumps
  <2> QED BY <2>1, <2>3, <2>4
<1>7. CASE EndCommand
  BY <1>2, <1>7, CommandEnds, EmptyHanded DEF EndCommand, AgentDriven, pumpRest
<1>8. ASSUME NEW d \in BOOLEAN, Throw(d), ~agent.on, retry' = "no", UNCHANGED agent,
             pump.pc \in {"validate", "extensions", "commit", "running"}
      PROVE  AgentDriven'
  BY <1>2, <1>8, ThrowActs
<1>9. CASE Validate
  <2>1. pump.pc = "validate" /\ retry' = retry /\ UNCHANGED agent
    BY <1>9 DEF Validate, pumpRest
  <2>2. ~agent.on /\ retry = "no"
    BY <2>1 DEF AgentDriven
  <2>3. Throw(Deferred) \/ \E n : pump' = [pump EXCEPT !.pc = "extensions", !.notes = n]
    BY <1>9 DEF Validate, Fail
  <2>4. ASSUME NEW n, pump' = [pump EXCEPT !.pc = "extensions", !.notes = n]
        PROVE  AgentDriven'
    BY <1>0, <1>2, <2>1, <2>2, <2>4 DEF Pumps
  <2> QED BY <1>8, <2>1, <2>2, <2>3, <2>4, DeferralType
<1>10. CASE Prepare
  <2>1. pump.pc = "extensions" /\ retry' = retry /\ UNCHANGED agent
    BY <1>10 DEF Prepare, pumpRest
  <2>2. ~agent.on /\ retry = "no"
    BY <2>1 DEF AgentDriven
  <2>3. \/ Throw(Deferred) \/ pump' = Loop(act)
        \/ pump' = [pump EXCEPT !.pc = "commit", !.turns = ActiveTurns]
    BY <1>10 DEF Prepare, Fail
  <2>4. CASE pump' = Loop(act)
    BY <1>2, <2>1, <2>2, <2>4, EmptyHanded
  <2>5. CASE pump' = [pump EXCEPT !.pc = "commit", !.turns = ActiveTurns]
    BY <1>0, <1>2, <2>1, <2>2, <2>5 DEF Pumps
  <2> QED BY <1>8, <2>1, <2>2, <2>3, <2>4, <2>5, DeferralType
<1>11. CASE Commit
  BY <1>8, <1>11, CommitSplits DEF Commit, AgentDriven, Dispatched, pumpRest
<1>12. CASE RunSettled
  BY <1>2, <1>8, <1>12, EmptyHanded, DeferralType DEF RunSettled, Fail, Active, pumpRest
<1>13. CASE MessageStart
  BY <1>0, <1>13 DEF MessageStart, runRest, AgentGood, AgentDriven
<1>14. CASE MessageEnd
  BY <1>0, <1>14, RangeFacts DEF MessageEnd, runRest, AgentGood, AgentDriven
<1>15. CASE AgentEnd \/ RetryRun \/ RetryEnd
  BY <1>15 DEF AgentEnd, RetryRun, RetryEnd, runRest, NoRun, Range, AgentDriven
<1>16. CASE ProcessEvent
  BY <1>16 DEF ProcessEvent, AgentDriven
<1> QED BY <1>1, <1>3, <1>4, <1>5, <1>6, <1>7, <1>9, <1>10, <1>11, <1>12, <1>13, <1>14,
           <1>15, <1>16 DEF Next, Pump, Run

Early == {"new", "queued", "selected", "preparing"}
InHand == {"preparing", "committing", "running"}

(* Steps that leave the agent's run to itself. *)
LEMMA CalmDriven ==
  ASSUME StoreInv, DrivenInv, Clients \/ Outside \/ Pauses \/ UNCHANGED vars
  PROVE  Undelivered' /\ AllDelivered' /\ Driven'
<1>1. /\ UNCHANGED <<pump, agent, evFailed>> /\ Range(transcript') \subseteq Range(transcript)
      /\ \A a \in Acts : Calm(a)
  BY CalmSteps
<1>2. Undelivered /\ AllDelivered /\ Driven
  BY DEF DrivenInv
<1>3. ASSUME NEW a \in Acts
      PROVE  \/ /\ act'[a].st = act[a].st /\ act'[a].durable = act[a].durable
             \/ act[a].st = "new" /\ act'[a].st \in {"queued", "selected"} /\ ~act'[a].durable
             \/ act'[a].st = "cancelled"
  BY <1>1, CancelledFacts DEF Calm, Relaned, Retracted, Fresh
<1>4. Driven'
  BY <1>1, <1>2, <1>3 DEF Driven
<1>5. Undelivered'
  BY <1>1, <1>2, <1>3 DEF Undelivered, Early, Delivered, Primary
<1>6. AllDelivered'
  <2>1. ~evFailed'
    BY <1>1, <1>2 DEF AllDelivered
  <2>2. ASSUME pump.pc = "running", NEW a \in Range(pump.turns)
        PROVE  act'[a].st = "cancelled" \/ act'[a].durable \/ Primary(a) \in Range(agent.todo)
    <3>1. act[a].st \in {"committing", "running", "cancelled"}
      BY <2>2, StoreFacts DEF BatchStates
    <3>2. a \in Acts
      BY StoreFacts, RangeFacts DEF Pumps
    <3>3. act[a].st = "cancelled" \/ act[a].durable \/ Primary(a) \in Range(agent.todo)
      BY <1>2, <2>2 DEF AllDelivered
    <3> QED BY <1>3, <3>1, <3>2, <3>3
  <2> QED BY <1>1, <2>1, <2>2 DEF AllDelivered, Primary
<1> QED BY <1>4, <1>5, <1>6

(* A throw of turns that no one has seen: they are queued again or fail. *)
LEMMA ThrowUnseen ==
  ASSUME StoreInv, DrivenInv, pump.pc \in {"validate", "extensions", "commit"},
         NEW deferral \in BOOLEAN, Throw(deferral), UNCHANGED <<transcript, evFailed>>
  PROVE  Undelivered' /\ AllDelivered' /\ Driven'
<1>1. Undelivered /\ AllDelivered /\ Driven
  BY DEF DrivenInv
<1>2. /\ pump'.pc \in {"off", "idle"}
      /\ \A a \in Acts : a \notin Range(pump.batch) => act'[a] = act[a]
      /\ \A a \in Range(pump.batch) :
           /\ act'[a].durable = Delivered(a)
           /\ act[a].st = "cancelled" => act'[a].st = "cancelled"
           /\ act[a].st # "cancelled" =>
                act'[a].st = (IF ~deferral THEN "failed"
                              ELSE IF Delivered(a) THEN act[a].st ELSE "queued")
  BY ThrowActs
<1>3. \A a \in Range(pump.batch) : a \in Acts /\ act[a].st \in {"preparing", "cancelled"}
  BY StoreFacts DEF BatchStates, Acts
<1>4. ASSUME NEW a \in Acts
      PROVE  \/ a \notin Range(pump.batch) /\ act'[a] = act[a]
             \/ act'[a].st \in {"cancelled", "failed"}
             \/ act'[a].st = "queued" /\ ~Delivered(a) /\ ~act'[a].durable
  <2>1. CASE a \in Range(pump.batch) /\ act[a].st = "preparing"
    BY <1>1, <1>2, <2>1 DEF Undelivered
  <2> QED BY <1>2, <1>3, <2>1
<1>5. Driven'
  BY <1>1, <1>4 DEF Driven
<1>6. Undelivered'
  BY <1>1, <1>4 DEF Undelivered, Early, Delivered, Primary
<1>7. AllDelivered'
  BY <1>1, <1>2 DEF AllDelivered
<1> QED BY <1>5, <1>6, <1>7

(* A pump that takes actions to itself, or gives back those it has taken. *)
LEMMA TakenDriven ==
  ASSUME StoreInv, DrivenInv, UNCHANGED <<transcript, evFailed>>, pump'.pc # "running",
         \A a \in Acts : act'[a].st \in InHand => a \in Range(pump'.batch),
         \A a \in Acts : act'[a].st \in Early => act[a].st \in Early,
         \A a \in Acts : act'[a].durable = act[a].durable
  PROVE  Undelivered' /\ AllDelivered' /\ Driven'
<1>1. Undelivered /\ AllDelivered
  BY DEF DrivenInv
<1>2. Driven'
  BY DEF Driven, InHand
<1>3. Undelivered'
  BY <1>1 DEF Undelivered, Early, Delivered, Primary
<1> QED BY <1>1, <1>2, <1>3 DEF AllDelivered

(* The pump's steps up to a dispatch, when no run and no event fails. *)
LEMMA PumpDriven ==
  ASSUME StoreInv, DrivenInv,
         StartPump \/ AgentIdle \/ SelectInput \/ StartCommand \/ EndCommand
           \/ Validate \/ Prepare
  PROVE  Undelivered' /\ AllDelivered' /\ Driven'
<1>0. /\ pump \in Pumps /\ act \in [Acts -> Actions] /\ BatchStates
      /\ Undelivered /\ AllDelivered /\ Driven /\ AgentDriven
  BY StoreFacts DEF DrivenInv
<1>1. ASSUME pump.batch = << >> PROVE \A a \in Acts : act[a].st \notin InHand
  BY <1>0, <1>1 DEF Range, Driven, InHand
<1>2. CASE StartPump
  BY <1>0, <1>1, <1>2, EmptyHanded, Woken, TakenDriven DEF StartPump, storeVars, AgentDriven
<1>3. CASE AgentIdle
  <2>1. /\ pump.pc = "idle" /\ UNCHANGED <<transcript, evFailed>>
        /\ \/ pump' = NoPump /\ \E S \in SUBSET Acts : /\ act' = SetState(act, S, "queued")
                                                       /\ \A a \in S : act[a].st = "selected"
           \/ UNCHANGED act /\ \E x : pump' = [pump EXCEPT !.pc = "select", !.pre = x]
    <3>1. \A a \in Acts : Preselected # << >> /\ a = Preselected[1] => act[a].st = "selected"
      BY InStateFacts DEF Preselected
    <3> DEFINE S == {a \in Acts : Preselected # <<>> /\ a = Preselected[1]}
    <3>2. S \in SUBSET Acts /\ \A a \in S : act[a].st = "selected"
      BY <3>1
    <3>3. \/ pump' = NoPump /\ act' = SetState(act, S, "queued")
          \/ UNCHANGED act /\ \E x : pump' = [pump EXCEPT !.pc = "select", !.pre = x]
      BY <1>3 DEF AgentIdle
    <3>4. pump.pc = "idle" /\ UNCHANGED <<transcript, evFailed>>
      BY <1>3 DEF AgentIdle
    <3> HIDE DEF S
    <3> QED BY <3>2, <3>3, <3>4
  <2>2. \A a \in Acts : act[a].st \notin InHand
    BY <1>0, <1>1, <2>1 DEF AgentDriven
  <2>3. ASSUME pump' = NoPump, NEW S \in SUBSET Acts, act' = SetState(act, S, "queued"),
               \A a \in S : act[a].st = "selected"
        PROVE  Undelivered' /\ AllDelivered' /\ Driven'
    <3>1. "queued" \in States
      BY DEF States
    <3>2. /\ \A a \in Acts : a \notin S => act'[a] = act[a]
          /\ \A a \in S : act'[a].st = "queued" /\ act'[a].durable = act[a].durable
      BY <1>0, <2>3, <3>1, StateSet
    <3>3. \A a \in Acts : /\ act'[a].st \notin InHand /\ act'[a].durable = act[a].durable
                          /\ act'[a].st \in Early => act[a].st \in Early
      BY <2>2, <2>3, <3>2 DEF InHand, Early
    <3> QED BY <2>1, <2>3, <3>3, EmptyHanded, TakenDriven
  <2>4. ASSUME UNCHANGED act, NEW x, pump' = [pump EXCEPT !.pc = "select", !.pre = x]
        PROVE  Undelivered' /\ AllDelivered' /\ Driven'
    BY <1>0, <2>1, <2>2, <2>4, TakenDriven DEF Pumps
  <2> QED BY <2>1, <2>3, <2>4
<1>4. CASE SelectInput
  <2> DEFINE queued == InState({"queued"})
             first == IF pump.pre # None THEN pump.pre ELSE queued[1]
  <2>1. pump.pc = "select" /\ UNCHANGED <<transcript, evFailed>>
    BY <1>4 DEF SelectInput
  <2>2. \A a \in Acts : act[a].st \notin InHand
    BY <1>0, <1>1, <2>1 DEF AgentDriven
  <2>3. \/ pump' = NoPump /\ UNCHANGED act
        \/ /\ (pump.pre # None \/ queued # << >>) /\ first \in Commands
           /\ act' = IF pump.pre = None THEN SetState(act, {first}, "selected") ELSE act
           /\ pump' = [pump EXCEPT !.pc = "command", !.batch = <<first>>]
        \/ /\ pump.pre # None \/ queued # << >>
           /\ first \in Turns /\ act[first].st # "cancelled"
           /\ act' = SetState(act, Range(Batch(first)), "preparing")
           /\ pump' = [pump EXCEPT !.pc = "validate", !.batch = Batch(first)]
    BY <1>4 DEF SelectInput
  <2>4. CASE pump' = NoPump /\ UNCHANGED act
    BY <2>1, <2>2, <2>4, EmptyHanded, TakenDriven
  <2>5. queued # << >> => queued[1] \in Acts /\ act[queued[1]].st = "queued"
    BY InStateFacts
  <2>6. /\ pump.pre = None /\ queued # << >> => act[first].st = "queued"
        /\ pump.pre # None => act[first].st \in {"selected", "cancelled"}
    <3> HIDE DEF queued
    <3> QED BY <1>0, <2>1, <2>5 DEF BatchStates
  <2> HIDE DEF queued, first
  <2>7. CASE /\ (pump.pre # None \/ queued # << >>) /\ first \in Commands
             /\ act' = IF pump.pre = None THEN SetState(act, {first}, "selected") ELSE act
             /\ pump' = [pump EXCEPT !.pc = "command", !.batch = <<first>>]
    <3>1. pump'.pc = "command"
      BY <1>0, <2>7 DEF Pumps
    <3>2. "selected" \in States
      BY DEF States
    <3>3. /\ \A a \in Acts : a # first \/ pump.pre # None => act'[a] = act[a]
          /\ pump.pre = None => /\ \A a \in Acts \cap {first} : act'[a].st = "selected"
                                /\ \A a \in Acts \cap {first} : act'[a].durable = act[a].durable
      BY <1>0, <2>7, <3>2, StateSet
    <3>4. \A a \in Acts : /\ act'[a].st \notin InHand /\ act'[a].durable = act[a].durable
                          /\ act'[a].st \in Early => act[a].st \in Early
      <4> SUFFICES ASSUME NEW a \in Acts
                   PROVE  /\ act'[a].st \notin InHand /\ act'[a].durable = act[a].durable
                          /\ act'[a].st \in Early => act[a].st \in Early
        OBVIOUS
      <4>1. CASE a # first \/ pump.pre # None
        BY <2>2, <3>3, <4>1
      <4>2. CASE a = first /\ pump.pre = None
        BY <2>6, <2>7, <3>3, <4>2 DEF InHand, Early
      <4> QED BY <4>1, <4>2
    <3> QED BY <2>1, <3>1, <3>4, TakenDriven
  <2>8. CASE /\ pump.pre # None \/ queued # << >>
             /\ first \in Turns /\ act[first].st # "cancelled"
             /\ act' = SetState(act, Range(Batch(first)), "preparing")
             /\ pump' = [pump EXCEPT !.pc = "validate", !.batch = Batch(first)]
    <3>1. first \in Acts /\ act[first].st \in {"selected", "queued"}
          /\ (pump.pre = None => act[first].st = "queued")
      BY <2>6, <2>8 DEF Acts
    <3>2. /\ Batch(first) \in Seq(Acts)
          /\ \A a \in Range(Batch(first)) : a = first \/ (a \in Turns /\ act[a].st = "queued")
      BY <3>1, BatchFacts
    <3>3. pump'.pc = "validate" /\ pump'.batch = Batch(first)
      BY <1>0, <2>8 DEF Pumps
    <3> DEFINE S == Range(Batch(first))
    <3>4. "preparing" \in States /\ act' = SetState(act, S, "preparing")
      BY <2>8 DEF States
    <3>5. \A a \in S : act[a].st \in {"selected", "queued"}
      BY <3>1, <3>2
    <3> HIDE DEF S
    <3>6. /\ \A a \in Acts : a \notin S => act'[a] = act[a]
          /\ \A a \in Acts \cap S : act'[a].st = "preparing" /\ act'[a].durable = act[a].durable
      BY <1>0, <3>4, StateSet
    <3>7. \A a \in Acts : /\ act'[a].st \in InHand => a \in S
                          /\ act'[a].durable = act[a].durable
                          /\ act'[a].st \in Early => act[a].st \in Early
      BY <2>2, <3>5, <3>6 DEF Early
    <3> QED BY <2>1, <3>3, <3>7, TakenDriven DEF S
  <2> QED BY <2>3, <2>4, <2>7, <2>8
<1>5. CASE StartCommand
  <2> DEFINE a == pump.batch[1]
  <2>1. pump.pc = "command" /\ UNCHANGED <<transcript, evFailed>>
    BY <1>5 DEF StartCommand
  <2>2. /\ a \in Acts /\ act[a].st \in {"selected", "cancelled"} /\ Range(pump.batch) = {a}
    BY <1>0, <2>1 DEF BatchStates, AgentDriven, Acts
  <2>3. \A b \in Acts : act[b].st \notin InHand
    BY <1>0, <2>2 DEF Driven, InHand
  <2>4. \/ pump' = NoPump /\ UNCHANGED act
        \/ pump' = NoPump /\ act' = SetState(act, {a}, "queued") /\ act[a].st # "cancelled"
        \/ /\ act[a].st # "cancelled" /\ pump' = [pump EXCEPT !.pc = "executing"]
           /\ act' = [act EXCEPT ![a] = [act[a] EXCEPT !.st = "running",
                                            !.delivered = Settle(act[a].delivered, "not_applicable")]]
    BY <1>5 DEF StartCommand
  <2> HIDE DEF a
  <2>5. CASE pump' = NoPump /\ UNCHANGED act
    BY <2>1, <2>3, <2>5, EmptyHanded, TakenDriven
  <2>6. CASE pump' = NoPump /\ act' = SetState(act, {a}, "queued") /\ act[a].st # "cancelled"
    <3>1. "queued" \in States
      BY DEF States
    <3>2. /\ \A b \in Acts : b # a => act'[b] = act[b]
          /\ \A b \in Acts \cap {a} : act'[b].st = "queued" /\ act'[b].durable = act[b].durable
      BY <1>0, <2>6, <3>1, StateSet
    <3>3. \A b \in Acts : /\ act'[b].st \notin InHand /\ act'[b].durable = act[b].durable
                          /\ act'[b].st \in Early => act[b].st \in Early
      BY <2>2, <2>3, <2>6, <3>2 DEF InHand, Early
    <3> QED BY <2>1, <2>6, <3>3, EmptyHanded, TakenDriven
  <2>7. CASE /\ act[a].st # "cancelled" /\ pump' = [pump EXCEPT !.pc = "executing"]
             /\ act' = [act EXCEPT ![a] = [act[a] EXCEPT !.st = "running",
                                              !.delivered = Settle(act[a].delivered, "not_applicable")]]
    <3>1. pump'.pc = "executing" /\ pump'.batch = pump.batch
      BY <1>0, <2>7 DEF Pumps
    <3>2. \A b \in Acts : b # a => act'[b] = act[b]
      BY <1>0, <2>7
    <3>3. act'[a].st = "running" /\ act'[a].durable = act[a].durable
      <4> DEFINE d == Settle(act[a].delivered, "not_applicable")
      <4> HIDE DEF d
      <4>1. act'[a] = [act[a] EXCEPT !.st = "running", !.delivered = d] /\ act[a] \in Actions
        BY <1>0, <2>2, <2>7 DEF d
      <4> QED BY <4>1 DEF Actions
    <3>4. \A b \in Acts : /\ act'[b].st \in InHand => b = a
                          /\ act'[b].durable = act[b].durable
                          /\ act'[b].st \in Early => act[b].st \in Early
      BY <2>3, <3>2, <3>3 DEF Early
    <3> QED BY <2>1, <2>2, <3>1, <3>4, TakenDriven
  <2> QED BY <2>4, <2>5, <2>6, <2>7
<1>6. CASE EndCommand
  <2> DEFINE a == pump.batch[1]
  <2>1. pump' = NoPump /\ UNCHANGED <<transcript, evFailed>>
    BY <1>6 DEF EndCommand
  <2>2. a \in Acts /\ Range(pump.batch) = {a}
    BY <1>0, <1>6, CommandEnds DEF AgentDriven
  <2>3. \A b \in Acts : act[b].st \in InHand => b = a
    BY <1>0, <2>2 DEF Driven, InHand
  <2>5. \A b \in Acts : b # a => act'[b] = act[b]
    BY <1>6, CommandEnds
  <2>6. act'[a].st \in {"completed", "failed"} /\ act'[a].durable = act[a].durable
    BY <1>6, CommandEnds
  <2> HIDE DEF a
  <2>7. \A b \in Acts : /\ act'[b].st \notin InHand /\ act'[b].durable = act[b].durable
                        /\ act'[b].st \in Early => act[b].st \in Early
    BY <2>3, <2>5, <2>6 DEF InHand, Early
  <2> QED BY <2>1, <2>7, EmptyHanded, TakenDriven
<1>7. CASE Validate
  <2>1. pump.pc = "validate" /\ UNCHANGED <<transcript, evFailed>>
    BY <1>7 DEF Validate
  <2>2. \/ Throw(Deferred)
        \/ UNCHANGED act /\ \E n : pump' = [pump EXCEPT !.pc = "extensions", !.notes = n]
    BY <1>7 DEF Validate, Fail
  <2>3. ASSUME UNCHANGED act, NEW n, pump' = [pump EXCEPT !.pc = "extensions", !.notes = n]
        PROVE  Undelivered' /\ AllDelivered' /\ Driven'
    BY <1>0, <2>1, <2>3, TakenDriven DEF Pumps, Driven, InHand
  <2> QED BY <2>1, <2>2, <2>3, DeferralType, ThrowUnseen
<1>8. CASE Prepare
  <2>1. pump.pc = "extensions" /\ UNCHANGED <<transcript, evFailed>>
    BY <1>8 DEF Prepare
  <2>2. \/ Throw(Deferred)
        \/ UNCHANGED act /\ ActiveTurns = << >> /\ pump' = Loop(act)
        \/ UNCHANGED act /\ pump' = [pump EXCEPT !.pc = "commit", !.turns = ActiveTurns]
    BY <1>8 DEF Prepare, Fail
  <2>3. CASE UNCHANGED act /\ ActiveTurns = << >> /\ pump' = Loop(act)
    <3>1. Range(ActiveTurns) = Range(pump.batch) \cap {a \in Acts : act[a].st = "preparing"}
      BY <1>0, KeepFacts DEF Pumps, ActiveTurns
    <3>2. Range(ActiveTurns) = {}
      BY <2>3 DEF Range
    <3>3. \A a \in Range(pump.batch) : act[a].st \in {"preparing", "cancelled"} /\ a \in Acts
      BY <1>0, <2>1 DEF BatchStates, Acts
    <3>4. \A a \in Range(pump.batch) : act[a].st = "cancelled"
      BY <3>1, <3>2, <3>3
    <3>5. \A a \in Acts : act[a].st \notin InHand
      BY <1>0, <3>4 DEF Driven, InHand
    <3> QED BY <2>1, <2>3, <3>5, EmptyHanded, TakenDriven
  <2>4. CASE UNCHANGED act /\ pump' = [pump EXCEPT !.pc = "commit", !.turns = ActiveTurns]
    BY <1>0, <2>1, <2>4, TakenDriven DEF Pumps, Driven, InHand
  <2> QED BY <2>1, <2>2, <2>3, <2>4, DeferralType, ThrowUnseen
<1> QED BY <1>2, <1>3, <1>4, <1>5, <1>6, <1>7, <1>8

(* The steps of a run, and of its beginning and its end, when none fails. *)
LEMMA RunDriven ==
  ASSUME StoreInv, DrivenInv, Ops \cap {"run_fails", "event_fails"} = {},
         Commit \/ RunSettled \/ Run
  PROVE  Undelivered' /\ AllDelivered' /\ Driven'
<1>0. /\ pump \in Pumps /\ act \in [Acts -> Actions] /\ BatchStates /\ AgentGood
      /\ Undelivered /\ AllDelivered /\ Driven /\ AgentDriven
  BY StoreFacts DEF DrivenInv
<1>1. pump.turns \in Seq(Acts) /\ Range(pump.turns) \subseteq Acts
  BY <1>0, RangeFacts DEF Pumps
<1>2. CASE Commit
  <2>1. pump.pc = "commit" /\ UNCHANGED <<transcript, evFailed>>
    BY <1>2 DEF Commit
  <2>2. CASE Dispatched
    <3>1. Driven'
      BY <1>0, <2>1, <2>2 DEF BatchStates, Dispatched, Driven
    <3>2. Undelivered'
      BY <1>0, <2>1, <2>2 DEF Undelivered, Early, Dispatched, Delivered, Primary
    <3>3. AllDelivered'
      BY <1>0, <1>1, <2>1, <2>2 DEF Dispatched, AllDelivered, Primary
    <3> QED BY <3>1, <3>2, <3>3
  <2> QED BY <1>2, <2>1, <2>2, CommitSplits, ThrowUnseen
<1>3. CASE RunSettled
  <2> DEFINE missing == \E a \in Range(pump.turns) : act[a].st # "cancelled" /\ ~Delivered(a)
             A == [a \in Acts |->
                     IF a \in Range(pump.batch) /\ act[a].st \in {"committing", "running"}
                     THEN [act[a] EXCEPT !.st = "completed", !.completed = Settle(@, "ok")]
                     ELSE act[a]]
  <2>1. pump.pc = "running" /\ ~agent.on /\ UNCHANGED <<transcript, evFailed>>
    BY <1>3 DEF RunSettled, Active
  <2>2. ~missing /\ ~Rejected
    <3>1. Range(agent.todo) = {}
      BY <1>0, <2>1 DEF AgentDriven, Range
    <3> QED BY <1>0, <2>1, <3>1 DEF AllDelivered, Delivered, Rejected
  <2>3. act' = A /\ (pump' = NoPump \/ pump' = Loop(A))
    <3> HIDE DEF missing
    <3>1. IF missing \/ Rejected THEN Fail
          ELSE act' = A /\ pump' = IF pump.epoch # sch.epoch THEN NoPump ELSE Loop(A)
      BY <1>3 DEF RunSettled, missing
    <3> HIDE DEF A
    <3> QED BY <2>2, <3>1
  <2>4. pump'.pc # "running"
    <3> HIDE DEF A
    <3> QED BY <2>3, EmptyHanded
  <2>5. ASSUME NEW a \in Acts
        PROVE  /\ act'[a].st \notin InHand /\ act'[a].durable = act[a].durable
               /\ act'[a].st \in Early => act[a].st \in Early
    <3>1. CASE a \in Range(pump.batch) /\ act[a].st \in {"committing", "running"}
      <4> DEFINE c == Settle(act[a].completed, "ok")
      <4>1. act'[a] = [act[a] EXCEPT !.st = "completed", !.completed = c] /\ act[a] \in Actions
        BY <1>0, <2>3, <3>1
      <4> HIDE DEF c
      <4>2. act'[a].st = "completed" /\ act'[a].durable = act[a].durable
        BY <4>1 DEF Actions
      <4> QED BY <4>2 DEF InHand, Early
    <3>2. CASE ~(a \in Range(pump.batch) /\ act[a].st \in {"committing", "running"})
      BY <1>0, <2>1, <2>3, <3>2 DEF Driven, BatchStates, InHand
    <3> QED BY <3>1, <3>2
  <2> QED BY <2>1, <2>4, <2>5, TakenDriven
<1>4. CASE MessageStart
  <2>1. /\ UNCHANGED <<pump, transcript, evFailed>> /\ agent' = [agent EXCEPT !.mid = TRUE]
        /\ act' = [a \in Acts |-> IF Head(agent.todo) = Primary(a)
              THEN [act[a] EXCEPT !.started = TRUE, !.delivered = Settle(@, "delivered")]
              ELSE act[a]]
    BY <1>4 DEF MessageStart, runRest
  <2>2. agent'.todo = agent.todo
    BY <1>0, <2>1 DEF AgentGood
  <2>3. ASSUME NEW a \in Acts PROVE act'[a].st = act[a].st /\ act'[a].durable = act[a].durable
    <3> DEFINE d == Settle(act[a].delivered, "delivered")
    <3>1. act'[a] = act[a] \/ act'[a] = [act[a] EXCEPT !.started = TRUE, !.delivered = d]
      BY <2>1
    <3>2. act[a] \in Actions
      BY <1>0
    <3> HIDE DEF d
    <3> QED BY <3>1, <3>2 DEF Actions
  <2>4. Driven'
    BY <1>0, <2>1, <2>3 DEF Driven
  <2>5. Undelivered'
    BY <1>0, <2>1, <2>3 DEF Undelivered, Delivered, Primary
  <2>6. AllDelivered'
    BY <1>0, <1>1, <2>1, <2>2, <2>3 DEF AllDelivered, Primary
  <2> QED BY <2>4, <2>5, <2>6
<1>5. CASE MessageEnd
  <2> DEFINE m == Head(agent.todo)
  <2>1. /\ UNCHANGED <<pump, evFailed>> /\ agent.on /\ agent.mid
        /\ agent' = [agent EXCEPT !.mid = FALSE, !.todo = Tail(@)]
        /\ transcript' = Append(transcript, m)
        /\ act' = [a \in Acts |-> IF m = Primary(a)
                 THEN [act[a] EXCEPT !.durable = TRUE,
                         !.st = IF @ = "committing" THEN "running" ELSE @]
                 ELSE act[a]]
    BY <1>5 DEF MessageEnd, runRest
  <2>2. /\ agent'.todo = Tail(agent.todo) /\ agent.todo # << >> /\ agent.todo \in Seq(Sent)
        /\ pump.pc = "running"
    BY <1>0, <2>1 DEF AgentGood, AgentDriven
  <2>3. m \in Sent /\ transcript \in Seq(Sent) /\ m \in Range(agent.todo)
    BY <2>2, StoreFacts, RangeFacts
  <2>4. \A x \in Range(agent.todo) : x = m \/ x \in Range(agent'.todo)
    <3>1. agent.todo = <<Head(agent.todo)>> \o Tail(agent.todo) /\ Tail(agent.todo) \in Seq(Sent)
      BY <2>2
    <3>2. \A i \in 1 .. Len(agent.todo) : i = 1 \/ agent.todo[i] = Tail(agent.todo)[i - 1]
      BY <2>2
    <3>3. ASSUME NEW i \in 1 .. Len(agent.todo), i # 1
          PROVE  agent.todo[i] \in Range(Tail(agent.todo))
      <4>1. i - 1 \in 1 .. Len(Tail(agent.todo)) /\ DOMAIN Tail(agent.todo) = 1 .. Len(Tail(agent.todo))
        BY <2>2, <3>1, <3>3
      <4> QED BY <3>2, <3>3, <4>1 DEF Range
    <3>4. agent.todo[1] = m /\ DOMAIN agent.todo = 1 .. Len(agent.todo)
      BY <2>2
    <3> QED BY <2>2, <3>3, <3>4 DEF Range
  <2> HIDE DEF m
  <2>5. Range(transcript') = Range(transcript) \cup {m}
    BY <2>1, <2>3, RangeFacts
  <2>6. ASSUME NEW a \in Acts
        PROVE  /\ m # Primary(a) => act'[a] = act[a]
               /\ m = Primary(a) =>
                    /\ act'[a].durable
                    /\ act'[a].st = IF act[a].st = "committing" THEN "running" ELSE act[a].st
    <3> DEFINE s == IF act[a].st = "committing" THEN "running" ELSE act[a].st
    <3>1. act[a] \in Actions
      BY <1>0
    <3>2. /\ m # Primary(a) => act'[a] = act[a]
          /\ m = Primary(a) => act'[a] = [act[a] EXCEPT !.durable = TRUE, !.st = s]
      BY <2>1
    <3> HIDE DEF s
    <3>3. /\ m # Primary(a) => act'[a] = act[a]
          /\ m = Primary(a) => act'[a].durable /\ act'[a].st = s
      BY <3>1, <3>2 DEF Actions
    <3> QED BY <3>3 DEF s
  <2>7. ASSUME NEW a \in Acts, m = Primary(a)
        PROVE  act[a].st \in {"committing", "running", "cancelled"}
    BY <1>0, <2>2, <2>3, <2>7 DEF AgentDriven, BatchStates
  <2>8. Driven'
    <3>1. UNCHANGED pump
      BY <2>1
    <3>2. \A a \in Acts : act'[a].st \in InHand => act[a].st \in InHand
      BY <2>6 DEF InHand
    <3> QED BY <1>0, <3>1, <3>2 DEF Driven, InHand
  <2>9. Undelivered'
    BY <1>0, <2>5, <2>6, <2>7 DEF Undelivered, Early, Delivered, Primary
  <2>10. AllDelivered'
    <3>1. ASSUME NEW a \in Range(pump.turns)
          PROVE  act'[a].st = "cancelled" \/ act'[a].durable \/ Primary(a) \in Range(agent'.todo)
      BY <1>0, <1>1, <2>2, <2>4, <2>6 DEF AllDelivered
    <3> QED BY <1>0, <2>1, <3>1 DEF AllDelivered, Primary
  <2> QED BY <2>8, <2>9, <2>10
<1>6. CASE AgentEnd \/ RetryRun \/ RetryEnd
  <2>1. /\ agent.todo = << >> /\ UNCHANGED <<act, pump, evFailed>>
        /\ transcript' = Drop(transcript, Captured(act)) \/ UNCHANGED transcript
    BY <1>0, <1>6 DEF AgentEnd, RetryRun, RetryEnd, runRest, Op, AgentDriven
  <2>2. Range(transcript') \subseteq Range(transcript)
    BY <2>1, StoreFacts, DropFacts
  <2>3. Range(agent.todo) = {}
    BY <2>1 DEF Range
  <2>4. Driven'
    BY <1>0, <2>1 DEF Driven
  <2>5. Undelivered'
    BY <1>0, <2>1, <2>2 DEF Undelivered, Delivered, Primary
  <2>6. AllDelivered'
    BY <1>0, <2>1, <2>3 DEF AllDelivered, Primary
  <2> QED BY <2>4, <2>5, <2>6
<1>7. CASE ProcessEvent
  <2>1. /\ UNCHANGED <<pump, agent>> /\ ~evFailed'
        /\ transcript' = Drop(transcript, Captured(act))
        /\ \E S : act' = [a \in Acts |-> [act[a] EXCEPT !.captured = @ /\ a \notin S]]
    BY <1>7 DEF ProcessEvent, Op
  <2>2. Range(transcript') \subseteq Range(transcript)
    BY <2>1, StoreFacts, DropFacts
  <2>3. ASSUME NEW a \in Acts PROVE act'[a].st = act[a].st /\ act'[a].durable = act[a].durable
    BY <1>0, <2>1 DEF Actions
  <2>4. Driven'
    BY <1>0, <2>1, <2>3 DEF Driven
  <2>5. Undelivered'
    BY <1>0, <2>2, <2>3 DEF Undelivered, Delivered, Primary
  <2>6. AllDelivered'
    BY <1>0, <1>1, <2>1, <2>3 DEF AllDelivered, Primary
  <2> QED BY <2>4, <2>5, <2>6
<1> QED BY <1>2, <1>3, <1>4, <1>5, <1>6, <1>7 DEF Run

(* At the start nothing runs, nothing is delivered and nothing is in hand. *)
LEMMA DrivenInitial ==
  ASSUME Init
  PROVE  DrivenInv
<1>1. /\ agent = NoRun /\ pump = NoPump /\ act = [a \in Acts |-> NewAction]
      /\ transcript = << >> /\ ~evFailed /\ retry = "no"
  BY DEF Init
<1>2. Range(transcript) = {} /\ Range(agent.todo) = {} /\ ~agent.on /\ ~agent.mid /\ agent.todo = << >>
  BY <1>1 DEF NoRun, Range
<1>3. pump.pc = "off" /\ pump.batch = << >>
  BY <1>1 DEF NoPump
<1>4. \A a \in Acts : act[a].st = "new" /\ ~act[a].durable
  BY <1>1 DEF NewAction
<1> QED BY <1>1, <1>2, <1>3, <1>4
        DEF DrivenInv, AgentDriven, Undelivered, AllDelivered, Driven, Delivered

(* When no run of the agent fails before it has delivered its messages, and
   the processing of no event fails, an action that is being prepared,
   dispatched or run is always in the batch of the pump that runs. *)
THEOREM StaysDriven ==
  ASSUME Ops \cap {"run_fails", "event_fails"} = {}
  PROVE  Spec => []Driven
<1>1. Init => DrivenInv
  BY DrivenInitial
<1>2. SessionInv /\ DrivenInv /\ [Next]_vars => DrivenInv'
  BY AgentDrivenStep, CalmDriven, PumpDriven, RunDriven DEF SessionInv, DrivenInv, Next, Pump
<1>3. DrivenInv => Driven
  BY DEF DrivenInv
<1> QED BY <1>1, <1>2, <1>3, SessionInvariance, PTL DEF Spec

-----------------------------------------------------------------------------
(* What was refused stays out *)

(* A prompt of a submission that was not admitted is nowhere, and no message
   is the end of a run. *)
LEMMA NewUnseen ==
  ASSUME StoreInv, EventTypes, NEW a \in Acts
  PROVE  /\ Primary(a) # "agent_end"
         /\ act[a].st = "new" => ~Seen(a) /\ Primary(a) \notin Range(agent.todo)
<1>1. Primary(a) # "agent_end"
  BY SessionActionsAssumption DEF Primary
<1>2. ASSUME act[a].st = "new" PROVE ~Seen(a) /\ Primary(a) \notin Range(agent.todo)
  BY <1>1, <1>2, UnsentNew, StoreFacts, RangeFacts DEF AgentGood, EventTypes, Waits, Seen
<1> QED BY <1>1, <1>2

(* What a step of a client, of the pump or from outside makes of an action:
   it is admitted, it is carried on, it is refused before or after its run,
   or its dispatch is taken back while the agent may still deliver it. *)
Carried(a) ==
  /\ act'[a].started = act[a].started /\ act'[a].captured = act[a].captured
  /\ \/ act'[a].delivered = act[a].delivered
     \/ act[a].delivered = "pending" /\ act'[a].delivered \in {"delivered", "not_applicable"}
  /\ act[a].delivered = "rejected" \/ Primary(a) \in Range(agent.todo)
       => act'[a].st = act[a].st
  /\ act'[a].st = "new" => act[a].st = "new"
  /\ act[a].st = "cancelled" => act'[a].st = "cancelled"
SettledNow(a) ==
  /\ act'[a].delivered # "pending" /\ act[a].st \notin {"new", "cancelled"}
  /\ act[a].delivered = "pending" \/ act'[a].delivered = act[a].delivered
Refused(a) ==
  /\ SettledNow(a) /\ act'[a].st \in {"cancelled", "failed"}
  /\ act'[a].started = act[a].started /\ ~act[a].captured /\ ~act'[a].captured
  /\ Primary(a) \notin Range(agent.todo)
TakenBack(a) ==
  /\ SettledNow(a) /\ act'[a].st = "cancelled"
  /\ ~act[a].started /\ ~act'[a].started /\ act'[a].captured /\ a \in AgentMsgs
  /\ \A i \in 1 .. Len(evq) : evq[i] = "agent_end" => Primary(a) \notin Range(agent.todo)
Steady(a) ==
  (act[a].st = "new" /\ Fresh(act'[a])) \/ Carried(a) \/ Refused(a) \/ TakenBack(a)

(* Such steps keep what was refused out. *)
LEMMA SteadyRejects ==
  ASSUME StoreInv, RejectedInv, AgentDriven', NoEarlierEnd',
         UNCHANGED <<agent, evq, persisted>>, Range(transcript') \subseteq Range(transcript),
         \A a \in Acts : Steady(a)
  PROVE  RejectedInv'
<1>0. /\ EventTypes /\ BegunIsHeard /\ RefusedIsOut /\ CaptureEnds
      /\ NewAreFresh
  BY StoreFacts DEF RejectedInv, Shelves
<1>1. \A a \in Acts : act'[a].st = "new" => act[a].st = "new"
  BY DEF Steady, Fresh, Carried, Refused, TakenBack
<1>2. EventTypes'
  BY <1>0, <1>1, SentGrows, SeqMono DEF EventTypes
<1>3. \A a \in Acts : Seen(a)' => Seen(a)
  BY DEF Seen, Waits, Primary
<1>4. ASSUME NEW a \in Acts
      PROVE  /\ Seen(a)' => act'[a].started
             /\ act'[a].started => act'[a].delivered # "pending"
             /\ Primary(a) \in Range(agent.todo) =>
                  act'[a].st \in {"committing", "running"} \/ act'[a].captured
             /\ agent.mid => (Head(agent.todo) = Primary(a) => act'[a].started)
             /\ act'[a].delivered = "rejected" =>
                  /\ act'[a].st \in {"cancelled", "failed"}
                  /\ act'[a].captured \/ (~Seen(a)' /\ Primary(a) \notin Range(agent.todo))
             /\ act'[a].captured =>
                  /\ a \in AgentMsgs /\ Primary(a) \notin Range(persisted)
                  /\ \A i \in 1 .. Len(evq) : evq[i] = "agent_end" =>
                       /\ Primary(a) \notin Range(agent.todo)
                       /\ \A j \in i + 1 .. Len(evq) : Primary(a) # evq[j]
  <2>1. /\ Seen(a) => act[a].started
        /\ act[a].started => act[a].delivered # "pending"
        /\ Primary(a) \in Range(agent.todo) =>
             act[a].st \in {"committing", "running"} \/ act[a].captured
        /\ agent.mid => (Head(agent.todo) = Primary(a) => act[a].started)
    BY <1>0 DEF BegunIsHeard
  <2>2. act[a].delivered = "rejected" =>
          /\ act[a].st \in {"cancelled", "failed"}
          /\ act[a].captured \/ (~Seen(a) /\ Primary(a) \notin Range(agent.todo))
    BY <1>0 DEF RefusedIsOut
  <2>3. act[a].captured =>
          /\ a \in AgentMsgs /\ Primary(a) \notin Range(persisted)
          /\ \A i \in 1 .. Len(evq) : evq[i] = "agent_end" =>
               /\ Primary(a) \notin Range(agent.todo)
               /\ \A j \in i + 1 .. Len(evq) : Primary(a) # evq[j]
    BY <1>0 DEF CaptureEnds
  <2>4. Seen(a)' => Seen(a)
    BY <1>3
  <2>5. agent.mid => Head(agent.todo) \in Range(agent.todo)
    BY StoreFacts, RangeFacts DEF AgentGood
  <2>6. CASE act[a].st = "new" /\ Fresh(act'[a])
    BY <1>0, <2>4, <2>5, <2>6, NewUnseen DEF Fresh
  <2>7. CASE Carried(a)
    BY <2>1, <2>2, <2>3, <2>4, <2>7 DEF Carried
  <2>8. CASE Refused(a)
    BY <2>1, <2>2, <2>4, <2>5, <2>8 DEF Refused, SettledNow
  <2>9. CASE TakenBack(a)
    BY <1>0, <2>1, <2>4, <2>9 DEF TakenBack, Seen, Waits, EventTypes, SettledNow
  <2> QED BY <2>6, <2>7, <2>8, <2>9 DEF Steady
<1>5. BegunIsHeard'
  BY <1>4 DEF BegunIsHeard, Primary
<1>6. RefusedIsOut'
  BY <1>4 DEF RefusedIsOut, Primary
<1>7. CaptureEnds'
  BY <1>4 DEF CaptureEnds, Primary
<1> QED BY <1>2, <1>5, <1>6, <1>7 DEF RejectedInv

(* A cancellation keeps whether the agent has begun. *)
LEMMA CancelledStarted ==
  ASSUME StoreInv, NEW a \in Acts
  PROVE  /\ Cancelled(a).started = act[a].started
         /\ act[a].delivered # "pending" => Cancelled(a).delivered = act[a].delivered
<1> DEFINE x == act[a]
           refused == a \in Turns /\ (a \in AgentMsgs \/ ~x.vis \/ x.st # "queued")
           d == Settle(x.delivered, IF refused THEN "rejected" ELSE "not_applicable")
           c == Settle(x.completed, "error")
           b == x.st = "committing"
           y == Cancelled(a)
<1>1. x \in Actions
  BY StoreFacts
<1>2. y = [x EXCEPT !.st = "cancelled", !.delivered = d, !.completed = c, !.captured = b]
  BY DEF Cancelled
<1>3. x.delivered # "pending" => d = x.delivered
  BY DEF Settle
<1> HIDE DEF x, d, c, b, y
<1>4. y.started = x.started /\ y.delivered = d
  BY <1>1, <1>2 DEF Actions
<1> QED BY <1>3, <1>4 DEF x, y

(* What clears messages of agents: nothing, or only one agent writes. *)
OneAtATime == "clear_agent" \notin Ops \/ \A a, b \in AgentMsgs : a = b

(* Steps that leave the agent's run to itself keep what was refused out. *)
LEMMA CalmRejects ==
  ASSUME StoreInv, RejectedInv, OneAtATime, AgentDriven',
         Clients \/ Outside \/ Pauses \/ UNCHANGED vars
  PROVE  RejectedInv'
<1>1. /\ UNCHANGED <<pump, agent, evq, persisted>> /\ Range(transcript') \subseteq Range(transcript)
      /\ \A a \in Acts : Calm(a)
  BY CalmSteps
<1>2. /\ EventTypes /\ AgentDriven /\ BegunIsHeard /\ RefusedIsOut /\ CaptureEnds /\ NoEarlierEnd
      /\ NewAreFresh
  BY StoreFacts DEF RejectedInv, Shelves
<1>3. AgentMsgs \subseteq Acts
  BY SessionActionsAssumption DEF Acts
<1>4. \A a \in Acts : act[a].st = "cancelled" => act'[a].st = "cancelled"
  BY <1>1 DEF Calm, Relaned, Retracted, Clearable
<1>5. NoEarlierEnd'
  BY <1>1, <1>2, <1>3, <1>4 DEF NoEarlierEnd
<1>6. ASSUME NEW a \in Acts PROVE Steady(a)
  <2>1. CASE act'[a] = act[a] \/ Relaned(act[a], act'[a])
    BY <2>1 DEF Steady, Carried, Relaned
  <2>2. CASE act[a].st = "new" /\ Fresh(act'[a])
    BY <2>2 DEF Steady
  <2>3. CASE Retracted(a)
    <3>1. /\ act'[a].st = "cancelled" /\ act'[a].delivered # "pending"
          /\ act'[a].captured = (act[a].st = "committing")
          /\ act'[a].started = act[a].started
          /\ act[a].delivered # "pending" => act'[a].delivered = act[a].delivered
      BY <2>3, CancelledFacts, CancelledStarted DEF Retracted
    <3>2. SettledNow(a)
      BY <2>3, <3>1 DEF Retracted, Clearable, SettledNow
    <3>3. ~act[a].captured
      BY <1>2, <2>3 DEF NewAreFresh, Retracted, Clearable
    <3>4. CASE act[a].st # "committing"
      <4>1. Primary(a) \notin Range(agent.todo)
        BY <1>2, <2>3, <3>3, <3>4 DEF BegunIsHeard, Retracted, Clearable
      <4> QED BY <3>1, <3>2, <3>3, <3>4, <4>1 DEF Steady, Refused
    <3>5. CASE act[a].st = "committing"
      <4>1. a \in AgentMsgs /\ ~act[a].started /\ "clear_agent" \in Ops
        BY <2>3, <3>5 DEF Retracted
      <4>2. ASSUME NEW i \in 1 .. Len(evq), evq[i] = "agent_end", Primary(a) \in Range(agent.todo)
            PROVE  FALSE
        <5>1. agent.on
          BY <1>2, <4>2 DEF Range, AgentDriven
        <5>2. PICK c \in AgentMsgs : act[c].st = "cancelled"
          BY <1>2, <4>2, <5>1 DEF NoEarlierEnd
        <5>3. c = a
          BY <4>1 DEF OneAtATime
        <5> QED BY <3>5, <5>2, <5>3
      <4> QED BY <3>1, <3>2, <3>5, <4>1, <4>2 DEF Steady, TakenBack
    <3> QED BY <3>4, <3>5
  <2> QED BY <1>1, <2>1, <2>2, <2>3 DEF Calm
<1> QED BY <1>1, <1>5, <1>6, SteadyRejects

(* What a step of the pump makes of an action of its batch. *)
Advanced(a) ==
  /\ act[a].st \in Unfinished /\ act'[a].st # "new"
  /\ act'[a].started = act[a].started /\ act'[a].captured = act[a].captured
  /\ \/ act'[a].delivered = act[a].delivered
     \/ act[a].delivered = "pending" /\ act'[a].delivered \in {"delivered", "not_applicable"}
Abandoned(a) ==
  /\ act[a].st \in Unfinished /\ act'[a].st = "failed"
  /\ act'[a].started = act[a].started /\ act'[a].captured = act[a].captured
  /\ act'[a].delivered = Settle(act[a].delivered, "rejected")
Pumped(a) ==
  \/ act'[a] = act[a] \/ Advanced(a) \/ Abandoned(a)
  \/ /\ act'[a].st = act[a].st /\ act'[a].started = act[a].started
     /\ act'[a].captured = act[a].captured /\ act'[a].delivered = act[a].delivered
Preparing == {"validate", "extensions", "commit"}

(* While the agent rests, the pump keeps what was refused out. *)
LEMMA PumpedRejects ==
  ASSUME StoreInv, RejectedInv, AgentDriven', ~agent.on,
         UNCHANGED <<agent, evq, persisted, transcript>>, \A a \in Acts : Pumped(a),
         pump'.pc \in Preparing => pump.pc \in Preparing \/ evq = << >> \/ HasCapture
  PROVE  RejectedInv'
<1>1. /\ AgentDriven /\ RefusedIsOut /\ CaptureEnds /\ NoEarlierEnd /\ NewAreFresh
      /\ lanes \in [Lanes -> Seq(Acts)] /\ act \in [Acts -> Actions]
  BY StoreFacts DEF RejectedInv, Shelves
<1>2. Range(agent.todo) = {}
  BY <1>1 DEF AgentDriven, Range
<1>3. ASSUME NEW a \in Acts PROVE Carried(a) \/ Refused(a)
  <2>1. CASE /\ act'[a].st = act[a].st /\ act'[a].started = act[a].started
             /\ act'[a].captured = act[a].captured /\ act'[a].delivered = act[a].delivered
    BY <2>1 DEF Carried
  <2>2. CASE Advanced(a)
    BY <1>1, <1>2, <2>2 DEF RefusedIsOut, Advanced, Unfinished, Carried
  <2>3. CASE Abandoned(a)
    BY <1>1, <1>2, <2>3 DEF NewAreFresh, Abandoned, Unfinished, Settle, Refused, SettledNow
  <2> QED BY <2>1, <2>2, <2>3 DEF Pumped
<1>4. \A a \in Acts : act[a].st = "cancelled" => act'[a].st = "cancelled"
  BY <1>3 DEF Carried, Refused, SettledNow
<1>5. NoEarlierEnd'
  <2> SUFFICES ASSUME NEW i \in 1 .. Len(evq), evq[i] = "agent_end", pump'.pc \in Preparing
               PROVE  \E c \in AgentMsgs : act'[c].st = "cancelled"
    BY DEF NoEarlierEnd, Preparing
  <2>1. AgentMsgs \subseteq Acts
    BY SessionActionsAssumption DEF Acts
  <2>2. \E c \in AgentMsgs : act[c].st = "cancelled"
    <3>1. CASE pump.pc \in Preparing
      BY <1>1, <3>1 DEF NoEarlierEnd, Preparing
    <3>2. CASE evq = << >>
      BY <3>2
    <3>3. CASE HasCapture
      <4>1. PICK a \in Range(Owned) : act[a].captured
        BY <3>3 DEF HasCapture
      <4>2. a \in Acts
        BY <1>1, OwnedRange, RangeFacts
      <4> QED BY <1>1, <4>1, <4>2 DEF CaptureEnds, NewAreFresh
    <3> QED BY <3>1, <3>2, <3>3
  <2> QED BY <1>4, <2>1, <2>2
<1>6. Range(transcript') \subseteq Range(transcript)
  OBVIOUS
<1> QED BY <1>3, <1>5, <1>6, SteadyRejects DEF Steady

(* A throw fails turns, or queues them again. *)
LEMMA ThrowPumped ==
  ASSUME StoreInv, pump.pc \in Preparing \cup {"running"}, NEW deferral \in BOOLEAN, Throw(deferral)
  PROVE  pump'.pc \in {"off", "idle"} /\ \A a \in Acts : Pumped(a)
<1>1. /\ pump'.pc \in {"off", "idle"}
      /\ \A a \in Acts : a \notin Range(pump.batch) => act'[a] = act[a]
      /\ \A a \in Range(pump.batch) :
           /\ act'[a].started = act[a].started /\ act'[a].captured = act[a].captured
           /\ act[a].st = "cancelled" => /\ act'[a].st = "cancelled"
                                         /\ act'[a].delivered = act[a].delivered
           /\ act[a].st # "cancelled" =>
                /\ act'[a].st = (IF ~deferral THEN "failed"
                                 ELSE IF Delivered(a) THEN act[a].st ELSE "queued")
                /\ act'[a].delivered = (IF deferral \/ Delivered(a) THEN act[a].delivered
                                        ELSE Settle(act[a].delivered, "rejected"))
  BY ThrowActs DEF Preparing
<1>2. \A a \in Range(pump.batch) : act[a].st \in {"preparing", "committing", "running", "cancelled"}
  BY StoreFacts DEF BatchStates, Preparing
<1>3. ASSUME NEW a \in Acts PROVE Pumped(a)
  <2>1. CASE a \notin Range(pump.batch)
    BY <1>1, <2>1 DEF Pumped
  <2>2. CASE a \in Range(pump.batch) /\ act[a].st = "cancelled"
    BY <1>1, <2>2 DEF Pumped
  <2>3. CASE a \in Range(pump.batch) /\ act[a].st # "cancelled" /\ (deferral \/ Delivered(a))
    BY <1>1, <1>2, <2>3 DEF Pumped, Advanced, Unfinished
  <2>4. CASE a \in Range(pump.batch) /\ act[a].st # "cancelled" /\ ~deferral /\ ~Delivered(a)
    BY <1>1, <1>2, <2>4 DEF Pumped, Abandoned, Unfinished
  <2> QED BY <2>1, <2>2, <2>3, <2>4
<1> QED BY <1>1, <1>3

(* Actions that are put in another state. *)
LEMMA RestatedPumped ==
  ASSUME StoreInv, NEW S, NEW s \in States \ {"new"}, act' = SetState(act, S, s),
         \A a \in Acts \cap S : act[a].st \in Unfinished
  PROVE  \A a \in Acts : Pumped(a)
<1>1. act \in [Acts -> Actions]
  BY StoreFacts
<1>2. ASSUME NEW a \in Acts PROVE Pumped(a)
  <2>1. CASE a \in S
    BY <1>1, <2>1 DEF SetState, Actions, Pumped, Advanced
  <2>2. CASE a \notin S
    BY <2>2 DEF SetState, Pumped
  <2> QED BY <2>1, <2>2
<1> QED BY <1>2

(* The pump's steps up to a command or a dispatch. *)
LEMMA PumpRejects ==
  ASSUME StoreInv, RejectedInv, AgentDriven',
         StartPump \/ AgentIdle \/ SelectInput \/ StartCommand \/ EndCommand
           \/ Validate \/ Prepare
  PROVE  RejectedInv'
<1>0. /\ pump \in Pumps /\ act \in [Acts -> Actions] /\ BatchStates /\ AgentDriven
  BY StoreFacts DEF RejectedInv
<1>1. UNCHANGED <<agent, evq, persisted, transcript>>
  BY DEF StartPump, AgentIdle, SelectInput, StartCommand, EndCommand, Validate, Prepare, pumpRest
<1>2. ~agent.on
  BY <1>0 DEF StartPump, AgentIdle, SelectInput, StartCommand, EndCommand, AppendFails, Validate,
    Prepare, AgentDriven, Active
<1>3. SUFFICES /\ \A a \in Acts : Pumped(a)
               /\ pump'.pc \in Preparing => pump.pc \in Preparing \/ evq = << >> \/ HasCapture
  BY <1>1, <1>2, PumpedRejects
<1>4. CASE StartPump
  <2>1. /\ UNCHANGED act
        /\ \/ pump' = NoPump \/ pump' = [NoPump EXCEPT !.pc = "idle", !.epoch = Head(sch.queue)]
    BY <1>4 DEF StartPump, storeVars
  <2>2. pump'.pc \in {"off", "idle"}
    <3>1. CASE pump' = NoPump
      BY <3>1, EmptyHanded
    <3>2. CASE pump' = [NoPump EXCEPT !.pc = "idle", !.epoch = Head(sch.queue)]
      BY <3>2, Woken
    <3> QED BY <2>1, <3>1, <3>2
  <2> QED BY <2>1, <2>2 DEF Pumped, Preparing
<1>5. CASE AgentIdle
  <2> DEFINE S == {a \in Acts : Preselected # <<>> /\ a = Preselected[1]}
  <2>1. \/ pump' = NoPump /\ act' = SetState(act, S, "queued")
        \/ UNCHANGED act /\ \E x : pump' = [pump EXCEPT !.pc = "select", !.pre = x]
    BY <1>5 DEF AgentIdle
  <2>2. \A a \in Acts \cap S : act[a].st \in Unfinished
    BY InStateFacts DEF Preselected, Unfinished
  <2> HIDE DEF S
  <2>3. CASE pump' = NoPump /\ act' = SetState(act, S, "queued")
    BY <2>2, <2>3, EmptyHanded, RestatedPumped DEF States, Preparing
  <2>4. ASSUME UNCHANGED act, NEW x, pump' = [pump EXCEPT !.pc = "select", !.pre = x]
        PROVE  pump'.pc \notin Preparing /\ \A a \in Acts : Pumped(a)
    BY <1>0, <2>4 DEF Pumps, Pumped, Preparing
  <2> QED BY <2>1, <2>3, <2>4
<1>6. CASE SelectInput
  <2> DEFINE queued == InState({"queued"})
             first == IF pump.pre # None THEN pump.pre ELSE queued[1]
  <2>1. pump.pc = "select" /\ (evq = << >> \/ HasCapture)
    BY <1>6 DEF SelectInput
  <2>2. SUFFICES \A a \in Acts : Pumped(a)
    BY <2>1
  <2>3. \/ UNCHANGED act
        \/ pump.pre = None /\ queued # << >> /\ act' = SetState(act, {first}, "selected")
        \/ /\ pump.pre # None \/ queued # << >>
           /\ first \in Turns /\ act[first].st # "cancelled"
           /\ act' = SetState(act, Range(Batch(first)), "preparing")
    BY <1>6 DEF SelectInput
  <2>4. queued # << >> => queued[1] \in Acts /\ act[queued[1]].st = "queued"
    BY InStateFacts
  <2>5. /\ pump.pre = None /\ queued # << >> => act[first].st = "queued"
        /\ pump.pre # None => act[first].st \in {"selected", "cancelled"}
    <3> HIDE DEF queued
    <3> QED BY <1>0, <2>1, <2>4 DEF BatchStates
  <2> HIDE DEF queued, first
  <2>6. CASE UNCHANGED act
    BY <2>6 DEF Pumped
  <2>7. CASE pump.pre = None /\ queued # << >> /\ act' = SetState(act, {first}, "selected")
    BY <2>5, <2>7, RestatedPumped DEF States, Unfinished
  <2>8. CASE /\ pump.pre # None \/ queued # << >>
             /\ first \in Turns /\ act[first].st # "cancelled"
             /\ act' = SetState(act, Range(Batch(first)), "preparing")
    <3>1. first \in Acts /\ act[first].st \in {"selected", "queued"}
          /\ (pump.pre = None => act[first].st = "queued")
      BY <2>5, <2>8 DEF Acts
    <3>2. \A a \in Range(Batch(first)) : a = first \/ (a \in Turns /\ act[a].st = "queued")
      BY <3>1, BatchFacts
    <3>3. "preparing" \in States \ {"new"}
      BY DEF States
    <3>4. \A a \in Acts \cap Range(Batch(first)) : act[a].st \in Unfinished
      BY <3>1, <3>2 DEF Unfinished
    <3> QED BY <2>8, <3>3, <3>4, RestatedPumped
  <2> QED BY <2>3, <2>6, <2>7, <2>8
<1>7. CASE StartCommand
  <2> DEFINE a == pump.batch[1]
             d == Settle(act[a].delivered, "not_applicable")
  <2>1. pump.pc = "command"
    BY <1>7 DEF StartCommand
  <2>2. a \in Acts /\ act[a].st \in {"selected", "cancelled"}
    BY <1>0, <2>1 DEF BatchStates, Acts
  <2>3. \/ pump' = NoPump /\ UNCHANGED act
        \/ pump' = NoPump /\ act' = SetState(act, {a}, "queued") /\ act[a].st # "cancelled"
        \/ /\ act[a].st # "cancelled" /\ pump' = [pump EXCEPT !.pc = "executing"]
           /\ act' = [act EXCEPT ![a] = [act[a] EXCEPT !.st = "running", !.delivered = d]]
    BY <1>7 DEF StartCommand
  <2>4. pump'.pc \notin Preparing
    BY <1>0, <2>3, EmptyHanded DEF Pumps, Preparing
  <2>5. (act[a].delivered = "pending" /\ d = "not_applicable") \/ d = act[a].delivered
    BY DEF Settle
  <2> HIDE DEF a, d
  <2>6. CASE UNCHANGED act
    BY <2>4, <2>6 DEF Pumped
  <2>7. CASE act' = SetState(act, {a}, "queued") /\ act[a].st # "cancelled"
    BY <2>2, <2>4, <2>7, RestatedPumped DEF States, Unfinished
  <2>8. CASE /\ act[a].st # "cancelled"
             /\ act' = [act EXCEPT ![a] = [act[a] EXCEPT !.st = "running", !.delivered = d]]
    BY <1>0, <2>2, <2>4, <2>5, <2>8 DEF Actions, Pumped, Advanced, Unfinished
  <2> QED BY <2>3, <2>6, <2>7, <2>8
<1>8. CASE EndCommand
  BY <1>8, CommandEnds, EmptyHanded DEF Pumped, Preparing, Abandoned, Advanced, Unfinished
<1>9. CASE Validate \/ Prepare
  BY <1>9, DeferralType, ThrowPumped DEF Validate, Prepare, Preparing, Fail, Pumped
<1> QED BY <1>4, <1>5, <1>6, <1>7, <1>8, <1>9

(* The queue of events is a sequence of messages and of ends of runs. *)
LEMMA EventSeq ==
  ASSUME NEW q, NEW S
  PROVE  (/\ Len(q) \in Nat /\ q = [i \in 1 .. Len(q) |-> q[i]]
          /\ \A i \in 1 .. Len(q) : q[i] = "agent_end" \/ q[i] \in S)
         <=> q \in Seq(S \cup {"agent_end"})
<1>1. ASSUME q \in Seq(S \cup {"agent_end"})
      PROVE  /\ Len(q) \in Nat /\ q = [i \in 1 .. Len(q) |-> q[i]]
             /\ \A i \in 1 .. Len(q) : q[i] = "agent_end" \/ q[i] \in S
  BY <1>1
<1>2. ASSUME /\ Len(q) \in Nat /\ q = [i \in 1 .. Len(q) |-> q[i]]
             /\ \A i \in 1 .. Len(q) : q[i] = "agent_end" \/ q[i] \in S
      PROVE  q \in Seq(S \cup {"agent_end"})
  <2> DEFINE n == Len(q)
  <2>1. n \in Nat /\ q = [i \in 1 .. n |-> q[i]] /\ \A i \in 1 .. n : q[i] \in S \cup {"agent_end"}
    BY <1>2
  <2> HIDE DEF n
  <2>2. q \in [1 .. n -> S \cup {"agent_end"}]
    BY <2>1
  <2> QED BY <2>1, <2>2
<1> QED BY <1>1, <1>2

(* The events before and after a step. *)
LEMMA EventParts ==
  /\ EventTypes <=> evq \in Seq(Sent \cup {"agent_end"}) /\ persisted \in Seq(Sent)
  /\ EventTypes' <=> evq' \in Seq(Sent' \cup {"agent_end"}) /\ persisted' \in Seq(Sent')
BY EventSeq DEF EventTypes

(* The places of a sequence with one element more or less. *)
LEMMA TailAt ==
  ASSUME NEW S, NEW s \in Seq(S), s # << >>
  PROVE  /\ Tail(s) \in Seq(S) /\ Len(s) \in Nat \ {0} /\ Len(Tail(s)) = Len(s) - 1
         /\ \A i \in 1 .. Len(Tail(s)) : Tail(s)[i] = s[i + 1]
         /\ Head(s) = s[1] /\ Head(s) \in S
OBVIOUS

(* The same for one element more. *)
LEMMA AppendAt ==
  ASSUME NEW S, NEW s \in Seq(S), NEW x \in S
  PROVE  /\ Append(s, x) \in Seq(S) /\ Len(s) \in Nat /\ Len(Append(s, x)) = Len(s) + 1
         /\ \A i \in 1 .. Len(s) : Append(s, x)[i] = s[i]
         /\ Append(s, x)[Len(s) + 1] = x
OBVIOUS

(* A message is not the end of a run. *)
LEMMA SentApart ==
  ASSUME NEW m \in Sent
  PROVE  m # "agent_end"
BY SessionActionsAssumption DEF Primary, NoteMsgs, Sent

(* A dispatch begins. *)
LEMMA DispatchRejects ==
  ASSUME StoreInv, RejectedInv, AgentDriven', Dispatched, pump.pc = "commit",
         UNCHANGED <<transcript, evq, persisted>>
  PROVE  RejectedInv'
<1>1. /\ EventTypes /\ BegunIsHeard /\ RefusedIsOut /\ CaptureEnds /\ NoEarlierEnd /\ NewAreFresh
  BY StoreFacts DEF RejectedInv, Shelves
<1>2. ASSUME NEW a \in Acts
      PROVE  /\ act'[a].started = act[a].started /\ act'[a].captured = act[a].captured
             /\ act'[a].delivered = act[a].delivered
             /\ a \in Range(pump.turns) => act[a].st = "preparing" /\ act'[a].st = "committing"
             /\ a \notin Range(pump.turns) => act'[a].st = act[a].st
             /\ Primary(a) \in Range(agent'.todo) => a \in Range(pump.turns)
             /\ Seen(a)' = Seen(a)
  BY DEF Seen, Waits, Primary, Dispatched
<1>3. ~agent'.mid
  BY DEF Dispatched
<1>4. EventTypes'
  BY <1>1, <1>2, SentGrows, SeqMono DEF EventTypes
<1>5. BegunIsHeard'
  <2>1. ASSUME NEW a \in Acts
        PROVE  /\ Seen(a)' => act'[a].started
               /\ act'[a].started => act'[a].delivered # "pending"
               /\ Primary(a) \in Range(agent'.todo) =>
                    act'[a].st \in {"committing", "running"} \/ act'[a].captured
    BY <1>1, <1>2 DEF BegunIsHeard
  <2> QED BY <1>3, <2>1 DEF BegunIsHeard, Primary
<1>6. RefusedIsOut'
  <2>1. ASSUME NEW a \in Acts, act'[a].delivered = "rejected"
        PROVE  /\ act'[a].st \in {"cancelled", "failed"}
               /\ act'[a].captured \/ (~Seen(a)' /\ Primary(a) \notin Range(agent'.todo))
    BY <1>1, <1>2, <2>1 DEF RefusedIsOut
  <2> QED BY <2>1 DEF RefusedIsOut, Primary
<1>7. CaptureEnds'
  <2>1. ASSUME NEW a \in Acts, act'[a].captured
        PROVE  /\ a \in AgentMsgs /\ Primary(a) \notin Range(persisted)
               /\ Primary(a) \notin Range(agent'.todo)
               /\ \A i \in 1 .. Len(evq) : evq[i] = "agent_end" =>
                    \A j \in i + 1 .. Len(evq) : Primary(a) # evq[j]
    BY <1>1, <1>2, <2>1 DEF NewAreFresh, CaptureEnds
  <2> QED BY <2>1 DEF CaptureEnds, Primary
<1>8. NoEarlierEnd'
  BY <1>1, <1>2, SessionActionsAssumption DEF NoEarlierEnd, Acts
<1> QED BY <1>4, <1>5, <1>6, <1>7, <1>8 DEF RejectedInv

(* Commit, and the end of a dispatch. *)
LEMMA DispatchedRejects ==
  ASSUME StoreInv, RejectedInv, AgentDriven', Commit \/ RunSettled
  PROVE  RejectedInv'
<1>0. /\ pump \in Pumps /\ act \in [Acts -> Actions] /\ AgentDriven
  BY StoreFacts DEF RejectedInv
<1>1. CASE Commit
  <2>1. pump.pc = "commit" /\ UNCHANGED <<transcript, evq, persisted>>
    BY <1>1 DEF Commit, pumpRest
  <2>2. CASE Dispatched
    BY <2>1, <2>2, DispatchRejects
  <2>3. CASE Throw(TRUE) /\ UNCHANGED agent
    BY <1>0, <2>1, <2>3, ThrowPumped, PumpedRejects DEF AgentDriven, Preparing
  <2> QED BY <1>1, <2>2, <2>3, CommitSplits
<1>2. CASE RunSettled
  <2> DEFINE missing == \E a \in Range(pump.turns) : act[a].st # "cancelled" /\ ~Delivered(a)
             A == [a \in Acts |->
                     IF a \in Range(pump.batch) /\ act[a].st \in {"committing", "running"}
                     THEN [act[a] EXCEPT !.st = "completed", !.completed = Settle(@, "ok")]
                     ELSE act[a]]
  <2>1. pump.pc = "running" /\ ~agent.on /\ UNCHANGED <<agent, transcript, evq, persisted>>
    BY <1>2 DEF RunSettled, pumpRest, Active
  <2>2. Throw(Deferred) \/ (act' = A /\ (pump' = NoPump \/ pump' = Loop(A)))
    <3> HIDE DEF missing
    <3>1. IF missing \/ Rejected THEN Fail
          ELSE act' = A /\ pump' = IF pump.epoch # sch.epoch THEN NoPump ELSE Loop(A)
      BY <1>2 DEF RunSettled, missing
    <3> HIDE DEF A
    <3> QED BY <3>1 DEF Fail
  <2>3. CASE Throw(Deferred)
    BY <2>1, <2>3, DeferralType, ThrowPumped, PumpedRejects DEF Preparing
  <2>4. CASE act' = A /\ (pump' = NoPump \/ pump' = Loop(A))
    <3>1. pump'.pc \in {"off", "idle"}
      <4> HIDE DEF A
      <4> QED BY <2>4, EmptyHanded
    <3>2. ASSUME NEW a \in Acts PROVE Pumped(a)
      <4>1. CASE a \in Range(pump.batch) /\ act[a].st \in {"committing", "running"}
        <5> DEFINE c == Settle(act[a].completed, "ok")
        <5>1. act'[a] = [act[a] EXCEPT !.st = "completed", !.completed = c] /\ act[a] \in Actions
          BY <1>0, <2>4, <4>1
        <5> HIDE DEF c
        <5>2. /\ act'[a].st = "completed" /\ act'[a].delivered = act[a].delivered
              /\ act'[a].started = act[a].started /\ act'[a].captured = act[a].captured
          BY <5>1 DEF Actions
        <5> QED BY <4>1, <5>2 DEF Pumped, Advanced, Unfinished
      <4>2. CASE ~(a \in Range(pump.batch) /\ act[a].st \in {"committing", "running"})
        BY <2>4, <4>2 DEF Pumped
      <4> QED BY <4>1, <4>2
    <3> QED BY <2>1, <3>1, <3>2, PumpedRejects DEF Preparing
  <2> QED BY <2>2, <2>3, <2>4
<1> QED BY <1>1, <1>2

(* The agent begins a message. *)
LEMMA MessageStartRejects ==
  ASSUME StoreInv, RejectedInv, AgentDriven', MessageStart
  PROVE  RejectedInv'
<1>1. /\ EventTypes /\ BegunIsHeard /\ RefusedIsOut /\ CaptureEnds /\ NoEarlierEnd
      /\ act \in [Acts -> Actions] /\ AgentGood
  BY StoreFacts DEF RejectedInv
<1> DEFINE m == Head(agent.todo)
<1>2. /\ UNCHANGED <<transcript, evq, persisted, pump>> /\ agent.on
      /\ agent' = [agent EXCEPT !.mid = TRUE]
      /\ act' = [a \in Acts |-> IF m = Primary(a)
              THEN [act[a] EXCEPT !.started = TRUE, !.delivered = Settle(@, "delivered")]
              ELSE act[a]]
  BY DEF MessageStart, runRest
<1>3. agent'.todo = agent.todo /\ agent'.on
  BY <1>1, <1>2 DEF AgentGood
<1> HIDE DEF m
<1>4. ASSUME NEW a \in Acts
      PROVE  /\ m # Primary(a) => act'[a] = act[a]
             /\ act'[a].st = act[a].st /\ act'[a].captured = act[a].captured
             /\ m = Primary(a) => act'[a].started /\ act'[a].delivered # "pending"
             /\ act'[a].delivered = "rejected" => act[a].delivered = "rejected"
             /\ Seen(a)' = Seen(a)
  <2> DEFINE d == Settle(act[a].delivered, "delivered")
  <2>1. act[a] \in Actions
    BY <1>1
  <2>2. /\ m # Primary(a) => act'[a] = act[a]
        /\ m = Primary(a) => act'[a] = [act[a] EXCEPT !.started = TRUE, !.delivered = d]
    BY <1>2
  <2>3. d # "pending" /\ (d = "rejected" => act[a].delivered = "rejected")
    BY DEF Settle
  <2>4. Seen(a)' = Seen(a)
    BY <1>2 DEF Seen, Waits, Primary
  <2> HIDE DEF d
  <2>5. CASE m = Primary(a)
    BY <2>1, <2>2, <2>3, <2>4, <2>5 DEF Actions
  <2> QED BY <2>2, <2>4, <2>5
<1>5. EventTypes'
  BY <1>1, <1>2, <1>4, SentGrows, SeqMono DEF EventTypes
<1>6. BegunIsHeard'
  <2>1. ASSUME NEW a \in Acts
        PROVE  /\ Seen(a)' => act'[a].started
               /\ act'[a].started => act'[a].delivered # "pending"
               /\ Primary(a) \in Range(agent'.todo) =>
                    act'[a].st \in {"committing", "running"} \/ act'[a].captured
               /\ m = Primary(a) => act'[a].started
    BY <1>1, <1>3, <1>4 DEF BegunIsHeard
  <2>2. Head(agent'.todo) = m
    BY <1>3 DEF m
  <2> QED BY <2>1, <2>2 DEF BegunIsHeard, Primary
<1>7. RefusedIsOut'
  BY <1>1, <1>3, <1>4 DEF RefusedIsOut, Primary
<1>8. CaptureEnds'
  BY <1>1, <1>2, <1>3, <1>4 DEF CaptureEnds, Primary
<1>9. NoEarlierEnd'
  BY <1>1, <1>2, <1>4, SessionActionsAssumption DEF Acts, NoEarlierEnd
<1> QED BY <1>5, <1>6, <1>7, <1>8, <1>9 DEF RejectedInv

(* The agent ends a message. *)
LEMMA MessageEndRejects ==
  ASSUME StoreInv, RejectedInv, AgentDriven', MessageEnd
  PROVE  RejectedInv'
<1>1. /\ EventTypes /\ BegunIsHeard /\ RefusedIsOut /\ CaptureEnds /\ NoEarlierEnd
      /\ act \in [Acts -> Actions] /\ AgentGood /\ transcript \in Seq(Sent)
  BY StoreFacts DEF RejectedInv
<1> DEFINE m == Head(agent.todo)
           n == Len(evq)
<1>2. /\ UNCHANGED <<persisted, pump>> /\ agent.on /\ agent.mid
      /\ agent' = [agent EXCEPT !.mid = FALSE, !.todo = Tail(@)]
      /\ transcript' = Append(transcript, m) /\ evq' = Append(evq, m)
      /\ act' = [a \in Acts |-> IF m = Primary(a)
                 THEN [act[a] EXCEPT !.durable = TRUE,
                         !.st = IF @ = "committing" THEN "running" ELSE @]
                 ELSE act[a]]
  BY DEF MessageEnd, runRest
<1>3. /\ agent'.todo = Tail(agent.todo) /\ ~agent'.mid
      /\ agent.todo # << >> /\ agent.todo \in Seq(Sent)
  BY <1>1, <1>2 DEF AgentGood
<1>4. /\ m \in Sent /\ m \in Range(agent.todo) /\ Range(agent'.todo) \subseteq Range(agent.todo)
      /\ m # "agent_end"
  BY <1>3, RangeFacts, SentApart
<1> HIDE DEF m
<1>5. /\ Range(transcript') = Range(transcript) \cup {m}
      /\ evq \in Seq(Sent \cup {"agent_end"}) /\ evq' \in Seq(Sent \cup {"agent_end"})
      /\ n \in Nat /\ Len(evq') = n + 1 /\ (\A i \in 1 .. n : evq'[i] = evq[i]) /\ evq'[n + 1] = m
      /\ persisted \in Seq(Sent)
  <2>1. evq \in Seq(Sent \cup {"agent_end"}) /\ persisted \in Seq(Sent) /\ m \in Sent \cup {"agent_end"}
    BY <1>1, <1>4, EventParts
  <2>2. Range(transcript') = Range(transcript) \cup {m}
    BY <1>1, <1>2, <1>4, RangeFacts
  <2> DEFINE E == Sent \cup {"agent_end"}
  <2>3. evq \in Seq(E) /\ m \in E /\ evq' = Append(evq, m)
    BY <1>2, <2>1
  <2> HIDE DEF E
  <2>4. /\ evq' \in Seq(E) /\ n \in Nat /\ Len(evq') = n + 1
        /\ (\A i \in 1 .. n : evq'[i] = evq[i]) /\ evq'[n + 1] = m
    BY <2>3, AppendAt
  <2> QED BY <2>1, <2>2, <2>4 DEF E
<1> HIDE DEF n
<1>6. \A i \in 1 .. n + 1 : i \in 1 .. n \/ i = n + 1
  BY <1>5
<1>7. ASSUME NEW a \in Acts
      PROVE  /\ act'[a].started = act[a].started /\ act'[a].captured = act[a].captured
             /\ act'[a].delivered = act[a].delivered
             /\ act'[a].st = act[a].st \/ (act[a].st = "committing" /\ act'[a].st = "running")
             /\ Seen(a)' => Seen(a) \/ m = Primary(a)
  <2> DEFINE s == IF act[a].st = "committing" THEN "running" ELSE act[a].st
  <2>1. act[a] \in Actions
    BY <1>1
  <2>2. /\ m # Primary(a) => act'[a] = act[a]
        /\ m = Primary(a) => act'[a] = [act[a] EXCEPT !.durable = TRUE, !.st = s]
    BY <1>2
  <2>3. s = act[a].st \/ (act[a].st = "committing" /\ s = "running")
    OBVIOUS
  <2> HIDE DEF s
  <2>4. /\ act'[a].started = act[a].started /\ act'[a].captured = act[a].captured
        /\ act'[a].delivered = act[a].delivered /\ (act'[a].st = s \/ act'[a].st = act[a].st)
    BY <2>1, <2>2 DEF Actions
  <2>5. Seen(a)' => Seen(a) \/ m = Primary(a)
    <3>1. Waits(a)' => Waits(a) \/ m = Primary(a)
      BY <1>5, <1>6 DEF Waits, Primary, n
    <3> QED BY <1>2, <1>5, <3>1 DEF Seen, Primary
  <2> QED BY <2>3, <2>4, <2>5
<1>8. EventTypes'
  <2>1. Sent \subseteq Sent'
    BY <1>7, SentGrows
  <2>2. persisted' \in Seq(Sent')
    BY <1>2, <1>5, <2>1, SeqMono
  <2>3. evq' \in Seq(Sent' \cup {"agent_end"})
    BY <1>5, <2>1, SeqMono
  <2> QED BY <2>2, <2>3, EventParts
<1>9. BegunIsHeard'
  <2>1. ASSUME NEW a \in Acts
        PROVE  /\ Seen(a)' => act'[a].started
               /\ act'[a].started => act'[a].delivered # "pending"
               /\ Primary(a) \in Range(agent'.todo) =>
                    act'[a].st \in {"committing", "running"} \/ act'[a].captured
    <3>1. /\ Seen(a) => act[a].started
          /\ act[a].started => act[a].delivered # "pending"
          /\ Primary(a) \in Range(agent.todo) =>
               act[a].st \in {"committing", "running"} \/ act[a].captured
          /\ m = Primary(a) => act[a].started
      BY <1>1, <1>2 DEF BegunIsHeard, m
    <3> QED BY <1>4, <1>7, <3>1
  <2> QED BY <1>3, <2>1 DEF BegunIsHeard, Primary
<1>10. RefusedIsOut'
  <2>1. ASSUME NEW a \in Acts, act'[a].delivered = "rejected"
        PROVE  /\ act'[a].st \in {"cancelled", "failed"}
               /\ act'[a].captured \/ (~Seen(a)' /\ Primary(a) \notin Range(agent'.todo))
    BY <1>1, <1>4, <1>7, <2>1 DEF RefusedIsOut
  <2> QED BY <2>1 DEF RefusedIsOut, Primary
<1>11. CaptureEnds'
  <2>1. ASSUME NEW a \in Acts, act'[a].captured
        PROVE  /\ a \in AgentMsgs /\ Primary(a) \notin Range(persisted)
               /\ \A i \in 1 .. n + 1 : evq'[i] = "agent_end" =>
                    /\ Primary(a) \notin Range(agent'.todo)
                    /\ \A j \in i + 1 .. n + 1 : Primary(a) # evq'[j]
    <3>1. /\ a \in AgentMsgs /\ Primary(a) \notin Range(persisted)
          /\ \A i \in 1 .. n : evq[i] = "agent_end" =>
               /\ Primary(a) \notin Range(agent.todo)
               /\ \A j \in i + 1 .. n : Primary(a) # evq[j]
      BY <1>1, <1>7, <2>1 DEF CaptureEnds, n
    <3>2. ASSUME NEW i \in 1 .. n + 1, evq'[i] = "agent_end"
          PROVE  /\ Primary(a) \notin Range(agent'.todo)
                 /\ \A j \in i + 1 .. n + 1 : Primary(a) # evq'[j]
      <4>1. i \in 1 .. n /\ evq[i] = "agent_end"
        BY <1>4, <1>5, <1>6, <3>2
      <4>2. Primary(a) \notin Range(agent.todo) /\ \A j \in i + 1 .. n : Primary(a) # evq[j]
        BY <3>1, <4>1
      <4>3. ASSUME NEW j \in i + 1 .. n + 1 PROVE Primary(a) # evq'[j]
        BY <1>4, <1>5, <4>1, <4>2, SMTT(30)
      <4> QED BY <1>4, <4>2, <4>3
    <3> QED BY <3>1, <3>2
  <2>2. Len(evq') = n + 1 /\ UNCHANGED persisted
    BY <1>2, <1>5
  <2> QED BY <2>1, <2>2 DEF CaptureEnds, Primary
<1>12. NoEarlierEnd'
  <2>1. AgentMsgs \subseteq Acts
    BY SessionActionsAssumption DEF Acts
  <2> SUFFICES ASSUME NEW i \in 1 .. n + 1, evq'[i] = "agent_end"
               PROVE  \E c \in AgentMsgs : act'[c].st = "cancelled"
    BY <1>5 DEF NoEarlierEnd
  <2>2. i \in 1 .. n /\ evq[i] = "agent_end"
    BY <1>4, <1>5, <1>6
  <2>3. PICK c \in AgentMsgs : act[c].st = "cancelled"
    BY <1>1, <1>2, <2>2 DEF NoEarlierEnd, n
  <2> QED BY <1>7, <2>1, <2>3
<1> QED BY <1>8, <1>9, <1>10, <1>11, <1>12 DEF RejectedInv

(* A retry's run begins. *)
LEMMA RetryRunRejects ==
  ASSUME StoreInv, RejectedInv, AgentDriven', RetryRun
  PROVE  RejectedInv'
BY PumpedRejects DEF RetryRun, runRest, Pumped, RejectedInv, AgentDriven

(* The agent's run ends, or that of a retry. *)
LEMMA AgentEndRejects ==
  ASSUME StoreInv, RejectedInv, AgentDriven', AgentEnd \/ RetryEnd
  PROVE  RejectedInv'
<1>1. /\ EventTypes /\ BegunIsHeard /\ RefusedIsOut /\ CaptureEnds /\ NoEarlierEnd /\ AgentDriven
      /\ act \in [Acts -> Actions] /\ transcript \in Seq(Sent)
  BY StoreFacts DEF RejectedInv
<1> DEFINE n == Len(evq)
<1>2. /\ UNCHANGED <<persisted, pump, act>> /\ pump.pc = "running"
      /\ agent' = NoRun \/ (UNCHANGED agent /\ ~agent.on)
      /\ transcript' = Drop(transcript, Captured(act)) /\ evq' = Append(evq, "agent_end")
  BY <1>1 DEF AgentEnd, RetryEnd, runRest, AgentDriven
<1>3. ~agent'.on /\ ~agent'.mid /\ Range(agent'.todo) = {}
  BY <1>1, <1>2 DEF NoRun, Range, AgentDriven
<1>4. pump'.pc = "running" /\ Sent' = Sent
  BY <1>1, <1>2 DEF AgentDriven, Sent, NoteMsgs, Primary
<1>5. /\ Range(transcript') \subseteq Range(transcript)
      /\ evq \in Seq(Sent \cup {"agent_end"}) /\ evq' \in Seq(Sent \cup {"agent_end"})
      /\ n \in Nat /\ Len(evq') = n + 1 /\ (\A i \in 1 .. n : evq'[i] = evq[i])
      /\ evq'[n + 1] = "agent_end" /\ persisted \in Seq(Sent)
  BY <1>1, <1>2, EventParts, DropFacts, AppendAt
<1> HIDE DEF n
<1>6. \A i \in 1 .. n + 1 : i \in 1 .. n \/ i = n + 1
  BY <1>5
<1>7. ASSUME NEW a \in Acts PROVE Primary(a) # "agent_end" /\ (Seen(a)' => Seen(a))
  <2>1. Primary(a) # "agent_end"
    BY <1>1, NewUnseen
  <2>2. Waits(a)' => Waits(a)
    BY <1>5, <1>6, <2>1 DEF Waits, Primary, n
  <2> QED BY <1>2, <1>5, <2>1, <2>2 DEF Seen, Primary
<1>8. EventTypes'
  BY <1>2, <1>4, <1>5, EventParts
<1>9. BegunIsHeard'
  BY <1>1, <1>2, <1>3, <1>7 DEF BegunIsHeard
<1>10. RefusedIsOut'
  BY <1>1, <1>2, <1>3, <1>7 DEF RefusedIsOut
<1>11. CaptureEnds'
  <2>1. ASSUME NEW a \in Acts, act[a].captured
        PROVE  /\ a \in AgentMsgs /\ Primary(a) \notin Range(persisted)
               /\ \A i \in 1 .. n + 1 : evq'[i] = "agent_end" =>
                    \A j \in i + 1 .. n + 1 : Primary(a) # evq'[j]
    <3>1. /\ a \in AgentMsgs /\ Primary(a) \notin Range(persisted)
          /\ \A i \in 1 .. n : evq[i] = "agent_end" => \A j \in i + 1 .. n : Primary(a) # evq[j]
      BY <1>1, <2>1 DEF CaptureEnds, n
    <3>2. ASSUME NEW i \in 1 .. n + 1, evq'[i] = "agent_end", NEW j \in i + 1 .. n + 1
          PROVE  Primary(a) # evq'[j]
      <4>1. CASE j = n + 1
        BY <1>5, <1>7, <4>1
      <4>2. CASE j # n + 1
        BY <1>5, <3>1, <3>2, <4>2
      <4> QED BY <4>1, <4>2
    <3> QED BY <3>1, <3>2
  <2> QED BY <1>2, <1>3, <1>5, <2>1 DEF CaptureEnds, Primary
<1>12. NoEarlierEnd'
  BY <1>3, <1>4 DEF NoEarlierEnd
<1> QED BY <1>8, <1>9, <1>10, <1>11, <1>12 DEF RejectedInv

(* An event is processed. *)
LEMMA ProcessEventRejects ==
  ASSUME StoreInv, RejectedInv, AgentDriven', ProcessEvent
  PROVE  RejectedInv'
<1>1. /\ EventTypes /\ BegunIsHeard /\ RefusedIsOut /\ CaptureEnds /\ NoEarlierEnd
      /\ act \in [Acts -> Actions] /\ transcript \in Seq(Sent)
  BY StoreFacts DEF RejectedInv
<1> DEFINE n == Len(evq)
           e == evq[1]
           cleared == IF Head(evq) = "agent_end" THEN {a \in Acts : act[a].captured} ELSE {}
<1>2. /\ UNCHANGED <<pump, agent>> /\ evq # << >> /\ evq' = Tail(evq)
      /\ transcript' = Drop(transcript, Captured(act))
      /\ act' = [a \in Acts |-> [act[a] EXCEPT !.captured = @ /\ a \notin cleared]]
      /\ \/ persisted' = persisted
         \/ ~Skipped(Head(evq)) /\ persisted' = Append(persisted, Head(evq))
  BY DEF ProcessEvent
<1>3. /\ evq \in Seq(Sent \cup {"agent_end"}) /\ evq' \in Seq(Sent \cup {"agent_end"})
      /\ n \in Nat \ {0} /\ Len(evq') = n - 1 /\ (\A i \in 1 .. n - 1 : evq'[i] = evq[i + 1])
      /\ Head(evq) = e /\ persisted \in Seq(Sent) /\ e \in Sent \cup {"agent_end"}
  <2>1. evq \in Seq(Sent \cup {"agent_end"}) /\ persisted \in Seq(Sent)
    BY <1>1, EventParts
  <2> DEFINE E == Sent \cup {"agent_end"}
  <2>2. evq \in Seq(E) /\ evq # << >> /\ evq' = Tail(evq)
    BY <1>2, <2>1
  <2> HIDE DEF E
  <2>3. /\ evq' \in Seq(E) /\ n \in Nat \ {0} /\ Len(evq') = n - 1
        /\ (\A i \in 1 .. n - 1 : evq'[i] = evq[i + 1]) /\ Head(evq) = e /\ e \in E
    BY <2>2, TailAt
  <2> QED BY <2>1, <2>3 DEF E
<1>4. Range(transcript') = Range(transcript) \ Captured(act)
  BY <1>1, <1>2, DropFacts
<1>5. \/ persisted' = persisted
      \/ /\ e # "agent_end" /\ e \notin Captured(act) /\ e \in Sent
         /\ persisted' = Append(persisted, e)
  BY <1>2, <1>3 DEF Skipped
<1>6. persisted' \in Seq(Sent) /\ (persisted' = persisted \/ Range(persisted') = Range(persisted) \cup {e})
  <2>1. CASE persisted' = persisted
    BY <1>3, <2>1
  <2>2. CASE e \in Sent /\ persisted' = Append(persisted, e)
    BY <1>3, <2>2, RangeFacts
  <2> QED BY <1>5, <2>1, <2>2
<1>7. ASSUME NEW a \in Acts
      PROVE  /\ act'[a].started = act[a].started /\ act'[a].delivered = act[a].delivered
             /\ act'[a].st = act[a].st
             /\ act'[a].captured <=> act[a].captured /\ e # "agent_end"
  <2> DEFINE b == act[a].captured /\ a \notin cleared
  <2>1. act'[a] = [act[a] EXCEPT !.captured = b] /\ act[a] \in Actions
    BY <1>1, <1>2
  <2>2. b <=> act[a].captured /\ e # "agent_end"
    BY <1>3
  <2> HIDE DEF b
  <2>3. /\ act'[a].started = act[a].started /\ act'[a].delivered = act[a].delivered
        /\ act'[a].st = act[a].st /\ act'[a].captured = b
    BY <2>1 DEF Actions
  <2> QED BY <2>2, <2>3
<1> HIDE DEF n, e, cleared
<1>8. \A i \in 1 .. n - 1 : i + 1 \in 1 .. n
  BY <1>3
<1>9. ASSUME NEW a \in Acts PROVE Seen(a)' => Seen(a)
  <2>1. Waits(a)' => Waits(a)
    BY <1>3, <1>8 DEF Waits, Primary, n
  <2>2. Primary(a) \in Range(persisted') => Waits(a) \/ Primary(a) \in Range(persisted)
    <3>1. e = Primary(a) => Waits(a)
      BY <1>3 DEF Waits, e, n
    <3> QED BY <1>6, <3>1
  <2> QED BY <1>4, <2>1, <2>2 DEF Seen, Primary
<1>10. EventTypes'
  <2>1. Sent \subseteq Sent'
    BY <1>7, SentGrows
  <2>2. persisted' \in Seq(Sent')
    BY <1>6, <2>1, SeqMono
  <2>3. evq' \in Seq(Sent' \cup {"agent_end"})
    BY <1>3, <2>1, SeqMono
  <2> QED BY <2>2, <2>3, EventParts
<1>11. ASSUME NEW a \in Acts, act[a].captured
       PROVE  /\ a \in AgentMsgs /\ Primary(a) \notin Range(persisted)
              /\ Primary(a) \notin Range(persisted') /\ Primary(a) \notin Range(transcript')
              /\ e = "agent_end" => Primary(a) \notin Range(agent.todo) /\ ~Waits(a)'
              /\ \A i \in 1 .. n : evq[i] = "agent_end" =>
                   /\ Primary(a) \notin Range(agent.todo)
                   /\ \A j \in i + 1 .. n : Primary(a) # evq[j]
  <2>1. /\ a \in AgentMsgs /\ Primary(a) \notin Range(persisted)
        /\ \A i \in 1 .. n : evq[i] = "agent_end" =>
             /\ Primary(a) \notin Range(agent.todo)
             /\ \A j \in i + 1 .. n : Primary(a) # evq[j]
    BY <1>1, <1>11 DEF CaptureEnds, n
  <2>2. Primary(a) \in Captured(act)
    BY <1>11 DEF Captured, RecordsOf
  <2>3. Primary(a) \notin Range(persisted') /\ Primary(a) \notin Range(transcript')
    BY <1>4, <1>5, <1>6, <2>1, <2>2
  <2>4. ASSUME e = "agent_end" PROVE Primary(a) \notin Range(agent.todo) /\ ~Waits(a)'
    <3>1. 1 \in 1 .. n /\ evq[1] = "agent_end"
      BY <1>3, <2>4 DEF e
    <3>2. Primary(a) \notin Range(agent.todo) /\ \A j \in 1 + 1 .. n : Primary(a) # evq[j]
      BY <2>1, <3>1
    <3>3. ASSUME NEW i \in 1 .. n - 1 PROVE Primary(a) # evq'[i]
      BY <1>3, <3>2
    <3> QED BY <1>3, <3>2, <3>3 DEF Waits, Primary
  <2> QED BY <2>1, <2>3, <2>4
<1>12. BegunIsHeard'
  <2>1. ASSUME NEW a \in Acts
        PROVE  /\ Seen(a)' => act'[a].started
               /\ act'[a].started => act'[a].delivered # "pending"
               /\ Primary(a) \in Range(agent.todo) =>
                    act'[a].st \in {"committing", "running"} \/ act'[a].captured
               /\ agent.mid => (Head(agent.todo) = Primary(a) => act'[a].started)
    BY <1>1, <1>7, <1>9, <1>11 DEF BegunIsHeard
  <2> QED BY <1>2, <2>1 DEF BegunIsHeard, Primary
<1>13. RefusedIsOut'
  <2>1. ASSUME NEW a \in Acts, act'[a].delivered = "rejected"
        PROVE  /\ act'[a].st \in {"cancelled", "failed"}
               /\ act'[a].captured \/ (~Seen(a)' /\ Primary(a) \notin Range(agent.todo))
    <3>1. /\ act[a].st \in {"cancelled", "failed"}
          /\ act[a].captured \/ (~Seen(a) /\ Primary(a) \notin Range(agent.todo))
      BY <1>1, <1>7, <2>1 DEF RefusedIsOut
    <3>2. CASE act[a].captured /\ e = "agent_end"
      BY <1>7, <1>11, <3>1, <3>2 DEF Seen, Primary
    <3> QED BY <1>7, <1>9, <3>1, <3>2
  <2> QED BY <1>2, <2>1 DEF RefusedIsOut, Primary
<1>14. CaptureEnds'
  <2>1. ASSUME NEW a \in Acts, act'[a].captured
        PROVE  /\ a \in AgentMsgs /\ Primary(a) \notin Range(persisted')
               /\ \A i \in 1 .. Len(evq') : evq'[i] = "agent_end" =>
                    /\ Primary(a) \notin Range(agent.todo)
                    /\ \A j \in i + 1 .. Len(evq') : Primary(a) # evq'[j]
    <3>1. act[a].captured
      BY <1>7, <2>1
    <3>2. ASSUME NEW i \in 1 .. n - 1, evq'[i] = "agent_end"
          PROVE  /\ Primary(a) \notin Range(agent.todo)
                 /\ \A j \in i + 1 .. n - 1 : Primary(a) # evq'[j]
      <4>1. i + 1 \in 1 .. n /\ evq[i + 1] = "agent_end"
        BY <1>3, <1>8, <3>2
      <4>2. Primary(a) \notin Range(agent.todo) /\ \A j \in (i + 1) + 1 .. n : Primary(a) # evq[j]
        BY <1>11, <3>1, <4>1
      <4>3. ASSUME NEW j \in i + 1 .. n - 1 PROVE Primary(a) # evq'[j]
        <5>1. j \in 1 .. n - 1 /\ j + 1 \in (i + 1) + 1 .. n
          BY <1>3
        <5> QED BY <1>3, <4>2, <5>1
      <4> QED BY <4>2, <4>3
    <3>3. Len(evq') = n - 1
      BY <1>3
    <3> QED BY <1>11, <3>1, <3>2, <3>3
  <2> QED BY <1>2, <2>1 DEF CaptureEnds, Primary
<1>15. NoEarlierEnd'
  BY <1>1, <1>2, <1>3, <1>7, <1>8, SessionActionsAssumption DEF Acts, NoEarlierEnd, n
<1> QED BY <1>10, <1>12, <1>13, <1>14, <1>15 DEF RejectedInv

(* At the start there is nothing. *)
LEMMA RejectedInitial ==
  ASSUME Init
  PROVE  RejectedInv
<1>1. /\ agent = NoRun /\ act = [a \in Acts |-> NewAction] /\ transcript = << >>
      /\ evq = << >> /\ persisted = << >>
  BY DEF Init
<1>2. /\ Range(transcript) = {} /\ Range(agent.todo) = {} /\ Range(persisted) = {} /\ ~agent.mid
      /\ evq \in Seq(Sent \cup {"agent_end"}) /\ persisted \in Seq(Sent)
      /\ \A i \in 1 .. Len(evq) : FALSE
  BY <1>1 DEF NoRun, Range
<1>3. \A a \in Acts : act[a].delivered = "pending" /\ ~act[a].started /\ ~act[a].captured
  BY <1>1 DEF NewAction
<1>4. AgentDriven
  BY DrivenInitial DEF DrivenInv
<1>5. EventTypes
  BY <1>2, EventParts
<1>6. \A a \in Acts : ~Seen(a)
  BY <1>2 DEF Seen, Waits
<1> QED BY <1>2, <1>3, <1>4, <1>5, <1>6
        DEF RejectedInv, BegunIsHeard, RefusedIsOut, CaptureEnds, NoEarlierEnd

(* When nobody clears the messages of agents, or only one of them is ever
   sent, a prompt whose client was told that it was not delivered never
   reaches the session file, and it is in the transcript only while the run
   it was taken back from has not been cleaned up: the client may send it
   again. *)
THEOREM RefusedStaysOut ==
  ASSUME "clear_agent" \notin Ops \/ \A a, b \in AgentMsgs : a = b
  PROVE  Spec => []RejectedStaysOut
<1>0. OneAtATime
  BY DEF OneAtATime
<1>1. Init => RejectedInv
  BY RejectedInitial
<1>2. SessionInv /\ RejectedInv /\ [Next]_vars => RejectedInv'
  <2> SUFFICES ASSUME SessionInv, RejectedInv, [Next]_vars PROVE RejectedInv'
    OBVIOUS
  <2>1. StoreInv /\ AgentDriven
    BY DEF SessionInv, RejectedInv
  <2>2. AgentDriven'
    BY <2>1, AgentDrivenStep
  <2> QED BY <1>0, <2>1, <2>2, CalmRejects, PumpRejects, DispatchedRejects, MessageStartRejects,
             MessageEndRejects, AgentEndRejects, RetryRunRejects, ProcessEventRejects
             DEF Next, Pump, Run
<1>3. RejectedInv => RejectedStaysOut
  BY DEF RejectedStaysOut, RejectedInv, Acts, RefusedIsOut, CaptureEnds, Seen
<1> QED BY <1>1, <1>2, <1>3, SessionInvariance, PTL DEF Spec

-----------------------------------------------------------------------------
(* Sequences without repetitions *)

(* Two of them, one behind the other. *)
LEMMA ConcatInjective ==
  ASSUME NEW T, NEW p \in Seq(T), NEW q \in Seq(T), IsInjective(p), IsInjective(q),
         Range(p) \cap Range(q) = {}
  PROVE  IsInjective(p \o q)
<1> DEFINE r == p \o q
           n == Len(p)
           k == Len(q)
<1>1. n \in Nat /\ k \in Nat /\ DOMAIN p = 1 .. n /\ DOMAIN q = 1 .. k
  OBVIOUS
<1>2. r \in Seq(T) /\ Len(r) = n + k
  OBVIOUS
<1>3. \A i \in 1 .. n + k : r[i] = IF i <= n THEN p[i] ELSE q[i - n]
  OBVIOUS
<1>4. DOMAIN r = 1 .. n + k
  BY <1>2
<1>5. (\A i, j \in 1 .. n : p[i] = p[j] => i = j) /\ (\A i, j \in 1 .. k : q[i] = q[j] => i = j)
  BY <1>1 DEF IsInjective
<1>6. \A i \in 1 .. n, j \in 1 .. k : p[i] # q[j]
  BY <1>1 DEF Range
<1> HIDE DEF r, n, k
<1>7. ASSUME NEW i \in 1 .. n + k, NEW j \in 1 .. n + k, r[i] = r[j] PROVE i = j
  <2>1. (i <= n => i \in 1 .. n) /\ (~(i <= n) => i - n \in 1 .. k)
    BY <1>1
  <2>2. (j <= n => j \in 1 .. n) /\ (~(j <= n) => j - n \in 1 .. k)
    BY <1>1
  <2>3. CASE i <= n /\ j <= n
    BY <1>3, <1>5, <1>7, <2>1, <2>2, <2>3
  <2>4. CASE ~(i <= n) /\ ~(j <= n)
    BY <1>1, <1>3, <1>5, <1>7, <2>1, <2>2, <2>4
  <2>5. CASE i <= n /\ ~(j <= n)
    BY <1>3, <1>6, <1>7, <2>1, <2>2, <2>5
  <2>6. CASE ~(i <= n) /\ j <= n
    BY <1>3, <1>6, <1>7, <2>1, <2>2, <2>6
  <2> QED BY <2>3, <2>4, <2>5, <2>6
<1>8. IsInjective(r)
  BY <1>4, <1>7 DEF IsInjective
<1> QED BY <1>8 DEF r

(* What is put together from sequences that share nothing. *)
LEMMA FlattenInjective ==
  ASSUME NEW T, NEW ss \in Seq(Seq(T)), \A i \in 1 .. Len(ss) : IsInjective(ss[i]),
         \A i, j \in 1 .. Len(ss) : i # j => Range(ss[i]) \cap Range(ss[j]) = {}
  PROVE  IsInjective(FlattenSeq(ss))
<1> DEFINE L == Len(ss)
           Held(n) == {x \in T : \E i \in 1 .. n : x \in Range(ss[i])}
<1>0. L \in Nat /\ \A i \in 1 .. L : ss[i] \in Seq(T)
  OBVIOUS
<1>1. CASE L = 0
  BY <1>1 DEF FlattenSeq, IsInjective
<1>2. CASE L # 0
  <2>0. L >= 1
    BY <1>0, <1>2
  <2>1. PICK h : Piles(h, ss, L) /\ FlattenSeq(ss) = h[L]
    BY <1>2, FlattenPiles
  <2> DEFINE Good(n) == h[n] \in Seq(T) /\ Range(h[n]) = Held(n) /\ IsInjective(h[n])
             I == {i \in 1 .. L : ~Good(i)}
  <2>2. Good(1)
    <3>0. 1 \in 1 .. L
      BY <1>0, <2>0
    <3>1. h[1] = ss[1] /\ ss[1] \in Seq(T) /\ IsInjective(ss[1])
      BY <1>0, <2>1, <3>0 DEF Piles
    <3>2. Range(ss[1]) \subseteq T
      BY <3>1, RangeFacts
    <3>3. Held(1) = Range(ss[1])
      BY <3>2
    <3> HIDE DEF Held
    <3> QED BY <3>1, <3>3
  <2>3. ASSUME NEW n \in 2 .. L, Good(n - 1) PROVE Good(n)
    <3> DEFINE p == h[n - 1]
               q == ss[n]
    <3>1. /\ h[n] = p \o q /\ q \in Seq(T) /\ p \in Seq(T) /\ Range(p) = Held(n - 1)
          /\ IsInjective(p) /\ IsInjective(q)
      <4>1. n \in 1 .. L
        OBVIOUS
      <4>2. h[n] = p \o q
        BY <2>1 DEF Piles, Joined
      <4> HIDE DEF Held
      <4> QED BY <1>0, <2>3, <4>1, <4>2
    <3>2. Range(q) \subseteq T
      BY <3>1, RangeFacts
    <3>3. Held(n) = Held(n - 1) \cup Range(q)
      <4>1. \A i \in 1 .. n : i \in 1 .. n - 1 \/ i = n
        OBVIOUS
      <4>2. \A i \in 1 .. n - 1 : i \in 1 .. n
        OBVIOUS
      <4>3. n \in 1 .. n
        OBVIOUS
      <4> QED BY <3>2, <4>1, <4>2, <4>3
    <3>4. Held(n - 1) \cap Range(q) = {}
      <4>1. \A i \in 1 .. n - 1 : i \in 1 .. L /\ n \in 1 .. L /\ i # n
        BY <1>0
      <4> QED BY <4>1
    <3> HIDE DEF p, q, Held
    <3>5. p \o q \in Seq(T) /\ Range(p \o q) = Range(p) \cup Range(q)
      BY <3>1, ConcatRange
    <3>6. IsInjective(p \o q)
      BY <3>1, <3>4, ConcatInjective
    <3>7. h[n] \in Seq(T) /\ Range(h[n]) = Held(n) /\ IsInjective(h[n])
      BY <3>1, <3>3, <3>5, <3>6
    <3> QED BY <3>7
  <2>4. Good(L)
    <3> HIDE DEF Good
    <3>1. I = {}
      <4> SUFFICES ASSUME I # {} PROVE FALSE
        OBVIOUS
      <4>1. PICK n \in I : \A i \in I : n <= i
        <5>1. I \in SUBSET (1 .. L)
          OBVIOUS
        <5> HIDE DEF I, L
        <5> QED BY <1>0, <5>1, Least
      <4>2. n \in 1 .. L /\ ~Good(n)
        OBVIOUS
      <4>3. n # 1
        BY <2>2, <4>2
      <4>4. n \in 2 .. L /\ n - 1 \in 1 .. L /\ ~(n <= n - 1)
        BY <1>0, <4>2, <4>3
      <4>5. Good(n - 1)
        BY <4>1, <4>4
      <4> QED BY <2>3, <4>2, <4>4, <4>5
    <3>2. L \in 1 .. L
      BY <1>0, <2>0
    <3> QED BY <3>1, <3>2
  <2> QED BY <2>1, <2>4
<1> QED BY <1>1, <1>2

(* A filter begins with the first element that it keeps. *)
LEMMA FirstKept ==
  ASSUME NEW T, NEW s \in Seq(T), NEW S, Keep(s, S) # << >>
  PROVE  \E p \in 1 .. Len(s) : /\ s[p] = Keep(s, S)[1] /\ s[p] \in S
                                /\ \A i \in 1 .. p - 1 : s[i] \notin S
<1> DEFINE L == Len(s)
           g(i) == IF s[i] \in S THEN <<s[i]>> ELSE << >>
           ss == [i \in 1 .. L |-> g(i)]
           k == Keep(s, S)
<1>0. L \in Nat /\ (\A i \in 1 .. L : s[i] \in T) /\ DOMAIN s = 1 .. L
  OBVIOUS
<1>1. k = FlattenSeq(ss)
  BY DEF Keep
<1>2. ss \in Seq(Seq(T)) /\ Len(ss) = L /\ \A i \in 1 .. L : ss[i] = g(i)
  <2>1. \A i \in 1 .. L : g(i) \in Seq(T)
    BY <1>0
  <2> HIDE DEF g
  <2> QED BY <1>0, <2>1
<1> HIDE DEF ss, k
<1>3. L # 0
  BY <1>1, <1>2 DEF FlattenSeq, k
<1>4. L >= 1
  BY <1>0, <1>3
<1>5. PICK h : Piles(h, ss, L) /\ FlattenSeq(ss) = h[L]
  BY <1>2, <1>3, FlattenPiles
<1> DEFINE First(n, p) == s[p] = h[n][1] /\ s[p] \in S /\ \A i \in 1 .. p - 1 : s[i] \notin S
           Good(n) == /\ h[n] \in Seq(T)
                      /\ h[n] = << >> => \A i \in 1 .. n : s[i] \notin S
                      /\ h[n] # << >> => \E p \in 1 .. n : First(n, p)
           I == {i \in 1 .. L : ~Good(i)}
<1>6. Good(1)
  <2>0. 1 \in 1 .. L
    BY <1>0, <1>4
  <2>1. h[1] = g(1)
    <3> HIDE DEF g
    <3>1. h[1] = ss[1]
      BY <1>5 DEF Piles
    <3> QED BY <1>2, <2>0, <3>1
  <2>2. CASE s[1] \in S
    <3>1. h[1] = <<s[1]>> /\ s[1] \in T
      BY <1>0, <1>4, <2>1, <2>2
    <3>2. h[1] \in Seq(T) /\ h[1] # << >> /\ h[1][1] = s[1]
      BY <3>1
    <3>3. First(1, 1)
      BY <2>2, <3>2
    <3> HIDE DEF First
    <3> QED BY <3>2, <3>3
  <2>3. CASE s[1] \notin S
    BY <2>1, <2>3
  <2> QED BY <2>2, <2>3
<1>7. ASSUME NEW n \in 2 .. L, Good(n - 1) PROVE Good(n)
  <2> DEFINE p == h[n - 1]
             q == g(n)
  <2>0. /\ p \in Seq(T)
        /\ p = << >> => \A i \in 1 .. n - 1 : s[i] \notin S
        /\ p # << >> => \E r \in 1 .. n - 1 : First(n - 1, r)
    <3> HIDE DEF First
    <3> QED BY <1>7
  <2>1. h[n] = p \o q /\ p \in Seq(T) /\ n \in 1 .. L /\ s[n] \in T
    <3> HIDE DEF Good, g
    <3>1. h[n] = p \o ss[n]
      BY <1>5 DEF Piles, Joined
    <3>2. n \in 1 .. L
      BY <1>0
    <3> QED BY <1>0, <1>2, <2>0, <3>1, <3>2
  <2>2. \A i \in 1 .. n : i \in 1 .. n - 1 \/ i = n
    OBVIOUS
  <2>3. CASE p # << >>
    <3>0. q \in Seq(T)
      BY <2>1
    <3> HIDE DEF p, q, First, Good
    <3>1. p \o q \in Seq(T) /\ p \o q # << >> /\ (p \o q)[1] = p[1]
      BY <2>1, <2>3, <3>0
    <3>4. h[n] \in Seq(T) /\ h[n] # << >> /\ h[n][1] = p[1]
      BY <2>1, <3>1
    <3> USE DEF p, First
    <3>2. PICK r \in 1 .. n - 1 : First(n - 1, r)
      BY <2>0, <2>3
    <3>3. r \in 1 .. n /\ First(n, r)
      BY <3>2, <3>4
    <3> HIDE DEF First
    <3> QED BY <3>3, <3>4 DEF Good
  <2>4. CASE p = << >> /\ s[n] \in S
    <3>0. q = <<s[n]>>
      BY <2>4
    <3>1. h[n] = <<s[n]>>
      <4> HIDE DEF p, q, First, Good, g
      <4>1. h[n] = << >> \o <<s[n]>>
        BY <2>1, <2>4, <3>0
      <4> QED BY <2>1, <4>1
    <3>2. h[n] \in Seq(T) /\ h[n] # << >> /\ h[n][1] = s[n]
      <4> DEFINE v == s[n]
      <4>1. v \in T
        BY <2>1
      <4> HIDE DEF v, First, Good, g, p, q
      <4>2. <<v>> \in Seq(T) /\ <<v>> # << >> /\ <<v>>[1] = v
        BY <4>1
      <4> QED BY <3>1, <4>2 DEF v
    <3>3. \A i \in 1 .. n - 1 : s[i] \notin S
      BY <2>0, <2>4
    <3>4. n \in 1 .. n /\ First(n, n)
      BY <2>4, <3>2, <3>3
    <3> HIDE DEF First
    <3> QED BY <3>2, <3>4
  <2>5. CASE p = << >> /\ s[n] \notin S
    BY <2>0, <2>1, <2>2, <2>5
  <2> QED BY <2>3, <2>4, <2>5
<1>8. Good(L)
  <2> HIDE DEF Good
  <2>1. I = {}
    <3> SUFFICES ASSUME I # {} PROVE FALSE
      OBVIOUS
    <3>1. PICK n \in I : \A i \in I : n <= i
      <4>1. I \in SUBSET (1 .. L)
        OBVIOUS
      <4> HIDE DEF I, L
      <4> QED BY <1>0, <4>1, Least
    <3>2. n \in 1 .. L /\ ~Good(n)
      OBVIOUS
    <3>3. n # 1
      BY <1>6, <3>2
    <3>4. n \in 2 .. L /\ n - 1 \in 1 .. L /\ ~(n <= n - 1)
      BY <1>0, <3>2, <3>3
    <3>5. Good(n - 1)
      BY <3>1, <3>4
    <3> QED BY <1>7, <3>2, <3>4, <3>5
  <2>2. L \in 1 .. L
    BY <1>0, <1>4
  <2> QED BY <2>1, <2>2
<1>9. k = h[L] /\ k # << >>
  BY <1>1, <1>5 DEF k
<1> QED BY <1>8, <1>9 DEF k


-----------------------------------------------------------------------------
(* Each message is delivered once *)

(* What nobody takes back, or a single agent writes and no event fails.    *)
Sole == "clear_agent" \notin Ops \/ ("event_fails" \notin Ops /\ \A a, b \in AgentMsgs : a = b)

(* The invariant without the part that is kept on its own. *)
OnceParts ==
  /\ Undelivered /\ StockOnce /\ StockReady
  /\ MessagesOnce /\ CaptureRuns /\ BatchOnce /\ InFlight

(* The holders are three kinds, and each holds notes. *)
LEMMA StockType ==
  ASSUME StoreInv
  PROVE  /\ Stock("pend") = pend
         /\ Stock("pump") = IF Retaken THEN << >> ELSE pump.notes
         /\ \A a \in Acts : Stock(a) = IF act[a].st \in Unfinished THEN act[a].prefix ELSE << >>
         /\ \A a \in Acts : a # "pend" /\ a # "pump"
         /\ \A h \in Holders : Stock(h) \in Seq(NoteMsgs) /\ Range(Stock(h)) \subseteq NoteMsgs
<1>1. \A a \in Acts : a # "pend" /\ a # "pump"
  BY SessionActionsAssumption
<1>2. /\ act \in [Acts -> Actions] /\ pump \in Pumps /\ pend \in Seq(NoteMsgs)
  BY StoreFacts
<1>3. Stock("pend") = pend /\ Stock("pump") = IF Retaken THEN << >> ELSE pump.notes
  BY DEF Stock
<1>4. \A a \in Acts : Stock(a) = IF act[a].st \in Unfinished THEN act[a].prefix ELSE << >>
  BY <1>1 DEF Stock
<1>5. pump.notes \in Seq(NoteMsgs) /\ << >> \in Seq(NoteMsgs)
  BY <1>2 DEF Pumps
<1>6. \A a \in Acts : act[a].prefix \in Seq(NoteMsgs)
  BY <1>2 DEF Actions
<1>7. ASSUME NEW h \in Holders PROVE Stock(h) \in Seq(NoteMsgs)
  BY <1>2, <1>3, <1>4, <1>5, <1>6 DEF Holders
<1> QED BY <1>1, <1>3, <1>4, <1>7, RangeFacts

(* The same after a step. *)
LEMMA StockTypeNext ==
  ASSUME StoreInv'
  PROVE  /\ Stock("pend")' = pend'
         /\ Stock("pump")' = IF Retaken' THEN << >> ELSE pump'.notes
         /\ \A a \in Acts : Stock(a)' = IF act'[a].st \in Unfinished THEN act'[a].prefix ELSE << >>
         /\ \A a \in Acts : a # "pend" /\ a # "pump"
         /\ \A h \in Holders : Stock(h)' \in Seq(NoteMsgs) /\ Range(Stock(h)') \subseteq NoteMsgs
<1>1. \A a \in Acts : a # "pend" /\ a # "pump"
  BY SessionActionsAssumption
<1>2. /\ act' \in [Acts -> Actions] /\ pump' \in Pumps /\ pend' \in Seq(NoteMsgs)
  BY DEF StoreInv, StoreTypes
<1>3. Stock("pend")' = pend' /\ Stock("pump")' = IF Retaken' THEN << >> ELSE pump'.notes
  BY DEF Stock
<1>4. \A a \in Acts : Stock(a)' = IF act'[a].st \in Unfinished THEN act'[a].prefix ELSE << >>
  BY <1>1 DEF Stock
<1>5. pump'.notes \in Seq(NoteMsgs) /\ << >> \in Seq(NoteMsgs)
  BY <1>2 DEF Pumps
<1>6. \A a \in Acts : act'[a].prefix \in Seq(NoteMsgs)
  BY <1>2 DEF Actions
<1>7. ASSUME NEW h \in Holders PROVE Stock(h)' \in Seq(NoteMsgs)
  BY <1>2, <1>3, <1>4, <1>5, <1>6 DEF Holders
<1> QED BY <1>1, <1>3, <1>4, <1>7, RangeFacts

(* The notes that wait have not been delivered. *)
LEMMA PendUnseen ==
  ASSUME StoreInv, StockOnce
  PROVE  Range(pend) \cap Range(transcript) = {}
<1>1. "pend" \in Holders /\ Stock("pend") = pend
  BY StockType DEF Holders
<1>2. ASSUME NEW x \in Range(pend), x \in Range(transcript) PROVE FALSE
  BY <1>1, <1>2 DEF StockOnce
<1> QED BY <1>2

(* A step that hands notes of one holder to another keeps each once. *)
LEMMA Handover ==
  ASSUME StockOnce, NEW s \in Holders, NEW d \in Holders,
         \A h \in Holders : IsInjective(Stock(h)'),
         \A h \in Holders : h # d => Range(Stock(h)') \subseteq Range(Stock(h)),
         Range(Stock(d)') \subseteq Range(Stock(s)) \cup Range(Stock(d)),
         s # d => Range(Stock(s)') = {},
         Range(Stock("pend")') \cap Range(transcript) = {},
         Range(transcript') \subseteq Range(transcript), Captured(act)' \subseteq Captured(act),
         Range(transcript') \cap Captured(act) \subseteq Captured(act)'
  PROVE  StockOnce'
<1> DEFINE R(h) == Range(Stock(h))
           Q(h) == Range(Stock(h)')
           C == Captured(act)
           D == Captured(act)'
<1>1. /\ \A h \in Holders : R(h) \cap C = {}
      /\ \A g, h \in Holders : \A x \in R(g), y \in R(h) : x[1] = y[1] => g = h /\ x = y
      /\ \A h \in Holders : \A x \in R(h), y \in Range(transcript) :
           x[1] = y[1] => y \in C \/ (h # "pend" /\ x = y)
  BY DEF StockOnce
<1>2. /\ \A h \in Holders : h # d => Q(h) \subseteq R(h)
      /\ Q(d) \subseteq R(s) \cup R(d) /\ (s # d => Q(s) = {})
      /\ Q("pend") \cap Range(transcript) = {} /\ Range(transcript') \subseteq Range(transcript)
      /\ D \subseteq C /\ Range(transcript') \cap C \subseteq D
  OBVIOUS
<1> HIDE DEF R, Q, C, D
<1>3. ASSUME NEW h \in Holders PROVE Q(h) \cap D = {}
  BY <1>1, <1>2
<1>4. ASSUME NEW h \in Holders, NEW x \in Q(h)
      PROVE  \E g \in Holders : x \in R(g) /\ (h = d => g \in {s, d}) /\ (h # d => g = h /\ h # s)
  BY <1>2, <1>4
<1>5. ASSUME NEW g \in Holders, NEW h \in Holders, NEW x \in Q(g), NEW y \in Q(h), x[1] = y[1]
      PROVE  g = h /\ x = y
  BY <1>1, <1>4, <1>5
<1>6. ASSUME NEW h \in Holders, NEW x \in Q(h), NEW y \in Range(transcript'), x[1] = y[1]
      PROVE  y \in D \/ (h # "pend" /\ x = y)
  BY <1>1, <1>2, <1>4, <1>6
<1> QED BY <1>3, <1>5, <1>6 DEF StockOnce, Q, D


(* The messages of what was taken back, when fewer are. *)
LEMMA CapturedLess ==
  ASSUME \A a \in Acts : act'[a].captured =>
           /\ act[a].captured /\ Range(act'[a].prefix) \subseteq Range(act[a].prefix)
           /\ Range(act'[a].next) \subseteq Range(act[a].next)
  PROVE  Captured(act)' \subseteq Captured(act)
<1>1. ASSUME NEW a \in Acts, act'[a].captured
      PROVE  act[a].captured /\ RecordsOf(a)' \subseteq RecordsOf(a)
  BY <1>1 DEF RecordsOf, Primary
<1>2. ASSUME NEW x \in Captured(act)' PROVE x \in Captured(act)
  BY <1>1 DEF Captured
<1> QED BY <1>2

(* An action keeps its messages. *)
Kept(a) ==
  /\ act'[a].prefix = act[a].prefix /\ act'[a].next = act[a].next
  /\ act'[a].captured = act[a].captured
  /\ act'[a].started = act[a].started /\ act'[a].durable = act[a].durable

(* What was taken back when every action keeps its messages. *)
LEMMA CapturedKept ==
  ASSUME \A a \in Acts : act[a].captured \/ act'[a].captured =>
           /\ act'[a].prefix = act[a].prefix /\ act'[a].next = act[a].next
           /\ act'[a].captured = act[a].captured
  PROVE  Captured(act)' = Captured(act)
<1>1. ASSUME NEW a \in Acts, act[a].captured \/ act'[a].captured
      PROVE  RecordsOf(a)' = RecordsOf(a)
  BY <1>1 DEF RecordsOf, Primary
<1>2. {b \in Acts : act'[b].captured} = {b \in Acts : act[b].captured}
  OBVIOUS
<1>3. ASSUME NEW x PROVE x \in Captured(act)' <=> x \in Captured(act)
  BY <1>1 DEF Captured
<1> QED BY <1>3

(* While the agent rests, its messages and what was taken back are in      *)
(* order after a step that delivers nothing and takes nothing back.        *)
LEMMA RestOnce ==
  ASSUME StoreInv, OnceParts, AgentDriven, ~agent.on,
         UNCHANGED <<agent, transcript, evFailed>>,
         \A a \in Acts : act'[a].captured => act[a].captured,
         Captured(act)' \subseteq Captured(act), Retaken' => Retaken
  PROVE  MessagesOnce' /\ CaptureRuns'
BY DEF AgentDriven, Range, OnceParts, MessagesOnce, CaptureRuns

(* What the pump makes of an action that it has not dispatched. *)
Tended(a) ==
  /\ Kept(a) /\ (act'[a].st = "new" => act[a].st = "new")
  /\ act'[a].st \in Unfinished => act[a].st \in Unfinished
  /\ act'[a].st \in Clearable => act[a].st \in Clearable
  /\ a \in Turns /\ act'[a].st \in {"committing", "running"} => act'[a].st = act[a].st

(* Such actions have delivered nothing yet. *)
LEMMA TendedUnseen ==
  ASSUME Undelivered, UNCHANGED transcript, \A a \in Acts : Tended(a)
  PROVE  Undelivered'
BY DEF Delivered, Primary, Kept, Tended, Clearable, Undelivered

(* A step of the pump that has no notes in hand. *)
LEMMA TendedOnce ==
  ASSUME StoreInv, StoreInv', OnceParts, AgentDriven, ~agent.on,
         UNCHANGED <<pend, agent, transcript, evFailed>>,
         pump.pc \notin {"extensions", "commit", "running"},
         pump'.pc \notin {"extensions", "commit", "running"},
         pump'.notes = << >>, IsInjective(pump'.batch), IsInjective(pump'.turns),
         \A a \in Acts : Tended(a)
  PROVE  OnceParts'
<1>1. Captured(act)' = Captured(act)
  BY CapturedKept DEF Kept, Tended
<1>2. ~Retaken /\ ~Retaken'
  BY DEF Retaken
<1>3. MessagesOnce' /\ CaptureRuns'
  BY <1>1, <1>2, RestOnce DEF Kept, Tended
<1>4. /\ Undelivered /\ StockOnce /\ StockReady /\ BatchOnce /\ InFlight
  BY DEF OnceParts
<1>5. Undelivered'
  BY <1>4, TendedUnseen
<1>6. StockReady'
  BY <1>4 DEF StockReady, Kept, Tended
<1>7. BatchOnce'
  BY DEF BatchOnce
<1>8. InFlight'
  BY <1>4 DEF Acts, InFlight, Kept, Tended
<1>9. StockOnce'
  <2>1. Stock("pend")' = Stock("pend")
    BY StockType, StockTypeNext
  <2>2. Stock("pump")' = << >>
    BY <1>2, StockTypeNext
  <2>3. \A a \in Acts : Stock(a)' \in {Stock(a), << >>}
    BY StockType, StockTypeNext DEF Kept, Tended
  <2>4. IsInjective(<< >>) /\ Range(<< >>) = {}
    BY DEF IsInjective, Range
  <2>5. ASSUME NEW h \in Holders
        PROVE  IsInjective(Stock(h)') /\ Range(Stock(h)') \subseteq Range(Stock(h))
    BY <1>4, <2>1, <2>2, <2>3, <2>4 DEF Holders, StockOnce
  <2>6. "pend" \in Holders /\ Range(Stock("pend")') \cap Range(transcript) = {}
    BY <1>4, <2>1, PendUnseen, StockType DEF Holders
  <2> QED BY <1>1, <1>4, <2>5, <2>6, Handover
<1> QED BY <1>3, <1>5, <1>6, <1>7, <1>8, <1>9 DEF OnceParts


(* The first element that a filter keeps is the first of what it keeps. *)
LEMMA FirstOf ==
  ASSUME NEW T, NEW s \in Seq(T), NEW S, NEW p \in 1 .. Len(s), s[p] \in S,
         \A i \in 1 .. p - 1 : s[i] \notin S
  PROVE  Keep(s, S) # << >> /\ Keep(s, S)[1] = s[p]
<1>1. Range(Keep(s, S)) = Range(s) \cap S
  BY KeepFacts
<1>2. s[p] \in Range(s)
  BY DEF Range
<1>3. Keep(s, S) # << >>
  BY <1>1, <1>2 DEF Range
<1>4. PICK r \in 1 .. Len(s) : /\ s[r] = Keep(s, S)[1] /\ s[r] \in S
                               /\ \A i \in 1 .. r - 1 : s[i] \notin S
  BY <1>3, FirstKept
<1>5. r = p
  BY <1>4
<1> QED BY <1>3, <1>4, <1>5

(* The first of all queued actions is the first of its lane. *)
LEMMA QueuedFirst ==
  ASSUME StoreInv, NEW f, InState({"queued"}) # << >>, f = InState({"queued"})[1]
  PROVE  /\ f \in Acts /\ QueuedIn(act[f].lane) # << >> /\ QueuedIn(act[f].lane)[1] = f
         /\ QueuedIn(act[f].lane) \in Seq(Acts) /\ IsInjective(QueuedIn(act[f].lane))
<1> DEFINE S == {a \in Acts : act[a].st = "queued"}
           l == lanes["next_turn_boundary"]
           k == lanes["when_run_idle"]
<1>1. /\ l \in Seq(Acts) /\ k \in Seq(Acts) /\ TypeOK
      /\ {"next_turn_boundary", "when_run_idle"} \subseteq Lanes
  BY StoreFacts DEF Shelves, Lanes
<1>2. InState({"queued"}) = Keep(l \o k, S) /\ \A e \in Lanes : QueuedIn(e) = Keep(lanes[e], S)
  BY DEF InState, Owned, QueuedIn
<1> HIDE DEF l, k, S
<1>3. l \o k \in Seq(Acts) /\ Len(l \o k) = Len(l) + Len(k) /\ Len(l) \in Nat /\ Len(k) \in Nat
  BY <1>1
<1>4. PICK p \in 1 .. Len(l \o k) : /\ (l \o k)[p] = f /\ f \in S
                                    /\ \A i \in 1 .. p - 1 : (l \o k)[i] \notin S
  <2> DEFINE w == l \o k
  <2>1. w \in Seq(Acts) /\ Keep(w, S) # << >> /\ f = Keep(w, S)[1]
    BY <1>2, <1>3
  <2> HIDE DEF w
  <2>2. PICK p \in 1 .. Len(w) : /\ w[p] = Keep(w, S)[1] /\ w[p] \in S
                                 /\ \A i \in 1 .. p - 1 : w[i] \notin S
    BY <2>1, FirstKept
  <2> QED BY <2>1, <2>2 DEF w
<1>5. \A i \in 1 .. Len(l) + Len(k) : (l \o k)[i] = IF i <= Len(l) THEN l[i] ELSE k[i - Len(l)]
  BY <1>1
<1>6. ASSUME NEW e \in Lanes, f \in Range(lanes[e]), NEW r \in 1 .. Len(lanes[e]), lanes[e][r] = f,
             \A i \in 1 .. r - 1 : lanes[e][i] \notin S
      PROVE  /\ QueuedIn(act[f].lane) # << >> /\ QueuedIn(act[f].lane)[1] = f
             /\ QueuedIn(act[f].lane) \in Seq(Acts) /\ IsInjective(QueuedIn(act[f].lane))
  <2>1. act[f].lane = e /\ IsInjective(lanes[e])
    BY <1>1, <1>6 DEF TypeOK
  <2>2. lanes[e] \in Seq(Acts)
    BY StoreFacts
  <2>3. Keep(lanes[e], S) # << >> /\ Keep(lanes[e], S)[1] = f
    BY <1>4, <1>6, <2>2, FirstOf
  <2>4. Keep(lanes[e], S) \in Seq(Acts) /\ IsInjective(Keep(lanes[e], S))
    BY <2>1, <2>2, KeepFacts
  <2> QED BY <1>2, <2>1, <2>3, <2>4
<1>7. CASE p <= Len(l)
  <2>1. p \in 1 .. Len(l) /\ l[p] = f /\ \A i \in 1 .. p - 1 : l[i] \notin S
    BY <1>3, <1>4, <1>5, <1>7
  <2>2. f \in Range(l)
    BY <1>1, <2>1 DEF Range
  <2>3. \E e \in Lanes : l = lanes[e]
    BY <1>1 DEF l
  <2> QED BY <1>4, <1>6, <2>1, <2>2, <2>3 DEF S
<1>8. CASE ~(p <= Len(l))
  <2> DEFINE r == p - Len(l)
  <2>1. r \in 1 .. Len(k) /\ k[r] = f /\ \A i \in 1 .. r - 1 : k[i] \notin S
    <3>1. r \in 1 .. Len(k) /\ p \in 1 .. Len(l) + Len(k)
      BY <1>3, <1>8
    <3>2. \A i \in 1 .. r - 1 : /\ i + Len(l) \in 1 .. Len(l) + Len(k) /\ ~(i + Len(l) <= Len(l))
                                /\ i + Len(l) \in 1 .. p - 1 /\ (i + Len(l)) - Len(l) = i
      BY <1>3, <3>1
    <3>3. k[r] = f
      BY <1>4, <1>5, <1>8, <3>1
    <3>4. ASSUME NEW i \in 1 .. r - 1 PROVE k[i] \notin S
      <4>1. (l \o k)[i + Len(l)] = k[i]
        <5> HIDE DEF r
        <5> QED BY <1>5, <3>2
      <4>2. (l \o k)[i + Len(l)] \notin S
        <5> HIDE DEF r
        <5> QED BY <1>4, <3>2
      <4> QED BY <4>1, <4>2
    <3> QED BY <3>1, <3>3, <3>4
  <2> HIDE DEF r
  <2>2. f \in Range(k)
    BY <1>1, <2>1 DEF Range
  <2>3. \E e \in Lanes : k = lanes[e]
    BY <1>1 DEF k
  <2> QED BY <1>4, <1>6, <2>1, <2>2, <2>3 DEF S
<1> QED BY <1>4, <1>7, <1>8 DEF S

(* The turns of a batch are different ones. *)
LEMMA BatchInjective ==
  ASSUME StoreInv, NEW first \in Acts, act[first].st \in {"selected", "queued"},
         pump.pre = None => /\ act[first].st = "queued" /\ InState({"queued"}) # << >>
                            /\ first = InState({"queued"})[1]
  PROVE  IsInjective(Batch(first))
<1> DEFINE q == QueuedIn(act[first].lane)
<1>1. \/ Batch(first) = <<first>>
      \/ pump.pre = None /\ \E n \in 1 .. Len(q) : Batch(first) = <<first>> \o SubSeq(q, 2, n)
  BY BatchFacts
<1>2. CASE Batch(first) = <<first>>
  BY <1>2 DEF IsInjective
<1>3. ASSUME pump.pre = None, NEW n \in 1 .. Len(q), Batch(first) = <<first>> \o SubSeq(q, 2, n)
      PROVE  IsInjective(Batch(first))
  <2>1. q \in Seq(Acts) /\ IsInjective(q) /\ q # << >> /\ q[1] = first
    BY <1>3, QueuedFirst
  <2> HIDE DEF q
  <2> DEFINE t == SubSeq(q, 2, n)
             b == <<first>> \o t
  <2>2. Len(q) \in Nat /\ n \in Nat /\ n >= 1 /\ n <= Len(q) /\ DOMAIN q = 1 .. Len(q)
    BY <2>1
  <2>3. t \in Seq(Acts) /\ Len(t) = n - 1 /\ \A i \in 1 .. n - 1 : t[i] = q[i + 1]
    <3>1. t = [i \in 1 .. n - 1 |-> q[i + 1]]
      BY <2>1, <2>2
    <3>2. n - 1 \in Nat /\ \A i \in 1 .. n - 1 : i + 1 \in 1 .. Len(q)
      BY <2>2
    <3>3. \A i \in 1 .. n - 1 : q[i + 1] \in Acts
      BY <2>1, <3>2
    <3> HIDE DEF t
    <3> QED BY <3>1, <3>2, <3>3
  <2> HIDE DEF t
  <2>4. b \in Seq(Acts) /\ Len(b) = n /\ DOMAIN b = 1 .. n
        /\ \A i \in 1 .. n : b[i] = IF i <= 1 THEN first ELSE t[i - 1]
    <3>1. <<first>> \in Seq(Acts) /\ Len(<<first>>) = 1 /\ <<first>>[1] = first
      OBVIOUS
    <3>2. b \in Seq(Acts) /\ Len(b) = 1 + Len(t)
      BY <2>3, <3>1
    <3>3. \A i \in 1 .. 1 + Len(t) : b[i] = IF i <= 1 THEN <<first>>[i] ELSE t[i - 1]
      BY <2>3, <3>1
    <3>4. 1 + Len(t) = n
      BY <2>2, <2>3
    <3>5. DOMAIN b = 1 .. n
      BY <3>2, <3>4
    <3>6. \A i \in 1 .. n : i <= 1 => i = 1
      OBVIOUS
    <3> HIDE DEF b
    <3> QED BY <3>1, <3>2, <3>3, <3>4, <3>5, <3>6
  <2> HIDE DEF b
  <2>5. \A i \in 1 .. n : b[i] = q[i] /\ i \in 1 .. Len(q)
    <3> SUFFICES ASSUME NEW i \in 1 .. n PROVE b[i] = q[i] /\ i \in 1 .. Len(q)
      OBVIOUS
    <3>1. i \in 1 .. Len(q)
      BY <2>2
    <3>2. CASE i <= 1
      BY <2>1, <2>4, <3>1, <3>2
    <3>3. CASE ~(i <= 1)
      BY <2>2, <2>3, <2>4, <3>1, <3>3
    <3> QED BY <3>2, <3>3
  <2>6. IsInjective(b)
    BY <2>1, <2>2, <2>4, <2>5 DEF IsInjective
  <2> QED BY <1>3, <2>6 DEF b, t
<1> QED BY <1>1, <1>2, <1>3


(* Actions that are put in another state before their dispatch. *)
LEMMA RestatedTended ==
  ASSUME StoreInv, NEW S, NEW s \in Clearable, act' = SetState(act, S, s),
         \A a \in Acts \cap S : act[a].st \in Clearable
  PROVE  \A a \in Acts : Tended(a)
<1>1. act \in [Acts -> Actions]
  BY StoreFacts
<1>2. ASSUME NEW a \in Acts PROVE Tended(a)
  <2>1. CASE a \in S
    BY <1>1, <2>1 DEF SetState, Actions, Kept, Tended, Clearable, Unfinished
  <2>2. CASE a \notin S
    BY <2>2 DEF SetState, Tended, Kept
  <2> QED BY <2>1, <2>2
<1> QED BY <1>2

(* The steps of the pump before it has notes in hand. *)
LEMMA TendingOnce ==
  ASSUME StoreInv, StoreInv', OnceParts, AgentDriven,
         StartPump \/ AgentIdle \/ SelectInput \/ StartCommand \/ EndCommand
  PROVE  OnceParts'
<1>0. /\ pump \in Pumps /\ act \in [Acts -> Actions] /\ BatchStates
      /\ StockReady /\ BatchOnce
  BY StoreFacts, SMTT(30) DEF OnceParts
<1>1. UNCHANGED <<pend, agent, transcript, evFailed>>
  BY DEF StartPump, AgentIdle, SelectInput, StartCommand, EndCommand, pumpRest, storeVars
<1>2. pump.pc \notin {"extensions", "commit", "running"}
  BY DEF StartPump, AgentIdle, SelectInput, StartCommand, EndCommand, AppendFails
<1>3. ~agent.on /\ pump.notes = << >> /\ IsInjective(pump.turns) /\ IsInjective(pump.batch)
  BY <1>0, <1>2 DEF AgentDriven, StockReady, BatchOnce
<1>4. IsInjective(<< >>) /\ \A x : IsInjective(<<x>>)
  BY DEF IsInjective
<1>5. SUFFICES /\ \A a \in Acts : Tended(a)
               /\ pump'.pc \notin {"extensions", "commit", "running"} /\ pump'.notes = << >>
               /\ IsInjective(pump'.batch) /\ IsInjective(pump'.turns)
  BY <1>1, <1>2, <1>3, TendedOnce
<1> DEFINE Idle(p) == /\ p.pc \notin {"extensions", "commit", "running"} /\ p.notes = << >>
                      /\ IsInjective(p.batch) /\ IsInjective(p.turns)
<1>6. Idle(NoPump)
  BY <1>4, EmptyHanded
<1>7. ASSUME UNCHANGED act PROVE \A a \in Acts : Tended(a)
  BY <1>7 DEF Tended, Kept
<1> HIDE DEF Idle
<1>8. SUFFICES (\A a \in Acts : Tended(a)) /\ Idle(pump')
  BY DEF Idle
<1>9. {"queued", "selected", "preparing"} = Clearable
  BY DEF Clearable
<1>10. CASE StartPump
  <2>1. /\ UNCHANGED act
        /\ \/ pump' = NoPump \/ pump' = [NoPump EXCEPT !.pc = "idle", !.epoch = Head(sch.queue)]
    BY <1>10 DEF StartPump, storeVars
  <2>2. pump' = [NoPump EXCEPT !.pc = "idle", !.epoch = Head(sch.queue)] => Idle(pump')
    BY <1>4, Woken DEF Idle
  <2> QED BY <1>6, <1>7, <2>1, <2>2
<1>11. CASE AgentIdle
  <2> DEFINE S == {a \in Acts : Preselected # <<>> /\ a = Preselected[1]}
  <2>1. \/ pump' = NoPump /\ act' = SetState(act, S, "queued")
        \/ UNCHANGED act /\ \E x : pump' = [pump EXCEPT !.pc = "select", !.pre = x]
    BY <1>11 DEF AgentIdle
  <2>2. \A a \in Acts \cap S : act[a].st \in Clearable
    BY <1>9, InStateFacts DEF Preselected
  <2> HIDE DEF S
  <2>3. CASE pump' = NoPump /\ act' = SetState(act, S, "queued")
    BY <1>6, <1>9, <2>2, <2>3, RestatedTended
  <2>4. ASSUME UNCHANGED act, NEW x, pump' = [pump EXCEPT !.pc = "select", !.pre = x]
        PROVE  (\A a \in Acts : Tended(a)) /\ Idle(pump')
    BY <1>0, <1>3, <1>7, <2>4 DEF Pumps, Idle
  <2> QED BY <2>1, <2>3, <2>4
<1>12. CASE SelectInput
  <2> DEFINE queued == InState({"queued"})
             first == IF pump.pre # None THEN pump.pre ELSE queued[1]
  <2>1. pump.pc = "select"
    BY <1>12 DEF SelectInput
  <2>2. \/ UNCHANGED act /\ pump' = NoPump
        \/ /\ pump.pre # None /\ UNCHANGED act
           /\ pump' = [pump EXCEPT !.pc = "command", !.batch = <<first>>]
        \/ /\ pump.pre = None /\ queued # << >> /\ act' = SetState(act, {first}, "selected")
           /\ pump' = [pump EXCEPT !.pc = "command", !.batch = <<first>>]
        \/ /\ pump.pre # None \/ queued # << >>
           /\ first \in Turns /\ act[first].st # "cancelled"
           /\ act' = SetState(act, Range(Batch(first)), "preparing")
           /\ pump' = [pump EXCEPT !.pc = "validate", !.batch = Batch(first)]
    BY <1>12 DEF SelectInput
  <2>3. queued # << >> => queued[1] \in Acts /\ act[queued[1]].st = "queued"
    BY InStateFacts
  <2>4. /\ pump.pre = None /\ queued # << >> => act[first].st = "queued" /\ first = queued[1]
        /\ pump.pre # None => act[first].st \in {"selected", "cancelled"}
    <3> HIDE DEF queued
    <3> QED BY <1>0, <2>1, <2>3 DEF BatchStates
  <2> HIDE DEF first
  <2>5. /\ pump' = [pump EXCEPT !.pc = "command", !.batch = <<first>>] => Idle(pump')
        /\ pump' = [pump EXCEPT !.pc = "validate", !.batch = Batch(first)] /\ IsInjective(Batch(first))
             => Idle(pump')
    <3> DEFINE u == <<first>>
               v == Batch(first)
    <3>1. IsInjective(u)
      BY <1>4
    <3> HIDE DEF u, v
    <3>2. pump' = [pump EXCEPT !.pc = "command", !.batch = u] => Idle(pump')
      BY <1>0, <1>3, <3>1 DEF Idle, Pumps
    <3>3. pump' = [pump EXCEPT !.pc = "validate", !.batch = v] /\ IsInjective(v) => Idle(pump')
      BY <1>0, <1>3 DEF Idle, Pumps
    <3> QED BY <3>2, <3>3 DEF u, v
  <2>6. CASE UNCHANGED act /\ pump' = NoPump
    BY <1>6, <1>7, <2>6
  <2>7. CASE pump' = [pump EXCEPT !.pc = "command", !.batch = <<first>>] /\ UNCHANGED act
    BY <1>4, <1>7, <2>5, <2>7
  <2>8. CASE /\ pump.pre = None /\ queued # << >> /\ act' = SetState(act, {first}, "selected")
             /\ pump' = [pump EXCEPT !.pc = "command", !.batch = <<first>>]
    BY <1>4, <1>9, <2>4, <2>5, <2>8, RestatedTended
  <2>9. CASE /\ pump.pre # None \/ queued # << >>
             /\ first \in Turns /\ act[first].st # "cancelled"
             /\ act' = SetState(act, Range(Batch(first)), "preparing")
             /\ pump' = [pump EXCEPT !.pc = "validate", !.batch = Batch(first)]
    <3>1. first \in Acts /\ act[first].st \in {"selected", "queued"}
          /\ (pump.pre = None => act[first].st = "queued")
      BY <2>4, <2>9 DEF Acts
    <3>2. \A a \in Range(Batch(first)) : a = first \/ (a \in Turns /\ act[a].st = "queued")
      BY <3>1, BatchFacts
    <3>3. \A a \in Acts \cap Range(Batch(first)) : act[a].st \in Clearable
      BY <1>9, <3>1, <3>2
    <3>4. \A a \in Acts : Tended(a)
      BY <1>9, <2>9, <3>3, RestatedTended
    <3>5. IsInjective(Batch(first))
      BY <2>4, <2>9, <3>1, BatchInjective
    <3> QED BY <2>5, <2>9, <3>4, <3>5
  <2> QED BY <2>2, <2>6, <2>7, <2>8, <2>9
<1>13. CASE StartCommand
  <2> DEFINE a == pump.batch[1]
             d == Settle(act[a].delivered, "not_applicable")
  <2>1. pump.pc = "command"
    BY <1>13 DEF StartCommand
  <2>2. a \in Acts /\ a \notin Turns /\ act[a].st \in {"selected", "cancelled"}
    BY <1>0, <2>1, SessionActionsAssumption DEF BatchStates, Acts
  <2>3. \/ pump' = NoPump /\ UNCHANGED act
        \/ pump' = NoPump /\ act' = SetState(act, {a}, "queued") /\ act[a].st # "cancelled"
        \/ /\ act[a].st # "cancelled" /\ pump' = [pump EXCEPT !.pc = "executing"]
           /\ act' = [act EXCEPT ![a] = [act[a] EXCEPT !.st = "running", !.delivered = d]]
    BY <1>13 DEF StartCommand
  <2> HIDE DEF a, d
  <2>4. CASE pump' = NoPump /\ UNCHANGED act
    BY <1>6, <1>7, <2>4
  <2>5. CASE pump' = NoPump /\ act' = SetState(act, {a}, "queued") /\ act[a].st # "cancelled"
    BY <1>6, <1>9, <2>2, <2>5, RestatedTended
  <2>6. CASE /\ act[a].st # "cancelled" /\ pump' = [pump EXCEPT !.pc = "executing"]
             /\ act' = [act EXCEPT ![a] = [act[a] EXCEPT !.st = "running", !.delivered = d]]
    <3>1. \A b \in Acts : b # a => act'[b] = act[b]
      BY <1>0, <2>6
    <3>2. act'[a] = [act[a] EXCEPT !.st = "running", !.delivered = d] /\ act[a] \in Actions
      BY <1>0, <2>2, <2>6
    <3>3. act'[a].st = "running" /\ Kept(a)
      BY <3>2 DEF Actions, Kept
    <3>4. Tended(a)
      BY <2>2, <2>6, <3>3 DEF Tended, Clearable, Unfinished
    <3>5. /\ pump'.pc = "executing" /\ pump'.notes = pump.notes /\ pump'.batch = pump.batch
          /\ pump'.turns = pump.turns
      BY <1>0, <2>6 DEF Pumps
    <3>6. \A b \in Acts : Tended(b)
      BY <3>1, <3>4 DEF Tended, Kept
    <3> QED BY <1>3, <3>5, <3>6 DEF Idle
  <2> QED BY <2>3, <2>4, <2>5, <2>6
<1>14. CASE EndCommand
  <2>1. \A b \in Acts : Tended(b)
    BY <1>14, CommandEnds DEF Tended, Clearable, Unfinished, Kept, Acts
  <2> QED BY <1>6, <1>14, <2>1, CommandEnds
<1> QED BY <1>10, <1>11, <1>12, <1>13, <1>14


(* Notes of the pump in front of those that wait: each is there once. *)
LEMMA GivenBack ==
  ASSUME StoreInv, StockOnce, ~Retaken, NEW d \in Seq(NoteMsgs), IsInjective(d),
         Range(d) \subseteq Range(pump.notes)
  PROVE  Range(d \o pend) = Range(d) \cup Range(pend) /\ IsInjective(d \o pend)
<1>1. pend \in Seq(NoteMsgs)
  BY StoreFacts
<1>2. /\ "pend" \in Holders /\ "pump" \in Holders
      /\ Stock("pend") = pend /\ Stock("pump") = pump.notes
  BY StockType DEF Holders
<1>3. IsInjective(pend)
  BY <1>2 DEF StockOnce
<1>4. ASSUME NEW x \in Range(d), x \in Range(pend) PROVE FALSE
  BY <1>2, <1>4 DEF StockOnce
<1> QED BY <1>1, <1>3, <1>4, ConcatRange, ConcatInjective

(* A batch that is given up gives back the notes that were not delivered. *)
LEMMA ThrowOnce ==
  ASSUME StoreInv, StoreInv', RejectedInv, OnceParts, ~agent.on, ~Retaken,
         pump.pc \in {"validate", "extensions", "commit", "running"},
         NEW deferral \in BOOLEAN, Throw(deferral), UNCHANGED <<agent, transcript, evFailed>>
  PROVE  OnceParts'
<1>0. /\ Undelivered /\ StockOnce /\ StockReady /\ BatchOnce /\ InFlight /\ AgentDriven
      /\ BegunIsHeard /\ NewAreFresh /\ pump \in Pumps /\ act \in [Acts -> Actions]
  BY StoreFacts DEF OnceParts, RejectedInv, Shelves
<1>1. /\ pump'.pc \in {"off", "idle"} /\ pump'.batch = << >> /\ pump'.turns = << >>
      /\ pump'.notes = << >>
      /\ \A a \in Acts : a \notin Range(pump.batch) => act'[a] = act[a]
      /\ \A a \in Range(pump.batch) :
           /\ act'[a].durable = Delivered(a) /\ act'[a].started = act[a].started
           /\ act'[a].captured = act[a].captured /\ act'[a].next = << >>
           /\ act[a].st = "cancelled" => act'[a].st = "cancelled" /\ act'[a].prefix = act[a].prefix
           /\ act[a].st # "cancelled" =>
                /\ act'[a].prefix = Drop(act[a].prefix, Range(transcript))
                /\ act'[a].st = (IF ~deferral THEN "failed"
                                 ELSE IF Delivered(a) THEN act[a].st ELSE "queued")
  BY ThrowActs, EmptyHanded, SMTT(30)
<1>2. pend' = Drop(pump.notes, Range(transcript)) \o pend
  BY DEF Throw
<1>3. \A a \in Range(pump.batch) :
        a \in Acts /\ a \in Turns /\ act[a].st \in {"preparing", "committing", "running", "cancelled"}
  BY BatchWork
<1>4. IsInjective(<< >>) /\ Range(<< >>) = {}
  BY DEF IsInjective, Range
<1>5. ~Retaken'
  BY <1>1 DEF Retaken
<1>6. Captured(act)' \subseteq Captured(act) /\ \A a \in Acts : act'[a].captured => act[a].captured
  <2>1. ASSUME NEW a \in Acts, act'[a].captured
        PROVE  /\ act[a].captured /\ Range(act'[a].prefix) \subseteq Range(act[a].prefix)
               /\ Range(act'[a].next) \subseteq Range(act[a].next)
    <3>1. CASE a \in Range(pump.batch)
      BY <1>0, <1>1, <1>4, <2>1, <3>1 DEF NewAreFresh
    <3>2. CASE a \notin Range(pump.batch)
      BY <1>1, <2>1, <3>2
    <3> QED BY <3>1, <3>2
  <2> QED BY <2>1, CapturedLess
<1>7. MessagesOnce' /\ CaptureRuns'
  BY <1>0, <1>5, <1>6, RestOnce
<1>8. Undelivered'
  <2> SUFFICES ASSUME NEW a \in Acts, act'[a].st \in {"new", "queued", "selected", "preparing"}
               PROVE  ~Delivered(a)'
    BY DEF Undelivered
  <2>1. CASE a \notin Range(pump.batch)
    BY <1>0, <1>1, <2>1 DEF Undelivered, Delivered, Primary
  <2>2. CASE a \in Range(pump.batch)
    BY <1>0, <1>1, <2>2 DEF Undelivered, Delivered, Primary
  <2> QED BY <2>1, <2>2
<1>9. StockReady'
  <2>1. ASSUME NEW a \in Acts, act'[a].st \in Clearable
        PROVE  act'[a].next = << >> /\ Range(act'[a].prefix) \cap Range(transcript) = {}
    <3>1. CASE a \notin Range(pump.batch)
      BY <1>0, <1>1, <2>1, <3>1 DEF StockReady
    <3>2. CASE a \in Range(pump.batch)
      BY <1>0, <1>1, <2>1, <3>2, DropFacts DEF Clearable, Actions
    <3> QED BY <3>1, <3>2
  <2> QED BY <1>1, <2>1 DEF StockReady
<1>10. BatchOnce'
  BY <1>1, <1>4 DEF BatchOnce
<1>11. InFlight'
  <2>1. ASSUME NEW a \in Turns, act'[a].st \in {"committing", "running"}, ~act'[a].durable
        PROVE  FALSE
    <3>0. a \in Acts
      BY DEF Acts
    <3>1. CASE a \notin Range(pump.batch)
      BY <1>0, <1>1, <2>1, <3>0, <3>1, StoreFacts DEF InFlight, BatchStates
    <3>2. CASE a \in Range(pump.batch)
      BY <1>1, <2>1, <3>2
    <3> QED BY <3>1, <3>2
  <2>2. ASSUME NEW a \in Acts, act'[a].durable PROVE act'[a].started
    <3>1. CASE a \notin Range(pump.batch)
      BY <1>0, <1>1, <2>2, <3>1 DEF InFlight
    <3>2. CASE a \in Range(pump.batch)
      BY <1>0, <1>1, <2>2, <3>2 DEF Delivered, Seen, InFlight, BegunIsHeard
    <3> QED BY <3>1, <3>2
  <2> QED BY <2>1, <2>2 DEF InFlight
<1>12. StockOnce'
  <2>1. /\ Stock("pump") = pump.notes /\ Stock("pend") = pend
        /\ Stock("pump")' = << >> /\ Stock("pend")' = pend'
        /\ "pump" \in Holders /\ "pend" \in Holders /\ "pump" # "pend"
    BY <1>1, <1>5, StockType, StockTypeNext DEF Holders
  <2>2. /\ Range(pend') = (Range(pump.notes) \ Range(transcript)) \cup Range(pend)
        /\ IsInjective(pend')
    <3> DEFINE d == Drop(pump.notes, Range(transcript))
    <3>1. pump.notes \in Seq(NoteMsgs) /\ IsInjective(pump.notes)
      BY <1>0, <2>1 DEF Pumps, StockOnce
    <3>2. d \in Seq(NoteMsgs) /\ Range(d) = Range(pump.notes) \ Range(transcript) /\ IsInjective(d)
      BY <3>1, DropFacts
    <3> HIDE DEF d
    <3>3. Range(d \o pend) = Range(d) \cup Range(pend) /\ IsInjective(d \o pend)
      BY <1>0, <3>2, GivenBack
    <3> QED BY <1>2, <3>2, <3>3 DEF d
  <2>3. ASSUME NEW a \in Acts
        PROVE  IsInjective(Stock(a)') /\ Range(Stock(a)') \subseteq Range(Stock(a))
    <3>1. IsInjective(Stock(a)) /\ a \in Holders
      BY <1>0 DEF StockOnce, Holders
    <3>2. /\ Stock(a) = IF act[a].st \in Unfinished THEN act[a].prefix ELSE << >>
          /\ Stock(a)' = IF act'[a].st \in Unfinished THEN act'[a].prefix ELSE << >>
      BY StockType, StockTypeNext
    <3>3. CASE a \notin Range(pump.batch)
      BY <1>1, <3>1, <3>2, <3>3
    <3>4. CASE a \in Range(pump.batch) /\ act'[a].st \in Unfinished
      BY <1>0, <1>1, <1>3, <3>1, <3>2, <3>4, DropFacts DEF Unfinished, Actions
    <3>5. CASE act'[a].st \notin Unfinished
      BY <1>4, <3>2, <3>5
    <3> QED BY <3>3, <3>4, <3>5
  <2>4. \A h \in Holders : IsInjective(Stock(h)')
    BY <1>4, <2>1, <2>2, <2>3 DEF Holders
  <2>5. \A h \in Holders : h # "pend" => Range(Stock(h)') \subseteq Range(Stock(h))
    BY <1>4, <2>1, <2>3 DEF Holders
  <2>6. Range(pend') \cap Range(transcript) = {}
    BY <1>0, <2>2, PendUnseen
  <2>7. Range(transcript') \cap Captured(act) \subseteq Captured(act)'
    BY DEF OnceParts, CaptureRuns
  <2> QED BY <1>0, <1>4, <1>6, <2>1, <2>2, <2>4, <2>5, <2>6, <2>7, Handover
<1> QED BY <1>7, <1>8, <1>9, <1>10, <1>11, <1>12 DEF OnceParts


(* A step of the pump that leaves the actions as they are. *)
LEMMA StillOnce ==
  ASSUME StoreInv, StoreInv', OnceParts, AgentDriven, StockOnce', ~agent.on,
         UNCHANGED <<act, agent, transcript, evFailed>>,
         pump.pc # "running", pump'.pc # "running",
         IsInjective(pump'.batch), IsInjective(pump'.turns),
         pump'.pc = "commit" => pump'.turns # << >>,
         pump'.pc \notin {"extensions", "commit"} => pump'.notes = << >>,
         Range(pump'.notes) \cap Range(transcript) = {}
  PROVE  OnceParts'
<1>1. \A a \in Acts : Tended(a)
  BY DEF Tended, Kept
<1>2. Captured(act)' = Captured(act)
  BY CapturedKept
<1>3. ~Retaken /\ ~Retaken'
  BY DEF Retaken
<1>4. MessagesOnce' /\ CaptureRuns'
  BY <1>2, <1>3, RestOnce
<1>5. /\ Undelivered /\ StockReady /\ InFlight
  BY DEF OnceParts
<1>6. Undelivered'
  BY <1>1, <1>5, TendedUnseen
<1>7. StockReady'
  BY <1>5 DEF StockReady
<1>8. BatchOnce'
  BY DEF BatchOnce
<1>9. InFlight'
  BY <1>5 DEF InFlight
<1> QED BY <1>4, <1>6, <1>7, <1>8, <1>9 DEF OnceParts

(* What the holders have when the actions keep theirs. *)
LEMMA StillStock ==
  ASSUME StoreInv, StoreInv', StockOnce, ~Retaken, ~Retaken', UNCHANGED transcript,
         Captured(act)' = Captured(act), \A a \in Acts : Stock(a)' = Stock(a),
         \/ UNCHANGED pend /\ pump'.notes \in {pump.notes, << >>}
         \/ pend' = << >> /\ pump'.notes = pend
         \/ /\ pend' = pump.notes \o pend /\ pump'.notes = << >>
            /\ Range(pump.notes) \cap Range(transcript) = {}
  PROVE  StockOnce'
<1>1. /\ Stock("pump") = pump.notes /\ Stock("pend") = pend
      /\ Stock("pump")' = pump'.notes /\ Stock("pend")' = pend'
      /\ "pump" \in Holders /\ "pend" \in Holders /\ "pump" # "pend"
  BY StockType, StockTypeNext DEF Holders
<1>3. \A h \in Holders : h \notin {"pend", "pump"} => Stock(h)' = Stock(h)
  BY DEF Holders
<1>5. IsInjective(<< >>) /\ Range(<< >>) = {}
  BY DEF IsInjective, Range
<1>6. \A h \in Holders : IsInjective(Stock(h))
  BY DEF StockOnce
<1>7. Range(pend) \cap Range(transcript) = {}
  BY PendUnseen
<1>8. CASE UNCHANGED pend /\ pump'.notes \in {pump.notes, << >>}
  <2>1. ASSUME NEW h \in Holders
        PROVE  IsInjective(Stock(h)') /\ Range(Stock(h)') \subseteq Range(Stock(h))
    BY <1>1, <1>3, <1>5, <1>6, <1>8
  <2> QED BY <1>1, <1>7, <1>8, <2>1, Handover
<1>9. CASE pend' = << >> /\ pump'.notes = pend
  BY <1>1, <1>3, <1>5, <1>6, <1>9, Handover
<1>10. CASE /\ pend' = pump.notes \o pend /\ pump'.notes = << >>
            /\ Range(pump.notes) \cap Range(transcript) = {}
  <2>1. pump.notes \in Seq(NoteMsgs) /\ IsInjective(pump.notes)
    BY <1>1, <1>6, StoreFacts DEF Pumps
  <2>2. Range(pend') = Range(pump.notes) \cup Range(pend) /\ IsInjective(pend')
    BY <1>10, <2>1, GivenBack
  <2>3. \A h \in Holders : IsInjective(Stock(h)')
    BY <1>1, <1>3, <1>5, <1>6, <1>10, <2>2
  <2>4. \A h \in Holders : h # "pend" => Range(Stock(h)') \subseteq Range(Stock(h))
    BY <1>1, <1>3, <1>5, <1>10
  <2> QED BY <1>1, <1>5, <1>7, <1>10, <2>2, <2>3, <2>4, Handover
<1> QED BY <1>8, <1>9, <1>10

(* The preparation of a batch. *)
LEMMA PreparingOnce ==
  ASSUME StoreInv, StoreInv', RejectedInv, OnceParts, Validate \/ Prepare
  PROVE  OnceParts'
<1>0. /\ pump \in Pumps /\ act \in [Acts -> Actions] /\ AgentDriven /\ StockOnce /\ StockReady
      /\ BatchOnce
  BY StoreFacts DEF OnceParts, RejectedInv
<1>1. pump.pc \in {"validate", "extensions"} /\ UNCHANGED <<agent, transcript, evFailed>>
  BY DEF Validate, Prepare, pumpRest
<1>2. ~agent.on /\ ~Retaken
  BY <1>0, <1>1 DEF AgentDriven, Retaken
<1>3. CASE Throw(Deferred)
  BY <1>1, <1>2, <1>3, DeferralType, ThrowOnce
<1>4. IsInjective(<< >>) /\ Range(<< >>) = {}
  BY DEF IsInjective, Range
<1>7. UNCHANGED act => /\ \A a \in Acts : Stock(a)' = Stock(a)
                       /\ Captured(act)' = Captured(act)
  BY CapturedKept, StockType, StockTypeNext
<1>5. CASE Validate /\ ~Throw(Deferred)
  <2> DEFINE direct == ~act[pump.batch[1]].vis
             n == IF direct THEN pend ELSE << >>
  <2>1. /\ pump.pc = "validate" /\ UNCHANGED act
        /\ pump' = [pump EXCEPT !.pc = "extensions", !.notes = n]
        /\ pend' = IF direct THEN << >> ELSE pend
    BY <1>5 DEF Validate, Fail
  <2>2. pump.notes = << >>
    BY <1>0, <2>1 DEF StockReady
  <2>3. \/ UNCHANGED pend /\ n = << >>
        \/ pend' = << >> /\ n = pend
    BY <2>1
  <2>4. Range(n) \cap Range(transcript) = {}
    BY <1>0, <1>4, PendUnseen
  <2> HIDE DEF n, direct
  <2>5. /\ pump'.pc = "extensions" /\ pump'.notes = n /\ pump'.batch = pump.batch
        /\ pump'.turns = pump.turns
    BY <1>0, <2>1 DEF Pumps
  <2>6. ~Retaken'
    BY <2>5 DEF Retaken
  <2>7. StockOnce'
    BY <1>0, <1>1, <1>2, <1>7, <2>1, <2>2, <2>3, <2>5, <2>6, StillStock
  <2>8. IsInjective(pump'.batch) /\ IsInjective(pump'.turns)
    BY <1>0, <2>5 DEF BatchOnce
  <2> QED BY <1>0, <1>1, <1>2, <1>7, <2>1, <2>4, <2>5, <2>7, <2>8, StillOnce
<1>6. CASE Prepare /\ ~Throw(Deferred)
  <2>1. /\ pump.pc = "extensions" /\ UNCHANGED act
        /\ \/ pend' = pump.notes \o pend /\ pump' = Loop(act)
           \/ /\ ActiveTurns # << >> /\ UNCHANGED pend
              /\ pump' = [pump EXCEPT !.pc = "commit", !.turns = ActiveTurns]
    BY <1>6 DEF Prepare, Fail
  <2>2. Range(pump.notes) \cap Range(transcript) = {}
    BY <1>0, <2>1 DEF StockReady
  <2>3. CASE pend' = pump.notes \o pend /\ pump' = Loop(act)
    <3>1. /\ pump'.pc \in {"off", "idle"} /\ pump'.batch = << >> /\ pump'.turns = << >>
          /\ pump'.notes = << >>
      BY <2>3, EmptyHanded
    <3>2. ~Retaken'
      BY <3>1 DEF Retaken
    <3>3. StockOnce'
      BY <1>0, <1>1, <1>2, <1>7, <2>1, <2>2, <2>3, <3>1, <3>2, StillStock
    <3> QED BY <1>0, <1>1, <1>2, <1>4, <2>1, <3>1, <3>3, StillOnce
  <2>4. CASE /\ ActiveTurns # << >> /\ UNCHANGED pend
             /\ pump' = [pump EXCEPT !.pc = "commit", !.turns = ActiveTurns]
    <3>1. IsInjective(ActiveTurns)
      BY <1>0, KeepFacts DEF Pumps, BatchOnce, ActiveTurns
    <3>2. /\ pump'.pc = "commit" /\ pump'.notes = pump.notes /\ pump'.batch = pump.batch
          /\ pump'.turns = ActiveTurns
      BY <1>0, <2>4 DEF Pumps
    <3>3. ~Retaken'
      BY <3>2 DEF Retaken
    <3>4. StockOnce'
      BY <1>0, <1>1, <1>2, <1>7, <2>1, <2>4, <3>2, <3>3, StillStock
    <3>5. IsInjective(pump'.batch) /\ IsInjective(pump'.turns) /\ pump'.turns # << >>
      BY <1>0, <2>4, <3>1, <3>2 DEF BatchOnce
    <3> QED BY <1>0, <1>1, <1>2, <1>7, <2>1, <2>2, <3>2, <3>4, <3>5, StillOnce
  <2> QED BY <2>1, <2>3, <2>4
<1> QED BY <1>3, <1>5, <1>6


(* A dispatch that was taken back does not fail. *)
LEMMA RetakenSettles ==
  ASSUME Sole, StoreInv, OnceParts, Retaken,
         \/ \E a \in Range(pump.turns) : act[a].st # "cancelled" /\ ~Delivered(a)
         \/ evFailed
  PROVE  FALSE
<1>1. CaptureRuns /\ BatchOnce
  BY DEF OnceParts
<1>2. "event_fails" \notin Ops
  BY <1>1 DEF CaptureRuns, Sole
<1>3. ~evFailed
  BY <1>1, <1>2 DEF CaptureRuns
<1>4. pump.pc = "running" /\ act[pump.turns[1]].st = "cancelled"
  BY DEF Retaken
<1>5. pump.turns # << >> /\ pump.turns \in Seq(Acts)
  BY <1>1, <1>4, StoreFacts DEF BatchOnce, Pumps
<1>6. pump.turns[1] \in Range(pump.turns)
  BY <1>5, RangeFacts
<1>7. Range(pump.turns) = {pump.turns[1]}
  BY <1>1, <1>4, <1>6 DEF BatchOnce
<1> QED BY <1>3, <1>4, <1>7

(* The end of a dispatch. *)
LEMMA SettledOnce ==
  ASSUME Sole, StoreInv, StoreInv', RejectedInv, OnceParts, RunSettled
  PROVE  OnceParts'
<1> DEFINE missing == \E a \in Range(pump.turns) : act[a].st # "cancelled" /\ ~Delivered(a)
           A == [a \in Acts |->
                   IF a \in Range(pump.batch) /\ act[a].st \in {"committing", "running"}
                   THEN [act[a] EXCEPT !.st = "completed", !.completed = Settle(@, "ok")]
                   ELSE act[a]]
<1>0. /\ pump \in Pumps /\ act \in [Acts -> Actions] /\ AgentDriven /\ StockOnce /\ StockReady
      /\ BatchOnce /\ InFlight /\ Undelivered /\ BatchStates
  BY StoreFacts DEF OnceParts, RejectedInv
<1>1. pump.pc = "running" /\ ~agent.on /\ UNCHANGED <<agent, transcript, evFailed>>
  BY DEF RunSettled, pumpRest, Active
<1>2. \/ Throw(Deferred) /\ (missing \/ Rejected)
      \/ act' = A /\ (pump' = NoPump \/ pump' = Loop(A)) /\ UNCHANGED pend
  <2> HIDE DEF missing
  <2>1. IF missing \/ Rejected THEN Fail
        ELSE act' = A /\ (pump' = IF pump.epoch # sch.epoch THEN NoPump ELSE Loop(A)) /\ UNCHANGED pend
    BY DEF RunSettled, missing
  <2> HIDE DEF A
  <2> QED BY <2>1 DEF Fail
<1>3. CASE Throw(Deferred) /\ (missing \/ Rejected)
  BY <1>1, <1>3, RetakenSettles, DeferralType, ThrowOnce DEF Rejected
<1>4. CASE act' = A /\ (pump' = NoPump \/ pump' = Loop(A)) /\ UNCHANGED pend
  <2>1. /\ pump'.pc \in {"off", "idle"} /\ pump'.batch = << >> /\ pump'.turns = << >>
        /\ pump'.notes = << >>
    <3> HIDE DEF A
    <3> QED BY <1>4, EmptyHanded
  <2>2. ASSUME NEW a \in Acts
        PROVE  /\ Kept(a)
               /\ \/ act'[a].st = "completed"
                  \/ /\ act'[a].st = act[a].st
                     /\ a \notin Range(pump.batch) \/ act[a].st \notin {"committing", "running"}
    <3>1. CASE a \in Range(pump.batch) /\ act[a].st \in {"committing", "running"}
      <4> DEFINE c == Settle(act[a].completed, "ok")
      <4>1. act'[a] = [act[a] EXCEPT !.st = "completed", !.completed = c] /\ act[a] \in Actions
        BY <1>0, <1>4, <3>1
      <4> HIDE DEF c
      <4> QED BY <4>1 DEF Actions, Kept
    <3>2. CASE ~(a \in Range(pump.batch) /\ act[a].st \in {"committing", "running"})
      BY <1>4, <3>2 DEF Kept
    <3> QED BY <3>1, <3>2
  <2> HIDE DEF A
  <2>3. ~Retaken'
    BY <2>1 DEF Retaken
  <2>4. Captured(act)' = Captured(act)
    BY <2>2, CapturedKept DEF Kept
  <2>5. MessagesOnce' /\ CaptureRuns'
    BY <1>0, <1>1, <2>2, <2>3, <2>4, RestOnce DEF Kept
  <2>6. \A a \in Acts : Tended(a)
    BY <2>2 DEF Tended, Unfinished, Clearable
  <2>7. Undelivered'
    BY <1>0, <1>1, <2>6, TendedUnseen
  <2>8. StockReady'
    BY <1>0, <1>1, <2>1, <2>6 DEF StockReady, Tended, Kept
  <2>9. IsInjective(<< >>) /\ Range(<< >>) = {}
    BY DEF IsInjective, Range
  <2>10. BatchOnce'
    BY <2>1, <2>9 DEF BatchOnce
  <2>11. InFlight'
    <3>1. ASSUME NEW a \in Turns, act'[a].st \in {"committing", "running"}, ~act'[a].durable
          PROVE  FALSE
      BY <1>0, <1>1, <2>2, <3>1 DEF Acts, Kept, InFlight, BatchStates
    <3>2. \A a \in Acts : act'[a].durable => act'[a].started
      BY <1>0, <2>2 DEF InFlight, Kept
    <3> QED BY <3>1, <3>2 DEF InFlight
  <2>12. StockOnce'
    <3>1. /\ Stock("pend")' = Stock("pend") /\ Stock("pump")' = << >> /\ "pend" \in Holders
          /\ Stock("pend") = pend
      BY <1>4, <2>1, <2>3, StockType, StockTypeNext DEF Holders
    <3>2. \A a \in Acts : Stock(a)' \in {Stock(a), << >>}
      BY <2>6, StockType, StockTypeNext DEF Tended, Kept
    <3>3. ASSUME NEW h \in Holders
          PROVE  IsInjective(Stock(h)') /\ Range(Stock(h)') \subseteq Range(Stock(h))
      BY <1>0, <2>9, <3>1, <3>2 DEF Holders, StockOnce
    <3>4. Range(Stock("pend")') \cap Range(transcript) = {}
      BY <1>0, <3>1, PendUnseen
    <3> QED BY <1>0, <1>1, <2>4, <3>1, <3>3, <3>4, Handover
  <2> QED BY <2>5, <2>7, <2>8, <2>10, <2>11, <2>12 DEF OnceParts
<1> QED BY <1>2, <1>3, <1>4


(* What a dispatch takes in hand: the notes, and what the agent is told. *)
Told(a) == act'[a].prefix \o act'[a].next \o <<Primary(a)>>
HandedOver ==
  /\ Dispatched
  /\ \A a \in Acts : /\ act'[a].prefix = act[a].prefix
                     /\ act'[a].next = IF a = pump.turns[1] THEN pump'.notes ELSE act[a].next
  /\ \/ pump'.notes = pend /\ pend' = << >>
     \/ pump'.notes = pump.notes /\ UNCHANGED pend
  /\ agent'.todo = FlattenSeq([i \in 1 .. Len(pump.turns) |-> Told(pump.turns[i])])

(* What Commit hands over. *)
LEMMA CommitHands ==
  ASSUME StoreInv, Commit
  PROVE  (Throw(TRUE) /\ UNCHANGED agent) \/ HandedOver
<1> DEFINE stale == Deferred \/ Active \/ \E a \in Range(pump.turns) : act[a].st # "preparing"
           first == pump.turns[1]
           notes == IF act[pump.batch[1]].vis THEN pend ELSE pump.notes
           N == [act EXCEPT ![first].next = notes]
           A == SetState(N, Range(pump.turns), "committing")
           msgs(a) == A[a].prefix \o A[a].next \o <<Primary(a)>>
           todo == FlattenSeq([i \in 1 .. Len(pump.turns) |-> msgs(pump.turns[i])])
<1>1. stale => Throw(TRUE) /\ UNCHANGED agent
  BY DEF Commit
<1> SUFFICES ASSUME ~stale, ~(Throw(TRUE) /\ UNCHANGED agent) PROVE HandedOver
  BY <1>1
<1>2. /\ act' = A /\ pump' = [pump EXCEPT !.pc = "running", !.notes = notes]
      /\ agent' = [on |-> TRUE, mid |-> FALSE, todo |-> todo]
      /\ pend' = IF act[pump.batch[1]].vis THEN << >> ELSE pend
  BY DEF Commit
<1>3. Dispatched
  BY CommitSplits
<1>4. act \in [Acts -> Actions] /\ pump \in Pumps /\ pend \in Seq(NoteMsgs)
  BY StoreFacts
<1>5. \/ notes = pend /\ pend' = << >>
      \/ notes = pump.notes /\ UNCHANGED pend
  BY <1>2
<1>6. notes \in Seq(NoteMsgs)
  BY <1>4 DEF Pumps
<1>7. agent'.todo = FlattenSeq([i \in 1 .. Len(pump.turns) |-> Told(pump.turns[i])])
  <2>1. todo = FlattenSeq([i \in 1 .. Len(pump.turns) |-> Told(pump.turns[i])])
    BY <1>2 DEF Told
  <2> HIDE DEF todo
  <2> QED BY <1>2, <2>1
<1> HIDE DEF stale, notes, first, todo
<1>8. pump'.notes = notes
  BY <1>2, <1>4 DEF Pumps
<1>9. ASSUME NEW a \in Acts
      PROVE  /\ act'[a].prefix = act[a].prefix
             /\ act'[a].next = IF a = first THEN notes ELSE act[a].next
  <2>1. act[a] \in Actions
    BY <1>4
  <2>2. N[a] = IF a = first THEN [act[a] EXCEPT !.next = notes] ELSE act[a]
    BY <1>4
  <2>3. act'[a] = IF a \in Range(pump.turns) THEN [N[a] EXCEPT !.st = "committing"] ELSE N[a]
    BY <1>2 DEF SetState
  <2> HIDE DEF N
  <2>4. N[a] \in Actions /\ N[a].prefix = act[a].prefix
        /\ N[a].next = IF a = first THEN notes ELSE act[a].next
    BY <1>6, <2>1, <2>2 DEF Actions
  <2> QED BY <2>3, <2>4 DEF Actions
<1> QED BY <1>3, <1>5, <1>7, <1>8, <1>9 DEF HandedOver, first


(* Notes and prompts have different keys. *)
LEMMA KeysApart ==
  ASSUME NEW a \in Acts, NEW x \in NoteMsgs
  PROVE  x[1] \in Notes /\ Primary(a)[1] = a /\ x[1] # Primary(a)[1] /\ x # Primary(a)
BY SessionActionsAssumption DEF NoteMsgs, Primary

(* What the agent is told of one turn. *)
LEMMA ToldParts ==
  ASSUME StoreInv', StockOnce', HandedOver, ~Retaken', NEW a \in Acts, a \in Range(pump.turns),
         a # pump.turns[1] => act[a].next = << >>
  PROVE  /\ Told(a) \in Seq(NoteMsgs \cup {Primary(b) : b \in Acts}) /\ IsInjective(Told(a))
         /\ Range(Told(a)) = RecordsOf(a)'
         /\ \A x \in Range(Told(a)) :
              \/ x = Primary(a)
              \/ \E g \in Holders : /\ x \in Range(Stock(g)')
                                    /\ g = a \/ (g = "pump" /\ a = pump.turns[1])
<1> DEFINE p == act'[a].prefix
           n == act'[a].next
           m == Primary(a)
           T == NoteMsgs \cup {Primary(b) : b \in Acts}
           f == pump.turns[1]
<1>1. act'[a].st \in Unfinished
  BY DEF HandedOver, Dispatched, Unfinished
<1>2. /\ Stock(a)' = p /\ Stock("pump")' = pump'.notes /\ a \in Holders /\ "pump" \in Holders
      /\ a # "pump"
  BY <1>1, StockTypeNext DEF Holders
<1>3. p \in Seq(NoteMsgs) /\ n \in Seq(NoteMsgs)
  BY DEF StoreInv, StoreTypes, Actions
<1>4. (a = f /\ n = Stock("pump")') \/ n = << >>
  BY <1>2 DEF HandedOver
<1>5. IsInjective(<< >>) /\ Range(<< >>) = {}
  BY DEF IsInjective, Range
<1>6. IsInjective(p) /\ IsInjective(n)
  BY <1>2, <1>4, <1>5 DEF StockOnce
<1>7. Range(p) \cap Range(n) = {}
  BY <1>2, <1>4, <1>5 DEF StockOnce
<1>8. NoteMsgs \subseteq T /\ m \in T
  OBVIOUS
<1>9. Range(<<m>>) = {m} /\ IsInjective(<<m>>) /\ <<m>> \in Seq(T)
  BY <1>8 DEF Range, IsInjective
<1>10. Range(p) \subseteq NoteMsgs /\ Range(n) \subseteq NoteMsgs
  BY <1>3, RangeFacts
<1>11. m \notin NoteMsgs
  BY PrimaryApart
<1> DEFINE r == p \o n
           u == <<m>>
<1>12. r \in Seq(NoteMsgs) /\ Range(r) = Range(p) \cup Range(n) /\ IsInjective(r)
  <2> HIDE DEF p, n
  <2> QED BY <1>3, <1>6, <1>7, ConcatRange, ConcatInjective
<1>13. r \in Seq(T)
  <2> HIDE DEF r, T
  <2> QED BY <1>8, <1>12, SeqMono
<1>14. Range(r) \cap Range(u) = {}
  BY <1>9, <1>10, <1>11, <1>12
<1>15. u \in Seq(T) /\ IsInjective(u) /\ Range(u) = {m}
  BY <1>9
<1> HIDE DEF r, u, T
<1>16. r \o u \in Seq(T) /\ Range(r \o u) = Range(r) \cup Range(u) /\ IsInjective(r \o u)
  BY <1>12, <1>13, <1>14, <1>15, ConcatRange, ConcatInjective
<1>17. Told(a) = r \o u
  BY DEF Told, r, u
<1>18. Range(Told(a)) = Range(p) \cup Range(n) \cup {m}
  BY <1>12, <1>15, <1>16, <1>17
<1>19. RecordsOf(a)' = Range(p) \cup Range(n) \cup {m}
  BY DEF RecordsOf, Primary
<1>20. ASSUME NEW x \in Range(Told(a)), x # m
       PROVE  \E g \in Holders : x \in Range(Stock(g)') /\ (g = a \/ (g = "pump" /\ a = f))
  BY <1>2, <1>4, <1>5, <1>18, <1>20
<1> QED BY <1>16, <1>17, <1>18, <1>19, <1>20 DEF T

(* What the agent is told in all: each message is there once. *)
LEMMA ToldOnce ==
  ASSUME StoreInv, StoreInv', StockOnce', HandedOver, ~Retaken', IsInjective(pump.turns),
         \A a \in Range(pump.turns) : a # pump.turns[1] => act[a].next = << >>
  PROVE  /\ IsInjective(agent'.todo)
         /\ \A x \in Range(agent'.todo) : \E a \in Range(pump.turns) :
              /\ x \in RecordsOf(a)'
              /\ \/ x = Primary(a)
                 \/ \E g \in Holders : /\ x \in Range(Stock(g)')
                                       /\ g = a \/ (g = "pump" /\ a = pump.turns[1])
         /\ \A x, y \in Range(agent'.todo) : x[1] = y[1] => x = y
<1> DEFINE T == NoteMsgs \cup {Primary(b) : b \in Acts}
           t == pump.turns
           L == Len(t)
           ss == [i \in 1 .. L |-> Told(t[i])]
           Mine(x, a) == \/ x = Primary(a)
                         \/ \E g \in Holders : /\ x \in Range(Stock(g)')
                                               /\ g = a \/ (g = "pump" /\ a = t[1])
<1>1. /\ t \in Seq(Acts) /\ L \in Nat /\ DOMAIN t = 1 .. L
      /\ \A i \in 1 .. L : t[i] \in Acts /\ t[i] \in Range(t)
  <2>1. t \in Seq(Acts)
    BY StoreFacts DEF Pumps
  <2> HIDE DEF t
  <2> QED BY <2>1 DEF Range
<1>2. ASSUME NEW a \in Range(t)
      PROVE  /\ a \in Acts /\ Told(a) \in Seq(T) /\ IsInjective(Told(a))
             /\ Range(Told(a)) = RecordsOf(a)' /\ \A x \in Range(Told(a)) : Mine(x, a)
  <2>1. a \in Acts
    <3> HIDE DEF t
    <3> QED BY <1>1, RangeFacts
  <2> QED BY <2>1, ToldParts
<1> HIDE DEF Mine, T
<1>3. ss \in Seq(Seq(T)) /\ Len(ss) = L /\ \A i \in 1 .. L : ss[i] = Told(t[i])
  <2>1. \A i \in 1 .. L : Told(t[i]) \in Seq(T)
    BY <1>1, <1>2
  <2> HIDE DEF L
  <2> QED BY <1>1, <2>1
<1>4. agent'.todo = FlattenSeq(ss)
  BY DEF HandedOver
<1>5. ASSUME NEW a \in Range(t), NEW b \in Range(t), NEW x, NEW y, Mine(x, a), Mine(y, b), x[1] = y[1]
      PROVE  a = b /\ x = y
  <2>0. a \in Acts /\ b \in Acts /\ Primary(a)[1] = a /\ Primary(b)[1] = b
    BY <1>2 DEF Primary
  <2>1. \A g \in Holders : \A z \in Range(Stock(g)') : z[1] # a /\ z[1] # b
    BY <2>0, StockTypeNext, KeysApart
  <2>2. CASE x = Primary(a)
    BY <1>5, <2>0, <2>1, <2>2 DEF Mine
  <2>3. CASE x # Primary(a)
    BY <1>5, <2>0, <2>1, <2>3, StockTypeNext DEF Mine, StockOnce
  <2> QED BY <2>2, <2>3
<1>6. ASSUME NEW i \in 1 .. L, NEW j \in 1 .. L, i # j
      PROVE  Range(ss[i]) \cap Range(ss[j]) = {}
  BY <1>1, <1>2, <1>3, <1>5, <1>6 DEF IsInjective
<1>7. IsInjective(FlattenSeq(ss))
  <2>1. \A i \in 1 .. Len(ss) : IsInjective(ss[i])
    BY <1>1, <1>2, <1>3
  <2> HIDE DEF ss, L
  <2> QED BY <1>3, <1>6, <2>1, FlattenInjective
<1>8. ASSUME NEW x \in Range(agent'.todo)
      PROVE  \E a \in Range(t) : x \in RecordsOf(a)' /\ Mine(x, a)
  <2>1. PICK i \in 1 .. L : x \in Range(ss[i])
    <3> HIDE DEF ss, L
    <3> QED BY <1>3, <1>4, FlattenRange
  <2> QED BY <1>1, <1>2, <1>3, <2>1
<1>9. \A x, y \in Range(agent'.todo) : x[1] = y[1] => x = y
  BY <1>5, <1>8
<1> QED BY <1>4, <1>7, <1>8, <1>9 DEF Mine


(* The dispatch of a batch. *)
LEMMA DispatchOnce ==
  ASSUME StoreInv, StoreInv', RejectedInv, OnceParts, HandedOver, pump.pc = "commit",
         UNCHANGED <<transcript, evFailed>>
  PROVE  OnceParts'
<1> DEFINE t == pump.turns
<1>0. /\ pump \in Pumps /\ act \in [Acts -> Actions] /\ AgentDriven /\ StockOnce /\ StockReady
      /\ BatchOnce /\ InFlight /\ Undelivered /\ BatchStates /\ MessagesOnce /\ CaptureRuns
      /\ NewAreFresh /\ transcript \in Seq(Sent)
  BY StoreFacts DEF OnceParts, RejectedInv, Shelves
<1>1. /\ ~agent.on /\ \A a \in Range(t) : act[a].st = "preparing" /\ act'[a].st = "committing"
      /\ pump'.pc = "running" /\ pump'.batch = pump.batch /\ pump'.turns = t
      /\ agent'.on
      /\ \A a \in Acts : /\ a \notin Range(t) => act'[a].st = act[a].st
                         /\ act'[a].durable = act[a].durable /\ act'[a].started = act[a].started
                         /\ act'[a].captured = act[a].captured
                         /\ act'[a].prefix = act[a].prefix
                         /\ act'[a].next = IF a = t[1] THEN pump'.notes ELSE act[a].next
      /\ \/ pump'.notes = pend /\ pend' = << >>
         \/ pump'.notes = pump.notes /\ UNCHANGED pend
  BY DEF HandedOver, Dispatched
<1>2. /\ IsInjective(pump.batch) /\ IsInjective(t) /\ t # << >> /\ t \in Seq(Acts)
      /\ t[1] \in Range(t) /\ Range(t) \subseteq Acts
  <2>1. IsInjective(pump.batch) /\ IsInjective(t) /\ t # << >> /\ t \in Seq(Acts)
    BY <1>0 DEF BatchOnce, Pumps
  <2> HIDE DEF t
  <2> QED BY <2>1, RangeFacts
<1> HIDE DEF t
<1>3. ~Retaken /\ ~Retaken'
  BY <1>1, <1>2 DEF Retaken
<1>4. \A a \in Range(t) : /\ act[a].next = << >> /\ Range(act[a].prefix) \cap Range(transcript) = {}
                          /\ ~act[a].captured
  BY <1>0, <1>1, <1>2 DEF StockReady, NewAreFresh, Clearable
<1>5. Captured(act)' = Captured(act)
  BY <1>1, <1>2, <1>4, CapturedKept
<1>6. \A a \in Acts : Stock(a)' = Stock(a)
  BY <1>1, StockType, StockTypeNext DEF Unfinished
<1>7. Range(pump.notes) \cap Range(transcript) = {} /\ Range(pend) \cap Range(transcript) = {}
  BY <1>0, PendUnseen DEF StockReady
<1>8. StockOnce'
  BY <1>0, <1>1, <1>3, <1>5, <1>6, StillStock
<1>9. Range(transcript) \cap Captured(act) = {}
  BY <1>0, <1>1 DEF CaptureRuns
<1>10. /\ IsInjective(agent'.todo)
       /\ \A x \in Range(agent'.todo) : \E a \in Range(t) :
            /\ x \in RecordsOf(a)'
            /\ \/ x = Primary(a)
               \/ \E g \in Holders : /\ x \in Range(Stock(g)')
                                     /\ g = a \/ (g = "pump" /\ a = t[1])
       /\ \A x, y \in Range(agent'.todo) : x[1] = y[1] => x = y
  BY <1>2, <1>3, <1>4, <1>8, ToldOnce DEF t
<1>11. ASSUME NEW x \in Range(agent'.todo), NEW y \in Range(transcript) PROVE x[1] # y[1]
  <2>0. y \in Sent
    BY <1>0, RangeFacts
  <2>1. PICK a \in Range(t) : \/ x = Primary(a)
                              \/ \E g \in Holders : /\ x \in Range(Stock(g)')
                                                    /\ g = a \/ (g = "pump" /\ a = t[1])
    BY <1>10
  <2>2. CASE x = Primary(a)
    <3>1. x[1] = a /\ a \in Acts
      BY <1>2, <2>2 DEF Primary
    <3>2. Primary(a) \notin Range(transcript)
      BY <1>0, <1>1, <3>1 DEF Undelivered, Delivered
    <3>3. y \in NoteMsgs => y[1] # a
      BY <3>1, KeysApart DEF Primary
    <3>4. \A b \in Acts : y = Primary(b) => y[1] = b
      BY DEF Primary
    <3> QED BY <2>0, <3>1, <3>2, <3>3, <3>4 DEF Sent
  <2>3. CASE x # Primary(a)
    <3>1. PICK g \in Holders : /\ x \in Range(Stock(g)')
                               /\ g = a \/ (g = "pump" /\ a = t[1])
      BY <2>1, <2>3
    <3>2. ASSUME x[1] = y[1] PROVE x = y
      BY <1>5, <1>8, <1>9, <3>1, <3>2 DEF StockOnce
    <3>3. x \notin Range(transcript)
      <4>1. CASE g = a
        BY <1>1, <1>2, <1>4, <1>6, <3>1, <4>1, StockType DEF Unfinished
      <4>2. CASE g = "pump"
        BY <1>1, <1>3, <1>7, <3>1, <4>2, StockTypeNext
      <4> QED BY <3>1, <4>1, <4>2
    <3> QED BY <3>2, <3>3
  <2> QED BY <2>2, <2>3
<1>12. MessagesOnce'
  BY <1>0, <1>1, <1>10, <1>11 DEF MessagesOnce
<1>13. CaptureRuns'
  BY <1>0, <1>1, <1>3, <1>5, <1>9 DEF CaptureRuns
<1>14. BatchOnce'
  BY <1>1, <1>2, <1>4 DEF BatchOnce
<1>15. InFlight'
  <2>1. ASSUME NEW a \in Turns, act'[a].st \in {"committing", "running"}, ~act'[a].durable
        PROVE  a \in Range(t)
    BY <1>0, <1>1, <2>1 DEF Acts, InFlight
  <2> QED BY <1>0, <1>1, <2>1 DEF InFlight
<1>16. Undelivered'
  BY <1>0, <1>1 DEF Delivered, Primary, Undelivered
<1>17. StockReady'
  <2>1. ASSUME NEW a \in Acts, act'[a].st \in Clearable
        PROVE  act'[a].next = << >> /\ Range(act'[a].prefix) \cap Range(transcript) = {}
    BY <1>0, <1>1, <1>2, <2>1 DEF Clearable, StockReady
  <2> QED BY <1>1, <2>1 DEF StockReady
<1> QED BY <1>8, <1>12, <1>13, <1>14, <1>15, <1>16, <1>17 DEF OnceParts

(* Commit. *)
LEMMA CommitOnce ==
  ASSUME StoreInv, StoreInv', RejectedInv, OnceParts, Commit
  PROVE  OnceParts'
BY DispatchOnce, ThrowOnce, CommitHands DEF Commit, pumpRest, RejectedInv, AgentDriven, Retaken


(* The stocks when the pump, what waits and the prefixes are as before. *)
LEMMA SameStock ==
  ASSUME StoreInv, StoreInv', UNCHANGED <<pump, pend>>, Retaken' = Retaken,
         \A a \in Acts : /\ act'[a].prefix = act[a].prefix
                         /\ act'[a].st \in Unfinished <=> act[a].st \in Unfinished
  PROVE  \A h \in Holders : Stock(h)' = Stock(h)
BY StockType, StockTypeNext DEF Holders

(* The first turn of the dispatch that runs. *)
LEMMA FirstTurn ==
  ASSUME StoreInv, OnceParts, pump.pc = "running"
  PROVE  /\ pump.turns \in Seq(Acts) /\ pump.turns[1] \in Range(pump.turns)
         /\ Range(pump.turns) \subseteq Acts
BY StoreFacts, RangeFacts DEF OnceParts, BatchOnce, Pumps

(* The agent begins a message. *)
LEMMA MessageStartOnce ==
  ASSUME StoreInv, StoreInv', RejectedInv, OnceParts, MessageStart
  PROVE  OnceParts'
<1>0. /\ act \in [Acts -> Actions] /\ StockOnce /\ StockReady
      /\ BatchOnce /\ InFlight /\ Undelivered /\ MessagesOnce /\ CaptureRuns /\ AgentDriven
  BY StoreFacts DEF OnceParts, RejectedInv
<1> DEFINE m == Head(agent.todo)
<1>1. /\ UNCHANGED <<pump, pend, transcript, evq, evFailed>> /\ agent.on
      /\ agent' = [agent EXCEPT !.mid = TRUE]
      /\ act' = [a \in Acts |-> IF m = Primary(a)
                  THEN [act[a] EXCEPT !.started = TRUE, !.delivered = Settle(@, "delivered")]
                  ELSE act[a]]
  BY DEF MessageStart, runRest
<1>2. agent'.on = agent.on /\ agent'.todo = agent.todo
  BY <1>1 DEF StoreInv, StoreTypes
<1>3. ASSUME NEW a \in Acts
      PROVE  /\ act'[a].prefix = act[a].prefix /\ act'[a].next = act[a].next
             /\ act'[a].captured = act[a].captured /\ act'[a].durable = act[a].durable
             /\ act'[a].st = act[a].st /\ (act[a].started => act'[a].started)
  <2> DEFINE d == Settle(act[a].delivered, "delivered")
  <2>1. act[a] \in Actions
    BY <1>0
  <2>2. act'[a] = act[a] \/ act'[a] = [act[a] EXCEPT !.started = TRUE, !.delivered = d]
    BY <1>1
  <2> HIDE DEF d
  <2> QED BY <2>1, <2>2 DEF Actions
<1> HIDE DEF m
<1>4. pump.turns[1] \in Acts /\ Range(pump.turns) \subseteq Acts
  BY <1>0, <1>1, FirstTurn DEF AgentDriven
<1>5. Retaken' = Retaken
  <2>1. act'[pump.turns[1]].st = act[pump.turns[1]].st
    BY <1>3, <1>4
  <2>2. pump' = pump
    BY <1>1
  <2> QED BY <2>1, <2>2 DEF Retaken
<1>6. Captured(act)' = Captured(act)
  BY <1>3, CapturedKept
<1>7. \A h \in Holders : Stock(h)' = Stock(h)
  BY <1>1, <1>3, <1>5, SameStock
<1>8. StockOnce'
  <2>1. transcript' = transcript
    BY <1>1
  <2> QED BY <1>0, <1>6, <1>7, <2>1 DEF StockOnce
<1>9. StockReady'
  BY <1>0, <1>1, <1>3 DEF StockReady
<1>10. MessagesOnce'
  <2>1. \A a \in Acts : RecordsOf(a)' = RecordsOf(a)
    BY <1>3 DEF RecordsOf, Primary
  <2>2. (UNION {RecordsOf(a) : a \in Range(pump.turns)})' = UNION {RecordsOf(a) : a \in Range(pump.turns)}
    BY <1>1, <1>4, <2>1
  <2> QED BY <1>0, <1>1, <1>2, <2>2 DEF MessagesOnce
<1>11. CaptureRuns'
  BY <1>0, <1>1, <1>2, <1>3, <1>4, <1>5, <1>6 DEF CaptureRuns
<1>12. BatchOnce'
  BY <1>0, <1>1, <1>3, <1>4, <1>5 DEF BatchOnce
<1>13. InFlight'
  BY <1>0, <1>1, <1>3 DEF Acts, InFlight
<1>14. Undelivered'
  BY <1>0, <1>1, <1>3 DEF Undelivered, Delivered, Primary
<1> QED BY <1>8, <1>9, <1>10, <1>11, <1>12, <1>13, <1>14 DEF OnceParts

(* The run ends, or a retry's run begins or ends. *)
LEMMA AgentEndOnce ==
  ASSUME StoreInv, StoreInv', RejectedInv, OnceParts, AgentEnd \/ RetryRun \/ RetryEnd
  PROVE  OnceParts'
<1>0. /\ act \in [Acts -> Actions] /\ StockOnce /\ StockReady
      /\ BatchOnce /\ InFlight /\ Undelivered /\ MessagesOnce /\ CaptureRuns /\ AgentDriven
      /\ transcript \in Seq(Sent)
  BY StoreFacts DEF OnceParts, RejectedInv
<1>1. /\ UNCHANGED <<act, pump, pend, evFailed>>
      /\ agent' = NoRun \/ (UNCHANGED agent /\ ~agent.on)
      /\ transcript' = Drop(transcript, Captured(act)) \/ (UNCHANGED transcript /\ ~agent.on)
  BY <1>0 DEF AgentEnd, RetryRun, RetryEnd, runRest, AgentDriven
<1>2. /\ ~agent'.on /\ agent'.todo = << >> /\ Range(agent'.todo) = {} /\ IsInjective(agent'.todo)
  BY <1>0, <1>1 DEF NoRun, Range, IsInjective, AgentDriven
<1>3. /\ Range(transcript') = Range(transcript) \ Captured(act)
      /\ IsInjective(transcript) => IsInjective(transcript')
  BY <1>0, <1>1, DropFacts DEF CaptureRuns
<1>4. Retaken' = Retaken
  BY <1>1 DEF Retaken
<1>5. Captured(act)' = Captured(act)
  BY <1>1, CapturedKept
<1>6. \A h \in Holders : Stock(h)' = Stock(h)
  BY <1>1, <1>4, SameStock
<1>7. StockOnce'
  BY <1>0, <1>3, <1>5, <1>6 DEF StockOnce
<1>8. StockReady'
  BY <1>0, <1>1, <1>3 DEF StockReady
<1>9. MessagesOnce'
  BY <1>0, <1>2, <1>3 DEF MessagesOnce
<1>10. CaptureRuns'
  BY <1>0, <1>1, <1>2, <1>3, <1>4, <1>5 DEF CaptureRuns
<1>11. BatchOnce'
  BY <1>0, <1>1, <1>4 DEF BatchOnce
<1>12. InFlight'
  BY <1>0, <1>1 DEF InFlight
<1>13. Undelivered'
  BY <1>0, <1>1, <1>3 DEF Undelivered, Delivered, Primary
<1> QED BY <1>7, <1>8, <1>9, <1>10, <1>11, <1>12, <1>13 DEF OnceParts


(* The head of a sequence without repetitions is not in its tail. *)
LEMMA TailOnce ==
  ASSUME NEW T, NEW s \in Seq(T), s # << >>, IsInjective(s)
  PROVE  /\ IsInjective(Tail(s)) /\ Range(Tail(s)) \subseteq Range(s)
         /\ Head(s) \in Range(s) /\ Head(s) \notin Range(Tail(s))
<1> DEFINE t == Tail(s)
           n == Len(s)
<1>1. /\ n \in Nat /\ n > 0 /\ Len(t) = n - 1 /\ DOMAIN s = 1 .. n /\ DOMAIN t = 1 .. n - 1
      /\ \A i \in 1 .. n - 1 : t[i] = s[i + 1] /\ i + 1 \in 1 .. n /\ i + 1 # 1
      /\ Head(s) = s[1] /\ 1 \in 1 .. n
  OBVIOUS
<1> HIDE DEF t, n
<1>2. \A i, j \in 1 .. n : s[i] = s[j] => i = j
  BY <1>1 DEF IsInjective
<1>3. \A i, j \in 1 .. n - 1 : t[i] = t[j] => i = j
  BY <1>1, <1>2
<1>4. IsInjective(t)
  BY <1>1, <1>3 DEF IsInjective
<1>5. Range(t) \subseteq Range(s)
  BY <1>1 DEF Range
<1>6. Head(s) \in Range(s)
  BY <1>1 DEF Range
<1>7. Head(s) \notin Range(t)
  BY <1>1, <1>2 DEF Range
<1> QED BY <1>4, <1>5, <1>6, <1>7 DEF t

(* A message that the agent has to deliver: taken back, a prompt, or a     *)
(* note that is held for a turn of the dispatch.                           *)
LEMMA MessageSource ==
  ASSUME StoreInv, OnceParts, AgentDriven, agent.on, NEW m \in Range(agent.todo)
  PROVE  \/ Retaken /\ m \in Captured(act)
         \/ /\ ~Retaken /\ m \notin Captured(act)
            /\ \E a \in Acts : /\ a \in Range(pump.turns) /\ act[a].st \in {"committing", "running"}
                               /\ \/ m = Primary(a)
                                  \/ m \in Range(Stock(a)) \/ m \in Range(Stock("pump"))
<1>0. /\ act \in [Acts -> Actions] /\ StockOnce /\ BatchOnce /\ MessagesOnce /\ CaptureRuns
      /\ pump.pc = "running" /\ NewAreFresh
  BY StoreFacts DEF OnceParts, AgentDriven, StoreInv
<1>1. pump.turns[1] \in Range(pump.turns) /\ Range(pump.turns) \subseteq Acts
  BY <1>0, FirstTurn
<1>2. PICK a \in Range(pump.turns) : m \in RecordsOf(a)
  BY <1>0 DEF MessagesOnce
<1>3. a \in Acts
  BY <1>1, <1>2
<1>4. CASE Retaken
  BY <1>0, <1>1, <1>2, <1>3, <1>4 DEF Retaken, BatchOnce, CaptureRuns, Captured
<1>5. CASE ~Retaken
  <2>1. act[a].st \in {"committing", "running"}
    BY <1>0, <1>2, <1>5 DEF BatchOnce
  <2>2. /\ Stock(a) = act[a].prefix /\ Stock("pump") = pump.notes
        /\ a \in Holders /\ "pump" \in Holders /\ Range(<< >>) = {}
    BY <1>3, <1>5, <2>1, StockType DEF Unfinished, Holders, Range
  <2>3. act[a].next = Stock("pump") \/ act[a].next = << >>
    BY <1>0, <1>2, <2>2 DEF BatchOnce
  <2>4. m = Primary(a) \/ m \in Range(Stock(a)) \/ m \in Range(Stock("pump"))
    BY <1>2, <2>2, <2>3 DEF RecordsOf
  <2>5. m \notin Captured(act)
    <3>1. CASE m = Primary(a)
      <4> SUFFICES ASSUME m \in Captured(act) PROVE FALSE
        OBVIOUS
      <4>1. PICK c \in Acts : act[c].captured /\ m \in RecordsOf(c)
        BY DEF Captured
      <4>2. act[c].st = "cancelled"
        BY <1>0, <4>1 DEF NewAreFresh
      <4>3. Range(act[c].prefix) \subseteq NoteMsgs /\ Range(act[c].next) \subseteq NoteMsgs
        BY <1>0, <4>1, RangeFacts DEF Actions
      <4>4. m = Primary(c)
        BY <1>3, <3>1, <4>1, <4>3, KeysApart DEF RecordsOf
      <4>5. a = c
        BY <1>3, <3>1, <4>4 DEF Primary
      <4> QED BY <2>1, <4>2, <4>5
    <3>2. CASE m \in Range(Stock(a)) \/ m \in Range(Stock("pump"))
      BY <1>0, <2>2, <3>2 DEF StockOnce
    <3> QED BY <2>4, <3>1, <3>2
  <2> QED BY <1>2, <1>3, <1>5, <2>1, <2>4, <2>5
<1> QED BY <1>4, <1>5

(* The agent ends a message. *)
LEMMA MessageEndOnce ==
  ASSUME StoreInv, StoreInv', RejectedInv, OnceParts, MessageEnd
  PROVE  OnceParts'
<1>0. /\ act \in [Acts -> Actions] /\ StockOnce /\ StockReady /\ EventTypes /\ BegunIsHeard
      /\ BatchOnce /\ InFlight /\ Undelivered /\ MessagesOnce /\ CaptureRuns /\ AgentDriven
      /\ transcript \in Seq(Sent) /\ AgentGood /\ NewAreFresh
  BY StoreFacts DEF OnceParts, RejectedInv, StoreInv
<1> DEFINE m == Head(agent.todo)
<1>1. /\ UNCHANGED <<pump, pend, evFailed>> /\ agent.on /\ agent.mid
      /\ agent' = [agent EXCEPT !.mid = FALSE, !.todo = Tail(@)]
      /\ transcript' = Append(transcript, m) /\ evq' = Append(evq, m)
      /\ act' = [a \in Acts |-> IF m = Primary(a)
                 THEN [act[a] EXCEPT !.durable = TRUE,
                         !.st = IF @ = "committing" THEN "running" ELSE @]
                 ELSE act[a]]
  BY DEF MessageEnd, runRest
<1>2. /\ agent'.todo = Tail(agent.todo) /\ agent'.on
      /\ agent.todo # << >> /\ agent.todo \in Seq(Sent)
  BY <1>0, <1>1 DEF AgentGood
<1>3. /\ m \in Range(agent.todo) /\ Range(agent'.todo) \subseteq Range(agent.todo)
      /\ m \notin Range(agent'.todo) /\ IsInjective(agent'.todo)
  BY <1>0, <1>2, TailOnce DEF MessagesOnce
<1>4. /\ m \in Sent /\ m # "agent_end" /\ Range(transcript') = Range(transcript) \cup {m}
  <2>1. m \in Sent /\ m # "agent_end"
    BY <1>2, <1>3, RangeFacts, SentApart
  <2> QED BY <1>0, <1>1, <2>1, RangeFacts
<1>5. \A a \in Acts : m = Primary(a) => act[a].started
  BY <1>0, <1>1 DEF BegunIsHeard
<1> HIDE DEF m
<1>6. ASSUME NEW a \in Acts
      PROVE  /\ act'[a].prefix = act[a].prefix /\ act'[a].next = act[a].next
             /\ act'[a].captured = act[a].captured /\ act'[a].started = act[a].started
             /\ (act'[a].st = act[a].st \/ (act[a].st = "committing" /\ act'[a].st = "running"))
             /\ (m # Primary(a) => act'[a] = act[a])
             /\ (act[a].durable => act'[a].durable)
  <2> DEFINE s == IF act[a].st = "committing" THEN "running" ELSE act[a].st
  <2>1. act[a] \in Actions
    BY <1>0
  <2>2. /\ m # Primary(a) => act'[a] = act[a]
        /\ m = Primary(a) => act'[a] = [act[a] EXCEPT !.durable = TRUE, !.st = s]
    BY <1>1
  <2>3. s = act[a].st \/ (act[a].st = "committing" /\ s = "running")
    OBVIOUS
  <2> HIDE DEF s
  <2>4. CASE m = Primary(a)
    BY <2>1, <2>2, <2>3, <2>4 DEF Actions
  <2> QED BY <2>2, <2>4
<1>7. pump.turns[1] \in Acts /\ Range(pump.turns) \subseteq Acts /\ pump.pc = "running"
  BY <1>0, <1>1, FirstTurn DEF AgentDriven
<1>8. Retaken' = Retaken
  <2>1. act'[pump.turns[1]].st = "cancelled" <=> act[pump.turns[1]].st = "cancelled"
    BY <1>6, <1>7
  <2>2. pump' = pump
    BY <1>1
  <2> QED BY <2>1, <2>2 DEF Retaken
<1>9. Captured(act)' = Captured(act)
  BY <1>6, CapturedKept
<1>10. \A h \in Holders : Stock(h)' = Stock(h)
  BY <1>1, <1>6, <1>8, SameStock DEF Unfinished
<1>11. \/ Retaken /\ m \in Captured(act)
       \/ /\ ~Retaken /\ m \notin Captured(act)
          /\ \E a \in Acts : /\ a \in Range(pump.turns) /\ act[a].st \in {"committing", "running"}
                             /\ \/ m = Primary(a)
                                \/ m \in Range(Stock(a)) \/ m \in Range(Stock("pump"))
  BY <1>0, <1>1, <1>3, MessageSource
<1>12. ASSUME NEW h \in Holders, NEW x \in Range(Stock(h)), x[1] = m[1], m \notin Captured(act)
       PROVE  x = m /\ (h = "pump" \/ (h \in Acts /\ act[h].st \in {"committing", "running"}))
  <2>1. PICK a \in Acts : /\ a \in Range(pump.turns) /\ act[a].st \in {"committing", "running"}
                          /\ \/ m = Primary(a)
                             \/ m \in Range(Stock(a)) \/ m \in Range(Stock("pump"))
    BY <1>11, <1>12
  <2>2. m # Primary(a)
    BY <1>12, <2>1, StockType, KeysApart
  <2>3. a \in Holders /\ "pump" \in Holders
    BY <2>1 DEF Holders
  <2>4. CASE m \in Range(Stock(a))
    BY <1>0, <1>12, <2>1, <2>3, <2>4 DEF StockOnce
  <2>5. CASE m \in Range(Stock("pump"))
    BY <1>0, <1>12, <2>1, <2>3, <2>5 DEF StockOnce
  <2> QED BY <2>1, <2>2, <2>4, <2>5
<1>13. StockOnce'
  <2>1. "pend" \notin Acts /\ "pend" # "pump"
    BY SessionActionsAssumption
  <2>2. ASSUME NEW h \in Holders, NEW x \in Range(Stock(h)), NEW y \in Range(transcript'), x[1] = y[1]
        PROVE  y \in Captured(act) \/ (h # "pend" /\ x = y)
    BY <1>0, <1>4, <1>12, <2>1, <2>2 DEF StockOnce
  <2>3. /\ \A h \in Holders : IsInjective(Stock(h)) /\ Range(Stock(h)) \cap Captured(act) = {}
        /\ \A g, h \in Holders : \A x \in Range(Stock(g)), y \in Range(Stock(h)) :
             x[1] = y[1] => g = h /\ x = y
    BY <1>0 DEF StockOnce
  <2> QED BY <1>9, <1>10, <2>2, <2>3 DEF StockOnce
<1>14. StockReady'
  <2>1. ASSUME NEW a \in Acts, act[a].st \in Clearable PROVE m \notin Range(act[a].prefix)
    BY <1>0, <1>12, <2>1, StockType DEF Holders, Clearable, Unfinished, StockOnce
  <2>2. \A a \in Acts : act'[a].st \in Clearable => act[a].st \in Clearable
    BY <1>6 DEF Clearable
  <2>3. ASSUME NEW a \in Acts, act'[a].st \in Clearable
        PROVE  act'[a].next = << >> /\ Range(act'[a].prefix) \cap Range(transcript') = {}
    BY <1>0, <1>4, <1>6, <2>1, <2>2, <2>3 DEF StockReady
  <2>4. pump' = pump
    BY <1>1
  <2> QED BY <1>7, <2>3, <2>4 DEF StockReady
<1>15. MessagesOnce'
  <2>1. \A a \in Acts : RecordsOf(a)' = RecordsOf(a)
    BY <1>6 DEF RecordsOf, Primary
  <2>2. (UNION {RecordsOf(a) : a \in Range(pump.turns)})' = UNION {RecordsOf(a) : a \in Range(pump.turns)}
    BY <1>1, <1>7, <2>1
  <2>3. m \notin Range(transcript)
    BY <1>0, <1>3 DEF MessagesOnce
  <2>4. IsInjective(transcript')
    BY <1>0, <1>1, <1>4, <2>3, RangeFacts DEF MessagesOnce
  <2>5. \A x \in Range(agent'.todo) : x \in Range(agent.todo) /\ x[1] # m[1]
    BY <1>0, <1>3 DEF MessagesOnce
  <2>6. \A y \in Range(transcript) : m[1] # y[1]
    BY <1>0, <1>3 DEF MessagesOnce
  <2>7. \A x, y \in Range(agent'.todo) : x[1] = y[1] => x = y
    BY <1>0, <2>5 DEF MessagesOnce
  <2>8. \A x, y \in Range(transcript') : x[1] = y[1] => x = y
    BY <1>0, <1>4, <2>6 DEF MessagesOnce
  <2>9. \A x \in Range(agent'.todo), y \in Range(transcript') : x[1] # y[1]
    BY <1>0, <1>4, <2>5 DEF MessagesOnce
  <2>10. Range(agent'.todo) \subseteq (UNION {RecordsOf(a) : a \in Range(pump.turns)})'
    BY <1>0, <1>3, <2>2 DEF MessagesOnce
  <2> QED BY <1>3, <2>4, <2>7, <2>8, <2>9, <2>10 DEF MessagesOnce
<1>16. CaptureRuns'
  <2>1. CASE Retaken
    <3>1. act[pump.turns[1]].captured /\ \A i \in 1 .. Len(evq) : evq[i] # "agent_end"
      BY <1>0, <1>1, <2>1 DEF CaptureRuns
    <3>2. \A i \in 1 .. Len(evq') : evq'[i] # "agent_end"
      <4> DEFINE E == Sent \cup {"agent_end"}
      <4>1. evq \in Seq(E) /\ m \in E /\ evq' = Append(evq, m)
        BY <1>0, <1>1, <1>4, EventParts
      <4> HIDE DEF E
      <4>2. /\ Len(evq) \in Nat /\ Len(evq') = Len(evq) + 1
            /\ (\A i \in 1 .. Len(evq) : evq'[i] = evq[i]) /\ evq'[Len(evq) + 1] = m
        BY <4>1, AppendAt
      <4>3. \A i \in 1 .. Len(evq) + 1 : i \in 1 .. Len(evq) \/ i = Len(evq) + 1
        BY <4>2
      <4> QED BY <1>4, <3>1, <4>2, <4>3
    <3>3. pump' = pump
      BY <1>1
    <3>4. act'[pump'.turns[1]].captured
      BY <1>6, <1>7, <3>1, <3>3
    <3> QED BY <1>0, <1>1, <1>2, <1>6, <1>8, <2>1, <3>2, <3>4 DEF CaptureRuns
  <2>2. CASE ~Retaken
    <3>1. Range(transcript) \cap Captured(act) = {}
      BY <1>0, <2>2 DEF CaptureRuns
    <3>2. Range(transcript') \cap Captured(act)' = {}
      BY <1>4, <1>9, <1>11, <2>2, <3>1
    <3> QED BY <1>0, <1>1, <1>6, <1>8, <2>2, <3>2 DEF CaptureRuns
  <2> QED BY <2>1, <2>2
<1>17. BatchOnce'
  <2>1. pump' = pump
    BY <1>1
  <2>2. \A a \in Range(pump.turns) : /\ act'[a].next = act[a].next
                                     /\ (act[a].st \in {"committing", "running"} =>
                                           act'[a].st \in {"committing", "running"})
    BY <1>6, <1>7
  <2>3. act'[pump.turns[1]].next = act[pump.turns[1]].next
    BY <1>6, <1>7
  <2> QED BY <1>0, <1>8, <2>1, <2>2, <2>3 DEF BatchOnce
<1>18. InFlight'
  <2>1. Turns \subseteq Acts
    BY DEF Acts
  <2>2. ASSUME NEW a \in Turns, act'[a].st \in {"committing", "running"}, ~act'[a].durable
        PROVE  pump.pc = "running" /\ a \in Range(pump.turns)
    BY <1>0, <1>6, <2>1, <2>2 DEF InFlight
  <2>3. ASSUME NEW a \in Acts, act'[a].durable PROVE act'[a].started
    BY <1>0, <1>5, <1>6, <2>3 DEF InFlight
  <2> QED BY <1>1, <2>2, <2>3 DEF InFlight
<1>19. Undelivered'
  <2>1. ASSUME NEW a \in Acts, act'[a].st \in {"new", "queued", "selected", "preparing"}
        PROVE  ~act'[a].durable /\ Primary(a) \notin Range(transcript')
    <3>1. act[a].st \in {"new", "queued", "selected", "preparing"}
      BY <1>6, <2>1
    <3>2. ~act[a].durable /\ Primary(a) \notin Range(transcript)
      BY <1>0, <3>1 DEF Undelivered, Delivered
    <3>3. m # Primary(a)
      BY <1>0, <1>3, <3>1 DEF NewAreFresh, BegunIsHeard
    <3> QED BY <1>4, <1>6, <3>2, <3>3
  <2> QED BY <2>1 DEF Undelivered, Delivered, Primary
<1> QED BY <1>13, <1>14, <1>15, <1>16, <1>17, <1>18, <1>19 DEF OnceParts


(* An event is processed. *)
LEMMA ProcessEventOnce ==
  ASSUME StoreInv, StoreInv', RejectedInv, OnceParts, ProcessEvent
  PROVE  OnceParts'
<1>0. /\ act \in [Acts -> Actions] /\ StockOnce /\ StockReady /\ EventTypes
      /\ BatchOnce /\ InFlight /\ Undelivered /\ MessagesOnce /\ CaptureRuns /\ AgentDriven
      /\ transcript \in Seq(Sent)
  BY StoreFacts DEF OnceParts, RejectedInv
<1> DEFINE e == evq[1]
           n == Len(evq)
           cleared == IF Head(evq) = "agent_end" THEN {a \in Acts : act[a].captured} ELSE {}
<1>1. /\ pump' = pump /\ agent' = agent /\ pend' = pend /\ evq # << >> /\ evq' = Tail(evq)
      /\ evFailed' => "event_fails" \in Ops
      /\ transcript' = Drop(transcript, Captured(act))
      /\ act' = [a \in Acts |-> [act[a] EXCEPT !.captured = @ /\ a \notin cleared]]
  BY DEF ProcessEvent, Op
<1>2. /\ n \in Nat \ {0} /\ Len(evq') = n - 1 /\ (\A i \in 1 .. n - 1 : evq'[i] = evq[i + 1])
      /\ Head(evq) = e
  <2> DEFINE E == Sent \cup {"agent_end"}
  <2>1. evq \in Seq(E) /\ evq # << >> /\ evq' = Tail(evq)
    BY <1>0, <1>1, EventParts
  <2> HIDE DEF E
  <2> QED BY <2>1, TailAt
<1>3. /\ Range(transcript') = Range(transcript) \ Captured(act)
      /\ IsInjective(transcript) => IsInjective(transcript')
  BY <1>0, <1>1, DropFacts
<1>4. ASSUME NEW a \in Acts
      PROVE  /\ act'[a].prefix = act[a].prefix /\ act'[a].next = act[a].next
             /\ act'[a].started = act[a].started /\ act'[a].durable = act[a].durable
             /\ act'[a].st = act[a].st
             /\ (act'[a].captured <=> act[a].captured /\ e # "agent_end")
  <2> DEFINE b == act[a].captured /\ a \notin cleared
  <2>1. act'[a] = [act[a] EXCEPT !.captured = b] /\ act[a] \in Actions
    BY <1>0, <1>1
  <2>2. b <=> act[a].captured /\ e # "agent_end"
    BY <1>2
  <2> HIDE DEF b
  <2> QED BY <2>1, <2>2 DEF Actions
<1> HIDE DEF e, n, cleared
<1>5. Retaken' = Retaken
  <2>1. CASE pump.pc = "running"
    BY <1>1, <1>4, <2>1, FirstTurn DEF Retaken
  <2>2. CASE pump.pc # "running"
    BY <1>1, <2>2 DEF Retaken
  <2> QED BY <2>1, <2>2
<1>6. Captured(act)' \subseteq Captured(act)
  BY <1>4, CapturedLess
<1>7. \A h \in Holders : Stock(h)' = Stock(h)
  BY <1>1, <1>4, <1>5, SameStock
<1>8. StockOnce'
  BY <1>0, <1>3, <1>6, <1>7 DEF StockOnce
<1>9. StockReady'
  BY <1>0, <1>1, <1>3, <1>4 DEF StockReady
<1>10. pump.turns \in Seq(Acts) /\ Range(pump.turns) \subseteq Acts
  BY StoreFacts, RangeFacts DEF Pumps
<1>11. MessagesOnce'
  <2>1. \A a \in Acts : RecordsOf(a)' = RecordsOf(a)
    BY <1>4 DEF RecordsOf, Primary
  <2>2. (UNION {RecordsOf(a) : a \in Range(pump.turns)})' = UNION {RecordsOf(a) : a \in Range(pump.turns)}
    BY <1>1, <1>10, <2>1
  <2> QED BY <1>0, <1>1, <1>3, <2>2 DEF MessagesOnce
<1>12. CaptureRuns'
  <2>1. CASE agent.on /\ Retaken
    <3>1. act[pump.turns[1]].captured /\ \A i \in 1 .. n : evq[i] # "agent_end"
      BY <1>0, <2>1 DEF CaptureRuns, n
    <3>2. 1 \in 1 .. n /\ \A i \in 1 .. n - 1 : i + 1 \in 1 .. n
      BY <1>2
    <3>3. e # "agent_end" /\ \A i \in 1 .. Len(evq') : evq'[i] # "agent_end"
      BY <1>2, <3>1, <3>2 DEF e
    <3>4. pump.turns[1] \in Acts
      BY <2>1, FirstTurn DEF Retaken
    <3>5. act'[pump.turns[1]].captured
      BY <1>4, <3>1, <3>3, <3>4
    <3> QED BY <1>0, <1>1, <1>4, <1>5, <2>1, <3>3, <3>5 DEF CaptureRuns
  <2>2. CASE ~(agent.on /\ Retaken)
    BY <1>0, <1>1, <1>3, <1>4, <1>5, <1>6, <2>2 DEF CaptureRuns
  <2> QED BY <2>1, <2>2
<1>13. BatchOnce'
  BY <1>0, <1>1, <1>4, <1>5, <1>10, FirstTurn DEF BatchOnce
<1>14. InFlight'
  <2>1. Turns \subseteq Acts
    BY DEF Acts
  <2> QED BY <1>0, <1>1, <1>4, <2>1 DEF InFlight
<1>15. Undelivered'
  BY <1>0, <1>3, <1>4 DEF Undelivered, Delivered, Primary
<1> QED BY <1>8, <1>9, <1>11, <1>12, <1>13, <1>14, <1>15 DEF OnceParts


(* What an admission makes of the notes that wait. *)
AdmittedWith(d) ==
  /\ act[d].st = "new" /\ act'[d].st \in {"queued", "selected"} /\ act'[d].next = << >>
  /\ ~act'[d].captured /\ ~act'[d].started /\ ~act'[d].durable
  /\ \/ act'[d].prefix = << >> /\ pend' = pend
     \/ act'[d].prefix = pend /\ pend' = << >>

(* A submission is refused, or becomes an action that may take the notes. *)
LEMMA AdmitHands ==
  ASSUME StoreInv, NEW a \in Acts, AdmitPrompt(a)
  PROVE  \/ UNCHANGED act /\ pend' \in {pend, << >>}
         \/ AdmittedWith(a) /\ \A b \in Acts : b # a => act'[b] = act[b]
<1>1. client[a] \in {"held", "unfenced"}
  BY DEF AdmitPrompt
<1>2. act[a].st = "new" /\ act \in [Acts -> Actions] /\ pend \in Seq(NoteMsgs)
  BY <1>1, StoreFacts DEF Shelves, NewAreFresh
<1>3. PICK queueIfBusy \in BOOLEAN, resumeIfIdle \in BOOLEAN, lane \in Lanes :
       LET pending == InState(Unfinished) # <<>>
           visible == Active \/ (queueIfBusy /\ (Busy \/ pending))
           took == IF visible THEN pend ELSE <<>>
           x == [NewAction EXCEPT !.lane = lane, !.vis = visible, !.prefix = took]
       IN IF sch.apauses > 0
          THEN /\ client' = [client EXCEPT ![a] = "refused"]
               /\ pend' = IF visible /\ a \in Turns THEN <<>> ELSE pend
               /\ UNCHANGED <<act, lanes, sch>>
          ELSE /\ client' = [client EXCEPT ![a] = "done"]
               /\ IF a \in Commands
                  THEN /\ Admit(a, [NewAction EXCEPT !.lane = lane],
                                ~pending /\ ~Busy /\ CanStart, TRUE)
                       /\ UNCHANGED pend
                  ELSE /\ Admit(a, x, ~visible /\ CanStart,
                                \/ ~visible \/ resumeIfIdle
                                \/ queueIfBusy /\ CanStart)
                       /\ pend' = IF visible THEN <<>> ELSE pend
  BY DEF AdmitPrompt
<1> DEFINE pending == InState(Unfinished) # <<>>
           visible == Active \/ (queueIfBusy /\ (Busy \/ pending))
           took == IF visible THEN pend ELSE <<>>
           x == [NewAction EXCEPT !.lane = lane, !.vis = visible, !.prefix = took]
           z == [NewAction EXCEPT !.lane = lane]
           e == ~visible /\ CanStart
           i == ~visible \/ resumeIfIdle \/ (queueIfBusy /\ CanStart)
           f == ~pending /\ ~Busy /\ CanStart
<1>4. \/ UNCHANGED act /\ pend' \in {pend, << >>}
      \/ Admit(a, z, f, TRUE) /\ pend' = pend
      \/ Admit(a, x, e, i) /\ pend' = IF visible THEN <<>> ELSE pend
  BY <1>3
<1>5. \/ took = << >> /\ (IF visible THEN << >> ELSE pend) = pend
      \/ took = pend /\ (IF visible THEN << >> ELSE pend) = << >>
  <2> HIDE DEF visible
  <2>1. CASE visible
    BY <2>1
  <2>2. CASE ~visible
    BY <2>2
  <2> QED BY <2>1, <2>2
<1>6. ASSUME NEW y, NEW s \in {"queued", "selected"}, y \in {x, z}
      PROVE  LET w == [y EXCEPT !.st = s]
             IN /\ w.next = << >> /\ ~w.captured /\ ~w.started /\ ~w.durable
                /\ w.st = s /\ (y = x => w.prefix = took) /\ (y = z => w.prefix = << >>)
  <2>1. CASE y = x
    <3> HIDE DEF took, visible
    <3>1. x.prefix = took /\ z.prefix = << >>
      BY DEF NewAction
    <3>2. LET w == [x EXCEPT !.st = s]
          IN /\ w.next = << >> /\ ~w.captured /\ ~w.started /\ ~w.durable
             /\ w.st = s /\ w.prefix = took
      BY DEF NewAction
    <3>3. x = z => took = << >>
      BY <3>1
    <3> HIDE DEF x, z
    <3> QED BY <2>1, <3>2, <3>3
  <2>2. CASE y = z
    <3> HIDE DEF took, visible
    <3>1. x.prefix = took /\ z.prefix = << >>
      BY DEF NewAction
    <3>2. LET w == [z EXCEPT !.st = s]
          IN /\ w.next = << >> /\ ~w.captured /\ ~w.started /\ ~w.durable
             /\ w.st = s /\ w.prefix = << >>
      BY DEF NewAction
    <3>3. z = x => took = << >>
      BY <3>1
    <3> HIDE DEF x, z
    <3> QED BY <2>2, <3>2, <3>3
  <2> QED BY <1>6, <2>1, <2>2
<1> HIDE DEF x, z, e, i, f, took, visible
<1>7. ASSUME NEW y \in {x, z}, NEW el, NEW im, Admit(a, y, el, im)
      PROVE  \E s \in {"queued", "selected"} : act' = [act EXCEPT ![a] = [y EXCEPT !.st = s]]
  BY <1>7 DEF Admit, Enqueued
<1>8. ASSUME NEW y \in {x, z}, NEW el, NEW im, Admit(a, y, el, im),
             (y = x /\ pend' = IF visible THEN << >> ELSE pend) \/ (y = z /\ pend' = pend)
      PROVE  AdmittedWith(a) /\ \A b \in Acts : b # a => act'[b] = act[b]
  <2>1. PICK s \in {"queued", "selected"} : act' = [act EXCEPT ![a] = [y EXCEPT !.st = s]]
    BY <1>7, <1>8
  <2> DEFINE w == [y EXCEPT !.st = s]
  <2>2. /\ w.next = << >> /\ ~w.captured /\ ~w.started /\ ~w.durable
        /\ w.st = s /\ (y = x => w.prefix = took) /\ (y = z => w.prefix = << >>)
    BY <1>6
  <2>3. act' = [act EXCEPT ![a] = w]
    BY <2>1
  <2> HIDE DEF w
  <2>4. act'[a] = w /\ \A b \in Acts : b # a => act'[b] = act[b]
    BY <1>2, <2>3
  <2>5. \/ w.prefix = << >> /\ pend' = pend
        \/ w.prefix = pend /\ pend' = << >>
    BY <1>5, <1>8, <2>2
  <2> QED BY <1>2, <2>2, <2>4, <2>5 DEF AdmittedWith
<1> QED BY <1>4, <1>8

(* A step that admits at most one action and leaves the rest as it is. *)
LEMMA AdmittedOnce ==
  ASSUME StoreInv, StoreInv', OnceParts, AgentDriven, NEW d \in Holders,
         pump' = pump, agent' = agent, evq' = evq, evFailed' = evFailed, transcript' = transcript,
         \A b \in Acts : b # d => Kept(b) /\ act'[b].st = act[b].st,
         d \in Acts => AdmittedWith(d),
         pend' \in {pend, << >>}
  PROVE  OnceParts'
<1>0. /\ act \in [Acts -> Actions] /\ StockOnce /\ StockReady
      /\ BatchOnce /\ InFlight /\ Undelivered /\ MessagesOnce /\ CaptureRuns
      /\ NewAreFresh /\ BatchStates
  BY StoreFacts DEF OnceParts, StoreInv
<1>1. \A b \in Acts : act[b].st # "new" => Kept(b) /\ act'[b].st = act[b].st
  BY DEF AdmittedWith
<1>2. ASSUME pump.pc = "running"
      PROVE  /\ pump.turns[1] \in Range(pump.turns) /\ Range(pump.turns) \subseteq Acts
             /\ \A a \in Range(pump.turns) : Kept(a) /\ act'[a].st = act[a].st
  BY <1>0, <1>1, <1>2, FirstTurn DEF BatchStates
<1>3. Retaken' = Retaken
  BY <1>2 DEF Retaken
<1>4. Captured(act)' = Captured(act)
  BY <1>0, <1>1, CapturedKept DEF NewAreFresh, AdmittedWith, Kept
<1>5. /\ Stock("pend")' = pend' /\ Stock("pend") = pend /\ Stock("pump")' = Stock("pump")
      /\ \A b \in Acts : b # d => Stock(b)' = Stock(b)
      /\ "pend" \in Holders /\ "pend" \notin Acts /\ "pump" \notin Acts
      /\ d \in Acts => Stock(d)' = act'[d].prefix
  BY <1>3, StockType, StockTypeNext DEF AdmittedWith, Unfinished, Holders, Kept
<1>6. IsInjective(<< >>) /\ Range(<< >>) = {} /\ IsInjective(pend)
  BY <1>0, <1>5 DEF IsInjective, Range, StockOnce
<1>7. Range(pend) \cap Range(transcript) = {}
  BY <1>0, PendUnseen
<1>8. StockOnce'
  <2>1. \A h \in Holders : IsInjective(Stock(h)')
    BY <1>0, <1>5, <1>6 DEF StockOnce, AdmittedWith, Holders
  <2>2. CASE d \in Acts /\ act'[d].prefix = pend /\ pend' = << >>
    BY <1>0, <1>4, <1>5, <1>6, <2>1, <2>2, Handover DEF Holders
  <2>3. CASE ~(d \in Acts /\ act'[d].prefix = pend /\ pend' = << >>)
    <3>1. d \in Acts => Stock(d)' = << >>
      BY <1>5, <2>3 DEF AdmittedWith
    <3>2. \A h \in Holders : Range(Stock(h)') \subseteq Range(Stock(h))
      BY <1>5, <1>6, <3>1 DEF Holders
    <3>3. Range(Stock("pend")') \cap Range(transcript) = {}
      BY <1>5, <1>6, <1>7
    <3> QED BY <1>0, <1>4, <1>5, <2>1, <3>2, <3>3, Handover
  <2> QED BY <2>2, <2>3
<1>9. StockReady'
  <2>1. ASSUME NEW a \in Acts, act'[a].st \in Clearable
        PROVE  act'[a].next = << >> /\ Range(act'[a].prefix) \cap Range(transcript) = {}
    BY <1>0, <1>6, <1>7, <2>1 DEF AdmittedWith, StockReady, Kept
  <2> QED BY <1>0, <2>1 DEF StockReady
<1>10. MessagesOnce'
  <2>1. CASE agent.on
    BY <1>0, <1>2, <2>1 DEF AgentDriven, RecordsOf, Primary, Kept, MessagesOnce
  <2>2. CASE ~agent.on
    BY <1>0, <1>6, <2>2 DEF AgentDriven, MessagesOnce
  <2> QED BY <2>1, <2>2
<1>11. CaptureRuns'
  BY <1>0, <1>2, <1>3, <1>4 DEF AdmittedWith, Kept, Retaken, CaptureRuns
<1>12. BatchOnce'
  BY <1>0, <1>2, <1>3 DEF BatchOnce, Kept
<1>13. InFlight'
  <2>1. Turns \subseteq Acts
    BY DEF Acts
  <2>2. ASSUME NEW a \in Turns, act'[a].st \in {"committing", "running"}, ~act'[a].durable
        PROVE  pump.pc = "running" /\ a \in Range(pump.turns)
    BY <1>0, <2>1, <2>2 DEF AdmittedWith, InFlight, Kept
  <2>3. \A a \in Acts : act'[a].durable => act'[a].started
    BY <1>0 DEF InFlight, Kept, AdmittedWith
  <2> QED BY <2>2, <2>3 DEF InFlight
<1>14. Undelivered'
  <2>1. ASSUME NEW a \in Acts, act'[a].st \in {"new", "queued", "selected", "preparing"}
        PROVE  ~act'[a].durable /\ Primary(a) \notin Range(transcript)
    BY <1>0, <2>1 DEF Undelivered, Delivered, AdmittedWith, Kept
  <2> QED BY <2>1 DEF Undelivered, Delivered, Primary
<1> QED BY <1>8, <1>9, <1>10, <1>11, <1>12, <1>13, <1>14 DEF OnceParts


(* The owned actions are there once. *)
LEMMA OwnedOnce ==
  ASSUME StoreInv
  PROVE  Owned \in Seq(Acts) /\ IsInjective(Owned)
<1> DEFINE l == lanes["next_turn_boundary"]
           k == lanes["when_run_idle"]
<1>1. /\ l \in Seq(Acts) /\ k \in Seq(Acts) /\ IsInjective(l) /\ IsInjective(k)
      /\ (\A a \in Range(l) : act[a].lane = "next_turn_boundary")
      /\ (\A a \in Range(k) : act[a].lane = "when_run_idle")
  BY StoreFacts DEF Shelves, Lanes, TypeOK
<1>2. Range(l) \cap Range(k) = {}
  BY <1>1
<1>3. Owned = l \o k
  BY DEF Owned
<1> HIDE DEF l, k
<1>4. l \o k \in Seq(Acts) /\ IsInjective(l \o k)
  BY <1>1, <1>2, ConcatRange, ConcatInjective
<1> QED BY <1>3, <1>4

(* What an action that is cancelled may give back. *)
Back(a) == (IF a \in AgentMsgs THEN act[a].prefix ELSE << >>) \o act[a].next

(* Its clones are there once, and each is of a note that was not delivered. *)
LEMMA RestoredFacts ==
  ASSUME StoreInv, NEW a \in Acts, IsInjective(Back(a)),
         \A x, y \in Range(Back(a)) : x[1] = y[1] => x = y
  PROVE  /\ Restorable(a) \in Seq(NoteMsgs) /\ IsInjective(Restorable(a))
         /\ \A x \in Range(Restorable(a)) : \E o \in Range(Back(a)) :
              o \notin Range(transcript) /\ x = Clone(o)
<1> DEFINE b == Back(a)
           lost == Drop(b, Range(transcript))
           r == Restorable(a)
<1>1. b \in Seq(NoteMsgs)
  <2> DEFINE p == IF a \in AgentMsgs THEN act[a].prefix ELSE << >>
             n == act[a].next
  <2>1. act[a].prefix \in Seq(NoteMsgs) /\ n \in Seq(NoteMsgs)
    BY StoreFacts DEF Actions
  <2>2. p \in Seq(NoteMsgs)
    BY <2>1
  <2>3. b = p \o n
    BY DEF Back
  <2> HIDE DEF p, n, b
  <2> QED BY <2>1, <2>2, <2>3
<1>2. r = [i \in 1 .. Len(lost) |-> Clone(lost[i])] /\ r \in Seq(NoteMsgs)
  BY RestorableType DEF Restorable, Back
<1> HIDE DEF b, r
<1>3. lost \in Seq(NoteMsgs) /\ Range(lost) = Range(b) \ Range(transcript) /\ IsInjective(lost)
  BY <1>1, DropFacts DEF b
<1> HIDE DEF lost
<1>4. /\ Len(lost) \in Nat /\ DOMAIN lost = 1 .. Len(lost) /\ DOMAIN r = 1 .. Len(lost)
      /\ \A i \in 1 .. Len(lost) : r[i] = Clone(lost[i]) /\ lost[i] \in Range(lost)
  BY <1>2, <1>3 DEF Range
<1>5. \A i \in 1 .. Len(lost) : r[i][1] = lost[i][1]
  BY <1>4 DEF Clone
<1>6. \A i, j \in 1 .. Len(lost) : r[i] = r[j] => i = j
  BY <1>3, <1>4, <1>5 DEF IsInjective, b
<1>7. IsInjective(r)
  BY <1>4, <1>6 DEF IsInjective
<1>8. \A x \in Range(r) : \E o \in Range(b) : o \notin Range(transcript) /\ x = Clone(o)
  <2>1. \A x \in Range(r) : \E i \in 1 .. Len(lost) : x = r[i]
    BY <1>4 DEF Range
  <2> QED BY <1>3, <1>4, <2>1
<1> QED BY <1>2, <1>7, <1>8 DEF b, r

(* What waits after a cancellation. *)
LEMMA PendGiven ==
  ASSUME StoreInv, NEW S \in SUBSET Acts, CancelActions(S), IsInjective(pend),
         \A a \in S : IsInjective(Back(a)),
         \A a, b \in S : \A x \in Range(Back(a)), y \in Range(Back(b)) : x[1] = y[1] => a = b /\ x = y,
         \A a \in S : \A x \in Range(Back(a)), y \in Range(pend) : x[1] # y[1]
  PROVE  /\ IsInjective(pend')
         /\ \A x \in Range(pend') : \/ x \in Range(pend)
              \/ \E a \in S : \E o \in Range(Back(a)) : o \notin Range(transcript) /\ x = Clone(o)
<1> DEFINE order == Keep(Owned, S)
           L == Len(order)
           ss == [i \in 1 .. L |-> Restorable(order[i])]
           From(x, a) == \E o \in Range(Back(a)) : o \notin Range(transcript) /\ x = Clone(o)
<1>1. order \in Seq(Acts) /\ IsInjective(order) /\ Range(order) \subseteq S
  BY OwnedOnce, KeepFacts
<1>2. pend' = FlattenSeq(ss) \o pend
  BY DEF CancelActions
<1> HIDE DEF order
<1>3. /\ L \in Nat /\ DOMAIN order = 1 .. L /\ \A i \in 1 .. L : order[i] \in S /\ order[i] \in Acts
  BY <1>1 DEF Range
<1>4. \A a \in S : /\ Restorable(a) \in Seq(NoteMsgs) /\ IsInjective(Restorable(a))
                   /\ \A x \in Range(Restorable(a)) : From(x, a)
  BY RestoredFacts
<1> HIDE DEF L
<1>5. ss \in Seq(Seq(NoteMsgs)) /\ Len(ss) = L /\ \A i \in 1 .. L : ss[i] = Restorable(order[i])
  BY <1>3, <1>4
<1>6. \A x, a : From(x, a) => \E o \in Range(Back(a)) : x[1] = o[1]
  BY DEF Clone
<1> HIDE DEF ss, From
<1>7. ASSUME NEW i \in 1 .. L, NEW j \in 1 .. L, i # j PROVE Range(ss[i]) \cap Range(ss[j]) = {}
  <2> SUFFICES ASSUME NEW x \in Range(ss[i]), x \in Range(ss[j]) PROVE FALSE
    OBVIOUS
  <2>1. From(x, order[i]) /\ From(x, order[j]) /\ order[i] \in S /\ order[j] \in S
    BY <1>3, <1>4, <1>5
  <2>2. order[i] = order[j]
    BY <1>6, <2>1
  <2> QED BY <1>1, <1>3, <1>7, <2>2 DEF IsInjective
<1>8. IsInjective(FlattenSeq(ss))
  <2>1. /\ \A i \in 1 .. Len(ss) : IsInjective(ss[i])
        /\ \A i, j \in 1 .. Len(ss) : i # j => Range(ss[i]) \cap Range(ss[j]) = {}
    BY <1>3, <1>4, <1>5, <1>7
  <2> QED BY <1>5, <2>1, FlattenInjective
<1>9. \A x \in Range(FlattenSeq(ss)) : \E a \in S : From(x, a)
  BY <1>3, <1>4, <1>5, FlattenRange
<1>10. FlattenSeq(ss) \in Seq(NoteMsgs) /\ pend \in Seq(NoteMsgs)
  BY <1>5, FlattenType, StoreFacts
<1>11. Range(FlattenSeq(ss)) \cap Range(pend) = {}
  BY <1>6, <1>9
<1> DEFINE f == FlattenSeq(ss)
<1> HIDE DEF f
<1>12. f \in Seq(NoteMsgs) /\ IsInjective(f) /\ Range(f) \cap Range(pend) = {} /\ pend' = f \o pend
  BY <1>2, <1>8, <1>10, <1>11 DEF f
<1>13. Range(f \o pend) = Range(f) \cup Range(pend) /\ IsInjective(f \o pend)
  BY <1>10, <1>12, ConcatRange, ConcatInjective
<1>14. \A x \in Range(f) : \E a \in S : From(x, a)
  BY <1>9 DEF f
<1> QED BY <1>12, <1>13, <1>14 DEF From


(* The notes of some holders are given back, as clones of those that were  *)
(* not delivered.                                                          *)
LEMMA ClonesOnce ==
  ASSUME StockOnce, NEW U \in SUBSET Holders, "pend" \notin U, "pend" \in Holders,
         \A h \in U : Range(Stock(h)') = {},
         \A h \in Holders : h # "pend" => Range(Stock(h)') \subseteq Range(Stock(h)),
         \A h \in Holders : IsInjective(Stock(h)'),
         \A x \in Range(Stock("pend")') : \/ x \in Range(Stock("pend"))
           \/ \E h \in U : \E o \in Range(Stock(h)) : o \notin Range(transcript) /\ x = Clone(o),
         Range(transcript') \subseteq Range(transcript),
         Range(transcript') \cap Captured(act) \subseteq Captured(act)',
         \A h \in Holders : Range(Stock(h)') \cap Captured(act)' = {}
  PROVE  StockOnce'
<1> DEFINE R(h) == Range(Stock(h))
           Q(h) == Range(Stock(h)')
           C == Captured(act)
           D == Captured(act)'
           Cloned(x) == \E h \in U : \E o \in R(h) : o \notin Range(transcript) /\ x = Clone(o)
<1>1. /\ \A h \in Holders : R(h) \cap C = {}
      /\ \A g, h \in Holders : \A x \in R(g), y \in R(h) : x[1] = y[1] => g = h /\ x = y
      /\ \A h \in Holders : \A x \in R(h), y \in Range(transcript) :
           x[1] = y[1] => y \in C \/ (h # "pend" /\ x = y)
  BY DEF StockOnce
<1>2. /\ \A h \in U : Q(h) = {}
      /\ \A h \in Holders : h # "pend" => Q(h) \subseteq R(h)
      /\ \A x \in Q("pend") : x \in R("pend") \/ Cloned(x)
      /\ Range(transcript') \subseteq Range(transcript) /\ Range(transcript') \cap C \subseteq D
  OBVIOUS
<1>3. \A x : Cloned(x) => \E h \in U : \E o \in R(h) : /\ o \notin Range(transcript) /\ x = Clone(o)
                                                       /\ x[1] = o[1]
  BY DEF Clone
<1> HIDE DEF R, Q, C, D, Cloned
<1>4. ASSUME NEW x, NEW g \in Holders, Cloned(x), NEW y \in Q(g), g # "pend" PROVE x[1] # y[1]
  BY <1>1, <1>2, <1>3, <1>4
<1>5. ASSUME NEW x, NEW y, Cloned(x), y \in R("pend") \/ Cloned(y), x[1] = y[1] PROVE x = y
  BY <1>1, <1>3, <1>5
<1>6. ASSUME NEW g \in Holders, NEW h \in Holders, NEW x \in Q(g), NEW y \in Q(h), x[1] = y[1]
      PROVE  g = h /\ x = y
  <2>1. CASE g # "pend" /\ h # "pend"
    BY <1>1, <1>2, <1>6, <2>1
  <2>2. CASE g = "pend" /\ h # "pend"
    BY <1>1, <1>2, <1>4, <1>6, <2>2
  <2>3. CASE g # "pend" /\ h = "pend"
    BY <1>1, <1>2, <1>4, <1>6, <2>3
  <2>4. CASE g = "pend" /\ h = "pend"
    BY <1>1, <1>2, <1>5, <1>6, <2>4
  <2> QED BY <2>1, <2>2, <2>3, <2>4
<1>7. ASSUME NEW h \in Holders, NEW x \in Q(h), NEW y \in Range(transcript'), x[1] = y[1]
      PROVE  y \in D \/ (h # "pend" /\ x = y)
  <2>1. CASE x \in R(h)
    BY <1>1, <1>2, <1>7, <2>1
  <2>2. CASE h = "pend" /\ Cloned(x)
    BY <1>1, <1>2, <1>3, <1>7, <2>2
  <2> QED BY <1>2, <1>7, <2>1, <2>2
<1> QED BY <1>6, <1>7 DEF StockOnce, Q, D

(* An action that is cancelled keeps its messages. *)
LEMMA CancelledKeeps ==
  ASSUME StoreInv, NEW a \in Acts
  PROVE  LET y == Cancelled(a) IN
         /\ y.prefix = act[a].prefix /\ y.next = act[a].next /\ y.started = act[a].started
         /\ y.durable = act[a].durable /\ y.st = "cancelled"
         /\ y.captured = (act[a].st = "committing")
<1> DEFINE x == act[a]
           refused == a \in Turns /\ (a \in AgentMsgs \/ ~x.vis \/ x.st # "queued")
           d == Settle(x.delivered, IF refused THEN "rejected" ELSE "not_applicable")
           c == Settle(x.completed, "error")
           b == x.st = "committing"
           y == Cancelled(a)
<1>1. x \in Actions
  BY StoreFacts
<1>2. y = [x EXCEPT !.st = "cancelled", !.delivered = d, !.completed = c, !.captured = b]
  BY DEF Cancelled
<1> HIDE DEF x, d, c, b, y
<1>3. /\ y.prefix = x.prefix /\ y.next = x.next /\ y.started = x.started
      /\ y.durable = x.durable /\ y.st = "cancelled" /\ y.captured = b
  BY <1>1, <1>2 DEF Actions
<1> QED BY <1>3 DEF x, y, b

(* What was taken back is all there is when messages of agents are cleared. *)
LEMMA SoleCapture ==
  ASSUME StoreInv, RejectedInv, CaptureRuns, Sole, NEW a \in AgentMsgs, act[a].st # "cancelled"
  PROVE  (\A c \in Acts : ~act[c].captured) /\ Captured(act) = {}
<1>1. ASSUME NEW c \in Acts, act[c].captured PROVE FALSE
  BY <1>1, StoreFacts DEF CaptureRuns, RejectedInv, CaptureEnds, Sole, Shelves, NewAreFresh
<1>2. Captured(act) = {}
  BY <1>1 DEF Captured
<1> QED BY <1>1, <1>2


(* What a cancellation makes of the actions and of the transcript. *)
Withdrawn(S) ==
  /\ \A a \in Acts : a \notin S => act'[a] = act[a]
  /\ \A a \in S : /\ act'[a].prefix = act[a].prefix /\ act'[a].next = act[a].next
                  /\ act'[a].started = act[a].started /\ act'[a].durable = act[a].durable
                  /\ act'[a].st = "cancelled" /\ act'[a].captured = (act[a].st = "committing")
  /\ transcript' = Drop(transcript, UNION {RecordsOf(a) : a \in {a \in S : act[a].st = "committing"}})
  /\ Range(transcript') \subseteq Range(transcript)
  /\ IsInjective(transcript) => IsInjective(transcript')

(* A cancellation does just that. *)
LEMMA CancelWithdraws ==
  ASSUME StoreInv, NEW S \in SUBSET Acts, CancelActions(S)
  PROVE  Withdrawn(S)
BY StoreFacts, DropFacts, CancelledKeeps DEF CancelActions, Withdrawn

(* The parts that every cancellation keeps. *)
LEMMA WithdrawnKeeps ==
  ASSUME StoreInv, OnceParts, NEW S \in SUBSET Acts, Withdrawn(S), pump' = pump, agent' = agent
  PROVE  StockReady' /\ MessagesOnce' /\ InFlight' /\ Undelivered'
<1>0. StockReady /\ MessagesOnce /\ InFlight /\ Undelivered
  BY DEF OnceParts
<1>1. \A a \in Acts : /\ act'[a].prefix = act[a].prefix /\ act'[a].next = act[a].next
                      /\ act'[a].started = act[a].started /\ act'[a].durable = act[a].durable
                      /\ act'[a].st = act[a].st \/ act'[a].st = "cancelled"
  BY DEF Withdrawn
<1>2. /\ Range(transcript') \subseteq Range(transcript)
      /\ IsInjective(transcript) => IsInjective(transcript')
  BY DEF Withdrawn
<1>3. StockReady'
  BY <1>0, <1>1, <1>2 DEF StockReady, Clearable
<1>4. MessagesOnce'
  <2>1. pump.turns \in Seq(Acts)
    BY StoreFacts DEF Pumps
  <2>2. \A a \in Range(pump.turns) : RecordsOf(a)' = RecordsOf(a)
    BY <1>1, <2>1, RangeFacts DEF RecordsOf, Primary
  <2>3. (UNION {RecordsOf(a) : a \in Range(pump.turns)})' = UNION {RecordsOf(a) : a \in Range(pump.turns)}
    BY <2>2
  <2> QED BY <1>0, <1>2, <2>3 DEF MessagesOnce
<1>5. InFlight'
  BY <1>0, <1>1 DEF Acts, InFlight
<1>6. Undelivered'
  BY <1>0, <1>1, <1>2 DEF Undelivered, Delivered, Primary
<1> QED BY <1>3, <1>4, <1>5, <1>6

(* Actions that have not been dispatched are cancelled. *)
LEMMA ClearedOnce ==
  ASSUME StoreInv, StoreInv', RejectedInv, OnceParts, Sole, NEW S \in SUBSET Acts, CancelActions(S),
         \A a \in S : act[a].st \in Clearable,
         pump' = pump, agent' = agent, evq' = evq, evFailed' = evFailed
  PROVE  OnceParts'
<1>0. /\ StockOnce /\ StockReady /\ BatchOnce /\ CaptureRuns /\ BatchStates /\ NewAreFresh
      /\ act \in [Acts -> Actions] /\ transcript \in Seq(Sent)
  BY StoreFacts DEF OnceParts, StoreInv
<1>1. Withdrawn(S)
  BY CancelWithdraws
<1>2. \A a \in S : ~act[a].captured /\ ~act'[a].captured
  BY <1>0, <1>1 DEF Withdrawn, NewAreFresh, Clearable
<1>3. Captured(act)' = Captured(act)
  BY <1>1, <1>2, CapturedKept DEF Withdrawn
<1>4. \A a \in S : act[a].next = << >> /\ Stock(a) = act[a].prefix /\ a \in Holders
  BY <1>0, StockType DEF StockReady, Clearable, Unfinished, Holders
<1>5. \A a \in S : Back(a) = IF a \in AgentMsgs THEN Stock(a) ELSE << >>
  <2>1. \A p \in Seq(NoteMsgs) : p \o << >> = p
    OBVIOUS
  <2>2. << >> \in Seq(NoteMsgs) /\ \A a \in S : Stock(a) \in Seq(NoteMsgs)
    BY <1>4, StockType
  <2> QED BY <1>4, <2>1, <2>2 DEF Back
<1>6. "pend" \in Holders /\ Stock("pend") = pend /\ Stock("pend")' = pend' /\ Range(<< >>) = {}
      /\ IsInjective(<< >>) /\ "pend" \notin Acts
  BY StockType, StockTypeNext DEF Holders, Range, IsInjective
<1>7. /\ IsInjective(pend')
      /\ \A x \in Range(pend') : \/ x \in Range(pend)
           \/ \E a \in S : \E o \in Range(Back(a)) : o \notin Range(transcript) /\ x = Clone(o)
  BY <1>0, <1>4, <1>5, <1>6, PendGiven DEF StockOnce
<1>8. ASSUME pump.pc = "running"
      PROVE  /\ pump.turns[1] \in Range(pump.turns) /\ Range(pump.turns) \subseteq Acts
             /\ \A a \in Range(pump.turns) : act'[a] = act[a]
  BY <1>0, <1>1, <1>8, FirstTurn DEF OnceParts, BatchStates, Clearable, Withdrawn
<1>9. Retaken' = Retaken
  BY <1>8 DEF Retaken
<1>10. /\ \A a \in S : Stock(a)' = << >>
       /\ \A a \in Acts : a \notin S => Stock(a)' = Stock(a)
       /\ Stock("pump")' = Stock("pump")
  BY <1>1, <1>9, StockType, StockTypeNext DEF Withdrawn, Unfinished
<1>11. ASSUME NEW h \in Holders, h # "pend" PROVE Stock(h)' \in {Stock(h), << >>}
  BY <1>10, <1>11 DEF Holders
<1>12. Range(transcript') = Range(transcript)
  <2>1. {a \in S : act[a].st = "committing"} = {}
    BY DEF Clearable
  <2>2. transcript' = Drop(transcript, {})
    BY <1>1, <2>1 DEF Withdrawn
  <2>3. Range(transcript') = Range(transcript) \ {}
    BY <1>0, <2>2, DropFacts
  <2> QED BY <2>3
<1>13. StockOnce'
  <2> DEFINE U == S \cap AgentMsgs
  <2>1. U \in SUBSET Holders /\ "pend" \notin U /\ \A h \in U : Range(Stock(h)') = {}
    BY <1>4, <1>6, <1>10
  <2>2. \A x \in Range(Stock("pend")') : \/ x \in Range(Stock("pend"))
          \/ \E h \in U : \E o \in Range(Stock(h)) : o \notin Range(transcript) /\ x = Clone(o)
    BY <1>5, <1>6, <1>7
  <2>3. \A h \in Holders : h # "pend" => Range(Stock(h)') \subseteq Range(Stock(h))
    BY <1>6, <1>11
  <2>4. \A h \in Holders : IsInjective(Stock(h)')
    BY <1>0, <1>6, <1>7, <1>11 DEF StockOnce
  <2>5. ASSUME NEW h \in Holders PROVE Range(Stock(h)') \cap Captured(act)' = {}
    <3>1. Range(Stock(h)) \cap Captured(act) = {}
      BY <1>0 DEF StockOnce
    <3>2. CASE h # "pend"
      BY <1>3, <2>3, <3>1, <3>2
    <3>3. CASE h = "pend" /\ U = {}
      BY <1>3, <2>2, <3>1, <3>3
    <3>4. CASE U # {}
      BY <1>0, <1>3, <3>4, SoleCapture DEF Clearable
    <3> QED BY <3>2, <3>3, <3>4
  <2> HIDE DEF U
  <2> QED BY <1>0, <1>3, <1>6, <1>12, <2>1, <2>2, <2>3, <2>4, <2>5, ClonesOnce
<1>14. StockReady' /\ MessagesOnce' /\ InFlight' /\ Undelivered'
  BY <1>1, WithdrawnKeeps
<1>15. CaptureRuns'
  <2>1. (\E a \in Acts : act'[a].captured) => \E a \in Acts : act[a].captured
    BY <1>1, <1>2 DEF Withdrawn
  <2>2. Retaken => act'[pump.turns[1]].captured = act[pump.turns[1]].captured
    BY <1>8 DEF Retaken
  <2> QED BY <1>0, <1>3, <1>9, <1>12, <2>1, <2>2 DEF CaptureRuns
<1>16. BatchOnce'
  BY <1>0, <1>8, <1>9 DEF BatchOnce
<1> QED BY <1>13, <1>14, <1>15, <1>16 DEF OnceParts


(* A dispatch that has not begun is taken back. *)
LEMMA TakenOnce ==
  ASSUME StoreInv, StoreInv', RejectedInv, OnceParts, Sole, NEW a \in AgentMsgs, CancelActions({a}),
         act[a].st = "committing", ~act[a].started, "clear_agent" \in Ops,
         {b \in Turns : act[b].st \in {"committing", "running"}} = {a},
         pump' = pump, agent' = agent, evq' = evq, evFailed' = evFailed
  PROVE  OnceParts'
<1> DEFINE S == {a}
<1>0. /\ StockOnce /\ StockReady /\ BatchOnce /\ CaptureRuns /\ BatchStates /\ NewAreFresh
      /\ act \in [Acts -> Actions] /\ transcript \in Seq(Sent) /\ InFlight
  BY StoreFacts DEF OnceParts, StoreInv
<1>1. a \in Turns /\ a \in Acts /\ S \in SUBSET Acts
  BY SessionActionsAssumption DEF Acts
<1>2. Withdrawn(S)
  BY <1>1, CancelWithdraws
<1>3. /\ \A b \in Acts : b # a => act'[b] = act[b]
      /\ act'[a].prefix = act[a].prefix /\ act'[a].next = act[a].next
      /\ act'[a].st = "cancelled" /\ act'[a].captured
  BY <1>2 DEF Withdrawn
<1>4. /\ pump.pc = "running" /\ Range(pump.turns) = {a} /\ pump.turns[1] = a /\ ~Retaken
  <2>1. ~act[a].durable
    BY <1>0, <1>1 DEF InFlight
  <2>2. pump.pc = "running" /\ a \in Range(pump.turns)
    BY <1>0, <1>1, <2>1 DEF InFlight
  <2>3. pump.turns[1] \in Range(pump.turns) /\ Range(pump.turns) \subseteq Turns
    BY <1>0, <2>2, FirstTurn DEF BatchStates
  <2>4. CASE \A b \in Range(pump.turns) : act[b].st \in {"committing", "running"}
    BY <2>2, <2>3, <2>4 DEF Retaken
  <2>5. CASE Retaken /\ Range(pump.turns) = {pump.turns[1]}
    BY <2>2, <2>5 DEF Retaken
  <2> QED BY <1>0, <2>2, <2>4, <2>5 DEF BatchOnce
<1>5. Retaken'
  BY <1>3, <1>4 DEF Retaken
<1>6. (\A c \in Acts : ~act[c].captured) /\ Captured(act) = {}
  BY <1>0, SoleCapture
<1>7. Captured(act)' = RecordsOf(a)
  <2>1. \A c \in Acts : act'[c].captured <=> c = a
    BY <1>3, <1>6
  <2>2. RecordsOf(a)' = RecordsOf(a)
    BY <1>3 DEF RecordsOf, Primary
  <2>3. Captured(act)' = RecordsOf(a)'
    BY <1>1, <2>1 DEF Captured
  <2> QED BY <2>2, <2>3
<1>8. /\ Stock(a) = act[a].prefix /\ Stock("pump") = act[a].next /\ Stock("pend") = pend
      /\ Stock(a)' = << >> /\ Stock("pump")' = << >> /\ Stock("pend")' = pend'
      /\ \A b \in Acts : b # a => Stock(b)' = Stock(b)
      /\ {a, "pump", "pend"} \subseteq Holders /\ a # "pump" /\ a # "pend" /\ "pump" # "pend"
      /\ Range(<< >>) = {} /\ IsInjective(<< >>)
  <2>1. act[a].next = pump.notes
    BY <1>0, <1>4 DEF BatchOnce
  <2>2. /\ Stock("pend") = pend /\ Stock("pump") = pump.notes
        /\ \A b \in Acts : Stock(b) = IF act[b].st \in Unfinished THEN act[b].prefix ELSE << >>
        /\ \A b \in Acts : b # "pend" /\ b # "pump"
    BY <1>4, StockType
  <2>3. /\ Stock("pend")' = pend' /\ Stock("pump")' = << >>
        /\ \A b \in Acts : Stock(b)' = IF act'[b].st \in Unfinished THEN act'[b].prefix ELSE << >>
    BY <1>5, StockTypeNext
  <2>4. Stock(a) = act[a].prefix /\ Stock(a)' = << >>
    BY <1>1, <1>3, <2>2, <2>3 DEF Unfinished
  <2>5. \A b \in Acts : b # a => Stock(b)' = Stock(b)
    BY <1>3, <2>2, <2>3
  <2>6. /\ {a, "pump", "pend"} \subseteq Holders /\ a # "pump" /\ a # "pend" /\ "pump" # "pend"
        /\ Range(<< >>) = {} /\ IsInjective(<< >>)
    BY <1>1, <2>2 DEF Holders, Range, IsInjective
  <2> QED BY <2>1, <2>2, <2>3, <2>4, <2>5, <2>6
<1>9. /\ \A h \in Holders : IsInjective(Stock(h)) /\ Range(Stock(h)) \subseteq NoteMsgs
      /\ \A g, h \in Holders : \A x \in Range(Stock(g)), y \in Range(Stock(h)) :
           x[1] = y[1] => g = h /\ x = y
  BY <1>0, StockType DEF StockOnce
<1>10. Range(Back(a)) = Range(Stock(a)) \cup Range(Stock("pump")) /\ IsInjective(Back(a))
  BY <1>8, <1>9, StockType, ConcatRange, ConcatInjective DEF Back
<1>11. /\ IsInjective(pend')
       /\ \A x \in Range(pend') : \/ x \in Range(pend)
            \/ \E o \in Range(Back(a)) : o \notin Range(transcript) /\ x = Clone(o)
  BY <1>1, <1>8, <1>9, <1>10, PendGiven
<1>12. Range(transcript') = Range(transcript) \ RecordsOf(a)
  BY <1>0, <1>2, DropFacts DEF Withdrawn
<1>13. RecordsOf(a) = Range(Stock(a)) \cup Range(Stock("pump")) \cup {Primary(a)}
  BY <1>8 DEF RecordsOf
<1>14. ASSUME NEW h \in Holders, h # "pend" PROVE Stock(h)' \in {Stock(h), << >>}
  BY <1>8, <1>14 DEF Holders
<1>15. ASSUME NEW h \in Holders PROVE Range(Stock(h)') \cap Captured(act)' = {}
  <2> SUFFICES ASSUME NEW x \in Range(Stock(h)'), x \in RecordsOf(a) PROVE FALSE
    BY <1>7
  <2>1. x # Primary(a)
    BY <1>1, StockTypeNext, KeysApart
  <2>2. PICK g \in {a, "pump"} : x \in Range(Stock(g))
    BY <1>13, <2>1
  <2>3. CASE h # "pend"
    BY <1>8, <1>9, <1>14, <2>2, <2>3
  <2>4. CASE h = "pend" /\ x \in Range(pend)
    BY <1>8, <1>9, <2>2, <2>4
  <2>5. CASE \E o \in Range(Back(a)) : o \notin Range(transcript) /\ x = Clone(o)
    BY <1>8, <1>9, <1>10, <2>2, <2>5 DEF Clone, NoteMsgs
  <2> QED BY <1>8, <1>11, <2>3, <2>4, <2>5
<1>16. StockOnce'
  <2> DEFINE U == {a, "pump"}
  <2>1. /\ U \in SUBSET Holders /\ "pend" \notin U /\ "pend" \in Holders
        /\ \A h \in U : Range(Stock(h)') = {}
    BY <1>8
  <2>2. \A x \in Range(Stock("pend")') : \/ x \in Range(Stock("pend"))
          \/ \E h \in U : \E o \in Range(Stock(h)) : o \notin Range(transcript) /\ x = Clone(o)
    BY <1>8, <1>10, <1>11
  <2>3. \A h \in Holders : h # "pend" => Range(Stock(h)') \subseteq Range(Stock(h))
    BY <1>8, <1>14
  <2>4. \A h \in Holders : IsInjective(Stock(h)')
    BY <1>8, <1>9, <1>11, <1>14
  <2>5. Range(transcript') \cap Captured(act) \subseteq Captured(act)'
    BY <1>6
  <2> HIDE DEF U
  <2> QED BY <1>0, <1>12, <1>15, <2>1, <2>2, <2>3, <2>4, <2>5, ClonesOnce
<1>17. StockReady' /\ MessagesOnce' /\ InFlight' /\ Undelivered'
  BY <1>1, <1>2, WithdrawnKeeps
<1>18. CaptureRuns'
  <2>1. Range(transcript') \cap Captured(act)' = {}
    BY <1>7, <1>12
  <2>2. ASSUME agent.on PROVE \A i \in 1 .. Len(evq) : evq[i] # "agent_end"
    BY <2>2 DEF RejectedInv, NoEarlierEnd, Sole
  <2> QED BY <1>0, <1>3, <1>4, <1>5, <2>1, <2>2 DEF CaptureRuns
<1>19. BatchOnce'
  BY <1>0, <1>3, <1>4, <1>5 DEF BatchOnce
<1> QED BY <1>16, <1>17, <1>18, <1>19 DEF OnceParts


(* Steps that leave the agent's run to itself. *)
LEMMA CalmOnce ==
  ASSUME StoreInv, StoreInv', RejectedInv, OnceParts, Sole,
         Clients \/ Outside \/ Pauses \/ UNCHANGED vars
  PROVE  OnceParts'
<1>0. AgentDriven /\ "pend" \in Holders /\ "pend" \notin Acts
  BY SessionActionsAssumption DEF RejectedInv, Holders
<1>1. pump' = pump /\ agent' = agent /\ evq' = evq /\ evFailed' = evFailed
  BY CalmSteps
<1>2. ASSUME UNCHANGED <<act, transcript>>, pend' \in {pend, << >>} PROVE OnceParts'
  BY <1>0, <1>1, <1>2, AdmittedOnce DEF Kept
<1>3. CASE Pauses \/ UNCHANGED vars
  <2>1. UNCHANGED <<act, transcript, pend>>
    <3>1. CASE Pauses
      BY <3>1 DEF Pauses, PrepareRestart, CheckpointClear, CheckpointFenced, CancelRestart,
        Navigate, NavigateFenced, NavigateEnd, pauseRest, storeVars, agentVars
    <3>2. CASE UNCHANGED vars
      BY <3>2 DEF vars
    <3> QED BY <1>3, <3>1, <3>2
  <2> QED BY <1>2, <2>1
<1>4. CASE Clients
  <2>1. PICK a \in Acts : Submit(a) \/ PauseOver(a) \/ FenceGranted(a)
                           \/ AdmitPrompt(a) \/ Handled(a)
    BY <1>4 DEF Clients
  <2>2. transcript' = transcript
    BY <2>1 DEF Submit, PauseOver, FenceGranted, AdmitPrompt, Handled, agentVars
  <2>3. UNCHANGED <<act, pend>> \/ AdmitPrompt(a)
    BY <2>1 DEF Submit, PauseOver, FenceGranted, Handled, storeVars
  <2>4. \/ UNCHANGED act /\ pend' \in {pend, << >>}
        \/ AdmittedWith(a) /\ \A b \in Acts : b # a => act'[b] = act[b]
    BY <2>3, AdmitHands
  <2>5. CASE UNCHANGED act /\ pend' \in {pend, << >>}
    BY <1>2, <2>2, <2>5
  <2>6. CASE AdmittedWith(a) /\ \A b \in Acts : b # a => act'[b] = act[b]
    BY <1>0, <1>1, <2>2, <2>6, AdmittedOnce DEF Kept, AdmittedWith, Holders
  <2> QED BY <2>4, <2>5, <2>6
<1>5. CASE \/ ResumeQueuedWork \/ PauseAdmission \/ ResumeAdmission \/ BusyStart \/ BusyEnd
  BY <1>2, <1>5 DEF ResumeQueuedWork, PauseAdmission, ResumeAdmission, BusyStart, BusyEnd, storeVars
<1>6. CASE MoveQueued
  <2>1. transcript' = transcript /\ pend' = pend
    BY <1>6 DEF MoveQueued
  <2>2. PICK a \in Turns : \E to : act' = [act EXCEPT ![a].lane = to]
    BY <1>6 DEF MoveQueued
  <2>3. PICK to : act' = [act EXCEPT ![a].lane = to]
    BY <2>2
  <2>4. a \in Acts /\ act \in [Acts -> Actions]
    BY StoreFacts DEF Acts
  <2>5. ASSUME NEW b \in Acts PROVE Kept(b) /\ act'[b].st = act[b].st
    BY <2>3, <2>4 DEF Kept, Actions
  <2> QED BY <1>0, <1>1, <2>1, <2>5, AdmittedOnce
<1>7. ASSUME NEW S \in SUBSET Acts, CancelActions(S), \A a \in S : act[a].st \in Clearable
      PROVE  OnceParts'
  BY <1>1, <1>7, ClearedOnce
<1>8. CASE RequestAbort
  <2> DEFINE S == {a \in Turns : act[a].st \in Clearable /\ ~act[a].vis}
  <2>1. CancelActions(S)
    BY <1>8 DEF RequestAbort
  <2>2. S \in SUBSET Acts /\ \A a \in S : act[a].st \in Clearable
    BY DEF Acts
  <2> HIDE DEF S
  <2> QED BY <1>7, <2>1, <2>2
<1>9. CASE ClearQueue
  <2> DEFINE S == {a \in Acts : act[a].st \in Clearable /\ (a \in Commands \/ act[a].vis)}
  <2>1. CancelActions(S)
    BY <1>9 DEF ClearQueue
  <2>2. S \in SUBSET Acts /\ \A a \in S : act[a].st \in Clearable
    OBVIOUS
  <2> HIDE DEF S
  <2> QED BY <1>7, <2>1, <2>2
<1>10. CASE CancelOne
  BY <1>7, <1>10 DEF CancelOne, Acts
<1>11. CASE ClearAgentMessages
  <2> DEFINE dispatched == {a \in Turns : act[a].st \in {"committing", "running"}}
             S == {a \in AgentMsgs : \/ act[a].st \in Clearable
                                     \/ /\ act[a].st = "committing" /\ ~act[a].started
                                        /\ dispatched = {a}}
  <2>1. CancelActions(S) /\ "clear_agent" \in Ops
    BY <1>11 DEF ClearAgentMessages, Op
  <2>2. S \in SUBSET Acts
    BY SessionActionsAssumption DEF Acts
  <2>3. CASE \A a \in S : act[a].st \in Clearable
    <3> HIDE DEF S
    <3> QED BY <1>7, <2>1, <2>2, <2>3
  <2>4. CASE \E a \in S : act[a].st \notin Clearable
    <3>1. PICK a \in S : act[a].st \notin Clearable
      BY <2>4
    <3>2. a \in AgentMsgs /\ act[a].st = "committing" /\ ~act[a].started /\ dispatched = {a}
      BY <3>1
    <3>3. S = {a}
      <4>1. S \subseteq AgentMsgs
        OBVIOUS
      <4> HIDE DEF S
      <4> QED BY <2>1, <3>1, <3>2, <4>1 DEF Sole
    <3> HIDE DEF S
    <3>4. CancelActions({a})
      BY <2>1, <3>3
    <3> QED BY <1>1, <2>1, <3>2, <3>4, TakenOnce
  <2> QED BY <2>3, <2>4
<1> QED BY <1>3, <1>4, <1>5, <1>6, <1>8, <1>9, <1>10, <1>11 DEF Outside


(* At the start the notes wait, each once. *)
LEMMA OnceInitial ==
  ASSUME Init
  PROVE  OnceParts
<1>0. StoreInv
  BY StoreInit
<1>1. /\ act = [a \in Acts |-> NewAction] /\ pump = NoPump /\ agent = NoRun
      /\ transcript = << >> /\ evq = << >> /\ ~evFailed
      /\ pend = SetToSeq({<<n, 0>> : n \in Notes})
  BY DEF Init
<1>2. \A a \in Acts : /\ act[a].st = "new" /\ ~act[a].captured /\ ~act[a].durable
  BY <1>1 DEF NewAction
<1>3. /\ pump.pc = "off" /\ pump.notes = << >> /\ pump.batch = << >> /\ pump.turns = << >>
      /\ ~agent.on /\ agent.todo = << >> /\ Range(<< >>) = {} /\ IsInjective(<< >>)
  BY <1>1 DEF NoPump, NoRun, Range, IsInjective
<1>4. Captured(act) = {} /\ ~Retaken
  BY <1>2, <1>3 DEF Captured, Retaken
<1>5. IsInjective(pend) /\ Range(pend) \subseteq {<<n, 0>> : n \in Notes}
  BY <1>1, NotesQueued
<1>6. /\ Stock("pend") = pend /\ "pend" \in Holders
      /\ \A h \in Holders : h # "pend" => Stock(h) = << >>
  BY <1>0, <1>2, <1>3, <1>4, StockType DEF Holders, Unfinished
<1>7. StockOnce
  BY <1>1, <1>3, <1>4, <1>5, <1>6 DEF StockOnce
<1>8. Range(transcript) = {} /\ Range(agent.todo) = {} /\ IsInjective(transcript)
  BY <1>1, <1>3
<1>9. MessagesOnce
  BY <1>3, <1>8 DEF MessagesOnce
<1>10. Turns \subseteq Acts
  BY DEF Acts
<1> QED BY <1>1, <1>2, <1>3, <1>4, <1>7, <1>8, <1>9, <1>10
        DEF OnceParts, Undelivered, Delivered, StockReady, Clearable, CaptureRuns, BatchOnce, InFlight

(* When nobody clears the messages of agents, or only one of them is ever
   sent and the processing of no event fails, each note and each prompt is
   held in one place, and what was told to the agent was taken from there. *)
THEOREM OnceInvariance ==
  ASSUME "clear_agent" \notin Ops \/ ("event_fails" \notin Ops /\ \A a, b \in AgentMsgs : a = b)
  PROVE  Spec => []OnceInv
<1>0. Sole /\ OneAtATime
  BY DEF Sole, OneAtATime
<1>1. Init => RejectedInv /\ OnceParts
  BY RejectedInitial, OnceInitial
<1>2. SessionInv /\ RejectedInv /\ OnceParts /\ [Next]_vars => RejectedInv' /\ OnceParts'
  <2> SUFFICES ASSUME SessionInv, RejectedInv, OnceParts, [Next]_vars
               PROVE  RejectedInv' /\ OnceParts'
    OBVIOUS
  <2>1. StoreInv /\ AgentDriven /\ sch \in Schedulers
    BY DEF SessionInv, RejectedInv, PauseInv
  <2>2. AgentDriven' /\ StoreInv'
    BY <2>1, AgentDrivenStep, StoreStep
  <2>3. RejectedInv'
    BY <1>0, <2>1, <2>2, CalmRejects, PumpRejects, DispatchedRejects, MessageStartRejects,
       MessageEndRejects, AgentEndRejects, RetryRunRejects, ProcessEventRejects DEF Next, Pump, Run
  <2>4. CASE Clients \/ Outside \/ Pauses \/ UNCHANGED vars
    BY <1>0, <2>1, <2>2, <2>3, <2>4, CalmOnce
  <2>5. CASE Pump
    BY <1>0, <2>1, <2>2, <2>3, <2>5, TendingOnce, PreparingOnce, SettledOnce, CommitOnce DEF Pump
  <2>6. CASE Run
    BY <2>1, <2>2, <2>3, <2>6, MessageStartOnce, MessageEndOnce, AgentEndOnce, ProcessEventOnce DEF Run
  <2> QED BY <2>3, <2>4, <2>5, <2>6 DEF Next
<1>3. RejectedInv /\ OnceParts => OnceInv
  BY DEF OnceParts, OnceInv
<1> QED BY <1>1, <1>2, <1>3, SessionInvariance, PTL DEF Spec

(* Under the same conditions no message is handed to the model twice,
   whatever was rolled back, dispatched again, cancelled or restored. *)
THEOREM DeliversOnce ==
  ASSUME "clear_agent" \notin Ops \/ ("event_fails" \notin Ops /\ \A a, b \in AgentMsgs : a = b)
  PROVE  Spec => []DeliveredOnce
<1>1. SessionInv /\ OnceInv => DeliveredOnce
  BY StoreFacts DEF DeliveredOnce, SessionInv, OnceInv, Range, MessagesOnce, IsInjective
<1> QED BY <1>1, SessionInvariance, OnceInvariance, PTL

(* Two places that a note can be delivered from, or has been delivered to,
   are the same. *)
LEMMA OnePlace ==
  ASSUME StoreInv, OnceInv, NEW n \in Notes, NEW p \in Places(n), NEW q \in Places(n)
  PROVE  p = q
<1> DEFINE Held(r, h, x) ==
             /\ x \in Range(Stock(h)) /\ x[1] = n /\ x \notin Range(transcript)
             /\ \/ h = "pend" /\ \E i \in 1 .. Len(pend) : r = <<"pend", i>> /\ pend[i] = x
                \/ h = "pump" /\ \E i \in 1 .. Len(pump.notes) : r = <<"pump", i>> /\ pump.notes[i] = x
                \/ h \in Acts /\ r = <<"prefix", h>>
           Shown(r) == \E i \in 1 .. Len(transcript) :
             r = <<"transcript", i>> /\ transcript[i][1] = n /\ transcript[i] \notin Captured(act)
<1>1. StockOnce /\ MessagesOnce /\ Range(pend) \cap Range(transcript) = {}
  BY PendUnseen DEF OnceInv
<1>2. /\ pend \in Seq(NoteMsgs) /\ pump.notes \in Seq(NoteMsgs) /\ transcript \in Seq(Sent)
      /\ Stock("pend") = pend /\ (~Retaken => Stock("pump") = pump.notes)
      /\ (\A a \in Acts : act[a].st \in Unfinished => Stock(a) = act[a].prefix)
      /\ Turns \subseteq Acts /\ "pend" \notin Acts /\ "pump" \notin Acts
  BY StoreFacts, StockType DEF Pumps, Acts
<1>3. ASSUME NEW r \in Places(n)
      PROVE  Shown(r) \/ \E h \in Holders : \E x : Held(r, h, x)
  <2>1. CASE \E i \in 1 .. Len(pend) : r = <<"pend", i>> /\ pend[i][1] = n
    <3>1. PICK i \in 1 .. Len(pend) : r = <<"pend", i>> /\ pend[i][1] = n
      BY <2>1
    <3>2. pend[i] \in Range(pend)
      BY <1>2, <3>1 DEF Range
    <3>3. Held(r, "pend", pend[i])
      BY <1>1, <1>2, <3>1, <3>2
    <3> QED BY <3>3 DEF Holders
  <2>2. CASE \E i \in 1 .. Len(pump.notes) : /\ r = <<"pump", i>> /\ pump.notes[i][1] = n
               /\ pump.notes[i] \notin Range(transcript) /\ ~Retaken
    <3>1. PICK i \in 1 .. Len(pump.notes) : /\ r = <<"pump", i>> /\ pump.notes[i][1] = n
             /\ pump.notes[i] \notin Range(transcript) /\ ~Retaken
      BY <2>2
    <3>2. pump.notes[i] \in Range(pump.notes)
      BY <1>2, <3>1 DEF Range
    <3>3. Held(r, "pump", pump.notes[i])
      BY <1>2, <3>1, <3>2
    <3> QED BY <3>3 DEF Holders
  <2>3. CASE \E a \in Turns : /\ r = <<"prefix", a>> /\ act[a].st \in Unfinished
               /\ \E m \in Range(act[a].prefix) : m[1] = n /\ m \notin Range(transcript)
    <3>1. PICK a \in Turns : /\ r = <<"prefix", a>> /\ act[a].st \in Unfinished
               /\ \E m \in Range(act[a].prefix) : m[1] = n /\ m \notin Range(transcript)
      BY <2>3
    <3>2. PICK m \in Range(act[a].prefix) : m[1] = n /\ m \notin Range(transcript)
      BY <3>1
    <3>3. a \in Acts /\ Held(r, a, m)
      BY <1>2, <3>1, <3>2
    <3> QED BY <3>3 DEF Holders
  <2>4. CASE Shown(r)
    BY <2>4
  <2> QED BY <1>3, <2>1, <2>2, <2>3, <2>4 DEF Places, Retaken
<1>4. ASSUME NEW h \in Holders, NEW g \in Holders, NEW x, NEW y, Held(p, h, x), Held(q, g, y)
      PROVE  p = q
  <2>1. h = g /\ x = y
    BY <1>1, <1>4 DEF StockOnce
  <2>2. IsInjective(Stock(h))
    BY <1>1 DEF StockOnce
  <2>3. CASE h = "pend"
    <3>1. PICK i \in 1 .. Len(pend), j \in 1 .. Len(pend) :
            p = <<"pend", i>> /\ q = <<"pend", j>> /\ pend[i] = pend[j]
      BY <1>2, <1>4, <2>1, <2>3
    <3>2. DOMAIN pend = 1 .. Len(pend) /\ IsInjective(pend)
      BY <1>2, <2>2, <2>3
    <3> QED BY <3>1, <3>2 DEF IsInjective
  <2>4. CASE h = "pump"
    <3>1. PICK i \in 1 .. Len(pump.notes), j \in 1 .. Len(pump.notes) :
            p = <<"pump", i>> /\ q = <<"pump", j>> /\ pump.notes[i] = pump.notes[j]
      BY <1>2, <1>4, <2>1, <2>4
    <3>2. ~Retaken
      <4>1. Retaken => Range(Stock("pump")) = {}
        BY StockType DEF Range
      <4> QED BY <1>4, <2>4, <4>1
    <3>3. DOMAIN pump.notes = 1 .. Len(pump.notes) /\ IsInjective(pump.notes)
      BY <1>2, <2>2, <2>4, <3>2
    <3> QED BY <3>1, <3>3 DEF IsInjective
  <2>5. CASE h \in Acts
    BY <1>2, <1>4, <2>1, <2>5
  <2> QED BY <2>3, <2>4, <2>5 DEF Holders
<1>5. ASSUME NEW r, NEW s, NEW h \in Holders, NEW x, Held(r, h, x), Shown(s) PROVE FALSE
  <2>1. PICK i \in 1 .. Len(transcript) : transcript[i][1] = n /\ transcript[i] \notin Captured(act)
    BY <1>5
  <2>2. transcript[i] \in Range(transcript)
    BY <1>2, <2>1 DEF Range
  <2> QED BY <1>1, <1>5, <2>1, <2>2 DEF StockOnce
<1>6. ASSUME Shown(p), Shown(q) PROVE p = q
  <2>1. PICK i \in 1 .. Len(transcript), j \in 1 .. Len(transcript) :
          /\ p = <<"transcript", i>> /\ q = <<"transcript", j>>
          /\ transcript[i][1] = n /\ transcript[j][1] = n
    BY <1>6
  <2>2. /\ transcript[i] \in Range(transcript) /\ transcript[j] \in Range(transcript)
        /\ DOMAIN transcript = 1 .. Len(transcript)
    BY <1>2, <2>1 DEF Range
  <2>3. transcript[i] = transcript[j]
    BY <1>1, <2>1, <2>2 DEF MessagesOnce
  <2> QED BY <1>1, <2>1, <2>2, <2>3 DEF MessagesOnce, IsInjective
<1> HIDE DEF Held, Shown
<1> QED BY <1>3, <1>4, <1>5, <1>6

(* Under the same conditions a note that waits for the next turn is never in
   two places: no turn can deliver it a second time. *)
THEOREM NotesAreOnce ==
  ASSUME "clear_agent" \notin Ops \/ ("event_fails" \notin Ops /\ \A a, b \in AgentMsgs : a = b)
  PROVE  Spec => []NotesOnce
<1>1. SessionInv /\ OnceInv => NotesOnce
  <2> SUFFICES ASSUME SessionInv, OnceInv, NEW n \in Notes PROVE Cardinality(Places(n)) <= 1
    BY DEF NotesOnce
  <2>1. \A p, q \in Places(n) : p = q
    BY OnePlace DEF SessionInv
  <2>2. CASE Places(n) = {}
    BY <2>2, FS_EmptySet
  <2>3. CASE Places(n) # {}
    BY <2>1, <2>3, FS_Singleton
  <2> QED BY <2>2, <2>3
<1> QED BY <1>1, SessionInvariance, OnceInvariance, PTL
=============================================================================
