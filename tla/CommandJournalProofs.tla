------------------------ MODULE CommandJournalProofs ------------------------
(***************************************************************************)
(* Proofs that the file of CommandJournal implements the durable map of    *)
(* DurableReceipts, and that no command is started twice and no recorded   *)
(* result is lost, for any set of commands and any number of restarts, as  *)
(* long as no supervisor dies again after one has died within an append.   *)
(***************************************************************************)
EXTENDS CommandJournal, SequenceTheorems, FiniteSetTheorems, WellFoundedInduction, TLAPS

-----------------------------------------------------------------------------
(* Reading a file *)

(* h is the history of the map while the first n of the lines p are read;
   the first n lines of p and q are the same. *)
Follows(h, p, n) ==
  h[0] = Nothing /\ \A i \in 1 .. n : h[i] = Read(h[i - 1], p[i])
Reading(h, p, n) == h \in [0 .. n -> [Keys -> States]] /\ Follows(h, p, n)
SameUpTo(p, q, n) == \A i \in 1 .. n : p[i] = q[i]

(* A non-empty set of positive numbers up to n has a least element. *)
LEMMA Least ==
  ASSUME NEW n \in Nat, NEW I \in SUBSET (1 .. n), I # {}
  PROVE  \E k \in I : \A i \in I : k <= i
<1>1. IsWellFoundedOn(OpToRel(<, Nat), Nat)
  BY NatLessThanWellFounded
<1>2. I \subseteq Nat
  OBVIOUS
<1>3. PICK k \in I : \A i \in I : ~(<<i, k>> \in OpToRel(<, Nat))
  BY <1>1, <1>2, WFMin
<1>4. ASSUME NEW i \in Nat, i < k PROVE <<i, k>> \in OpToRel(<, Nat)
  <2>1. <<i, k>> \in Nat \X Nat /\ <<i, k>>[1] < <<i, k>>[2]
    BY <1>2, <1>4
  <2> QED BY <2>1 DEF OpToRel
<1>5. ASSUME NEW i \in I PROVE k <= i
  <2>1. i \in Nat /\ k \in Nat
    BY <1>2
  <2>2. ~(i < k)
    BY <1>3, <1>4, <2>1
  <2> QED BY <2>1, <2>2
<1> QED BY <1>5

(* A line of the journal turns a map into a map. *)
LEMMA ReadType ==
  ASSUME NEW m \in [Keys -> States], NEW x \in Lines \cup {Broken}
  PROVE  Read(m, x) \in [Keys -> States]
<1>1. CASE x = Broken
  BY <1>1 DEF Read
<1>2. CASE x \in Lines /\ x # Broken
  <2>1. x.key \in Keys /\ x.type \in {"received", "result", "acknowledged"}
    BY <1>2 DEF Lines
  <2>2. m[x.key] \in States
    BY <2>1
  <2> QED BY <1>2, <2>1, <2>2 DEF Read, States
<1> QED BY <1>1, <1>2

(* The empty map is a map. *)
LEMMA NothingType == Nothing \in [Keys -> States]
BY DEF Nothing, States

(* What was read of a line depends on the lines up to it only. *)
LEMMA SameLines ==
  ASSUME NEW n \in Nat, NEW p, NEW q, NEW g, NEW h,
         Follows(g, p, n), Follows(h, q, n), SameUpTo(p, q, n)
  PROVE  \A i \in 0 .. n : g[i] = h[i]
<1> USE DEF Follows, SameUpTo
<1> DEFINE I == {i \in 1 .. n : g[i] # h[i]}
<1>1. I = {}
  <2> SUFFICES ASSUME I # {} PROVE FALSE
    OBVIOUS
  <2>1. PICK k \in I : \A i \in I : k <= i
    <3>1. I \in SUBSET (1 .. n)
      OBVIOUS
    <3> HIDE DEF I
    <3> QED BY <3>1, Least
  <2>2. k \in 1 .. n /\ g[k] # h[k]
    OBVIOUS
  <2>3. g[k - 1] = h[k - 1]
    <3>1. CASE k = 1
      BY <3>1
    <3>2. CASE k # 1
      <4>1. k - 1 \in 1 .. n /\ ~(k <= k - 1)
        BY <2>2, <3>2
      <4> QED BY <2>1, <4>1
    <3> QED BY <3>1, <3>2
  <2> QED BY <2>2, <2>3
<1> QED BY <1>1

(* Every file has a history. *)
LEMMA HasReading ==
  ASSUME NEW p \in Seq(Lines \cup {Broken})
  PROVE  Reading(After(p), p, Len(p))
<1> DEFINE L == Len(p)
           I == {n \in 1 .. L : ~ \E h : Reading(h, p, n)}
<1>0. L \in Nat /\ \A i \in 1 .. L : p[i] \in Lines \cup {Broken}
  OBVIOUS
<1>1. \E h : Reading(h, p, 0)
  <2>1. Reading([i \in 0 .. 0 |-> Nothing], p, 0)
    BY NothingType DEF Reading, Follows
  <2> QED BY <2>1
<1>2. ASSUME NEW n \in 1 .. L, NEW h, Reading(h, p, n - 1)
      PROVE  \E g : Reading(g, p, n)
  <2> DEFINE g == [i \in 0 .. n |-> IF i = n THEN Read(h[n - 1], p[n]) ELSE h[i]]
  <2>1. /\ h \in [0 .. n - 1 -> [Keys -> States]] /\ h[0] = Nothing
        /\ \A i \in 1 .. n - 1 : h[i] = Read(h[i - 1], p[i])
    BY <1>2 DEF Reading, Follows
  <2>2. h[n - 1] \in [Keys -> States] /\ p[n] \in Lines \cup {Broken}
    BY <1>0, <2>1
  <2>3. Read(h[n - 1], p[n]) \in [Keys -> States]
    BY <2>2, ReadType
  <2>4. g \in [0 .. n -> [Keys -> States]] /\ g[0] = Nothing
    BY <1>0, <2>1, <2>3
  <2>5. ASSUME NEW i \in 1 .. n PROVE g[i] = Read(g[i - 1], p[i])
    <3>1. CASE i = n
      <4>1. g[n] = Read(h[n - 1], p[n]) /\ g[n - 1] = h[n - 1]
        BY <1>0
      <4> QED BY <3>1, <4>1
    <3>2. CASE i # n
      <4>1. i \in 1 .. n - 1
        BY <1>0, <3>2
      <4>2. g[i] = h[i] /\ g[i - 1] = h[i - 1]
        BY <1>0, <4>1
      <4> QED BY <2>1, <4>1, <4>2
    <3> QED BY <3>1, <3>2
  <2> QED BY <2>4, <2>5 DEF Reading, Follows
<1>3. I = {}
  <2> SUFFICES ASSUME I # {} PROVE FALSE
    OBVIOUS
  <2>1. PICK n \in I : \A i \in I : n <= i
    <3>1. I \in SUBSET (1 .. L)
      OBVIOUS
    <3> HIDE DEF I, L
    <3> QED BY <1>0, <3>1, Least
  <2>2. \E h : Reading(h, p, n - 1)
    <3>1. CASE n = 1
      BY <1>1, <3>1
    <3>2. CASE n # 1
      <4>1. n - 1 \in 1 .. L /\ n - 1 \notin I
        BY <1>0, <2>1, <3>2
      <4> QED BY <4>1
    <3> QED BY <3>1, <3>2
  <2> QED BY <1>2, <2>2
<1>4. PICK h : Reading(h, p, L)
  BY <1>0, <1>1, <1>3
<1> DEFINE IsHistory(f) == f = [i \in 0 .. L |-> IF i = 0 THEN Nothing ELSE Read(f[i - 1], p[i])]
<1>5. IsHistory(h)
  BY <1>0, <1>4 DEF Reading, Follows
<1>6. After(p) = CHOOSE f : IsHistory(f)
  BY DEF After
<1>7. IsHistory(After(p))
  BY <1>5, <1>6
<1> DEFINE f == After(p)
<1> HIDE DEF f
<1>8. \A i \in 0 .. L : f[i] = h[i]
  <2>1. Follows(f, p, L) /\ SameUpTo(p, p, L)
    BY <1>0, <1>7 DEF f, Follows, SameUpTo
  <2>2. Follows(h, p, L)
    BY <1>4 DEF Reading
  <2> HIDE DEF L
  <2> QED BY <1>0, <2>1, <2>2, SameLines
<1>9. f = [i \in 0 .. L |-> h[i]]
  <2>1. f = [i \in 0 .. L |-> f[i]]
    BY <1>7 DEF f
  <2> QED BY <1>8, <2>1
<1>10. h = [i \in 0 .. L |-> h[i]]
  BY <1>4 DEF Reading, Follows
<1> QED BY <1>4, <1>9, <1>10 DEF f

(* One more line is read after the others. *)
LEMMA KnownAppend ==
  ASSUME NEW p \in Seq(Lines \cup {Broken}), NEW x \in Lines \cup {Broken}
  PROVE  /\ Append(p, x) \in Seq(Lines \cup {Broken})
         /\ Known(p) \in [Keys -> States]
         /\ Known(Append(p, x)) = Read(Known(p), x)
<1> DEFINE q == Append(p, x)
           n == Len(p)
           g == After(p)
           h == After(q)
<1>1. /\ q \in Seq(Lines \cup {Broken}) /\ n \in Nat /\ Len(q) = n + 1
      /\ \A i \in 1 .. n : q[i] = p[i]
      /\ q[n + 1] = x
  OBVIOUS
<1>2. Reading(g, p, n)
  BY HasReading
<1>3. Reading(h, q, n + 1)
  <2>1. Reading(h, q, Len(q))
    <3> HIDE DEF q
    <3> QED BY <1>1, HasReading
  <2> QED BY <1>1, <2>1
<1> HIDE DEF q, n, g, h
<1>4. g \in [0 .. n -> [Keys -> States]] /\ g[0] = Nothing
      /\ \A i \in 1 .. n : g[i] = Read(g[i - 1], p[i])
  BY <1>2 DEF Reading, Follows
<1>5. h[0] = Nothing /\ \A i \in 1 .. n + 1 : h[i] = Read(h[i - 1], q[i])
  BY <1>3 DEF Reading, Follows
<1>6. \A i \in 0 .. n : g[i] = h[i]
  <2>1. Follows(g, p, n) /\ Follows(h, q, n) /\ SameUpTo(p, q, n)
    BY <1>1, <1>4, <1>5 DEF Follows, SameUpTo
  <2> QED BY <1>1, <2>1, SameLines
<1>7. g[n] \in [Keys -> States] /\ h[n + 1] = Read(g[n], x)
  <2>1. n \in 0 .. n /\ n + 1 \in 1 .. n + 1 /\ (n + 1) - 1 = n
    BY <1>1
  <2>2. h[n + 1] = Read(h[(n + 1) - 1], q[n + 1])
    BY <1>5, <2>1
  <2> QED BY <1>1, <1>4, <1>6, <2>1, <2>2
<1>8. Known(p) = g[n] /\ Known(q) = h[n + 1]
  BY <1>1 DEF Known, g, h, n
<1> QED BY <1>1, <1>7, <1>8 DEF q

(* What there is to know of no lines, and that it is a map in any case. *)
LEMMA KnownType ==
  /\ Known(<< >>) = Nothing
  /\ \A p \in Seq(Lines \cup {Broken}) : Known(p) \in [Keys -> States]
<1>1. << >> \in Seq(Lines \cup {Broken}) /\ Len(<< >>) = 0
  OBVIOUS
<1> DEFINE e == << >>
<1> HIDE DEF e
<1>2. Reading(After(e), e, Len(e))
  BY <1>1, HasReading DEF e
<1>3. Known(e) = Nothing
  BY <1>1, <1>2 DEF Reading, Follows, Known, e
<1>4. ASSUME NEW p \in Seq(Lines \cup {Broken}) PROVE Known(p) \in [Keys -> States]
  <2>1. Broken \in Lines \cup {Broken}
    OBVIOUS
  <2> QED BY <2>1, KnownAppend
<1> QED BY <1>3, <1>4 DEF e

-----------------------------------------------------------------------------
(* Writing a file *)

(* The lines a reader gets from a file, by how the file ends. *)
LEMMA ParsedLines ==
  ASSUME NEW f \in Files
  PROVE  /\ f.tail = Empty => Parsed(f) = f.lines
         /\ f.tail # Empty => Parsed(f) = Append(f.lines, f.tail) /\ f.tail \in Lines \cup {Broken}
         /\ Parsed(f) \in Seq(Lines \cup {Broken})
<1> DEFINE p == f.lines
           t == f.tail
           S == Lines \cup {Broken}
<1>1. p \in Seq(S) /\ (t = Empty \/ t \in S)
  BY DEF Files
<1>2. Parsed(f) = p \o (IF t = Empty THEN << >> ELSE <<t>>)
  BY DEF Parsed
<1> HIDE DEF p, t, S
<1>3. CASE t = Empty
  <2>1. Parsed(f) = p
    BY <1>1, <1>2, <1>3
  <2> QED BY <1>1, <1>3, <2>1 DEF p, t, S
<1>4. CASE t # Empty
  <2>1. t \in S
    BY <1>1, <1>4
  <2>2. Parsed(f) = Append(p, t)
    BY <1>1, <1>2, <1>4, <2>1
  <2>3. Append(p, t) \in Seq(S)
    BY <1>1, <2>1
  <2> QED BY <1>4, <2>1, <2>2, <2>3 DEF p, t, S
<1> QED BY <1>3, <1>4

(* What load gets from a file is a map, and the count is a number. *)
LEMMA LoadType ==
  ASSUME NEW f \in Files
  PROVE  Load(f) \in [Keys -> States] /\ Records(f) \in Nat
<1> DEFINE p == Parsed(f)
           I == {i \in DOMAIN p : p[i] # Broken}
<1>1. p \in Seq(Lines \cup {Broken})
  BY ParsedLines
<1>2. Load(f) \in [Keys -> States]
  BY <1>1, KnownType DEF Load
<1>3. Records(f) = Cardinality(I)
  BY DEF Records
<1> HIDE DEF p
<1>4. Len(p) \in Nat /\ I \in SUBSET (1 .. Len(p))
  BY <1>1
<1>5. IsFiniteSet(1 .. Len(p))
  BY <1>4, FS_Interval
<1>6. IsFiniteSet(I)
  <2> HIDE DEF I
  <2> QED BY <1>4, <1>5, FS_Subset
<1>7. Cardinality(I) \in Nat
  <2> HIDE DEF I
  <2> QED BY <1>6, FS_CardinalityType
<1> QED BY <1>2, <1>3, <1>7

(* An append makes a file that ends with a newline; behind a newline it
   adds its record to what load gets. *)
LEMMA LoadAppend ==
  ASSUME NEW f \in Files, NEW x \in Lines
  PROVE  /\ AppendLine(f, x) \in Files
         /\ AppendLine(f, x).tail = Empty
         /\ f.tail = Empty => Load(AppendLine(f, x)) = Read(Load(f), x)
<1> DEFINE S == Lines \cup {Broken}
           y == IF f.tail = Empty THEN x ELSE Broken
           g == AppendLine(f, x)
<1>1. f.lines \in Seq(S) /\ y \in S
  BY DEF Files
<1>2. g = [lines |-> Append(f.lines, y), tail |-> Empty]
  BY DEF AppendLine
<1> HIDE DEF y, g
<1>3. Append(f.lines, y) \in Seq(S)
  BY <1>1
<1>4. g \in Files /\ g.tail = Empty /\ g.lines = Append(f.lines, y)
  BY <1>2, <1>3 DEF Files
<1>5. ASSUME f.tail = Empty PROVE Load(g) = Read(Load(f), x)
  <2>1. y = x
    BY <1>5 DEF y
  <2>2. Parsed(g) = g.lines /\ Parsed(f) = f.lines
    BY <1>4, <1>5, ParsedLines
  <2>3. Known(Append(f.lines, x)) = Read(Known(f.lines), x)
    BY <1>1, KnownAppend
  <2> QED BY <1>4, <2>1, <2>2, <2>3 DEF Load
<1> QED BY <1>4, <1>5 DEF g

(* An append that is cut short adds its record or nothing. *)
LEMMA LoadCut ==
  ASSUME NEW f \in Files, f.tail = Empty, NEW x \in Lines,
         NEW g \in CutAppends(f, <<x>>)
  PROVE  g \in Files /\ (Load(g) = Load(f) \/ Load(g) = Read(Load(f), x))
<1> DEFINE S == Lines \cup {Broken}
<1>1. f.lines \in Seq(S) /\ f = [lines |-> f.lines, tail |-> Empty]
  BY DEF Files
<1>2. CutAppends(f, <<x>>) = CutLine(f, x)
  BY DEF CutAppends
<1>3. PICK t \in {Empty, Broken, x} : g = [f EXCEPT !.tail = t]
  <2>1. CutLine(f, x) = {f, [f EXCEPT !.tail = Broken], [f EXCEPT !.tail = x]}
    BY DEF CutLine
  <2>2. f = [f EXCEPT !.tail = Empty]
    BY <1>1
  <2> QED BY <1>2, <2>1, <2>2
<1>4. g \in Files /\ g.lines = f.lines /\ g.tail = t
  BY <1>1, <1>3 DEF Files
<1>5. Parsed(f) = f.lines
  BY ParsedLines
<1>6. CASE t = Empty
  <2>1. Parsed(g) = f.lines
    BY <1>4, <1>6, ParsedLines
  <2> QED BY <1>4, <1>5, <2>1 DEF Load
<1>7. CASE t # Empty
  <2>1. Parsed(g) = Append(f.lines, t) /\ t \in S
    BY <1>4, <1>7, ParsedLines
  <2>2. Load(g) = Read(Load(f), t)
    BY <1>1, <1>5, <2>1, KnownAppend DEF Load
  <2>3. CASE t = x
    BY <1>4, <2>2, <2>3
  <2>4. CASE t = Broken
    BY <1>4, <2>2, <2>4 DEF Read
  <2> QED BY <1>3, <1>7, <2>3, <2>4
<1> QED BY <1>6, <1>7

-----------------------------------------------------------------------------
(* Compaction *)

(* The lines a compaction writes are those of the first keys, those of the
   first two keys ... *)
LEMMA LinesGrow ==
  ASSUME NEW K, NEW keys \in Seq(K)
  PROVE  /\ LinesOf(keys)[0] = << >>
         /\ \A i \in 1 .. Len(keys) :
              LinesOf(keys)[i] = LinesOf(keys)[i - 1] \o EntryLines(keys[i])
<1> DEFINE L == Len(keys)
           Grows(h, n) == /\ h = [i \in 0 .. n |-> h[i]]
                          /\ h[0] = << >>
                          /\ \A i \in 1 .. n : h[i] = h[i - 1] \o EntryLines(keys[i])
           I == {n \in 1 .. L : ~ \E h : Grows(h, n)}
<1>0. L \in Nat
  OBVIOUS
<1>1. \E h : Grows(h, 0)
  <2>1. Grows([i \in 0 .. 0 |-> << >>], 0)
    OBVIOUS
  <2> QED BY <2>1
<1>2. ASSUME NEW n \in 1 .. L, NEW h, Grows(h, n - 1)
      PROVE  \E g : Grows(g, n)
  <2> DEFINE g == [i \in 0 .. n |-> IF i = n THEN h[n - 1] \o EntryLines(keys[n]) ELSE h[i]]
  <2>1. g = [i \in 0 .. n |-> g[i]] /\ g[0] = << >>
    BY <1>0, <1>2
  <2>2. ASSUME NEW i \in 1 .. n PROVE g[i] = g[i - 1] \o EntryLines(keys[i])
    <3>1. CASE i = n
      <4>1. g[n] = h[n - 1] \o EntryLines(keys[n]) /\ g[n - 1] = h[n - 1]
        BY <1>0
      <4> QED BY <3>1, <4>1
    <3>2. CASE i # n
      <4>1. i \in 1 .. n - 1
        BY <1>0, <3>2
      <4>2. g[i] = h[i] /\ g[i - 1] = h[i - 1]
        BY <1>0, <4>1
      <4>3. h[i] = h[i - 1] \o EntryLines(keys[i])
        BY <1>2, <4>1
      <4> QED BY <4>2, <4>3
    <3> QED BY <3>1, <3>2
  <2> HIDE DEF g
  <2> QED BY <2>1, <2>2
<1> HIDE DEF Grows
<1>3. I = {}
  <2> SUFFICES ASSUME I # {} PROVE FALSE
    OBVIOUS
  <2>1. PICK n \in I : \A i \in I : n <= i
    <3>1. I \in SUBSET (1 .. L)
      OBVIOUS
    <3> HIDE DEF I, L
    <3> QED BY <1>0, <3>1, Least
  <2>2. \E h : Grows(h, n - 1)
    <3>1. CASE n = 1
      BY <1>1, <3>1
    <3>2. CASE n # 1
      <4>1. n - 1 \in 1 .. L /\ n - 1 \notin I
        BY <1>0, <2>1, <3>2
      <4> QED BY <4>1
    <3> QED BY <3>1, <3>2
  <2> QED BY <1>2, <2>2
<1>4. PICK h : Grows(h, L)
  <2> HIDE DEF L
  <2>1. CASE L = 0
    BY <1>1, <2>1
  <2>2. CASE L # 0
    <3>1. L \in 1 .. L
      BY <1>0, <2>2
    <3>2. L \notin I
      BY <1>3
    <3> QED BY <3>1, <3>2
  <2> QED BY <2>1, <2>2
<1> DEFINE IsLines(f) ==
      f = [i \in 0 .. L |-> IF i = 0 THEN << >> ELSE f[i - 1] \o EntryLines(keys[i])]
<1>5. IsLines(h)
  BY <1>0, <1>4 DEF Grows
<1>6. LinesOf(keys) = CHOOSE f : IsLines(f)
  BY DEF LinesOf
<1>7. IsLines(LinesOf(keys))
  BY <1>5, <1>6
<1> DEFINE f == LinesOf(keys)
<1> HIDE DEF f
<1>8. f[0] = << >> /\ \A i \in 1 .. L : f[i] = f[i - 1] \o EntryLines(keys[i])
  BY <1>0, <1>7 DEF f
<1> QED BY <1>8 DEF f

(* SetToSeq lists every element of a finite set once. *)
LEMMA Listed ==
  ASSUME NEW S, IsFiniteSet(S)
  PROVE  /\ SetToSeq(S) \in Seq(S)
         /\ \A i, j \in 1 .. Len(SetToSeq(S)) : SetToSeq(S)[i] = SetToSeq(S)[j] => i = j
         /\ \A x \in S : \E i \in 1 .. Len(SetToSeq(S)) : SetToSeq(S)[i] = x
<1> DEFINE n == Cardinality(S)
           s == SetToSeq(S)
<1>1. n \in Nat /\ ExistsBijection(1 .. n, S)
  BY FS_CardinalityType
<1>2. \E f \in [1 .. n -> S] : IsInjective(f)
  BY <1>1 DEF ExistsBijection, Bijection, Injection
<1>3. s \in [1 .. n -> S] /\ IsInjective(s)
  BY <1>2 DEF SetToSeq
<1> HIDE DEF s, n
<1>4. s \in Injection(1 .. n, S)
  BY <1>3 DEF Injection
<1>5. IsFiniteSet(1 .. n) /\ Cardinality(1 .. n) = n
  BY <1>1, FS_Interval
<1>6. s \in Surjection(1 .. n, S)
  BY <1>4, <1>5, FS_Injection DEF n
<1>7. s \in Seq(S) /\ Len(s) = n
  BY <1>1, <1>3
<1>8. \A i, j \in 1 .. n : s[i] = s[j] => i = j
  BY <1>3 DEF IsInjective
<1>9. \A x \in S : \E i \in 1 .. n : s[i] = x
  BY <1>6 DEF Surjection
<1> QED BY <1>7, <1>8, <1>9 DEF s

(* The lines of an entry restore it. *)
LEMMA EntryRestored ==
  ASSUME NEW m \in [Keys -> States], NEW p \in Seq(Lines \cup {Broken}), Known(p) = m,
         NEW k \in Keys, entries \in [Keys -> States], entries[k] # "none"
  PROVE  /\ p \o EntryLines(k) \in Seq(Lines \cup {Broken})
         /\ Known(p \o EntryLines(k)) = [m EXCEPT ![k] = entries[k]]
<1> DEFINE S == Lines \cup {Broken}
           x == Rec("received", k)
           y == Rec("result", k)
           q == Append(p, x)
<1>1. x \in Lines /\ y \in Lines /\ x # Broken /\ y # Broken
      /\ x.key = k /\ x.type = "received" /\ y.key = k /\ y.type = "result"
  BY JournalAssumption DEF Rec, Lines
<1> HIDE DEF x, y
<1>2. q \in Seq(S) /\ Known(q) = Read(m, x)
  BY <1>1, KnownAppend
<1>3. Read(m, x) = [m EXCEPT ![k] = "received"]
  BY <1>1 DEF Read
<1>4. p \o <<x>> = q /\ p \o <<x, y>> = Append(q, y)
  <2>1. p \in Seq(S) /\ x \in S /\ y \in S
    BY <1>1
  <2> HIDE DEF S
  <2>2. p \o <<x>> = q
    BY <2>1
  <2>3. p \o <<x, y>> = Append(q, y)
    BY <2>1
  <2> QED BY <2>2, <2>3
<1>5. CASE entries[k] = "complete"
  <2>1. EntryLines(k) = <<x, y>>
    BY <1>5 DEF EntryLines, x, y
  <2> DEFINE r == [m EXCEPT ![k] = "received"]
  <2>2. r \in [Keys -> States] /\ r[k] = "received"
    BY DEF States
  <2>3. Read(r, y) = [r EXCEPT ![k] = "complete"]
    <3> HIDE DEF r
    <3> QED BY <1>1, <2>2 DEF Read
  <2>4. Append(q, y) \in Seq(S) /\ Known(Append(q, y)) = Read(r, y)
    <3> HIDE DEF q
    <3> QED BY <1>1, <1>2, <1>3, KnownAppend
  <2>5. [r EXCEPT ![k] = "complete"] = [m EXCEPT ![k] = "complete"]
    OBVIOUS
  <2> HIDE DEF q, r
  <2> QED BY <1>4, <1>5, <2>1, <2>3, <2>4, <2>5
<1>6. CASE entries[k] # "complete"
  <2>1. EntryLines(k) = <<x>> /\ entries[k] = "received"
    BY <1>6 DEF EntryLines, x, States
  <2> HIDE DEF q
  <2> QED BY <1>2, <1>3, <1>4, <2>1
<1> QED BY <1>5, <1>6

(* A compaction writes a file that holds the map. *)
LEMMA CompactionKeeps ==
  ASSUME entries \in [Keys -> States]
  PROVE  /\ Compacted \in Files /\ Compacted.tail = Empty
         /\ Load(Compacted) = entries
         /\ Len(Compacted.lines) \in Nat
<1> DEFINE S == Lines \cup {Broken}
           K == {k \in Keys : entries[k] # "none"}
           keys == SetToSeq(K)
           L == Len(keys)
           f == LinesOf(keys)
           Upto(i) == {keys[j] : j \in 1 .. i}
           m(i) == [k \in Keys |-> IF k \in Upto(i) THEN entries[k] ELSE "none"]
           Good(i) == f[i] \in Seq(S) /\ Known(f[i]) = m(i)
           I == {i \in 1 .. L : ~Good(i)}
<1>1. IsFiniteSet(K)
  <2>1. K \in SUBSET Keys
    OBVIOUS
  <2> HIDE DEF K
  <2> QED BY <2>1, JournalAssumption, FS_Subset
<1>2. /\ keys \in Seq(K)
      /\ \A i, j \in 1 .. L : keys[i] = keys[j] => i = j
      /\ \A x \in K : \E i \in 1 .. L : keys[i] = x
  <2> HIDE DEF K
  <2> QED BY <1>1, Listed
<1> HIDE DEF keys
<1>3. /\ f[0] = << >>
      /\ \A i \in 1 .. L : f[i] = f[i - 1] \o EntryLines(keys[i])
  <2> HIDE DEF K
  <2> QED BY <1>2, LinesGrow
<1>4. L \in Nat /\ \A i \in 1 .. L : keys[i] \in Keys /\ entries[keys[i]] # "none"
  BY <1>2
<1> HIDE DEF f, L
<1>5. Good(0)
  <2>1. m(0) = Nothing
    BY DEF Nothing
  <2>2. << >> \in Seq(S)
    OBVIOUS
  <2> HIDE DEF m
  <2> QED BY <1>3, <2>1, <2>2, KnownType
<1>6. ASSUME NEW i \in 1 .. L, Good(i - 1) PROVE Good(i)
  <2> DEFINE k == keys[i]
             d == m(i - 1)
             p == f[i - 1]
  <2>1. k \in Keys /\ entries[k] # "none" /\ i \in Nat
    BY <1>4
  <2>2. d \in [Keys -> States]
    BY DEF States
  <2>3. p \in Seq(S) /\ Known(p) = d
    BY <1>6
  <2>4. f[i] = p \o EntryLines(k)
    BY <1>3
  <2>5. [d EXCEPT ![k] = entries[k]] = m(i)
    <3>1. Upto(i) = Upto(i - 1) \cup {k}
      BY <1>4
    <3> HIDE DEF Upto, k
    <3> QED BY <2>1, <3>1
  <2> HIDE DEF k, d, p, m
  <2>6. f[i] \in Seq(S) /\ Known(f[i]) = [d EXCEPT ![k] = entries[k]]
    BY <2>1, <2>2, <2>3, <2>4, EntryRestored
  <2> QED BY <2>5, <2>6
<1>7. Good(L)
  <2> HIDE DEF Good
  <2>1. I = {}
    <3> SUFFICES ASSUME I # {} PROVE FALSE
      OBVIOUS
    <3>1. PICK n \in I : \A i \in I : n <= i
      <4>1. I \in SUBSET (1 .. L)
        OBVIOUS
      <4> HIDE DEF I
      <4> QED BY <1>4, <4>1, Least
    <3>2. n \in 1 .. L /\ ~Good(n)
      OBVIOUS
    <3>3. Good(n - 1)
      <4>1. CASE n = 1
        BY <1>5, <4>1
      <4>2. CASE n # 1
        <5>1. n - 1 \in 1 .. L /\ ~(n <= n - 1)
          BY <1>4, <3>2, <4>2
        <5> QED BY <3>1, <5>1
      <4> QED BY <4>1, <4>2
    <3> QED BY <1>6, <3>2, <3>3
  <2>2. CASE L = 0
    BY <1>5, <2>2
  <2>3. CASE L # 0
    <3>1. L \in 1 .. L
      BY <1>4, <2>3
    <3> QED BY <2>1, <3>1
  <2> QED BY <2>2, <2>3
<1>8. m(L) = entries
  <2>1. \A k \in Keys : entries[k] # "none" => k \in Upto(L)
    BY <1>2 DEF L
  <2>2. \A k \in Keys : m(L)[k] = entries[k]
    BY <2>1
  <2> HIDE DEF Upto
  <2> QED BY <2>2
<1> HIDE DEF m
<1>9. f[L] \in Seq(S) /\ Known(f[L]) = entries
  BY <1>7, <1>8
<1>10. Compacted = [lines |-> f[L], tail |-> Empty]
  BY DEF Compacted, f, L, keys
<1>11. /\ Compacted \in Files /\ Compacted.tail = Empty
       /\ Compacted.lines = f[L] /\ Len(f[L]) \in Nat
  BY <1>9, <1>10 DEF Files
<1>12. Parsed(Compacted) = f[L]
  BY <1>11, ParsedLines
<1> QED BY <1>9, <1>11, <1>12 DEF Load

-----------------------------------------------------------------------------
(* The steps *)

(* The effect of a record on a map that allows it. *)
LEMMA ReadEffects ==
  ASSUME NEW m \in [Keys -> States], NEW k \in Keys
  PROVE  /\ \A type \in {"received", "result", "acknowledged"} : Rec(type, k) \in Lines
         /\ Read(m, Rec("received", k)) = [m EXCEPT ![k] = "received"]
         /\ Read(m, Rec("acknowledged", k)) = [m EXCEPT ![k] = "none"]
         /\ m[k] # "none" => Read(m, Rec("result", k)) = [m EXCEPT ![k] = "complete"]
<1>1. \A type \in {"received", "result", "acknowledged"} :
        /\ Rec(type, k) \in Lines /\ Rec(type, k) # Broken
        /\ Rec(type, k).key = k /\ Rec(type, k).type = type
  BY JournalAssumption DEF Rec, Lines
<1> DEFINE a == Rec("received", k)
           b == Rec("acknowledged", k)
           c == Rec("result", k)
<1>2. a.key = k /\ a.type = "received" /\ a # Broken
  BY <1>1
<1>3. b.key = k /\ b.type = "acknowledged" /\ b # Broken
  BY <1>1
<1>4. c.key = k /\ c.type = "result" /\ c # Broken
  BY <1>1
<1> HIDE DEF a, b, c
<1>5. Read(m, a) = [m EXCEPT ![k] = "received"]
  BY <1>2 DEF Read
<1>6. Read(m, b) = [m EXCEPT ![k] = "none"]
  BY <1>3 DEF Read
<1>7. m[k] # "none" => Read(m, c) = [m EXCEPT ![k] = "complete"]
  BY <1>4 DEF Read
<1> QED BY <1>1, <1>5, <1>6, <1>7 DEF a, b, c

(* A record that is written changes the map and, while another death is
   possible, what load gets from the file in the same way. *)
LEMMA Written ==
  ASSUME JournalInv, NEW k \in Keys, NEW type \in {"received", "result", "acknowledged"},
         NEW state \in States, Write(k, type, state),
         Read(entries, Rec(type, k)) = [entries EXCEPT ![k] = state]
  PROVE  /\ file' \in Files /\ up /\ up' /\ count' \in Nat /\ crashes' = crashes
         /\ entries' = [entries EXCEPT ![k] = state] /\ entries' \in [Keys -> States]
         /\ FileTellsAll' /\ Told = entries /\ Told' = entries'
<1> DEFINE x == Rec(type, k)
<1>0. /\ up /\ up' = up /\ crashes' = crashes
      /\ file' = AppendLine(file, x) /\ count' = count + 1
      /\ entries' = [entries EXCEPT ![k] = state]
      /\ file \in Files /\ entries \in [Keys -> States] /\ count \in Nat
      /\ crashes < MaxCrashes => file.tail = Empty /\ Load(file) = entries
  BY DEF Write, JournalInv, JournalTypes, FileTellsAll
<1>1. x \in Lines
  BY <1>0, ReadEffects
<1>2. Read(entries, x) = entries'
  BY <1>0
<1> HIDE DEF x
<1>3. /\ file' \in Files /\ file'.tail = Empty
      /\ file.tail = Empty => Load(file') = Read(Load(file), x)
  BY <1>0, <1>1, LoadAppend
<1>4. FileTellsAll'
  <2>1. crashes' < MaxCrashes => file'.tail = Empty /\ (up' => Load(file') = entries')
    BY <1>0, <1>2, <1>3
  <2> QED BY <2>1 DEF FileTellsAll
<1>5. Told = entries
  BY <1>0 DEF Told
<1>6. Told' = entries'
  BY <1>0 DEF Told
<1>7. entries' \in [Keys -> States] /\ count' \in Nat
  BY <1>0
<1> QED BY <1>0, <1>3, <1>4, <1>5, <1>6, <1>7

(* What the abstract map does in a step. *)
ReceiptStep == Receipts!Next \/ Told' = Told

(* The constructor loads what the file tells. *)
LEMMA OpenKeeps ==
  ASSUME JournalInv, Open
  PROVE  JournalInv' /\ ReceiptStep
<1>0. /\ ~up /\ up' = TRUE /\ entries' = Load(file) /\ count' = Records(file)
      /\ file' = file /\ compacts' = compacts /\ running' = running /\ crashes' = crashes
      /\ starts' = starts /\ answered' = answered /\ over' = over
  BY DEF Open, history
<1>1. Load(file) \in [Keys -> States] /\ Records(file) \in Nat
  BY LoadType DEF JournalInv, JournalTypes
<1>2. JournalTypes'
  BY <1>0, <1>1 DEF JournalInv, JournalTypes
<1>3. Told' = Told
  BY <1>0 DEF Told
<1>4. FileTellsAll'
  <2>1. crashes' < MaxCrashes => file'.tail = Empty /\ (up' => Load(file') = entries')
    BY <1>0 DEF JournalInv, FileTellsAll
  <2> QED BY <2>1 DEF FileTellsAll
<1>5. TellsHistory'
  BY <1>0, <1>3 DEF JournalInv, TellsHistory
<1> QED BY <1>2, <1>3, <1>4, <1>5 DEF JournalInv, ReceiptStep

(* A compaction writes what the map tells. *)
LEMMA CompactKeeps ==
  ASSUME JournalInv, Compact
  PROVE  JournalInv' /\ ReceiptStep
<1>0. /\ up /\ up' = up /\ entries' = entries /\ count' = Len(file'.lines)
      /\ file' = Compacted /\ compacts' = FALSE /\ running' = running /\ crashes' = crashes
      /\ starts' = starts /\ answered' = answered /\ over' = over
      /\ entries \in [Keys -> States]
  BY DEF Compact, history, JournalInv, JournalTypes
<1>1. /\ file' \in Files /\ file'.tail = Empty /\ Load(file') = entries
      /\ Len(file'.lines) \in Nat
  BY <1>0, CompactionKeeps
<1>2. JournalTypes'
  BY <1>0, <1>1 DEF JournalInv, JournalTypes
<1>3. Told' = Told
  BY <1>0 DEF Told
<1>4. FileTellsAll'
  <2>1. crashes' < MaxCrashes => file'.tail = Empty /\ (up' => Load(file') = entries')
    BY <1>0, <1>1
  <2> QED BY <2>1 DEF FileTellsAll
<1>5. TellsHistory'
  BY <1>0, <1>3 DEF JournalInv, TellsHistory
<1> QED BY <1>2, <1>3, <1>4, <1>5 DEF JournalInv, ReceiptStep

(* begin finds no entry: the command has not been started. *)
LEMMA BeginKeeps ==
  ASSUME JournalInv, NEW k \in Keys, Begin(k)
  PROVE  JournalInv' /\ ReceiptStep
<1>0. /\ entries[k] = "none" /\ k \notin over /\ Write(k, "received", "received")
      /\ running' = running \cup {k} /\ starts' = [starts EXCEPT ![k] = @ + 1]
      /\ compacts' = compacts /\ answered' = answered /\ over' = over
      /\ entries \in [Keys -> States] /\ starts \in [Keys -> Nat]
  BY DEF Begin, JournalInv, JournalTypes
<1>1. /\ file' \in Files /\ up /\ up' /\ count' \in Nat /\ crashes' = crashes
      /\ entries' = [entries EXCEPT ![k] = "received"] /\ entries' \in [Keys -> States]
      /\ FileTellsAll' /\ Told = entries /\ Told' = entries'
  <2>1. "received" \in States
    BY DEF States
  <2> QED BY <1>0, <2>1, Written, ReadEffects
<1>2. starts[k] = 0
  <2>1. starts[k] <= 1 /\ starts[k] # 1
    BY <1>0, <1>1 DEF JournalInv, TellsHistory
  <2> QED BY <1>0, <2>1
<1>3. JournalTypes'
  BY <1>0, <1>1 DEF JournalInv, JournalTypes
<1>4. TellsHistory'
  <2> SUFFICES ASSUME NEW j \in Keys
               PROVE  /\ starts'[j] <= 1
                      /\ starts'[j] = 1 => Told'[j] # "none" \/ j \in over'
                      /\ j \in answered' \ over' => Told'[j] = "complete"
    BY DEF TellsHistory
  <2>1. CASE j = k
    BY <1>0, <1>1, <1>2, <2>1 DEF JournalInv, TellsHistory
  <2>2. CASE j # k
    BY <1>0, <1>1, <2>2 DEF JournalInv, TellsHistory
  <2> QED BY <2>1, <2>2
<1>5. Receipts!Next
  BY <1>0, <1>1 DEF Receipts!Next, Receipts!Receive
<1> QED BY <1>1, <1>3, <1>4, <1>5 DEF JournalInv, ReceiptStep

(* recordResult completes an entry, or leaves a complete one as it is. *)
LEMMA RecordResultKeeps ==
  ASSUME JournalInv, NEW k \in Keys, RecordResult(k)
  PROVE  JournalInv' /\ ReceiptStep
<1>0. /\ entries[k] # "none" /\ Write(k, "result", "complete")
      /\ running' = running \ {k} /\ answered' = answered \cup {k}
      /\ compacts' \in BOOLEAN /\ starts' = starts /\ over' = over
      /\ entries \in [Keys -> States] /\ starts \in [Keys -> Nat]
  BY DEF RecordResult, JournalInv, JournalTypes
<1>1. /\ file' \in Files /\ up /\ up' /\ count' \in Nat /\ crashes' = crashes
      /\ entries' = [entries EXCEPT ![k] = "complete"] /\ entries' \in [Keys -> States]
      /\ FileTellsAll' /\ Told = entries /\ Told' = entries'
  <2>1. "complete" \in States
    BY DEF States
  <2> QED BY <1>0, <2>1, Written, ReadEffects
<1>2. JournalTypes'
  BY <1>0, <1>1 DEF JournalInv, JournalTypes
<1>3. TellsHistory'
  <2> SUFFICES ASSUME NEW j \in Keys
               PROVE  /\ starts'[j] <= 1
                      /\ starts'[j] = 1 => Told'[j] # "none" \/ j \in over'
                      /\ j \in answered' \ over' => Told'[j] = "complete"
    BY DEF TellsHistory
  <2>1. CASE j = k
    BY <1>0, <1>1, <2>1 DEF JournalInv, TellsHistory
  <2>2. CASE j # k
    BY <1>0, <1>1, <2>2 DEF JournalInv, TellsHistory
  <2> QED BY <2>1, <2>2
<1>4. ReceiptStep
  <2>1. CASE entries[k] = "received"
    BY <1>1, <2>1 DEF ReceiptStep, Receipts!Next, Receipts!Answer
  <2>2. CASE entries[k] = "complete"
    <3>1. entries' = entries
      BY <1>0, <1>1, <2>2
    <3> QED BY <1>1, <3>1 DEF ReceiptStep
  <2> QED BY <1>0, <2>1, <2>2 DEF States
<1> QED BY <1>1, <1>2, <1>3, <1>4 DEF JournalInv

(* recordResult throws: only the command's handler is gone. *)
LEMMA RecordThrowsKeeps ==
  ASSUME JournalInv, NEW k \in Keys, RecordThrows(k)
  PROVE  JournalInv' /\ ReceiptStep
<1>0. /\ running' = running \ {k} /\ file' = file /\ up' = up /\ entries' = entries
      /\ count' = count /\ compacts' = compacts /\ crashes' = crashes
      /\ starts' = starts /\ answered' = answered /\ over' = over
  BY DEF RecordThrows, history
<1>1. Told' = Told
  BY <1>0 DEF Told
<1>2. JournalTypes'
  BY <1>0 DEF JournalInv, JournalTypes
<1>3. FileTellsAll'
  BY <1>0 DEF JournalInv, FileTellsAll
<1>4. TellsHistory'
  BY <1>0, <1>1 DEF JournalInv, TellsHistory
<1> QED BY <1>1, <1>2, <1>3, <1>4 DEF JournalInv, ReceiptStep

(* acknowledge forgets the entry of a command that is not sent again. *)
LEMMA AcknowledgeKeeps ==
  ASSUME JournalInv, NEW k \in Keys, Acknowledge(k)
  PROVE  JournalInv' /\ ReceiptStep
<1>0. /\ entries[k] # "none" /\ Write(k, "acknowledged", "none")
      /\ over' = over \cup {k} /\ running' = running /\ answered' = answered
      /\ compacts' \in BOOLEAN /\ starts' = starts
      /\ entries \in [Keys -> States] /\ starts \in [Keys -> Nat]
  BY DEF Acknowledge, JournalInv, JournalTypes
<1>1. /\ file' \in Files /\ up /\ up' /\ count' \in Nat /\ crashes' = crashes
      /\ entries' = [entries EXCEPT ![k] = "none"] /\ entries' \in [Keys -> States]
      /\ FileTellsAll' /\ Told = entries /\ Told' = entries'
  <2>1. "none" \in States
    BY DEF States
  <2> QED BY <1>0, <2>1, Written, ReadEffects
<1>2. JournalTypes'
  BY <1>0, <1>1 DEF JournalInv, JournalTypes
<1>3. TellsHistory'
  <2> SUFFICES ASSUME NEW j \in Keys
               PROVE  /\ starts'[j] <= 1
                      /\ starts'[j] = 1 => Told'[j] # "none" \/ j \in over'
                      /\ j \in answered' \ over' => Told'[j] = "complete"
    BY DEF TellsHistory
  <2>1. CASE j = k
    BY <1>0, <1>1, <2>1 DEF JournalInv, TellsHistory
  <2>2. CASE j # k
    BY <1>0, <1>1, <2>2 DEF JournalInv, TellsHistory
  <2> QED BY <2>1, <2>2
<1>4. Receipts!Next
  BY <1>0, <1>1 DEF Receipts!Next, Receipts!Forget
<1> QED BY <1>1, <1>2, <1>3, <1>4 DEF JournalInv, ReceiptStep

(* What a death leaves behind. *)
LEMMA GoneLeaves ==
  ASSUME JournalInv, Gone
  PROVE  /\ up /\ ~up' /\ crashes < MaxCrashes /\ crashes' = crashes + 1
         /\ starts' = starts /\ answered' = answered
         /\ file.tail = Empty /\ Load(file) = entries /\ Told = entries
         /\ Told' = Load(file')
         /\ file' \in Files /\ over' \subseteq Keys => JournalTypes'
<1>1. /\ up /\ up' = FALSE /\ crashes < MaxCrashes /\ crashes' = crashes + 1
      /\ entries' = Nothing /\ count' = 0 /\ compacts' = FALSE /\ running' = {}
      /\ starts' = starts /\ answered' = answered
  BY DEF Gone
<1>2. file.tail = Empty /\ Load(file) = entries
  BY <1>1 DEF JournalInv, FileTellsAll
<1>3. Told = entries
  BY <1>1 DEF Told
<1>4. Told' = Load(file')
  BY <1>1 DEF Told
<1>5. ASSUME file' \in Files, over' \subseteq Keys PROVE JournalTypes'
  <2>1. crashes' \in 0 .. MaxCrashes
    BY <1>1, JournalAssumption DEF JournalInv, JournalTypes
  <2> QED BY <1>1, <1>5, <2>1, NothingType DEF JournalInv, JournalTypes
<1> QED BY <1>1, <1>2, <1>3, <1>4, <1>5

(* A death between two operations: the file tells what the map told. *)
LEMMA CrashKeeps ==
  ASSUME JournalInv, Crash
  PROVE  JournalInv' /\ ReceiptStep
<1>0. Gone /\ file' = file /\ over' = over
  BY DEF Crash
<1>1. /\ ~up' /\ file.tail = Empty /\ Load(file) = entries /\ Told = entries
      /\ Told' = Load(file') /\ starts' = starts /\ answered' = answered
      /\ (file' \in Files /\ over' \subseteq Keys => JournalTypes')
  BY <1>0, GoneLeaves
<1>2. Told' = Told
  BY <1>0, <1>1
<1>3. JournalTypes'
  BY <1>0, <1>1 DEF JournalInv, JournalTypes
<1>4. FileTellsAll'
  BY <1>0, <1>1 DEF FileTellsAll
<1>5. TellsHistory'
  BY <1>0, <1>1, <1>2 DEF JournalInv, TellsHistory
<1> QED BY <1>2, <1>3, <1>4, <1>5 DEF JournalInv, ReceiptStep

(* A death within an append: the file tells what the map told, or that with
   the one record. *)
LEMMA CrashInAppendKeeps ==
  ASSUME JournalInv, ~LaterCrashes, NEW k \in Keys, CrashInAppend(k)
  PROVE  JournalInv' /\ ReceiptStep
<1>0. PICK type \in {"received", "result", "acknowledged"} :
        /\ CASE type = "received" -> entries[k] = "none" /\ k \notin over
             [] type = "result" -> k \in running /\ entries[k] # "none"
             [] type = "acknowledged" -> entries[k] # "none"
        /\ file' \in CutAppends(file, <<Rec(type, k)>>)
        /\ over' = IF type = "acknowledged" THEN over \cup {k} ELSE over
  BY DEF CrashInAppend
<1> DEFINE x == Rec(type, k)
<1>1. /\ ~up' /\ file.tail = Empty /\ Load(file) = entries /\ Told = entries
      /\ Told' = Load(file') /\ starts' = starts /\ answered' = answered
      /\ (file' \in Files /\ over' \subseteq Keys => JournalTypes')
      /\ crashes' = crashes + 1
  BY GoneLeaves DEF CrashInAppend
<1>2. /\ file \in Files /\ entries \in [Keys -> States] /\ over \subseteq Keys
      /\ starts \in [Keys -> Nat]
  BY DEF JournalInv, JournalTypes
<1>3. x \in Lines
  BY <1>2, ReadEffects
<1>4. file' \in Files /\ (Told' = Told \/ Told' = Read(entries, x))
  BY <1>0, <1>1, <1>2, <1>3, LoadCut
<1>5. JournalTypes'
  BY <1>0, <1>1, <1>2, <1>4
<1>6. FileTellsAll'
  <2>1. crashes + 1 = MaxCrashes
    BY DEF CrashInAppend
  <2>2. ~(crashes' < MaxCrashes)
    BY <1>1, <2>1, JournalAssumption
  <2> QED BY <2>2 DEF FileTellsAll
<1>7. \/ Told' = Told
      \/ type = "received" /\ entries[k] = "none" /\ Told' = [entries EXCEPT ![k] = "received"]
      \/ type = "result" /\ entries[k] # "none" /\ Told' = [entries EXCEPT ![k] = "complete"]
      \/ type = "acknowledged" /\ entries[k] # "none" /\ Told' = [entries EXCEPT ![k] = "none"]
  <2>1. CASE type = "received"
    BY <1>0, <1>2, <1>4, <2>1, ReadEffects
  <2>2. CASE type = "result"
    BY <1>0, <1>2, <1>4, <2>2, ReadEffects
  <2>3. CASE type = "acknowledged"
    BY <1>0, <1>2, <1>4, <2>3, ReadEffects
  <2> QED BY <2>1, <2>2, <2>3
<1>8. over' = IF type = "acknowledged" THEN over \cup {k} ELSE over
  BY <1>0
<1>9. TellsHistory'
  <2> SUFFICES ASSUME NEW j \in Keys
               PROVE  /\ starts'[j] <= 1
                      /\ starts'[j] = 1 => Told'[j] # "none" \/ j \in over'
                      /\ j \in answered' \ over' => Told'[j] = "complete"
    BY DEF TellsHistory
  <2>0. /\ starts[j] <= 1
        /\ starts[j] = 1 => entries[j] # "none" \/ j \in over
        /\ j \in answered \ over => entries[j] = "complete"
    BY <1>1 DEF JournalInv, TellsHistory
  <2>1. CASE j = k
    BY <1>1, <1>2, <1>7, <1>8, <2>0, <2>1
  <2>2. CASE j # k
    BY <1>1, <1>2, <1>7, <1>8, <2>0, <2>2
  <2> QED BY <2>1, <2>2
<1>10. ReceiptStep
  <2>1. CASE Told' = Told
    BY <2>1 DEF ReceiptStep
  <2>2. CASE entries[k] = "none" /\ Told' = [entries EXCEPT ![k] = "received"]
    BY <1>1, <2>2 DEF ReceiptStep, Receipts!Next, Receipts!Receive
  <2>3. CASE entries[k] = "received" /\ Told' = [entries EXCEPT ![k] = "complete"]
    BY <1>1, <2>3 DEF ReceiptStep, Receipts!Next, Receipts!Answer
  <2>4. CASE entries[k] = "complete" /\ Told' = [entries EXCEPT ![k] = "complete"]
    <3>1. Told' = entries
      BY <1>2, <2>4
    <3> QED BY <1>1, <3>1 DEF ReceiptStep
  <2>5. CASE entries[k] # "none" /\ Told' = [entries EXCEPT ![k] = "none"]
    BY <1>1, <2>5 DEF ReceiptStep, Receipts!Next, Receipts!Forget
  <2> QED BY <1>2, <1>7, <2>1, <2>2, <2>3, <2>4, <2>5 DEF States
<1> QED BY <1>5, <1>6, <1>9, <1>10 DEF JournalInv

-----------------------------------------------------------------------------
(* The theorems *)

(* A new journal is empty. *)
LEMMA JournalStarts ==
  ASSUME Init
  PROVE  JournalInv /\ Receipts!Init
<1>1. NewFile \in Files /\ NewFile.tail = Empty /\ Parsed(NewFile) = << >>
  BY DEF NewFile, Files, Parsed
<1>2. Load(file) = Nothing
  BY <1>1, KnownType DEF Init, Load
<1>3. Told = Nothing
  BY <1>2 DEF Init, Told
<1>4. JournalTypes
  <2>1. 0 \in Nat /\ 0 \in 0 .. MaxCrashes /\ [k \in Keys |-> 0] \in [Keys -> Nat]
    BY JournalAssumption
  <2>2. crashes \in 0 .. MaxCrashes /\ count \in Nat /\ starts \in [Keys -> Nat]
    BY <2>1 DEF Init
  <2>3. /\ file \in Files /\ entries \in [Keys -> States] /\ up = FALSE /\ compacts = FALSE
        /\ running = {} /\ answered = {} /\ over = {}
    BY <1>1, NothingType DEF Init
  <2> QED BY <2>2, <2>3 DEF JournalTypes
<1>5. FileTellsAll
  BY <1>1 DEF Init, FileTellsAll
<1>6. TellsHistory
  BY DEF Init, TellsHistory
<1>7. Receipts!Init
  BY <1>3 DEF Receipts!Init, Nothing
<1> QED BY <1>4, <1>5, <1>6, <1>7 DEF JournalInv

(* Every step keeps the inductive invariant, and changes what the journal
   tells by one operation of the durable map or not at all. *)
LEMMA JournalSteps ==
  ASSUME JournalInv, ~LaterCrashes, [Next]_vars
  PROVE  JournalInv' /\ ReceiptStep
<1>1. CASE Next
  BY <1>1, OpenKeeps, CompactKeeps, CrashKeeps, BeginKeeps, RecordResultKeeps,
     RecordThrowsKeeps, AcknowledgeKeeps, CrashInAppendKeeps DEF Next
<1>2. CASE vars' = vars
  <2>1. /\ running' = running /\ file' = file /\ up' = up /\ entries' = entries
        /\ count' = count /\ compacts' = compacts /\ crashes' = crashes
        /\ starts' = starts /\ answered' = answered /\ over' = over
    BY <1>2 DEF vars, memory, history
  <2>2. Told' = Told
    BY <2>1 DEF Told
  <2>3. JournalTypes' /\ FileTellsAll'
    BY <2>1 DEF JournalInv, JournalTypes, FileTellsAll
  <2>4. TellsHistory'
    BY <2>1, <2>2 DEF JournalInv, TellsHistory
  <2> QED BY <2>2, <2>3, <2>4 DEF JournalInv, ReceiptStep
<1> QED BY <1>1, <1>2

(* The inductive invariant holds in every state, as long as no supervisor
   dies after one has died in the middle of append. *)
THEOREM JournalInvariance ==
  ASSUME ~LaterCrashes
  PROVE  Spec => []JournalInv
<1>1. Init => JournalInv
  BY JournalStarts
<1>2. JournalInv /\ [Next]_vars => JournalInv'
  BY JournalSteps
<1> QED BY <1>1, <1>2, PTL DEF Spec

(* The map of the journal, what load makes of the file and the history keep
   their types: every file the journal writes can be loaded. *)
THEOREM JournalTyped ==
  ASSUME ~LaterCrashes
  PROVE  Spec => []TypeOK
<1>1. JournalInv => TypeOK
  BY LoadType DEF JournalInv, JournalTypes, TypeOK
<1> QED BY <1>1, JournalInvariance, PTL

(* begin never starts a command twice, whatever was reloaded, compacted and
   acknowledged in between. *)
THEOREM StartsOnce ==
  ASSUME ~LaterCrashes
  PROVE  Spec => []NoSecondStart
<1>1. JournalInv => NoSecondStart
  BY DEF JournalInv, TellsHistory, NoSecondStart
<1> QED BY <1>1, JournalInvariance, PTL

(* A result that recordResult has written is in the map of every later
   supervisor until the client acknowledges it. *)
THEOREM ResultsStay ==
  ASSUME ~LaterCrashes
  PROVE  Spec => []ResultsKept
<1>1. JournalInv => ResultsKept
  BY DEF JournalInv, JournalTypes, TellsHistory, ResultsKept, Told
<1> QED BY <1>1, JournalInvariance, PTL

(* The journal implements the durable map: append, load and compact never
   change what it tells but by begin, recordResult and acknowledge. *)
THEOREM JournalRefines ==
  ASSUME ~LaterCrashes
  PROVE  Spec => ImplementsReceipts
<1>1. Init => Receipts!Init
  BY JournalStarts
<1>2. JournalInv /\ [Next]_vars => [Receipts!Next]_Told
  BY JournalSteps DEF ReceiptStep
<1> QED BY <1>1, <1>2, JournalInvariance, PTL DEF Spec, ImplementsReceipts, Receipts!Spec
=============================================================================
