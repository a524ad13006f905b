--------------------------- MODULE EventLogProofs ---------------------------
(***************************************************************************)
(* Proofs that an event log whose appends do not overlap stays readable    *)
(* and keeps what was appended, for any processes, records and number of   *)
(* appends that are cut short.  The inductive invariant is LogInv.         *)
(***************************************************************************)
EXTENDS EventLog, SequenceTheorems, TLAPS

-----------------------------------------------------------------------------
(* Files *)

Lines == Records \cup {Meta}

(* The records are in the lines once. *)
Unique(s) == \A i, j \in DOMAIN s : s[i] \in Records /\ s[i] = s[j] => i = j

(* One more line. *)
LEMMA OneLine ==
  ASSUME NEW s \in Seq(Lines), NEW x \in Lines
  PROVE  /\ Append(s, x) \in Seq(Lines)
         /\ Range(Append(s, x)) = Range(s) \cup {x}
         /\ Unique(s) /\ (x \in Records => x \notin Range(s)) => Unique(Append(s, x))
<1> DEFINE a == Append(s, x)
           n == Len(s)
<1>1. /\ a \in Seq(Lines) /\ n \in Nat /\ DOMAIN s = 1 .. n /\ DOMAIN a = 1 .. n + 1
      /\ a[n + 1] = x /\ \A i \in 1 .. n : a[i] = s[i]
  OBVIOUS
<1> HIDE DEF a, n
<1>2. Range(a) = Range(s) \cup {x}
  <2>1. ASSUME NEW y \in Range(a) PROVE y \in Range(s) \cup {x}
    <3>1. PICK i \in 1 .. n + 1 : y = a[i]
      BY <1>1, <2>1 DEF Range
    <3>2. i = n + 1 \/ i \in 1 .. n
      BY <1>1
    <3> QED BY <1>1, <3>1, <3>2 DEF Range
  <2>2. ASSUME NEW y \in Range(s) PROVE y \in Range(a)
    <3>1. PICK i \in 1 .. n : y = s[i]
      BY <1>1, <2>2 DEF Range
    <3>2. i \in 1 .. n + 1 /\ a[i] = y
      BY <1>1, <3>1
    <3> QED BY <1>1, <3>2 DEF Range
  <2>3. x \in Range(a)
    <3>1. n + 1 \in 1 .. n + 1
      BY <1>1
    <3> QED BY <1>1, <3>1 DEF Range
  <2> QED BY <2>1, <2>2, <2>3
<1>3. ASSUME Unique(s), x \in Records => x \notin Range(s) PROVE Unique(a)
  <2> SUFFICES ASSUME NEW i \in 1 .. n + 1, NEW j \in 1 .. n + 1, a[i] \in Records, a[i] = a[j]
               PROVE  i = j
    BY <1>1 DEF Unique
  <2>1. \A k \in 1 .. n : s[k] \in Range(s)
    BY <1>1 DEF Range
  <2>2. (i = n + 1 \/ i \in 1 .. n) /\ (j = n + 1 \/ j \in 1 .. n)
    BY <1>1
  <2>3. CASE i \in 1 .. n /\ j \in 1 .. n
    BY <1>1, <1>3, <2>3 DEF Unique
  <2>4. CASE i = n + 1 /\ j = n + 1
    BY <2>4
  <2>5. CASE i = n + 1 /\ j \in 1 .. n
    BY <1>1, <1>3, <2>1, <2>5
  <2>6. CASE i \in 1 .. n /\ j = n + 1
    BY <1>1, <1>3, <2>1, <2>6
  <2> QED BY <2>2, <2>3, <2>4, <2>5, <2>6
<1> QED BY <1>1, <1>2, <1>3 DEF a

(* AppendLines behind a newline: the lines of the payload are complete. *)
LEMMA WholeAppend ==
  ASSUME NEW f \in Files, f.tail = Empty, NEW p \in Payloads, Unique(f.lines),
         \A r \in Records : r \in Range(p) => r \notin Range(f.lines)
  PROVE  LET g == AppendLines(f, p)
         IN  /\ g \in Files /\ g.tail = Empty /\ Unique(g.lines)
             /\ Range(g.lines) = Range(f.lines) \cup Range(p)
<1> DEFINE g == AppendLines(f, p)
           s == f.lines
<1>0. s \in Seq(Lines) /\ Empty \notin Lines /\ Meta \in Lines /\ Meta \notin Records
  BY LogAssumption DEF Files, Lines
<1>1. ASSUME NEW r \in Records, p = <<r>>
      PROVE  /\ g \in Files /\ g.tail = Empty /\ Unique(g.lines)
             /\ Range(g.lines) = Range(f.lines) \cup Range(p)
  <2>1. Range(p) = {r} /\ r \in Lines
    BY <1>1 DEF Range, Lines
  <2>2. g = [lines |-> Append(s, r), tail |-> Empty]
    BY <1>1 DEF AppendLines, AppendLine
  <2>3. /\ Append(s, r) \in Seq(Lines) /\ Unique(Append(s, r))
        /\ Range(Append(s, r)) = Range(s) \cup {r}
    BY <1>0, <2>1, OneLine
  <2> QED BY <2>1, <2>2, <2>3 DEF Files, Lines
<1>2. ASSUME NEW r \in Records, p = <<Meta, r>>
      PROVE  /\ g \in Files /\ g.tail = Empty /\ Unique(g.lines)
             /\ Range(g.lines) = Range(f.lines) \cup Range(p)
  <2> DEFINE t == Append(s, Meta)
  <2>1. Range(p) = {Meta, r} /\ r \in Lines /\ r # Meta
    BY <1>0, <1>2 DEF Range, Lines
  <2>2. g = [lines |-> Append(t, r), tail |-> Empty]
    BY <1>2 DEF AppendLines, AppendLine
  <2>3. t \in Seq(Lines) /\ Unique(t) /\ Range(t) = Range(s) \cup {Meta}
    BY <1>0, OneLine
  <2> HIDE DEF t
  <2>4. /\ Append(t, r) \in Seq(Lines) /\ Unique(Append(t, r))
        /\ Range(Append(t, r)) = Range(t) \cup {r}
    BY <2>1, <2>3, OneLine
  <2> QED BY <2>1, <2>2, <2>3, <2>4 DEF Files, Lines
<1> QED BY <1>1, <1>2 DEF Payloads

(* CutAppends behind a newline: a piece of a line is left as the tail, and
   no record has become a complete line. *)
LEMMA CutAppend ==
  ASSUME NEW f \in Files, f.tail = Empty, NEW p \in Payloads, Unique(f.lines),
         NEW g \in CutAppends(f, p)
  PROVE  /\ g \in Files /\ Unique(g.lines)
         /\ Range(f.lines) \subseteq Range(g.lines)
<1> DEFINE s == f.lines
           t == Append(s, Meta)
<1>0. s \in Seq(Lines) /\ Meta \in Lines /\ Meta \notin Records
  BY LogAssumption DEF Files, Lines
<1>1. t \in Seq(Lines) /\ Unique(t) /\ Range(t) = Range(s) \cup {Meta}
  BY <1>0, OneLine
<1>2. g.lines \in {s, t} /\ g.tail \in Records \cup {Meta, Broken, Empty}
      /\ g = [lines |-> g.lines, tail |-> g.tail]
  <2>1. ASSUME NEW h \in Files, NEW x \in Lines, NEW k \in CutLine(h, x)
        PROVE  /\ k.lines = h.lines /\ k.tail \in Records \cup {Meta, Broken, Empty}
               /\ k = [lines |-> k.lines, tail |-> k.tail]
    BY <2>1 DEF CutLine, Files, Lines
  <2>2. AppendLine(f, Meta) = [lines |-> t, tail |-> Empty] /\ AppendLine(f, Meta) \in Files
    BY <1>1 DEF AppendLine, Files, Lines
  <2>3. ASSUME NEW r \in Records, p = <<r>>
        PROVE  g \in CutLine(f, r) /\ r \in Lines
    BY <2>3 DEF CutAppends, Lines
  <2>4. ASSUME NEW r \in Records, p = <<Meta, r>>
        PROVE  r \in Lines /\ (g \in CutLine(f, Meta) \/ g \in CutLine(AppendLine(f, Meta), r))
    BY <2>4 DEF CutAppends, Lines
  <2>5. ASSUME NEW r \in Records, p = <<r>>
        PROVE  /\ g.lines = s /\ g.tail \in Records \cup {Meta, Broken, Empty}
               /\ g = [lines |-> g.lines, tail |-> g.tail]
    BY <2>1, <2>3, <2>5
  <2>6. ASSUME NEW r \in Records, p = <<Meta, r>>
        PROVE  /\ g.lines \in {s, t} /\ g.tail \in Records \cup {Meta, Broken, Empty}
               /\ g = [lines |-> g.lines, tail |-> g.tail]
    <3>1. CASE g \in CutLine(f, Meta)
      BY <1>0, <2>1, <3>1
    <3>2. CASE g \in CutLine(AppendLine(f, Meta), r)
      <4>1. /\ g.lines = AppendLine(f, Meta).lines /\ g.tail \in Records \cup {Meta, Broken, Empty}
            /\ g = [lines |-> g.lines, tail |-> g.tail]
        BY <2>1, <2>2, <2>4, <2>6, <3>2
      <4> QED BY <2>2, <4>1
    <3> QED BY <2>4, <2>6, <3>1, <3>2
  <2> QED BY <2>5, <2>6 DEF Payloads
<1> HIDE DEF t
<1> QED BY <1>0, <1>1, <1>2 DEF Files, Lines

-----------------------------------------------------------------------------
(* Steps *)

(* InAppend, spelled out for the next state. *)
InAppendNext(p) ==
  /\ \A q \in Procs : pc'[q] # "idle" => q = p
  /\ payload'[p] \in Payloads
  /\ pc'[p] \in {"confirm", "truncate"} => snap'[p] = file'
  /\ pc'[p] = "write" => file'.tail = Empty
  /\ \A r \in Records : r \in Range(payload'[p]) => r \notin Range(file'.lines)

(* The process p takes a step of its append, at the end of which it is still
   in it, or is not.  The file keeps its lines, and may get more. *)
LEMMA AppendStep ==
  ASSUME LogInv, LogTypes', NEW p \in Procs, \A q \in Procs : q # p => pc[q] = "idle",
         \A q \in Procs : q # p => pc'[q] = pc[q],
         pc'[p] # "idle" => InAppendNext(p),
         ~exists' => file' = NewFile,
         Unique(file'.lines), appended' \subseteq Range(file'.lines)
  PROVE  LogInv'
<1>1. ASSUME NEW q \in Procs, pc'[q] # "idle" PROVE InAppend(q)'
  <2>1. q = p
    BY <1>1
  <2> QED BY <1>1, <2>1 DEF InAppendNext, InAppend
<1>2. AppendedStay'
  BY DEF AppendedStay, Unique
<1> QED BY <1>1, <1>2 DEF LogInv, NewFile

(* appendSync begins. *)
LEMMA BeginStep ==
  ASSUME LogInv, ~Overlap, NEW p \in Procs, NEW r \in Records, Begin(p, r)
  PROVE  LogInv'
<1> DEFINE w == IF exists THEN <<r>> ELSE <<Meta, r>>
           step == IF exists THEN "look" ELSE "write"
<1>0. /\ LogTypes /\ pc \in [Procs -> Steps] /\ payload \in [Procs -> Payloads \cup {<< >>}]
      /\ \A q \in Procs : pc[q] = "idle"
      /\ payload' = [payload EXCEPT ![p] = w] /\ pc' = [pc EXCEPT ![p] = step]
      /\ UNCHANGED <<file, exists, snap, cuts, appended, seen>>
  BY DEF LogInv, LogTypes, Begin, Go, disk, history
<1>1. w \in Payloads /\ step \in Steps
  BY DEF Payloads, Steps
<1>2. ASSUME NEW x \in Records, x \in Range(w) PROVE x = r
  <2>1. Range(w) \subseteq {Meta, r}
    BY DEF Range
  <2> QED BY <1>2, <2>1, LogAssumption
<1>3. step = "write" => file.tail = Empty
  BY DEF LogInv, NewFile
<1>4. step \notin {"confirm", "truncate"}
  OBVIOUS
<1> HIDE DEF w, step
<1>5. r \notin Range(file.lines)
  <2>1. r \notin Range(Parsed(file))
    BY DEF Begin, Used
  <2>2. file \in Files
    BY <1>0 DEF LogTypes
  <2>3. Range(file.lines) \subseteq Range(Parsed(file))
    <3> DEFINE s == file.lines
               t == IF file.tail = Empty THEN << >> ELSE <<file.tail>>
               S == Records \cup {Meta, Broken, Empty}
    <3>1. s \in Seq(S) /\ t \in Seq(S)
      <4>1. s \in Seq(Records \cup {Meta}) /\ file.tail \in S
        BY <2>2 DEF Files
      <4>2. s \in Seq(S)
        BY <4>1
      <4>3. t = << >> \/ t = <<file.tail>>
        OBVIOUS
      <4> HIDE DEF S, t, s
      <4>4. t \in Seq(S)
        <5>1. CASE t = << >>
          BY <5>1
        <5>2. CASE t = <<file.tail>>
          <6>1. <<file.tail>> \in Seq(S)
            BY <4>1
          <6> QED BY <5>2, <6>1
        <5> QED BY <4>3, <5>1, <5>2
      <4> QED BY <4>2, <4>4
    <3> HIDE DEF s, t, S
    <3>2. \A i \in DOMAIN s : i \in DOMAIN (s \o t) /\ (s \o t)[i] = s[i]
      BY <3>1
    <3>3. Range(s) \subseteq Range(s \o t)
      BY <3>2 DEF Range
    <3> QED BY <3>3 DEF s, t, Parsed
  <2> QED BY <2>1, <2>3
<1>6. LogTypes'
  BY <1>0, <1>1 DEF LogTypes
<1>7. payload'[p] = w /\ pc'[p] = step /\ \A q \in Procs : q # p => pc'[q] = pc[q]
  BY <1>0
<1>8. InAppendNext(p)
  BY <1>0, <1>1, <1>2, <1>3, <1>4, <1>5, <1>7 DEF InAppendNext
<1>9. Unique(file'.lines) /\ appended' \subseteq Range(file'.lines) /\ (~exists' => file' = NewFile)
  BY <1>0 DEF LogInv, AppendedStay, Unique
<1> QED BY <1>0, <1>6, <1>7, <1>8, <1>9, AppendStep

(* repairTailSync as far as it only reads. *)
LEMMA ReadStep ==
  ASSUME LogInv, NEW p \in Procs, Look(p) \/ ReadTail(p) \/ Confirm(p)
  PROVE  LogInv'
<1>0. /\ LogTypes /\ pc \in [Procs -> Steps] /\ snap \in [Procs -> Files] /\ file \in Files
      /\ pc[p] \in {"look", "read", "confirm"} /\ InAppend(p)
      /\ UNCHANGED <<file, exists, payload, cuts, appended, seen>>
  BY DEF LogInv, LogTypes, Look, ReadTail, Confirm, disk, history
<1>1. \A q \in Procs : q # p => pc[q] = "idle"
  BY <1>0 DEF InAppend
<1>2. /\ pc' \in [Procs -> Steps] /\ snap' \in [Procs -> Files]
      /\ pc'[p] \in {"read", "confirm", "truncate", "write"}
      /\ \A q \in Procs : q # p => pc'[q] = pc[q]
      /\ pc'[p] \in {"confirm", "truncate"} => snap'[p] = file
      /\ pc'[p] = "write" => file.tail = Empty
  <2>1. CASE Look(p)
    BY <1>0, <2>1 DEF Look, Go, Steps
  <2>2. CASE ReadTail(p)
    BY <1>0, <2>2 DEF ReadTail, Go, Steps
  <2>3. CASE Confirm(p)
    BY <1>0, <2>3 DEF Confirm, Go, Steps, InAppend
  <2> QED BY <2>1, <2>2, <2>3
<1>3. LogTypes'
  BY <1>0, <1>2 DEF LogTypes
<1>4. InAppendNext(p)
  BY <1>0, <1>1, <1>2 DEF InAppendNext, InAppend
<1>5. Unique(file'.lines) /\ appended' \subseteq Range(file'.lines) /\ (~exists' => file' = NewFile)
  BY <1>0 DEF LogInv, AppendedStay, Unique
<1> QED BY <1>1, <1>2, <1>3, <1>4, <1>5, AppendStep

(* ftruncateSync cuts the tail off and leaves every complete line. *)
LEMMA TruncateStep ==
  ASSUME LogInv, NEW p \in Procs, Truncate(p)
  PROVE  LogInv'
<1>0. /\ LogTypes /\ pc \in [Procs -> Steps] /\ file \in Files
      /\ pc[p] = "truncate" /\ InAppend(p)
      /\ file' = [lines |-> SubSeq(file.lines, 1, Len(snap[p].lines)), tail |-> Empty]
      /\ pc' = [pc EXCEPT ![p] = "write"] /\ "write" \in Steps
      /\ UNCHANGED <<exists, payload, snap, cuts, appended, seen>>
  BY DEF LogInv, LogTypes, Truncate, Go, history, Steps
<1>1. \A q \in Procs : q # p => pc[q] = "idle"
  BY <1>0 DEF InAppend
<1>2. file'.lines = file.lines /\ file'.tail = Empty /\ file' \in Files
  <2> DEFINE s == file.lines
  <2>1. s \in Seq(Lines) /\ snap[p].lines = s
    BY <1>0 DEF Files, Lines, InAppend
  <2>2. SubSeq(s, 1, Len(s)) = s
    BY <2>1
  <2> QED BY <1>0, <2>1, <2>2 DEF Files, Lines
<1>3. pc'[p] = "write" /\ \A q \in Procs : q # p => pc'[q] = pc[q]
  BY <1>0
<1>4. LogTypes'
  BY <1>0, <1>2 DEF LogTypes
<1>5. InAppendNext(p)
  <2>1. payload'[p] \in Payloads /\ pc'[p] \notin {"confirm", "truncate"}
    BY <1>0, <1>3 DEF InAppend
  <2>2. \A r \in Records : r \in Range(payload'[p]) => r \notin Range(file'.lines)
    BY <1>0, <1>2 DEF InAppend
  <2> QED BY <1>1, <1>2, <1>3, <2>1, <2>2 DEF InAppendNext
<1>6. Unique(file'.lines) /\ appended' \subseteq Range(file'.lines)
  <2>1. Unique(file.lines) /\ appended \subseteq Range(file.lines)
    BY DEF LogInv, AppendedStay, Unique
  <2> QED BY <1>0, <1>2, <2>1
<1>7. ~exists' => file' = NewFile
  BY <1>0, <1>2 DEF LogInv, NewFile
<1> QED BY <1>1, <1>3, <1>4, <1>5, <1>6, <1>7, AppendStep

(* The append itself, whole. *)
LEMMA WriteStep ==
  ASSUME LogInv, NEW p \in Procs, Write(p)
  PROVE  LogInv'
<1>0. /\ LogTypes /\ pc \in [Procs -> Steps] /\ file \in Files /\ snap \in [Procs -> Files]
      /\ payload \in [Procs -> Payloads \cup {<< >>}]
      /\ pc[p] = "write" /\ InAppend(p)
      /\ file' = AppendLines(file, payload[p]) /\ exists' = TRUE
      /\ pc' = [pc EXCEPT ![p] = "idle"] /\ "idle" \in Steps
      /\ appended' = appended \cup (Range(payload[p]) \ {Meta})
      /\ payload' = [payload EXCEPT ![p] = << >>] /\ snap' = [snap EXCEPT ![p] = NewFile]
      /\ UNCHANGED <<cuts, seen>>
  BY DEF LogInv, LogTypes, Write, Go, Steps
<1>1. \A q \in Procs : q # p => pc[q] = "idle"
  BY <1>0 DEF InAppend
<1>2. Unique(file.lines) /\ appended \subseteq Range(file.lines)
  BY DEF LogInv, AppendedStay, Unique
<1>3. /\ file' \in Files /\ Unique(file'.lines)
      /\ Range(file'.lines) = Range(file.lines) \cup Range(payload[p])
  BY <1>0, <1>2, WholeAppend DEF InAppend
<1>4. Range(payload[p]) \subseteq Records \cup {Meta}
  <2>1. payload[p] \in Payloads
    BY <1>0 DEF InAppend
  <2> QED BY <2>1 DEF Payloads, Range
<1>5. NewFile \in Files
  BY DEF NewFile, Files
<1>6. pc'[p] = "idle" /\ \A q \in Procs : q # p => pc'[q] = pc[q]
  BY <1>0
<1>7. LogTypes'
  <2>1. appended' \subseteq Records
    BY <1>0, <1>4 DEF LogTypes
  <2> QED BY <1>0, <1>3, <1>5, <2>1 DEF LogTypes
<1>8. appended' \subseteq Range(file'.lines)
  BY <1>0, <1>2, <1>3
<1> QED BY <1>0, <1>1, <1>3, <1>6, <1>7, <1>8, AppendStep

(* The process dies, between two calls or in the middle of its append. *)
LEMMA DeathStep ==
  ASSUME LogInv, NEW p \in Procs, Die(p) \/ DieInWrite(p)
  PROVE  LogInv'
<1>0. /\ LogTypes /\ pc \in [Procs -> Steps] /\ file \in Files /\ snap \in [Procs -> Files]
      /\ payload \in [Procs -> Payloads \cup {<< >>}]
      /\ pc[p] # "idle" /\ InAppend(p)
      /\ pc' = [pc EXCEPT ![p] = "idle"] /\ "idle" \in Steps
      /\ payload' = [payload EXCEPT ![p] = << >>] /\ snap' = [snap EXCEPT ![p] = NewFile]
      /\ UNCHANGED <<appended, seen>>
  BY DEF LogInv, LogTypes, Die, DieInWrite, Gone, Go, Steps, history
<1>1. \A q \in Procs : q # p => pc[q] = "idle"
  BY <1>0 DEF InAppend
<1>2. Unique(file.lines) /\ appended \subseteq Range(file.lines)
  BY DEF LogInv, AppendedStay, Unique
<1>3. /\ file' \in Files /\ Unique(file'.lines) /\ Range(file.lines) \subseteq Range(file'.lines)
      /\ exists' \in BOOLEAN /\ (~exists' => file' = NewFile) /\ cuts' \in Nat
  <2>1. CASE Die(p)
    BY <1>0, <1>2, <2>1 DEF Die, disk, LogInv, LogTypes
  <2>2. CASE DieInWrite(p)
    <3>1. file' \in CutAppends(file, payload[p]) /\ exists' = TRUE /\ cuts' = cuts + 1
          /\ file.tail = Empty /\ payload[p] \in Payloads
      BY <1>0, <2>2 DEF DieInWrite, InAppend
    <3>2. /\ file' \in Files /\ Unique(file'.lines) /\ Range(file.lines) \subseteq Range(file'.lines)
      BY <1>0, <1>2, <3>1, CutAppend
    <3> QED BY <1>0, <3>1, <3>2 DEF LogTypes
  <2> QED BY <2>1, <2>2
<1>4. pc'[p] = "idle" /\ \A q \in Procs : q # p => pc'[q] = pc[q]
  BY <1>0
<1>5. LogTypes'
  <2>1. NewFile \in Files
    BY DEF NewFile, Files
  <2> QED BY <1>0, <1>3, <2>1 DEF LogTypes
<1>6. appended' \subseteq Range(file'.lines)
  BY <1>0, <1>2, <1>3
<1> QED BY <1>1, <1>3, <1>4, <1>5, <1>6, AppendStep

(* replaySync, or no step at all. *)
LEMMA ReplayStep ==
  ASSUME LogInv, Replay \/ UNCHANGED vars
  PROVE  LogInv'
<1>1. /\ UNCHANGED <<file, exists, pc, payload, snap, cuts, appended>> /\ seen' \subseteq Records
  BY DEF Replay, Events, vars, disk, history, LogInv, LogTypes
<1>2. LogTypes'
  BY <1>1 DEF LogInv, LogTypes
<1>3. ASSUME NEW p \in Procs, pc'[p] # "idle" PROVE InAppend(p)'
  <2>1. InAppend(p)
    BY <1>1, <1>3 DEF LogInv
  <2> QED BY <1>1, <2>1 DEF InAppend
<1>4. AppendedStay' /\ (~exists' => file' = NewFile)
  BY <1>1 DEF LogInv, AppendedStay
<1> QED BY <1>2, <1>3, <1>4 DEF LogInv, NewFile

-----------------------------------------------------------------------------
(* The specification *)

(* The inductive invariant of the log, while appends do not overlap. *)
THEOREM LogInvariance ==
  ASSUME ~Overlap
  PROVE  Spec => []LogInv
<1>1. ASSUME Init PROVE LogInv
  <2>1. NewFile \in Files /\ NewFile.lines = << >>
    BY DEF NewFile, Files
  <2>2. LogTypes
    BY <1>1, <2>1 DEF Init, LogTypes, Steps
  <2>3. AppendedStay
    BY <1>1, <2>1 DEF Init, AppendedStay
  <2> QED BY <1>1, <2>2, <2>3 DEF Init, LogInv
<1>2. LogInv /\ [Next]_vars => LogInv'
  BY BeginStep, ReadStep, TruncateStep, WriteStep, DeathStep, ReplayStep DEF Next
<1> QED BY <1>1, <1>2, PTL DEF Spec

(* Replay never refuses the log: a torn line is cut off before anything is
   written behind it (repairTailSync in appendSync). *)
THEOREM LogStaysReadable ==
  ASSUME ~Overlap
  PROVE  Spec => []StaysReadable
<1>1. ASSUME LogInv PROVE StaysReadable
  <2>1. file.lines \in Seq(Records \cup {Meta})
    BY <1>1 DEF LogInv, LogTypes, Files
  <2>2. Range(file.lines) \subseteq Records \cup {Meta}
    BY <2>1 DEF Range
  <2> QED BY <2>2, LogAssumption DEF StaysReadable, Poisoned
<1> QED BY <1>1, LogInvariance, PTL

(* Every record whose appendSync has returned is in the log, once. *)
THEOREM LogKeepsRecords ==
  ASSUME ~Overlap
  PROVE  Spec => []AppendedStay
<1>1. LogInv => AppendedStay
  BY DEF LogInv
<1> QED BY <1>1, LogInvariance, PTL
=============================================================================
