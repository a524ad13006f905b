------------------------------ MODULE EventLog ------------------------------
(***************************************************************************)
(* The append-only event log (core/event-log.ts) under the RLM spawn       *)
(* ledger, which the supervisor and every session worker append to.  In    *)
(* contrast to the command journal an append first repairs the tail that a *)
(* cut append has left, and a reader refuses a file with a broken line     *)
(* other than the last.                                                    *)
(*                                                                         *)
(* A step is one system call of one process, or some calls in between      *)
(* which no other process can act to a different effect.                   *)
(***************************************************************************)
EXTENDS JsonlFile, FiniteSets, SequencesExt

CONSTANTS Procs,      \* processes that append
          Records,    \* the records they have to append
          Meta,       \* the record that leads a new file
          Overlap,    \* may two appends be under way at a time?
          MaxCuts     \* bound: appends that are cut short

ASSUME LogAssumption ==
  /\ Meta \notin Records
  /\ {Broken, Empty} \cap (Records \cup {Meta}) = {} /\ Broken # Empty
  /\ Overlap \in BOOLEAN /\ MaxCuts \in Nat

VARIABLES file,      \* the log on disk
          exists,    \* whether there is one
          pc,        \* where each process is in appendSync: "idle", "look",
                     \* "read", "confirm", "truncate" or "write"
          payload,   \* what it appends
          snap,      \* what repairTailSync has read
          cuts,
          \* History, for the properties.
          appended,  \* records whose appendSync has returned
          seen       \* records some replay has returned

disk == <<file, exists>>
history == <<appended, seen>>
vars == <<disk, pc, payload, snap, cuts, history>>

Init ==
  /\ file = NewFile /\ exists = FALSE
  /\ pc = [p \in Procs |-> "idle"]
  /\ payload = [p \in Procs |-> << >>]
  /\ snap = [p \in Procs |-> NewFile]
  /\ cuts = 0 /\ appended = {} /\ seen = {}

Used == appended \cup (UNION {Range(payload[p]) : p \in Procs}) \cup Range(Parsed(file))

Go(p, step) == pc' = [pc EXCEPT ![p] = step]

-----------------------------------------------------------------------------
(* appendSync: existsSync decides about the leading records. *)
Begin(p, r) ==
  /\ pc[p] = "idle" /\ r \notin Used \cup seen
  /\ Overlap \/ \A q \in Procs : pc[q] = "idle"
  /\ payload' = [payload EXCEPT ![p] = IF exists THEN <<r>> ELSE <<Meta, r>>]
  /\ Go(p, IF exists THEN "look" ELSE "write")
  /\ UNCHANGED <<disk, snap, cuts, history>>

(* Faulty variant: the tail is left as it is. *)
LookNot(p) ==
  /\ pc[p] = "look" /\ Go(p, "write")
  /\ UNCHANGED <<disk, payload, snap, cuts, history>>

(* repairTailSync: the last byte. *)
Look(p) ==
  /\ pc[p] = "look"
  /\ Go(p, IF file.tail = Empty THEN "write" ELSE "read")
  /\ UNCHANGED <<disk, payload, snap, cuts, history>>

(* The two reads and the size, which must agree. *)
ReadTail(p) ==
  /\ pc[p] = "read"
  /\ snap' = [snap EXCEPT ![p] = file]
  /\ Go(p, "confirm")
  /\ UNCHANGED <<disk, payload, cuts, history>>

Confirm(p) ==
  /\ pc[p] = "confirm"
  /\ Go(p, IF file = snap[p] THEN "truncate" ELSE "write")
  /\ UNCHANGED <<disk, payload, snap, cuts, history>>

(* Faulty variant: the last complete line goes as well. *)
TruncateLine(p) ==
  /\ pc[p] = "truncate"
  /\ file' = [lines |-> SubSeq(file.lines, 1, Len(snap[p].lines) - 1), tail |-> Empty]
  /\ Go(p, "write")
  /\ UNCHANGED <<exists, payload, snap, cuts, history>>

(* ftruncateSync behind the last newline that was read; whatever was
   appended since then goes too. *)
Truncate(p) ==
  /\ pc[p] = "truncate"
  /\ file' = [lines |-> SubSeq(file.lines, 1, Len(snap[p].lines)), tail |-> Empty]
  /\ Go(p, "write")
  /\ UNCHANGED <<exists, payload, snap, cuts, history>>

(* openSync with "a", writeSync, fsyncSync. *)
Write(p) ==
  /\ pc[p] = "write"
  /\ file' = AppendLines(file, payload[p]) /\ exists' = TRUE
  /\ appended' = appended \cup (Range(payload[p]) \ {Meta})
  /\ payload' = [payload EXCEPT ![p] = << >>] /\ Go(p, "idle")
  /\ snap' = [snap EXCEPT ![p] = NewFile]
  /\ UNCHANGED <<cuts, seen>>

(* The process dies in the append; another one takes its place. *)
Gone(p) ==
  /\ pc[p] # "idle"
  /\ payload' = [payload EXCEPT ![p] = << >>] /\ Go(p, "idle")
  /\ snap' = [snap EXCEPT ![p] = NewFile]
  /\ UNCHANGED history

Die(p) == Gone(p) /\ UNCHANGED <<disk, cuts>>

DieInWrite(p) ==
  /\ pc[p] = "write" /\ cuts < MaxCuts
  /\ file' \in CutAppends(file, payload[p]) /\ exists' = TRUE
  /\ cuts' = cuts + 1
  /\ Gone(p)

(* replaySync: the events of the lines, without a last one that is broken
   and not terminated; any other broken line is an error. *)
Poisoned == Broken \in Range(file.lines)
Events == (Range(Parsed(file)) \cap Records)

Replay ==
  /\ exists /\ ~Poisoned
  /\ seen' = seen \cup Events
  /\ UNCHANGED <<disk, pc, payload, snap, cuts, appended>>

Next ==
  \/ Replay
  \/ \E p \in Procs :
      \/ \E r \in Records : Begin(p, r)
      \/ Look(p) \/ ReadTail(p) \/ Confirm(p) \/ Truncate(p) \/ Write(p)
      \/ Die(p) \/ DieInWrite(p)

Spec == Init /\ [][Next]_vars

-----------------------------------------------------------------------------
(* Properties *)

(* A log whose writers die in the middle of their appends stays readable:
   the torn line never becomes one that replay refuses. *)
StaysReadable == ~Poisoned

(* A record whose append has returned is returned by every later replay, and
   the records are in the log once. *)
AppendedStay ==
  /\ appended \subseteq Range(file.lines)
  /\ \A i, j \in DOMAIN file.lines :
       file.lines[i] \in Records /\ file.lines[i] = file.lines[j] => i = j

(* What a replay has returned, later replays return too.  It does not hold:
   see "Further experiments" in the README. *)
SeenStay == exists => seen \subseteq Events

-----------------------------------------------------------------------------
(* What these rest on while appends do not overlap, as an inductive invariant *)

Steps == {"idle", "look", "read", "confirm", "truncate", "write"}
Payloads == {<<r>> : r \in Records} \cup {<<Meta, r>> : r \in Records}

(* No complete line is broken; what is broken is the tail. *)
Files == [lines : Seq(Records \cup {Meta}), tail : Records \cup {Meta, Broken, Empty}]

LogTypes ==
  /\ file \in Files /\ exists \in BOOLEAN
  /\ pc \in [Procs -> Steps]
  /\ snap \in [Procs -> Files]
  /\ payload \in [Procs -> Payloads \cup {<< >>}]
  /\ cuts \in Nat
  /\ appended \subseteq Records /\ seen \subseteq Records

(* One process at a time is in an append.  What it has read of the tail is
   still true, there is no tail when it writes, and its record is new. *)
InAppend(p) ==
  /\ \A q \in Procs : pc[q] # "idle" => q = p
  /\ payload[p] \in Payloads
  /\ pc[p] \in {"confirm", "truncate"} => snap[p] = file
  /\ pc[p] = "write" => file.tail = Empty
  /\ \A r \in Records : r \in Range(payload[p]) => r \notin Range(file.lines)

LogInv ==
  /\ LogTypes
  /\ ~exists => file = NewFile
  /\ \A p \in Procs : pc[p] # "idle" => InAppend(p)
  /\ AppendedStay
=============================================================================
