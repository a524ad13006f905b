--------------------------- MODULE CommandJournal ---------------------------
(***************************************************************************)
(* The file behind the command recovery journal                            *)
(* (modes/daemon/command-recovery-journal.ts): what is appended, when it   *)
(* is compacted, and what a restarted supervisor loads from it.            *)
(* SupervisorCommands uses the journal as a durable map; this module shows *)
(* that the file implements one (DurableReceipts).                         *)
(*                                                                         *)
(* Each operation is synchronous code.  The process may die between any    *)
(* two effects on the file system, and in the middle of an append.         *)
(***************************************************************************)
EXTENDS JsonlFile, FiniteSets, SequencesExt

CONSTANTS Keys,          \* the idempotency keys of commands
          CompactAfter,  \* COMPACT_AFTER_RECORDS
          LaterCrashes,  \* may there be another death after one in an append?
          MaxCrashes     \* bound: deaths of the supervisor

(* The records of the journal, one to a line. *)
Lines == [type : {"received", "result", "acknowledged"}, key : Keys]

ASSUME JournalAssumption ==
  /\ IsFiniteSet(Keys)
  /\ Broken \notin Lines /\ Empty \notin Lines /\ Broken # Empty
  /\ CompactAfter \in Nat \ {0} /\ MaxCrashes \in Nat
  /\ LaterCrashes \in BOOLEAN

VARIABLES file,      \* the journal on disk
          up,        \* a supervisor has the journal open
          entries,   \* its map of entries
          count,     \* its recordCount
          compacts,  \* it is about to compact
          running,   \* commands it has begun and not recorded a result of
          crashes,
          \* History, for the properties.
          starts,    \* how often each command was started
          answered,  \* commands whose result was recorded
          over       \* commands the client has sent an acknowledgement for

memory == <<up, entries, count, compacts, running>>
history == <<starts, answered, over>>
vars == <<file, memory, crashes, history>>

States == {"none", "received", "complete"}
Nothing == [k \in Keys |-> "none"]

Rec(type, k) == [type |-> type, key |-> k]

(* Faulty variant: the type of the last record is the state of the entry. *)
ReadRaw(known, line) ==
  IF line = Broken THEN known ELSE [known EXCEPT ![line.key] = line.type]

(* Effect of one line on the map: load skips a line that does not parse. *)
Read(known, line) ==
  IF line = Broken THEN known
  ELSE [known EXCEPT ![line.key] =
          CASE line.type = "received" -> "received"
            [] line.type = "acknowledged" -> "none"
            [] line.type = "result" -> IF @ = "none" THEN "none" ELSE "complete"]

(* The map after the first lines, the first two lines ... of a file. *)
After(lines) ==
  LET known[i \in 0 .. Len(lines)] ==
        IF i = 0 THEN Nothing ELSE Read(known[i - 1], lines[i])
  IN  known
Known(lines) == After(lines)[Len(lines)]

(* What load makes of the file. *)
Load(f) == Known(Parsed(f))
Records(f) == Cardinality({i \in DOMAIN Parsed(f) : Parsed(f)[i] # Broken})

TypeOK ==
  /\ Load(file) \in [Keys -> States]
  /\ up \in BOOLEAN /\ compacts \in BOOLEAN
  /\ entries \in [Keys -> States]
  /\ count \in Nat /\ crashes \in 0 .. MaxCrashes
  /\ running \cup answered \cup over \subseteq Keys
  /\ starts \in [Keys -> Nat]

Init ==
  /\ file = NewFile /\ up = FALSE /\ entries = Nothing /\ count = 0
  /\ compacts = FALSE /\ running = {} /\ crashes = 0
  /\ starts = [k \in Keys |-> 0] /\ answered = {} /\ over = {}

-----------------------------------------------------------------------------
(* The constructor. *)
Open ==
  /\ ~up
  /\ up' = TRUE /\ entries' = Load(file) /\ count' = Records(file)
  /\ UNCHANGED <<file, compacts, running, crashes, history>>

(* A record is appended and fsynced, then the map is changed. *)
Write(k, type, state) ==
  /\ up /\ ~compacts
  /\ file' = AppendLine(file, Rec(type, k))
  /\ count' = count + 1
  /\ entries' = [entries EXCEPT ![k] = state]
  /\ UNCHANGED <<up, crashes>>

(* Faulty variant: a command without a result is begun again. *)
BeginPending(k) ==
  /\ entries[k] # "complete" /\ k \notin over
  /\ Write(k, "received", "received")
  /\ running' = running \cup {k}
  /\ starts' = [starts EXCEPT ![k] = @ + 1]
  /\ UNCHANGED <<compacts, answered, over>>

(* Faulty variant: begin does not look for a result. *)
BeginComplete(k) ==
  /\ entries[k] # "received" /\ k \notin over
  /\ Write(k, "received", "received")
  /\ running' = running \cup {k}
  /\ starts' = [starts EXCEPT ![k] = @ + 1]
  /\ UNCHANGED <<compacts, answered, over>>

(* begin of a key that is not in the map; the command is then dispatched.
   A client does not send a command again once it has its result. *)
Begin(k) ==
  /\ entries[k] = "none" /\ k \notin over
  /\ Write(k, "received", "received")
  /\ running' = running \cup {k}
  /\ starts' = [starts EXCEPT ![k] = @ + 1]
  /\ UNCHANGED <<compacts, answered, over>>

RecordResult(k) ==
  /\ k \in running /\ entries[k] # "none"
  /\ Write(k, "result", "complete")
  /\ running' = running \ {k} /\ answered' = answered \cup {k}
  /\ compacts' = (count' >= CompactAfter)
  /\ UNCHANGED <<starts, over>>

(* recordResult throws when the entry was acknowledged away meanwhile. *)
RecordThrows(k) ==
  /\ up /\ ~compacts /\ k \in running /\ entries[k] = "none"
  /\ running' = running \ {k}
  /\ UNCHANGED <<file, up, entries, count, compacts, crashes, history>>

(* A client acknowledges every response it has received; a command that was
   sent again has received one ("uncertain") although there is no result. *)
Acknowledge(k) ==
  /\ entries[k] # "none"
  /\ Write(k, "acknowledged", "none")
  /\ over' = over \cup {k}
  /\ compacts' = (entries' = Nothing \/ count' >= CompactAfter)
  /\ UNCHANGED <<running, starts, answered>>

(* Faulty variant: only the receipts are written. *)
CompactReceipts ==
  LET keys == SetToSeq({k \in Keys : entries[k] # "none"})
  IN  [lines |-> [i \in DOMAIN keys |-> Rec("received", keys[i])], tail |-> Empty]

(* The records of the map, in a temporary file that replaces the journal. *)
EntryLines(k) ==
  IF entries[k] = "complete" THEN <<Rec("received", k), Rec("result", k)>>
  ELSE <<Rec("received", k)>>
LinesOf(keys) ==
  LET lines[i \in 0 .. Len(keys)] ==
        IF i = 0 THEN << >> ELSE lines[i - 1] \o EntryLines(keys[i])
  IN  lines
Compacted ==
  LET keys == SetToSeq({k \in Keys : entries[k] # "none"})
  IN  [lines |-> LinesOf(keys)[Len(keys)], tail |-> Empty]

Compact ==
  /\ compacts
  /\ file' = Compacted
  /\ count' = Len(file'.lines) /\ compacts' = FALSE
  /\ UNCHANGED <<up, entries, running, crashes, history>>

-----------------------------------------------------------------------------
(* The supervisor dies. *)
Gone ==
  /\ up /\ crashes < MaxCrashes
  /\ crashes' = crashes + 1
  /\ up' = FALSE /\ entries' = Nothing /\ count' = 0 /\ compacts' = FALSE
  /\ running' = {}
  /\ UNCHANGED <<starts, answered>>

Crash == Gone /\ UNCHANGED <<file, over>>

(* It dies in the middle of the append of one of the operations. *)
CrashInAppend(k) ==
  /\ ~compacts /\ (LaterCrashes \/ crashes + 1 = MaxCrashes)
  /\ \E type \in {"received", "result", "acknowledged"} :
      /\ CASE type = "received" -> entries[k] = "none" /\ k \notin over
           [] type = "result" -> k \in running /\ entries[k] # "none"
           [] type = "acknowledged" -> entries[k] # "none"
      /\ file' \in CutAppends(file, <<Rec(type, k)>>)
      /\ over' = IF type = "acknowledged" THEN over \cup {k} ELSE over
  /\ Gone

Next ==
  \/ Open \/ Compact \/ Crash
  \/ \E k \in Keys :
      \/ Begin(k) \/ RecordResult(k) \/ RecordThrows(k) \/ Acknowledge(k)
      \/ CrashInAppend(k)

Spec == Init /\ [][Next]_vars

-----------------------------------------------------------------------------
(* Properties *)

(* A command is started at most once, however often it is sent and however
   often the supervisor is restarted: begin finds its receipt. *)
NoSecondStart == \A k \in Keys : starts[k] <= 1

(* A recorded result is there, for the client that asks again, until the
   client acknowledges it: no reload and no compaction loses it. *)
ResultsKept == \A k \in answered \ over : up => entries[k] = "complete"

(* The journal implements the durable map: a crash, a reload and a compaction
   do not change what it says, and a crash in the middle of an append changes
   it by that one record or not at all. *)
Told == IF up THEN entries ELSE Load(file)
Receipts == INSTANCE DurableReceipts WITH known <- Told
ImplementsReceipts == Receipts!Spec

-----------------------------------------------------------------------------
(* The inductive invariant.  What the journal tells of a command follows   *)
(* its history; the file tells it too, until the last death has left a     *)
(* torn line, behind which the records of the open journal are lost.       *)
Files == [lines : Seq(Lines \cup {Broken}), tail : Lines \cup {Broken, Empty}]

JournalTypes ==
  /\ file \in Files /\ up \in BOOLEAN /\ compacts \in BOOLEAN
  /\ entries \in [Keys -> States] /\ count \in Nat /\ crashes \in 0 .. MaxCrashes
  /\ running \subseteq Keys /\ answered \subseteq Keys /\ over \subseteq Keys
  /\ starts \in [Keys -> Nat] /\ (compacts => up)

FileTellsAll ==
  crashes < MaxCrashes => file.tail = Empty /\ (up => Load(file) = entries)

TellsHistory ==
  \A k \in Keys :
    /\ starts[k] <= 1
    /\ starts[k] = 1 => Told[k] # "none" \/ k \in over
    /\ k \in answered \ over => Told[k] = "complete"

JournalInv == JournalTypes /\ FileTellsAll /\ TellsHistory
=============================================================================
