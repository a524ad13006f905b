------------------------ MODULE WorkerRecoveryProofs ------------------------
(***************************************************************************)
(* Proofs about WorkerRecovery, for every set of sessions and every bound: *)
(* who owns a worker process (OwnershipInv), and what its journal tells    *)
(* (JournalTells).  That no worker is left behind needs ~SlowCancel, and   *)
(* that no work is lost silently also ~CutWrites: TLC finds the            *)
(* counterexamples without them.                                           *)
(*                                                                         *)
(* Records are updated one field at a time in these proofs: the provers do *)
(* not see through an EXCEPT of several fields.                            *)
(***************************************************************************)
EXTENDS WorkerRecovery, FiniteSetTheorems, TLAPS

-----------------------------------------------------------------------------
(* Operators of the model *)

(* The number that a launch takes is that of no process yet. *)
LEMMA SpawnCount ==
  ASSUME TypeOK, SpawnedInOrder
  PROVE  /\ NextInc \in Nat /\ NextInc - 1 \in Spawned
         /\ NextInc \notin Spawned
         /\ Spawned = 1 .. (NextInc - 1)
<1>1. PICK n \in Inc : Spawned = 1 .. n
  BY DEF SpawnedInOrder
<1>2. n \in Nat /\ n >= 1
  BY WorkerRecoveryAssumption DEF Inc
<1>3. Cardinality(1 .. n) = n
  BY <1>2, FS_Interval
<1>4. NextInc = n + 1
  BY <1>1, <1>3 DEF NextInc
<1> QED BY <1>1, <1>2, <1>4

(* A step that launches nothing leaves that number alone. *)
LEMMA SameCount ==
  ASSUME Spawned' = Spawned
  PROVE  NextInc' = NextInc
BY DEF NextInc

(* The idle recovery, stop and finalizer, and an absent worker, are of their types. *)
LEMMA IdleTypes ==
  /\ NoRec \in Recoveries /\ NoRec.pc = "off" /\ NoRec.read = {}
  /\ NoStop \in Stops /\ NoStop.pc = "off"
  /\ NoFin \in Finalizers /\ NoFin.pc = "off"
  /\ NoWorker \in Workers /\ NoWorker.inc = 0 /\ NoWorker.reg = FALSE /\ NoWorker.client = 0
<1> USE WorkerRecoveryAssumption
<1>1. NoRec \in Recoveries /\ NoRec.pc = "off" /\ NoRec.read = {}
  BY DEF NoRec, Recoveries, Pcs
<1>2. NoStop \in Stops /\ NoStop.pc = "off"
  BY DEF NoStop, Stops
<1>3. NoFin \in Finalizers /\ NoFin.pc = "off"
  BY DEF NoFin, Finalizers
<1>4. NoWorker \in Workers /\ NoWorker.inc = 0 /\ NoWorker.reg = FALSE /\ NoWorker.client = 0
  BY DEF NoWorker, Workers
<1> QED BY <1>1, <1>2, <1>3, <1>4

(* The fields of a recovery, one at a time *)
LEMMA RecoveryFields ==
  ASSUME NEW r \in Recoveries
  PROVE  /\ \A v \in Pcs : /\ [r EXCEPT !.pc = v] \in Recoveries
                           /\ [r EXCEPT !.pc = v].pc = v /\ [r EXCEPT !.pc = v].read = r.read
         /\ \A v \in 0 .. MaxAttempts :
              [r EXCEPT !.n = v] \in Recoveries /\ [r EXCEPT !.n = v].pc = r.pc
         /\ \A v \in BOOLEAN :
              [r EXCEPT !.probe = v] \in Recoveries /\ [r EXCEPT !.probe = v].pc = r.pc
         /\ \A v \in BOOLEAN :
              [r EXCEPT !.env = v] \in Recoveries /\ [r EXCEPT !.env = v].pc = r.pc
         /\ \A v \in SUBSET Sessions :
              /\ [r EXCEPT !.read = v] \in Recoveries
              /\ [r EXCEPT !.read = v].pc = r.pc /\ [r EXCEPT !.read = v].read = v
         /\ \A v \in Nat :
              [r EXCEPT !.rev = v] \in Recoveries /\ [r EXCEPT !.rev = v].pc = r.pc
<1> USE WorkerRecoveryAssumption
<1>1. ASSUME NEW v \in Pcs
      PROVE  /\ [r EXCEPT !.pc = v] \in Recoveries
             /\ [r EXCEPT !.pc = v].pc = v /\ [r EXCEPT !.pc = v].read = r.read
  BY DEF Recoveries
<1>2. ASSUME NEW v \in 0 .. MaxAttempts
      PROVE  [r EXCEPT !.n = v] \in Recoveries /\ [r EXCEPT !.n = v].pc = r.pc
  BY DEF Recoveries
<1>3. ASSUME NEW v \in BOOLEAN
      PROVE  [r EXCEPT !.probe = v] \in Recoveries /\ [r EXCEPT !.probe = v].pc = r.pc
  BY DEF Recoveries
<1>4. ASSUME NEW v \in BOOLEAN
      PROVE  [r EXCEPT !.env = v] \in Recoveries /\ [r EXCEPT !.env = v].pc = r.pc
  BY DEF Recoveries
<1>5. ASSUME NEW v \in SUBSET Sessions
      PROVE  /\ [r EXCEPT !.read = v] \in Recoveries
             /\ [r EXCEPT !.read = v].pc = r.pc /\ [r EXCEPT !.read = v].read = v
  BY DEF Recoveries
<1>6. ASSUME NEW v \in Nat
      PROVE  [r EXCEPT !.rev = v] \in Recoveries /\ [r EXCEPT !.rev = v].pc = r.pc
  BY DEF Recoveries
<1> QED BY <1>1, <1>2, <1>3, <1>4, <1>5, <1>6

(* A recovery that waits for its n-th attempt *)
LEMMA DelayType ==
  ASSUME NEW n \in 1 .. MaxAttempts
  PROVE  [NoRec EXCEPT !.pc = "delay", !.n = n] \in Recoveries
         /\ [NoRec EXCEPT !.pc = "delay", !.n = n].pc = "delay"
<1> DEFINE d == [NoRec EXCEPT !.pc = "delay"]
<1>1. d \in Recoveries /\ d.pc = "delay"
  BY IdleTypes, RecoveryFields DEF Pcs
<1> HIDE DEF d
<1>2. [d EXCEPT !.n = n] \in Recoveries /\ [d EXCEPT !.n = n].pc = "delay"
  BY <1>1, RecoveryFields, WorkerRecoveryAssumption
<1> QED BY <1>2 DEF d

(* A worker with the process and the registration of another *)
Same(y, x) == y \in Workers /\ y.inc = x.inc /\ y.reg = x.reg

Lives == {"starting", "ready", "recovering", "failed"}

(* The fields of a worker, one at a time *)
LEMMA WorkerFields ==
  ASSUME NEW x \in Workers
  PROVE  /\ \A v \in BOOLEAN : /\ [x EXCEPT !.reg = v] \in Workers
                               /\ [x EXCEPT !.reg = v].inc = x.inc /\ [x EXCEPT !.reg = v].reg = v
         /\ \A v \in 0 .. MaxInc : /\ [x EXCEPT !.inc = v] \in Workers
                                   /\ [x EXCEPT !.inc = v].inc = v /\ [x EXCEPT !.inc = v].reg = x.reg
         /\ \A v \in BOOLEAN : Same([x EXCEPT !.known = v], x)
         /\ \A v \in Lives : Same([x EXCEPT !.life = v], x)
         /\ \A v \in BOOLEAN : Same([x EXCEPT !.stop = v], x)
         /\ \A v \in 0 .. MaxInc : Same([x EXCEPT !.client = v], x)
         /\ \A v \in BOOLEAN : Same([x EXCEPT !.intent = v], x)
         /\ \A v \in Nat : Same([x EXCEPT !.rev = v], x)
         /\ \A v \in BOOLEAN : Same([x EXCEPT !.env = v], x)
         /\ \A v \in Nat : Same([x EXCEPT !.rounds = v], x)
<1> USE WorkerRecoveryAssumption
<1>1. ASSUME NEW v \in BOOLEAN
      PROVE  /\ [x EXCEPT !.reg = v] \in Workers
             /\ [x EXCEPT !.reg = v].inc = x.inc /\ [x EXCEPT !.reg = v].reg = v
  BY DEF Workers
<1>2. ASSUME NEW v \in 0 .. MaxInc
      PROVE  /\ [x EXCEPT !.inc = v] \in Workers
             /\ [x EXCEPT !.inc = v].inc = v /\ [x EXCEPT !.inc = v].reg = x.reg
  BY DEF Workers
<1>3. ASSUME NEW v \in BOOLEAN
      PROVE  Same([x EXCEPT !.known = v], x)
  BY DEF Workers, Same
<1>4. ASSUME NEW v \in Lives
      PROVE  Same([x EXCEPT !.life = v], x)
  BY DEF Workers, Same, Lives
<1>5. ASSUME NEW v \in BOOLEAN
      PROVE  Same([x EXCEPT !.stop = v], x)
  BY DEF Workers, Same
<1>6. ASSUME NEW v \in 0 .. MaxInc
      PROVE  Same([x EXCEPT !.client = v], x)
  BY DEF Workers, Same
<1>7. ASSUME NEW v \in BOOLEAN
      PROVE  Same([x EXCEPT !.intent = v], x)
  BY DEF Workers, Same
<1>8. ASSUME NEW v \in Nat
      PROVE  Same([x EXCEPT !.rev = v], x)
  BY DEF Workers, Same
<1>9. ASSUME NEW v \in BOOLEAN
      PROVE  Same([x EXCEPT !.env = v], x)
  BY DEF Workers, Same
<1>10. ASSUME NEW v \in Nat
       PROVE  Same([x EXCEPT !.rounds = v], x)
  BY DEF Workers, Same
<1> QED BY <1>1, <1>2, <1>3, <1>4, <1>5, <1>6, <1>7, <1>8, <1>9, <1>10

(* The values of those fields *)
LEMMA FieldTypes ==
  ASSUME NEW x \in Workers
  PROVE  /\ x.reg \in BOOLEAN /\ x.inc \in 0 .. MaxInc /\ x.known \in BOOLEAN /\ x.life \in Lives
         /\ x.stop \in BOOLEAN /\ x.client \in 0 .. MaxInc /\ x.intent \in BOOLEAN
         /\ x.rev \in Nat /\ x.env \in BOOLEAN /\ x.rounds \in Nat
         /\ 0 \in 0 .. MaxInc
BY WorkerRecoveryAssumption DEF Workers, Lives

(* persistDescriptor puts the worker's process on disk. *)
LEMMA PersistEffect ==
  ASSUME NEW x \in Workers, x.inc # 0, Persist(x)
  PROVE  /\ w' \in Workers /\ w'.inc = x.inc /\ w'.reg = x.reg
         /\ disk' \in Descriptors /\ disk'.on = TRUE /\ disk'.inc = x.inc
<1>1. w' = x /\ disk' = [on |-> TRUE, inc |-> x.inc, known |-> x.known, stop |-> x.stop]
  BY DEF Persist, Saved
<1>2. x.inc \in Inc /\ x.known \in BOOLEAN /\ x.stop \in BOOLEAN
  BY WorkerRecoveryAssumption DEF Workers, Inc
<1> QED BY <1>1, <1>2 DEF Descriptors

(* What Saved writes is a descriptor of the worker's process. *)
LEMMA SavedEffect ==
  ASSUME NEW x \in Workers, x.inc # 0
  PROVE  Saved(x) \in Descriptors /\ Saved(x).on = TRUE /\ Saved(x).inc = x.inc
<1>1. x.inc \in Inc /\ x.known \in BOOLEAN /\ x.stop \in BOOLEAN
  BY WorkerRecoveryAssumption DEF Workers, Inc
<1> QED BY <1>1 DEF Descriptors, Saved

(* A deferral only counts a round, or parks the worker as failed. *)
LEMMA DeferredEffect ==
  ASSUME TypeOK, NEW x \in Workers, Deferred(x)
  PROVE  Same(w', x) /\ defer' \in BOOLEAN
<1>1. defer' \in BOOLEAN
  BY DEF Deferred, Parks
<1> DEFINE l == IF Parks(x) THEN "failed" ELSE x.life
           q == [x EXCEPT !.rounds = @ + 1]
           f == [q EXCEPT !.life = l]
<1>2. Same(q, x) /\ q.life = x.life
  <2>1. x.rounds + 1 \in Nat
    BY FieldTypes
  <2> QED BY <2>1 DEF Workers, Same
<1>3. l \in Lives
  BY FieldTypes DEF Lives
<1>4. w' = x \/ w' = f
  BY <1>2 DEF Deferred
<1> HIDE DEF q, l
<1>5. Same(f, x)
  BY <1>2, <1>3, WorkerFields DEF Same
<1> HIDE DEF f
<1> QED BY <1>1, <1>4, <1>5 DEF Same

(* What the catch of an attempt leaves of a worker x: the same process, a
   recovery that is over or waits for its next attempt, and on disk what was
   there, or the worker. *)
LEMMA AttemptFailsEffect ==
  ASSUME TypeOK, NEW x \in Workers, x.inc # 0, NEW d \in Descriptors, NEW probe \in BOOLEAN,
         AttemptFails(x, d, probe)
  PROVE  /\ w' \in Workers /\ w'.inc = x.inc /\ w'.reg = x.reg
         /\ rec' \in Recoveries /\ rec'.pc \in {"off", "delay"}
         /\ stp' \in Stops /\ (stp' = stp \/ stp' = NoStop)
         /\ defer' \in BOOLEAN /\ disk' \in Descriptors
         /\ disk' = d \/ (disk'.on /\ disk'.inc = x.inc)
<1> USE WorkerRecoveryAssumption
<1> DEFINE y == [x EXCEPT !.client = 0]
           last == rec.n = MaxAttempts
           r == [y EXCEPT !.life = "recovering"]
           f == [y EXCEPT !.life = "failed"]
<1>y. y \in Workers /\ y.inc = x.inc /\ y.reg = x.reg
  BY WorkerFields, FieldTypes DEF Same
<1>s. stp' \in Stops /\ (stp' = stp \/ stp' = NoStop)
  BY IdleTypes DEF AttemptFails, CutStop, TypeOK
<1>1. CASE rec' = NoRec /\ w' = x /\ disk' = d /\ UNCHANGED defer
  BY <1>1, <1>s, IdleTypes DEF TypeOK
<1>2. CASE /\ disk' = Saved(y)
           /\ rec' = IF last THEN NoRec ELSE [NoRec EXCEPT !.pc = "delay", !.n = rec.n + 1]
           /\ \/ w' = y /\ UNCHANGED defer
              \/ last /\ probe /\ Deferred(r)
              \/ last /\ ~probe /\ w' = f /\ UNCHANGED defer
  <2>1. ~last => rec.n + 1 \in 1 .. MaxAttempts
    BY DEF TypeOK, Recoveries
  <2>2. rec' \in Recoveries /\ rec'.pc \in {"off", "delay"}
    <3>1. CASE last
      BY <1>2, <3>1, IdleTypes
    <3>2. CASE ~last
      <4>1. rec' = [NoRec EXCEPT !.pc = "delay", !.n = rec.n + 1]
        BY <1>2, <3>2
      <4> HIDE DEF last
      <4> QED BY <2>1, <3>2, <4>1, DelayType
    <3> QED BY <3>1, <3>2
  <2>3. r \in Workers /\ r.inc = x.inc /\ r.reg = x.reg /\ f \in Workers /\ f.inc = x.inc /\ f.reg = x.reg
    <3> HIDE DEF y
    <3> QED BY <1>y, WorkerFields DEF Same, Lives
  <2>4. ((w' = y \/ w' = f) /\ defer' = defer) \/ Deferred(r)
    BY <1>2
  <2>5. disk' = Saved(y)
    BY <1>2
  <2> HIDE DEF r, f, y
  <2>6. w' \in Workers /\ w'.inc = x.inc /\ w'.reg = x.reg /\ defer' \in BOOLEAN
    BY <2>3, <2>4, <1>y, DeferredEffect DEF Same, TypeOK
  <2>7. disk' \in Descriptors /\ disk'.on /\ disk'.inc = x.inc
    BY <2>5, <1>y, SavedEffect
  <2> QED BY <2>2, <2>6, <2>7, <1>s
<1>3. \/ rec' = NoRec /\ w' = x /\ disk' = d /\ UNCHANGED defer
      \/ /\ disk' = Saved(y)
         /\ rec' = IF last THEN NoRec ELSE [NoRec EXCEPT !.pc = "delay", !.n = rec.n + 1]
         /\ \/ w' = y /\ UNCHANGED defer
            \/ last /\ probe /\ Deferred(r)
            \/ last /\ ~probe /\ w' = f /\ UNCHANGED defer
  BY DEF AttemptFails
<1> QED BY <1>1, <1>2, <1>3

(* recoverWorker of x: its descriptor is saved, and a recovery may begin. *)
LEMMA RecoverEffect ==
  ASSUME TypeOK, NEW x \in Workers, x.inc # 0, Recover(x)
  PROVE  /\ w' \in Workers /\ w'.inc = x.inc /\ w'.reg = x.reg
         /\ rec' \in Recoveries /\ (rec' = rec \/ (rec.pc = "off" /\ rec'.pc = "delay"))
         /\ disk' \in Descriptors /\ disk'.on /\ disk'.inc = x.inc
<1> USE WorkerRecoveryAssumption
<1>0. 1 \in 1 .. MaxAttempts
  OBVIOUS
<1> DEFINE f == [x EXCEPT !.life = "failed"]
<1>1. Persist(x) \/ Persist(f)
  BY DEF Recover
<1>2. f \in Workers /\ f.inc = x.inc /\ f.reg = x.reg
  BY WorkerFields DEF Same, Lives
<1>3. rec' = rec \/ (rec.pc = "off" /\ rec' = [NoRec EXCEPT !.pc = "delay", !.n = 1])
  BY DEF Recover
<1>4. rec' \in Recoveries /\ (rec' = rec \/ (rec.pc = "off" /\ rec'.pc = "delay"))
  BY <1>0, <1>3, DelayType DEF TypeOK
<1> HIDE DEF f
<1> QED BY <1>1, <1>2, <1>4, PersistEffect

-----------------------------------------------------------------------------
(* Steps that bring no process to life and leave the descriptor its process *)

Steady ==
  /\ up' = up
  /\ \A k \in Inc : proc'[k] = proc[k] \/ (Alive(k) /\ proc'[k] = "dead")
  /\ w'.inc = w.inc
  /\ w'.reg => w.inc # 0
  /\ w.inc = 0 => w'.client = 0
  /\ closing' => closing \/ w.inc # 0
  /\ w.reg /\ ~SlowCancel => w'.reg \/ ~Alive(w.inc) \/ proc'[w.inc] = "dead"
  /\ adopt' => adopt
  /\ rec'.pc # "off" => w.inc # 0
  /\ \/ disk' = disk /\ (w'.reg => w.reg)
     \/ disk'.on /\ disk'.inc = w.inc /\ w.inc # 0
     \/ up /\ ~disk'.on /\ disk'.inc = disk.inc /\ ~w'.reg
  /\ \/ rec'.pc = rec.pc
     \/ /\ rec.pc # "assign" \/ \A k \in Inc : proc'[k] \notin {"gated", "up"}
        /\ rec'.pc \in {"off", "delay", "connect", "subscribed", "verified"}
     \/ rec.pc # "assign" /\ rec'.pc \in {"read", "mark", "hold", "launch"} /\ ~Alive(w.inc)
     \/ rec.pc = "greet" /\ rec'.pc = "created"
     \/ rec.pc = "created" /\ rec'.pc = "launched"
  /\ stp'.pc = "cancel" /\ ~SlowCancel =>
       \/ stp.pc = "cancel" /\ stp'.inc = stp.inc
       \/ stp'.inc = w.inc /\ ~Alive(w.inc)

(* Such a step preserves OwnershipInv. *)
LEMMA SteadyStep ==
  ASSUME OwnershipInv, TypeOK', Steady
  PROVE  OwnershipInv'
<1> USE WorkerRecoveryAssumption DEF OwnershipInv
<1>0. Spawned' = Spawned /\ NextInc' = NextInc
  <2>1. Spawned' = Spawned
    BY DEF Spawned, TypeOK, Steady, Alive
  <2> QED BY <2>1, SameCount
<1>1. \A k \in Inc : Alive(k)' => Alive(k) /\ proc'[k] = proc[k]
  BY DEF Steady, Alive
<1>2. SpawnedInOrder'
  BY <1>0 DEF SpawnedInOrder, Steady
<1>3. LiveIsOwned'
  <2> SUFFICES ASSUME NEW k \in Inc, Alive(k)'
               PROVE  IF ~up' THEN /\ proc'[k] = "up" /\ (disk'.on => disk'.inc = k)
                                   /\ ~SlowCancel => disk'.on
                      ELSE IF rec'.pc = "assign" THEN proc'[k] = "gated" /\ k = NextInc - 1
                      ELSE w'.inc \in {0, k} /\ (~SlowCancel => w'.reg)
    BY <1>0 DEF LiveIsOwned
  <2>1. Alive(k) /\ proc'[k] = proc[k]
    BY <1>1
  <2>2. CASE ~up
    BY <2>1, <2>2, IdleTypes DEF LiveIsOwned, Steady, TypeOK
  <2>3. CASE up /\ rec.pc = "assign"
    BY <2>1, <2>3 DEF LiveIsOwned, Steady, Alive
  <2>4. CASE up /\ rec.pc # "assign"
    <3>1. rec'.pc # "assign"
      BY <2>4 DEF Steady
    <3>2. w.inc \in {0, k} /\ (~SlowCancel => w.reg) /\ proc'[k] # "dead"
      BY <2>1, <2>4 DEF LiveIsOwned, Alive
    <3>3. w.reg => w.inc = k
      BY <3>2 DEF SpawnedInOrder
    <3> QED BY <2>1, <2>4, <3>1, <3>2, <3>3 DEF Steady
  <2> QED BY <2>2, <2>3, <2>4
<1>4. RegisteredIsOnDisk'
  BY DEF RegisteredIsOnDisk, Steady
<1>5. StillDead'
  <2>1. ~Alive(w.inc) => ~Alive(w.inc)'
    BY <1>1 DEF Steady, TypeOK, Workers, Alive, Inc
  <2>2. w.inc \notin Serving => (w.inc \notin Serving)'
    BY <1>1 DEF Steady, Serving, Alive
  <2> QED BY <1>0, <2>1, <2>2 DEF StillDead, Steady
<1> QED BY <1>2, <1>3, <1>4, <1>5

(* The supervisor's part of the types, when a step does not touch the rest *)
LEMMA SupervisorTypes ==
  ASSUME TypeOK, up, up',
         \/ UNCHANGED <<proc, recycled, asked, saved, busy, owed, latest, lost>>
         \/ \E k \in Inc : Killed(k),
         adopt' \in BOOLEAN, closing' \in BOOLEAN, defer' \in BOOLEAN,
         w' \in Workers, rec' \in Recoveries, stp' \in Stops, fin' \in Finalizers,
         disk' \in Descriptors
  PROVE  TypeOK'
<1>1. CASE UNCHANGED <<proc, recycled, asked, saved, busy, owed, latest, lost>>
  BY <1>1 DEF TypeOK, Serving, Alive
<1>2. CASE \E k \in Inc : Killed(k)
  BY <1>2 DEF TypeOK, Serving, Alive, Killed
<1> QED BY <1>1, <1>2

(* What TypeOK says of the supervisor's records *)
LEMMA RecordTypes ==
  ASSUME TypeOK
  PROVE  /\ w \in Workers /\ rec \in Recoveries /\ stp \in Stops /\ fin \in Finalizers
         /\ disk \in Descriptors /\ rec.pc \in Pcs /\ rec.probe \in BOOLEAN
         /\ up \in BOOLEAN /\ adopt \in BOOLEAN /\ closing \in BOOLEAN /\ defer \in BOOLEAN
BY DEF TypeOK, Recoveries

-----------------------------------------------------------------------------
(* The worker process *)

(* Work that is accepted, begun, finished or recorded *)
LEMMA WorkStep ==
  ASSUME OwnershipInv, NEW s \in Sessions, Accept(s) \/ Begin(s) \/ Finish(s) \/ Reply(s) \/ Checkpoint(s)
  PROVE  OwnershipInv'
<1>1. /\ UNCHANGED <<proc, recycled, asked, lost, supVars>>
      /\ saved \subseteq saved' /\ saved' \subseteq Sessions
  BY DEF Accept, Begin, Finish, Reply, Checkpoint, workerRest, OwnershipInv, TypeOK
<1>2. owed' \subseteq busy' /\ busy' \subseteq Sessions /\ (Serving = {} => busy' = {})
  <2>1. Serving # {}
    BY DEF Accept, Begin, Finish, Reply, Checkpoint
  <2> QED BY <2>1 DEF Accept, Begin, Finish, Reply, Checkpoint, OwnershipInv, TypeOK
<1>3. latest' \in [Sessions -> BOOLEAN]
  <2>1. ASSUME NEW b \in BOOLEAN, Record(s, b)
        PROVE  latest' \in [Sessions -> BOOLEAN]
    BY <2>1 DEF Record, OwnershipInv, TypeOK
  <2>2. (s \in busy) \in BOOLEAN /\ TRUE \in BOOLEAN
    OBVIOUS
  <2>3. latest' = latest \/ Record(s, TRUE) \/ Record(s, s \in busy)
    BY DEF Accept, Begin, Finish, Reply, Checkpoint
  <2> QED BY <2>1, <2>2, <2>3 DEF OwnershipInv, TypeOK
<1>4. TypeOK'
  BY <1>1, <1>2, <1>3 DEF OwnershipInv, TypeOK, supVars, Serving, Alive
<1>5. Steady
  BY <1>1 DEF Steady, supVars, OwnershipInv, TypeOK, SpawnedInOrder
<1> QED BY <1>4, <1>5, SteadyStep

(* A process that dies, with its work *)
LEMMA KilledStep ==
  ASSUME OwnershipInv, NEW k \in Inc, Alive(k), Killed(k), UNCHANGED supVars
  PROVE  OwnershipInv'
<1>1. TypeOK'
  BY DEF Killed, OwnershipInv, TypeOK, Serving, Alive, supVars
<1>2. Steady
  BY DEF Killed, Steady, supVars, OwnershipInv, TypeOK, SpawnedInOrder
<1> QED BY <1>1, <1>2, SteadyStep

(* The death of a serving worker. *)
LEMMA DieStep ==
  ASSUME OwnershipInv, Die
  PROVE  OwnershipInv'
BY KilledStep DEF Die, Serving, Alive, Inc

(* A worker that was asked to exit. *)
LEMMA ExitStep ==
  ASSUME OwnershipInv, Exit
  PROVE  OwnershipInv'
<1>1. PICK k \in asked :
        /\ proc' = [proc EXCEPT ![k] = "dead"]
        /\ asked' = asked \ {k}
        /\ \/ proc[k] = "up" /\ busy' = {} /\ owed' = {} /\ latest' = [t \in Sessions |-> FALSE]
           \/ proc[k] # "up" /\ UNCHANGED <<busy, owed, latest>>
  BY DEF Exit
<1>2. UNCHANGED <<recycled, saved, lost, supVars>>
  BY DEF Exit
<1>3. k \in Inc /\ Alive(k)
  BY DEF OwnershipInv, TypeOK
<1>4. TypeOK'
  BY <1>1, <1>2, <1>3 DEF OwnershipInv, TypeOK, Serving, Alive, supVars
<1>5. Steady
  BY <1>1, <1>2, <1>3 DEF Steady, supVars, OwnershipInv, TypeOK, SpawnedInOrder
<1> QED BY <1>4, <1>5, SteadyStep

(* A dead worker's pid goes to another program: no process of ours changes. *)
LEMMA RecycleStep ==
  ASSUME OwnershipInv, Recycle
  PROVE  OwnershipInv'
<1>1. TypeOK'
  BY DEF Recycle, OwnershipInv, TypeOK, Serving, Alive, supVars
<1>2. Steady
  BY DEF Recycle, Steady, supVars, OwnershipInv, TypeOK, SpawnedInOrder
<1> QED BY <1>1, <1>2, SteadyStep

-----------------------------------------------------------------------------
(* Recovery *)

(* handleWorkerClose up to its admission check: the process stays registered. *)
LEMMA CloseStep ==
  ASSUME OwnershipInv, Close
  PROVE  OwnershipInv'
<1>0. TypeOK /\ up /\ up' /\ UNCHANGED <<procVars, disk, adopt, rec, defer, fin>>
  BY DEF Close, OwnershipInv
<1>1. Same(w', w)
  BY <1>0, RecordTypes, WorkerFields, FieldTypes DEF Close
<1>2. stp' \in Stops /\ (stp' = stp \/ stp' = NoStop)
  BY <1>0, RecordTypes, IdleTypes DEF Close, CutStop
<1>3. TypeOK'
  <2>1. closing' \in BOOLEAN
    BY <1>0, RecordTypes DEF Close
  <2> QED BY <1>0, <1>1, <1>2, <2>1, RecordTypes, SupervisorTypes DEF Same, procVars
<1>4. w'.client = 0 /\ w.inc # 0
  BY <1>0, RecordTypes DEF Close, Workers, OwnershipInv, SpawnedInOrder
<1>5. Steady
  BY <1>0, <1>1, <1>2, <1>4, IdleTypes DEF Steady, Same, procVars, OwnershipInv, SpawnedInOrder
<1> QED BY <1>3, <1>5, SteadyStep

(* A step that is a call of recoverWorker, in every handler that makes one *)
LEMMA RecoverStep ==
  ASSUME OwnershipInv, up, NEW x \in Workers, Same(x, w), x.inc # 0, Recover(x),
         UNCHANGED <<procVars, up, stp, fin>>, adopt' \in BOOLEAN, adopt' => adopt,
         closing' \in BOOLEAN, defer' \in BOOLEAN
  PROVE  OwnershipInv'
<1>1. TypeOK
  BY DEF OwnershipInv
<1>2. /\ Same(w', w) /\ rec' \in Recoveries /\ disk' \in Descriptors /\ disk'.on /\ disk'.inc = w.inc
      /\ rec' = rec \/ (rec.pc = "off" /\ rec'.pc = "delay")
  BY <1>1, RecoverEffect DEF Same
<1>3. TypeOK'
  BY <1>1, <1>2, RecordTypes, SupervisorTypes DEF procVars, Same
<1>4. Steady
  BY <1>2 DEF Steady, procVars, OwnershipInv, SpawnedInOrder, Same
<1> QED BY <1>3, <1>4, SteadyStep

(* A step that is the failure of an attempt *)
LEMMA AttemptFailsStep ==
  ASSUME OwnershipInv, up, NEW x \in Workers, Same(x, w), NEW probe \in BOOLEAN,
         rec.pc \notin {"off", "assign"}, AttemptFails(x, disk, probe), UNCHANGED <<procVars, recRest>>
  PROVE  OwnershipInv'
<1>1. TypeOK
  BY DEF OwnershipInv
<1>2. w.inc # 0 /\ x.inc # 0
  BY DEF OwnershipInv, SpawnedInOrder, Same
<1>3. /\ Same(w', w) /\ rec' \in Recoveries /\ rec'.pc \in {"off", "delay"}
      /\ stp' \in Stops /\ (stp' = stp \/ stp' = NoStop)
      /\ defer' \in BOOLEAN /\ disk' \in Descriptors
      /\ disk' = disk \/ (disk'.on /\ disk'.inc = w.inc)
  BY <1>1, <1>2, RecordTypes, AttemptFailsEffect DEF Same
<1>4. TypeOK'
  BY <1>1, <1>3, RecordTypes, SupervisorTypes DEF procVars, Same, recRest
<1>5. Steady
  BY <1>2, <1>3, IdleTypes DEF Steady, procVars, recRest, Same
<1> QED BY <1>4, <1>5, SteadyStep

(* A step of the loop that only moves it on: to a probe, or to the cleanup of
   a process that is gone *)
LEMMA LoopStep ==
  ASSUME OwnershipInv, up, UNCHANGED <<procVars, recRest, defer>>, rec.pc \notin {"off", "assign"},
         Same(w', w), rec' \in Recoveries, disk' = disk \/ (disk' \in Descriptors /\ disk'.on /\ disk'.inc = w.inc),
         stp' \in Stops, stp'.pc = "cancel" => stp' = stp,
         \/ rec'.pc \in {"off", "delay", "connect", "subscribed", "verified"}
         \/ rec'.pc \in {"read", "mark", "hold", "launch"} /\ ~Alive(w.inc)
         \/ rec.pc = "greet" /\ rec'.pc = "created"
         \/ rec.pc = "created" /\ rec'.pc = "launched"
  PROVE  OwnershipInv'
<1>1. TypeOK
  BY DEF OwnershipInv
<1>2. TypeOK'
  BY <1>1, RecordTypes, SupervisorTypes DEF procVars, Same, recRest
<1>3. Steady
  BY DEF Steady, procVars, recRest, Same, OwnershipInv, SpawnedInOrder
<1> QED BY <1>2, <1>3, SteadyStep

(* handleWorkerClose after its check: a candidate is recovered, anything else
   left alone; when the check fails the recovery is deferred. *)
LEMMA CloseCheckedStep ==
  ASSUME OwnershipInv, CloseChecked
  PROVE  OwnershipInv'
<1>0. /\ TypeOK /\ up /\ up' /\ UNCHANGED <<procVars, up, adopt, stp, fin>> /\ closing' = FALSE
      /\ w.inc # 0
      /\ \/ UNCHANGED <<w, disk, rec, defer>>
         \/ Candidate(w) /\ Recover([w EXCEPT !.life = "recovering"]) /\ UNCHANGED defer
         \/ Deferred(w) /\ disk' \in {Saved(w), disk} /\ UNCHANGED rec
  BY DEF CloseChecked, OwnershipInv, SpawnedInOrder
<1>1. CASE UNCHANGED <<w, disk, rec, defer>>
  <2>1. TypeOK'
    BY <1>0, <1>1, RecordTypes, SupervisorTypes DEF procVars
  <2>2. Steady
    BY <1>0, <1>1 DEF Steady, procVars, OwnershipInv, SpawnedInOrder
  <2> QED BY <2>1, <2>2, SteadyStep
<1>2. CASE Candidate(w) /\ Recover([w EXCEPT !.life = "recovering"]) /\ UNCHANGED defer
  <2>1. Same([w EXCEPT !.life = "recovering"], w)
    BY <1>0, RecordTypes, WorkerFields DEF Lives
  <2> QED BY <1>0, <1>2, <2>1, RecordTypes, RecoverStep DEF Same
<1>3. CASE Deferred(w) /\ disk' \in {Saved(w), disk} /\ UNCHANGED rec
  <2>1. Same(w', w) /\ defer' \in BOOLEAN
    BY <1>0, <1>3, RecordTypes, DeferredEffect
  <2>2. disk' = disk \/ (disk' \in Descriptors /\ disk'.on /\ disk'.inc = w.inc)
    BY <1>0, <1>3, RecordTypes, SavedEffect
  <2>3. TypeOK'
    BY <1>0, <1>3, <2>1, <2>2, RecordTypes, SupervisorTypes DEF procVars, Same
  <2>4. Steady
    BY <1>0, <1>3, <2>1, <2>2 DEF Steady, procVars, OwnershipInv, SpawnedInOrder, Same
  <2> QED BY <2>3, <2>4, SteadyStep
<1> QED BY <1>0, <1>1, <1>2, <1>3

(* resumeDeferredWorkerRecovery. *)
LEMMA DeferredRoundStep ==
  ASSUME OwnershipInv, DeferredRound
  PROVE  OwnershipInv'
<1>0. /\ TypeOK /\ up /\ up' /\ UNCHANGED <<procVars, stp, recRest>> /\ defer' = FALSE
      /\ UNCHANGED <<w, disk, rec>> \/ (Candidate(w) /\ Recover([w EXCEPT !.life = "recovering"]))
  BY DEF DeferredRound, OwnershipInv, recRest
<1>1. CASE UNCHANGED <<w, disk, rec>>
  <2>1. TypeOK'
    BY <1>0, <1>1, RecordTypes, SupervisorTypes DEF procVars, recRest
  <2>2. Steady
    BY <1>0, <1>1 DEF Steady, procVars, recRest, OwnershipInv, SpawnedInOrder
  <2> QED BY <2>1, <2>2, SteadyStep
<1>2. CASE Candidate(w) /\ Recover([w EXCEPT !.life = "recovering"])
  <2>1. Same([w EXCEPT !.life = "recovering"], w)
    BY <1>0, RecordTypes, WorkerFields DEF Lives
  <2>2. w.inc # 0
    BY <1>2 DEF Candidate, RecoveryCancelled, OwnershipInv, SpawnedInOrder
  <2> QED BY <1>0, <1>2, <2>1, <2>2, RecordTypes, RecoverStep DEF Same, recRest
<1> QED BY <1>0, <1>1, <1>2

(* An attempt goes to the cleanup only after a process that is gone. *)
LEMMA AttemptStep ==
  ASSUME OwnershipInv, Attempt
  PROVE  OwnershipInv'
<1>0. TypeOK /\ up /\ rec.pc = "delay" /\ UNCHANGED <<procVars, recRest>>
  BY DEF Attempt, OwnershipInv
<1>1. Same(w, w)
  BY <1>0, RecordTypes DEF Same
<1>2. CASE rec' = NoRec /\ UNCHANGED <<w, disk, defer, stp>>
  BY <1>0, <1>1, <1>2, RecordTypes, IdleTypes, LoopStep
<1>3. CASE AttemptFails(w, disk, TRUE)
  BY <1>0, <1>1, <1>3, RecordTypes, AttemptFailsStep
<1>4. CASE /\ UNCHANGED <<w, disk, defer, stp>>
           /\ \E id \in Identity(w.inc, w.known) :
                rec' = IF id \in {"current", "unknown"}
                       THEN [rec EXCEPT !.pc = "connect", !.probe = id # "current"]
                       ELSE [rec EXCEPT !.pc = "read", !.env = w.env]
  <2>1. PICK id \in Identity(w.inc, w.known) :
                rec' = IF id \in {"current", "unknown"}
                       THEN [rec EXCEPT !.pc = "connect", !.probe = id # "current"]
                       ELSE [rec EXCEPT !.pc = "read", !.env = w.env]
    BY <1>4
  <2> DEFINE c == [rec EXCEPT !.pc = "connect"]
             r == [rec EXCEPT !.pc = "read"]
             b == id # "current"
             cp == [c EXCEPT !.probe = b]
             re == [r EXCEPT !.env = w.env]
  <2>2. c \in Recoveries /\ c.pc = "connect" /\ r \in Recoveries /\ r.pc = "read"
    BY <1>0, RecordTypes, RecoveryFields DEF Pcs
  <2>3. rec' = cp \/ (rec' = re /\ id \notin {"current", "unknown"})
    BY <2>1
  <2>b. b \in BOOLEAN /\ w.env \in BOOLEAN
    BY <1>0, RecordTypes, FieldTypes
  <2> HIDE DEF c, r, b
  <2>c. cp \in Recoveries /\ cp.pc = "connect" /\ re \in Recoveries /\ re.pc = "read"
    BY <2>2, <2>b, RecoveryFields
  <2> HIDE DEF cp, re
  <2>4. rec' \in Recoveries /\ rec'.pc \in {"connect", "read"}
        /\ (rec'.pc = "read" => id \notin {"current", "unknown"})
    BY <2>3, <2>c
  <2>5. id \notin {"current", "unknown"} => ~Alive(w.inc)
    BY DEF Identity, PidExists
  <2> QED BY <1>0, <1>1, <1>4, <2>4, <2>5, RecordTypes, LoopStep
<1> QED BY <1>0, <1>2, <1>3, <1>4 DEF Attempt

(* connectWorker in the recovery loop, or the probe that fails. *)
LEMMA ConnectStep ==
  ASSUME OwnershipInv, Connect
  PROVE  OwnershipInv'
<1>0. TypeOK /\ up /\ rec.pc = "connect" /\ UNCHANGED <<procVars, recRest>>
  BY DEF Connect, OwnershipInv
<1>1. Same([w EXCEPT !.client = 0], w) /\ Same([w EXCEPT !.client = w.inc], w)
  BY <1>0, RecordTypes, WorkerFields, FieldTypes
<1>2. CASE ProbeFails(TRUE) \/ ProbeFails(rec.probe)
  BY <1>0, <1>1, <1>2, RecordTypes, AttemptFailsStep DEF ProbeFails, Same
<1>3. CASE /\ w' = [w EXCEPT !.client = IF stp.pc = "ask" THEN 0 ELSE w.inc]
           /\ stp' = IF stp.pc = "ask" THEN [stp EXCEPT !.pc = "wait"] ELSE stp
           /\ rec' = [rec EXCEPT !.pc = "subscribed"]
           /\ UNCHANGED <<disk, defer>>
  <2>1. Same(w', w)
    BY <1>1, <1>3
  <2>2. stp' \in Stops /\ (stp'.pc = "cancel" => stp' = stp)
    BY <1>0, <1>3, RecordTypes DEF Stops
  <2>3. rec' \in Recoveries /\ rec'.pc = "subscribed"
    BY <1>0, <1>3, RecordTypes, RecoveryFields DEF Pcs
  <2> QED BY <1>0, <1>3, <2>1, <2>2, <2>3, RecordTypes, LoopStep
<1> QED BY <1>2, <1>3 DEF Connect

(* The subscription behind a new connection. *)
LEMMA SubscribedStep ==
  ASSUME OwnershipInv, Subscribed
  PROVE  OwnershipInv'
<1>0. TypeOK /\ up /\ rec.pc = "subscribed" /\ UNCHANGED <<procVars, recRest>>
  BY DEF Subscribed, OwnershipInv
<1>1. Same([w EXCEPT !.client = 0], w) /\ Same([w EXCEPT !.known = TRUE], w)
  BY <1>0, RecordTypes, WorkerFields, FieldTypes
<1>s. Same(w, w)
  BY <1>0, RecordTypes DEF Same
<1>2. CASE ProbeFails(rec.probe)
  BY <1>0, <1>1, <1>2, RecordTypes, AttemptFailsStep DEF ProbeFails, Same
<1>3. CASE rec' = NoRec /\ UNCHANGED <<w, disk, defer, stp>>
  BY <1>0, <1>s, <1>3, RecordTypes, IdleTypes, LoopStep
<1>4. CASE /\ rec' = [rec EXCEPT !.pc = "verified"]
           /\ w' = [w EXCEPT !.known = TRUE]
           /\ UNCHANGED <<disk, defer, stp>>
  <2>1. rec' \in Recoveries /\ rec'.pc = "verified"
    BY <1>0, <1>4, RecordTypes, RecoveryFields DEF Pcs
  <2> QED BY <1>0, <1>1, <1>4, <2>1, RecordTypes, LoopStep
<1> QED BY <1>2, <1>3, <1>4 DEF Subscribed

(* The journal is read while the process is dead. *)
LEMMA ReadJournalStep ==
  ASSUME OwnershipInv, ReadJournal
  PROVE  OwnershipInv'
<1>0. /\ TypeOK /\ up /\ rec.pc = "read" /\ UNCHANGED <<procVars, recRest, defer, stp, w, disk>>
      /\ ~Alive(w.inc) /\ BusyIn(journal) \subseteq Sessions
  BY DEF ReadJournal, OwnershipInv, StillDead, BusyIn
<1> DEFINE m == [rec EXCEPT !.pc = "mark"]
           read == BusyIn(journal)
           mr == [m EXCEPT !.read = read]
<1>1. m \in Recoveries /\ m.pc = "mark"
  BY <1>0, RecordTypes, RecoveryFields DEF Pcs
<1>2. rec' = NoRec \/ rec' = mr
  BY DEF ReadJournal
<1>3. read \in SUBSET Sessions
  BY <1>0
<1> HIDE DEF m, read
<1>4. mr \in Recoveries /\ mr.pc = "mark"
  BY <1>1, <1>3, RecoveryFields
<1> HIDE DEF mr
<1>5. rec' \in Recoveries /\ rec'.pc \in {"off", "mark"}
  BY <1>2, <1>4, IdleTypes
<1> QED BY <1>0, <1>5, RecordTypes, LoopStep DEF Same

(* The work is marked while the process is dead, or the attempt fails. *)
LEMMA MarkInterruptedStep ==
  ASSUME OwnershipInv, MarkInterrupted
  PROVE  OwnershipInv'
<1>0. /\ TypeOK /\ up /\ rec.pc = "mark" /\ UNCHANGED recRest /\ ~Alive(w.inc) /\ w.inc # 0
      /\ UNCHANGED <<proc, recycled, asked, saved, busy, owed, latest>>
      /\ lost' \subseteq saved
  BY DEF MarkInterrupted, OwnershipInv, StillDead, SpawnedInOrder, TypeOK
<1>1. CASE UNCHANGED <<w, disk, defer, stp>>
  <2>1. rec' \in Recoveries /\ rec'.pc \in {"off", "hold", "delay"}
    <3> DEFINE h == [rec EXCEPT !.pc = "hold"]
    <3>1. h \in Recoveries /\ h.pc = "hold"
      BY <1>0, RecordTypes, RecoveryFields DEF Pcs
    <3>2. rec' = NoRec \/ rec' = h \/ AttemptFails(w, disk, FALSE)
      BY DEF MarkInterrupted
    <3>3. CASE AttemptFails(w, disk, FALSE)
      BY <1>0, <3>3, RecordTypes, AttemptFailsEffect
    <3> HIDE DEF h
    <3> QED BY <3>1, <3>2, <3>3, IdleTypes
  <2>2. TypeOK'
    BY <1>0, <1>1, <2>1 DEF TypeOK, recRest, Serving, Alive
  <2>3. Steady
    BY <1>0, <1>1, <2>1 DEF Steady, recRest, OwnershipInv, SpawnedInOrder
  <2> QED BY <2>2, <2>3, SteadyStep
<1>2. CASE AttemptFails(w, disk, FALSE)
  <2>1. /\ w' \in Workers /\ w'.inc = w.inc /\ w'.reg = w.reg
        /\ rec' \in Recoveries /\ rec'.pc \in {"off", "delay"}
        /\ stp' \in Stops /\ (stp' = stp \/ stp' = NoStop)
        /\ defer' \in BOOLEAN /\ disk' \in Descriptors
        /\ disk' = disk \/ (disk'.on /\ disk'.inc = w.inc)
    BY <1>0, <1>2, RecordTypes, AttemptFailsEffect
  <2>2. TypeOK'
    BY <1>0, <2>1 DEF TypeOK, recRest, Serving, Alive
  <2>3. Steady
    BY <1>0, <2>1, IdleTypes DEF Steady, recRest, OwnershipInv, SpawnedInOrder
  <2> QED BY <2>2, <2>3, SteadyStep
<1> QED BY <1>1, <1>2 DEF MarkInterrupted

(* The journal is cleared, and the worker parked or launched again. *)
LEMMA HoldStep ==
  ASSUME OwnershipInv, Hold
  PROVE  OwnershipInv'
<1>0. /\ TypeOK /\ up /\ rec.pc = "hold" /\ UNCHANGED <<recRest, defer, stp>>
      /\ UNCHANGED <<proc, recycled, asked, saved, busy, owed, latest, lost>> /\ ~Alive(w.inc) /\ w.inc # 0
  BY DEF Hold, OwnershipInv, StillDead, SpawnedInOrder
<1>1. rec' \in Recoveries /\ rec'.pc \in {"off", "launch"}
  <2> DEFINE l == [rec EXCEPT !.pc = "launch"]
  <2>1. l \in Recoveries /\ l.pc = "launch"
    BY <1>0, RecordTypes, RecoveryFields DEF Pcs
  <2>2. rec' = NoRec \/ rec' = l
    BY DEF Hold
  <2> HIDE DEF l
  <2> QED BY <2>1, <2>2, IdleTypes
<1>2. Same(w', w) /\ (disk' = disk \/ (disk' \in Descriptors /\ disk'.on /\ disk'.inc = w.inc))
  <2>1. Same([w EXCEPT !.life = "failed"], w) /\ Same(w, w)
    BY <1>0, RecordTypes, WorkerFields DEF Lives, Same
  <2>2. UNCHANGED <<w, disk>> \/ Persist([w EXCEPT !.life = "failed"])
    BY DEF Hold
  <2> QED BY <1>0, <2>1, <2>2, PersistEffect DEF Same
<1>3. TypeOK'
  BY <1>0, <1>1, <1>2, RecordTypes, SupervisorTypes DEF recRest, Same
<1>4. Steady
  BY <1>0, <1>1, <1>2 DEF Steady, recRest, Same, OwnershipInv, SpawnedInOrder
<1> QED BY <1>3, <1>4, SteadyStep

-----------------------------------------------------------------------------
(* launchWorker *)

(* No process runs when one is spawned. *)
LEMMA SpawnStep ==
  ASSUME OwnershipInv, Spawn
  PROVE  OwnershipInv'
<1> USE WorkerRecoveryAssumption
<1>0. /\ TypeOK /\ up /\ rec.pc = "launch" /\ ~Alive(w.inc)
      /\ UNCHANGED <<recycled, asked, saved, busy, owed, journal, latest, lost, recRest>>
  BY DEF Spawn, OwnershipInv, StillDead
<1>1. CASE AttemptFails(w, disk, FALSE) /\ UNCHANGED proc
  <2>1. UNCHANGED <<procVars, recRest>>
    BY <1>0, <1>1 DEF procVars
  <2>2. Same(w, w) /\ w \in Workers
    BY <1>0, RecordTypes DEF Same
  <2> QED BY <1>0, <1>1, <2>1, <2>2, AttemptFailsStep
<1>2. CASE /\ NextInc \in Inc
           /\ proc' = [proc EXCEPT ![NextInc] = "gated"]
           /\ rec' = [rec EXCEPT !.pc = "assign", !.rev = w.rev]
           /\ UNCHANGED <<w, disk, defer, stp>>
  <2>0. /\ NextInc \in Inc /\ proc' = [proc EXCEPT ![NextInc] = "gated"]
        /\ UNCHANGED <<w, disk, defer, stp>>
    BY <1>2
  <2>1. rec' \in Recoveries /\ rec'.pc = "assign"
    <3> DEFINE a == [rec EXCEPT !.pc = "assign"]
               ar == [a EXCEPT !.rev = w.rev]
    <3>1. a \in Recoveries /\ a.pc = "assign"
      BY <1>0, RecordTypes, RecoveryFields DEF Pcs
    <3>2. w.rev \in Nat
      BY <1>0, RecordTypes, FieldTypes
    <3>3. rec' = ar
      BY <1>2
    <3> HIDE DEF a
    <3>4. ar \in Recoveries /\ ar.pc = "assign"
      BY <3>1, <3>2, RecoveryFields
    <3> HIDE DEF ar
    <3> QED BY <3>3, <3>4
  <2>2. /\ NextInc \in Nat /\ NextInc \notin Spawned
        /\ Spawned = 1 .. (NextInc - 1) /\ SpawnedInOrder
    BY <1>0, SpawnCount DEF OwnershipInv
  <2>3. \A k \in Inc : ~Alive(k)
    <3>1. w.inc # 0
      BY <1>0, <2>2 DEF SpawnedInOrder
    <3> QED BY <1>0, <3>1 DEF OwnershipInv, LiveIsOwned
  <2>4. TypeOK'
    BY <1>0, <2>0, <2>1, <2>2, <2>3 DEF TypeOK, recRest, Serving, Alive, Spawned
  <2>5. Spawned' = 1 .. NextInc
    <3>1. Spawned' = Spawned \cup {NextInc}
      BY <1>0, <2>0 DEF Spawned, TypeOK
    <3>2. NextInc \in Nat /\ NextInc >= 1
      BY <2>0 DEF Inc
    <3>3. ASSUME NEW n \in Nat, n >= 1
          PROVE  1 .. (n - 1) \cup {n} = 1 .. n
      BY <3>3
    <3> QED BY <2>2, <3>1, <3>2, <3>3
  <2>6. NextInc' = NextInc + 1
    <3>1. Cardinality(Spawned') = NextInc
      BY <2>2, <2>5, FS_Interval
    <3> QED BY <3>1 DEF NextInc
  <2>7. SpawnedInOrder'
    <3>1. w.inc \in Spawned /\ disk.inc \in Spawned /\ w' = w /\ disk' = disk
      BY <1>0, <2>0, <2>2 DEF SpawnedInOrder
    <3>2. Spawned \subseteq Spawned' /\ 0 \notin Spawned
      BY <2>2, <2>5
    <3> QED BY <2>0, <2>5, <3>1, <3>2 DEF SpawnedInOrder
  <2>8. LiveIsOwned'
    <3> SUFFICES ASSUME NEW k \in Inc, Alive(k)'
                 PROVE  proc'[k] = "gated" /\ k = NextInc' - 1
      BY <1>0, <2>1 DEF LiveIsOwned, recRest
    <3>1. k = NextInc
      BY <1>0, <2>0, <2>3 DEF Alive, TypeOK
    <3> QED BY <1>0, <2>0, <2>2, <2>6, <3>1 DEF TypeOK
  <2>9. RegisteredIsOnDisk'
    BY <1>0, <1>2 DEF OwnershipInv, RegisteredIsOnDisk, recRest
  <2>10. StillDead'
    <3>1. ~Alive(w.inc)'
      BY <1>0, <1>2, <2>2 DEF Alive, SpawnedInOrder, TypeOK
    <3> QED BY <1>2, <2>1, <3>1 DEF OwnershipInv, StillDead
  <2> QED BY <2>4, <2>7, <2>8, <2>9, <2>10 DEF OwnershipInv
<1> QED BY <1>1, <1>2 DEF Spawn

(* The new process takes the old one's place in the descriptor: it waits at
   its gate, and without SlowCancel no stop is past its wait for the old one. *)
LEMMA AssignStep ==
  ASSUME OwnershipInv, Assign
  PROVE  OwnershipInv'
<1> USE WorkerRecoveryAssumption
<1>0. /\ TypeOK /\ up /\ rec.pc = "assign" /\ (stp.pc = "cancel" => SlowCancel) /\ SpawnedInOrder
      /\ UNCHANGED <<procVars, defer, stp, recRest>> /\ rec' = [rec EXCEPT !.pc = "commit"]
  BY DEF Assign, GetsOn, OwnershipInv
<1>1. rec' \in Recoveries /\ rec'.pc = "commit"
  BY <1>0, RecordTypes, RecoveryFields DEF Pcs
<1>2. NextInc - 1 \in Spawned /\ NextInc - 1 \in Inc /\ NextInc - 1 # 0 /\ NextInc - 1 \in 0 .. MaxInc
  BY <1>0, SpawnCount DEF Spawned, Inc
<1>3. Spawned' = Spawned /\ NextInc' = NextInc
  BY <1>0, SameCount DEF Spawned, procVars
<1>4. /\ w' \in Workers /\ w'.inc = NextInc - 1 /\ w'.reg = TRUE
      /\ disk' \in Descriptors /\ disk'.on = TRUE /\ disk'.inc = NextInc - 1
  <2>1. PICK known \in {TRUE, ~LookupFails} :
          Persist([w EXCEPT !.inc = NextInc - 1, !.known = known, !.life = "starting",
                            !.stop = FALSE, !.intent = FALSE, !.reg = TRUE])
    BY DEF Assign
  <2>2. known \in BOOLEAN
    OBVIOUS
  <2> DEFINE k == NextInc - 1
             a == [w EXCEPT !.inc = k]
             b == [a EXCEPT !.known = known]
             c == [b EXCEPT !.life = "starting"]
             d == [c EXCEPT !.stop = FALSE]
             e == [d EXCEPT !.intent = FALSE]
             f == [e EXCEPT !.reg = TRUE]
  <2>3. Persist(f)
    BY <2>1
  <2>4. a \in Workers /\ a.inc = k
    <3> HIDE DEF k
    <3>1. k \in 0 .. MaxInc
      BY <1>2 DEF k
    <3> QED BY <3>1, <1>0, RecordTypes, WorkerFields
  <2> HIDE DEF a
  <2>5. b \in Workers /\ b.inc = k
    BY <2>2, <2>4, WorkerFields DEF Same
  <2> HIDE DEF b
  <2>6. c \in Workers /\ c.inc = k
    BY <2>5, WorkerFields DEF Same, Lives
  <2> HIDE DEF c
  <2>7. d \in Workers /\ d.inc = k
    BY <2>6, WorkerFields DEF Same
  <2> HIDE DEF d
  <2>8. e \in Workers /\ e.inc = k
    BY <2>7, WorkerFields DEF Same
  <2> HIDE DEF e
  <2>9. f \in Workers /\ f.inc = k /\ f.reg = TRUE
    BY <2>8, WorkerFields
  <2> HIDE DEF f
  <2> QED BY <2>3, <2>9, <1>2, PersistEffect
<1>5. TypeOK'
  BY <1>0, <1>1, <1>4, RecordTypes, SupervisorTypes DEF procVars, recRest
<1>6. SpawnedInOrder'
  BY <1>0, <1>2, <1>3, <1>4 DEF SpawnedInOrder
<1>7. LiveIsOwned'
  BY <1>0, <1>1, <1>3, <1>4 DEF OwnershipInv, LiveIsOwned, Alive, recRest, procVars
<1>8. RegisteredIsOnDisk'
  BY <1>4 DEF RegisteredIsOnDisk
<1>9. StillDead'
  <2>1. proc[NextInc - 1] # "up"
    BY <1>0, <1>2 DEF OwnershipInv, LiveIsOwned, Alive
  <2> QED BY <1>0, <1>1, <1>2, <1>3, <1>4, <2>1 DEF StillDead, Serving, procVars
<1> QED BY <1>5, <1>6, <1>7, <1>8, <1>9 DEF OwnershipInv

(* The process that passes its gate is the one in the descriptor. *)
LEMMA CommitGateStep ==
  ASSUME OwnershipInv, CommitGate
  PROVE  OwnershipInv'
<1> USE WorkerRecoveryAssumption
<1>0. /\ TypeOK /\ up /\ rec.pc = "commit" /\ SpawnedInOrder /\ w.inc = NextInc - 1
      /\ UNCHANGED <<recycled, asked, saved, busy, owed, journal, lost, w, disk, defer, stp, recRest>>
      /\ rec' = [rec EXCEPT !.pc = "greet"] /\ latest' \in [Sessions -> BOOLEAN]
      /\ proc' = [proc EXCEPT ![NextInc - 1] = IF @ = "gated" THEN "up" ELSE @]
  BY DEF CommitGate, OwnershipInv, StillDead
<1>1. rec' \in Recoveries /\ rec'.pc = "greet"
  BY <1>0, RecordTypes, RecoveryFields DEF Pcs
<1>2. NextInc - 1 \in Spawned /\ NextInc - 1 \in Inc
  BY <1>0, SpawnCount DEF Spawned
<1>3. \A k \in Inc : Alive(k)' <=> Alive(k)
  BY <1>0, <1>2 DEF Alive, TypeOK
<1>4. Spawned' = Spawned /\ NextInc' = NextInc
  <2>1. Spawned' = Spawned
    BY <1>0, <1>2 DEF Spawned, TypeOK
  <2> QED BY <2>1, SameCount
<1>5. TypeOK'
  BY <1>0, <1>1, <1>2 DEF TypeOK, recRest, Serving, Alive
<1>6. SpawnedInOrder'
  BY <1>0, <1>1, <1>4 DEF SpawnedInOrder, recRest
<1>7. LiveIsOwned'
  BY <1>0, <1>1, <1>3, <1>4 DEF OwnershipInv, LiveIsOwned, recRest
<1>8. RegisteredIsOnDisk'
  BY <1>0 DEF OwnershipInv, RegisteredIsOnDisk, recRest
<1>9. StillDead'
  BY <1>0, <1>1, <1>2, <1>3, <1>4 DEF OwnershipInv, StillDead
<1> QED BY <1>5, <1>6, <1>7, <1>8, <1>9 DEF OwnershipInv

(* A launch that fails leaves its process dead, or registered. *)
LEMMA LaunchFailsStep ==
  ASSUME OwnershipInv, up, rec.pc \in {"greet", "created", "launched"}, LaunchFails, UNCHANGED recRest
  PROVE  OwnershipInv'
<1> USE WorkerRecoveryAssumption
<1>p. PICK resume \in {FALSE, ~w.stop /\ w.rev = rec.rev} :
        LET k == NextInc - 1
            stuck == Alive(k) /\ ~w.known
            x == [w EXCEPT !.reg = (@ /\ stuck) \/ resume, !.intent = IF stuck THEN w.stop ELSE ~resume,
                           !.life = IF resume THEN "recovering" ELSE @, !.client = 0]
        IN /\ IF Alive(k) /\ w.known THEN Killed(k) ELSE UNCHANGED procVars
           /\ AttemptFails(x, IF resume THEN Saved(x) ELSE disk, FALSE)
  BY DEF LaunchFails
<1> DEFINE k == NextInc - 1
           stuck == Alive(k) /\ ~w.known
           reg == (w.reg /\ stuck) \/ resume
           intent == IF stuck THEN w.stop ELSE ~resume
           life == IF resume THEN "recovering" ELSE w.life
           a == [w EXCEPT !.reg = reg]
           b == [a EXCEPT !.intent = intent]
           c == [b EXCEPT !.life = life]
           x == [c EXCEPT !.client = 0]
           d == IF resume THEN Saved(x) ELSE disk
<1>0. /\ TypeOK /\ SpawnedInOrder /\ w.inc = k /\ w.inc # 0 /\ w.inc \in Inc /\ w \in Workers
  BY SpawnCount DEF OwnershipInv, StillDead, SpawnedInOrder, Spawned, TypeOK
<1>1. /\ IF Alive(k) /\ w.known THEN Killed(k) ELSE UNCHANGED procVars
      /\ AttemptFails(x, d, FALSE)
  BY <1>p, <1>0 DEF Workers
<1>2. resume \in BOOLEAN /\ reg \in BOOLEAN /\ intent \in BOOLEAN /\ stuck \in BOOLEAN /\ life \in Lives
  BY <1>0, FieldTypes DEF Lives
<1>3. /\ w.reg /\ Alive(k) /\ ~w.known => reg
      /\ reg => w.reg \/ resume
  OBVIOUS
<1> HIDE DEF stuck, reg, intent, life
<1>4. a \in Workers /\ a.inc = w.inc /\ a.reg = reg
  BY <1>0, <1>2, WorkerFields
<1> HIDE DEF a
<1>5. b \in Workers /\ b.inc = w.inc /\ b.reg = reg
  BY <1>2, <1>4, WorkerFields DEF Same
<1> HIDE DEF b
<1>6. c \in Workers /\ c.inc = w.inc /\ c.reg = reg
  BY <1>2, <1>5, WorkerFields DEF Same
<1> HIDE DEF c
<1>7. x \in Workers /\ x.inc = w.inc /\ x.reg = reg
  BY <1>6, WorkerFields, FieldTypes DEF Same
<1> HIDE DEF x
<1>d. d \in Descriptors /\ ((d = disk /\ ~resume) \/ (d.on /\ d.inc = w.inc))
  BY <1>0, <1>2, <1>7, SavedEffect, RecordTypes
<1> HIDE DEF d
<1>8. /\ w' \in Workers /\ w'.inc = w.inc /\ w'.reg = reg
      /\ rec' \in Recoveries /\ rec'.pc \in {"off", "delay"}
      /\ stp' \in Stops /\ (stp' = stp \/ stp' = NoStop)
      /\ defer' \in BOOLEAN /\ disk' \in Descriptors
      /\ disk' = d \/ (disk'.on /\ disk'.inc = w.inc)
  BY <1>0, <1>1, <1>7, <1>d, AttemptFailsEffect
<1>9. (disk' = disk /\ (reg => w.reg)) \/ (disk'.on /\ disk'.inc = w.inc)
  BY <1>3, <1>8, <1>d
<1>10. TypeOK'
  BY <1>0, <1>1, <1>8, RecordTypes, SupervisorTypes DEF procVars, recRest
<1>11. /\ \A j \in Inc : proc'[j] = proc[j] \/ (Alive(j) /\ proc'[j] = "dead")
       /\ Alive(k) /\ w.known => proc'[k] = "dead"
  BY <1>0, <1>1 DEF Killed, procVars, TypeOK
<1> HIDE DEF k
<1>12. Steady
  BY <1>0, <1>3, <1>8, <1>9, <1>11, IdleTypes DEF Steady, recRest
<1> QED BY <1>10, <1>12, SteadyStep

(* The first request to a new worker. *)
LEMMA GreetStep ==
  ASSUME OwnershipInv, Greet
  PROVE  OwnershipInv'
<1>0. TypeOK /\ up /\ rec.pc = "greet" /\ UNCHANGED recRest
  BY DEF Greet, OwnershipInv
<1>1. CASE LaunchFails
  BY <1>0, <1>1, LaunchFailsStep
<1>2. CASE /\ w' = [w EXCEPT !.client = w.inc]
           /\ rec' = [rec EXCEPT !.pc = "created"]
           /\ UNCHANGED <<procVars, disk, defer, stp>>
  <2>1. Same(w', w)
    BY <1>0, <1>2, RecordTypes, WorkerFields, FieldTypes
  <2>2. rec' \in Recoveries /\ rec'.pc = "created"
    BY <1>0, <1>2, RecordTypes, RecoveryFields DEF Pcs
  <2> QED BY <1>0, <1>2, <2>1, <2>2, RecordTypes, LoopStep
<1> QED BY <1>1, <1>2 DEF Greet

(* The second request to a new worker. *)
LEMMA CreatedStep ==
  ASSUME OwnershipInv, Created
  PROVE  OwnershipInv'
<1>0. TypeOK /\ up /\ rec.pc = "created" /\ UNCHANGED recRest
  BY DEF Created, OwnershipInv
<1>1. CASE LaunchFails
  BY <1>0, <1>1, LaunchFailsStep
<1>2. CASE rec' = [rec EXCEPT !.pc = "launched"] /\ UNCHANGED <<procVars, w, disk, defer, stp>>
  <2>1. Same(w', w)
    BY <1>0, <1>2, RecordTypes DEF Same
  <2>2. rec' \in Recoveries /\ rec'.pc = "launched"
    BY <1>0, <1>2, RecordTypes, RecoveryFields DEF Pcs
  <2> QED BY <1>0, <1>2, <2>1, <2>2, RecordTypes, LoopStep
<1> QED BY <1>1, <1>2 DEF Created

(* The end of a recovery: the descriptor is saved with the process it had, or
   the launch is undone. *)
LEMMA ReadyStep ==
  ASSUME OwnershipInv, Ready
  PROVE  OwnershipInv'
<1>0. TypeOK /\ up /\ rec.pc \in {"verified", "launched"} /\ UNCHANGED recRest
  BY DEF Ready, OwnershipInv
<1>1. CASE rec.pc = "launched" /\ LaunchFails
  BY <1>0, <1>1, LaunchFailsStep
<1>2. CASE /\ rec' = NoRec
           /\ Persist([w EXCEPT !.life = "ready", !.rounds = 0])
           /\ UNCHANGED <<procVars, defer, stp>>
  <2> DEFINE x == [w EXCEPT !.life = "ready"]
             y == [x EXCEPT !.rounds = 0]
  <2>1. Same(x, w)
    BY <1>0, RecordTypes, WorkerFields DEF Lives
  <2>2. Persist(y)
    BY <1>2
  <2> HIDE DEF x
  <2>3. Same(y, w)
    BY <2>1, WorkerFields DEF Same
  <2>4. w.inc # 0
    BY <1>0 DEF OwnershipInv, SpawnedInOrder
  <2> HIDE DEF y
  <2>5. Same(w', w) /\ disk' \in Descriptors /\ disk'.on /\ disk'.inc = w.inc
    BY <2>2, <2>3, <2>4, PersistEffect DEF Same
  <2> QED BY <1>0, <1>2, <2>5, RecordTypes, IdleTypes, LoopStep
<1> QED BY <1>1, <1>2 DEF Ready

(* An admission check that fails ends the attempt; a process that waits at
   its gate dies with it. *)
LEMMA CheckFailsStep ==
  ASSUME OwnershipInv, CheckFails
  PROVE  OwnershipInv'
<1>0. TypeOK /\ up /\ rec.pc # "off" /\ UNCHANGED recRest /\ w.inc # 0
  BY DEF CheckFails, OwnershipInv, SpawnedInOrder
<1>1. Same([w EXCEPT !.client = 0], w) /\ Same(w, w)
  BY <1>0, RecordTypes, WorkerFields, FieldTypes DEF Same
<1>2. CASE rec.pc # "assign"
  BY <1>0, <1>1, <1>2, RecordTypes, AttemptFailsStep DEF CheckFails, ProbeFails, Same
<1>3. CASE rec.pc = "assign"
  <2> DEFINE k == NextInc - 1
  <2>1. Killed(k) /\ AttemptFails(w, disk, FALSE)
    BY <1>3 DEF CheckFails
  <2>2. k \in Inc /\ proc[k] # "none"
    BY <1>0, SpawnCount DEF OwnershipInv, Spawned
  <2>3. \A j \in Inc : Alive(j) => j = k
    BY <1>0, <1>3 DEF OwnershipInv, LiveIsOwned
  <2> HIDE DEF k
  <2>4. /\ \A j \in Inc : proc'[j] = proc[j] \/ (Alive(j) /\ proc'[j] = "dead")
        /\ \A j \in Inc : proc'[j] \notin {"gated", "up"}
    <3>1. \A j \in Inc : proc'[j] = IF j = k THEN "dead" ELSE proc[j]
      BY <1>0, <2>1, <2>2 DEF Killed, TypeOK
    <3>2. \A j \in Inc : j # 0
      BY WorkerRecoveryAssumption DEF Inc
    <3> QED BY <1>0, <2>2, <2>3, <3>1, <3>2 DEF Alive, TypeOK
  <2>5. /\ Same(w', w) /\ rec' \in Recoveries /\ rec'.pc \in {"off", "delay"}
        /\ stp' \in Stops /\ (stp' = stp \/ stp' = NoStop)
        /\ defer' \in BOOLEAN /\ disk' \in Descriptors
        /\ disk' = disk \/ (disk'.on /\ disk'.inc = w.inc)
    BY <1>0, <2>1, RecordTypes, AttemptFailsEffect DEF Same
  <2>6. TypeOK'
    BY <1>0, <2>1, <2>2, <2>5, RecordTypes, SupervisorTypes DEF recRest, Same
  <2>7. Steady
    BY <1>0, <2>4, <2>5, IdleTypes DEF Steady, recRest, Same
  <2> QED BY <2>6, <2>7, SteadyStep
<1> QED BY <1>2, <1>3

-----------------------------------------------------------------------------
(* stopWorker *)

(* The beginning of a stop only asks a process that runs. *)
LEMMA BeginStopStep ==
  ASSUME OwnershipInv, up, NEW x \in Workers, Same(x, w), w.inc # 0, NEW force \in BOOLEAN,
         BeginStop(x, force), UNCHANGED <<up, closing, rec, defer, fin>>,
         adopt' \in BOOLEAN, adopt' => adopt
  PROVE  OwnershipInv'
<1> USE WorkerRecoveryAssumption
<1>0. TypeOK
  BY DEF OwnershipInv
<1> DEFINE a == [x EXCEPT !.stop = TRUE]
           b == [a EXCEPT !.intent = TRUE]
           y == [b EXCEPT !.rev = @ + 1]
<1>1. Persist(y)
  BY DEF BeginStop
<1>2. Same(a, w)
  BY WorkerFields DEF Same
<1> HIDE DEF a
<1>3. Same(b, w)
  BY <1>2, WorkerFields DEF Same
<1> HIDE DEF b
<1>4. Same(y, w)
  <2>1. b.rev + 1 \in Nat
    BY <1>3, FieldTypes DEF Same
  <2> QED BY <1>3, <2>1, WorkerFields DEF Same
<1> HIDE DEF y
<1>5. Same(w', w) /\ disk' \in Descriptors /\ disk'.on /\ disk'.inc = w.inc
  BY <1>1, <1>4, PersistEffect DEF Same
<1>6. stp' \in Stops /\ stp'.pc # "cancel"
  <2>1. stp' = [pc |-> IF x.client # 0 THEN "ask" ELSE "wait",
                inc |-> x.inc, known |-> x.known, force |-> force]
    BY DEF BeginStop
  <2>2. x.inc \in 0 .. MaxInc /\ x.known \in BOOLEAN
    BY FieldTypes
  <2> QED BY <2>1, <2>2 DEF Stops
<1>7. UNCHANGED <<proc, recycled, saved, busy, owed, journal, latest, lost>>
  BY DEF BeginStop
<1>8. asked' \subseteq {k \in Inc : Alive(k)}
  <2>1. x.inc \in Inc
    BY FieldTypes DEF Inc, Same
  <2>2. asked' = asked \/ (Alive(x.inc) /\ asked' = asked \cup {x.inc})
    BY DEF BeginStop
  <2> QED BY <1>0, <2>1, <2>2 DEF TypeOK
<1>9. TypeOK'
  BY <1>0, <1>5, <1>6, <1>7, <1>8 DEF TypeOK, Serving, Alive, Same
<1>10. Steady
  BY <1>5, <1>6, <1>7 DEF Steady, Same, OwnershipInv, SpawnedInOrder
<1> QED BY <1>9, <1>10, SteadyStep

(* stopWorker on behalf of a client. *)
LEMMA StopStarts ==
  ASSUME OwnershipInv, Stop
  PROVE  OwnershipInv'
<1>1. TypeOK /\ up /\ w.reg /\ UNCHANGED <<up, adopt, closing, rec, defer, fin, faults>>
  BY DEF Stop, OwnershipInv
<1>2. PICK force \in BOOLEAN : BeginStop(w, force)
  BY DEF Stop
<1>3. w.inc # 0 /\ w \in Workers /\ Same(w, w)
  BY <1>1, RecordTypes DEF OwnershipInv, SpawnedInOrder, Same
<1> QED BY <1>1, <1>2, <1>3, RecordTypes, BeginStopStep

(* What a step of a stop or of a finalizer does that leaves rec alone *)
LEMMA StopSteady ==
  ASSUME OwnershipInv, up, UNCHANGED stopRest,
         \/ UNCHANGED <<proc, recycled, asked, saved, busy, owed, latest, lost>>
         \/ \E k \in Inc : Alive(k) /\ Killed(k),
         Same(w', w), w'.client \in {0, w.client}, disk' = disk, stp' \in Stops, fin' \in Finalizers,
         stp'.pc = "cancel" => stp' = stp \/ (stp'.inc = w.inc /\ ~Alive(w.inc))
  PROVE  OwnershipInv'
<1>1. TypeOK
  BY DEF OwnershipInv
<1>2. TypeOK'
  BY <1>1, RecordTypes, SupervisorTypes DEF stopRest, Same
<1>3. \A j \in Inc : proc'[j] = proc[j] \/ (Alive(j) /\ proc'[j] = "dead")
  BY <1>1 DEF Killed, TypeOK
<1>4. Steady
  BY <1>3 DEF Steady, stopRest, Same, OwnershipInv, SpawnedInOrder
<1> QED BY <1>2, <1>4, SteadyStep

(* The shutdown request of a stop has been answered, or has timed out. *)
LEMMA StopAnsweredStep ==
  ASSUME OwnershipInv, StopAnswered
  PROVE  OwnershipInv'
<1>0. TypeOK /\ up /\ UNCHANGED <<procVars, disk, fin, stopRest>>
  BY DEF StopAnswered, OwnershipInv
<1>1. Same(w', w) /\ w'.client = 0
  <2>1. w'.client = 0
    BY <1>0, RecordTypes DEF StopAnswered, Workers
  <2> QED BY <1>0, <2>1, RecordTypes, WorkerFields, FieldTypes DEF StopAnswered
<1>2. stp' \in Stops /\ stp'.pc = "wait"
  BY <1>0, RecordTypes DEF StopAnswered, Stops
<1> QED BY <1>0, <1>1, <1>2, RecordTypes, StopSteady DEF procVars

(* A stop goes on to its cancel only after the death of the registered process. *)
LEMMA StopSeesDeathStep ==
  ASSUME OwnershipInv, StopSeesDeath
  PROVE  OwnershipInv'
<1>0. TypeOK /\ up /\ UNCHANGED <<procVars, w, disk, fin, stopRest>>
  BY DEF StopSeesDeath, OwnershipInv
<1>1. Same(w', w)
  BY <1>0, RecordTypes DEF Same
<1>2. ~Alive(stp.inc)
  BY DEF StopSeesDeath, Identity, PidExists
<1>3. stp' \in Stops /\ (stp'.pc = "cancel" => stp'.inc = w.inc /\ ~Alive(w.inc))
  <2>1. CASE ~StopStillApplies
    BY <2>1, IdleTypes DEF StopSeesDeath
  <2>2. CASE StopStillApplies
    <3>1. stp' = [stp EXCEPT !.pc = "cancel"] /\ w.inc = stp.inc
      BY <2>2 DEF StopSeesDeath, StopStillApplies
    <3>2. stp' \in Stops /\ stp'.inc = stp.inc
      BY <1>0, <3>1, RecordTypes DEF Stops
    <3> QED BY <1>2, <3>1, <3>2
  <2> QED BY <2>1, <2>2
<1> QED BY <1>0, <1>1, <1>3, RecordTypes, StopSteady DEF procVars

(* The deadline of a stop: a kill of the process it is sure of, or a finalizer. *)
LEMMA StopDeadlineStep ==
  ASSUME OwnershipInv, StopDeadline
  PROVE  OwnershipInv'
<1>0. TypeOK /\ up /\ UNCHANGED stopRest
  BY DEF StopDeadline, OwnershipInv
<1>1. PICK id \in Identity(stp.inc, stp.known) \ {"gone", "replaced"} :
       \/ /\ stp.force /\ id = "current"
          /\ Killed(stp.inc)
          /\ UNCHANGED <<w, disk, stp, fin>>
       \/ /\ ~(stp.force /\ id = "current")
          /\ w' = [w EXCEPT !.intent = w.stop]
          /\ stp' = NoStop
          /\ fin' = IF fin.pc # "off" THEN fin
                    ELSE [pc |-> "wait", inc |-> w.inc, known |-> w.known, rev |-> w.rev]
          /\ UNCHANGED <<procVars, disk>>
  BY DEF StopDeadline
<1>2. CASE Killed(stp.inc) /\ UNCHANGED <<w, disk, stp, fin>> /\ id = "current"
  <2>1. Alive(stp.inc) /\ stp.inc \in Inc
    <3>1. stp.inc \in 0 .. MaxInc
      BY <1>0, RecordTypes DEF Stops
    <3>2. Alive(stp.inc)
      BY <1>2 DEF Identity, PidExists
    <3> QED BY <3>1, <3>2, WorkerRecoveryAssumption DEF Alive, Inc
  <2>2. Same(w', w)
    BY <1>0, <1>2, RecordTypes DEF Same
  <2> QED BY <1>0, <1>2, <2>1, <2>2, RecordTypes, StopSteady
<1>3. CASE /\ w' = [w EXCEPT !.intent = w.stop] /\ stp' = NoStop
           /\ fin' = IF fin.pc # "off" THEN fin
                     ELSE [pc |-> "wait", inc |-> w.inc, known |-> w.known, rev |-> w.rev]
           /\ UNCHANGED <<procVars, disk>>
  <2>1. Same(w', w) /\ w'.client = w.client
    <3>1. w'.client = w.client
      BY <1>0, <1>3, RecordTypes DEF Workers
    <3> QED BY <1>0, <1>3, <3>1, RecordTypes, WorkerFields, FieldTypes
  <2>2. fin' \in Finalizers
    <3>1. [pc |-> "wait", inc |-> w.inc, known |-> w.known, rev |-> w.rev] \in Finalizers
      BY <1>0, RecordTypes, FieldTypes DEF Finalizers
    <3> QED BY <1>0, <1>3, <3>1, RecordTypes
  <2> QED BY <1>0, <1>3, <2>1, <2>2, RecordTypes, IdleTypes, StopSteady DEF procVars
<1> QED BY <1>1, <1>2, <1>3

(* The worker leaves the map when its process is dead. *)
LEMMA StopDeletesStep ==
  ASSUME OwnershipInv, StopDeletes
  PROVE  OwnershipInv'
<1>0. /\ TypeOK /\ up /\ UNCHANGED <<stopRest, fin, proc, recycled, asked, saved, busy, owed, latest>>
      /\ stp' = NoStop /\ (~SlowCancel => stp.inc = w.inc /\ ~Alive(w.inc))
      /\ lost' \subseteq saved /\ (disk' = disk \/ disk' = [disk EXCEPT !.on = FALSE])
  BY DEF StopDeletes, OwnershipInv, StillDead, TypeOK
<1>1. w' \in Workers /\ w'.inc = w.inc /\ w'.reg = FALSE /\ w'.client = w.client
  <2>1. w'.client = w.client
    BY <1>0, RecordTypes DEF StopDeletes, Workers
  <2> QED BY <1>0, <2>1, RecordTypes, WorkerFields DEF StopDeletes
<1>2. disk' \in Descriptors /\ disk'.inc = disk.inc /\ (disk' = disk \/ ~disk'.on)
  BY <1>0, RecordTypes DEF Descriptors
<1>3. TypeOK'
  BY <1>0, <1>1, <1>2, IdleTypes DEF TypeOK, Serving, Alive, stopRest
<1>4. Steady
  BY <1>0, <1>1, <1>2, IdleTypes DEF Steady, stopRest, OwnershipInv, SpawnedInOrder
<1> QED BY <1>3, <1>4, SteadyStep

(* The cancel of a tombstone: no process is registered under it. *)
LEMMA CancelRetriedStep ==
  ASSUME OwnershipInv, CancelRetried
  PROVE  OwnershipInv'
<1>0. /\ TypeOK /\ up /\ UNCHANGED <<stopRest, fin, stp, w, proc, recycled, asked, saved, busy, owed, latest>>
      /\ ~w.reg /\ lost' \subseteq saved /\ disk' = [disk EXCEPT !.on = FALSE]
  BY DEF CancelRetried, OwnershipInv, TypeOK
<1>1. disk' \in Descriptors /\ disk'.inc = disk.inc /\ ~disk'.on
  BY <1>0, RecordTypes DEF Descriptors
<1>2. TypeOK'
  BY <1>0, <1>1 DEF TypeOK, Serving, Alive, stopRest
<1>3. Steady
  BY <1>0, <1>1 DEF Steady, stopRest, OwnershipInv, SpawnedInOrder
<1> QED BY <1>2, <1>3, SteadyStep

(* A turn of finalizeTimedOutWorkerStop. *)
LEMMA FinalizeStep ==
  ASSUME OwnershipInv, Finalize
  PROVE  OwnershipInv'
<1>0. TypeOK /\ up /\ UNCHANGED <<w, disk, stp, stopRest>>
  BY DEF Finalize, OwnershipInv
<1>1. Same(w', w)
  BY <1>0, RecordTypes DEF Same
<1>2. [fin EXCEPT !.pc = "stop"] \in Finalizers
  BY <1>0, RecordTypes DEF Finalizers
<1>3. CASE UNCHANGED procVars /\ (fin' = NoFin \/ fin' = [fin EXCEPT !.pc = "stop"])
  <2>1. fin' \in Finalizers
    BY <1>2, <1>3, IdleTypes
  <2> QED BY <1>0, <1>1, <1>3, <2>1, RecordTypes, StopSteady DEF procVars
<1>4. CASE Killed(fin.inc) /\ UNCHANGED fin /\ "current" \in Identity(fin.inc, fin.known)
  <2>1. fin.inc \in 0 .. MaxInc
    BY <1>0, RecordTypes DEF Finalizers
  <2>2. Alive(fin.inc) /\ fin.inc \in Inc
    BY <1>4, <2>1, WorkerRecoveryAssumption DEF Alive, Inc, Identity, PidExists
  <2> QED BY <1>0, <1>1, <1>4, <2>2, RecordTypes, StopSteady
<1> QED BY <1>3, <1>4 DEF Finalize

(* The stop that a finalizer makes. *)
LEMMA FinalStopStep ==
  ASSUME OwnershipInv, FinalStop
  PROVE  OwnershipInv'
<1>0. TypeOK /\ up /\ UNCHANGED stopRest
  BY DEF FinalStop, OwnershipInv
<1>1. Same(w, w) /\ w \in Workers
  BY <1>0, RecordTypes DEF Same
<1>2. CASE w.reg /\ BeginStop(w, TRUE) /\ UNCHANGED fin
  <2>1. w.inc # 0
    BY <1>2 DEF OwnershipInv, SpawnedInOrder
  <2> QED BY <1>0, <1>1, <1>2, <2>1, RecordTypes, BeginStopStep DEF stopRest
<1>3. CASE fin' = NoFin /\ UNCHANGED <<procVars, w, disk, stp>>
  BY <1>0, <1>1, <1>3, RecordTypes, IdleTypes, StopSteady DEF procVars
<1> QED BY <1>2, <1>3 DEF FinalStop

-----------------------------------------------------------------------------
(* Clients, and the supervisor's own life *)

(* Rescinding a stop keeps process and registration. *)
LEMMA RescindedSame ==
  ASSUME NEW x \in Workers
  PROVE  Same(Rescinded(x), x)
<1> DEFINE a == [x EXCEPT !.intent = FALSE]
           b == [a EXCEPT !.stop = FALSE]
           c == [b EXCEPT !.life = "recovering"]
           d == [c EXCEPT !.rounds = 0]
<1>1. Same(a, x)
  BY WorkerFields
<1> HIDE DEF a
<1>2. Same(b, x)
  BY <1>1, WorkerFields DEF Same
<1> HIDE DEF b
<1>3. Same(c, x)
  BY <1>2, WorkerFields DEF Same, Lives
<1> HIDE DEF c
<1>4. Same(d, x)
  BY <1>3, WorkerFields DEF Same
<1> QED BY <1>4 DEF Rescinded, a, b, c

(* attach and retry_worker. *)
LEMMA ClientStep ==
  ASSUME OwnershipInv, Attach \/ RetryWorker
  PROVE  OwnershipInv'
<1>0. TypeOK /\ up /\ w.reg /\ UNCHANGED <<procVars, up, adopt, closing, defer, stp, fin>>
  BY DEF Attach, RetryWorker, OwnershipInv
<1> DEFINE e == [w EXCEPT !.env = TRUE]
<1>1. Same(e, w) /\ Same(Rescinded(w), w)
  BY <1>0, RecordTypes, WorkerFields, RescindedSame
<1>2. Recover(Rescinded(e)) \/ Recover(Rescinded(w))
  BY DEF Attach, RetryWorker
<1> HIDE DEF e
<1>3. Same(Rescinded(e), w)
  BY <1>1, RescindedSame DEF Same
<1>4. w.inc # 0
  BY <1>0 DEF OwnershipInv, SpawnedInOrder
<1> QED BY <1>0, <1>1, <1>2, <1>3, <1>4, RecordTypes, RecoverStep DEF Same

(* A crash closes every gate; what runs on is on disk. *)
LEMMA SupCrashStep ==
  ASSUME OwnershipInv, SupCrash
  PROVE  OwnershipInv'
<1>0. /\ TypeOK /\ up /\ up' = FALSE /\ w' = NoWorker /\ rec' = NoRec /\ stp' = NoStop /\ fin' = NoFin
      /\ adopt' = FALSE /\ closing' = FALSE /\ defer' = FALSE
      /\ UNCHANGED <<recycled, saved, busy, owed, journal, latest, lost, disk>>
      /\ proc' = [k \in Inc |-> IF proc[k] = "gated" THEN "dead" ELSE proc[k]]
      /\ asked' = {k \in asked : proc[k] = "up"}
  BY DEF SupCrash, OwnershipInv
<1>1. TypeOK'
  BY <1>0, IdleTypes DEF TypeOK, Serving, Alive
<1>2. Spawned' = Spawned /\ NextInc' = NextInc
  <2>1. Spawned' = Spawned
    BY <1>0 DEF Spawned, TypeOK
  <2> QED BY <2>1, SameCount
<1>3. SpawnedInOrder'
  BY <1>0, <1>2, IdleTypes DEF OwnershipInv, SpawnedInOrder
<1>4. LiveIsOwned'
  <2> SUFFICES ASSUME NEW k \in Inc, Alive(k)'
               PROVE  proc'[k] = "up" /\ (disk'.on => disk'.inc = k) /\ (~SlowCancel => disk'.on)
    BY <1>0 DEF LiveIsOwned
  <2>1. proc[k] = "up" /\ Alive(k) /\ proc'[k] = "up"
    BY <1>0 DEF Alive
  <2>2. w.inc \in {0, k} /\ (~SlowCancel => w.reg)
    BY <1>0, <2>1 DEF OwnershipInv, LiveIsOwned
  <2>3. disk.inc # 0
    BY <1>0, RecordTypes, WorkerRecoveryAssumption DEF Descriptors, Inc
  <2> QED BY <1>0, <2>1, <2>2, <2>3 DEF OwnershipInv, RegisteredIsOnDisk
<1>5. RegisteredIsOnDisk' /\ StillDead'
  BY <1>0, IdleTypes DEF RegisteredIsOnDisk, StillDead
<1> QED BY <1>1, <1>3, <1>4, <1>5 DEF OwnershipInv

(* A new supervisor registers the process that is on disk. *)
LEMMA SupStartStep ==
  ASSUME OwnershipInv, SupStart
  PROVE  OwnershipInv'
<1>0. /\ TypeOK /\ ~up /\ up' = TRUE /\ w = NoWorker /\ rec = NoRec /\ stp = NoStop
      /\ UNCHANGED <<procVars, disk, closing, rec, defer, stp, fin>>
  BY DEF SupStart, OwnershipInv, TypeOK
<1>1. /\ w' \in Workers /\ adopt' \in BOOLEAN
      /\ \/ disk.on /\ w'.inc = disk.inc /\ w'.reg = TRUE
         \/ ~disk.on /\ w' = w /\ adopt' = adopt
  <2>1. CASE ~disk.on
    BY <1>0, <2>1, RecordTypes DEF SupStart
  <2>2. CASE disk.on
    <3>1. disk.inc \in 0 .. MaxInc /\ disk.known \in BOOLEAN /\ disk.stop \in BOOLEAN
      BY <1>0, RecordTypes DEF Descriptors, Inc
    <3> DEFINE i == disk.inc
               n == disk.known
               t == disk.stop
               a == [NoWorker EXCEPT !.reg = TRUE]
               b == [a EXCEPT !.inc = i]
               c == [b EXCEPT !.known = n]
               d == [c EXCEPT !.stop = t]
               e == [d EXCEPT !.intent = t]
               f == [e EXCEPT !.life = "recovering"]
    <3>2. w' = f /\ adopt' = TRUE
      BY <2>2 DEF SupStart
    <3>3. i \in 0 .. MaxInc /\ n \in BOOLEAN /\ t \in BOOLEAN
      BY <3>1
    <3> HIDE DEF i, n, t
    <3>4. a \in Workers /\ a.reg = TRUE
      BY IdleTypes, WorkerFields
    <3> HIDE DEF a
    <3>5. b \in Workers /\ b.reg = TRUE /\ b.inc = i
      BY <3>3, <3>4, WorkerFields
    <3> HIDE DEF b
    <3>6. c \in Workers /\ c.reg = TRUE /\ c.inc = i
      BY <3>3, <3>5, WorkerFields DEF Same
    <3> HIDE DEF c
    <3>7. d \in Workers /\ d.reg = TRUE /\ d.inc = i
      BY <3>3, <3>6, WorkerFields DEF Same
    <3> HIDE DEF d
    <3>8. e \in Workers /\ e.reg = TRUE /\ e.inc = i
      BY <3>3, <3>7, WorkerFields DEF Same
    <3> HIDE DEF e
    <3>9. f \in Workers /\ f.reg = TRUE /\ f.inc = i
      BY <3>8, WorkerFields DEF Same, Lives
    <3> HIDE DEF f
    <3> QED BY <2>2, <3>2, <3>9 DEF i
  <2> QED BY <2>1, <2>2
<1>2. Spawned' = Spawned /\ NextInc' = NextInc
  BY <1>0, SameCount DEF Spawned, procVars
<1>3. TypeOK'
  BY <1>0, <1>1 DEF TypeOK, Serving, Alive, procVars
<1>4. SpawnedInOrder'
  <2>1. disk.inc # 0
    BY <1>0, RecordTypes DEF Descriptors, Inc
  <2> QED BY <1>0, <1>1, <1>2, <2>1 DEF OwnershipInv, SpawnedInOrder
<1>5. LiveIsOwned'
  BY <1>0, <1>1, IdleTypes DEF OwnershipInv, LiveIsOwned, Alive, procVars
<1>6. RegisteredIsOnDisk' /\ StillDead'
  BY <1>0, <1>1, IdleTypes DEF RegisteredIsOnDisk, StillDead
<1> QED BY <1>3, <1>4, <1>5, <1>6 DEF OwnershipInv

(* Adoption of a worker under a tombstone. *)
LEMMA AdoptStoppedStep ==
  ASSUME OwnershipInv, AdoptStopped
  PROVE  OwnershipInv'
<1>0. TypeOK /\ up /\ adopt /\ adopt' = FALSE /\ UNCHANGED <<up, closing, rec, defer, fin>>
  BY DEF AdoptStopped, OwnershipInv
<1> DEFINE c == [w EXCEPT !.client = w.inc]
           k == [c EXCEPT !.known = TRUE]
<1>1. BeginStop(w, TRUE) \/ BeginStop(k, TRUE)
  BY DEF AdoptStopped
<1>2. Same(c, w)
  BY <1>0, RecordTypes, WorkerFields, FieldTypes
<1>3. Same(w, w) /\ w \in Workers
  BY <1>0, RecordTypes DEF Same
<1> HIDE DEF c
<1>4. Same(k, w) /\ k \in Workers
  BY <1>2, WorkerFields DEF Same
<1> HIDE DEF k
<1>5. w.inc # 0
  BY <1>0 DEF OwnershipInv, SpawnedInOrder
<1> QED BY <1>0, <1>1, <1>3, <1>4, <1>5, RecordTypes, BeginStopStep

(* Adoption of a worker that answers. *)
LEMMA AdoptConnectsStep ==
  ASSUME OwnershipInv, AdoptConnects
  PROVE  OwnershipInv'
<1>0. TypeOK /\ up /\ adopt /\ adopt' = FALSE /\ UNCHANGED <<procVars, up, closing, rec, defer, stp, fin>>
  BY DEF AdoptConnects, OwnershipInv
<1> DEFINE c == [w EXCEPT !.client = w.inc]
           k == [c EXCEPT !.known = TRUE]
           r == [k EXCEPT !.life = "ready"]
<1>1. Persist(r)
  BY DEF AdoptConnects
<1>2. Same(c, w)
  BY <1>0, RecordTypes, WorkerFields, FieldTypes
<1> HIDE DEF c
<1>3. Same(k, w)
  BY <1>2, WorkerFields DEF Same
<1> HIDE DEF k
<1>4. Same(r, w)
  BY <1>3, WorkerFields DEF Same, Lives
<1> HIDE DEF r
<1>5. w.inc # 0
  BY <1>0 DEF OwnershipInv, SpawnedInOrder
<1>6. Same(w', w) /\ disk' \in Descriptors /\ disk'.on /\ disk'.inc = w.inc
  BY <1>1, <1>4, <1>5, PersistEffect DEF Same
<1>7. TypeOK'
  BY <1>0, <1>6, RecordTypes, SupervisorTypes DEF procVars, Same
<1>8. Steady
  BY <1>0, <1>5, <1>6 DEF Steady, procVars, Same
<1> QED BY <1>7, <1>8, SteadyStep

(* Adoption of a worker that does not answer. *)
LEMMA AdoptFailsStep ==
  ASSUME OwnershipInv, AdoptFails
  PROVE  OwnershipInv'
<1>0. TypeOK /\ up /\ adopt /\ adopt' = FALSE /\ UNCHANGED <<procVars, up, closing, defer, stp, fin>>
  BY DEF AdoptFails, OwnershipInv
<1>1. Same(w, w) /\ w \in Workers /\ w.inc # 0 /\ Recover(w)
  BY <1>0, RecordTypes DEF Same, AdoptFails, OwnershipInv, SpawnedInOrder
<1> QED BY <1>0, <1>1, RecordTypes, RecoverStep

-----------------------------------------------------------------------------
(* The initial state satisfies OwnershipInv: one worker, registered, ready. *)
LEMMA OwnershipInit ==
  ASSUME Init
  PROVE  OwnershipInv
<1> USE WorkerRecoveryAssumption
<1>1. 1 \in Inc /\ 1 \in 0 .. MaxInc
  BY DEF Inc
<1>2. w \in Workers /\ w.inc = 1 /\ w.reg = TRUE
  <2> DEFINE a == [NoWorker EXCEPT !.reg = TRUE]
             b == [a EXCEPT !.inc = 1]
             c == [b EXCEPT !.known = TRUE]
             d == [c EXCEPT !.life = "ready"]
             e == [d EXCEPT !.client = 1]
             f == [e EXCEPT !.env = TRUE]
  <2>1. w = f
    BY DEF Init
  <2>2. a \in Workers /\ a.reg = TRUE
    BY IdleTypes, WorkerFields
  <2> HIDE DEF a
  <2>3. b \in Workers /\ b.reg = TRUE /\ b.inc = 1
    BY <1>1, <2>2, WorkerFields
  <2> HIDE DEF b
  <2>4. c \in Workers /\ c.reg = TRUE /\ c.inc = 1
    BY <2>3, WorkerFields DEF Same
  <2> HIDE DEF c
  <2>5. d \in Workers /\ d.reg = TRUE /\ d.inc = 1
    BY <2>4, WorkerFields DEF Same, Lives
  <2> HIDE DEF d
  <2>6. e \in Workers /\ e.reg = TRUE /\ e.inc = 1
    BY <1>1, <2>5, WorkerFields DEF Same
  <2> HIDE DEF e
  <2>7. f \in Workers /\ f.reg = TRUE /\ f.inc = 1
    BY <2>6, WorkerFields DEF Same
  <2> HIDE DEF f
  <2> QED BY <2>1, <2>7
<1>3. disk \in Descriptors /\ disk.on = TRUE /\ disk.inc = 1
  BY <1>1 DEF Init, Descriptors
<1>4. /\ proc = [k \in Inc |-> IF k = 1 THEN "up" ELSE "none"]
      /\ recycled = {} /\ asked = {} /\ busy = {} /\ owed = {} /\ lost = {} /\ saved \subseteq Sessions
      /\ latest = [s \in Sessions |-> FALSE] /\ up = TRUE
      /\ adopt = FALSE /\ closing = FALSE /\ rec = NoRec /\ defer = FALSE /\ stp = NoStop /\ fin = NoFin
  BY DEF Init
<1>5. TypeOK
  BY <1>2, <1>3, <1>4, IdleTypes DEF TypeOK, Serving, Alive
<1>6. Spawned = 1 .. 1
  BY <1>1, <1>4 DEF Spawned, Inc
<1>7. SpawnedInOrder
  BY <1>1, <1>2, <1>3, <1>6 DEF SpawnedInOrder
<1>8. LiveIsOwned /\ RegisteredIsOnDisk /\ StillDead
  BY <1>2, <1>3, <1>4, IdleTypes DEF LiveIsOwned, RegisteredIsOnDisk, StillDead, Alive
<1> QED BY <1>5, <1>7, <1>8 DEF OwnershipInv

(* Every step preserves OwnershipInv. *)
LEMMA OwnershipNext ==
  ASSUME OwnershipInv, [Next]_vars
  PROVE  OwnershipInv'
<1>1. CASE WorkerStep
  BY <1>1, WorkStep, DieStep, ExitStep, RecycleStep DEF WorkerStep
<1>2. CASE Recovery
  BY <1>2, CloseStep, CloseCheckedStep, AttemptStep, ConnectStep, SubscribedStep, ReadyStep,
     DeferredRoundStep, ReadJournalStep, MarkInterruptedStep, HoldStep, SpawnStep, AssignStep,
     CommitGateStep, GreetStep, CreatedStep, CheckFailsStep DEF Recovery
<1>3. CASE Stopping
  BY <1>3, StopStarts, StopAnsweredStep, StopSeesDeathStep, StopDeadlineStep, StopDeletesStep,
     CancelRetriedStep, FinalizeStep, FinalStopStep DEF Stopping
<1>4. CASE Clients
  BY <1>4, ClientStep DEF Clients
<1>5. CASE Supervisor
  BY <1>5, SupCrashStep, SupStartStep, AdoptStoppedStep, AdoptConnectsStep, AdoptFailsStep
     DEF Supervisor
<1>6. CASE UNCHANGED vars
  <2>1. UNCHANGED <<procVars, supVars>>
    BY <1>6 DEF vars
  <2>2. TypeOK'
    BY <2>1 DEF procVars, supVars, OwnershipInv, TypeOK, Serving, Alive
  <2>3. SpawnedInOrder' /\ RegisteredIsOnDisk'
    BY <2>1 DEF procVars, supVars, OwnershipInv, SpawnedInOrder, RegisteredIsOnDisk, Spawned
  <2>4. LiveIsOwned' /\ StillDead'
    BY <2>1 DEF procVars, supVars, OwnershipInv, LiveIsOwned, StillDead, Serving, Alive, Spawned, NextInc
  <2> QED BY <2>2, <2>3, <2>4 DEF OwnershipInv
<1> QED BY <1>1, <1>2, <1>3, <1>4, <1>5, <1>6 DEF Next

(* The inductive invariant of the ownership of a worker process. *)
THEOREM OwnershipInvariance == Spec => []OwnershipInv
<1>1. Init => OwnershipInv
  BY OwnershipInit
<1>2. OwnershipInv /\ [Next]_vars => OwnershipInv'
  BY OwnershipNext
<1> QED BY <1>1, <1>2, PTL DEF Spec

(* The state stays of the declared types. *)
THEOREM WorkerTypes == Spec => []TypeOK
BY OwnershipInvariance, PTL DEF OwnershipInv

(* No worker serves from the cleanup of its predecessor to its own gate. *)
LEMMA NoneServes ==
  ASSUME OwnershipInv, rec.pc \in {"read", "mark", "hold", "launch", "assign", "commit"}
  PROVE  Serving = {}
<1>1. up
  BY IdleTypes DEF OwnershipInv, TypeOK
<1>2. \A k \in Inc : proc[k] # "up"
  <2> SUFFICES ASSUME NEW k \in Inc, proc[k] = "up"
               PROVE  FALSE
    OBVIOUS
  <2>1. Alive(k)
    BY WorkerRecoveryAssumption DEF Alive, Inc
  <2>2. w.inc # 0
    BY DEF OwnershipInv, SpawnedInOrder
  <2> QED BY <1>1, <2>1, <2>2 DEF OwnershipInv, LiveIsOwned, StillDead, Serving
<1> QED BY <1>2 DEF Serving

(* At most one worker serves. *)
LEMMA OneServes ==
  ASSUME ~SlowCancel, OwnershipInv, NEW j \in Serving, NEW k \in Serving
  PROVE  j = k
<1>1. j \in Inc /\ Alive(j) /\ k \in Inc /\ Alive(k)
  BY WorkerRecoveryAssumption DEF Serving, Alive, Inc
<1> QED BY <1>1 DEF OwnershipInv, LiveIsOwned, SpawnedInOrder, Serving

(* recoverUncertainWorkerOperations runs only against a worker that is dead:
   what its comment demands, for every set of sessions and every bound. *)
THEOREM CleanupIsSafe == Spec => []CleanupOnlyWhenDead
<1>1. OwnershipInv => CleanupOnlyWhenDead
  BY NoneServes DEF CleanupOnlyWhenDead
<1> QED BY <1>1, OwnershipInvariance, PTL

(* A worker that serves is the one of the descriptor on disk and, under a
   supervisor, of a registered worker: stops and recoveries reach it. *)
THEOREM NoWorkerStrays ==
  ASSUME ~SlowCancel
  PROVE  Spec => []NoStray
<1>1. OwnershipInv => NoStray
  <2> SUFFICES ASSUME OwnershipInv, NEW k \in Serving
               PROVE  disk.on /\ disk.inc = k /\ (up => w.reg /\ w.inc = k)
    BY DEF NoStray
  <2>1. k \in Inc /\ Alive(k) /\ proc[k] = "up"
    BY WorkerRecoveryAssumption DEF Serving, Alive, Inc
  <2> QED BY <2>1 DEF OwnershipInv, LiveIsOwned, RegisteredIsOnDisk, SpawnedInOrder
<1> QED BY <1>1, OwnershipInvariance, PTL

-----------------------------------------------------------------------------
(* The recovery journal *)

(* A journal that was just rewritten names no session. *)
LEMMA BusyInNew ==
  NewFile \in Files /\ BusyIn(NewFile) = {}
<1>1. NewFile \in Files /\ NewFile.lines = << >> /\ NewFile.tail = Empty
  BY DEF NewFile, Files
<1>2. Parsed(NewFile) = << >>
  BY <1>1 DEF Parsed
<1> QED BY <1>1, <1>2 DEF BusyIn

(* A record that is appended counts for its session, and for no other. *)
LEMMA BusyInAppend ==
  ASSUME NEW f \in Files, NEW s \in Sessions, NEW b \in BOOLEAN
  PROVE  /\ AppendLine(f, [s |-> s, busy |-> b]) \in Files
         /\ BusyIn(AppendLine(f, [s |-> s, busy |-> b]))
              = IF b THEN BusyIn(f) \cup {s} ELSE BusyIn(f) \ {s}
<1> DEFINE r == [s |-> s, busy |-> b]
           g == AppendLine(f, r)
           p == f.lines
           q == Append(p, r)
           last(l, t) == {i \in 1 .. Len(l) : /\ l[i] # Broken /\ l[i].s = t
                              /\ \A j \in i + 1 .. Len(l) : l[j] = Broken \/ l[j].s # t}
<1>1. r \in Records /\ r # Broken /\ r.s = s /\ r.busy = b
  BY RecordsAssumption DEF Records
<1>2. p \in Seq(Records) /\ f.tail = Empty
  BY DEF Files
<1>3. g = [lines |-> q, tail |-> Empty]
  BY <1>2 DEF AppendLine
<1> HIDE DEF r
<1>4. q \in Seq(Records) /\ Len(q) = Len(p) + 1 /\ q[Len(p) + 1] = r /\ Len(p) \in Nat
      /\ \A i \in 1 .. Len(p) : q[i] = p[i]
  BY <1>1, <1>2
<1>5. Parsed(f) = p /\ Parsed(g) = q /\ g \in Files
  BY <1>2, <1>3, <1>4 DEF Parsed, Files
<1>6. /\ BusyIn(f) = {t \in Sessions : \E i \in last(p, t) : p[i].busy}
      /\ BusyIn(g) = {t \in Sessions : \E i \in last(q, t) : q[i].busy}
  BY <1>5 DEF BusyIn
<1>7. last(q, s) = {Len(p) + 1}
  BY <1>1, <1>4
<1>8. ASSUME NEW t \in Sessions, t # s
      PROVE  last(q, t) = last(p, t)
  BY <1>1, <1>4, <1>8
<1> HIDE DEF p, q, g, last
<1>9. s \in BusyIn(g) <=> b
  BY <1>1, <1>4, <1>6, <1>7
<1>10. ASSUME NEW t \in Sessions, t # s
       PROVE  t \in BusyIn(g) <=> t \in BusyIn(f)
  <2>1. \A i \in last(p, t) : q[i] = p[i]
    BY <1>4 DEF last
  <2> QED BY <1>6, <1>8, <1>10, <2>1
<1>11. BusyIn(f) \subseteq Sessions /\ BusyIn(g) \subseteq Sessions
  BY <1>6
<1>12. BusyIn(g) = IF b THEN BusyIn(f) \cup {s} ELSE BusyIn(f) \ {s}
  BY <1>9, <1>10, <1>11
<1> QED BY <1>5, <1>12 DEF g, r

(* Recoveries that are not between the reading of the journal and the gate *)
Elsewhere == {"off", "delay", "connect", "subscribed", "verified", "read", "greet", "created",
              "launched"}

(* A step that leaves the work and the journal alone preserves JournalTells. *)
LEMMA JournalKept ==
  ASSUME JournalTells, UNCHANGED <<owed, journal, latest, lost>>, Serving' \subseteq Serving,
         \/ rec' = rec
         \/ rec'.pc \in Elsewhere
         \/ rec.pc = "launch" /\ rec'.pc = "assign"
         \/ rec.pc = "assign" /\ rec'.pc = "commit"
  PROVE  JournalTells'
<1>1. journal' \in Files
  BY DEF JournalTells
<1>2. BusyIn(journal)' = BusyIn(journal)
  BY DEF BusyIn
<1> QED BY <1>1, <1>2 DEF JournalTells, Elsewhere

(* The death of a worker: its accepted work is in the journal. *)
LEMMA JournalKilled ==
  ASSUME ~SlowCancel, OwnershipInv, JournalTells, NEW k \in Inc, Killed(k),
         rec' = rec \/ rec'.pc \in Elsewhere
  PROVE  JournalTells'
<1>0. BusyIn(journal)' = BusyIn(journal) /\ UNCHANGED <<journal, latest>>
  BY DEF Killed, BusyIn
<1>1. CASE proc[k] # "up"
  <2>1. Serving' \subseteq Serving
    BY DEF Killed, Serving, OwnershipInv, TypeOK
  <2> QED BY <1>1, <2>1, JournalKept DEF Killed
<1>2. CASE proc[k] = "up"
  <2>1. k \in Serving
    BY <1>2 DEF Serving
  <2>2. Serving' = {}
    BY <2>1, OneServes DEF Killed, Serving, OwnershipInv, TypeOK
  <2>3. rec.pc \notin {"mark", "hold", "launch", "assign", "commit"}
    BY <2>1, NoneServes
  <2>4. lost' \subseteq BusyIn(journal)
    BY <1>2, <2>1 DEF Killed, JournalTells
  <2> QED BY <1>0, <2>2, <2>3, <2>4 DEF JournalTells, Elsewhere
<1> QED BY <1>1, <1>2

(* WorkerRecoveryJournal.record: the file and the worker's copy of it agree. *)
LEMMA RecordEffect ==
  ASSUME ~CutWrites, TypeOK, NEW s \in Sessions, NEW b \in BOOLEAN, Record(s, b),
         journal \in Files, \A t \in Sessions : latest[t] = (t \in BusyIn(journal))
  PROVE  /\ journal' \in Files
         /\ \A t \in Sessions : latest'[t] = (t \in BusyIn(journal)')
         /\ BusyIn(journal)' = IF b THEN BusyIn(journal) \cup {s} ELSE BusyIn(journal) \ {s}
<1> DEFINE B == BusyIn(journal)
<1>0. B \subseteq Sessions /\ BusyIn(journal)' = BusyIn(journal')
  BY DEF BusyIn
<1>1. CASE latest[s] = b /\ UNCHANGED <<journal, latest>>
  <2>1. BusyIn(journal') = B
    BY <1>1
  <2>2. (s \in B) = b
    BY <1>1
  <2>3. B = IF b THEN B \cup {s} ELSE B \ {s}
    BY <2>2
  <2> QED BY <1>0, <1>1, <2>1, <2>3
<1>2. CASE /\ latest' = [latest EXCEPT ![s] = b]
           /\ IF \E t \in Sessions : latest'[t] THEN journal' \in Appends(journal, s, b)
              ELSE journal' = NewFile
  <2> DEFINE C == IF b THEN B \cup {s} ELSE B \ {s}
  <2>1. \A t \in Sessions : latest'[t] = (t \in C)
    <3>1. latest'[s] = (s \in C)
      BY <1>2 DEF TypeOK
    <3>2. ASSUME NEW t \in Sessions, t # s
          PROVE  latest'[t] = (t \in C)
      BY <1>2, <3>2 DEF TypeOK
    <3> QED BY <3>1, <3>2
  <2>2. journal' \in Files /\ BusyIn(journal') = C
    <3>1. CASE \E t \in Sessions : latest'[t]
      <4>1. journal' = AppendLine(journal, [s |-> s, busy |-> b])
        BY <1>2, <3>1 DEF Appends
      <4> QED BY <4>1, BusyInAppend
    <3>2. CASE ~\E t \in Sessions : latest'[t]
      <4>1. journal' = NewFile
        BY <1>2, <3>2
      <4>2. C = {}
        BY <1>0, <2>1, <3>2
      <4> QED BY <4>1, <4>2, BusyInNew
    <3> QED BY <3>1, <3>2
  <2> HIDE DEF C
  <2>3. \A t \in Sessions : latest'[t] = (t \in BusyIn(journal)')
    BY <1>0, <2>1, <2>2
  <2> QED BY <1>0, <2>2, <2>3 DEF C
<1> QED BY <1>1, <1>2 DEF Record

(* The worker's steps on its work: what is accepted is recorded. *)
LEMMA JournalWork ==
  ASSUME ~SlowCancel, ~CutWrites, OwnershipInv, JournalTells, NEW s \in Sessions,
         Accept(s) \/ Begin(s) \/ Finish(s) \/ Reply(s) \/ Checkpoint(s)
  PROVE  JournalTells'
<1>0. /\ UNCHANGED <<proc, lost, rec>> /\ TypeOK /\ Serving # {} /\ lost = {} /\ journal \in Files
      /\ owed \subseteq BusyIn(journal) /\ owed \subseteq busy
      /\ \A t \in Sessions : latest[t] = (t \in BusyIn(journal))
  <2>1. Serving # {}
    BY DEF Accept, Begin, Finish, Reply, Checkpoint
  <2>2. UNCHANGED <<proc, lost, rec>>
    BY DEF Accept, Begin, Finish, Reply, Checkpoint, workerRest, supVars
  <2> QED BY <2>1, <2>2 DEF JournalTells, OwnershipInv, TypeOK
<1>1. Serving' = Serving
  BY <1>0 DEF Serving
<1>2. CASE Accept(s)
  <2>1. CASE UNCHANGED <<owed, journal, latest>>
    BY <1>0, <1>1, <2>1, JournalKept
  <2>2. CASE Record(s, TRUE) /\ owed' = owed \cup {s}
    <3>1. /\ journal' \in Files /\ BusyIn(journal)' = BusyIn(journal) \cup {s}
          /\ \A t \in Sessions : latest'[t] = (t \in BusyIn(journal)')
      BY <1>0, <2>2, RecordEffect
    <3> QED BY <1>0, <1>1, <2>2, <3>1 DEF JournalTells
  <2> QED BY <1>2, <2>1, <2>2 DEF Accept
<1>3. CASE Begin(s) \/ Reply(s)
  BY <1>0, <1>1, <1>3, JournalKept DEF Begin, Reply
<1>4. CASE Finish(s)
  <2>1. BusyIn(journal)' = BusyIn(journal) /\ UNCHANGED <<journal, latest>> /\ owed' \subseteq owed
    BY <1>4 DEF Finish, BusyIn
  <2> QED BY <1>0, <1>1, <2>1 DEF JournalTells
<1>5. CASE Checkpoint(s)
  <2> DEFINE b == s \in busy
  <2>0. b \in BOOLEAN /\ Record(s, b) /\ UNCHANGED owed
    BY <1>5 DEF Checkpoint
  <2>1. s \in owed => b
    BY <1>0
  <2> HIDE DEF b
  <2>2. /\ journal' \in Files
        /\ BusyIn(journal)' = IF b THEN BusyIn(journal) \cup {s} ELSE BusyIn(journal) \ {s}
        /\ \A t \in Sessions : latest'[t] = (t \in BusyIn(journal)')
    BY <1>0, <2>0, RecordEffect
  <2>3. owed' \subseteq BusyIn(journal)'
    BY <1>0, <2>0, <2>1, <2>2
  <2> QED BY <1>0, <1>1, <2>2, <2>3 DEF JournalTells
<1> QED BY <1>2, <1>3, <1>4, <1>5

(* A worker that exits has closed its sessions. *)
LEMMA JournalExit ==
  ASSUME ~SlowCancel, OwnershipInv, JournalTells, Exit
  PROVE  JournalTells'
<1>1. PICK k \in asked :
        /\ proc' = [proc EXCEPT ![k] = "dead"]
        /\ \/ /\ proc[k] = "up" /\ owed' = {}
              /\ latest' = [t \in Sessions |-> FALSE] /\ journal' \in {NewFile, journal}
           \/ proc[k] # "up" /\ UNCHANGED <<owed, latest, journal>>
  BY DEF Exit
<1>2. UNCHANGED <<lost, rec>> /\ k \in Inc
  BY DEF Exit, supVars, OwnershipInv, TypeOK
<1>3. CASE proc[k] # "up"
  <2>1. Serving' \subseteq Serving
    BY <1>1 DEF Serving, OwnershipInv, TypeOK
  <2> QED BY <1>1, <1>2, <1>3, <2>1, JournalKept
<1>4. CASE proc[k] = "up"
  <2>1. k \in Serving
    BY <1>2, <1>4 DEF Serving
  <2>2. Serving' = {}
    BY <1>1, <2>1, OneServes DEF Serving, OwnershipInv, TypeOK
  <2>3. lost = {} /\ journal' \in Files
    BY <1>1, <1>4, <2>1, BusyInNew DEF JournalTells
  <2> QED BY <1>2, <2>2, <2>3 DEF JournalTells
<1> QED BY <1>3, <1>4

(* Where the operators that end an attempt or begin a recovery leave rec *)
LEMMA RecAfter ==
  ASSUME NEW x, NEW d, NEW probe
  PROVE  /\ AttemptFails(x, d, probe) => rec'.pc \in Elsewhere
         /\ Recover(x) => rec' = rec \/ rec'.pc \in Elsewhere
<1>1. [NoRec EXCEPT !.pc = "delay", !.n = rec.n + 1].pc = "delay"
  BY DEF NoRec
<1>2. [NoRec EXCEPT !.pc = "delay", !.n = 1].pc = "delay"
  BY DEF NoRec
<1>3. AttemptFails(x, d, probe) =>
        rec' = NoRec \/ rec' = [NoRec EXCEPT !.pc = "delay", !.n = rec.n + 1]
  BY DEF AttemptFails
<1>4. Recover(x) => rec' = rec \/ rec' = [NoRec EXCEPT !.pc = "delay", !.n = 1]
  BY DEF Recover
<1>5. AttemptFails(x, d, probe) => rec'.pc \in Elsewhere
  BY <1>1, <1>3, IdleTypes DEF Elsewhere
<1>6. Recover(x) => rec' = rec \/ rec'.pc \in Elsewhere
  BY <1>2, <1>4 DEF Elsewhere
<1> QED BY <1>5, <1>6

(* A step of the recovery loop that leaves the work and the journal alone *)
LEMMA JournalLoop ==
  ASSUME ~SlowCancel, OwnershipInv, JournalTells,
         \/ Close \/ CloseChecked \/ Attempt \/ Connect \/ Subscribed \/ DeferredRound
  PROVE  JournalTells'
<1>1. UNCHANGED <<proc, owed, journal, latest, lost>>
  BY DEF Close, CloseChecked, Attempt, Connect, Subscribed, DeferredRound, procVars
<1>2. rec \in Recoveries
  BY RecordTypes DEF OwnershipInv
<1>3. rec' = rec \/ rec'.pc \in Elsewhere
  <2>1. CASE Close
    BY <2>1 DEF Close
  <2>2. CASE CloseChecked \/ DeferredRound
    BY <2>2, RecAfter DEF CloseChecked, DeferredRound
  <2>3. CASE Attempt
    <3>1. CASE AttemptFails(w, disk, TRUE)
      BY <3>1, RecAfter
    <3>2. CASE rec' = NoRec
      BY <3>2, IdleTypes DEF Elsewhere
    <3>3. CASE \E id \in Identity(w.inc, w.known) :
                 rec' = IF id \in {"current", "unknown"}
                        THEN [rec EXCEPT !.pc = "connect", !.probe = id # "current"]
                        ELSE [rec EXCEPT !.pc = "read", !.env = w.env]
      <4>1. PICK id \in Identity(w.inc, w.known) :
                 rec' = IF id \in {"current", "unknown"}
                        THEN [rec EXCEPT !.pc = "connect", !.probe = id # "current"]
                        ELSE [rec EXCEPT !.pc = "read", !.env = w.env]
        BY <3>3
      <4>2. [rec EXCEPT !.pc = "connect", !.probe = id # "current"].pc = "connect"
        BY <1>2 DEF Recoveries
      <4>3. [rec EXCEPT !.pc = "read", !.env = w.env].pc = "read"
        BY <1>2 DEF Recoveries
      <4> QED BY <4>1, <4>2, <4>3 DEF Elsewhere
    <3> QED BY <2>3, <3>1, <3>2, <3>3 DEF Attempt
  <2>4. CASE Connect
    <3>1. [rec EXCEPT !.pc = "subscribed"].pc = "subscribed"
      BY <1>2 DEF Recoveries
    <3>2. \/ rec' = [rec EXCEPT !.pc = "subscribed"]
          \/ \E x, d, probe : AttemptFails(x, d, probe)
      BY <2>4 DEF Connect, ProbeFails
    <3> QED BY <3>1, <3>2, RecAfter DEF Elsewhere
  <2>5. CASE Subscribed
    <3>1. [rec EXCEPT !.pc = "verified"].pc = "verified"
      BY <1>2 DEF Recoveries
    <3>2. \/ rec' = [rec EXCEPT !.pc = "verified"] \/ rec' = NoRec
          \/ \E x, d, probe : AttemptFails(x, d, probe)
      BY <2>5 DEF Subscribed, ProbeFails
    <3> QED BY <3>1, <3>2, RecAfter, IdleTypes DEF Elsewhere
  <2> QED BY <2>1, <2>2, <2>3, <2>4, <2>5
<1>4. Serving' = Serving
  BY <1>1 DEF Serving
<1> QED BY <1>1, <1>3, <1>4, JournalKept

(* The journal is read, the work it names is marked, and only then it is
   cleared. *)
LEMMA JournalCleanup ==
  ASSUME ~SlowCancel, OwnershipInv, JournalTells, ReadJournal \/ MarkInterrupted \/ Hold
  PROVE  JournalTells'
<1>1. rec \in Recoveries /\ UNCHANGED proc /\ Serving = {}
  <2>1. rec.pc \in {"read", "mark", "hold"} /\ UNCHANGED proc
    BY DEF ReadJournal, MarkInterrupted, Hold, procVars
  <2> QED BY <2>1, NoneServes, RecordTypes DEF OwnershipInv
<1>2. Serving' = {}
  BY <1>1 DEF Serving
<1>3. CASE ReadJournal
  <2> DEFINE m == [rec EXCEPT !.pc = "mark"]
             read == BusyIn(journal)
             mr == [m EXCEPT !.read = read]
  <2>0. "mark" \in Pcs /\ read \in SUBSET Sessions
    BY DEF Pcs, BusyIn
  <2>1. m \in Recoveries /\ m.pc = "mark" /\ read \in SUBSET Sessions
    BY <1>1, <2>0, RecoveryFields
  <2>2. rec' = NoRec \/ rec' = mr
    BY <1>3 DEF ReadJournal
  <2>3. UNCHANGED <<owed, journal, latest, lost>> /\ BusyIn(journal)' = BusyIn(journal)
    BY <1>3 DEF ReadJournal, procVars, BusyIn
  <2>4. lost \subseteq read
    BY DEF JournalTells
  <2> HIDE DEF m, read
  <2>5. mr.pc = "mark" /\ mr.read = read
    BY <2>1, RecoveryFields
  <2> HIDE DEF mr
  <2> QED BY <1>2, <2>2, <2>3, <2>4, <2>5, IdleTypes DEF JournalTells
<1>4. CASE MarkInterrupted
  <2>1. [rec EXCEPT !.pc = "hold"].pc = "hold"
    BY <1>1 DEF Recoveries
  <2>2. \/ rec' = NoRec /\ UNCHANGED lost
        \/ rec' = [rec EXCEPT !.pc = "hold"] /\ lost' = lost \ (rec.read \cap saved)
        \/ AttemptFails(w, disk, FALSE) /\ lost' \subseteq lost
    BY <1>4 DEF MarkInterrupted
  <2>3. rec.pc = "mark" /\ UNCHANGED journal /\ BusyIn(journal)' = BusyIn(journal)
    BY <1>4 DEF MarkInterrupted, BusyIn
  <2>4. \/ rec'.pc \in Elsewhere /\ lost' \subseteq lost
        \/ rec'.pc = "hold" /\ lost' = {}
    BY <2>1, <2>2, <2>3, RecAfter, IdleTypes DEF JournalTells, OwnershipInv, TypeOK, Elsewhere
  <2> QED BY <1>2, <2>3, <2>4 DEF JournalTells, Elsewhere
<1>5. CASE Hold
  <2>1. lost = {} /\ lost' = {} /\ journal' \in Files
    BY <1>5, BusyInNew DEF Hold, JournalTells
  <2>2. [rec EXCEPT !.pc = "launch"].pc = "launch"
    BY <1>1 DEF Recoveries
  <2>3. rec' = NoRec \/ rec' = [rec EXCEPT !.pc = "launch"]
    BY <1>5 DEF Hold
  <2>4. rec'.pc # "mark"
    BY <2>2, <2>3, IdleTypes
  <2> QED BY <1>2, <2>1, <2>4 DEF JournalTells
<1> QED BY <1>3, <1>4, <1>5

(* A launch: the new worker reads a journal whose work has been marked. *)
LEMMA JournalLaunch ==
  ASSUME ~SlowCancel, OwnershipInv, JournalTells,
         Spawn \/ Assign \/ CommitGate \/ Greet \/ Created \/ Ready \/ CheckFails
  PROVE  JournalTells'
<1>0. rec \in Recoveries /\ TypeOK
  BY RecordTypes DEF OwnershipInv
<1>1. CASE Spawn
  <2>1. UNCHANGED <<owed, journal, latest, lost>> /\ rec.pc = "launch"
    BY <1>1 DEF Spawn
  <2>2. Serving' \subseteq Serving
    BY <1>0, <1>1 DEF Spawn, Serving, TypeOK
  <2>3. [rec EXCEPT !.pc = "assign", !.rev = w.rev].pc = "assign"
    BY <1>0 DEF Recoveries
  <2>4. rec' = [rec EXCEPT !.pc = "assign", !.rev = w.rev] \/ AttemptFails(w, disk, FALSE)
    BY <1>1 DEF Spawn
  <2> QED BY <2>1, <2>2, <2>3, <2>4, RecAfter, JournalKept
<1>2. CASE Assign
  <2>1. UNCHANGED <<proc, owed, journal, latest, lost>> /\ rec.pc = "assign"
        /\ rec' = [rec EXCEPT !.pc = "commit"]
    BY <1>2 DEF Assign, procVars
  <2>2. rec'.pc = "commit" /\ Serving' = Serving
    BY <1>0, <2>1 DEF Recoveries, Serving
  <2> QED BY <2>1, <2>2, JournalKept
<1>3. CASE CommitGate
  <2>1. /\ rec.pc = "commit" /\ rec' = [rec EXCEPT !.pc = "greet"]
        /\ UNCHANGED <<owed, journal, lost>> /\ latest' = [s \in Sessions |-> s \in BusyIn(journal)]
    BY <1>3 DEF CommitGate
  <2>2. rec'.pc = "greet"
    BY <1>0, <2>1 DEF Recoveries
  <2>3. lost = {} /\ owed = {}
    BY <1>0, <2>1, NoneServes DEF JournalTells, TypeOK
  <2>4. BusyIn(journal)' = BusyIn(journal)
    BY <2>1 DEF BusyIn
  <2> QED BY <2>1, <2>2, <2>3, <2>4 DEF JournalTells
<1>4. ASSUME Killed(NextInc - 1) \/ UNCHANGED procVars,
             \/ \E x, d, probe : AttemptFails(x, d, probe)
             \/ rec' = [rec EXCEPT !.pc = "created"]
             \/ rec' = [rec EXCEPT !.pc = "launched"]
             \/ rec' = NoRec
      PROVE  JournalTells'
  <2>1. rec'.pc \in Elsewhere
    BY <1>0, <1>4, RecAfter, IdleTypes DEF Recoveries, Elsewhere
  <2>2. NextInc - 1 \in Inc
    BY SpawnCount DEF OwnershipInv, Spawned
  <2>3. CASE Killed(NextInc - 1)
    BY <2>1, <2>2, <2>3, JournalKilled
  <2>4. CASE UNCHANGED procVars
    <3>1. Serving' = Serving
      BY <2>4 DEF procVars, Serving
    <3> QED BY <2>1, <2>4, <3>1, JournalKept DEF procVars
  <2> QED BY <1>4, <2>3, <2>4
<1>5. LaunchFails => /\ Killed(NextInc - 1) \/ UNCHANGED procVars
                     /\ \E x, d, probe : AttemptFails(x, d, probe)
  BY DEF LaunchFails
<1>6. CASE Greet
  BY <1>4, <1>5, <1>6 DEF Greet
<1>7. CASE Created
  BY <1>4, <1>5, <1>7 DEF Created
<1>8. CASE Ready
  BY <1>4, <1>5, <1>8 DEF Ready
<1>9. CASE CheckFails
  BY <1>4, <1>9 DEF CheckFails, ProbeFails
<1> QED BY <1>1, <1>2, <1>3, <1>6, <1>7, <1>8, <1>9

(* A stop: the journal is cleared together with the work that nobody asks
   for any more, and a process that is killed leaves its work in it. *)
LEMMA JournalStops ==
  ASSUME ~SlowCancel, OwnershipInv, JournalTells, Stopping
  PROVE  JournalTells'
<1>0. UNCHANGED rec /\ TypeOK
  BY DEF Stopping, Stop, StopAnswered, StopSeesDeath, StopDeadline, StopDeletes, CancelRetried,
     Finalize, FinalStop, stopRest, OwnershipInv
<1>1. ASSUME UNCHANGED <<proc, owed, journal, latest, lost>>
      PROVE  JournalTells'
  <2>1. Serving' = Serving
    BY <1>1 DEF Serving
  <2> QED BY <1>0, <1>1, <2>1, JournalKept
<1>2. ASSUME NEW k \in 0 .. MaxInc, Killed(k), Alive(k)
      PROVE  JournalTells'
  BY <1>0, <1>2, JournalKilled, WorkerRecoveryAssumption DEF Alive, Inc
<1>3. ASSUME UNCHANGED proc, journal' = NewFile, lost' = {}, Serving = {}
      PROVE  JournalTells'
  <2>1. Serving' = {} /\ journal' \in Files
    BY <1>3, BusyInNew DEF Serving
  <2> QED BY <1>0, <1>3, <2>1 DEF JournalTells
<1>4. CASE Stop \/ StopAnswered \/ StopSeesDeath \/ FinalStop
  BY <1>1, <1>4 DEF Stop, StopAnswered, StopSeesDeath, FinalStop, BeginStop, procVars
<1>5. CASE StopDeadline
  <2>1. PICK id \in Identity(stp.inc, stp.known) \ {"gone", "replaced"} :
          (id = "current" /\ Killed(stp.inc)) \/ UNCHANGED procVars
    BY <1>5 DEF StopDeadline
  <2>2. id = "current" => Alive(stp.inc)
    BY DEF Identity, PidExists
  <2>3. stp.inc \in 0 .. MaxInc
    BY <1>0, RecordTypes DEF Stops
  <2> QED BY <1>1, <1>2, <2>1, <2>2, <2>3 DEF procVars
<1>6. CASE Finalize
  <2>1. UNCHANGED procVars \/ ("current" \in Identity(fin.inc, fin.known) /\ Killed(fin.inc))
    BY <1>6 DEF Finalize
  <2>2. "current" \in Identity(fin.inc, fin.known) => Alive(fin.inc)
    BY DEF Identity, PidExists
  <2>3. fin.inc \in 0 .. MaxInc
    BY <1>0, RecordTypes DEF Finalizers
  <2> QED BY <1>1, <1>2, <2>1, <2>2, <2>3 DEF procVars
<1>7. CASE StopDeletes \/ CancelRetried
  <2>1. Serving = {}
    <3>1. up /\ (~w.reg \/ ~Alive(w.inc))
      BY <1>7 DEF StopDeletes, CancelRetried, OwnershipInv, StillDead
    <3>2. \A k \in Inc : proc[k] # "up"
      <4> SUFFICES ASSUME NEW k \in Inc, proc[k] = "up"
                   PROVE  FALSE
        OBVIOUS
      <4>1. Alive(k)
        BY WorkerRecoveryAssumption DEF Alive, Inc
      <4> QED BY <3>1, <4>1 DEF OwnershipInv, LiveIsOwned, SpawnedInOrder
    <3> QED BY <3>2 DEF Serving
  <2>2. UNCHANGED <<proc, owed, latest>>
        /\ (UNCHANGED <<journal, lost>> \/ (journal' = NewFile /\ lost' = {}))
    BY <1>7 DEF StopDeletes, CancelRetried
  <2> QED BY <1>1, <1>3, <2>1, <2>2
<1> QED BY <1>4, <1>5, <1>6, <1>7 DEF Stopping

(* The journal starts out empty, with no work. *)
LEMMA JournalInit ==
  ASSUME Init
  PROVE  JournalTells
<1>1. /\ journal = NewFile /\ latest = [s \in Sessions |-> FALSE] /\ owed = {} /\ lost = {}
      /\ rec = NoRec
  BY DEF Init
<1>2. BusyIn(journal) = {} /\ journal \in Files /\ rec.pc = "off"
  BY <1>1, BusyInNew, IdleTypes
<1>3. ASSUME NEW s \in Sessions
      PROVE  latest[s] = (s \in BusyIn(journal))
  <2>1. latest[s] = FALSE
    BY <1>1
  <2>2. (s \in BusyIn(journal)) = FALSE
    BY <1>2
  <2> QED BY <2>1, <2>2
<1> QED BY <1>1, <1>2, <1>3 DEF JournalTells

(* Every step preserves JournalTells, when appends are whole. *)
LEMMA JournalNext ==
  ASSUME ~SlowCancel, ~CutWrites, OwnershipInv, JournalTells, [Next]_vars
  PROVE  JournalTells'
<1>1. CASE WorkerStep
  <2>1. CASE Die
    BY <2>1, JournalKilled DEF Die, Serving, supVars
  <2>2. CASE Recycle
    BY <2>2, JournalKept DEF Recycle, supVars, Serving
  <2> QED BY <1>1, <2>1, <2>2, JournalWork, JournalExit DEF WorkerStep
<1>2. CASE Recovery
  BY <1>2, JournalLoop, JournalCleanup, JournalLaunch DEF Recovery
<1>3. CASE Stopping
  BY <1>3, JournalStops
<1>4. CASE Clients
  <2>1. UNCHANGED procVars /\ \E x : Recover(x)
    BY <1>4 DEF Clients, Attach, RetryWorker
  <2>2. Serving' = Serving
    BY <2>1 DEF procVars, Serving
  <2> QED BY <2>1, <2>2, RecAfter, JournalKept DEF procVars
<1>5. CASE Supervisor
  <2>1. UNCHANGED <<owed, journal, latest, lost>>
    BY <1>5 DEF Supervisor, SupCrash, SupStart, AdoptStopped, AdoptConnects, AdoptFails,
       BeginStop, procVars
  <2>2. Serving' \subseteq Serving
    BY <1>5 DEF Supervisor, SupCrash, SupStart, AdoptStopped, AdoptConnects, AdoptFails,
       BeginStop, procVars, Serving
  <2>3. rec' = rec \/ rec' = NoRec \/ \E x : Recover(x)
    BY <1>5 DEF Supervisor, SupCrash, SupStart, AdoptStopped, AdoptConnects, AdoptFails
  <2>4. rec' = rec \/ rec'.pc \in Elsewhere
    BY <2>3, RecAfter, IdleTypes DEF Elsewhere
  <2> QED BY <2>1, <2>2, <2>4, JournalKept
<1>6. CASE UNCHANGED vars
  <2>1. UNCHANGED <<proc, owed, journal, latest, lost, rec>>
    BY <1>6 DEF vars, procVars, supVars
  <2> QED BY <2>1, JournalKept DEF Serving
<1> QED BY <1>1, <1>2, <1>3, <1>4, <1>5, <1>6 DEF Next

(* Work whose acceptance was recorded, in a session whose file holds a reply,
   has been marked there after a death cut it short by the time that a later
   worker serves the session, whatever the supervisor, its stops, its failing
   checks and marks, and its clients do, when appends are whole. *)
THEOREM NothingIsLostSilently ==
  ASSUME ~SlowCancel, ~CutWrites
  PROVE  Spec => []NoSilentLoss
<1>1. Init => OwnershipInv /\ JournalTells
  BY OwnershipInit, JournalInit
<1>2. OwnershipInv /\ JournalTells /\ [Next]_vars => (OwnershipInv /\ JournalTells)'
  BY OwnershipNext, JournalNext
<1>3. OwnershipInv /\ JournalTells => NoSilentLoss
  BY DEF JournalTells, NoSilentLoss
<1> QED BY <1>1, <1>2, <1>3, PTL DEF Spec
=============================================================================
