--------------------------- MODULE DurableReceipts ---------------------------
(***************************************************************************)
(* What the supervisor relies on its command journal for: a map from       *)
(* command keys to what is known of them, which changes by the three       *)
(* operations of the journal and by nothing else.  In particular nothing   *)
(* is forgotten in a crash, by a reload or by a compaction.                *)
(***************************************************************************)
CONSTANT Keys

VARIABLE known

Init == known = [k \in Keys |-> "none"]

Receive(k) == known[k] = "none" /\ known' = [known EXCEPT ![k] = "received"]
Answer(k) == known[k] = "received" /\ known' = [known EXCEPT ![k] = "complete"]
Forget(k) == known[k] # "none" /\ known' = [known EXCEPT ![k] = "none"]

Next == \E k \in Keys : Receive(k) \/ Answer(k) \/ Forget(k)

Spec == Init /\ [][Next]_known
=============================================================================
