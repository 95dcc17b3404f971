----------------------------- MODULE LossyFifo -----------------------------
(***************************************************************************)
(* What a reader of the acquisition ring is promised: chunks are numbered  *)
(* as they are published, a read returns some chunk newer than the last    *)
(* one it returned, and every chunk it jumps over is reported as dropped,  *)
(* once.  Chunks may be lost, but only to newer ones that took their slots; *)
(* they are never repeated, reordered, invented or lost in silence.        *)
(***************************************************************************)
EXTENDS Integers

CONSTANT SlotCount   \* how many chunks the ring holds

VARIABLES
  published,   \* number of chunks published so far: 0 .. published - 1 exist
  last,        \* sequence number of the newest chunk returned, -1 before any
  delivered,   \* number of chunks returned
  lost         \* sum of the drop counts reported with them

vars == <<published, last, delivered, lost>>

TypeOK ==
  /\ published \in Nat
  /\ last \in Int
  /\ delivered \in Nat
  /\ lost \in Nat

Init ==
  /\ published = 0
  /\ last = -1
  /\ delivered = 0
  /\ lost = 0

Publish ==
  /\ published' = published + 1
  /\ UNCHANGED <<last, delivered, lost>>

(* Chunk s has not been overwritten. *)
Resident(s) == s >= published - SlotCount

(* The next chunk is the one to be returned, unless it was overwritten.    *)
Deliverable(s) ==
  /\ last < s /\ s < published
  /\ IF Resident(last + 1) THEN s = last + 1 ELSE Resident(s)

(* Chunk s is returned; those between the previous one and s are dropped. *)
Deliver(s) ==
  /\ Deliverable(s)
  /\ last' = s
  /\ delivered' = delivered + 1
  /\ lost' = lost + (s - last - 1)
  /\ UNCHANGED published

Next == Publish \/ \E s \in 0 .. published - 1 : Deliver(s)

Spec == Init /\ [][Next]_vars
=============================================================================
